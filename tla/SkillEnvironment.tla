-------------------------- MODULE SkillEnvironment --------------------------
(***************************************************************************)
(* The Python environments of skills, tools/run_script.go: the first       *)
(* script of a skill makes its virtual environment and installs what its   *)
(* requirements name; scripts that come meanwhile wait for that.           *)
(*                                                                         *)
(* Environments are directories and outlive the process; the managers,     *)
(* one for each path by which a skill is named, do not.                    *)
(***************************************************************************)
EXTENDS Naturals

CONSTANTS
  Scripts,     \* RunScript calls of Python scripts, each made once
  Roots,       \* clean paths by which skill directories are named
  RootOf,      \* the path each call names
  DirOf,       \* the directory behind each path
  MayFail,     \* TRUE: venv and pip may fail
  MaxEdits,    \* bound: changes of a requirements.txt
  MaxRestarts  \* bound: restarts of the process

EnvironmentAssumption ==
  /\ RootOf \in [Scripts -> Roots]
  /\ MayFail \in BOOLEAN /\ MaxEdits \in Nat /\ MaxRestarts \in Nat

VARIABLES
  at,        \* where each call is
  once,      \* venvManager.once of each path
  venv,      \* the .venv of each directory
  required,  \* version of its requirements.txt
  installed, \* version that was last installed in it; 0 for none
  asked,     \* history variable: the version that was required when a call began
  restarts   \* restarts so far

vars == <<at, once, venv, required, installed, asked, restarts>>

Dirs == {DirOf[r] : r \in Roots}
Dir(s) == DirOf[RootOf[s]]
Versions == 0..(MaxEdits + 1)

Init ==
  /\ at = [s \in Scripts |-> "idle"]
  /\ once = [r \in Roots |-> "new"]
  /\ venv = [d \in Dirs |-> "absent"]
  /\ required = [d \in Dirs |-> 1]
  /\ installed = [d \in Dirs |-> 0]
  /\ asked = [s \in Scripts |-> 0]
  /\ restarts = 0

Goto(s, where) == at' = [at EXCEPT ![s] = where]

-----------------------------------------------------------------------------

Call(s) ==
  /\ at[s] = "idle"
  /\ asked' = [asked EXCEPT ![s] = required[Dir(s)]]
  /\ Goto(s, "ensure")
  /\ UNCHANGED <<once, venv, required, installed, restarts>>

\* Mutation: a flag instead of a Once: those that come meanwhile do not wait.
Ensure_NoWait(s) ==
  /\ at[s] = "ensure"
  /\ IF once[RootOf[s]] = "new"
     THEN once' = [once EXCEPT ![RootOf[s]] = "busy"] /\ Goto(s, "create")
     ELSE Goto(s, "run") /\ UNCHANGED once
  /\ UNCHANGED <<venv, required, installed, asked, restarts>>

\* Mutation: a manager of its own for every call.
Ensure_OwnManager(s) ==
  /\ at[s] = "ensure"
  /\ once' = [once EXCEPT ![RootOf[s]] = "busy"] /\ Goto(s, "create")
  /\ UNCHANGED <<venv, required, installed, asked, restarts>>

\* ensureVenv: the first call of a manager sets up, others wait for it and
\* then get no error.
Ensure(s) ==
  /\ at[s] = "ensure"
  /\ CASE once[RootOf[s]] = "new"  -> once' = [once EXCEPT ![RootOf[s]] = "busy"] /\ Goto(s, "create")
       [] once[RootOf[s]] = "done" -> Goto(s, "run") /\ UNCHANGED once
       [] OTHER -> FALSE
  /\ UNCHANGED <<venv, required, installed, asked, restarts>>

\* initOnce makes the environment if there is no directory.
StartCreate(s) ==
  /\ at[s] = "create"
  /\ IF venv[Dir(s)] = "absent"
     THEN venv' = [venv EXCEPT ![Dir(s)] = "partial"] /\ Goto(s, "creating")
     ELSE Goto(s, "install") /\ UNCHANGED venv
  /\ UNCHANGED <<once, required, installed, asked, restarts>>

EndCreate(s) ==
  /\ at[s] = "creating"
  /\ venv' = [venv EXCEPT ![Dir(s)] = "ready"]
  /\ Goto(s, "install")
  /\ UNCHANGED <<once, required, installed, asked, restarts>>

\* pip install -r requirements.txt.
Install(s) ==
  /\ at[s] = "install"
  /\ venv[Dir(s)] = "ready"
  /\ installed' = [installed EXCEPT ![Dir(s)] = required[Dir(s)]]
  /\ once' = [once EXCEPT ![RootOf[s]] = "done"]
  /\ Goto(s, "run")
  /\ UNCHANGED <<venv, required, asked, restarts>>

\* Mutation: the manager notes that its set-up has failed.
SetupFails_Noted(s) ==
  /\ at[s] \in {"creating", "install"}
  /\ MayFail \/ (at[s] = "install" /\ venv[Dir(s)] # "ready")
  /\ once' = [once EXCEPT ![RootOf[s]] = "failed"]
  /\ Goto(s, "failed")
  /\ UNCHANGED <<venv, required, installed, asked, restarts>>

\* Mutation: the calls that wait are not released.
SetupFails_Busy(s) ==
  /\ at[s] \in {"creating", "install"}
  /\ MayFail \/ (at[s] = "install" /\ venv[Dir(s)] # "ready")
  /\ Goto(s, "failed")
  /\ UNCHANGED <<once, venv, required, installed, asked, restarts>>

\* A step of the set-up fails, as pip does in an unfinished environment.  The
\* Once is done all the same.
SetupFails(s) ==
  /\ at[s] \in {"creating", "install"}
  /\ MayFail \/ (at[s] = "install" /\ venv[Dir(s)] # "ready")
  /\ once' = [once EXCEPT ![RootOf[s]] = "done"]
  /\ Goto(s, "failed")
  /\ UNCHANGED <<venv, required, installed, asked, restarts>>

\* The interpreter is started, and is not found in an unfinished environment.
Run(s) ==
  /\ at[s] = "run"
  /\ Goto(s, IF venv[Dir(s)] = "ready" THEN "ran" ELSE "failed")
  /\ UNCHANGED <<once, venv, required, installed, asked, restarts>>

EditRequirements ==
  \E d \in Dirs :
    /\ required[d] <= MaxEdits
    /\ required' = [required EXCEPT ![d] = @ + 1]
    /\ UNCHANGED <<at, once, venv, installed, asked, restarts>>

\* The process ends and starts anew; calls in progress are gone.
Restart ==
  /\ restarts < MaxRestarts
  /\ restarts' = restarts + 1
  /\ at' = [s \in Scripts |-> IF at[s] \in {"idle", "ran"} THEN at[s] ELSE "failed"]
  /\ once' = [r \in Roots |-> "new"]
  /\ UNCHANGED <<venv, required, installed, asked>>

Step(s) ==
  Ensure(s) \/ StartCreate(s) \/ EndCreate(s) \/ Install(s) \/ SetupFails(s) \/ Run(s)

Next ==
  \/ \E s \in Scripts : Call(s) \/ Step(s)
  \/ EditRequirements
  \/ Restart

Spec == Init /\ [][Next]_vars

\* A call that can go on does; venv, pip and the script return.
FairSpec == Spec /\ \A s \in Scripts : WF_vars(Step(s))

-----------------------------------------------------------------------------

TypeOK ==
  /\ at \in [Scripts -> {"idle", "ensure", "create", "creating", "install", "run", "ran", "failed"}]
  /\ once \in [Roots -> {"new", "busy", "done"}]
  /\ venv \in [Dirs -> {"absent", "partial", "ready"}]
  /\ required \in [Dirs -> Versions] /\ installed \in [Dirs -> Versions]
  /\ asked \in [Scripts -> Versions]
  /\ restarts \in 0..MaxRestarts

\* RunScript's prompt: the dependencies are managed.  A script finds installed
\* what was required when it was called, or something later.
ScriptsFindTheirRequirements ==
  \A s \in Scripts : at[s] = "ran" => installed[Dir(s)] >= asked[s]

\* One environment per skill: no two calls set up one directory at a time.
OneSetupAtATime ==
  \A s, t \in Scripts :
    at[s] \in {"creating", "install"} /\ at[t] \in {"creating", "install"} /\ Dir(s) = Dir(t) => s = t

\* Every call returns, if venv, pip and the script do.
EveryScriptReturns ==
  \A s \in Scripts : at[s] = "ensure" ~> at[s] \in {"ran", "failed"}

=============================================================================
