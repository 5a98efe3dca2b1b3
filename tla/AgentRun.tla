------------------------------ MODULE AgentRun ------------------------------
(***************************************************************************)
(* The agent facade of agent.go over its reactor: Ask, Resume, Cancel,     *)
(* Pause, Switch and IsRunning called from several goroutines.             *)
(*                                                                         *)
(* The agent remembers one cancel function and one running flag, both set  *)
(* at the start of AskWithContext and cleared by its deferred clean-up; a  *)
(* reactor holds one pause request and one saved snapshot.  None of the    *)
(* four says whose it is.  Switch puts a new reactor in the place of the   *)
(* agent's: a run that has begun stays with its own.  A run is what        *)
(* RunContract promises of the reactor's loop (module ReactLoop shows it): *)
(* cycles, a budget, and a context that is looked at between cycles.       *)
(*                                                                         *)
(* Agent.snapshot has no variable: the code only ever assigns nil to it.   *)
(* Session history and the answer's text are left out: no guard here reads *)
(* them; what Switch does to them is in module Roles.                      *)
(***************************************************************************)
EXTENDS Integers

CONSTANTS
  Callers,        \* goroutines that use the agent
  MaxTasks,       \* bound of the model: questions asked in one behaviour
  MaxReactors,    \* bound of the model: one reactor and those Switch makes
  MaxIterations,  \* ReactorConfig.MaxIterations
  None            \* nil

ASSUME AgentAssumption ==
  /\ MaxTasks \in Nat
  /\ MaxReactors \in Nat \ {0}
  /\ MaxIterations \in Nat \ {0}
  /\ None \notin Callers

Tasks == 1..MaxTasks
Reactors == 1..MaxReactors

\* What the loop keeps of a task: cycles completed and whether its history
\* tells the loop to stop.
Contexts == [task : Tasks, cycles : Nat, stop : BOOLEAN]

ASSUME NoneAssumption == None \notin Tasks /\ None \notin Contexts

VARIABLES
  cancelFunc,      \* Agent.cancelFunc: the caller whose context it cancels
  isRunning,       \* Agent.isRunning
  reactor,         \* Agent.reactor
  pauseRequested,  \* Reactor.pauseRequested of each reactor
  snapshot,        \* Reactor.snapshotHolder.snap of each reactor
  pc,              \* where each caller is
  runsOn,          \* the reactor of each caller's run
  kind,            \* "ask" or "resume": the call each caller is in
  ctxDone,         \* the context of the caller's call is done
  run,             \* the ReactContext of each caller's run
  asked,           \* questions asked so far
  spent,           \* history variable: cycles completed for each task
  workedOn,        \* history variable: the reactors that ran each task
  paused           \* history variable: what the last Pause hit

agentVars   == <<cancelFunc, isRunning>>
reactorVars == <<pauseRequested, snapshot>>
historyVars == <<asked, spent, workedOn, paused>>
vars == <<agentVars, reactor, reactorVars, pc, runsOn, kind, ctxDone, run, historyVars>>

-----------------------------------------------------------------------------

\* starting: the call has not read a.reactor for its run; head: at the loop's
\* condition; cycle: thinking, acting or observing; left: the result is
\* built; pausing: the pause request is taken; cleanup: the run has returned.
InLoop  == {"head", "cycle"}
Places  == InLoop \cup {"idle", "starting", "left", "pausing", "cleanup"}

NoPause == [task |-> None, reactor |-> 1, inTime |-> FALSE]

Init ==
  /\ cancelFunc = None
  /\ isRunning = FALSE
  /\ reactor = 1
  /\ pauseRequested = [r \in Reactors |-> FALSE]
  /\ snapshot = [r \in Reactors |-> None]
  /\ pc = [c \in Callers |-> "idle"]
  /\ runsOn = [c \in Callers |-> 1]
  /\ kind = [c \in Callers |-> "ask"]
  /\ ctxDone = [c \in Callers |-> FALSE]
  /\ run = [c \in Callers |-> None]
  /\ asked = 0
  /\ spent = [t \in Tasks |-> 0]
  /\ workedOn = [t \in Tasks |-> {}]
  /\ paused = NoPause

-----------------------------------------------------------------------------
\* Calls that run a task.

Ask(c) ==
  /\ pc[c] = "idle"
  /\ asked < MaxTasks
  /\ asked' = asked + 1
  /\ cancelFunc' = c
  /\ isRunning' = TRUE
  /\ kind' = [kind EXCEPT ![c] = "ask"]
  /\ ctxDone' = [ctxDone EXCEPT ![c] = FALSE]
  /\ run' = [run EXCEPT ![c] = [task |-> asked + 1, cycles |-> 0, stop |-> FALSE]]
  /\ pc' = [pc EXCEPT ![c] = "starting"]
  /\ UNCHANGED <<reactor, reactorVars, runsOn, spent, workedOn, paused>>

\* Mutation: Resume does not notice that there is nothing to resume.
Resume_NoNilCheck(c) ==
  /\ pc[c] = "idle"
  /\ snapshot' = [snapshot EXCEPT ![reactor] = None]
  /\ kind' = [kind EXCEPT ![c] = "resume"]
  /\ ctxDone' = [ctxDone EXCEPT ![c] = FALSE]
  /\ run' = [run EXCEPT ![c] = snapshot[reactor]]
  /\ pc' = [pc EXCEPT ![c] = "cleanup"]
  /\ paused' = NoPause
  /\ UNCHANGED <<agentVars, reactor, pauseRequested, runsOn, asked, spent, workedOn>>

\* Mutation: PeekSnapshot in the place of ConsumeSnapshot.
Resume_Peek(c) ==
  /\ pc[c] = "idle"
  /\ snapshot[reactor] # None
  /\ kind' = [kind EXCEPT ![c] = "resume"]
  /\ ctxDone' = [ctxDone EXCEPT ![c] = FALSE]
  /\ run' = [run EXCEPT ![c] = snapshot[reactor]]
  /\ pc' = [pc EXCEPT ![c] = "starting"]
  /\ paused' = NoPause
  /\ UNCHANGED <<agentVars, reactor, reactorVars, runsOn, asked, spent, workedOn>>

\* ConsumeSnapshot; RunFromSnapshot will run it on a background context, and
\* neither cancelFunc nor isRunning is set.  Without a snapshot Resume only
\* fails.
Resume(c) ==
  /\ pc[c] = "idle"
  /\ snapshot[reactor] # None
  /\ snapshot' = [snapshot EXCEPT ![reactor] = None]
  /\ kind' = [kind EXCEPT ![c] = "resume"]
  /\ ctxDone' = [ctxDone EXCEPT ![c] = FALSE]
  /\ run' = [run EXCEPT ![c] = snapshot[reactor]]
  /\ pc' = [pc EXCEPT ![c] = "starting"]
  /\ paused' = NoPause
  /\ UNCHANGED <<agentVars, reactor, pauseRequested, runsOn, asked, spent, workedOn>>

\* Run and RunFromSnapshot are called on the reactor of this moment, outside
\* the lock.
StartRun(c) ==
  /\ pc[c] = "starting"
  /\ runsOn' = [runsOn EXCEPT ![c] = reactor]
  /\ workedOn' = [workedOn EXCEPT ![run[c].task] = workedOn[run[c].task] \cup {reactor}]
  /\ pc' = [pc EXCEPT ![c] = "head"]
  /\ UNCHANGED <<agentVars, reactor, reactorVars, kind, ctxDone, run, asked, spent, paused>>

LeaveLoop(c) ==
  /\ pc[c] = "head"
  /\ run[c].cycles >= MaxIterations \/ ctxDone[c] \/ run[c].stop
  /\ pc' = [pc EXCEPT ![c] = "left"]
  /\ UNCHANGED <<agentVars, reactor, reactorVars, runsOn, kind, ctxDone, run, historyVars>>

BeginCycle(c) ==
  /\ pc[c] = "head"
  /\ run[c].cycles < MaxIterations
  /\ ~ctxDone[c]
  /\ ~run[c].stop
  /\ pc' = [pc EXCEPT ![c] = "cycle"]
  /\ UNCHANGED <<agentVars, reactor, reactorVars, runsOn, kind, ctxDone, run, historyVars>>

CompleteCycle(c) ==
  /\ pc[c] = "cycle"
  /\ \E stop \in BOOLEAN :
       run' = [run EXCEPT ![c] = [task   |-> run[c].task,
                                  cycles |-> run[c].cycles + 1,
                                  stop   |-> stop]]
  /\ spent' = [spent EXCEPT ![run[c].task] = spent[run[c].task] + 1]
  /\ pc' = [pc EXCEPT ![c] = "head"]
  /\ UNCHANGED <<agentVars, reactor, reactorVars, runsOn, kind, ctxDone, asked, workedOn, paused>>

\* Mutation: a think error is retried without counting the cycle.
ThinkError_Retries(c) ==
  /\ pc[c] = "cycle"
  /\ pc' = [pc EXCEPT ![c] = "head"]
  /\ UNCHANGED <<agentVars, reactor, reactorVars, runsOn, kind, ctxDone, run, historyVars>>

\* "think error" breaks out of the loop in the middle of a cycle.
ThinkError(c) ==
  /\ pc[c] = "cycle"
  /\ pc' = [pc EXCEPT ![c] = "left"]
  /\ UNCHANGED <<agentVars, reactor, reactorVars, runsOn, kind, ctxDone, run, historyVars>>

\* Mutation: the request is cleared before it is read.
TakePauseRequest_ClearsFirst(c) ==
  /\ pc[c] = "left"
  /\ pc' = [pc EXCEPT ![c] = "cleanup"]
  /\ pauseRequested' = [pauseRequested EXCEPT ![runsOn[c]] = FALSE]
  /\ UNCHANGED <<agentVars, reactor, snapshot, runsOn, kind, ctxDone, run, historyVars>>

\* handlePauseSnapshot reads and clears the request under pauseMu ...
TakePauseRequest(c) ==
  /\ pc[c] = "left"
  /\ pc' = [pc EXCEPT ![c] = IF pauseRequested[runsOn[c]] THEN "pausing" ELSE "cleanup"]
  /\ pauseRequested' = [pauseRequested EXCEPT ![runsOn[c]] = FALSE]
  /\ UNCHANGED <<agentVars, reactor, snapshot, runsOn, kind, ctxDone, run, historyVars>>

\* Mutation: ToSnapshot forgets CurrentIteration.
SaveSnapshot_LosesIteration(c) ==
  /\ pc[c] = "pausing"
  /\ snapshot' = [snapshot EXCEPT ![runsOn[c]] = [run[c] EXCEPT !.cycles = 0]]
  /\ pc' = [pc EXCEPT ![c] = "cleanup"]
  /\ UNCHANGED <<agentVars, reactor, pauseRequested, runsOn, kind, ctxDone, run, historyVars>>

\* ... and stores the snapshot under the lock of the snapshot holder.
SaveSnapshot(c) ==
  /\ pc[c] = "pausing"
  /\ snapshot' = [snapshot EXCEPT ![runsOn[c]] = run[c]]
  /\ pc' = [pc EXCEPT ![c] = "cleanup"]
  /\ UNCHANGED <<agentVars, reactor, pauseRequested, runsOn, kind, ctxDone, run, historyVars>>

\* Mutation: the clean-up forgets cancelFunc.
ReturnFromAsk_KeepsCancel(c) ==
  /\ pc[c] = "cleanup"
  /\ kind[c] = "ask"
  /\ ctxDone' = [ctxDone EXCEPT ![c] = TRUE]
  /\ isRunning' = FALSE
  /\ pc' = [pc EXCEPT ![c] = "idle"]
  /\ UNCHANGED <<cancelFunc, reactor, reactorVars, runsOn, kind, run, historyVars>>

\* Mutation: the clean-up forgets isRunning.
ReturnFromAsk_KeepsRunning(c) ==
  /\ pc[c] = "cleanup"
  /\ kind[c] = "ask"
  /\ ctxDone' = [ctxDone EXCEPT ![c] = TRUE]
  /\ cancelFunc' = None
  /\ pc' = [pc EXCEPT ![c] = "idle"]
  /\ UNCHANGED <<isRunning, reactor, reactorVars, runsOn, kind, run, historyVars>>

\* The deferred function of AskWithContext.
ReturnFromAsk(c) ==
  /\ pc[c] = "cleanup"
  /\ kind[c] = "ask"
  /\ ctxDone' = [ctxDone EXCEPT ![c] = TRUE]
  /\ cancelFunc' = None
  /\ isRunning' = FALSE
  /\ pc' = [pc EXCEPT ![c] = "idle"]
  /\ UNCHANGED <<reactor, reactorVars, runsOn, kind, run, historyVars>>

ReturnFromResume(c) ==
  /\ pc[c] = "cleanup"
  /\ kind[c] = "resume"
  /\ pc' = [pc EXCEPT ![c] = "idle"]
  /\ UNCHANGED <<agentVars, reactor, reactorVars, runsOn, kind, ctxDone, run, historyVars>>

-----------------------------------------------------------------------------
\* Calls that interrupt one, and the context of the call itself.

CancelContext ==
  ctxDone' = IF cancelFunc = None THEN ctxDone
             ELSE [ctxDone EXCEPT ![cancelFunc] = TRUE]

Cancel ==
  /\ cancelFunc # None
  /\ CancelContext
  /\ UNCHANGED <<agentVars, reactor, reactorVars, pc, runsOn, kind, run, historyVars>>

\* The request goes to the reactor of this moment, the cancel to the call.
Pause ==
  /\ isRunning
  /\ pauseRequested' = [pauseRequested EXCEPT ![reactor] = TRUE]
  /\ CancelContext
  /\ paused' = [task    |-> run[cancelFunc].task,
                reactor |-> reactor,
                inTime  |-> pc[cancelFunc] \in InLoop \cup {"starting", "left"}]
  /\ UNCHANGED <<agentVars, reactor, snapshot, pc, runsOn, kind, run, asked, spent, workedOn>>

\* Mutation: the new reactor is a copy of the old one, with what waits in it.
Switch_CopiesReactor ==
  /\ reactor < MaxReactors
  /\ reactor' = reactor + 1
  /\ pauseRequested' = [pauseRequested EXCEPT ![reactor + 1] = pauseRequested[reactor]]
  /\ snapshot' = [snapshot EXCEPT ![reactor + 1] = snapshot[reactor]]
  /\ UNCHANGED <<agentVars, pc, runsOn, kind, ctxDone, run, historyVars>>

\* CloneReactor leaves the pause request and the snapshot behind.
Switch ==
  /\ reactor < MaxReactors
  /\ reactor' = reactor + 1
  /\ UNCHANGED <<agentVars, reactorVars, pc, runsOn, kind, ctxDone, run, historyVars>>

\* The caller's own context, or Ask's five-minute timeout.
AskTimeout(c) ==
  /\ pc[c] # "idle"
  /\ kind[c] = "ask"
  /\ ~ctxDone[c]
  /\ ctxDone' = [ctxDone EXCEPT ![c] = TRUE]
  /\ UNCHANGED <<agentVars, reactor, reactorVars, pc, runsOn, kind, run, historyVars>>

-----------------------------------------------------------------------------

CallStep(c) == \/ StartRun(c) \/ LeaveLoop(c) \/ BeginCycle(c)
               \/ CompleteCycle(c) \/ ThinkError(c) \/ TakePauseRequest(c) \/ SaveSnapshot(c)
               \/ ReturnFromAsk(c) \/ ReturnFromResume(c)

Next == \/ \E c \in Callers : Ask(c) \/ Resume(c) \/ AskTimeout(c) \/ CallStep(c)
        \/ Cancel
        \/ Pause
        \/ Switch

\* A goroutine inside a call keeps running; nobody has to call, cancel,
\* pause, resume or switch.
Spec == Init /\ [][Next]_vars /\ \A c \in Callers : WF_vars(CallStep(c))

-----------------------------------------------------------------------------

TypeOK ==
  /\ cancelFunc \in Callers \cup {None}
  /\ isRunning \in BOOLEAN
  /\ reactor \in Reactors
  /\ pauseRequested \in [Reactors -> BOOLEAN]
  /\ snapshot \in [Reactors -> Contexts \cup {None}]
  /\ pc \in [Callers -> Places]
  /\ runsOn \in [Callers -> Reactors]
  /\ kind \in [Callers -> {"ask", "resume"}]
  /\ ctxDone \in [Callers -> BOOLEAN]
  /\ run \in [Callers -> Contexts \cup {None}]
  /\ asked \in 0..MaxTasks
  /\ spent \in [Tasks -> Nat]
  /\ workedOn \in [Tasks -> SUBSET Reactors]
  /\ paused \in [task : Tasks \cup {None}, reactor : Reactors, inTime : BOOLEAN]
  /\ \A c \in Callers : pc[c] # "idle" => run[c] # None

\* Cancel and Pause never act on a call that is over, whatever the order in
\* which calls start and clean up; the two fields of the agent agree.
InterruptReachesAnOpenAsk ==
  /\ isRunning <=> cancelFunc # None
  /\ isRunning => pc[cancelFunc] # "idle" /\ kind[cancelFunc] = "ask"

\* Two runs never work on the same task, and a task that waits to be resumed,
\* in whichever reactor, is not being worked on: a snapshot is handed out once,
\* even to racing Resume calls and with the reactor switched between them.
OneWorkerPerTask ==
  /\ \A c, d \in Callers :
       c # d /\ pc[c] \in InLoop /\ pc[d] \in InLoop => run[c].task # run[d].task
  /\ \A c \in Callers :
       \A r \in Reactors :
         pc[c] \in InLoop /\ snapshot[r] # None => run[c].task # snapshot[r].task

\* The budget of a task holds over all the calls that work on it: pausing and
\* resuming never buys a task more than MaxIterations cycles.
BudgetPerTask == \A t \in Tasks : spent[t] <= MaxIterations

\* Agent.IsRunning's comment: true iff an Ask call is in progress.
IsRunningIsExact ==
  isRunning <=> \E c \in Callers : pc[c] # "idle" /\ kind[c] = "ask"

AllIdle == \A c \in Callers : pc[c] = "idle"

\* A Pause that arrives before the run has looked at the request is honoured:
\* once the call is over its task is the one waiting to be resumed, in the
\* reactor that was asked to pause, even when the agent has another by now.
TimelyPauseIsSaved ==
  AllIdle /\ paused.inTime =>
    /\ snapshot[paused.reactor] # None
    /\ snapshot[paused.reactor].task = paused.task

\* A task is only ever worked on by the reactor it was asked of: a role does
\* not go on with what another role had begun.
OneReactorPerTask == \A t \in Tasks : \A r, s \in workedOn[t] : r = s

\* Every call returns, whoever else asks, resumes, cancels and pauses.
EveryCallReturns == \A c \in Callers : pc[c] # "idle" ~> pc[c] = "idle"

=============================================================================
