--------------------------- MODULE AgentDirectory ---------------------------
(***************************************************************************)
(* Definitions of agents and what is known of them at run time:            *)
(* AgentRegistry of agent_registry.go with its markdown files, the         *)
(* RuntimeDirectory of core/runtime.go, and the tools CreateAgent, Rank    *)
(* and FindAgent that work on them.                                        *)
(*                                                                         *)
(* A file is read back as the definition that was written.  An             *)
(* introduction has no line ---, which the loader drops, and no blanks at  *)
(* its ends; a description has no line --- either.                         *)
(*                                                                         *)
(* The registry has no lock and a tool makes several calls, so each call   *)
(* and each half of SaveTo is a step.  The process may end between any two *)
(* and start again with LoadAgentsFrom; files remain.                      *)
(***************************************************************************)
EXTENDS Integers, FiniteSets

CONSTANTS
  Files, Spellings,  \* a name is its file, strings.ToLower of it, and a spelling
  Callers,           \* goroutines that call the tools
  Scores,            \* what Rank is given
  MaxSize,           \* of the directory; 0 is unlimited
  DiskFails,         \* TRUE: a file may fail to be written
  Restarts,          \* TRUE: the process may end and start again
  Admin,             \* TRUE: Remove and Unregister are called
  SomeStates,        \* what SetState is given
  Description,       \* of each name: the queries that its description contains
  MaxRanks,          \* bound: calls of Rank
  None, Broken       \* no file or entry; a file that does not parse

VARIABLES
  files,      \* the directory of definitions
  agents,     \* AgentRegistry.agents
  directory,  \* RuntimeDirectory.agents
  caller      \* what each goroutine is at

vars == <<files, agents, directory, caller>>

AgentNames == Files \X Spellings
FileOf(n) == n[1]
States == {"idle", "busy", "coordinating", "dormant", "error"}

\* A definition is known by who wrote it; its introduction may have been cut.
AgentConfig(n, by) == [name |-> n, by |-> by, whole |-> TRUE]
AgentConfigs == [name : AgentNames, by : Callers, whole : BOOLEAN]

Metas == [state : States, score : Scores \cup {0}, taskCount : Nat]
NewAgentRuntimeMeta == [state |-> "idle", score |-> 0, taskCount |-> 0]
Idle == [at |-> "idle", name |-> None, score |-> 0]

DirectoryAssumption ==
  /\ Scores \subseteq 0..3
  /\ MaxSize \in Nat /\ MaxRanks \in Nat
  /\ {DiskFails, Restarts, Admin} \subseteq BOOLEAN
  /\ SomeStates \subseteq States
  /\ None # Broken /\ None \notin AgentNames
  /\ {None, Broken} \cap AgentConfigs = {} /\ None \notin Metas

Init ==
  /\ files = [f \in Files |-> None]
  /\ agents = [n \in AgentNames |-> None]
  /\ directory = [n \in AgentNames |-> None]
  /\ caller = [c \in Callers |-> Idle]

-----------------------------------------------------------------------------
(* CreateAgent *)

Known(n)      == agents[n] # None
Registered(n) == directory[n] # None
Count         == Cardinality({n \in AgentNames : Registered(n)})

Goto(c, at) == caller' = [caller EXCEPT ![c].at = at]
Return(c)   == caller' = [caller EXCEPT ![c] = Idle]

\* A name that is taken is an error.
CallCreate(c, n) ==
  /\ caller[c].at = "idle"
  /\ ~ Known(n)
  /\ caller' = [caller EXCEPT ![c] = [at |-> "save", name |-> n, score |-> 0]]
  /\ UNCHANGED <<files, agents, directory>>

\* SaveTo writes the file.
WriteFile(c) ==
  LET n == caller[c].name IN
    /\ caller[c].at = "save"
    /\ files' = [files EXCEPT ![FileOf(n)] = AgentConfig(n, c)]
    /\ Goto(c, "insert")
    /\ UNCHANGED <<agents, directory>>

\* Mutation: what is known is not what was written.
WriteFails_Known(c) ==
  LET n == caller[c].name IN
    /\ DiskFails
    /\ caller[c].at = "save"
    /\ agents' = [agents EXCEPT ![n] = AgentConfig(n, c)]
    /\ Return(c)
    /\ UNCHANGED <<files, directory>>

\* It cannot be opened; or writing fails, or the process ends, and what is written
\* by then remains: less than the front matter, which does not parse, or that and a
\* part of the introduction.
WriteFails(c) ==
  LET n == caller[c].name IN
    /\ DiskFails
    /\ caller[c].at = "save"
    /\ \E left \in {files[FileOf(n)], Broken, [AgentConfig(n, c) EXCEPT !.whole = FALSE]} :
         files' = [files EXCEPT ![FileOf(n)] = left]
    /\ Return(c)
    /\ UNCHANGED <<agents, directory>>

\* SaveTo puts the definition into the map.
Insert(c) ==
  /\ caller[c].at = "insert"
  /\ agents' = [agents EXCEPT ![caller[c].name] = AgentConfig(caller[c].name, c)]
  /\ Goto(c, "register")
  /\ UNCHANGED <<files, directory>>

\* Mutation: the entry that was registered last gives way.
Register_Evicts(c) ==
  LET n == caller[c].name IN
    /\ caller[c].at = "register"
    /\ directory' = [m \in AgentNames |-> IF m = n THEN NewAgentRuntimeMeta
                                     ELSE IF FileOf(m) = FileOf(n) THEN None ELSE directory[m]]
    /\ Return(c)
    /\ UNCHANGED <<files, agents>>

\* Register; CreateAgent ignores that it fails.
Register(c) ==
  LET n == caller[c].name IN
    /\ caller[c].at = "register"
    /\ IF Registered(n) \/ (MaxSize > 0 /\ Count >= MaxSize)
       THEN UNCHANGED directory
       ELSE directory' = [directory EXCEPT ![n] = NewAgentRuntimeMeta]
    /\ Return(c)
    /\ UNCHANGED <<files, agents>>

-----------------------------------------------------------------------------
(* Rank *)

CallRank(c, n, score) ==
  /\ caller[c].at = "idle"
  /\ Registered(n)
  /\ directory[n].taskCount < MaxRanks
  /\ caller' = [caller EXCEPT ![c] = [at |-> "score", name |-> n, score |-> score]]
  /\ UNCHANGED <<files, agents, directory>>

\* SetScore: no operation if the agent is not there any more.
SetScore(c) ==
  LET n == caller[c].name IN
    /\ caller[c].at = "score"
    /\ directory' = IF Registered(n) THEN [directory EXCEPT ![n].score = caller[c].score] ELSE directory
    /\ Goto(c, "count")
    /\ UNCHANGED <<files, agents>>

IncrementTaskCount(c) ==
  LET n == caller[c].name IN
    /\ caller[c].at = "count"
    /\ directory' = IF Registered(n) THEN [directory EXCEPT ![n].taskCount = @ + 1] ELSE directory
    /\ Return(c)
    /\ UNCHANGED <<files, agents>>

-----------------------------------------------------------------------------
(* FindAgent *)

IsAvailable(n) == directory[n].state \in {"idle", "dormant"}

FindByDescription(query) ==
  {n \in AgentNames : Registered(n) /\ directory[n].state # "error" /\ query \in Description[n]}

\* What is listed, in any order: the map is listed as it comes.
FindAgent(query, minScore, availableOnly) ==
  {n \in FindByDescription(query) :
     directory[n].score >= minScore /\ (availableOnly => IsAvailable(n))}

-----------------------------------------------------------------------------

\* Mutation: the file stays.
RemoveAgent_KeepsFile(n) ==
  /\ Admin
  /\ Known(n)
  /\ agents' = [agents EXCEPT ![n] = None]
  /\ UNCHANGED <<files, directory, caller>>

\* Remove of the registry: an error if the file is not there.
RemoveAgent(n) ==
  /\ Admin
  /\ Known(n)
  /\ files[FileOf(n)] # None
  /\ files' = [files EXCEPT ![FileOf(n)] = None]
  /\ agents' = [agents EXCEPT ![n] = None]
  /\ UNCHANGED <<directory, caller>>

Unregister(n) ==
  /\ Admin
  /\ Registered(n)
  /\ directory' = [directory EXCEPT ![n] = None]
  /\ UNCHANGED <<files, agents, caller>>

SetState(n, s) ==
  /\ Registered(n)
  /\ directory' = [directory EXCEPT ![n].state = s]
  /\ UNCHANGED <<files, agents, caller>>

\* LoadAgentsFrom: by the name in the file; files that do not parse are skipped.
LoadAgentsFrom ==
  [n \in AgentNames |-> IF files[FileOf(n)] \in AgentConfigs /\ files[FileOf(n)].name = n
                   THEN files[FileOf(n)] ELSE None]

\* The process ends and starts again.  The library fills no directory.
Restart ==
  /\ Restarts
  /\ agents' = LoadAgentsFrom
  /\ directory' = [n \in AgentNames |-> None]
  /\ caller' = [c \in Callers |-> Idle]
  /\ UNCHANGED files

Next ==
  \/ \E c \in Callers :
       \/ WriteFile(c) \/ WriteFails(c) \/ Insert(c) \/ Register(c) \/ SetScore(c) \/ IncrementTaskCount(c)
       \/ \E n \in AgentNames : CallCreate(c, n) \/ \E score \in Scores : CallRank(c, n, score)
  \/ \E n \in AgentNames : RemoveAgent(n) \/ Unregister(n) \/ \E s \in SomeStates : SetState(n, s)
  \/ Restart

Spec == Init /\ [][Next]_vars

-----------------------------------------------------------------------------

TypeOK ==
  /\ files \in [Files -> AgentConfigs \cup {None, Broken}]
  /\ agents \in [AgentNames -> AgentConfigs \cup {None}]
  /\ directory \in [AgentNames -> Metas \cup {None}]
  /\ \A c \in Callers : /\ caller[c].at \in {"idle", "save", "insert", "register", "score", "count"}
                        /\ caller[c].name \in AgentNames \cup {None}

Quiet == \A c \in Callers : caller[c].at \in {"idle", "register", "score", "count"}

\* What the process knows is what it would know after a restart, wherever an
\* earlier one ended: no definition is lost and none comes back.  The exception is
\* one that could not be written and was left with a part of its introduction:
\* its creation has failed, and the next process knows the agent.
RegistryIsOnDisk ==
  Quiet => \A n \in AgentNames :
    \/ agents[n] = LoadAgentsFrom[n]
    \/ agents[n] = None /\ ~LoadAgentsFrom[n].whole

\* CreateAgent's prompt: once created, the agent appears in FindAgent results.
\* It does so for any query of its description, unless it is in a state that is
\* not listed.
CreatedCanBeFound ==
  \A n \in AgentNames : Known(n) /\ (\A c \in Callers : caller[c].at = "idle") =>
    /\ Registered(n)
    /\ \A query \in Description[n] :
         /\ directory[n].state # "error" => n \in FindAgent(query, 0, FALSE)
         /\ IsAvailable(n) => n \in FindAgent(query, 0, TRUE)

=============================================================================
