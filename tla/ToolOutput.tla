----------------------------- MODULE ToolOutput -----------------------------
(***************************************************************************)
(* What becomes of the output of tools: the budget and the limits of       *)
(* core/tool_executor.go, the files of core/tool_result_storage.go and     *)
(* reactor/offload.go.                                                     *)
(*                                                                         *)
(* An executor counts the characters of a cycle's results.  A reactor      *)
(* resets the count when a cycle begins; a reactor and its clones share    *)
(* one executor, and an asynchronous tool may end in a later cycle.  The   *)
(* results of a cycle are joined into one message, which is offloaded to   *)
(* a file if it is large and meant to be restored before the model is      *)
(* asked again.                                                            *)
(*                                                                         *)
(* Output is its length.  That a tool is found, permitted and does not     *)
(* fail is assumed here; ReactLoop has the outcomes of a call.             *)
(***************************************************************************)
EXTENDS Integers, FiniteSets, SequencesExt

CONSTANTS
  Runs,             \* reactors that share the executor and run
  Sizes,            \* lengths of the output of tools
  MaxPersistChars,  \* maxPersistChars
  MaxResultSize,    \* ToolResultLimits.MaxResultSizeChars
  MaxCycleChars,    \* ToolResultLimits.MaxToolResultsPerMessageChars
  OffloadThreshold,
  AsyncTools,       \* TRUE: the model may call an asynchronous tool
  DiskFails,        \* TRUE: a file may not be written
  MaxCycles,        \* bounds: cycles of a run and calls of a cycle
  MaxCalls

ToolOutputAssumption ==
  /\ Sizes \subseteq Nat
  /\ {MaxPersistChars, MaxResultSize, MaxCycleChars, OffloadThreshold} \subseteq Nat \ {0}
  /\ {AsyncTools, DiskFails} \subseteq BOOLEAN
  /\ MaxCycles \in Nat /\ MaxCalls \in Nat

VARIABLES
  charsUsed,  \* of the executor
  running,    \* asynchronous tools that have not ended, of each run
  pc,         \* "idle" between cycles, "act" in one
  cycle,      \* cycles each run has begun
  results,    \* what the sync tools of the cycle returned
  history     \* ConversationHistory: the tool messages

vars == <<charsUsed, running, pc, cycle, results, history>>

\* A processed result: its length, how much of it is shown, where the rest is.
Result(size, shown, rest) == [size |-> size, shown |-> shown, rest |-> rest]

\* A message: what it begins with and whether it holds the results or refers to
\* their file.
Message(begins, body, size) == [begins |-> begins, body |-> body, size |-> size]

\* A new run, of a conversation without messages.
Init ==
  /\ charsUsed = 0
  /\ running = [r \in Runs |-> 0]
  /\ pc = [r \in Runs |-> "idle"]
  /\ cycle = [r \in Runs |-> 0]
  /\ results = [r \in Runs |-> <<>>]
  /\ history = [r \in Runs |-> <<>>]

-----------------------------------------------------------------------------

\* Mutation: the preview is twice the limit instead of half of it.
Persisted_LongPreview(size) == {Result(size, 2 * MaxPersistChars, "file")}

\* PersistToDisk and PersistedResultTag: a file and a preview, or, when the
\* file cannot be written, the preview of an empty text.
Persisted(size) ==
  {Result(size, MaxPersistChars \div 2, "file")}
    \cup (IF DiskFails THEN {Result(size, 0, "lost")} ELSE {})

\* What is shown of a result when the budget of the cycle is spent.
Cut(size) == IF size > MaxResultSize THEN Result(size, MaxResultSize, "cut") ELSE Result(size, size, "none")

\* Mutation: the result itself is not counted.
ProcessedWithCount_NotItself(size, count) ==
  IF count - size > MaxCycleChars THEN {Cut(size)}
  ELSE IF size > MaxPersistChars THEN Persisted(size)
                                 ELSE {Result(size, size, "none")}

\* processResult after it has counted: what may become of output of this length.
ProcessedWithCount(size, count) ==
  IF count > MaxCycleChars THEN {Cut(size)}
  ELSE IF size > MaxPersistChars THEN Persisted(size)
                                 ELSE {Result(size, size, "none")}

\* A message is a reference if it begins with the marker.
isOffloadReference(m) == m.begins = "marker" /\ m.body = "reference"

restoreOffloadedResults(h) ==
  [i \in DOMAIN h |-> IF isOffloadReference(h[i]) THEN Message("text", "results", h[i].size) ELSE h[i]]

\* Mutation: the count is not reset.
ResetCycle_Keeps == charsUsed' = charsUsed

ResetCycle == charsUsed' = 0

\* runLoop: a cycle begins; Think restores what was offloaded.
BeginCycle(r) ==
  /\ pc[r] = "idle"
  /\ cycle[r] < MaxCycles
  /\ ResetCycle
  /\ pc' = [pc EXCEPT ![r] = "act"]
  /\ cycle' = [cycle EXCEPT ![r] = @ + 1]
  /\ results' = [results EXCEPT ![r] = <<>>]
  /\ history' = [history EXCEPT ![r] = restoreOffloadedResults(@)]
  /\ UNCHANGED running

\* Execute of a synchronous tool.
Execute(r, size) ==
  /\ pc[r] = "act"
  /\ Len(results[r]) < MaxCalls
  /\ charsUsed' = charsUsed + size
  /\ \E res \in ProcessedWithCount(size, charsUsed') :
       results' = [results EXCEPT ![r] = Append(@, res)]
  /\ UNCHANGED <<running, pc, cycle, history>>

\* Execute of a tool with MaxResultSizeChars = -1, as Read: neither counted
\* nor cut.
ExecuteUnlimited(r, size) ==
  /\ pc[r] = "act"
  /\ Len(results[r]) < MaxCalls
  /\ results' = [results EXCEPT ![r] = Append(@, Result(size, size, "unlimited"))]
  /\ UNCHANGED <<charsUsed, running, pc, cycle, history>>

\* An asynchronous call: the result is an id, too short to matter ...
Launch(r) ==
  /\ AsyncTools
  /\ pc[r] = "act"
  /\ Len(results[r]) < MaxCalls
  /\ running' = [running EXCEPT ![r] = @ + 1]
  /\ results' = [results EXCEPT ![r] = Append(@, Result(0, 0, "unlimited"))]
  /\ UNCHANGED <<charsUsed, pc, cycle, history>>

\* ... and its output is counted when it ends, whatever cycle that is in.
EndAsync(r, size) ==
  /\ running[r] > 0
  /\ running' = [running EXCEPT ![r] = @ - 1]
  /\ charsUsed' = charsUsed + size
  /\ UNCHANGED <<pc, cycle, results, history>>

Joined(rs) == FoldLeft(LAMBDA n, res : n + res.shown, 0, rs)

\* offloadLargeResults and the message that persistStep makes of what is left.
ToolMessages(size) ==
  (IF size <= OffloadThreshold \/ DiskFails THEN {Message("text", "results", size)} ELSE {})
    \cup (IF size > OffloadThreshold THEN {Message("text", "reference", size)} ELSE {})

\* persistStep: the message begins with the tool's name and "returned:".
PersistStep(r) ==
  /\ pc[r] = "act"
  /\ pc' = [pc EXCEPT ![r] = "idle"]
  /\ IF results[r] = <<>> THEN UNCHANGED history
     ELSE \E m \in ToolMessages(Joined(results[r])) :
            history' = [history EXCEPT ![r] = Append(@, m)]
  /\ UNCHANGED <<charsUsed, running, cycle, results>>

Next ==
  \E r \in Runs :
    \/ BeginCycle(r) \/ PersistStep(r) \/ Launch(r)
    \/ \E size \in Sizes : Execute(r, size) \/ ExecuteUnlimited(r, size) \/ EndAsync(r, size)

Spec == Init /\ [][Next]_vars

-----------------------------------------------------------------------------

TypeOK ==
  /\ charsUsed \in Nat
  /\ running \in [Runs -> 0..(MaxCalls * MaxCycles)]
  /\ pc \in [Runs -> {"idle", "act"}]
  /\ cycle \in [Runs -> 0..MaxCycles]
  /\ \A r \in Runs :
       /\ Len(results[r]) <= MaxCalls
       /\ \A res \in Range(results[r]) : /\ res.size \in Sizes \cup {0}
                                        /\ res.shown \in 0..res.size
                                        /\ res.rest \in {"none", "file", "lost", "cut", "unlimited"}
       /\ Len(history[r]) <= cycle[r]

CountedSize(rs) ==
  FoldLeft(LAMBDA n, res : IF res.rest = "unlimited" THEN n ELSE n + res.size, 0, rs)

\* The budget is that of one cycle: a result loses its end only in a cycle whose
\* own results are more than it.
OnlyOverBudgetIsCut ==
  \A r \in Runs :
    (\E res \in Range(results[r]) : res.rest = "cut") => CountedSize(results[r]) > MaxCycleChars

\* And in such a cycle a large one does lose its end, whatever else is counted.
OverBudgetIsCut ==
  \A r \in Runs : \A i \in DOMAIN results[r] :
    LET res == results[r][i] IN
      /\ res.rest # "unlimited"
      /\ res.size > MaxResultSize
      /\ CountedSize(SubSeq(results[r], 1, i)) > MaxCycleChars
      => res.rest = "cut"

\* offload.go: references are replaced by the full content at the start of each
\* Think phase, so the model is not asked with one in its history.
OffloadedAreRestored ==
  \A r \in Runs : pc[r] = "act" => \A m \in Range(history[r]) : m.body # "reference"
=============================================================================
