----------------------------- MODULE ReactLoop -----------------------------
(***************************************************************************)
(* The reactor's think-act-observe loop: Run, RunFromSnapshot and runLoop  *)
(* of reactor/reactor.go with Think, Act, Observe and the stop conditions. *)
(*                                                                         *)
(* One run is in progress at a time; between runs the caller may start a   *)
(* new task or resume the paused one.  The caller may cancel the context   *)
(* and request a pause at any moment.  The language model may answer with  *)
(* any thought or fail; a tool may succeed, fail or not exist.             *)
(*                                                                         *)
(* Left out: the texts of the conversation (no condition of the loop reads *)
(* them), events, token counts, and the coordinator branch, which needs    *)
(* Mode = ModeCoordinator and no code outside the tests sets it.  Act and  *)
(* Observe fail only without a thought or an action, which the loop never  *)
(* reaches, so their error branches have no counterpart here.              *)
(***************************************************************************)
EXTENDS Termination

CONSTANTS
  MaxIterations,  \* ReactorConfig.MaxIterations
  MaxRuns,        \* bound of the model: runs started in one behaviour
  None            \* a nil thought, action, observation, snapshot or result

ASSUME LoopAssumption ==
  /\ MaxIterations \in Nat \ {0}
  /\ MaxRuns \in Nat
  /\ None \notin Actions

VARIABLES
  pc,              \* where the goroutine of the run is; "idle" between runs
  rc,              \* the ReactContext of the run
  cancelled,       \* the run's context.Context is done
  pauseRequested,  \* Reactor.pauseRequested
  snapshot,        \* Reactor.snapshotHolder.snap
  result,          \* the RunResult of the run that just returned, or None
  runs,            \* runs started so far
  lateCycles       \* history variable: cycles completed since the cancel

vars == <<pc, rc, cancelled, pauseRequested, snapshot, result, runs, lateCycles>>

-----------------------------------------------------------------------------

\* Thoughts the model's reply can be parsed into.  Unknown decisions are
\* normalised to "answer"; native tool calls are "act", never final.
Thoughts == {t \in [decision    : {"act", "answer", "clarify", "delegate"},
                    isFinal     : BOOLEAN,
                    hasCalls    : BOOLEAN,
                    finalAnswer : {"", "final"}] :
               t.hasCalls => t.decision = "act"}

Observations == [result : ToolResults \cup AnswerTexts \cup {"question"},
                 error  : ToolErrors \cup {""}]

Reasons == {"", "request cancelled", "tool error: irrecoverable",
            "thinker produced final answer", "direct answer produced",
            "clarification needed", "destructive loop detected", "agent stuck",
            "result converged", "duplicate action detected", "think error",
            "paused", "reached max iterations"}

ReactContexts == [iter        : Nat,
                  thought     : Thoughts \cup {None},
                  action      : Actions \cup {None},
                  observation : Observations \cup {None},
                  history     : Seq(Actions),
                  terminated  : BOOLEAN,
                  reason      : Reasons]

ASSUME NoneAssumption ==
  /\ None \notin Nat
  /\ None \notin Thoughts
  /\ None \notin Observations
  /\ None \notin ReactContexts

NewReactContext ==
  [iter |-> 0, thought |-> None, action |-> None, observation |-> None,
   history |-> <<>>, terminated |-> FALSE, reason |-> ""]

\* Mutation: the last thought and action are not restored.
NewReactContextFromSnapshot_NoLastAction(snap) ==
  [snap EXCEPT !.terminated = FALSE, !.reason = "", !.thought = None, !.action = None]

\* RunFromSnapshot clears the termination state it restored.
NewReactContextFromSnapshot(snap) ==
  [snap EXCEPT !.terminated = FALSE, !.reason = ""]

\* Mutation: the snapshot forgets CurrentIteration.
ToSnapshot_NoIteration(c) == [c EXCEPT !.reason = "paused", !.iter = 0]

ToSnapshot(c) == [c EXCEPT !.reason = "paused"]

\* Mutation: answers, clarifications and irrecoverable errors do not stop the loop.
ContextStop_NoAnswerCheck(c) ==
  IF c.thought # None /\ c.thought.isFinal THEN "thinker produced final answer"
  ELSE IF isDestructiveLoop(c.history) THEN "destructive loop detected"
  ELSE IF isAgentStuck(c.history) THEN "agent stuck"
  ELSE IF isResultConverged(c.history) THEN "result converged"
  ELSE IF isDuplicateAction(c.history) THEN "duplicate action detected"
  ELSE ""

\* What the last cycle and the history say, in the order the code asks.
ContextStop(c) ==
  IF c.observation # None /\ isToolErrorIrrecoverable(c.observation.error)
    THEN "tool error: irrecoverable"
  ELSE IF c.thought # None /\ c.thought.isFinal
    THEN "thinker produced final answer"
  ELSE IF c.action # None /\ c.action.type = "answer"
    THEN "direct answer produced"
  ELSE IF c.action # None /\ c.action.type = "clarify"
    THEN "clarification needed"
  ELSE IF isDestructiveLoop(c.history) THEN "destructive loop detected"
  ELSE IF isAgentStuck(c.history) THEN "agent stuck"
  ELSE IF isResultConverged(c.history) THEN "result converged"
  ELSE IF isDuplicateAction(c.history) THEN "duplicate action detected"
  ELSE ""

\* Mutation: the context is not looked at.
CheckTermination_IgnoresContext(c, ctxDone) ==
  IF c.iter >= MaxIterations THEN "reached max iterations" ELSE ContextStop(c)

\* The reason to stop before the next cycle, or "" to go on.
CheckTermination(c, ctxDone) ==
  IF c.iter >= MaxIterations THEN "reached max iterations"
  ELSE IF ctxDone THEN "request cancelled"
  ELSE ContextStop(c)

\* The actions Act can produce for a thought.  The result of a batch of tool
\* calls is never empty: every entry starts with the tool's name.
ActOutcomes(thought) ==
  IF thought.decision = "act" /\ thought.hasCalls
    THEN [type   : {"tool_call"},
          result : ToolResults,
          error  : ToolErrors \cup {""}]
  ELSE IF thought.decision = "clarify"
    THEN {[type |-> "clarify", result |-> "question", error |-> ""]}
  ELSE [type   : {"answer"},
        result : IF thought.finalAnswer # "" THEN {thought.finalAnswer}
                 ELSE IF thought.decision = "act" THEN {"sorry"}
                 ELSE {"", "reasoning"},
        error  : {""}]

ObservationOf(action) ==
  [result |-> IF action.error # "" THEN "" ELSE action.result,
   error  |-> action.error]

\* The first non-empty of: action result, final answer, observation, reason.
AnswerOf(c) ==
  LET result1 == IF c.action # None THEN c.action.result ELSE ""
      result2 == IF c.thought # None THEN c.thought.finalAnswer ELSE ""
      result3 == IF c.observation # None THEN c.observation.result ELSE ""
  IN IF result1 # "" THEN result1
     ELSE IF result2 # "" THEN result2
     ELSE IF result3 # "" THEN result3
     ELSE c.reason

RunResultOf(c) ==
  [answer |-> AnswerOf(c), reason |-> c.reason, iterations |-> c.iter]

-----------------------------------------------------------------------------

Init ==
  /\ pc = "idle"
  /\ rc = NewReactContext
  /\ cancelled = FALSE
  /\ pauseRequested = FALSE
  /\ snapshot = None
  /\ result = None
  /\ runs = 0
  /\ lateCycles = 0

StartRun(context) ==
  /\ pc = "idle"
  /\ runs < MaxRuns
  /\ pc' = "head"
  /\ rc' = context
  /\ cancelled' = FALSE
  /\ runs' = runs + 1
  /\ lateCycles' = 0
  /\ result' = None
  /\ UNCHANGED pauseRequested

Run == StartRun(NewReactContext) /\ UNCHANGED snapshot

\* Mutation: the snapshot is not consumed.
RunFromSnapshot_Peek ==
  /\ snapshot # None
  /\ StartRun(NewReactContextFromSnapshot(snapshot))
  /\ UNCHANGED snapshot

\* The caller consumed the snapshot with ConsumeSnapshot.
RunFromSnapshot ==
  /\ snapshot # None
  /\ StartRun(NewReactContextFromSnapshot(snapshot))
  /\ snapshot' = None

\* for CurrentIteration < MaxIterations: the loop ends without a reason.
LeaveExhausted ==
  /\ pc = "head"
  /\ rc.iter >= MaxIterations
  /\ pc' = "finish"
  /\ UNCHANGED <<rc, cancelled, pauseRequested, snapshot, result, runs, lateCycles>>

LeaveTerminated ==
  /\ pc = "head"
  /\ rc.iter < MaxIterations
  /\ CheckTermination(rc, cancelled) # ""
  /\ rc' = [rc EXCEPT !.terminated = TRUE,
                      !.reason = CheckTermination(rc, cancelled)]
  /\ pc' = "finish"
  /\ UNCHANGED <<cancelled, pauseRequested, snapshot, result, runs, lateCycles>>

\* Mutation: Act runs without a thought.
BeginCycle_SkipsThink ==
  /\ pc = "head"
  /\ rc.iter < MaxIterations
  /\ CheckTermination(rc, cancelled) = ""
  /\ pc' = "act"
  /\ UNCHANGED <<rc, cancelled, pauseRequested, snapshot, result, runs, lateCycles>>

BeginCycle ==
  /\ pc = "head"
  /\ rc.iter < MaxIterations
  /\ CheckTermination(rc, cancelled) = ""
  /\ pc' = "think"
  /\ UNCHANGED <<rc, cancelled, pauseRequested, snapshot, result, runs, lateCycles>>

Think ==
  /\ pc = "think"
  /\ \E t \in Thoughts : rc' = [rc EXCEPT !.thought = t]
  /\ pc' = "act"
  /\ UNCHANGED <<cancelled, pauseRequested, snapshot, result, runs, lateCycles>>

\* Mutation: a failed call to the model is repeated without end.
ThinkError_Retries ==
  /\ pc = "think"
  /\ pc' = "head"
  /\ UNCHANGED <<rc, cancelled, pauseRequested, snapshot, result, runs, lateCycles>>

\* A failed call comes back as text that does not parse; the old thought stays.
ThinkError ==
  /\ pc = "think"
  /\ rc' = [rc EXCEPT !.reason = "think error"]
  /\ pc' = "finish"
  /\ UNCHANGED <<cancelled, pauseRequested, snapshot, result, runs, lateCycles>>

\* A tool that runs and fails, or is refused, leaves action.error empty.
Act ==
  /\ pc = "act"
  /\ \E a \in ActOutcomes(rc.thought) : rc' = [rc EXCEPT !.action = a]
  /\ pc' = "observe"
  /\ UNCHANGED <<cancelled, pauseRequested, snapshot, result, runs, lateCycles>>

\* Observe, persistStep and CurrentIteration++.
ObserveAndPersist ==
  /\ pc = "observe"
  /\ rc' = [rc EXCEPT !.observation = ObservationOf(rc.action),
                      !.history = Append(rc.history, rc.action),
                      !.iter = rc.iter + 1]
  /\ pc' = "head"
  /\ lateCycles' = IF cancelled THEN lateCycles + 1 ELSE lateCycles
  /\ UNCHANGED <<cancelled, pauseRequested, snapshot, result, runs>>

\* buildResultFromContext and handlePauseSnapshot.
Finish ==
  /\ pc = "finish"
  /\ result' = RunResultOf(rc)
  /\ pauseRequested' = FALSE
  /\ snapshot' = IF pauseRequested THEN ToSnapshot(rc) ELSE snapshot
  /\ pc' = "idle"
  /\ UNCHANGED <<rc, cancelled, runs, lateCycles>>

\* The caller, at any moment of a run.
Cancel ==
  /\ pc # "idle"
  /\ ~cancelled
  /\ cancelled' = TRUE
  /\ UNCHANGED <<pc, rc, pauseRequested, snapshot, result, runs, lateCycles>>

SetPauseRequested ==
  /\ pc # "idle"
  /\ ~pauseRequested
  /\ pauseRequested' = TRUE
  /\ UNCHANGED <<pc, rc, cancelled, snapshot, result, runs, lateCycles>>

LoopStep == \/ LeaveExhausted \/ LeaveTerminated \/ BeginCycle \/ Think
            \/ ThinkError \/ Act \/ ObserveAndPersist \/ Finish

Next == Run \/ RunFromSnapshot \/ LoopStep \/ Cancel \/ SetPauseRequested

\* The goroutine of a run keeps running: model and tool calls return.
Spec == Init /\ [][Next]_vars /\ WF_vars(LoopStep)

-----------------------------------------------------------------------------

TypeOK ==
  /\ pc \in {"idle", "head", "think", "act", "observe", "finish"}
  /\ rc \in ReactContexts
  /\ cancelled \in BOOLEAN
  /\ pauseRequested \in BOOLEAN
  /\ snapshot \in ReactContexts \cup {None}
  /\ result \in [answer : ToolResults \cup AnswerTexts \cup {"question"} \cup Reasons,
                 reason : Reasons, iterations : Nat] \cup {None}
  /\ runs \in 0..MaxRuns
  /\ lateCycles \in Nat
  /\ pc \in {"act", "observe"} => rc.thought # None
  /\ pc = "observe" => rc.action # None

\* The budget of a task holds across pauses: however often it is paused and
\* resumed, the history of a task never has more than MaxIterations steps.
BudgetKept == Len(rc.history) <= MaxIterations

\* Once the context is cancelled the run completes at most the cycle it is in.
CancelStopsWithinOneCycle == lateCycles <= 1

\* What the history alone tells the loop at its head.
HistoryEnds(history) ==
  \/ history # <<>> /\ history[Len(history)].type # "tool_call"
  \/ history # <<>> /\ isToolErrorIrrecoverable(history[Len(history)].error)
  \/ isDestructiveLoop(history)
  \/ isDuplicateAction(history)

\* No cycle is ever added to a history that had reached a stop condition, not
\* even by resuming the paused run with new input.
NoStepBeyondAStop ==
  \A n \in 1..(Len(rc.history) - 1) : ~HistoryEnds(SubSeq(rc.history, 1, n))

\* A consequence for the code: inside a run isAgentStuck and
\* isResultConverged never decide anything, an earlier condition always has.
StuckAndConvergedNeverDecide ==
  rc.reason \notin {"agent stuck", "result converged"}

\* A result without a reason means the budget is spent, and only that: it is
\* how a caller can tell exhaustion, "reached max iterations" is not reported.
BlankReasonMeansBudgetSpent ==
  pc = "idle" /\ result # None =>
    /\ result.reason = "" => result.iterations = MaxIterations
    /\ result.reason # "reached max iterations"

\* The run as its caller sees it.
Task == INSTANCE RunContract WITH
  NoTask    <- None,
  phase     <- IF pc = "idle" THEN "idle" ELSE "running",
  cycles    <- Len(rc.history),
  stopping  <- cancelled,
  lastCycle <- lateCycles > 0,
  saved     <- IF snapshot = None THEN None ELSE Len(snapshot.history)

\* The loop keeps the contract of RunContract.
ImplementsContract == Task!Contract

=============================================================================
