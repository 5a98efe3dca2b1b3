-------------------------- MODULE ReactLoop_proof --------------------------
(***************************************************************************)
(* Proofs about ReactLoop for any budget, any number of runs and any texts *)
(* of tools: type correctness, the budget across pauses, the prompt stop   *)
(* after a cancel, that no cycle follows a stop condition, and that the    *)
(* loop implements the safety part of RunContract.  Then about coordinator *)
(* mode, whatever the number of tasks, retries, contexts and resumptions:  *)
(* a coordinator that ends stops its sub-tasks, and it moves through its   *)
(* lifecycle as its state machine allows, with one exception.              *)
(***************************************************************************)
EXTENDS MCReactLoop, FiniteSetTheorems, SequenceTheorems, TLAPS

InCycle == {"think", "act", "observe"}

\* The counter is the length of the history and stays within the budget.
Counted(c) == c.iter = Len(c.history) /\ c.iter <= MaxIterations

\* Outside a cycle the last action and observation are those of the last step.
Completed(c) ==
  c.history # <<>> => /\ c.action = c.history[Len(c.history)]
                      /\ c.observation = ObservationOf(c.action)

CountInv ==
  /\ Counted(rc)
  /\ snapshot # None => Counted(snapshot)
  /\ pc \in InCycle => rc.iter < MaxIterations

CancelInv ==
  /\ lateCycles \in {0, 1}
  /\ lateCycles = 1 => cancelled /\ pc \notin InCycle

ReasonInv ==
  /\ pc \in InCycle \cup {"head"} => rc.reason = ""
  /\ rc.reason = "" /\ pc = "finish" => rc.iter = MaxIterations
  /\ rc.reason # "reached max iterations"
  /\ result # None => pc = "idle" /\ result = RunResultOf(rc)
  /\ result # None /\ rc.reason = "" => rc.iter = MaxIterations

\* No prefix of the history but the whole of it satisfies a stop condition.
Unstopped(history) ==
  \A n \in 1..(Len(history) - 1) : ~HistoryEnds(SubSeq(history, 1, n))

StopInv ==
  /\ Unstopped(rc.history)
  /\ snapshot # None => Unstopped(snapshot.history) /\ Completed(snapshot)
  /\ pc \in InCycle => ~HistoryEnds(rc.history)
  /\ pc # "observe" => Completed(rc)

-----------------------------------------------------------------------------
\* What the operators return.

\* Every thought is carried out by some well-typed action.
LEMMA ActOutcomesType ==
  ASSUME NEW thought \in Thoughts
  PROVE  ActOutcomes(thought) \subseteq Actions
<1>1. thought.finalAnswer \in AnswerTexts
  BY DEF Thoughts, AnswerTexts
<1>2. CASE thought.decision = "act" /\ thought.hasCalls
  BY <1>2 DEF ActOutcomes, Actions, ActionTypes
<1>3. CASE ~(thought.decision = "act" /\ thought.hasCalls) /\ thought.decision = "clarify"
  BY <1>3 DEF ActOutcomes, Actions, ActionTypes
<1>4. CASE ~(thought.decision = "act" /\ thought.hasCalls) /\ thought.decision # "clarify"
  <2> DEFINE texts == IF thought.finalAnswer # "" THEN {thought.finalAnswer}
                      ELSE IF thought.decision = "act" THEN {"sorry"}
                      ELSE {"", "reasoning"}
  <2>1. texts \subseteq AnswerTexts
    BY <1>1 DEF AnswerTexts
  <2>2. ActOutcomes(thought) = [type : {"answer"}, result : texts, error : {""}]
    BY <1>4 DEF ActOutcomes
  <2> HIDE DEF texts
  <2>3. ASSUME NEW a \in [type : {"answer"}, result : texts, error : {""}]
        PROVE  a \in Actions
    BY <2>1 DEF Actions, ActionTypes
  <2> QED
    BY <2>2, <2>3
<1> QED
  BY <1>2, <1>3, <1>4

LEMMA ObservationType ==
  ASSUME NEW action \in Actions
  PROVE  ObservationOf(action) \in Observations
BY DEF ObservationOf, Actions, Observations, AnswerTexts

\* A new task has an empty history and nothing to go on.
LEMMA NewReactContextType == NewReactContext \in ReactContexts
<1>1. <<>> \in Seq(Actions) /\ "" \in Reasons /\ FALSE \in BOOLEAN /\ 0 \in Nat
  BY DEF Reasons
<1>2. None \in Thoughts \cup {None} /\ None \in Actions \cup {None}
      /\ None \in Observations \cup {None}
  OBVIOUS
<1> HIDE DEF Reasons
<1> QED
  BY <1>1, <1>2 DEF NewReactContext, ReactContexts

\* The reasons of the loop's own condition are never what it breaks with, and
\* a non-blank answer of CheckTermination is a reason.
LEMMA CheckTerminationType ==
  ASSUME NEW c, NEW done \in BOOLEAN
  PROVE  /\ CheckTermination(c, done) \in Reasons
         /\ ~(c.iter >= MaxIterations) =>
              CheckTermination(c, done) # "reached max iterations"
BY DEF CheckTermination, ContextStop, Reasons

LEMMA RunResultType ==
  ASSUME NEW c \in ReactContexts
  PROVE  RunResultOf(c) \in
           [answer : ToolResults \cup AnswerTexts \cup {"question"} \cup Reasons,
            reason : Reasons, iterations : Nat]
<1>1. c.action # None => c.action.result \in ToolResults \cup AnswerTexts \cup {"question"}
  BY DEF ReactContexts, Actions
<1>2. c.thought # None => c.thought.finalAnswer \in AnswerTexts
  BY DEF ReactContexts, Thoughts, AnswerTexts
<1>3. c.observation # None =>
        c.observation.result \in ToolResults \cup AnswerTexts \cup {"question"}
  BY DEF ReactContexts, Observations
<1>4. AnswerOf(c) \in ToolResults \cup AnswerTexts \cup {"question"} \cup Reasons
  BY <1>1, <1>2, <1>3 DEF AnswerOf, ReactContexts
<1> QED
  BY <1>4 DEF RunResultOf, ReactContexts

-----------------------------------------------------------------------------
\* Type correctness.

LEMMA InitTypeOK == Init => TypeOK
<1> SUFFICES ASSUME Init PROVE TypeOK
  OBVIOUS
<1> USE LoopAssumption DEF Init
<1>1. rc \in ReactContexts
  BY NewReactContextType
<1>2. runs \in 0..MaxRuns
  OBVIOUS
<1> QED
  BY <1>1, <1>2 DEF TypeOK

LEMMA NextTypeOK == TypeOK /\ [Next]_vars => TypeOK'
<1> SUFFICES ASSUME TypeOK, [Next]_vars PROVE TypeOK'
  OBVIOUS
<1> USE LoopAssumption, NoneAssumption
<1>1. ASSUME NEW context \in ReactContexts, StartRun(context),
             snapshot' \in ReactContexts \cup {None}
      PROVE  TypeOK'
  <2>1. runs' \in 0..MaxRuns
    BY <1>1 DEF TypeOK, StartRun
  <2>2. /\ pc' = "head" /\ rc' \in ReactContexts /\ cancelled' \in BOOLEAN
        /\ lateCycles' \in Nat
        /\ pauseRequested' \in BOOLEAN /\ result' = None
    BY <1>1 DEF StartRun, TypeOK
  <2> QED
    BY <1>1, <2>1, <2>2 DEF TypeOK
<1>2. CASE Run
  BY <1>1, <1>2, NewReactContextType DEF Run, TypeOK
<1>3. CASE RunFromSnapshot
  <2>1. snapshot \in ReactContexts
    BY <1>3 DEF RunFromSnapshot, TypeOK
  <2>2. NewReactContextFromSnapshot(snapshot) \in ReactContexts
    BY <2>1 DEF NewReactContextFromSnapshot, ReactContexts, Reasons
  <2> QED
    BY <1>1, <1>3, <2>2 DEF RunFromSnapshot
<1>4. CASE LeaveExhausted
  BY <1>4 DEF LeaveExhausted, TypeOK
<1>5. CASE LeaveTerminated
  <2>1. CheckTermination(rc, cancelled) \in Reasons
    BY CheckTerminationType DEF TypeOK
  <2>2. rc' \in ReactContexts
    BY <1>5, <2>1 DEF LeaveTerminated, TypeOK, ReactContexts
  <2> QED
    BY <1>5, <2>2 DEF LeaveTerminated, TypeOK
<1>6. CASE BeginCycle
  BY <1>6 DEF BeginCycle, TypeOK
<1>7. CASE Think
  <2>1. rc' \in ReactContexts /\ rc'.thought # None
    BY <1>7 DEF Think, TypeOK, ReactContexts
  <2> QED
    BY <1>7, <2>1 DEF Think, TypeOK
<1>8. CASE ThinkError
  <2>1. rc' \in ReactContexts
    BY <1>8 DEF ThinkError, TypeOK, ReactContexts, Reasons
  <2> QED
    BY <1>8, <2>1 DEF ThinkError, TypeOK
<1>9. CASE Act
  <2>1. rc.thought \in Thoughts
    BY <1>9 DEF Act, TypeOK, ReactContexts
  <2>2. PICK a \in Actions : rc' = [rc EXCEPT !.action = a]
    BY <1>9, <2>1, ActOutcomesType DEF Act
  <2>3. rc' \in ReactContexts /\ rc'.action # None /\ rc'.thought # None
    BY <2>1, <2>2 DEF TypeOK, ReactContexts
  <2> QED
    BY <1>9, <2>3 DEF Act, TypeOK
<1>10. CASE ObserveAndPersist
  <2>1. rc.action \in Actions
    BY <1>10 DEF ObserveAndPersist, TypeOK, ReactContexts
  <2>2. ObservationOf(rc.action) \in Observations
    BY <2>1, ObservationType
  <2>3. Append(rc.history, rc.action) \in Seq(Actions) /\ rc.iter + 1 \in Nat
    BY <2>1 DEF TypeOK, ReactContexts
  <2>4. rc' \in ReactContexts
    BY <1>10, <2>2, <2>3 DEF ObserveAndPersist, TypeOK, ReactContexts
  <2> QED
    BY <1>10, <2>4 DEF ObserveAndPersist, TypeOK
<1>11. CASE Finish
  <2>1. rc \in ReactContexts
    BY DEF TypeOK
  <2>2. ToSnapshot(rc) \in ReactContexts
    BY <2>1 DEF ToSnapshot, ReactContexts, Reasons
  <2>3. snapshot' \in ReactContexts \cup {None}
    BY <1>11, <2>2 DEF Finish, TypeOK
  <2>4. result' \in [answer : ToolResults \cup AnswerTexts \cup {"question"} \cup Reasons,
                     reason : Reasons, iterations : Nat]
    BY <1>11, <2>1, RunResultType DEF Finish
  <2> QED
    BY <1>11, <2>3, <2>4 DEF Finish, TypeOK
<1>12. CASE Cancel
  BY <1>12 DEF Cancel, TypeOK
<1>13. CASE SetPauseRequested
  BY <1>13 DEF SetPauseRequested, TypeOK
<1>14. CASE UNCHANGED vars
  BY <1>14 DEF vars, TypeOK
<1> QED
  BY <1>2, <1>3, <1>4, <1>5, <1>6, <1>7, <1>8, <1>9, <1>10, <1>11, <1>12, <1>13,
     <1>14 DEF Next, LoopStep

\* Every variable keeps its type; Act has a thought, Observe an action.
THEOREM LoopTypeCorrect == Spec => []TypeOK
BY InitTypeOK, NextTypeOK, PTL DEF Spec

-----------------------------------------------------------------------------
\* What each action leaves of the context, stated once for all invariants.

LEMMA ContextKept ==
  ASSUME TypeOK, LeaveExhausted \/ LeaveTerminated \/ BeginCycle \/ Think
                 \/ ThinkError \/ Finish \/ Cancel \/ SetPauseRequested \/ UNCHANGED vars
  PROVE  /\ rc'.iter = rc.iter /\ rc'.history = rc.history
         /\ rc'.action = rc.action /\ rc'.observation = rc.observation
<1>1. rc \in ReactContexts
  BY DEF TypeOK
<1>2. CASE LeaveTerminated
  BY <1>1, <1>2 DEF LeaveTerminated, ReactContexts
<1>3. CASE Think
  BY <1>1, <1>3 DEF Think, ReactContexts
<1>4. CASE ThinkError
  BY <1>1, <1>4 DEF ThinkError, ReactContexts
<1>5. CASE LeaveExhausted \/ BeginCycle \/ Finish \/ Cancel \/ SetPauseRequested
           \/ UNCHANGED vars
  BY <1>5 DEF LeaveExhausted, BeginCycle, Finish, Cancel, SetPauseRequested, vars
<1> QED
  BY <1>2, <1>3, <1>4, <1>5

LEMMA ActKeeps ==
  ASSUME TypeOK, Act
  PROVE  /\ rc'.iter = rc.iter /\ rc'.history = rc.history
         /\ rc'.reason = rc.reason
BY DEF Act, TypeOK, ReactContexts

LEMMA StepAdded ==
  ASSUME TypeOK, ObserveAndPersist
  PROVE  /\ rc.action \in Actions
         /\ rc'.iter = rc.iter + 1 /\ rc'.history = Append(rc.history, rc.action)
         /\ rc'.action = rc.action /\ rc'.observation = ObservationOf(rc.action)
         /\ rc'.reason = rc.reason
         /\ Len(rc'.history) = Len(rc.history) + 1
<1>1. rc \in ReactContexts /\ rc.action \in Actions
  BY DEF ObserveAndPersist, TypeOK, ReactContexts
<1>2. /\ rc'.iter = rc.iter + 1 /\ rc'.history = Append(rc.history, rc.action)
      /\ rc'.action = rc.action /\ rc'.observation = ObservationOf(rc.action)
      /\ rc'.reason = rc.reason
  BY <1>1 DEF ObserveAndPersist, ReactContexts
<1>3. Len(rc'.history) = Len(rc.history) + 1
  BY <1>1, <1>2 DEF ReactContexts
<1> QED
  BY <1>1, <1>2, <1>3

\* A snapshot keeps everything the loop's condition reads, and a run that is
\* started from it gets it back.
LEMMA SnapshotKeeps ==
  ASSUME NEW c \in ReactContexts
  PROVE  /\ ToSnapshot(c) \in ReactContexts
         /\ NewReactContextFromSnapshot(c) \in ReactContexts
         /\ NewReactContextFromSnapshot(c).reason = ""
         /\ ToSnapshot(c).iter = c.iter /\ ToSnapshot(c).history = c.history
         /\ ToSnapshot(c).action = c.action
         /\ ToSnapshot(c).observation = c.observation
         /\ NewReactContextFromSnapshot(c).iter = c.iter
         /\ NewReactContextFromSnapshot(c).history = c.history
         /\ NewReactContextFromSnapshot(c).action = c.action
         /\ NewReactContextFromSnapshot(c).observation = c.observation
<1>1. ToSnapshot(c) \in ReactContexts /\ NewReactContextFromSnapshot(c) \in ReactContexts
  BY DEF ToSnapshot, NewReactContextFromSnapshot, ReactContexts, Reasons
<1>2. /\ ToSnapshot(c).iter = c.iter /\ ToSnapshot(c).history = c.history
      /\ ToSnapshot(c).action = c.action /\ ToSnapshot(c).observation = c.observation
  BY DEF ToSnapshot, ReactContexts
<1>3. /\ NewReactContextFromSnapshot(c).reason = ""
      /\ NewReactContextFromSnapshot(c).iter = c.iter
      /\ NewReactContextFromSnapshot(c).history = c.history
      /\ NewReactContextFromSnapshot(c).action = c.action
      /\ NewReactContextFromSnapshot(c).observation = c.observation
  BY DEF NewReactContextFromSnapshot, ReactContexts
<1> QED
  BY <1>1, <1>2, <1>3

-----------------------------------------------------------------------------
\* The budget.

LEMMA NewTaskCounted == Counted(NewReactContext)
<1>1. NewReactContext.iter = 0 /\ NewReactContext.history = <<>>
  BY DEF NewReactContext
<1>2. Len(<<>>) = 0
  OBVIOUS
<1> QED
  BY <1>1, <1>2, LoopAssumption DEF Counted

LEMMA NextCount == TypeOK /\ CountInv /\ [Next]_vars => CountInv'
<1> SUFFICES ASSUME TypeOK, CountInv, [Next]_vars PROVE CountInv'
  OBVIOUS
<1> USE LoopAssumption, NoneAssumption
<1> USE DEF Counted, InCycle
<1>1. rc.iter \in Nat /\ (snapshot # None => snapshot \in ReactContexts)
  BY DEF TypeOK, ReactContexts
<1>2. CASE Run
  BY <1>2, NewTaskCounted DEF Run, StartRun, CountInv
<1>3. CASE RunFromSnapshot
  BY <1>1, <1>3, SnapshotKeeps DEF RunFromSnapshot, StartRun, CountInv
<1>4. CASE LeaveExhausted \/ LeaveTerminated \/ ThinkError
  BY <1>4, ContextKept DEF LeaveExhausted, LeaveTerminated, ThinkError, CountInv
<1>5. CASE BeginCycle
  BY <1>1, <1>5, ContextKept DEF BeginCycle, CountInv
<1>6. CASE Think
  BY <1>6, ContextKept DEF Think, CountInv
<1>7. CASE Act
  BY <1>7, ActKeeps DEF Act, CountInv
<1>8. CASE ObserveAndPersist
  BY <1>1, <1>8, StepAdded DEF ObserveAndPersist, CountInv
<1>9. CASE Finish
  <2>1. rc' = rc /\ snapshot' \in {snapshot, ToSnapshot(rc)} /\ pc' = "idle"
    BY <1>9 DEF Finish
  <2> QED
    BY <2>1, SnapshotKeeps DEF CountInv, TypeOK
<1>10. CASE Cancel \/ SetPauseRequested \/ UNCHANGED vars
  BY <1>10 DEF Cancel, SetPauseRequested, vars, CountInv
<1> QED
  BY <1>2, <1>3, <1>4, <1>5, <1>6, <1>7, <1>8, <1>9, <1>10 DEF Next, LoopStep

\* However often a task is paused and resumed, it has at most MaxIterations
\* steps.
THEOREM BudgetHolds == Spec => []BudgetKept
<1>1. Init => CountInv
  BY NewTaskCounted DEF Init, CountInv, InCycle
<1>2. CountInv => BudgetKept
  BY DEF CountInv, Counted, BudgetKept
<1> QED
  BY <1>1, <1>2, InitTypeOK, NextTypeOK, NextCount, PTL DEF Spec

-----------------------------------------------------------------------------
\* The prompt stop.

LEMMA NextCancel == TypeOK /\ CancelInv /\ [Next]_vars => CancelInv'
<1> SUFFICES ASSUME TypeOK, CancelInv, [Next]_vars PROVE CancelInv'
  OBVIOUS
<1> USE DEF InCycle, CancelInv
<1>1. CASE BeginCycle
  <2>1. ~cancelled
    BY <1>1 DEF BeginCycle, CheckTermination
  <2> QED
    BY <1>1, <2>1 DEF BeginCycle
<1>2. CASE ObserveAndPersist
  BY <1>2 DEF ObserveAndPersist
<1>3. CASE Run \/ RunFromSnapshot
  BY <1>3 DEF Run, RunFromSnapshot, StartRun
<1>4. CASE LeaveExhausted \/ LeaveTerminated \/ ThinkError \/ Finish
  BY <1>4 DEF LeaveExhausted, LeaveTerminated, ThinkError, Finish
<1>5. CASE Think \/ Act
  BY <1>5 DEF Think, Act
<1>6. CASE Cancel \/ SetPauseRequested \/ UNCHANGED vars
  BY <1>6 DEF Cancel, SetPauseRequested, vars
<1> QED
  BY <1>1, <1>2, <1>3, <1>4, <1>5, <1>6 DEF Next, LoopStep

\* A cancelled run completes at most the cycle it is in.
THEOREM CancelIsPrompt == Spec => []CancelStopsWithinOneCycle
<1>1. Init => CancelInv
  BY DEF Init, CancelInv, InCycle
<1>2. CancelInv => CancelStopsWithinOneCycle
  BY DEF CancelInv, CancelStopsWithinOneCycle
<1> QED
  BY <1>1, <1>2, InitTypeOK, NextTypeOK, NextCancel, PTL DEF Spec

-----------------------------------------------------------------------------
\* What a result's reason means.

LEMMA NextReason == TypeOK /\ CountInv /\ ReasonInv /\ [Next]_vars => ReasonInv'
<1> SUFFICES ASSUME TypeOK, CountInv, ReasonInv, [Next]_vars PROVE ReasonInv'
  OBVIOUS
<1> USE NoneAssumption
<1>1. rc \in ReactContexts /\ rc.iter \in Nat /\ MaxIterations \in Nat
  BY LoopAssumption DEF TypeOK, ReactContexts
<1>2. CASE Run
  <2>1. NewReactContext.reason = ""
    BY DEF NewReactContext
  <2> QED
    BY <1>2, <2>1 DEF Run, StartRun, ReasonInv, InCycle
<1>3. CASE RunFromSnapshot
  <2>1. NewReactContextFromSnapshot(snapshot).reason = ""
    BY <1>3, SnapshotKeeps DEF RunFromSnapshot, TypeOK
  <2> QED
    BY <1>3, <2>1 DEF RunFromSnapshot, StartRun, ReasonInv, InCycle
<1>4. CASE LeaveExhausted
  <2>1. rc.iter = MaxIterations
    BY <1>1, <1>4 DEF LeaveExhausted, CountInv, Counted
  <2> QED
    BY <1>4, <2>1 DEF LeaveExhausted, ReasonInv, InCycle
<1>5. CASE LeaveTerminated
  <2>1. rc'.reason = CheckTermination(rc, cancelled)
    BY <1>1, <1>5 DEF LeaveTerminated, ReactContexts
  <2>2. rc'.reason # "" /\ rc'.reason # "reached max iterations"
    <3>1. ~(rc.iter >= MaxIterations)
      <4>1. rc.iter < MaxIterations
        BY <1>5 DEF LeaveTerminated
      <4> QED
        BY <1>1, <4>1
    <3>2. CheckTermination(rc, cancelled) # "reached max iterations"
      BY <3>1, CheckTerminationType DEF TypeOK
    <3> QED
      BY <1>5, <2>1, <3>2 DEF LeaveTerminated
  <2> QED
    BY <1>5, <2>2 DEF LeaveTerminated, ReasonInv, InCycle
<1>6. CASE ThinkError
  <2>1. rc'.reason = "think error"
    BY <1>1, <1>6 DEF ThinkError, ReactContexts
  <2> QED
    BY <1>6, <2>1 DEF ThinkError, ReasonInv, InCycle
<1>7. CASE BeginCycle
  BY <1>7 DEF BeginCycle, ReasonInv, InCycle
<1>8. CASE Think
  <2>1. rc'.reason = rc.reason
    BY <1>1, <1>8 DEF Think, ReactContexts
  <2> QED
    BY <1>8, <2>1 DEF Think, ReasonInv, InCycle
<1>9. CASE Act
  BY <1>9, ActKeeps DEF Act, ReasonInv, InCycle
<1>10. CASE ObserveAndPersist
  BY <1>10, StepAdded DEF ObserveAndPersist, ReasonInv, InCycle
<1>11. CASE Finish
  <2>1. pc' = "idle" /\ rc' = rc /\ result' = RunResultOf(rc) /\ RunResultOf(rc)' = RunResultOf(rc)
    BY <1>11 DEF Finish, RunResultOf, AnswerOf
  <2> QED
    BY <1>11, <2>1 DEF Finish, ReasonInv, InCycle
<1>12. CASE Cancel \/ SetPauseRequested \/ UNCHANGED vars
  <2>1. UNCHANGED <<pc, rc, result>>
    BY <1>12 DEF Cancel, SetPauseRequested, vars
  <2> QED
    BY <2>1 DEF ReasonInv, RunResultOf, AnswerOf
<1> QED
  BY <1>2, <1>3, <1>4, <1>5, <1>6, <1>7, <1>8, <1>9, <1>10, <1>11, <1>12
     DEF Next, LoopStep

\* A result without a reason means the budget is spent, and only that.
THEOREM BlankReasonHolds == Spec => []BlankReasonMeansBudgetSpent
<1>1. Init => CountInv /\ ReasonInv
  <2>1. NewReactContext.reason = ""
    BY DEF NewReactContext
  <2> QED
    BY <2>1, NewTaskCounted DEF Init, CountInv, ReasonInv, InCycle
<1>2. ReasonInv => BlankReasonMeansBudgetSpent
  <2>1. RunResultOf(rc).reason = rc.reason /\ RunResultOf(rc).iterations = rc.iter
    BY DEF RunResultOf
  <2> QED
    BY <2>1 DEF ReasonInv, BlankReasonMeansBudgetSpent
<1> QED
  BY <1>1, <1>2, InitTypeOK, NextTypeOK, NextCount, NextReason, PTL DEF Spec

-----------------------------------------------------------------------------
\* No cycle beyond a stop condition.

LEMMA LastIsAction ==
  ASSUME NEW history \in Seq(Actions), history # <<>>
  PROVE  history[Len(history)] \in Actions
<1>1. Len(history) \in Nat \ {0}
  BY EmptySeq
<1>2. Len(history) \in 1..Len(history)
  BY <1>1
<1> QED
  BY <1>2, ElementOfSeq

\* When the loop goes on, the history it goes on from does not end it.
LEMMA GoingOnIsUnended ==
  ASSUME NEW c \in ReactContexts, Completed(c), ContextStop(c) = ""
  PROVE  ~HistoryEnds(c.history)
<1>0. c.history # <<>> => c.history[Len(c.history)] \in Actions
  BY LastIsAction DEF ReactContexts
<1>1. ~isDestructiveLoop(c.history) /\ ~isDuplicateAction(c.history)
  BY DEF ContextStop
<1>2. ASSUME c.history # <<>> PROVE c.history[Len(c.history)].type = "tool_call"
  <2>1. c.action = c.history[Len(c.history)] /\ c.action \in Actions
    BY <1>0, <1>2 DEF Completed
  <2>2. c.action # None /\ c.action.type \in ActionTypes
    BY <2>1, LoopAssumption DEF Actions
  <2>3. c.action.type # "answer" /\ c.action.type # "clarify"
    BY <2>2 DEF ContextStop
  <2> QED
    BY <2>1, <2>2, <2>3 DEF ActionTypes
<1>3. ASSUME c.history # <<>>
      PROVE  ~isToolErrorIrrecoverable(c.history[Len(c.history)].error)
  <2>1. c.observation = ObservationOf(c.history[Len(c.history)])
    BY <1>3 DEF Completed
  <2>2. c.history[Len(c.history)] \in Actions
    BY <1>0, <1>3
  <2>3. c.observation # None
    BY <2>1, <2>2, ObservationType, NoneAssumption
  <2>4. c.observation.error = c.history[Len(c.history)].error
    <3>1. ObservationOf(c.history[Len(c.history)]).error = c.history[Len(c.history)].error
      BY DEF ObservationOf
    <3> QED
      BY <2>1, <3>1
  <2> QED
    BY <2>3, <2>4 DEF ContextStop
<1> QED
  BY <1>1, <1>2, <1>3 DEF HistoryEnds

\* Appending a step to a history that did not have to end.
LEMMA UnstoppedAppend ==
  ASSUME NEW history \in Seq(Actions), NEW action \in Actions,
         Unstopped(history), ~HistoryEnds(history)
  PROVE  Unstopped(Append(history, action))
<1> SUFFICES ASSUME NEW n \in 1..(Len(Append(history, action)) - 1)
             PROVE  ~HistoryEnds(SubSeq(Append(history, action), 1, n))
  BY DEF Unstopped
<1>1. Len(Append(history, action)) = Len(history) + 1 /\ n \in 1..Len(history)
  OBVIOUS
<1>2. SubSeq(Append(history, action), 1, n) = SubSeq(history, 1, n)
  BY <1>1
<1>3. CASE n = Len(history)
  <2>1. SubSeq(history, 1, n) = history
    BY <1>3
  <2> QED
    BY <1>2, <2>1
<1>4. CASE n # Len(history)
  <2>1. n \in 1..(Len(history) - 1)
    BY <1>1, <1>4
  <2> QED
    BY <1>2, <2>1 DEF Unstopped
<1> QED
  BY <1>3, <1>4

LEMMA NewTaskUnstopped ==
  Unstopped(NewReactContext.history) /\ Completed(NewReactContext)
<1>1. NewReactContext.history = <<>> /\ Len(<<>>) = 0
  BY DEF NewReactContext
<1> QED
  BY <1>1 DEF Unstopped, Completed

LEMMA NextStop == TypeOK /\ StopInv /\ [Next]_vars => StopInv'
<1> SUFFICES ASSUME TypeOK, StopInv, [Next]_vars PROVE StopInv'
  OBVIOUS
<1>1. rc \in ReactContexts /\ (snapshot # None => snapshot \in ReactContexts)
  BY DEF TypeOK
<1>2. ASSUME rc'.history = rc.history, rc'.action = rc.action,
             rc'.observation = rc.observation,
             UNCHANGED snapshot, pc' # "observe", pc # "observe",
             pc' \in InCycle => ~HistoryEnds(rc.history)
      PROVE  StopInv'
  BY <1>2 DEF StopInv, Completed
<1>3. CASE Run
  BY <1>3, NewTaskUnstopped DEF Run, StartRun, StopInv, InCycle
<1>4. CASE RunFromSnapshot
  <2>1. /\ rc'.history = snapshot.history /\ rc'.action = snapshot.action
        /\ rc'.observation = snapshot.observation /\ snapshot # None
    BY <1>1, <1>4, SnapshotKeeps DEF RunFromSnapshot, StartRun
  <2>2. Unstopped(rc'.history) /\ Completed(rc')
    BY <2>1 DEF StopInv, Completed
  <2>3. pc' = "head" /\ snapshot' = None
    BY <1>4 DEF RunFromSnapshot, StartRun
  <2> QED
    BY <2>2, <2>3 DEF StopInv, InCycle
<1>5. CASE LeaveExhausted \/ LeaveTerminated
  <2>1. pc = "head" /\ pc' = "finish" /\ UNCHANGED snapshot
    BY <1>5 DEF LeaveExhausted, LeaveTerminated
  <2> QED
    BY <1>2, <1>5, <2>1, ContextKept DEF InCycle
<1>6. CASE BeginCycle
  <2>1. pc = "head" /\ pc' = "think" /\ UNCHANGED snapshot
    BY <1>6 DEF BeginCycle
  <2>2. ContextStop(rc) = ""
    BY <1>6 DEF BeginCycle, CheckTermination
  <2>3. Completed(rc)
    BY <2>1 DEF StopInv
  <2>4. ~HistoryEnds(rc.history)
    BY <1>1, <2>2, <2>3, GoingOnIsUnended
  <2> QED
    BY <1>2, <1>6, <2>1, <2>4, ContextKept
<1>7. CASE Think \/ ThinkError
  <2>1. pc = "think" /\ pc' \in {"act", "finish"} /\ UNCHANGED snapshot
    BY <1>7 DEF Think, ThinkError
  <2>2. ~HistoryEnds(rc.history)
    BY <2>1 DEF StopInv, InCycle
  <2> QED
    BY <1>2, <1>7, <2>1, <2>2, ContextKept
<1>8. CASE Act
  <2>1. pc = "act" /\ pc' = "observe" /\ UNCHANGED snapshot
    BY <1>8 DEF Act
  <2> QED
    BY <1>8, <2>1, ActKeeps DEF StopInv, InCycle, Completed
<1>9. CASE ObserveAndPersist
  <2>1. pc = "observe" /\ pc' = "head" /\ UNCHANGED snapshot
    BY <1>9 DEF ObserveAndPersist
  <2>2. rc.history \in Seq(Actions)
    BY <1>1 DEF ReactContexts
  <2>3. Unstopped(rc.history) /\ ~HistoryEnds(rc.history)
    BY <2>1 DEF StopInv, InCycle
  <2>4. Unstopped(rc'.history)
    BY <1>9, <2>2, <2>3, StepAdded, UnstoppedAppend
  <2>5. rc'.history[Len(rc'.history)] = rc.action
    BY <1>9, <2>2, StepAdded
  <2>6. Completed(rc')
    BY <1>9, <2>5, StepAdded DEF Completed
  <2> QED
    BY <2>1, <2>4, <2>6 DEF StopInv, InCycle
<1>10. CASE Finish
  <2>1. rc' = rc /\ snapshot' \in {snapshot, ToSnapshot(rc)} /\ pc' = "idle" /\ pc = "finish"
    BY <1>10 DEF Finish
  <2>2. Unstopped(rc.history) /\ Completed(rc)
    BY <2>1 DEF StopInv
  <2>3. Unstopped(ToSnapshot(rc).history) /\ Completed(ToSnapshot(rc))
    BY <1>1, <2>2, SnapshotKeeps DEF Completed
  <2> QED
    BY <2>1, <2>2, <2>3 DEF StopInv, InCycle
<1>11. CASE Cancel \/ SetPauseRequested \/ UNCHANGED vars
  BY <1>11 DEF Cancel, SetPauseRequested, vars, StopInv
<1> QED
  BY <1>3, <1>4, <1>5, <1>6, <1>7, <1>8, <1>9, <1>10, <1>11 DEF Next, LoopStep

\* No cycle is added to a history that had reached a stop condition, not even
\* by resuming the paused run.
THEOREM StopsAreFinal == Spec => []NoStepBeyondAStop
<1>1. Init => StopInv
  BY NewTaskUnstopped DEF Init, StopInv, InCycle
<1>2. StopInv => NoStepBeyondAStop
  BY DEF StopInv, Unstopped, NoStepBeyondAStop
<1> QED
  BY <1>1, <1>2, InitTypeOK, NextTypeOK, NextStop, PTL DEF Spec

-----------------------------------------------------------------------------
\* Two of the stop conditions never decide.

\* Prefixes of a sequence of actions.
LEMMA PrefixFacts ==
  ASSUME NEW history \in Seq(Actions), NEW n \in 1..Len(history)
  PROVE  /\ Len(SubSeq(history, 1, n)) = n
         /\ \A i \in 1..n : SubSeq(history, 1, n)[i] = history[i]
OBVIOUS

\* Every step but the last of such a history is a tool call.
LEMMA EarlierStepsAreToolCalls ==
  ASSUME NEW history \in Seq(Actions), Unstopped(history),
         NEW n \in 1..(Len(history) - 1)
  PROVE  history[n].type = "tool_call"
<1>1. n \in 1..Len(history)
  OBVIOUS
<1> DEFINE prefix == SubSeq(history, 1, n)
<1>2. Len(prefix) = n /\ prefix[n] = history[n]
  BY <1>1, PrefixFacts
<1>3. prefix # <<>>
  BY <1>2
<1>4. ~HistoryEnds(prefix)
  BY DEF Unstopped
<1> HIDE DEF prefix
<1> QED
  BY <1>2, <1>3, <1>4 DEF HistoryEnds

LEMMA ConvergedMeansDuplicateBefore ==
  ASSUME NEW history \in Seq(Actions), Unstopped(history)
  PROVE  ~isResultConverged(history)
<1> SUFFICES ASSUME isResultConverged(history) PROVE FALSE
  OBVIOUS
<1>1. Len(history) \in Nat /\ Len(history) >= 3
  <2>1. Len(history) >= convergedCount
    BY DEF isResultConverged
  <2> QED
    BY <2>1 DEF convergedCount
<1> DEFINE n == Len(history) - 1
           prefix == SubSeq(history, 1, n)
<1>2. n \in 1..Len(history) /\ n - 1 \in 1..n /\ n \in 1..n /\ n >= 2
  BY <1>1
<1>3. /\ Len(prefix) = n
      /\ prefix[n] = history[n] /\ prefix[n - 1] = history[n - 1]
  BY <1>2, PrefixFacts
<1>4. history[n].type = "tool_call" /\ history[n - 1].type = "tool_call"
  <2>1. n \in 1..(Len(history) - 1) /\ n - 1 \in 1..(Len(history) - 1)
    BY <1>1
  <2> QED
    BY <2>1, EarlierStepsAreToolCalls
<1>5. history[n].result = history[n - 1].result
  <2>1. LastSteps(history, 3) = {history[i] : i \in (Len(history) - 3 + 1)..Len(history)}
    BY DEF LastSteps
  <2>2. n \in (Len(history) - 3 + 1)..Len(history)
        /\ n - 1 \in (Len(history) - 3 + 1)..Len(history)
    BY <1>1
  <2>3. history[n] \in LastSteps(history, 3) /\ history[n - 1] \in LastSteps(history, 3)
    BY <2>1, <2>2
  <2> QED
    BY <2>3 DEF isResultConverged, convergedCount
<1>6. LastSteps(prefix, 2) = {history[n - 1], history[n]}
  <2>1. (Len(prefix) - 2 + 1)..Len(prefix) = {n - 1, n}
    BY <1>2, <1>3
  <2>2. LastSteps(prefix, 2) = {prefix[i] : i \in {n - 1, n}}
    BY <2>1 DEF LastSteps
  <2> HIDE DEF prefix, n
  <2> QED
    BY <1>3, <2>2
<1>7. isDuplicateAction(prefix)
  <2> HIDE DEF prefix
  <2> QED
    BY <1>2, <1>3, <1>4, <1>5, <1>6 DEF isDuplicateAction, duplicateCount
<1>8. HistoryEnds(prefix)
  BY <1>7 DEF HistoryEnds
<1>9. n \in 1..(Len(history) - 1)
  BY <1>1
<1> QED
  BY <1>8, <1>9 DEF Unstopped

LEMMA StuckMeansAnsweredBefore ==
  ASSUME NEW c \in ReactContexts, Completed(c), isAgentStuck(c.history)
  PROVE  c.action # None /\ c.action.type \in {"answer", "clarify"}
<1> DEFINE history == c.history
<1>1. history \in Seq(Actions)
  BY DEF ReactContexts
<1>2. Len(history) \in Nat /\ Len(history) >= 4
  BY <1>1 DEF isAgentStuck, maxStuckCount
<1>3. history # <<>>
  BY <1>2
<1>4. history[Len(history)] \in Actions
  BY <1>1, <1>3, LastIsAction
<1>5. history[Len(history)] \in LastSteps(history, 4)
  <2>1. Len(history) \in (Len(history) - 4 + 1)..Len(history)
    BY <1>2
  <2> QED
    BY <2>1 DEF LastSteps
<1>6. history[Len(history)].type # "tool_call"
  BY <1>5 DEF isAgentStuck, maxStuckCount
<1>7. c.action = history[Len(history)]
  BY <1>3 DEF Completed
<1> HIDE DEF history
<1> QED
  BY <1>4, <1>6, <1>7, LoopAssumption DEF Actions, ActionTypes

LEMMA NeitherDecides ==
  ASSUME NEW c \in ReactContexts, Completed(c), Unstopped(c.history),
         NEW done \in BOOLEAN
  PROVE  CheckTermination(c, done) \notin {"agent stuck", "result converged"}
<1>1. ~isResultConverged(c.history)
  BY ConvergedMeansDuplicateBefore DEF ReactContexts
<1>2. isAgentStuck(c.history) =>
        c.action # None /\ c.action.type \in {"answer", "clarify"}
  BY StuckMeansAnsweredBefore
<1> QED
  BY <1>1, <1>2 DEF CheckTermination, ContextStop

\* Inside a run "agent stuck" and "result converged" are never the reason:
\* another stop condition always holds first.
THEOREM TwoConditionsAreDead == Spec => []StuckAndConvergedNeverDecide
<1>1. Init => StopInv /\ StuckAndConvergedNeverDecide
  <2>1. NewReactContext.reason = ""
    BY DEF NewReactContext
  <2> QED
    BY <2>1, NewTaskUnstopped DEF Init, StopInv, InCycle, StuckAndConvergedNeverDecide
<1>2. TypeOK /\ StopInv /\ StuckAndConvergedNeverDecide /\ [Next]_vars
        => StuckAndConvergedNeverDecide'
  <2> SUFFICES ASSUME TypeOK, StopInv, StuckAndConvergedNeverDecide, [Next]_vars
               PROVE  StuckAndConvergedNeverDecide'
    OBVIOUS
  <2> USE DEF StuckAndConvergedNeverDecide
  <2>1. rc \in ReactContexts
    BY DEF TypeOK
  <2>2. CASE LeaveTerminated
    <3>1. Completed(rc) /\ Unstopped(rc.history)
      BY <2>2 DEF StopInv, LeaveTerminated
    <3>2. rc'.reason = CheckTermination(rc, cancelled)
      BY <2>1, <2>2 DEF LeaveTerminated, ReactContexts
    <3> QED
      BY <2>1, <3>1, <3>2, NeitherDecides DEF TypeOK
  <2>3. CASE ThinkError
    BY <2>1, <2>3 DEF ThinkError, ReactContexts
  <2>4. CASE Run
    BY <2>4 DEF Run, StartRun, NewReactContext
  <2>5. CASE RunFromSnapshot
    BY <2>5, SnapshotKeeps DEF RunFromSnapshot, StartRun, TypeOK
  <2>6. CASE Think
    BY <2>1, <2>6 DEF Think, ReactContexts
  <2>7. CASE Act
    BY <2>7, ActKeeps
  <2>8. CASE ObserveAndPersist
    BY <2>8, StepAdded
  <2>9. CASE LeaveExhausted \/ BeginCycle \/ Finish \/ Cancel \/ SetPauseRequested
             \/ UNCHANGED vars
    BY <2>9 DEF LeaveExhausted, BeginCycle, Finish, Cancel, SetPauseRequested, vars
  <2> QED
    BY <2>2, <2>3, <2>4, <2>5, <2>6, <2>7, <2>8, <2>9 DEF Next, LoopStep
<1> QED
  BY <1>1, <1>2, InitTypeOK, NextTypeOK, NextStop, PTL DEF Spec

-----------------------------------------------------------------------------
\* The contract: every step of the loop is a step of RunContract or hidden.

\* The loop implements the safety part of the contract its callers rely on.
THEOREM ImplementsContractSafety == Spec => Task!ContractSafety
<1>1. Init => Task!ContractInit
  <2>1. NewReactContext.history = <<>> /\ Len(<<>>) = 0
    BY DEF NewReactContext
  <2> QED
    BY <2>1 DEF Init, Task!ContractInit
<1>2. TypeOK /\ CountInv /\ CancelInv /\ [Next]_vars
        => [Task!ContractNext]_(Task!contractVars)
  <2> SUFFICES ASSUME TypeOK, CountInv, CancelInv, [Next]_vars
               PROVE  Task!ContractNext \/ UNCHANGED Task!contractVars
    OBVIOUS
  <2> USE LoopAssumption, NoneAssumption
  <2>1. rc \in ReactContexts /\ (snapshot # None => snapshot \in ReactContexts)
    BY DEF TypeOK
  <2>2. CASE Run
    <3>1. rc'.history = <<>> /\ Len(rc'.history) = 0
      BY <2>2 DEF Run, StartRun, NewReactContext
    <3>2. Task!BeginTask
      BY <2>2, <3>1 DEF Run, StartRun, Task!BeginTask
    <3> QED
      BY <3>2 DEF Task!ContractNext
  <2>3. CASE RunFromSnapshot
    <3>1. snapshot # None /\ rc'.history = snapshot.history
      BY <2>1, <2>3, SnapshotKeeps DEF RunFromSnapshot, StartRun
    <3>2. Len(snapshot.history) \in Nat
      BY <2>1, <3>1 DEF ReactContexts
    <3>3. Task!ContinueTask
      BY <2>3, <3>1, <3>2 DEF RunFromSnapshot, StartRun, Task!ContinueTask
    <3> QED
      BY <3>3 DEF Task!ContractNext
  <2>4. CASE LeaveExhausted \/ LeaveTerminated \/ BeginCycle \/ Think \/ ThinkError
    <3>1. rc'.history = rc.history
      BY <2>4, ContextKept
    <3>2. pc # "idle" /\ pc' # "idle" /\ UNCHANGED <<cancelled, lateCycles, snapshot>>
      BY <2>4 DEF LeaveExhausted, LeaveTerminated, BeginCycle, Think, ThinkError
    <3> QED
      BY <3>1, <3>2 DEF Task!contractVars
  <2>5. CASE Act
    <3>1. rc'.history = rc.history
      BY <2>5, ActKeeps
    <3>2. pc # "idle" /\ pc' # "idle" /\ UNCHANGED <<cancelled, lateCycles, snapshot>>
      BY <2>5 DEF Act
    <3> QED
      BY <3>1, <3>2 DEF Task!contractVars
  <2>6. CASE ObserveAndPersist
    <3>1. /\ Len(rc'.history) = Len(rc.history) + 1
          /\ Len(rc.history) < MaxIterations
      BY <2>6, StepAdded DEF ObserveAndPersist, CountInv, Counted, InCycle
    <3>2. lateCycles = 0 /\ (lateCycles' > 0) = cancelled
      BY <2>6 DEF ObserveAndPersist, CancelInv, InCycle, TypeOK
    <3>3. pc = "observe" /\ pc' = "head" /\ UNCHANGED <<cancelled, snapshot>>
      BY <2>6 DEF ObserveAndPersist
    <3>4. Task!CompleteCycle
      BY <3>1, <3>2, <3>3 DEF Task!CompleteCycle
    <3> QED
      BY <3>4 DEF Task!ContractNext
  <2>7. CASE Finish
    <3>1. rc' = rc /\ pc # "idle" /\ pc' = "idle" /\ UNCHANGED <<cancelled, lateCycles>>
      BY <2>7 DEF Finish
    <3>2. \/ snapshot' = snapshot
          \/ snapshot' # None /\ Len(snapshot'.history) = Len(rc.history)
      BY <2>1, <2>7, SnapshotKeeps DEF Finish
    <3>3. Task!Return
      BY <3>1, <3>2 DEF Task!Return
    <3> QED
      BY <3>3 DEF Task!ContractNext
  <2>8. CASE Cancel
    <3>1. Task!AskToStop
      BY <2>8 DEF Cancel, Task!AskToStop
    <3> QED
      BY <3>1 DEF Task!ContractNext
  <2>9. CASE SetPauseRequested \/ UNCHANGED vars
    BY <2>9 DEF SetPauseRequested, vars, Task!contractVars
  <2> QED
    BY <2>2, <2>3, <2>4, <2>5, <2>6, <2>7, <2>8, <2>9 DEF Next, LoopStep
<1>3. Init => CountInv /\ CancelInv
  BY NewTaskCounted DEF Init, CountInv, CancelInv, InCycle
<1> QED
  BY <1>1, <1>2, <1>3, InitTypeOK, NextTypeOK, NextCount, NextCancel, PTL
     DEF Spec, Task!ContractSafety

-----------------------------------------------------------------------------
(* Coordinator mode *)

\* Cancel is the only way to a cancelled lifecycle, and ends its context.
CancelledIsDone == lifecycle = "cancelled" => lifeDone

\* An ended context has no child left, and no task is registered with a live one.
DoneHasNoChildren == lifeDone => live \cap (Coord!ChildrenOfLife \cup Coord!Registered) = {}

\* What a poll has counted as nothing stays nothing, unless a task is added or
\* retried meanwhile.
NothingStaysNothing == loop = "observe" /\ ~reopened /\ pending = 0 => Coord!AllCompleted

CoordinatorInv == Coord!TypeOK /\ CancelledIsDone /\ DoneHasNoChildren /\ NothingStaysNothing

-----------------------------------------------------------------------------
\* What the steps do to the table, the contexts and the lifecycle.

\* What the model says of the constants.
LEMMA Constants ==
  /\ IsFiniteSet(Tasks)
  /\ MaxRetries \in Nat /\ ControlCapacity \in Nat /\ MaxContexts \in Nat /\ MaxResumes \in Nat
BY MCAssumption DEF Coord!CoordinationAssumption, IsFiniteSet, Coord!IsFiniteSet

LEMMA SameCardinality == \A S : Coord!Cardinality(S) = Cardinality(S)
BY DEF Cardinality, Coord!Cardinality

LEMMA PendingIsCounted ==
  ASSUME Coord!TypeOK
  PROVE  /\ IsFiniteSet(Coord!Pending)
         /\ Cardinality(Coord!Pending) \in Nat
         /\ Cardinality(Coord!Pending) = 0 => Coord!AllCompleted
<1>1. Coord!Pending \subseteq Tasks
  BY DEF Coord!Pending, Coord!Table
<1>2. IsFiniteSet(Coord!Pending)
  BY <1>1, FS_Subset, Constants
<1> QED
  BY <1>2, FS_CardinalityType, FS_EmptySet DEF Coord!AllCompleted

LEMMA MarkedIsTyped ==
  ASSUME Coord!TypeOK, Coord!MarkSubTasks
  PROVE  /\ status' \in [Tasks -> Coord!Statuses \cup {"none"}]
         /\ Coord!AllCompleted => Coord!AllCompleted'
BY DEF Coord!TypeOK, Coord!MarkSubTasks, Coord!Statuses, Coord!Ended, Coord!AllCompleted,
   Coord!Pending, Coord!Table

\* Interrupt and Cancel, which the loop calls as well as the owner.
LEMMA InterruptPreserves ==
  ASSUME Coord!TypeOK, CancelledIsDone, DoneHasNoChildren, Coord!Interrupt
  PROVE  /\ status' \in [Tasks -> Coord!Statuses \cup {"none"}]
         /\ Coord!AllCompleted => Coord!AllCompleted'
         /\ live' \subseteq 1..Len(lifeOf') /\ lifecycle' = "interrupted"
         /\ lifeDone' = lifeDone
         /\ CancelledIsDone' /\ DoneHasNoChildren'
<1>1. /\ status' \in [Tasks -> Coord!Statuses \cup {"none"}]
      /\ Coord!AllCompleted => Coord!AllCompleted'
  BY MarkedIsTyped DEF Coord!Interrupt
<1>2. DoneHasNoChildren'
  BY DEF Coord!Interrupt, DoneHasNoChildren, Coord!ChildrenOfLife, Coord!Registered
<1> QED
  BY <1>1, <1>2 DEF Coord!Interrupt, CancelledIsDone, Coord!TypeOK

LEMMA CancelPreserves ==
  ASSUME Coord!TypeOK, Coord!Cancel
  PROVE  /\ status' \in [Tasks -> Coord!Statuses \cup {"none"}]
         /\ Coord!AllCompleted => Coord!AllCompleted'
         /\ live' \subseteq 1..Len(lifeOf') /\ lifecycle' = "cancelled"
         /\ lifeDone' = TRUE
         /\ CancelledIsDone' /\ DoneHasNoChildren'
<1>1. /\ status' \in [Tasks -> Coord!Statuses \cup {"none"}]
      /\ Coord!AllCompleted => Coord!AllCompleted'
  BY MarkedIsTyped DEF Coord!Cancel
<1>2. DoneHasNoChildren'
  BY DEF Coord!Cancel, DoneHasNoChildren, Coord!ChildrenOfLife, Coord!Registered
<1> QED
  BY <1>1, <1>2 DEF Coord!Cancel, CancelledIsDone, Coord!TypeOK

\* The facts about the table, the contexts and the lifecycle that a step of the
\* loop which leaves them alone keeps.
LEMMA RefusedPreserves ==
  ASSUME Coord!TypeOK, CancelledIsDone, DoneHasNoChildren, Coord!Refused
  PROVE  CancelledIsDone' /\ DoneHasNoChildren' /\ (Coord!AllCompleted => Coord!AllCompleted')
BY DEF Coord!Refused, Coord!contextVars, Coord!tableVars, CancelledIsDone, DoneHasNoChildren,
   Coord!ChildrenOfLife, Coord!Registered, Coord!AllCompleted, Coord!Pending, Coord!Table

-----------------------------------------------------------------------------

LEMMA CoordinatorInit == Coord!Init => CoordinatorInv
<1> SUFFICES ASSUME Coord!Init PROVE CoordinatorInv
  OBVIOUS
<1>1. lifeOf \in Seq(Nat) /\ live \subseteq 1..Len(lifeOf) /\ Len(lifeOf) = 0
  BY DEF Coord!Init
<1>2. control \in Seq({"interrupt", "cancel", "resume"}) /\ Len(control) = 0
  BY DEF Coord!Init
<1>3. /\ status \in [Tasks -> Coord!Statuses \cup {"none"}]
      /\ retries \in [Tasks -> 0..MaxRetries]
      /\ registered \in [Tasks -> 0..Len(lifeOf)]
  BY <1>1, Constants DEF Coord!Init
<1>4. Len(control) <= ControlCapacity
  BY <1>2, Constants
<1>5. /\ final \in BOOLEAN /\ ctxDone \in BOOLEAN /\ reopened \in BOOLEAN
      /\ lifeDone \in BOOLEAN /\ timer \in BOOLEAN
  BY Zenon DEF Coord!Init
<1>6. pending \in Nat /\ life \in Nat \ {0}
  BY DEF Coord!Init
<1>7. /\ loop \in {"head", "observe", "wait", "cleanup", "returned", "crashed"}
      /\ lifecycle \in {"running", "interrupted", "cancelled", "completed"}
  BY DEF Coord!Init
<1>8. Coord!TypeOK
  BY <1>1, <1>2, <1>3, <1>4, <1>5, <1>6, <1>7 DEF Coord!TypeOK
<1> QED
  BY <1>8 DEF Coord!Init, CoordinatorInv, CancelledIsDone, DoneHasNoChildren, NothingStaysNothing

-----------------------------------------------------------------------------
\* The steps of the owner and of the sub-tasks.

LEMMA ResumePreserves ==
  ASSUME CoordinatorInv, Coord!Resume
  PROVE  CoordinatorInv'
<1> USE DEF CoordinatorInv
<1> DEFINE n == Cardinality(Coord!Interrupted)
           added == [i \in 1..n |-> life + 1]
<1>1. n \in Nat
  <2>1. Coord!Interrupted \subseteq Tasks
    BY DEF Coord!Interrupted, Coord!Table
  <2>2. IsFiniteSet(Coord!Interrupted)
    BY <2>1, FS_Subset, Constants
  <2> QED
    BY <2>2, FS_CardinalityType
<1>2. added \in Seq(Nat) /\ Len(added) = n
  <2>1. life + 1 \in Nat
    BY DEF Coord!TypeOK
  <2>2. added \in [1..n -> Nat]
    BY <2>1
  <2>3. added \in Seq(Nat)
    BY <1>1, <2>2, SeqDef
  <2> QED
    BY <1>1, <2>3, LenProperties
<1>3. lifeOf' \in Seq(Nat) /\ Len(lifeOf') = Len(lifeOf) + n
  <2>1. lifeOf \in Seq(Nat)
    BY DEF Coord!TypeOK
  <2>2. lifeOf' = lifeOf \o added
    BY SameCardinality DEF Coord!Resume
  <2> HIDE DEF n, added
  <2> QED
    BY <1>2, <2>1, <2>2, ConcatProperties
<1>4. Len(lifeOf) \in Nat /\ Len(lifeOf') \in Nat
  BY <1>1, <1>3, LenProperties DEF Coord!TypeOK
<1>5. live' \subseteq 1..Len(lifeOf')
  <2>1. live' = live \cup (Len(lifeOf) + 1)..Len(lifeOf')
    BY DEF Coord!Resume
  <2>2. 1..Len(lifeOf) \subseteq 1..Len(lifeOf')
    BY <1>1, <1>3, <1>4
  <2>3. (Len(lifeOf) + 1)..Len(lifeOf') \subseteq 1..Len(lifeOf')
    BY <1>4
  <2> QED
    BY <2>1, <2>2, <2>3 DEF Coord!TypeOK
<1>6. registered' \in [Tasks -> 0..Len(lifeOf')]
  <2>1. PICK new \in [Coord!Interrupted -> (Len(lifeOf) + 1)..Len(lifeOf')] :
          registered' = [t \in Tasks |-> IF t \in Coord!Interrupted THEN new[t] ELSE registered[t]]
    BY DEF Coord!Resume
  <2>2. (Len(lifeOf) + 1)..Len(lifeOf') \subseteq 0..Len(lifeOf')
    BY <1>4
  <2>3. 0..Len(lifeOf) \subseteq 0..Len(lifeOf')
    BY <1>1, <1>3, <1>4
  <2>4. \A t \in Coord!Interrupted : new[t] \in 0..Len(lifeOf')
    BY <2>2
  <2>5. \A t \in Tasks : registered[t] \in 0..Len(lifeOf')
    BY <2>3 DEF Coord!TypeOK
  <2> QED
    BY <2>1, <2>4, <2>5
<1>7. status' \in [Tasks -> Coord!Statuses \cup {"none"}]
  BY DEF Coord!TypeOK, Coord!Resume, Coord!Statuses
<1>8. life' \in Nat \ {0}
  BY DEF Coord!TypeOK, Coord!Resume
<1>9. Coord!TypeOK'
  <2>1. UNCHANGED <<loop, final, pending, ctxDone, control, timer, retries, reopened>>
        /\ lifecycle' = "running" /\ lifeDone' = FALSE
    BY DEF Coord!Resume, Coord!loopVars, Coord!channelVars
  <2> HIDE DEF CoordinatorInv
  <2>2. Coord!TypeOK
    BY DEF CoordinatorInv
  <2> QED
    BY <1>3, <1>5, <1>6, <1>7, <1>8, <2>1, <2>2 DEF Coord!TypeOK
<1>10. NothingStaysNothing'
  <2>1. Coord!AllCompleted => Coord!AllCompleted'
    BY DEF Coord!AllCompleted, Coord!Pending, Coord!Table, Coord!Interrupted, Coord!Resume,
       Coord!TypeOK, Coord!Ended
  <2> QED
    BY <2>1 DEF NothingStaysNothing, Coord!Resume, Coord!loopVars
<1> QED
  BY <1>9, <1>10 DEF Coord!Resume, CancelledIsDone, DoneHasNoChildren

LEMMA RegisterPreserves ==
  ASSUME CoordinatorInv, NEW t \in Tasks, Coord!RegisterSubTask(t)
  PROVE  CoordinatorInv'
<1> USE DEF CoordinatorInv
<1>1. lifeOf' \in Seq(Nat) /\ Len(lifeOf') = Len(lifeOf) + 1 /\ Len(lifeOf) \in Nat
      /\ \A i \in 1..Len(lifeOf) : lifeOf'[i] = lifeOf[i]
  BY AppendProperties, LenProperties DEF Coord!RegisterSubTask, Coord!TypeOK
<1>2. 1..Len(lifeOf) \subseteq 1..Len(lifeOf') /\ Len(lifeOf') \in 1..Len(lifeOf')
  BY <1>1
<1>3. live' \subseteq 1..Len(lifeOf')
  BY <1>2 DEF Coord!RegisterSubTask, Coord!TypeOK
<1>4. registered' \in [Tasks -> 0..Len(lifeOf')]
  <2>1. 0..Len(lifeOf) \subseteq 0..Len(lifeOf') /\ Len(lifeOf') \in 0..Len(lifeOf')
    BY <1>1
  <2> QED
    BY <2>1 DEF Coord!RegisterSubTask, Coord!TypeOK
<1>5. Coord!TypeOK'
  BY <1>1, <1>3, <1>4 DEF Coord!RegisterSubTask, Coord!TypeOK, Coord!loopVars, Coord!channelVars,
     Coord!tableVars
<1>6. DoneHasNoChildren'
  <2> SUFFICES ASSUME lifeDone'
               PROVE  live' \cap (Coord!ChildrenOfLife' \cup Coord!Registered') = {}
    BY DEF DoneHasNoChildren
  <2>1. lifeDone /\ live' = live /\ life' = life
        /\ registered' = [registered EXCEPT ![t] = Len(lifeOf')]
    BY DEF Coord!RegisterSubTask
  <2>2. Len(lifeOf') \notin live
    BY <1>1 DEF Coord!TypeOK
  <2>3. live \cap Coord!ChildrenOfLife' = {}
    BY <1>1, <2>1 DEF DoneHasNoChildren, Coord!ChildrenOfLife, Coord!TypeOK
  <2>4. \A s \in Tasks : registered'[s] \notin live
    BY <2>1, <2>2 DEF DoneHasNoChildren, Coord!Registered, Coord!TypeOK
  <2> QED
    BY <2>1, <2>3, <2>4 DEF Coord!Registered
<1> QED
  BY <1>5, <1>6 DEF Coord!RegisterSubTask, CancelledIsDone, NothingStaysNothing,
     Coord!AllCompleted, Coord!Pending, Coord!Table, Coord!loopVars, Coord!tableVars

\* The steps that change what the table holds.
LEMMA TablePreserves ==
  ASSUME CoordinatorInv, NEW t \in Tasks, Coord!Add(t) \/ Coord!Report(t) \/ Coord!Retry(t)
  PROVE  CoordinatorInv'
<1> USE DEF CoordinatorInv
<1>1. UNCHANGED <<loop, final, pending, ctxDone, lifecycle, life, lifeDone, lifeOf, live,
                  registered, control, timer>>
  BY DEF Coord!Add, Coord!Report, Coord!Retry, Coord!loopVars, Coord!channelVars,
     Coord!contextVars
<1>2. status' \in [Tasks -> Coord!Statuses \cup {"none"}]
  BY DEF Coord!Add, Coord!Report, Coord!Retry, Coord!TypeOK, Coord!Statuses, Coord!Ended
<1>3. retries' \in [Tasks -> 0..MaxRetries] /\ reopened' \in BOOLEAN
  <2>1. retries' \in [Tasks -> 0..MaxRetries]
    <3>1. CASE Coord!Retry(t)
      BY <3>1, Constants DEF Coord!Retry, Coord!TypeOK
    <3>2. CASE Coord!Add(t) \/ Coord!Report(t)
      BY <3>2 DEF Coord!Add, Coord!Report, Coord!TypeOK
    <3> QED
      BY <3>1, <3>2
  <2>2. reopened' \in BOOLEAN
    BY Zenon DEF Coord!Add, Coord!Report, Coord!Retry, Coord!Reopens, Coord!TypeOK
  <2> QED
    BY <2>1, <2>2
<1>4. Coord!TypeOK'
  BY <1>1, <1>2, <1>3 DEF Coord!TypeOK
<1>5. CancelledIsDone' /\ DoneHasNoChildren'
  BY <1>1 DEF CancelledIsDone, DoneHasNoChildren, Coord!ChildrenOfLife, Coord!Registered
<1>6. NothingStaysNothing'
  <2>1. CASE Coord!Add(t) \/ Coord!Retry(t)
    BY <1>1, <2>1 DEF Coord!Add, Coord!Retry, Coord!Reopens, NothingStaysNothing
  <2>2. CASE Coord!Report(t)
    BY <1>1, <2>2 DEF Coord!Report, NothingStaysNothing, Coord!AllCompleted, Coord!Pending,
       Coord!Table, Coord!TypeOK, Coord!Ended
  <2> QED
    BY <2>1, <2>2
<1> QED
  BY <1>4, <1>5, <1>6

LEMMA UnregisterPreserves ==
  ASSUME CoordinatorInv, NEW t \in Tasks, Coord!UnregisterSubTask(t)
  PROVE  CoordinatorInv'
<1> USE DEF CoordinatorInv
<1>1. registered' \in [Tasks -> 0..Len(lifeOf)]
  BY LenProperties DEF Coord!UnregisterSubTask, Coord!TypeOK
<1>2. Coord!TypeOK'
  BY <1>1 DEF Coord!UnregisterSubTask, Coord!TypeOK, Coord!loopVars, Coord!channelVars,
     Coord!tableVars
<1>3. DoneHasNoChildren'
  <2>1. 0 \notin live
    BY DEF Coord!TypeOK
  <2> QED
    BY <2>1 DEF Coord!UnregisterSubTask, DoneHasNoChildren, Coord!ChildrenOfLife,
       Coord!Registered, Coord!TypeOK
<1> QED
  BY <1>2, <1>3 DEF Coord!UnregisterSubTask, CancelledIsDone, NothingStaysNothing,
     Coord!AllCompleted, Coord!Pending, Coord!Table, Coord!loopVars, Coord!tableVars

\* The owner's calls, the control channel, the timer and the context of the run.
LEMMA OutsidePreserves ==
  ASSUME CoordinatorInv,
         \/ Coord!CallInterrupt \/ Coord!CallCancel
         \/ \E command \in {"interrupt", "cancel", "resume"} : Coord!SendControl(command)
         \/ Coord!TimerFires \/ Coord!EndContext
  PROVE  CoordinatorInv'
<1> USE DEF CoordinatorInv
<1>1. CASE Coord!CallInterrupt
  <2>1. Coord!TypeOK'
    BY <1>1, InterruptPreserves DEF Coord!CallInterrupt, Coord!Interrupt, Coord!TypeOK,
       Coord!loopVars, Coord!channelVars
  <2> QED
    BY <1>1, <2>1, InterruptPreserves DEF Coord!CallInterrupt, Coord!Interrupt,
       NothingStaysNothing, Coord!loopVars
<1>2. CASE Coord!CallCancel
  <2>1. Coord!TypeOK'
    BY <1>2, CancelPreserves DEF Coord!CallCancel, Coord!Cancel, Coord!TypeOK, Coord!loopVars,
       Coord!channelVars
  <2> QED
    BY <1>2, <2>1, CancelPreserves DEF Coord!CallCancel, Coord!Cancel, NothingStaysNothing,
       Coord!loopVars
<1>3. ASSUME NEW command \in {"interrupt", "cancel", "resume"}, Coord!SendControl(command)
      PROVE  CoordinatorInv'
  <2>1. control' \in Seq({"interrupt", "cancel", "resume"}) /\ Len(control') <= ControlCapacity
    BY <1>3, AppendProperties, LenProperties, Constants DEF Coord!SendControl, Coord!TypeOK
  <2>2. Coord!TypeOK'
    BY <1>3, <2>1 DEF Coord!SendControl, Coord!TypeOK, Coord!loopVars, Coord!tableVars,
       Coord!contextVars
  <2>3. Coord!Refused
    BY <1>3 DEF Coord!SendControl, Coord!Refused
  <2> QED
    BY <1>3, <2>2, <2>3, RefusedPreserves DEF Coord!SendControl, NothingStaysNothing,
       Coord!loopVars, Coord!tableVars
<1>4. CASE Coord!TimerFires
  <2>1. control' \in Seq({"interrupt", "cancel", "resume"}) /\ Len(control') <= ControlCapacity
    BY <1>4, AppendProperties, LenProperties, Constants DEF Coord!TimerFires, Coord!TypeOK
  <2>2. Coord!TypeOK'
    BY <1>4, <2>1 DEF Coord!TimerFires, Coord!TypeOK, Coord!tableVars, Coord!contextVars
  <2>3. Coord!Refused
    BY <1>4 DEF Coord!TimerFires, Coord!Refused
  <2> QED
    BY <1>4, <2>2, <2>3, RefusedPreserves DEF Coord!TimerFires, NothingStaysNothing,
       Coord!tableVars
<1>5. CASE Coord!EndContext
  <2>1. Coord!TypeOK'
    BY <1>5 DEF Coord!EndContext, Coord!TypeOK, Coord!tableVars, Coord!contextVars,
       Coord!channelVars
  <2>2. Coord!Refused
    BY <1>5 DEF Coord!EndContext, Coord!Refused
  <2> QED
    BY <1>5, <2>1, <2>2, RefusedPreserves DEF Coord!EndContext, NothingStaysNothing,
       Coord!tableVars
<1> QED
  BY <1>1, <1>2, <1>3, <1>4, <1>5

-----------------------------------------------------------------------------
\* The steps of the loop.

LEMMA CoordinatorLoop ==
  ASSUME CoordinatorInv, Coord!LoopStep
  PROVE  CoordinatorInv'
<1> USE DEF CoordinatorInv
<1>1. CASE Coord!Leave \/ Coord!Tick
  <2>1. Coord!TypeOK' /\ loop' # "observe"
    BY <1>1 DEF Coord!Leave, Coord!Tick, Coord!Goto, Coord!TypeOK, Coord!tableVars,
       Coord!contextVars, Coord!channelVars
  <2>2. Coord!Refused
    BY <1>1 DEF Coord!Leave, Coord!Tick, Coord!Refused
  <2> QED
    BY <2>1, <2>2, RefusedPreserves DEF NothingStaysNothing
<1>2. CASE Coord!LeaveLate
  <2>1. Coord!TypeOK' /\ loop' # "observe"
    BY <1>2, CancelPreserves DEF Coord!LeaveLate, Coord!Cancel, Coord!Goto, Coord!TypeOK,
       Coord!channelVars
  <2> QED
    BY <1>2, <2>1, CancelPreserves DEF Coord!LeaveLate, NothingStaysNothing
<1>3. CASE Coord!ActAndCount
  <2>1. pending' \in Nat /\ (pending' = 0 => Coord!AllCompleted)
    BY <1>3, PendingIsCounted, SameCardinality DEF Coord!ActAndCount
  <2>2. Coord!TypeOK'
    BY <1>3, <2>1 DEF Coord!ActAndCount, Coord!Goto, Coord!TypeOK, Coord!tableVars,
       Coord!contextVars, Coord!channelVars
  <2>3. Coord!Refused
    BY <1>3 DEF Coord!ActAndCount, Coord!Refused
  <2> QED
    BY <2>1, <2>2, <2>3, RefusedPreserves DEF NothingStaysNothing
<1>4. CASE Coord!ObserveAll
  <2>1. Coord!TypeOK' /\ loop' # "observe"
    BY <1>4 DEF Coord!ObserveAll, Coord!Goto, Coord!TypeOK, Coord!contextVars, Coord!channelVars
  <2> QED
    BY <1>4, <2>1 DEF Coord!ObserveAll, NothingStaysNothing, CancelledIsDone, DoneHasNoChildren,
       Coord!ChildrenOfLife, Coord!Registered, Coord!IsTerminal, Coord!contextVars
<1>5. CASE Coord!ObservePending
  <2>1. Coord!TypeOK' /\ loop' # "observe"
    BY <1>5 DEF Coord!ObservePending, Coord!Goto, Coord!TypeOK, Coord!contextVars,
       Coord!channelVars
  <2> QED
    BY <1>5, <2>1 DEF Coord!ObservePending, NothingStaysNothing, CancelledIsDone,
       DoneHasNoChildren, Coord!ChildrenOfLife, Coord!Registered, Coord!contextVars
<1>6. CASE Coord!SeeContextDone
  <2>1. CASE Coord!Cancel
    <3>1. Coord!TypeOK' /\ loop' # "observe"
      BY <1>6, <2>1, CancelPreserves DEF Coord!SeeContextDone, Coord!Cancel, Coord!Goto,
         Coord!TypeOK, Coord!channelVars
    <3> QED
      BY <2>1, <3>1, CancelPreserves DEF NothingStaysNothing
  <2>2. CASE Coord!Refused
    <3>1. Coord!TypeOK' /\ loop' # "observe"
      BY <1>6, <2>2 DEF Coord!SeeContextDone, Coord!Refused, Coord!Goto, Coord!TypeOK,
         Coord!tableVars, Coord!contextVars, Coord!channelVars
    <3> QED
      BY <2>2, <3>1, RefusedPreserves DEF NothingStaysNothing
  <2> QED
    BY <1>6, <2>1, <2>2 DEF Coord!SeeContextDone, Coord!TryCancel
<1>7. CASE Coord!HandleControl
  <2>1. /\ control' \in Seq({"interrupt", "cancel", "resume"})
        /\ Len(control') <= ControlCapacity
    BY <1>7, HeadTailProperties, LenProperties, Constants DEF Coord!HandleControl, Coord!TypeOK
  <2>2. UNCHANGED <<final, pending, ctxDone, timer>> /\ loop' = "head"
    BY <1>7 DEF Coord!HandleControl, Coord!Goto
  <2>3. Coord!Interrupt \/ Coord!Cancel \/ Coord!Refused
    BY <1>7 DEF Coord!HandleControl, Coord!TryInterrupt, Coord!TryCancel
  <2>4. CASE Coord!Interrupt
    <3>1. Coord!TypeOK' /\ loop' # "observe"
      BY <2>1, <2>2, <2>4, InterruptPreserves DEF Coord!Interrupt, Coord!TypeOK
    <3> QED
      BY <2>4, <3>1, InterruptPreserves DEF NothingStaysNothing
  <2>5. CASE Coord!Cancel
    <3>1. Coord!TypeOK' /\ loop' # "observe"
      BY <2>1, <2>2, <2>5, CancelPreserves DEF Coord!Cancel, Coord!TypeOK
    <3> QED
      BY <2>5, <3>1, CancelPreserves DEF NothingStaysNothing
  <2>6. CASE Coord!Refused
    <3>1. Coord!TypeOK' /\ loop' # "observe"
      BY <2>1, <2>2, <2>6 DEF Coord!Refused, Coord!TypeOK, Coord!tableVars, Coord!contextVars
    <3> QED
      BY <2>6, <3>1, RefusedPreserves DEF NothingStaysNothing
  <2> QED
    BY <2>3, <2>4, <2>5, <2>6
<1>8. CASE Coord!Dispose
  <2>1. control' \in Seq({"interrupt", "cancel", "resume"}) /\ Len(control') = 0
    BY <1>8 DEF Coord!Dispose
  <2>2. timer' \in BOOLEAN /\ lifeDone' \in BOOLEAN
    BY <1>8 DEF Coord!Dispose, Coord!TypeOK
  <2>3. live' \subseteq 1..Len(lifeOf')
    BY <1>8 DEF Coord!Dispose, Coord!TypeOK
  <2>4. /\ loop' = "returned"
        /\ UNCHANGED <<final, pending, ctxDone, status, retries, reopened, lifecycle,
                      life, lifeOf, registered>>
    BY <1>8 DEF Coord!Dispose, Coord!Goto, Coord!tableVars
  <2>5. Coord!TypeOK' /\ loop' # "observe"
    BY <2>1, <2>2, <2>3, <2>4, Constants DEF Coord!TypeOK
  <2> QED
    BY <1>8, <2>5 DEF Coord!Dispose, NothingStaysNothing, CancelledIsDone, DoneHasNoChildren,
       Coord!ChildrenOfLife, Coord!Registered
<1> QED
  BY <1>1, <1>2, <1>3, <1>4, <1>5, <1>6, <1>7, <1>8 DEF Coord!LoopStep

LEMMA CoordinatorStutters == CoordinatorInv /\ UNCHANGED coordinatorVars => CoordinatorInv'
BY DEF CoordinatorInv, coordinatorVars, Coord!loopVars, Coord!tableVars, Coord!contextVars,
   Coord!channelVars, Coord!TypeOK, CancelledIsDone, DoneHasNoChildren, NothingStaysNothing,
   Coord!ChildrenOfLife, Coord!Registered, Coord!AllCompleted, Coord!Pending, Coord!Table

\* Every step of the coordinator keeps the invariant.
LEMMA CoordinatorNext == CoordinatorInv /\ Coord!Next => CoordinatorInv'
<1> SUFFICES ASSUME CoordinatorInv, Coord!Next PROVE CoordinatorInv'
  OBVIOUS
<1> QED
  BY CoordinatorLoop, ResumePreserves, RegisterPreserves, TablePreserves, UnregisterPreserves,
     OutsidePreserves DEF Coord!Next

\* A step that changes the lifecycle is one of five.
LEMMA MovesAreAllowed ==
  ASSUME CoordinatorInv, Coord!Next, lifecycle' # lifecycle
  PROVE  Coord!LifecycleMove
<1>1. Coord!TypeOK /\ NothingStaysNothing
  BY DEF CoordinatorInv
<1>2. CASE Coord!Interrupt
  BY <1>2 DEF Coord!LifecycleMove, Coord!Interrupt, Coord!CanTransitionTo
<1>3. CASE Coord!Cancel
  BY <1>1, <1>3 DEF Coord!LifecycleMove, Coord!Cancel, Coord!CanTransitionTo, Coord!IsTerminal,
     Coord!TypeOK
<1>4. CASE Coord!Resume
  BY <1>4 DEF Coord!LifecycleMove, Coord!Resume, Coord!CanTransitionTo
<1>5. CASE Coord!ObserveAll
  BY <1>1, <1>5 DEF Coord!LifecycleMove, Coord!ObserveAll, Coord!CanTransitionTo,
     Coord!IsTerminal, Coord!TypeOK, NothingStaysNothing
<1>6. Coord!Interrupt \/ Coord!Cancel \/ Coord!Resume \/ Coord!ObserveAll
  <2>1. CASE Coord!LoopStep
    BY <2>1 DEF Coord!LoopStep, Coord!Leave, Coord!LeaveLate, Coord!ActAndCount,
       Coord!ObservePending, Coord!Tick, Coord!SeeContextDone, Coord!HandleControl, Coord!Dispose,
       Coord!TryCancel, Coord!TryInterrupt, Coord!Refused
  <2>2. ASSUME NEW t \in Tasks,
               \/ Coord!Add(t) \/ Coord!RegisterSubTask(t) \/ Coord!UnregisterSubTask(t)
               \/ Coord!Report(t) \/ Coord!Retry(t)
        PROVE  FALSE
    BY <2>2 DEF Coord!Add, Coord!RegisterSubTask, Coord!UnregisterSubTask, Coord!Report,
       Coord!Retry
  <2>3. CASE Coord!CallInterrupt \/ Coord!CallCancel \/ Coord!Resume
    BY <2>3 DEF Coord!CallInterrupt, Coord!CallCancel
  <2>4. CASE \E command \in {"interrupt", "cancel", "resume"} : Coord!SendControl(command)
    BY <2>4 DEF Coord!SendControl
  <2>5. CASE Coord!TimerFires \/ Coord!EndContext
    BY <2>5 DEF Coord!TimerFires, Coord!EndContext
  <2> QED
    BY <2>1, <2>2, <2>3, <2>4, <2>5 DEF Coord!Next
<1> QED
  BY <1>2, <1>3, <1>4, <1>5, <1>6

-----------------------------------------------------------------------------
\* The theorems, of the model in which the coordinator is one of three scopes.

ScopedInv == scope = "coordinator" => CoordinatorInv

LEMMA ScopedNext == ScopedInv /\ [MCNext]_allVars => ScopedInv'
<1> SUFFICES ASSUME CoordinatorInv, [MCNext]_allVars, scope = "coordinator"
             PROVE  CoordinatorInv'
  BY DEF ScopedInv, MCNext, allVars
<1>1. Coord!Next \/ UNCHANGED coordinatorVars
  BY DEF MCNext, allVars
<1> QED
  BY <1>1, CoordinatorNext, CoordinatorStutters

\* The invariant that ties the lifecycle to the contexts and the poll to the table.
THEOREM CoordinatorInductive == MCSpec => []ScopedInv
<1>1. MCInit => ScopedInv
  BY CoordinatorInit DEF MCInit, ScopedInv
<1> QED
  BY <1>1, ScopedNext, PTL DEF MCSpec

\* Every state of the coordinator is well typed.
THEOREM CoordinatorTypeCorrect == MCSpec => [](scope = "coordinator" => Coord!TypeOK)
<1>1. ScopedInv => (scope = "coordinator" => Coord!TypeOK)
  BY DEF ScopedInv, CoordinatorInv
<1> QED
  BY CoordinatorInductive, <1>1, PTL

\* A coordinator that was cancelled, or whose loop has returned, has no sub-task
\* context of its own left, and none it has registered.
THEOREM EndStopsTasks == MCSpec => []EndedStopsItsTasks
<1>1. ScopedInv => EndedStopsItsTasks
  BY DEF ScopedInv, CoordinatorInv, CancelledIsDone, DoneHasNoChildren, EndedStopsItsTasks,
     Coord!EndedStopsItsTasks
<1> QED
  BY CoordinatorInductive, <1>1, PTL

\* A coordinator that has ended is never taken up again, moves as its state
\* machine allows but for the one exception, and is completed only when its
\* tasks have ended.
THEOREM LifecycleIsObeyed == MCSpec => LifecycleMoves
<1>1. ScopedInv /\ [MCNext]_allVars =>
        [scope = "coordinator" => Coord!LifecycleMove]_coordinatorVars
  <2> SUFFICES ASSUME CoordinatorInv, MCNext, scope = "coordinator"
               PROVE  Coord!LifecycleMove \/ UNCHANGED coordinatorVars
    BY DEF ScopedInv, allVars
  <2>1. Coord!Next
    BY DEF MCNext
  <2>2. CASE lifecycle' = lifecycle
    BY <2>2 DEF Coord!LifecycleMove
  <2> QED
    BY <2>1, <2>2, MovesAreAllowed
<1> QED
  BY CoordinatorInductive, <1>1, PTL DEF MCSpec, LifecycleMoves

=============================================================================
