---------------------------- MODULE SlidingWindow ----------------------------
(***************************************************************************)
(* The pure part of the conversation's bookkeeping: Slide of core/ctx_win.go *)
(* and CurrentContext of core/session_store_memory.go, over messages that  *)
(* have a role and a weight in tokens.                                     *)
(***************************************************************************)
EXTENDS SequencesExt, Integers

CONSTANTS
  TriggerTokens,  \* SlideTriggerRatio of MaxTokens
  TargetTokens,   \* TargetRatio of MaxTokens
  MinPreserve,    \* MinPreserveMessages
  MaxBatch        \* MaxSlideBatch; 0 for no limit

ASSUME SlideAssumption ==
  /\ TriggerTokens \in Nat /\ TargetTokens \in Nat
  /\ MinPreserve \in Nat /\ MaxBatch \in Nat

Weight(messages) == FoldLeft(LAMBDA total, m : total + m.tokens, 0, messages)

Evictable(m) == m.role # "system"
NonSystem(messages) ==
  FoldLeft(LAMBDA kept, m : IF Evictable(m) THEN Append(kept, m) ELSE kept, <<>>, messages)

SlideTriggered(window) == window.used >= TriggerTokens

\* Mutation: the messages to preserve are not counted.
SlideStops_NoPreserve(messages, k) ==
  LET evicted == NonSystem(SubSeq(messages, 1, k)) IN
    \/ k = Len(messages)
    \/ Weight(messages) - Weight(evicted) <= TargetTokens
    \/ MaxBatch > 0 /\ Len(evicted) >= MaxBatch

\* Mutation: it stops as soon as it would not be triggered again.
SlideStops_AtTrigger(messages, k) ==
  LET evicted == NonSystem(SubSeq(messages, 1, k)) IN
    \/ k = Len(messages)
    \/ Len(NonSystem(messages)) - Len(evicted) <= MinPreserve
    \/ Weight(messages) - Weight(evicted) < TriggerTokens
    \/ MaxBatch > 0 /\ Len(evicted) >= MaxBatch

\* The loop of Slide may stop when it has removed the k oldest messages.
SlideStops(messages, k) ==
  LET evicted == NonSystem(SubSeq(messages, 1, k)) IN
    \/ k = Len(messages)
    \/ Len(NonSystem(messages)) - Len(evicted) <= MinPreserve
    \/ Weight(messages) - Weight(evicted) <= TargetTokens
    \/ MaxBatch > 0 /\ Len(evicted) >= MaxBatch

\* Slide removes messages from the front until it may stop, reports those that
\* are not system messages, and recomputes the tokens in use.
Slide(window) ==
  LET messages == window.messages
      k        == CHOOSE n \in 0..Len(messages) :
                    /\ SlideStops(messages, n)
                    /\ \A l \in 0..(n - 1) : ~SlideStops(messages, l)
      evicted  == NonSystem(SubSeq(messages, 1, k))
  IN [window  |-> [window EXCEPT !.messages = SubSeq(messages, k + 1, Len(messages)),
                                 !.used     = Weight(messages) - Weight(evicted)],
      evicted |-> evicted]

\* CurrentContext: as many of the newest messages as fit the budget.
NewestWithin(messages, budget) ==
  CHOOSE s \in Suffixes(messages) \cup {<<>>} :
    /\ Weight(s) <= budget
    /\ Len(s) < Len(messages) =>
         Weight(SubSeq(messages, Len(messages) - Len(s), Len(messages))) > budget

=============================================================================
