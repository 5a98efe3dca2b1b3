---------------------------- MODULE Termination ----------------------------
(***************************************************************************)
(* The stop conditions of the think-act-observe loop, reactor/termination. *)
(*                                                                         *)
(* A history is the sequence of the actions of the completed cycles.  A    *)
(* step of the code also carries its thought and its observation; the stop *)
(* conditions read only the type, the result and the error of a step, and  *)
(* Observe copies the action's error into the observation.  Act never sets *)
(* Target or Params, so the comparisons of those two always succeed and    *)
(* are left out.                                                           *)
(***************************************************************************)
EXTENDS Integers, Sequences

CONSTANTS
  ToolResults,         \* texts a batch of tool calls can produce
  ToolErrors,          \* errors of Execute: the named tool is not registered
  IrrecoverableErrors  \* those whose text matches an irrecoverable pattern

ASSUME TextAssumption ==
  /\ "" \notin ToolResults \cup ToolErrors
  /\ IrrecoverableErrors \subseteq ToolErrors

ActionTypes == {"tool_call", "answer", "clarify"}

\* "final" and "reasoning" stand for what the thought carried, "sorry" and
\* "question" for the texts Act falls back to.
AnswerTexts == {"", "final", "reasoning", "sorry"}

Actions == [type   : ActionTypes,
            result : ToolResults \cup AnswerTexts \cup {"question"},
            error  : ToolErrors \cup {""}]

LastSteps(history, n) == {history[i] : i \in (Len(history) - n + 1)..Len(history)}

maxDestructiveLoopCount == 3
maxStuckCount           == 4
convergedCount          == 3
duplicateCount          == 2

isToolErrorIrrecoverable(error) == error \in IrrecoverableErrors

isDestructiveLoop(history) ==
  /\ Len(history) >= maxDestructiveLoopCount
  /\ \E e \in ToolErrors :
       \A s \in LastSteps(history, maxDestructiveLoopCount) :
         s.type = "tool_call" /\ s.error = e

isAgentStuck(history) ==
  /\ Len(history) >= maxStuckCount
  /\ \A s \in LastSteps(history, maxStuckCount) : s.type # "tool_call"

isResultConverged(history) ==
  /\ Len(history) >= convergedCount
  /\ \A s, t \in LastSteps(history, convergedCount) :
       s.result # "" /\ s.result = t.result

isDuplicateAction(history) ==
  /\ Len(history) >= duplicateCount
  /\ \A s, t \in LastSteps(history, duplicateCount) :
       s.type = "tool_call" /\ s.result = t.result

=============================================================================
