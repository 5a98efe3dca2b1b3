---------------------------- MODULE MCApplication ----------------------------
(***************************************************************************)
(* What an agent exchanges with the application that runs it: the events   *)
(* it emits (EventBus), the stream of an answer (AskStream), the questions *)
(* it asks the user (Interaction) and the consent it waits for             *)
(* (Permission).  The stream has a subscription to a bus of its own and    *)
(* the others share nothing, so a behaviour is of one of them: of          *)
(* Permission with calls in turn of which each is decided about once ("in  *)
(* turn"), or with calls that overlap, end by their contexts and are       *)
(* decided about any number of times ("free").                             *)
(***************************************************************************)
EXTENDS EventBus

CONSTANTS
  Scopes,                               \* those of a run
  once,                                 \* an emitter that emits one event
  StreamCapacity, MaxDeltas, MaxOthers, \* of AskStream
  Askers, Responders, MaxQuestions,     \* of Interaction
  c1, c2, c3, c4, shell, edit, read,
  Calls, ToolOf, Safe,                  \* of Permission
  None

VARIABLES
  scope,
  asker, answered, deltas, others, forwarder, held, eventCh, eventOpen, textCh, textOpen,
  done, returned, cancelled, ctxDone, crashed, reading, received,
  pending, asked, pc, question, contextDone, answer, shut, stage, shown, outcome, questionPanic,
  checking, request, result, resolved, ended, told, decided, permissionPanic

streamVars == <<asker, answered, deltas, others, forwarder, held, eventCh, eventOpen, textCh,
                textOpen, done, returned, cancelled, ctxDone, crashed, reading, received>>
questionVars == <<pending, asked, pc, question, contextDone, answer, shut, stage, shown,
                  outcome, questionPanic>>
permissionVars == <<checking, request, result, resolved, ended, told, decided, permissionPanic>>

\* The stream of AskStreamWithContext.
Stream == INSTANCE AskStream WITH
  Capacity <- StreamCapacity, OwnTimeout <- FALSE, panicked <- crashed

Question == INSTANCE Interaction WITH
  ctxDone <- contextDone, closed <- shut, panicked <- questionPanic

\* Two calls of one tool, one of another, and one that needs no consent.
SomeTools == [c \in {c1, c2, c3, c4} |-> CASE c = c3 -> edit [] c = c4 -> read [] OTHER -> shell]

InTurn == INSTANCE Permission WITH
  at <- checking, pending <- request, done <- resolved, cancelled <- ended, got <- told,
  answered <- decided, panicked <- permissionPanic,
  OneAtATime <- TRUE, MayCancel <- FALSE, AnswerOnce <- TRUE

Free == INSTANCE Permission WITH
  at <- checking, pending <- request, done <- resolved, cancelled <- ended, got <- told,
  answered <- decided, panicked <- permissionPanic,
  OneAtATime <- FALSE, MayCancel <- TRUE, AnswerOnce <- FALSE

ASSUME MCAssumption ==
  /\ once \in Emitters /\ Stream!StreamAssumption /\ Question!InteractionAssumption
  /\ InTurn!PermissionAssumption /\ Free!PermissionAssumption

MCInit == scope \in Scopes /\ Init /\ Stream!Init /\ Question!Init /\ InTurn!Init

MCNext ==
  /\ UNCHANGED scope
  /\ \/ /\ scope = "bus" /\ Next /\ event'[once].n <= 1
        /\ UNCHANGED <<streamVars, questionVars, permissionVars>>
     \/ /\ scope = "stream" /\ Stream!Next
        /\ UNCHANGED <<vars, questionVars, permissionVars>>
     \/ /\ scope = "question" /\ Question!Next
        /\ UNCHANGED <<vars, streamVars, permissionVars>>
     \/ /\ scope = "in turn" /\ InTurn!Next
        /\ UNCHANGED <<vars, streamVars, questionVars>>
     \/ /\ scope = "free" /\ Free!Next
        /\ UNCHANGED <<vars, streamVars, questionVars>>

allVars == <<scope, vars, streamVars, questionVars, permissionVars>>

\* The fairness of each; the user decides about what is asked in turn.
MCSpec ==
  /\ MCInit /\ [][MCNext]_allVars
  /\ WF_vars(WriteStep)
  /\ \A e \in Emitters : WF_vars(EmitStep(e))
  /\ WF_streamVars(scope = "stream" /\ Stream!AskerStep)
  /\ WF_streamVars(scope = "stream" /\ Stream!ForwarderStep)
  /\ WF_streamVars(scope = "stream" /\ Stream!CallerStep)
  /\ \A a \in Askers : WF_questionVars(Question!AskerStep(a))
  /\ \A u \in Responders : WF_questionVars(Question!ResponderStep(u))
  /\ \A c \in Calls :
       /\ WF_permissionVars(scope = "in turn" /\ InTurn!Block(c))
       /\ WF_permissionVars(scope = "in turn" /\ InTurn!Wake(c))
       /\ WF_permissionVars(scope = "in turn" /\ \E allow \in BOOLEAN : InTurn!Respond(c, allow))

-----------------------------------------------------------------------------

\* Each component is also well typed.

\* A stream that is read to its end, or whose context is done, ends, and so do
\* its two goroutines, or the process ends with a panic: of the forwarder, which
\* sends on the channel that the asker has closed, or of the asker, if the context
\* is done.  A stream that is closed uncancelled has the run's answer in it.
StreamEndsOrPanics ==
  /\ [](TypeOK /\ Stream!TypeOK)
  /\ scope = "stream" => Stream!StreamEndsOrPanics
  /\ []Stream!UncancelledStreamCarriesAnswer

\* An answer is never taken for the answer to another question, even when it
\* was given to a question that has been cancelled and followed by the next.
AnswersStayWithTheirQuestion == Question!AnswersStayWithTheirQuestion

\* A call that asks when no other does is told what was decided about it; and
\* however calls overlap, no request stays pending for a call that has left.
DecisionsFindTheirCall ==
  /\ Question!TypeOK
  /\ scope = "in turn" => InTurn!DecisionsStayWithTheirCall
  /\ scope = "free" => Free!TypeOK /\ Free!PendingCallWaits

\* Who was answered, or whose context ended, returns.
AnsweredReturn ==
  /\ Question!SettledQuestionsReturn
  /\ scope = "in turn" => InTurn!EveryCallReturns

=============================================================================
