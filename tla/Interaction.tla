----------------------------- MODULE Interaction -----------------------------
(***************************************************************************)
(* Questions to the user: DefaultInteractionHandler of                     *)
(* reactor/interaction_handler.go.  A run whose tool asked a question      *)
(* blocks in HandleInteraction until somebody calls Respond or RespondError *)
(* or its context ends.                                                    *)
(*                                                                         *)
(* HandleInteraction and its clean-up each hold the lock; Respond holds it *)
(* to read the pending request and writes the answer and closes the        *)
(* request's channel after it.  Respond and RespondError differ in what    *)
(* they write only, and are one operation here.                            *)
(***************************************************************************)
EXTENDS Naturals

CONSTANTS
  Askers,        \* goroutines that run tools
  Responders,    \* goroutines that call Respond
  MaxQuestions,  \* bound: questions asked in one behaviour
  None           \* nil

InteractionAssumption ==
  /\ MaxQuestions \in Nat
  /\ None \notin Nat

Questions == 1..MaxQuestions

VARIABLES
  pending,     \* DefaultInteractionHandler.pending: a question, or None
  asked,       \* questions so far
  pc,          \* where each asker is
  question,    \* the question of each asker's last call
  ctxDone,     \* the context of the asker's call is done
  answer,      \* interactionPending.answer or .err of each question: the question
               \* its author was shown, or None
  closed,      \* questions whose channel is closed
  stage,       \* where each responder is
  shown,       \* the question that was pending when the responder called
  outcome,     \* history variable: what the call of each question returned, or None
  panicked     \* a channel was closed twice: the process is gone

handlerVars == <<pending, asked, answer, closed>>
askerVars   == <<pc, question, ctxDone, outcome>>
responderVars == <<stage, shown>>
vars == <<handlerVars, askerVars, responderVars, panicked>>

Init ==
  /\ pending = None
  /\ asked = 0
  /\ pc = [a \in Askers |-> "idle"]
  /\ question = [a \in Askers |-> None]
  /\ ctxDone = [a \in Askers |-> FALSE]
  /\ answer = [q \in Questions |-> None]
  /\ closed = {}
  /\ stage = [u \in Responders |-> "idle"]
  /\ shown = [u \in Responders |-> None]
  /\ outcome = [q \in Questions |-> None]
  /\ panicked = FALSE

-----------------------------------------------------------------------------
\* HandleInteraction.

\* While a question is pending a second one is refused and nothing changes.
HandleInteraction(a) ==
  /\ ~panicked
  /\ pc[a] = "idle"
  /\ pending = None
  /\ asked < MaxQuestions
  /\ asked' = asked + 1
  /\ pending' = asked'
  /\ question' = [question EXCEPT ![a] = asked']
  /\ ctxDone' = [ctxDone EXCEPT ![a] = FALSE]
  /\ pc' = [pc EXCEPT ![a] = "waiting"]
  /\ UNCHANGED <<answer, closed, outcome, responderVars, panicked>>

\* The two cases of the select; with both ready, either is taken.
SeeAnswer(a) ==
  /\ ~panicked
  /\ pc[a] = "waiting"
  /\ question[a] \in closed
  /\ pc' = [pc EXCEPT ![a] = "answered"]
  /\ UNCHANGED <<handlerVars, question, ctxDone, outcome, responderVars, panicked>>

\* Mutation: the context is not in the select.
SeeContextDone_Ignored(a) == FALSE /\ UNCHANGED vars

SeeContextDone(a) ==
  /\ ~panicked
  /\ pc[a] = "waiting"
  /\ ctxDone[a]
  /\ pc' = [pc EXCEPT ![a] = "cancelled"]
  /\ UNCHANGED <<handlerVars, question, ctxDone, outcome, responderVars, panicked>>

\* The answer of the request, or an error that wraps the context's.
ReturnOf(a) ==
  [kind |-> pc[a], answer |-> IF pc[a] = "answered" THEN answer[question[a]] ELSE None]

\* Clear the pending request, whichever it is, and return.
CleanUp(a) ==
  /\ ~panicked
  /\ pc[a] \in {"answered", "cancelled"}
  /\ pending' = None
  /\ outcome' = [outcome EXCEPT ![question[a]] = ReturnOf(a)]
  /\ pc' = [pc EXCEPT ![a] = "idle"]
  /\ UNCHANGED <<asked, answer, closed, question, ctxDone, responderVars, panicked>>

\* The caller's deadline, or Cancel.
ContextEnds(a) ==
  /\ ~panicked
  /\ pc[a] # "idle"
  /\ ~ctxDone[a]
  /\ ctxDone' = [ctxDone EXCEPT ![a] = TRUE]
  /\ UNCHANGED <<handlerVars, pc, question, outcome, responderVars, panicked>>

-----------------------------------------------------------------------------
\* Respond and RespondError.

\* Mutation: the request is closed before it has its answer.
Respond_ClosesFirst(u) ==
  /\ ~panicked
  /\ stage[u] = "idle"
  /\ pending # None
  /\ shown' = [shown EXCEPT ![u] = pending]
  /\ stage' = [stage EXCEPT ![u] = "close"]
  /\ UNCHANGED <<handlerVars, askerVars, panicked>>

\* Under the lock; with nothing pending the call fails and nothing changes.
Respond(u) ==
  /\ ~panicked
  /\ stage[u] = "idle"
  /\ pending # None
  /\ shown' = [shown EXCEPT ![u] = pending]
  /\ stage' = [stage EXCEPT ![u] = "write"]
  /\ UNCHANGED <<handlerVars, askerVars, panicked>>

\* Mutation: the pending request is read again, the one at hand is not used.
WriteAnswer_ToPending(u) ==
  /\ ~panicked
  /\ stage[u] = "write"
  /\ answer' = IF pending = None THEN answer ELSE [answer EXCEPT ![pending] = shown[u]]
  /\ stage' = [stage EXCEPT ![u] = "close"]
  /\ UNCHANGED <<pending, asked, closed, shown, askerVars, panicked>>

\* p.answer = answer
WriteAnswer(u) ==
  /\ ~panicked
  /\ stage[u] = "write"
  /\ answer' = [answer EXCEPT ![shown[u]] = shown[u]]
  /\ stage' = [stage EXCEPT ![u] = "close"]
  /\ UNCHANGED <<pending, asked, closed, shown, askerVars, panicked>>

\* close(p.done), and return nil.
CloseRequest(u) ==
  /\ ~panicked
  /\ stage[u] = "close"
  /\ shown[u] \notin closed
  /\ closed' = closed \cup {shown[u]}
  /\ stage' = [stage EXCEPT ![u] = "idle"]
  /\ UNCHANGED <<pending, asked, answer, shown, askerVars, panicked>>

\* A channel can be closed once: the goroutine panics, the process ends.
CloseClosedRequest(u) ==
  /\ ~panicked
  /\ stage[u] = "close"
  /\ shown[u] \in closed
  /\ panicked' = TRUE
  /\ UNCHANGED <<handlerVars, askerVars, responderVars>>

-----------------------------------------------------------------------------

AskerStep(a) == SeeAnswer(a) \/ SeeContextDone(a) \/ CleanUp(a)

ResponderStep(u) == WriteAnswer(u) \/ CloseRequest(u) \/ CloseClosedRequest(u)

Next ==
  \/ \E a \in Askers : HandleInteraction(a) \/ ContextEnds(a) \/ AskerStep(a)
  \/ \E u \in Responders : Respond(u) \/ ResponderStep(u)

\* Goroutines in a call run on; nobody has to ask, answer or cancel.
Spec ==
  /\ Init
  /\ [][Next]_vars
  /\ \A a \in Askers : WF_vars(AskerStep(a))
  /\ \A u \in Responders : WF_vars(ResponderStep(u))

-----------------------------------------------------------------------------

TypeOK ==
  /\ pending \in Questions \cup {None}
  /\ asked \in 0..MaxQuestions
  /\ pc \in [Askers -> {"idle", "waiting", "answered", "cancelled"}]
  /\ question \in [Askers -> Questions \cup {None}]
  /\ ctxDone \in [Askers -> BOOLEAN]
  /\ answer \in [Questions -> Questions \cup {None}]
  /\ closed \subseteq {q \in Questions : answer[q] # None}
  /\ stage \in [Responders -> {"idle", "write", "close"}]
  /\ shown \in [Responders -> Questions \cup {None}]
  /\ outcome \in [Questions -> [kind   : {"answered", "cancelled"},
                                answer : Questions \cup {None}] \cup {None}]
  /\ panicked \in BOOLEAN

\* The user sees one question at a time, and a question that is over never
\* blocks the next one: the handler is taken exactly while a call is in it.
TakenWhileAsking ==
  /\ \A a, b \in Askers : pc[a] # "idle" /\ pc[b] # "idle" => a = b
  /\ pending # None <=> \E a \in Askers : pc[a] # "idle" /\ question[a] = pending

\* An answer is never taken for the answer to another question, even when it
\* was given to a question that has been cancelled and followed by the next.
AnswersStayWithTheirQuestion ==
  \A q \in Questions :
    outcome[q] # None /\ outcome[q].kind = "answered" => outcome[q].answer = q

\* A call returns once its question is answered or its context has ended.
SettledQuestionsReturn ==
  \A a \in Askers :
    (pc[a] = "waiting" /\ (question[a] \in closed \/ ctxDone[a]))
      ~> (pc[a] = "idle" \/ panicked)

=============================================================================
