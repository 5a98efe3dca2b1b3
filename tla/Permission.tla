----------------------------- MODULE Permission -----------------------------
(***************************************************************************)
(* AskPermission of tools/ask_permission.go: a tool call that needs the    *)
(* user's consent asks, waits and is told the user's decision.             *)
(*                                                                         *)
(* There is one place for a pending request.  A decision names no request: *)
(* it goes to the one that is pending when Respond gets the lock.  The     *)
(* model keeps in each decision the call the user had in mind.             *)
(***************************************************************************)
EXTENDS Naturals, FiniteSets

CONSTANTS
  Calls,      \* tool calls, each made once
  ToolOf,     \* the tool of each call
  Safe,       \* tools of LevelSafe or read-only
  OneAtATime, \* TRUE: a call asks only when no other asks or waits
  MayCancel,  \* TRUE: the context of a call may end
  AnswerOnce, \* TRUE: the user decides once about each call
  None

PermissionAssumption ==
  /\ OneAtATime \in BOOLEAN /\ MayCancel \in BOOLEAN /\ AnswerOnce \in BOOLEAN
  /\ None \notin Calls \cup [about : Calls, allow : BOOLEAN]

VARIABLES
  at,        \* where each call is
  pending,   \* AskPermission.pending: the call whose request it is
  result,    \* permRequest.result of each call
  done,      \* calls whose permRequest.done is closed
  cancelled, \* calls whose context has ended
  got,       \* the decision each call was told
  answered,  \* calls the user has decided about
  panicked   \* Respond has closed a closed channel; it still holds the lock

vars == <<at, pending, result, done, cancelled, got, answered, panicked>>

Decisions == [about : Calls, allow : BOOLEAN]
Decision(c, allow) == [about |-> c, allow |-> allow]

Init ==
  /\ at = [c \in Calls |-> "idle"]
  /\ pending = None
  /\ result = [c \in Calls |-> None]
  /\ done = {}
  /\ cancelled = {}
  /\ got = [c \in Calls |-> None]
  /\ answered = {}
  /\ panicked = FALSE

-----------------------------------------------------------------------------

Busy == \E c \in Calls : at[c] \in {"ask", "wait"}

\* The decision that is stored with the pending request, if there is one.
Stored == IF pending = None THEN None ELSE result[pending]

StoredFor(c) == Stored # None /\ ToolOf[pending] = ToolOf[c]

Return(c, decision) ==
  /\ at' = [at EXCEPT ![c] = "returned"]
  /\ got' = [got EXCEPT ![c] = decision]

\* CheckPermissions.
Check(c) ==
  /\ at[c] = "idle" /\ ~ panicked
  /\ OneAtATime => ~ Busy
  /\ IF StoredFor(c)
     THEN Return(c, Stored)
     ELSE IF ToolOf[c] \in Safe
     THEN Return(c, Decision(c, TRUE))
     ELSE at' = [at EXCEPT ![c] = "ask"] /\ UNCHANGED got
  /\ UNCHANGED <<pending, result, done, cancelled, answered, panicked>>

\* BlockAndWait, up to the select.
Block(c) ==
  /\ at[c] = "ask" /\ ~ panicked
  /\ IF Stored # None
     THEN Return(c, Stored) /\ pending' = None
     ELSE /\ pending' = c
          /\ at' = [at EXCEPT ![c] = "wait"]
          /\ UNCHANGED got
  /\ UNCHANGED <<result, done, cancelled, answered, panicked>>

\* Mutation: the request stays pending.
Wake_Keeps(c) ==
  /\ at[c] = "wait" /\ c \in done /\ ~ panicked
  /\ Return(c, result[c])
  /\ UNCHANGED <<pending, result, done, cancelled, answered, panicked>>

\* BlockAndWait, <-req.done.
Wake(c) ==
  /\ at[c] = "wait" /\ c \in done /\ ~ panicked
  /\ Return(c, result[c])
  /\ pending' = None
  /\ UNCHANGED <<result, done, cancelled, answered, panicked>>

\* Mutation: the request stays pending.
Leave_Keeps(c) ==
  /\ at[c] = "wait" /\ c \in cancelled /\ ~ panicked
  /\ Return(c, Decision(c, FALSE))
  /\ UNCHANGED <<pending, result, done, cancelled, answered, panicked>>

\* BlockAndWait, <-ctx.Ctx.Done().
Leave(c) ==
  /\ at[c] = "wait" /\ c \in cancelled /\ ~ panicked
  /\ Return(c, Decision(c, FALSE))
  /\ pending' = None
  /\ UNCHANGED <<result, done, cancelled, answered, panicked>>

Cancel(c) ==
  /\ MayCancel /\ at[c] = "wait" /\ c \notin cancelled
  /\ cancelled' = cancelled \cup {c}
  /\ UNCHANGED <<at, pending, result, done, got, answered, panicked>>

\* The user has seen the request of this call.
WasAsked(c) == at[c] = "wait" \/ result[c] # None \/ c \in cancelled

\* Mutation: an error is stored without a result.
Respond_NoResult(c, allow) ==
  /\ WasAsked(c) /\ ~ panicked
  /\ AnswerOnce => c \notin answered
  /\ answered' = answered \cup {c}
  /\ IF pending = None \/ pending \in done
     THEN UNCHANGED <<result, done, panicked>>
     ELSE /\ result' = [result EXCEPT ![pending] = IF allow THEN Decision(c, allow) ELSE None]
          /\ done' = done \cup {pending}
          /\ UNCHANGED panicked
  /\ UNCHANGED <<at, pending, cancelled, got>>

\* Mutation: an error is stored and nobody is woken.
Respond_NoClose(c, allow) ==
  /\ WasAsked(c) /\ ~ panicked
  /\ AnswerOnce => c \notin answered
  /\ answered' = answered \cup {c}
  /\ IF pending = None
     THEN UNCHANGED <<result, done>>
     ELSE /\ result' = [result EXCEPT ![pending] = Decision(c, allow)]
          /\ done' = IF allow THEN done \cup {pending} ELSE done
  /\ UNCHANGED <<at, pending, cancelled, got, panicked>>

\* Respond and, with a refusal, RespondError: the user decides about c.
Respond(c, allow) ==
  /\ WasAsked(c) /\ ~ panicked
  /\ AnswerOnce => c \notin answered
  /\ answered' = answered \cup {c}
  /\ IF pending = None
     THEN UNCHANGED <<result, done, panicked>>
     ELSE /\ result' = [result EXCEPT ![pending] = Decision(c, allow)]
          /\ done' = done \cup {pending}
          /\ panicked' = (pending \in done)
  /\ UNCHANGED <<at, pending, cancelled, got>>

Next ==
  \E c \in Calls :
    \/ Check(c) \/ Block(c) \/ Wake(c) \/ Leave(c) \/ Cancel(c)
    \/ \E allow \in BOOLEAN : Respond(c, allow)

Spec == Init /\ [][Next]_vars

\* Goroutines go on, and the user decides about what is asked.
FairSpec ==
  /\ Spec
  /\ \A c \in Calls :
       WF_vars(Block(c)) /\ WF_vars(Wake(c)) /\ WF_vars(\E allow \in BOOLEAN : Respond(c, allow))

-----------------------------------------------------------------------------

TypeOK ==
  /\ at \in [Calls -> {"idle", "ask", "wait", "returned"}]
  /\ pending \in Calls \cup {None}
  /\ result \in [Calls -> Decisions \cup {None}]
  /\ done \subseteq Calls /\ cancelled \subseteq Calls /\ answered \subseteq Calls
  /\ got \in [Calls -> Decisions \cup {None}]
  /\ \A c \in Calls : at[c] = "returned" <=> got[c] # None
  /\ panicked \in BOOLEAN

\* A call is told what the user decided about it, not about another call.
DecisionsStayWithTheirCall ==
  \A c \in Calls : got[c] # None => got[c].about = c

\* IsWaiting and WaitWithTimeout go by the pending request: it is of a call that
\* waits, and a call that has left by any way leaves none behind.
PendingCallWaits == pending # None => at[pending] = "wait"

\* A call that asked is told.
EveryCallReturns ==
  \A c \in Calls : at[c] = "ask" ~> at[c] = "returned"
=============================================================================
