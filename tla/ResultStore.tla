----------------------------- MODULE ResultStore -----------------------------
(***************************************************************************)
(* core/result_store.go: the results of background tasks.  The goroutine   *)
(* of a task calls Store once; any goroutine may call WaitForResult, before *)
(* or after.  Store publishes the result under the lock and notifies the   *)
(* registered channels after it has released it, one by one.               *)
(*                                                                         *)
(* Store is called once per task: its only caller, Delegate, numbers its   *)
(* tasks with an atomic counter.                                           *)
(***************************************************************************)
EXTENDS Sequences, Functions

CONSTANTS
  Tasks,    \* task ids
  Waiters,  \* goroutines that call WaitForResult, one call at a time
  Results,  \* *TaskResult
  None      \* nil

ASSUME StoreAssumption == None \notin Tasks \cup Results

VARIABLES
  results,    \* ResultStore.results
  waiters,    \* ResultStore.waiters: whose channels are registered, oldest first
  notifying,  \* the channels the Store call of a task has yet to serve
  channel,    \* what the one-place channel of each waiter's call holds
  waiting,    \* the task each waiter blocks on, or None
  got         \* history variable: what each waiter's last call returned

storeVars == <<results, waiters, notifying, channel, waiting, got>>

StoreInit ==
  /\ results = [t \in Tasks |-> None]
  /\ waiters = [t \in Tasks |-> <<>>]
  /\ notifying = [t \in Tasks |-> <<>>]
  /\ channel = [w \in Waiters |-> None]
  /\ waiting = [w \in Waiters |-> None]
  /\ got = [w \in Waiters |-> [task |-> None, result |-> None]]

\* Mutation: the waiters are taken before the result is there.
Store_TakesWaitersFirst(t) ==
  /\ results[t] = None
  /\ notifying' = [notifying EXCEPT ![t] = waiters[t]]
  /\ waiters' = [waiters EXCEPT ![t] = <<>>]
  /\ UNCHANGED <<results, channel, waiting, got>>

\* The part of Store under the lock.
Store(t) ==
  /\ results[t] = None
  /\ \E r \in Results : results' = [results EXCEPT ![t] = r]
  /\ notifying' = [notifying EXCEPT ![t] = waiters[t]]
  /\ waiters' = [waiters EXCEPT ![t] = <<>>]
  /\ UNCHANGED <<channel, waiting, got>>

\* Mutation: only the oldest waiter is served.
Notify_First(t) ==
  /\ notifying[t] # <<>>
  /\ LET w == Head(notifying[t]) IN
       /\ channel[w] = None
       /\ channel' = [channel EXCEPT ![w] = results[t]]
  /\ notifying' = [notifying EXCEPT ![t] = <<>>]
  /\ UNCHANGED <<results, waiters, waiting, got>>

\* One send of the loop that follows; it would block on a full channel.
Notify(t) ==
  /\ notifying[t] # <<>>
  /\ LET w == Head(notifying[t]) IN
       /\ channel[w] = None
       /\ channel' = [channel EXCEPT ![w] = results[t]]
  /\ notifying' = [notifying EXCEPT ![t] = Tail(notifying[t])]
  /\ UNCHANGED <<results, waiters, waiting, got>>

\* WaitForResult when the result is there.
WaitStored(w, t) ==
  /\ waiting[w] = None
  /\ results[t] # None
  /\ got' = [got EXCEPT ![w] = [task |-> t, result |-> results[t]]]
  /\ UNCHANGED <<results, waiters, notifying, channel, waiting>>

\* Mutation: the test is made before the lock is taken, so the registration
\* may come after Store.
WaitRegister_Unlocked(w, t) ==
  /\ waiting[w] = None
  /\ waiting' = [waiting EXCEPT ![w] = t]
  /\ channel' = [channel EXCEPT ![w] = None]
  /\ waiters' = [waiters EXCEPT ![t] = Append(waiters[t], w)]
  /\ UNCHANGED <<results, notifying, got>>

\* WaitForResult when it is not: register a new channel, under the same lock.
WaitRegister(w, t) ==
  /\ waiting[w] = None
  /\ results[t] = None
  /\ waiting' = [waiting EXCEPT ![w] = t]
  /\ channel' = [channel EXCEPT ![w] = None]
  /\ waiters' = [waiters EXCEPT ![t] = Append(waiters[t], w)]
  /\ UNCHANGED <<results, notifying, got>>

\* Mutation: a waiter gives up and leaves its channel behind.
WaitReturn_GivesUp(w) ==
  /\ waiting[w] # None
  /\ waiting' = [waiting EXCEPT ![w] = None]
  /\ UNCHANGED <<results, waiters, notifying, channel, got>>

\* The receive at the end of WaitForResult.
WaitReturn(w) ==
  /\ waiting[w] # None
  /\ channel[w] # None
  /\ got' = [got EXCEPT ![w] = [task |-> waiting[w], result |-> channel[w]]]
  /\ waiting' = [waiting EXCEPT ![w] = None]
  /\ channel' = [channel EXCEPT ![w] = None]
  /\ UNCHANGED <<results, waiters, notifying>>

StoreNext ==
  \/ \E t \in Tasks : Store(t) \/ Notify(t)
  \/ \E w \in Waiters :
       \/ WaitReturn(w)
       \/ \E t \in Tasks : WaitStored(w, t) \/ WaitRegister(w, t)

\* A Store call that has begun, and a woken waiter, run on.
StoreSpec ==
  /\ StoreInit
  /\ [][StoreNext]_storeVars
  /\ \A t \in Tasks : WF_storeVars(Notify(t))
  /\ \A w \in Waiters : WF_storeVars(WaitReturn(w))

-----------------------------------------------------------------------------

StoreTypeOK ==
  /\ results \in [Tasks -> Results \cup {None}]
  /\ waiters \in [Tasks -> Seq(Waiters)]
  /\ notifying \in [Tasks -> Seq(Waiters)]
  /\ channel \in [Waiters -> Results \cup {None}]
  /\ waiting \in [Waiters -> Tasks \cup {None}]
  /\ got \in [Waiters -> [task : Tasks \cup {None}, result : Results \cup {None}]]
  /\ \A t \in Tasks : results[t] = None => notifying[t] = <<>>

\* No wake-up is lost in the window between the unlock of Store and its sends,
\* nor between the two halves of WaitForResult: a goroutine that blocks on a
\* task is registered for a task without a result, or the task's Store call
\* still owes it a send, or its result is in its channel.
NoLostWakeup ==
  \A w \in Waiters : LET t == waiting[w] IN
    t # None =>
      \/ results[t] = None /\ w \in Range(waiters[t])
      \/ results[t] # None /\ (w \in Range(notifying[t]) \/ channel[w] = results[t])

\* A channel is served by one task only and once, so that the sends of Store
\* never block and never go to the channel of a later call.
SendsNeverBlock ==
  \A t \in Tasks : \A w \in Range(notifying[t]) : waiting[w] = t /\ channel[w] = None

Future == INSTANCE Futures WITH value <- results, awaited <- waiting

\* The store is a set of futures, wake-ups included.
ImplementsFutures == Future!Spec

=============================================================================
