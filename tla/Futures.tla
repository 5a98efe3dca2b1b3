------------------------------- MODULE Futures -------------------------------
(***************************************************************************)
(* What a store of background results promises: a task is resolved once,   *)
(* and whoever awaits a task gets the result of that task, at once if it   *)
(* is there and otherwise as soon as it is resolved.                       *)
(***************************************************************************)
CONSTANTS Tasks, Waiters, Results, None

VARIABLES
  value,    \* the result of each task, or None
  awaited,  \* the task each waiter awaits, or None
  got       \* what the last await of each waiter returned, with its task

vars == <<value, awaited, got>>

NothingGot == [task |-> None, result |-> None]

Init ==
  /\ value = [t \in Tasks |-> None]
  /\ awaited = [w \in Waiters |-> None]
  /\ got = [w \in Waiters |-> NothingGot]

Resolve(t) ==
  /\ value[t] = None
  /\ \E r \in Results : value' = [value EXCEPT ![t] = r]
  /\ UNCHANGED <<awaited, got>>

AwaitUnresolved(w, t) ==
  /\ awaited[w] = None
  /\ value[t] = None
  /\ awaited' = [awaited EXCEPT ![w] = t]
  /\ UNCHANGED <<value, got>>

AwaitResolved(w, t) ==
  /\ awaited[w] = None
  /\ value[t] # None
  /\ got' = [got EXCEPT ![w] = [task |-> t, result |-> value[t]]]
  /\ UNCHANGED <<value, awaited>>

Return(w) ==
  /\ awaited[w] # None
  /\ value[awaited[w]] # None
  /\ got' = [got EXCEPT ![w] = [task |-> awaited[w], result |-> value[awaited[w]]]]
  /\ awaited' = [awaited EXCEPT ![w] = None]
  /\ UNCHANGED value

Next == \/ \E t \in Tasks : Resolve(t)
        \/ \E w \in Waiters :
             \/ Return(w)
             \/ \E t \in Tasks : AwaitUnresolved(w, t) \/ AwaitResolved(w, t)

Spec == Init /\ [][Next]_vars /\ \A w \in Waiters : WF_vars(Return(w))

SafetySpec == Init /\ [][Next]_vars

=============================================================================
