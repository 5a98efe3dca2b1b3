------------------------------ MODULE TodoList ------------------------------
(***************************************************************************)
(* The list of tasks of tools/todo.go: one list for every agent of the     *)
(* process, written by TodoWrite, which replaces it or merges into it, and *)
(* read by TodoExecute, which plans what can be done.                      *)
(*                                                                         *)
(* The identifier todo_<n> is the number n; 0 is none.  Texts, tool calls  *)
(* and times are left out.  The calls hold the lock from end to end, so    *)
(* each is a step; any agent makes them.                                   *)
(***************************************************************************)
EXTENDS Naturals, FiniteSets, SequencesExt

CONSTANTS
  IDs,         \* identifiers that models give to items
  Priorities,
  MaxGiven,    \* bounds: items of one call, items and generated
  MaxItems,    \*   identifiers of a behaviour
  MaxCounter

TodoAssumption ==
  /\ IDs \subseteq Nat \ {0}
  /\ Priorities \subseteq Nat /\ 0 \in Priorities
  /\ MaxGiven \in Nat /\ MaxItems \in Nat /\ MaxCounter \in Nat

VARIABLES
  todoStore,    \* the list
  todoCounter

vars == <<todoStore, todoCounter>>

Statuses == {"pending", "in_progress", "completed", "cancelled"}
Items(ids) == [id : ids, status : Statuses, priority : Priorities, deps : SUBSET IDs]

Init == todoStore = <<>> /\ todoCounter = 0

-----------------------------------------------------------------------------

\* Mutation: an item without identifier stays without.
Identify_Keeps(item, counter) == <<item, counter>>

\* An item with the identifier it has after nextTodoID, and the counter.
Identify(item, counter) ==
  IF item.id = 0 THEN <<[item EXCEPT !.id = counter + 1], counter + 1>> ELSE <<item, counter>>

\* The first item with its identifier is replaced as a whole, else it is added.
Put(store, item) ==
  LET i == SelectInSeq(store, LAMBDA x : x.id = item.id)
  IN IF i = 0 THEN Append(store, item) ELSE [store EXCEPT ![i] = item]

\* The items of a call, into the list that is there or into a new one.
Written(given, merge, store, counter) ==
  FoldLeft(LAMBDA acc, item :
             LET known == Identify(item, acc[2])
             IN <<IF merge THEN Put(acc[1], known[1]) ELSE Append(acc[1], known[1]), known[2]>>,
           <<IF merge THEN store ELSE <<>>, counter>>, given)

\* TodoWrite.Execute
Write(given, merge) ==
  LET written == Written(given, merge, todoStore, todoCounter)
  IN /\ Len(written[1]) <= MaxItems
     /\ written[2] <= MaxCounter
     /\ todoStore' = written[1]
     /\ todoCounter' = written[2]

\* What a model gives: items with or without an identifier ...
Given == UNION {[1..n -> Items(IDs \cup {0})] : n \in 1..MaxGiven}

\* ... or, to mark its progress, an identifier and a status alone.  The fields
\* that are not in the JSON are zero.
Marks == {<<[id |-> i, status |-> s, priority |-> 0, deps |-> {}]>> : i \in IDs, s \in Statuses}

Mark(given) == Write(given, TRUE)

Next ==
  \/ \E given \in Given, merge \in BOOLEAN : Write(given, merge)
  \/ \E given \in Marks : Mark(given)

Spec == Init /\ [][Next]_vars

-----------------------------------------------------------------------------
(* TodoExecute.Execute *)

completedSet(store) == {x.id : x \in {y \in Range(store) : y.status = "completed"}}

\* Mutation: every dependency is waited for, met or not.
Ready_NoneMet(store) ==
  FoldLeft(LAMBDA ready, x : IF x.status = "pending" /\ x.deps = {} THEN Append(ready, x) ELSE ready,
           <<>>, store)

AllDepsMet(x, store) == x.deps \subseteq completedSet(store)

Ready(store) ==
  FoldLeft(LAMBDA ready, x : IF x.status = "pending" /\ AllDepsMet(x, store)
                             THEN Append(ready, x) ELSE ready,
           <<>>, store)

Swapped(s, i, j) == [s EXCEPT ![i] = s[j], ![j] = s[i]]

\* Mutation: the comparison of the inner loop is the other way round.
InnerLoop_Descending(s, i) ==
  FoldLeft(LAMBDA t, j : IF t[j].priority > t[i].priority THEN Swapped(t, i, j) ELSE t,
           s, [k \in 1..(Len(s) - i) |-> i + k])

\* The items behind the i-th are compared with the one that is there.
InnerLoop(s, i) ==
  FoldLeft(LAMBDA t, j : IF t[j].priority < t[i].priority THEN Swapped(t, i, j) ELSE t,
           s, [k \in 1..(Len(s) - i) |-> i + k])

SortedByPriority(s) ==
  FoldLeft(LAMBDA t, i : InnerLoop(t, i), s, [i \in 1..Len(s) |-> i])

Plan(store) == SortedByPriority(Ready(store))

-----------------------------------------------------------------------------

TypeOK ==
  /\ Range(todoStore) \subseteq Items(IDs \cup 1..MaxCounter)
  /\ Len(todoStore) <= MaxItems
  /\ todoCounter \in 0..MaxCounter

\* The plan names each item that can be done once for each time it is in the
\* list, best priority first, whatever was merged or replaced before.
PlanIsInPriorityOrder ==
  LET p == Plan(todoStore) IN
    /\ \A i, j \in DOMAIN p : i < j => p[i].priority <= p[j].priority
    /\ \A x \in Range(todoStore) :
         Cardinality({i \in DOMAIN p : p[i] = x})
           = IF x.status = "pending" /\ \A d \in x.deps : \E y \in Range(todoStore) : y.id = d /\ y.status = "completed"
             THEN Cardinality({i \in DOMAIN todoStore : todoStore[i] = x}) ELSE 0

\* Items of S that all wait for items of S.
WaitForEachOther(S) == S # {} /\ \A x \in S : \E d \in x.deps, y \in S : y.id = d

\* Whoever does what the plan says gets to the end of the list: while items are
\* pending and none is in progress, the plan is empty only if some of them wait
\* for each other, or for one that is cancelled or not in the list.
StuckForAReason ==
  LET pending == {x \in Range(todoStore) : x.status = "pending"}
      settled(d) == \E y \in Range(todoStore) : y.id = d /\ y.status # "cancelled"
  IN /\ pending # {}
     /\ \A x \in Range(todoStore) : x.status # "in_progress"
     /\ \A S \in SUBSET pending : ~ WaitForEachOther(S)
     /\ \A x \in pending : \A d \in x.deps : settled(d)
     => Plan(todoStore) # <<>>

=============================================================================
