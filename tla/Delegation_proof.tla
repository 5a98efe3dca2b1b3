-------------------------- MODULE Delegation_proof --------------------------
(***************************************************************************)
(* Proofs about background sub-agents and the store their results are kept *)
(* in, whatever the number of runs, delegations and goroutines that wait.  *)
(*                                                                         *)
(* First the result store: no wake-up is lost, no send blocks, and the     *)
(* store implements a set of futures.  Then the composition: every step of *)
(* it is a step of the store or leaves it alone, so what is proved about   *)
(* the store holds there, and whoever is told that a sub-task is completed *)
(* finds its result.                                                       *)
(***************************************************************************)
EXTENDS Delegation, SequenceTheorems, TLAPS

\* A queue of channels of task t: each belongs to a goroutine that blocks on
\* t and has not been served, and none is there twice.
QueueOf(q, t) ==
  /\ \A i \in 1..Len(q) : waiting[q[i]] = t /\ channel[q[i]] = None
  /\ \A i, j \in 1..Len(q) : q[i] = q[j] => i = j

Registered ==
  \A t \in Tasks :
    /\ QueueOf(waiters[t], t)
    /\ results[t] # None => waiters[t] = <<>>

Notified == \A t \in Tasks : QueueOf(notifying[t], t)

StoreInv == StoreTypeOK /\ Registered /\ Notified /\ NoLostWakeup

StoreSafetySpec == StoreInit /\ [][StoreNext]_storeVars

LEMMA InRange ==
  ASSUME NEW S, NEW q \in Seq(S), NEW x
  PROVE  x \in Range(q) <=> \E i \in 1..Len(q) : q[i] = x
BY RangeEquality

LEMMA RangeOfTail ==
  ASSUME NEW S, NEW q \in Seq(S), q # <<>>, NEW x \in Range(q), x # Head(q)
  PROVE  x \in Range(Tail(q))
<1>1. PICK i \in 1..Len(q) : q[i] = x
  BY InRange
<1>2. i # 1
  BY <1>1
<1>3. Tail(q) \in Seq(S) /\ Len(Tail(q)) = Len(q) - 1
  OBVIOUS
<1>4. i - 1 \in 1..Len(Tail(q)) /\ Tail(q)[i - 1] = x
  BY <1>1, <1>2, <1>3
<1> QED
  BY <1>3, <1>4, InRange

LEMMA RangeOfAppend ==
  ASSUME NEW S, NEW q \in Seq(S), NEW e \in S
  PROVE  /\ e \in Range(Append(q, e))
         /\ \A x \in Range(q) : x \in Range(Append(q, e))
<1>1. Append(q, e) \in Seq(S) /\ Len(Append(q, e)) = Len(q) + 1
  OBVIOUS
<1>2. Append(q, e)[Len(q) + 1] = e /\ Len(q) + 1 \in 1..Len(Append(q, e))
  BY <1>1
<1>3. \A i \in 1..Len(q) : Append(q, e)[i] = q[i] /\ i \in 1..Len(Append(q, e))
  BY <1>1
<1>4. e \in Range(Append(q, e))
  BY <1>1, <1>2, InRange
<1>5. ASSUME NEW x \in Range(q) PROVE x \in Range(Append(q, e))
  <2>1. PICK i \in 1..Len(q) : q[i] = x
    BY <1>5, InRange
  <2> QED
    BY <1>1, <1>3, <2>1, InRange
<1> QED
  BY <1>4, <1>5

LEMMA StoreInvInit == StoreInit => StoreInv
BY StoreAssumption, EmptySeq
   DEF StoreInit, StoreInv, StoreTypeOK, Registered, Notified, QueueOf, NoLostWakeup

LEMMA StorePreserves ==
  ASSUME StoreInv, NEW t \in Tasks, Store(t)
  PROVE  StoreInv'
<1> USE DEF StoreInv
<1>1. PICK r \in Results : results' = [results EXCEPT ![t] = r]
  BY DEF Store
<1>2. r # None
  BY StoreAssumption
<1>3. StoreTypeOK'
  BY <1>1, <1>2, EmptySeq DEF StoreTypeOK, Store
<1>4. Registered'
  BY <1>1 DEF Registered, QueueOf, StoreTypeOK, Store
<1>5. Notified'
  BY DEF Registered, Notified, QueueOf, StoreTypeOK, Store
<1>6. NoLostWakeup'
  BY <1>1, <1>2 DEF NoLostWakeup, StoreTypeOK, Store
<1> QED
  BY <1>3, <1>4, <1>5, <1>6

LEMMA NotifyPreserves ==
  ASSUME StoreInv, NEW t \in Tasks, Notify(t)
  PROVE  StoreInv'
<1> DEFINE q == notifying[t]
           w == Head(q)
<1>1. /\ q \in Seq(Waiters) /\ q # <<>>
      /\ w \in Waiters /\ w = q[1] /\ 1 \in 1..Len(q)
      /\ Tail(q) \in Seq(Waiters) /\ Len(Tail(q)) = Len(q) - 1
      /\ \A i \in 1..Len(Tail(q)) : Tail(q)[i] = q[i + 1] /\ i + 1 \in 1..Len(q)
  BY DEF StoreInv, StoreTypeOK, Notify
<1>2. results[t] # None
  BY <1>1 DEF StoreInv, StoreTypeOK
<1>3. waiting[w] = t /\ channel[w] = None
  BY <1>1 DEF StoreInv, Notified, QueueOf
<1>4. StoreTypeOK'
  BY <1>1, <1>2 DEF StoreInv, StoreTypeOK, Notify
<1>5. \A s \in Tasks : QueueOf(waiters[s], s)'
  <2> SUFFICES ASSUME NEW s \in Tasks PROVE QueueOf(waiters[s], s)'
    OBVIOUS
  <2>1. CASE s = t
    BY <2>1, <1>2, <1>4 DEF StoreInv, Registered, QueueOf, Notify
  <2>2. CASE s # t
    <3>1. ASSUME NEW i \in 1..Len(waiters[s]) PROVE waiters[s][i] # w /\ waiters[s][i] \in Waiters
      BY <2>2, <1>3 DEF StoreInv, StoreTypeOK, Registered, QueueOf
    <3> QED
      BY <3>1 DEF StoreInv, StoreTypeOK, Registered, QueueOf, Notify
  <2> QED
    BY <2>1, <2>2
<1>6. Registered'
  BY <1>5 DEF StoreInv, Registered, Notify
<1>7. Notified'
  <2> SUFFICES ASSUME NEW s \in Tasks PROVE QueueOf(notifying[s], s)'
    BY DEF Notified
  <2>1. CASE s = t
    <3>1. notifying'[s] = Tail(q)
      BY <2>1 DEF StoreInv, StoreTypeOK, Notify
    <3>2. ASSUME NEW i \in 1..Len(Tail(q))
          PROVE  Tail(q)[i] # w /\ Tail(q)[i] \in Waiters
      BY <1>1, <3>2 DEF StoreInv, Notified, QueueOf
    <3>3. ASSUME NEW i \in 1..Len(Tail(q))
          PROVE  waiting[Tail(q)[i]] = s /\ channel'[Tail(q)[i]] = None
      BY <1>1, <3>2, <2>1 DEF StoreInv, StoreTypeOK, Notified, QueueOf, Notify
    <3>4. \A i, j \in 1..Len(Tail(q)) : Tail(q)[i] = Tail(q)[j] => i = j
      BY <1>1 DEF StoreInv, Notified, QueueOf
    <3> QED
      BY <3>1, <3>3, <3>4 DEF QueueOf, Notify
  <2>2. CASE s # t
    <3>1. ASSUME NEW i \in 1..Len(notifying[s]) PROVE notifying[s][i] # w /\ notifying[s][i] \in Waiters
      BY <2>2, <1>3 DEF StoreInv, StoreTypeOK, Notified, QueueOf
    <3> QED
      BY <2>2, <3>1 DEF StoreInv, StoreTypeOK, Notified, QueueOf, Notify
  <2> QED
    BY <2>1, <2>2
<1>8. NoLostWakeup'
  <2> SUFFICES ASSUME NEW v \in Waiters, waiting'[v] # None
               PROVE  \/ results'[waiting'[v]] = None /\ v \in Range(waiters'[waiting'[v]])
                      \/ /\ results'[waiting'[v]] # None
                         /\ v \in Range(notifying'[waiting'[v]])
                              \/ channel'[v] = results'[waiting'[v]]
    BY DEF NoLostWakeup
  <2>1. waiting'[v] = waiting[v] /\ waiting[v] \in Tasks
    BY DEF StoreInv, StoreTypeOK, Notify
  <2>2. CASE v = w
    BY <2>1, <2>2, <1>2, <1>3 DEF StoreInv, StoreTypeOK, Notify
  <2>3. CASE v # w
    <3>1. v \in Range(q) => v \in Range(Tail(q))
      BY <1>1, <2>3, RangeOfTail
    <3>2. channel'[v] = channel[v] /\ results' = results /\ waiters' = waiters
      BY <2>3 DEF StoreInv, StoreTypeOK, Notify
    <3>3. v \in Range(notifying[waiting[v]]) => v \in Range(notifying'[waiting[v]])
      BY <2>1, <3>1 DEF StoreInv, StoreTypeOK, Notify
    <3> QED
      BY <2>1, <3>2, <3>3 DEF StoreInv, NoLostWakeup
  <2> QED
    BY <2>2, <2>3
<1> QED
  BY <1>4, <1>6, <1>7, <1>8 DEF StoreInv

LEMMA WaitStoredPreserves ==
  ASSUME StoreInv, NEW w \in Waiters, NEW t \in Tasks, WaitStored(w, t)
  PROVE  StoreInv'
<1>1. StoreTypeOK'
  BY DEF StoreInv, StoreTypeOK, WaitStored
<1>2. Registered' /\ Notified'
  BY DEF StoreInv, Registered, Notified, QueueOf, WaitStored
<1>3. NoLostWakeup'
  BY DEF StoreInv, NoLostWakeup, WaitStored
<1> QED
  BY <1>1, <1>2, <1>3 DEF StoreInv

LEMMA WaitRegisterPreserves ==
  ASSUME StoreInv, NEW w \in Waiters, NEW t \in Tasks, WaitRegister(w, t)
  PROVE  StoreInv'
<1> DEFINE q == waiters[t]
<1>1. /\ q \in Seq(Waiters) /\ Append(q, w) \in Seq(Waiters)
      /\ Len(Append(q, w)) = Len(q) + 1 /\ Len(q) \in Nat
      /\ Append(q, w)[Len(q) + 1] = w
      /\ \A i \in 1..Len(q) : Append(q, w)[i] = q[i]
  BY DEF StoreInv, StoreTypeOK
<1>2. ASSUME NEW s \in Tasks
      PROVE  /\ \A i \in 1..Len(waiters[s]) : waiters[s][i] \in Waiters \ {w}
             /\ \A i \in 1..Len(notifying[s]) : notifying[s][i] \in Waiters \ {w}
  BY <1>2, StoreAssumption
     DEF StoreInv, StoreTypeOK, Registered, Notified, QueueOf, WaitRegister
<1>3. StoreTypeOK'
  BY <1>1 DEF StoreInv, StoreTypeOK, WaitRegister
<1>4. ASSUME NEW s \in Tasks PROVE QueueOf(waiters[s], s)'
  <2>1. CASE s = t
    <3>1. waiters'[s] = Append(q, w)
      BY <2>1 DEF StoreInv, StoreTypeOK, WaitRegister
    <3>2. ASSUME NEW i \in 1..Len(Append(q, w))
          PROVE  waiting'[Append(q, w)[i]] = s /\ channel'[Append(q, w)[i]] = None
      <4>1. CASE i = Len(q) + 1
        BY <1>1, <2>1, <4>1 DEF StoreInv, StoreTypeOK, WaitRegister
      <4>2. CASE i \in 1..Len(q)
        BY <1>1, <1>2, <2>1, <4>2
           DEF StoreInv, StoreTypeOK, Registered, QueueOf, WaitRegister
      <4> QED
        BY <1>1, <4>1, <4>2
    <3>3. \A i, j \in 1..Len(q) : q[i] = q[j] => i = j
      BY DEF StoreInv, Registered, QueueOf
    <3>4. \A i \in 1..Len(q) : q[i] # w
      BY <1>2
    <3>5. \A i, j \in 1..Len(Append(q, w)) : Append(q, w)[i] = Append(q, w)[j] => i = j
      BY <1>1, <3>3, <3>4
    <3> QED
      BY <3>1, <3>2, <3>5 DEF QueueOf
  <2>2. CASE s # t
    BY <1>2, <2>2 DEF StoreInv, StoreTypeOK, Registered, QueueOf, WaitRegister
  <2> QED
    BY <2>1, <2>2
<1>5. Registered'
  BY <1>4 DEF StoreInv, StoreTypeOK, Registered, WaitRegister
<1>6. Notified'
  BY <1>2 DEF StoreInv, StoreTypeOK, Notified, QueueOf, WaitRegister
<1>7. NoLostWakeup'
  <2> SUFFICES ASSUME NEW v \in Waiters, waiting'[v] # None
               PROVE  \/ results'[waiting'[v]] = None /\ v \in Range(waiters'[waiting'[v]])
                      \/ /\ results'[waiting'[v]] # None
                         /\ v \in Range(notifying'[waiting'[v]])
                              \/ channel'[v] = results'[waiting'[v]]
    BY DEF NoLostWakeup
  <2>1. w \in Range(Append(q, w)) /\ \A x \in Range(q) : x \in Range(Append(q, w))
    BY <1>1, RangeOfAppend
  <2>2. CASE v = w
    BY <2>1, <2>2 DEF StoreInv, StoreTypeOK, WaitRegister
  <2>3. CASE v # w
    <3>1. waiting'[v] = waiting[v] /\ waiting[v] \in Tasks /\ channel'[v] = channel[v]
      BY <2>3 DEF StoreInv, StoreTypeOK, WaitRegister
    <3>2. v \in Range(waiters[waiting[v]]) => v \in Range(waiters'[waiting[v]])
      BY <2>1, <3>1 DEF StoreInv, StoreTypeOK, WaitRegister
    <3>3. UNCHANGED <<results, notifying>>
      BY DEF WaitRegister
    <3> QED
      BY <3>1, <3>2, <3>3 DEF StoreInv, NoLostWakeup
  <2> QED
    BY <2>2, <2>3
<1> QED
  BY <1>3, <1>5, <1>6, <1>7 DEF StoreInv

LEMMA WaitReturnPreserves ==
  ASSUME StoreInv, NEW w \in Waiters, WaitReturn(w)
  PROVE  StoreInv'
<1>1. StoreTypeOK'
  BY DEF StoreInv, StoreTypeOK, WaitReturn
<1>2. ASSUME NEW s \in Tasks
      PROVE  /\ \A i \in 1..Len(waiters[s]) : waiters[s][i] \in Waiters \ {w}
             /\ \A i \in 1..Len(notifying[s]) : notifying[s][i] \in Waiters \ {w}
  BY <1>2 DEF StoreInv, StoreTypeOK, Registered, Notified, QueueOf, WaitReturn
<1>3. Registered' /\ Notified'
  BY <1>2 DEF StoreInv, StoreTypeOK, Registered, Notified, QueueOf, WaitReturn
<1>4. NoLostWakeup'
  BY DEF StoreInv, StoreTypeOK, NoLostWakeup, WaitReturn
<1> QED
  BY <1>1, <1>3, <1>4 DEF StoreInv

\* A step of the store, whoever takes it, keeps its bookkeeping right.
LEMMA StoreStepPreserves ==
  ASSUME StoreInv, [StoreNext]_storeVars
  PROVE  StoreInv'
<1>1. CASE StoreNext
  BY <1>1, StorePreserves, NotifyPreserves, WaitReturnPreserves,
     WaitStoredPreserves, WaitRegisterPreserves DEF StoreNext
<1>2. CASE UNCHANGED storeVars
  BY <1>2 DEF storeVars, StoreInv, StoreTypeOK, Registered, Notified, QueueOf, NoLostWakeup
<1> QED
  BY <1>1, <1>2

\* The store's bookkeeping is right in every reachable state.
THEOREM StoreInductive == StoreSafetySpec => []StoreInv
<1>1. StoreInv /\ [StoreNext]_storeVars => StoreInv'
  BY StoreStepPreserves
<1> QED
  BY StoreInvInit, <1>1, PTL DEF StoreSafetySpec

LEMMA SpecIsSafe == StoreSpec => StoreSafetySpec
BY PTL DEF StoreSpec, StoreSafetySpec

\* core/result_store.go, WaitForResult against Store: no wake-up is lost.
THEOREM WakeupsAreNotLost == StoreSpec => []NoLostWakeup
<1>1. StoreInv => NoLostWakeup
  BY DEF StoreInv
<1> QED
  BY <1>1, SpecIsSafe, StoreInductive, PTL

LEMMA OwedIsFree == StoreInv => SendsNeverBlock
<1> SUFFICES ASSUME StoreInv, NEW t \in Tasks, NEW w \in Range(notifying[t])
             PROVE  waiting[w] = t /\ channel[w] = None
  BY DEF SendsNeverBlock
<1>1. PICK i \in 1..Len(notifying[t]) : notifying[t][i] = w
  BY InRange DEF StoreInv, StoreTypeOK
<1> QED
  BY <1>1 DEF StoreInv, Notified, QueueOf

\* The sends of Store find their channel empty and its owner waiting, so that
\* Store returns whatever the waiters do.
THEOREM StoreNeverBlocks == StoreSpec => []SendsNeverBlock
BY OwedIsFree, SpecIsSafe, StoreInductive, PTL

\* The same without fairness, for the systems that the store is part of.
LEMMA SafeStoreImplementsFutures == StoreSafetySpec => Future!SafetySpec
<1>1. StoreInit => Future!Init
  BY DEF StoreInit, Future!Init, Future!NothingGot
<1>2. StoreInv /\ [StoreNext]_storeVars => [Future!Next]_(Future!vars)
  <2> SUFFICES ASSUME StoreInv, [StoreNext]_storeVars
               PROVE  Future!Next \/ UNCHANGED <<results, waiting, got>>
    BY DEF Future!vars
  <2>1. ASSUME NEW t \in Tasks, Store(t) PROVE Future!Next
    <3>1. Future!Resolve(t)
      BY <2>1 DEF Store, Future!Resolve
    <3> QED
      BY <3>1 DEF Future!Next
  <2>2. ASSUME NEW t \in Tasks, Notify(t) PROVE UNCHANGED <<results, waiting, got>>
    BY <2>2 DEF Notify
  <2>3. ASSUME NEW w \in Waiters, WaitReturn(w) PROVE Future!Next
    <3>1. /\ waiting[w] \in Tasks /\ channel[w] # None
          /\ ~(w \in Range(waiters[waiting[w]]))
      <4>1. waiting[w] \in Tasks /\ channel[w] # None
        BY <2>3 DEF WaitReturn, StoreInv, StoreTypeOK
      <4>2. ASSUME w \in Range(waiters[waiting[w]]) PROVE FALSE
        <5>1. PICK i \in 1..Len(waiters[waiting[w]]) : waiters[waiting[w]][i] = w
          BY <4>1, <4>2, InRange DEF StoreInv, StoreTypeOK
        <5> QED
          BY <4>1, <5>1 DEF StoreInv, Registered, QueueOf
      <4> QED
        BY <4>1, <4>2
    <3>2. w \notin Range(notifying[waiting[w]])
      <4>1. ASSUME w \in Range(notifying[waiting[w]]) PROVE FALSE
        <5>1. PICK i \in 1..Len(notifying[waiting[w]]) : notifying[waiting[w]][i] = w
          BY <3>1, <4>1, InRange DEF StoreInv, StoreTypeOK
        <5> QED
          BY <3>1, <5>1 DEF StoreInv, Notified, QueueOf
      <4> QED
        BY <4>1
    <3>3. results[waiting[w]] # None /\ channel[w] = results[waiting[w]]
      BY <3>1, <3>2, <2>3 DEF StoreInv, NoLostWakeup, WaitReturn
    <3>4. Future!Return(w)
      BY <2>3, <3>1, <3>3 DEF WaitReturn, Future!Return
    <3> QED
      BY <3>4 DEF Future!Next
  <2>4. ASSUME NEW w \in Waiters, NEW t \in Tasks, WaitStored(w, t) PROVE Future!Next
    <3>1. Future!AwaitResolved(w, t)
      BY <2>4 DEF WaitStored, Future!AwaitResolved
    <3> QED
      BY <3>1 DEF Future!Next
  <2>5. ASSUME NEW w \in Waiters, NEW t \in Tasks, WaitRegister(w, t) PROVE Future!Next
    <3>1. Future!AwaitUnresolved(w, t)
      BY <2>5 DEF WaitRegister, Future!AwaitUnresolved
    <3> QED
      BY <3>1 DEF Future!Next
  <2>6. CASE UNCHANGED storeVars
    BY <2>6 DEF storeVars
  <2> QED
    BY <2>1, <2>2, <2>3, <2>4, <2>5, <2>6 DEF StoreNext
<1> QED
  BY <1>1, <1>2, StoreInductive, PTL DEF StoreSafetySpec, Future!SafetySpec

\* The store is a set of futures: a goroutine gets the result of the task it
\* asked for, and each result is set once.
THEOREM StoreImplementsFutures == StoreSpec => Future!SafetySpec
BY SafeStoreImplementsFutures, SpecIsSafe, PTL

-----------------------------------------------------------------------------
(***************************************************************************)
(* Delegations.                                                            *)
(***************************************************************************)

\* Each Delegate call tells its run one id, and has at most one Execute.
ToldAreCounted ==
  /\ executing \in Nat /\ counter \in Nat
  /\ \A r \in Runs : Len(told[r]) <= delegated

\* Only what a sub-agent worked on has a result.
StoredAreTasks == \A t \in Tasks : results[t] # None => t \in TaskIDs

Inv == TypeOK /\ StoreInv /\ ToldAreCounted /\ StoredAreTasks /\ CompletedMeansStored

-----------------------------------------------------------------------------
\* The store in the composition.

LEMMA TaskIDsAreTasks == TaskIDs \subseteq Tasks /\ IDs = Tasks
BY DelegationAssumption DEF IDs

LEMMA BoundedSeqType ==
  ASSUME NEW S, NEW n \in Nat
  PROVE  /\ BoundedSeq(S, n) \subseteq Seq(S)
         /\ \A s \in Seq(S) : s \in BoundedSeq(S, n) <=> Len(s) <= n
         /\ <<>> \in BoundedSeq(S, n)
<1>1. BoundedSeq(S, n) = UNION {[1..m -> S] : m \in 0..n}
  BY DEF BoundedSeq, SeqOf
<1>2. ASSUME NEW s \in BoundedSeq(S, n) PROVE s \in Seq(S) /\ Len(s) <= n
  <2>1. PICK m \in 0..n : s \in [1..m -> S]
    BY <1>1
  <2> QED
    BY <2>1, SeqDef, LenProperties
<1>3. ASSUME NEW s \in Seq(S), Len(s) <= n PROVE s \in BoundedSeq(S, n)
  <2>1. Len(s) \in 0..n /\ s \in [1..Len(s) -> S]
    BY <1>3, LenProperties
  <2> QED
    BY <1>1, <2>1
<1>4. <<>> \in Seq(S) /\ Len(<<>>) <= n
  OBVIOUS
<1> QED
  BY <1>2, <1>3, <1>4

LEMMA BoundedAppend ==
  ASSUME NEW S, NEW n \in Nat, NEW s \in Seq(S), Len(s) < n, NEW e \in S
  PROVE  Append(s, e) \in BoundedSeq(S, n)
<1>1. Append(s, e) \in Seq(S) /\ Len(Append(s, e)) = Len(s) + 1 /\ Len(s) \in Nat
  BY AppendProperties, LenProperties
<1>2. Len(Append(s, e)) <= n
  BY <1>1
<1> QED
  BY <1>1, <1>2, BoundedSeqType

\* What CollectResults has left is a list of ids that gets shorter.
LEMMA LeftToCollect ==
  ASSUME TypeOK, NEW r \in Runs, toCollect[r] # <<>>
  PROVE  /\ Head(toCollect[r]) \in Tasks
         /\ Tail(toCollect[r]) \in BoundedSeq(IDs, MaxCollect)
<1>1. toCollect[r] \in BoundedSeq(IDs, MaxCollect)
  BY DEF TypeOK
<1>2. toCollect[r] \in Seq(IDs) /\ Len(toCollect[r]) <= MaxCollect
  BY <1>1, BoundedSeqType, DelegationAssumption
<1>3. /\ Head(toCollect[r]) \in IDs
      /\ Tail(toCollect[r]) \in Seq(IDs) /\ Len(Tail(toCollect[r])) <= MaxCollect
  BY <1>2, HeadTailProperties, LenProperties, DelegationAssumption
<1> QED
  BY <1>3, BoundedSeqType, TaskIDsAreTasks, DelegationAssumption

LEMMA StepsAreStoreSteps == TypeOK /\ Next => [StoreNext]_storeVars
<1> SUFFICES ASSUME TypeOK, Next PROVE StoreNext \/ UNCHANGED storeVars
  OBVIOUS
<1>1. CASE DelegateRefuses \/ DelegateExecute
  BY <1>1 DEF DelegateRefuses, DelegateExecute
<1>2. ASSUME NEW t \in IDs, StoreResult(t) \/ NotifyWaiter(t) \/ EmitCompleted(t)
      PROVE  StoreNext \/ UNCHANGED storeVars
  BY <1>2, TaskIDsAreTasks DEF StoreResult, NotifyWaiter, EmitCompleted, StoreNext
<1>3. ASSUME NEW r \in Runs,
             LaunchAsync(r) \/ CallCollectResults(r) \/ Collected(r) \/ ReturnFromCollect(r)
      PROVE  StoreNext \/ UNCHANGED storeVars
  BY <1>3 DEF LaunchAsync, CallCollectResults, Collected, ReturnFromCollect, StoreNext, Runs
<1>4. ASSUME NEW r \in Runs, CollectNext(r) PROVE StoreNext
  BY <1>4, LeftToCollect DEF CollectNext, StoreNext, Runs
<1> QED
  BY <1>1, <1>2, <1>3, <1>4 DEF Next

-----------------------------------------------------------------------------
\* The invariant.

LEMMA InvInit == Init => Inv
<1> SUFFICES ASSUME Init PROVE Inv
  OBVIOUS
<1>1. StoreInv
  BY StoreInvInit DEF Init
<1>2. <<>> \in BoundedSeq(ToldIDs, MaxDelegations) /\ <<>> \in BoundedSeq(IDs, MaxCollect)
  BY BoundedSeqType, DelegationAssumption
<1>3. TypeOK
  BY <1>1, <1>2, DelegationAssumption DEF StoreInv, Init, TypeOK
<1>4. ToldAreCounted
  BY DEF Init, ToldAreCounted
<1>5. StoredAreTasks
  BY DEF Init, StoreInit, StoredAreTasks
<1> QED
  BY <1>1, <1>3, <1>4, <1>5 DEF Init, Inv, CompletedMeansStored

\* A step of the store never takes back a result, and blocks nobody on a task
\* that has one.
LEMMA StoreStepKeepsCompleted ==
  ASSUME StoreInv, StoreInv', CompletedMeansStored, completed \subseteq Tasks,
         [StoreNext]_storeVars, completed' = completed
  PROVE  CompletedMeansStored'
<1> SUFFICES ASSUME NEW t \in completed
             PROVE  /\ results'[t] # None
                    /\ \A r \in Runs : waiting'[r] = t => channel'[r] = results'[t]
  BY DEF CompletedMeansStored
<1>1. /\ t \in Tasks /\ t # None /\ results[t] # None
      /\ \A r \in Runs : waiting[r] = t => channel[r] = results[t]
  BY StoreAssumption DEF CompletedMeansStored
<1>2. CASE UNCHANGED storeVars
  BY <1>1, <1>2 DEF storeVars
<1>3. ASSUME NEW s \in Tasks, Store(s)
      PROVE  /\ results'[t] # None
             /\ \A r \in Runs : waiting'[r] = t => channel'[r] = results'[t]
  BY <1>1, <1>3 DEF Store, StoreInv, StoreTypeOK
<1>4. ASSUME NEW s \in Tasks, Notify(s)
      PROVE  /\ results'[t] # None
             /\ \A r \in Runs : waiting'[r] = t => channel'[r] = results'[t]
  <2>1. channel[Head(notifying[s])] = None
    BY <1>4 DEF Notify
  <2>2. \A r \in Runs : waiting[r] = t => r # Head(notifying[s])
    BY <1>1, <2>1
  <2> QED
    BY <1>1, <1>4, <2>2 DEF Notify, StoreInv, StoreTypeOK, Runs
<1>5. ASSUME NEW w \in Waiters, WaitReturn(w)
      PROVE  /\ results'[t] # None
             /\ \A r \in Runs : waiting'[r] = t => channel'[r] = results'[t]
  BY <1>1, <1>5 DEF WaitReturn, StoreInv, StoreTypeOK, Runs
<1>6. ASSUME NEW w \in Waiters, NEW s \in Tasks, WaitStored(w, s) \/ WaitRegister(w, s)
      PROVE  /\ results'[t] # None
             /\ \A r \in Runs : waiting'[r] = t => channel'[r] = results'[t]
  BY <1>1, <1>6 DEF WaitStored, WaitRegister, StoreInv, StoreTypeOK, Runs
<1> QED
  BY <1>2, <1>3, <1>4, <1>5, <1>6 DEF StoreNext

\* The event comes after the last send: who still blocks has its result.
LEMMA EmitCompletedIsLate ==
  ASSUME Inv, NEW t \in IDs, EmitCompleted(t)
  PROVE  CompletedMeansStored'
<1>1. t \in Tasks /\ t # None /\ results[t] # None /\ notifying[t] = <<>>
  BY TaskIDsAreTasks, StoreAssumption DEF EmitCompleted
<1>2. ASSUME NEW r \in Runs, waiting[r] = t PROVE channel[r] = results[t]
  <2>1. r \notin Range(notifying[t])
    BY <1>1, InRange DEF Inv, StoreInv, StoreTypeOK
  <2> QED
    BY <1>1, <1>2, <2>1 DEF Inv, StoreInv, NoLostWakeup, Runs
<1> QED
  BY <1>1, <1>2 DEF Inv, CompletedMeansStored, EmitCompleted, storeVars

LEMMA LaunchPreserves ==
  ASSUME Inv, StoreTypeOK', NEW r \in Runs, LaunchAsync(r)
  PROVE  TypeOK' /\ ToldAreCounted'
<1>1. PICK n \in 1..MaxBatch : told' = [told EXCEPT ![r] = Append(told[r], <<"async", n>>)]
  BY DEF LaunchAsync
<1>2. <<"async", n>> \in ToldIDs
  BY DEF ToldIDs
<1>3. told[r] \in Seq(ToldIDs) /\ Len(told[r]) <= delegated
  BY BoundedSeqType, DelegationAssumption DEF Inv, TypeOK, ToldAreCounted
<1>4. /\ Append(told[r], <<"async", n>>) \in Seq(ToldIDs)
      /\ Len(Append(told[r], <<"async", n>>)) = Len(told[r]) + 1 /\ Len(told[r]) \in Nat
  BY <1>2, <1>3, AppendProperties, LenProperties
<1>5. delegated \in Nat /\ delegated' = delegated + 1 /\ delegated' <= MaxDelegations
  BY DelegationAssumption DEF Inv, TypeOK, LaunchAsync
<1>6. told' \in [Runs -> BoundedSeq(ToldIDs, MaxDelegations)]
  <2>1. Append(told[r], <<"async", n>>) \in BoundedSeq(ToldIDs, MaxDelegations)
    <3>1. Len(told[r]) < MaxDelegations
      BY <1>3, <1>4, <1>5, DelegationAssumption
    <3> QED
      BY <1>2, <1>3, <3>1, BoundedAppend, DelegationAssumption
  <2>2. told \in [Runs -> BoundedSeq(ToldIDs, MaxDelegations)]
    BY DEF Inv, TypeOK
  <2> QED
    BY <1>1, <2>1, <2>2
<1>7. \A s \in Runs : Len(told'[s]) <= delegated'
  <2>1. ASSUME NEW s \in Runs, s # r PROVE Len(told'[s]) <= delegated'
    <3>1. told'[s] = told[s] /\ Len(told[s]) <= delegated
      BY <1>1, <2>1 DEF Inv, TypeOK, ToldAreCounted
    <3>2. Len(told[s]) \in Nat
      BY BoundedSeqType, DelegationAssumption, LenProperties DEF Inv, TypeOK
    <3> QED
      BY <1>5, <3>1, <3>2
  <2>2. Len(told'[r]) <= delegated'
    BY <1>1, <1>3, <1>4, <1>5 DEF Inv, TypeOK
  <2> QED
    BY <2>1, <2>2
<1>8. executing' \in Nat /\ counter' \in Nat /\ executing' + counter' \in 0..delegated'
  BY <1>5 DEF Inv, TypeOK, ToldAreCounted, LaunchAsync
<1> QED
  BY <1>5, <1>6, <1>7, <1>8 DEF Inv, TypeOK, ToldAreCounted, LaunchAsync

\* Refusing and executing what was launched.
LEMMA ExecutePreserves ==
  ASSUME Inv, StoreTypeOK', DelegateRefuses \/ DelegateExecute
  PROVE  TypeOK' /\ ToldAreCounted'
<1>1. /\ executing \in Nat /\ counter \in Nat /\ executing > 0
      /\ delegated \in Nat /\ delegated <= MaxDelegations
      /\ executing + counter <= delegated
  BY DelegationAssumption DEF Inv, TypeOK, ToldAreCounted, DelegateRefuses, DelegateExecute
<1>2. CASE DelegateRefuses
  <2>1. executing' \in Nat /\ executing' + counter' \in 0..delegated'
    BY <1>1, <1>2 DEF DelegateRefuses
  <2> QED
    BY <1>2, <2>1 DEF Inv, TypeOK, ToldAreCounted, DelegateRefuses
<1>3. CASE DelegateExecute
  <2>1. executing' \in Nat /\ counter' \in 1..MaxDelegations /\ executing' + counter' \in 0..delegated'
    BY <1>1, <1>3, DelegationAssumption DEF DelegateExecute
  <2>2. subAgents' \subseteq TaskIDs
    BY <1>3, <2>1 DEF DelegateExecute, TaskIDs, Inv, TypeOK
  <2>3. UNCHANGED <<pc, told, toCollect, delegated, completed>>
    BY <1>3 DEF DelegateExecute
  <2>4. ToldAreCounted'
    BY <2>1, <2>3 DEF Inv, ToldAreCounted
  <2>5. TypeOK
    BY DEF Inv
  <2> QED
    BY <2>1, <2>2, <2>3, <2>4, <2>5 DEF TypeOK
<1> QED
  BY <1>2, <1>3

LEMMA TaskPreserves ==
  ASSUME Inv, StoreTypeOK', NEW t \in IDs, StoreResult(t) \/ NotifyWaiter(t) \/ EmitCompleted(t)
  PROVE  TypeOK' /\ ToldAreCounted'
<1>1. UNCHANGED <<pc, told, toCollect, executing, delegated, counter>>
  BY DEF StoreResult, NotifyWaiter, EmitCompleted
<1>2. subAgents' \subseteq TaskIDs
  BY DEF StoreResult, NotifyWaiter, EmitCompleted, Inv, TypeOK
<1>3. completed' \subseteq TaskIDs
  <2>1. EmitCompleted(t) => t \in TaskIDs
    BY TaskIDsAreTasks DEF EmitCompleted, Inv, StoredAreTasks
  <2> QED
    BY <2>1 DEF StoreResult, NotifyWaiter, EmitCompleted, Inv, TypeOK
<1>4. TypeOK'
  <2>1. TypeOK
    BY DEF Inv
  <2> QED
    BY <1>1, <1>2, <1>3, <2>1 DEF TypeOK
<1>5. ToldAreCounted'
  BY <1>1 DEF Inv, ToldAreCounted
<1> QED
  BY <1>4, <1>5

LEMMA RunPreserves ==
  ASSUME Inv, StoreTypeOK', NEW r \in Runs,
         CallCollectResults(r) \/ CollectNext(r) \/ Collected(r) \/ ReturnFromCollect(r)
  PROVE  TypeOK' /\ ToldAreCounted'
<1>1. UNCHANGED <<told, executing, delegated, counter, subAgents, completed>>
  BY DEF CallCollectResults, CollectNext, Collected, ReturnFromCollect
<1>2. pc' \in [Runs -> {"act", "collect"}]
  BY DEF CallCollectResults, CollectNext, Collected, ReturnFromCollect, Inv, TypeOK
<1>3. toCollect' \in [Runs -> BoundedSeq(IDs, MaxCollect)]
  BY LeftToCollect DEF CallCollectResults, CollectNext, Collected, ReturnFromCollect, Inv, TypeOK
<1> QED
  BY <1>1, <1>2, <1>3 DEF Inv, TypeOK, ToldAreCounted

\* Results are stored by sub-agents only.
LEMMA StoredByTasks ==
  ASSUME Inv, StoreTypeOK', Next
  PROVE  StoredAreTasks'
<1>1. ASSUME NEW t \in IDs, StoreResult(t) PROVE StoredAreTasks'
  <2>1. t \in TaskIDs
    BY <1>1 DEF StoreResult, Inv, TypeOK
  <2>2. \A s \in Tasks : s # t => results'[s] = results[s]
    BY <1>1 DEF StoreResult, Store, Inv, StoreInv, StoreTypeOK
  <2> QED
    BY <2>1, <2>2 DEF StoredAreTasks, Inv
<1>2. ASSUME results' = results PROVE StoredAreTasks'
  BY <1>2 DEF StoredAreTasks, Inv
<1>3. (\E t \in IDs : StoreResult(t)) \/ results' = results
  BY DEF Next, storeVars, DelegateRefuses, DelegateExecute, NotifyWaiter, Notify, EmitCompleted,
     LaunchAsync, CallCollectResults, CollectNext, WaitStored, WaitRegister, Collected, WaitReturn,
     ReturnFromCollect
<1> QED
  BY <1>1, <1>2, <1>3

LEMMA NextPreserves == Inv /\ [Next]_vars => Inv'
<1> SUFFICES ASSUME Inv, [Next]_vars PROVE Inv'
  OBVIOUS
<1>1. [StoreNext]_storeVars
  BY StepsAreStoreSteps DEF Inv, vars
<1>2. StoreInv' /\ StoreTypeOK'
  BY <1>1, StoreStepPreserves DEF Inv, StoreInv
<1>3. TypeOK' /\ ToldAreCounted'
  <2>1. CASE UNCHANGED vars
    BY <1>2, <2>1 DEF vars, Inv, TypeOK, ToldAreCounted
  <2>2. CASE Next
    BY <1>2, <2>2, LaunchPreserves, ExecutePreserves, TaskPreserves, RunPreserves DEF Next
  <2> QED
    BY <2>1, <2>2
<1>4. CompletedMeansStored'
  <2>1. completed \subseteq Tasks
    BY TaskIDsAreTasks DEF Inv, TypeOK
  <2>2. CASE \E t \in IDs : EmitCompleted(t)
    BY <2>2, EmitCompletedIsLate
  <2>3. CASE completed' = completed
    BY <1>1, <1>2, <2>1, <2>3, StoreStepKeepsCompleted DEF Inv
  <2>4. (\E t \in IDs : EmitCompleted(t)) \/ completed' = completed
    BY DEF Next, vars, DelegateRefuses, DelegateExecute, StoreResult, NotifyWaiter, LaunchAsync,
       CallCollectResults, CollectNext, Collected, ReturnFromCollect
  <2> QED
    BY <2>2, <2>3, <2>4
<1>5. StoredAreTasks'
  <2>1. CASE UNCHANGED vars
    BY <2>1 DEF vars, storeVars, Inv, StoredAreTasks
  <2>2. CASE Next
    BY <1>2, <2>2, StoredByTasks
  <2> QED
    BY <2>1, <2>2
<1> QED
  BY <1>2, <1>3, <1>4, <1>5 DEF Inv

-----------------------------------------------------------------------------

\* The invariant that ties delegations to the store.
THEOREM DelegationInductive == Spec => []Inv
BY InvInit, NextPreserves, PTL DEF Spec

\* Every state of the runs, the sub-agents and the store is well typed.
THEOREM DelegationTypeCorrect == Spec => []TypeOK
<1>1. Inv => TypeOK
  BY DEF Inv
<1> QED
  BY <1>1, DelegationInductive, PTL

\* Who sees SubtaskCompleted finds the result, and nobody is still without it.
THEOREM CompletedAreStored == Spec => []CompletedMeansStored
<1>1. Inv => CompletedMeansStored
  BY DEF Inv
<1> QED
  BY <1>1, DelegationInductive, PTL

\* What delegates and collects uses the store as its own proofs assume.
THEOREM DelegationUsesStore == Spec => StoreSafetySpec
<1>1. Init => StoreInit
  BY DEF Init
<1>2. Inv /\ [Next]_vars => [StoreNext]_storeVars
  BY StepsAreStoreSteps DEF Inv, vars
<1> QED
  BY <1>1, <1>2, DelegationInductive, PTL DEF Spec, StoreSafetySpec

\* Hence no send of the store blocks a sub-agent's goroutine,
THEOREM DelegationNeverBlocks == Spec => []SendsNeverBlock
BY DelegationUsesStore, StoreInductive, OwedIsFree, PTL

\* and what is collected is the result of the task that was asked for.
THEOREM DelegationImplementsFutures == Spec => Future!SafetySpec
BY DelegationUsesStore, SafeStoreImplementsFutures, PTL

=============================================================================
