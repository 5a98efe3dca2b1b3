-------------------------- MODULE Application_proof --------------------------
(***************************************************************************)
(* Proofs about what an agent exchanges with its application.  First the   *)
(* event bus, whatever the number of emitters, subscribers and events:     *)
(* nothing sends on or closes a closed channel, an event reaches every     *)
(* subscriber or finds its channel full, and each subscriber sees the      *)
(* events of an emitter in order.  Then the interaction handler, for any   *)
(* number of runs, users and questions: it is taken exactly while a call   *)
(* is in it, and an answer stays with its question.  Then AskPermission,   *)
(* for any calls, tools and safe tools: what holds however calls overlap,  *)
(* and what holds of calls in turn that are decided about once.  Last the  *)
(* stream of an answer, with channels of any size: it carries the answer   *)
(* unless its caller cancels it.                                           *)
(***************************************************************************)
EXTENDS MCApplication, SequenceTheorems, TLAPS

-----------------------------------------------------------------------------
(***************************************************************************)
(* The event bus.                                                          *)
(***************************************************************************)

\* The map holds exactly the open channels.
MapIsOpen == \A s \in Subscribers : s \in subscribers <=> channel[s] = "open"

\* An emitter looks at subscriptions of the map, and only inside the lock.
LeftIsInMap ==
  \A e \in Emitters : /\ at[e] = "send" => left[e] \subseteq subscribers
                      /\ at[e] # "send" => left[e] = {}

\* What a client has received, and what is in its channel.
Seen(s) == got[s] \o queue[s]

IsSeen(s, ev) == \E i \in 1..Len(Seen(s)) : Seen(s)[i] = ev

\* A subscriber that an Emit has looked at has the event, or was full.
LookedAt ==
  \A e \in Emitters : \A s \in subscribers :
    (at[e] = "send" /\ s \notin left[e] /\ Wants(s, event[e])) =>
       IsSeen(s, event[e]) \/ event[e] \in dropped[s]

\* Nobody has seen an event that its emitter has not come to.
Pending(e, s) == at[e] = "lock" \/ s \in left[e]

Behind ==
  \A s \in Subscribers : \A i \in 1..Len(Seen(s)) :
    LET ev == Seen(s)[i] IN
      /\ ev.n <= event[ev.from].n
      /\ Pending(ev.from, s) => ev.n < event[ev.from].n

FromIsEmitter == \A e \in Emitters : event[e].from = e

Ordered ==
  \A s \in Subscribers : \A i, j \in 1..Len(Seen(s)) :
    i < j /\ Seen(s)[i].from = Seen(s)[j].from => Seen(s)[i].n < Seen(s)[j].n

BusInv == /\ TypeOK /\ NeverPanics /\ MapIsOpen /\ LeftIsInMap
          /\ LookedAt /\ FromIsEmitter /\ Behind /\ Ordered

-----------------------------------------------------------------------------

\* Sequences seen after a receive and after a send.
LEMMA ReceiveKeepsSeen ==
  ASSUME NEW S, NEW g \in Seq(S), NEW q \in Seq(S), q # <<>>
  PROVE  Append(g, Head(q)) \o Tail(q) = g \o q
OBVIOUS

LEMMA SendExtendsSeen ==
  ASSUME NEW S, NEW g \in Seq(S), NEW q \in Seq(S), NEW x \in S
  PROVE  /\ Len(g \o Append(q, x)) = Len(g \o q) + 1
         /\ (g \o Append(q, x))[Len(g \o q) + 1] = x
         /\ \A i \in 1..Len(g \o q) : (g \o Append(q, x))[i] = (g \o q)[i]
OBVIOUS

LEMMA SeenType ==
  ASSUME TypeOK, NEW s \in Subscribers
  PROVE  /\ got[s] \in Seq(Events) /\ queue[s] \in Seq(Events)
         /\ Seen(s) \in Seq(Events) /\ Len(Seen(s)) \in Nat
         /\ \A i \in 1..Len(Seen(s)) :
              /\ Seen(s)[i] \in Events
              /\ Seen(s)[i].from \in Emitters /\ Seen(s)[i].n \in Nat
<1>1. got[s] \in Seq(Events) /\ queue[s] \in Seq(Events)
  BY DEF TypeOK
<1>2. Seen(s) \in Seq(Events) /\ Len(Seen(s)) \in Nat
  <2>1. got[s] \o queue[s] \in Seq(Events)
    BY <1>1, ConcatProperties
  <2>2. Seen(s) \in Seq(Events)
    BY <2>1 DEF Seen
  <2> QED
    BY <2>2, LenProperties
<1>3. \A i \in 1..Len(Seen(s)) : Seen(s)[i] \in Events
  BY <1>2
<1>4. \A ev \in Events : ev.from \in Emitters /\ ev.n \in Nat
  BY BusAssumption DEF Events
<1> QED
  BY <1>1, <1>2, <1>3, <1>4

LEMMA BusInit == Init => BusInv
<1> SUFFICES ASSUME Init PROVE BusInv
  OBVIOUS
<1>1. TypeOK
  <2>1. (CHOOSE k \in Kinds : TRUE) \in Kinds
    BY BusAssumption
  <2>2. event \in [Emitters -> Events]
    BY <2>1, BusAssumption DEF Init, Events
  <2>3. <<>> \in Seq(Events) /\ Len(<<>>) = 0
    OBVIOUS
  <2>4. /\ queue \in [Subscribers -> Seq(Events)]
        /\ got \in [Subscribers -> Seq(Events)]
        /\ \A s \in Subscribers : Len(queue[s]) <= Capacity
    BY <2>3, BusAssumption DEF Init
  <2>5. /\ subscribers \subseteq Subscribers
        /\ closed \in BOOLEAN /\ panicked \in BOOLEAN
        /\ waiting \subseteq Subscribers \cup {Owner}
        /\ filter \in [Subscribers -> SUBSET Kinds]
        /\ channel \in [Subscribers -> {"none", "open", "closed"}]
    BY DEF Init
  <2>6. /\ cancels \in [Subscribers -> 0..MaxCancels]
        /\ at \in [Emitters -> {"idle", "lock", "send"}]
        /\ left \in [Emitters -> SUBSET Subscribers]
        /\ dropped \in [Subscribers -> SUBSET Events]
    BY BusAssumption DEF Init
  <2> QED
    BY <2>2, <2>4, <2>5, <2>6 DEF TypeOK
<1>2. \A s \in Subscribers : Len(Seen(s)) = 0
  BY DEF Init, Seen
<1> QED
  BY <1>1, <1>2 DEF Init, BusInv, NeverPanics, MapIsOpen, LeftIsInMap, LookedAt,
     FromIsEmitter, Behind, Ordered

\* A step that leaves events, channels and emitters alone.
LEMMA SeenUnchanged ==
  ASSUME BusInv, TypeOK', \A s \in Subscribers : Seen(s)' = Seen(s),
         UNCHANGED <<emitVars, subscribers, closed, filter, channel, panicked, dropped>>
  PROVE  BusInv'
<1>1. MapIsOpen' /\ LeftIsInMap' /\ NeverPanics' /\ FromIsEmitter'
  BY DEF BusInv, MapIsOpen, LeftIsInMap, NeverPanics, FromIsEmitter, emitVars
<1>2. \A s \in Subscribers : \A ev : IsSeen(s, ev)' <=> IsSeen(s, ev)
  BY DEF IsSeen
<1>3. LookedAt'
  BY <1>2 DEF BusInv, TypeOK, LookedAt, Wants, emitVars
<1>4. Behind' /\ Ordered'
  BY DEF BusInv, Behind, Ordered, Pending, emitVars
<1> QED
  BY <1>1, <1>3, <1>4 DEF BusInv

-----------------------------------------------------------------------------
\* The steps of an emitter.

LEMMA EmitPreserves ==
  ASSUME BusInv, NEW e \in Emitters, Emit(e)
  PROVE  BusInv'
<1> USE DEF BusInv
<1>1. PICK k \in Kinds : event' = [event EXCEPT ![e].n = @ + 1, ![e].kind = k]
  BY DEF Emit
<1>2. /\ event[e] \in Events /\ event[e].n < MaxEvents
      /\ event[e].from = e /\ at[e] = "idle"
  BY DEF Emit, TypeOK, FromIsEmitter
<1>3. /\ event'[e] = [event[e] EXCEPT !.n = event[e].n + 1, !.kind = k]
      /\ \A f \in Emitters \ {e} : event'[f] = event[f]
  BY <1>1 DEF TypeOK
<1>4. /\ event'[e] \in Events /\ event'[e].from = e
      /\ event'[e].n = event[e].n + 1
  <2>1. /\ event'[e].from = e /\ event'[e].n = event[e].n + 1 /\ event'[e].kind = k
        /\ event'[e] = [from |-> event[e].from, n |-> event[e].n + 1, kind |-> k]
    BY <1>2, <1>3 DEF Events
  <2>2. event[e].n \in 0..MaxEvents /\ event[e].from \in Emitters
    BY <1>2 DEF Events
  <2>3. event[e].n + 1 \in 0..MaxEvents
    BY <2>2, <1>2, BusAssumption
  <2> QED
    BY <2>1, <2>2, <2>3 DEF Events
<1>5. event' \in [Emitters -> Events]
  BY <1>1, <1>3, <1>4 DEF TypeOK
<1>6. /\ at' \in [Emitters -> {"idle", "lock", "send"}]
      /\ at'[e] = "lock"
      /\ \A f \in Emitters \ {e} : at'[f] = at[f]
  BY DEF Emit, TypeOK
<1>7. TypeOK'
  BY <1>5, <1>6 DEF Emit, TypeOK, busVars, clientVars
<1>8. /\ \A s \in Subscribers : Seen(s)' = Seen(s)
      /\ \A s \in Subscribers : \A ev : IsSeen(s, ev)' <=> IsSeen(s, ev)
  BY DEF Emit, Seen, IsSeen, clientVars
<1>9. MapIsOpen' /\ NeverPanics' /\ LeftIsInMap'
  BY <1>2, <1>6 DEF Emit, MapIsOpen, NeverPanics, LeftIsInMap, busVars
<1>10. FromIsEmitter'
  BY <1>3, <1>4 DEF FromIsEmitter
<1>11. LookedAt'
  BY <1>3, <1>6, <1>8 DEF Emit, LookedAt, Wants, TypeOK, busVars
<1>12. Behind'
  <2> SUFFICES ASSUME NEW s \in Subscribers, NEW i \in 1..Len(Seen(s)),
                      NEW ev, ev = Seen(s)[i]
               PROVE  /\ ev.n <= event'[ev.from].n
                      /\ Pending(ev.from, s)' => ev.n < event'[ev.from].n
    BY <1>8 DEF Behind
  <2>1. ev \in Events /\ ev.from \in Emitters /\ ev.n \in Nat
    BY SeenType
  <2>2. /\ ev.n <= event[ev.from].n
        /\ Pending(ev.from, s) => ev.n < event[ev.from].n
    BY DEF Behind
  <2>3. CASE ev.from = e
    BY <2>1, <2>2, <2>3, <1>2, <1>4 DEF Events
  <2>4. CASE ev.from # e
    BY <2>1, <2>2, <2>4, <1>3, <1>6 DEF Pending, Emit
  <2> QED
    BY <2>3, <2>4
<1>13. Ordered'
  BY <1>8 DEF Ordered
<1> QED
  BY <1>7, <1>9, <1>10, <1>11, <1>12, <1>13

LEMMA EnterEmitPreserves ==
  ASSUME BusInv, NEW e \in Emitters, EnterEmit(e)
  PROVE  BusInv'
<1> USE DEF BusInv
<1>1. TypeOK'
  BY DEF EnterEmit, TypeOK, busVars, clientVars
<1>2. /\ \A s \in Subscribers : Seen(s)' = Seen(s)
      /\ \A s \in Subscribers : \A ev : IsSeen(s, ev)' <=> IsSeen(s, ev)
  BY DEF EnterEmit, Seen, IsSeen, clientVars
<1>3. /\ \A f \in Emitters \ {e} : at'[f] = at[f] /\ left'[f] = left[f]
      /\ at'[e] # "lock"
      /\ at'[e] = "send" => left'[e] = subscribers
      /\ at'[e] # "send" => left'[e] = {}
  BY DEF EnterEmit, TypeOK, LeftIsInMap
<1>4. MapIsOpen' /\ NeverPanics' /\ FromIsEmitter'
  BY DEF EnterEmit, MapIsOpen, NeverPanics, FromIsEmitter, busVars
<1>5. LeftIsInMap'
  BY <1>3 DEF LeftIsInMap, EnterEmit, busVars
<1>6. LookedAt'
  <2> SUFFICES ASSUME NEW f \in Emitters, NEW s \in subscribers,
                      at'[f] = "send", s \notin left'[f], Wants(s, event[f])
               PROVE  IsSeen(s, event[f]) \/ event[f] \in dropped[s]
    BY <1>2 DEF LookedAt, EnterEmit, Wants, busVars, TypeOK
  <2>1. f # e /\ at[f] = "send" /\ s \notin left[f]
    BY <1>3 DEF EnterEmit
  <2> QED
    BY <2>1 DEF LookedAt
<1>7. Behind'
  <2>1. \A f \in Emitters, s \in Subscribers : Pending(f, s)' => Pending(f, s)
    BY <1>3 DEF Pending, EnterEmit
  <2> QED
    BY <1>2, <2>1, SeenType DEF Behind, EnterEmit
<1>8. Ordered'
  BY <1>2 DEF Ordered
<1> QED
  BY <1>1, <1>4, <1>5, <1>6, <1>7, <1>8

LEMMA LeaveEmitPreserves ==
  ASSUME BusInv, NEW e \in Emitters, LeaveEmit(e)
  PROVE  BusInv'
<1> USE DEF BusInv
<1>1. TypeOK'
  BY DEF LeaveEmit, TypeOK, busVars, clientVars
<1>2. /\ \A s \in Subscribers : Seen(s)' = Seen(s)
      /\ \A s \in Subscribers : \A ev : IsSeen(s, ev)' <=> IsSeen(s, ev)
  BY DEF LeaveEmit, Seen, IsSeen, clientVars
<1>3. /\ \A f \in Emitters \ {e} : at'[f] = at[f]
      /\ at'[e] = "idle"
  BY DEF LeaveEmit, TypeOK
<1>4. MapIsOpen' /\ NeverPanics' /\ FromIsEmitter' /\ LeftIsInMap'
  BY <1>3 DEF LeaveEmit, MapIsOpen, NeverPanics, FromIsEmitter, LeftIsInMap, busVars
<1>5. LookedAt'
  <2> SUFFICES ASSUME NEW f \in Emitters, NEW s \in subscribers,
                      at'[f] = "send", s \notin left'[f], Wants(s, event[f])
               PROVE  IsSeen(s, event[f]) \/ event[f] \in dropped[s]
    BY <1>2 DEF LookedAt, LeaveEmit, Wants, busVars, TypeOK
  <2>1. f # e /\ at[f] = "send" /\ s \notin left[f]
    BY <1>3 DEF LeaveEmit
  <2> QED
    BY <2>1 DEF LookedAt
<1>6. Behind'
  <2>1. \A f \in Emitters, s \in Subscribers : Pending(f, s)' => Pending(f, s)
    BY <1>3 DEF Pending, LeaveEmit
  <2> QED
    BY <1>2, <2>1, SeenType DEF Behind, LeaveEmit
<1>7. Ordered'
  BY <1>2 DEF Ordered
<1> QED
  BY <1>1, <1>4, <1>5, <1>6, <1>7

LEMMA EmitToPreserves ==
  ASSUME BusInv, NEW e \in Emitters, NEW s \in Subscribers, EmitTo(e, s)
  PROVE  BusInv'
<1> USE DEF BusInv
<1> DEFINE ev == event[e]
<1>1. /\ at[e] = "send" /\ s \in left[e] /\ s \in subscribers /\ channel[s] = "open"
      /\ ev \in Events /\ ev.from = e /\ event' = event /\ at' = at
      /\ UNCHANGED <<subscribers, closed, filter, channel, waiting, cancels, got>>
  BY DEF EmitTo, LeftIsInMap, MapIsOpen, TypeOK, FromIsEmitter, busVars, clientVars
<1>2. /\ left' \in [Emitters -> SUBSET Subscribers]
      /\ left'[e] = left[e] \ {s}
      /\ \A f \in Emitters \ {e} : left'[f] = left[f]
  BY DEF EmitTo, TypeOK
<1>3. panicked' = panicked
  BY <1>1 DEF EmitTo, Send
<1>4. \/ /\ Wants(s, ev) /\ Len(queue[s]) < Capacity
         /\ queue' = [queue EXCEPT ![s] = Append(@, ev)] /\ dropped' = dropped
      \/ /\ Wants(s, ev) /\ queue' = queue
         /\ dropped' = [dropped EXCEPT ![s] = @ \cup {ev}]
      \/ ~Wants(s, ev) /\ queue' = queue /\ dropped' = dropped
  BY <1>1 DEF EmitTo, Send
<1>5. dropped' \in [Subscribers -> SUBSET Events]
  BY <1>1, <1>4 DEF TypeOK
<1>6. /\ queue' \in [Subscribers -> Seq(Events)]
      /\ \A r \in Subscribers : Len(queue'[r]) <= Capacity
  <2>1. CASE queue' = queue
    BY <2>1 DEF TypeOK
  <2>2. CASE /\ Len(queue[s]) < Capacity
             /\ queue' = [queue EXCEPT ![s] = Append(@, ev)]
    <3>1. /\ queue[s] \in Seq(Events) /\ Append(queue[s], ev) \in Seq(Events)
          /\ Len(Append(queue[s], ev)) = Len(queue[s]) + 1
      BY <1>1, AppendProperties DEF TypeOK
    <3>2. Len(queue[s]) + 1 <= Capacity
      BY <2>2, <3>1, LenProperties, BusAssumption
    <3> QED
      BY <2>2, <3>1, <3>2 DEF TypeOK
  <2> QED
    BY <1>4, <2>1, <2>2
<1>7. TypeOK'
  BY <1>1, <1>2, <1>3, <1>5, <1>6 DEF TypeOK
<1>8. MapIsOpen' /\ NeverPanics' /\ FromIsEmitter' /\ LeftIsInMap'
  BY <1>1, <1>2, <1>3 DEF MapIsOpen, NeverPanics, FromIsEmitter, LeftIsInMap
<1>9. \A r \in Subscribers : queue'[r] = queue[r] => Seen(r)' = Seen(r)
  BY <1>1 DEF Seen
<1>10. \A r \in Subscribers \ {s} : Seen(r)' = Seen(r)
  BY <1>4, <1>9 DEF TypeOK
<1>11. \A r \in Subscribers : \A x \in dropped[r] : x \in dropped'[r]
  BY <1>4 DEF TypeOK
<1>12. \A f \in Emitters, r \in Subscribers :
         Pending(f, r)' => Pending(f, r) /\ ~(f = e /\ r = s)
  BY <1>1, <1>2 DEF Pending
<1>13. CASE Seen(s)' = Seen(s) /\ (Wants(s, ev) => ev \in dropped'[s])
  <2>1. \A r \in Subscribers : Seen(r)' = Seen(r)
    BY <1>10, <1>13
  <2>2. LookedAt'
    <3> SUFFICES ASSUME NEW f \in Emitters, NEW r \in subscribers,
                        at[f] = "send", r \notin left'[f], Wants(r, event[f])
                 PROVE  IsSeen(r, event[f])' \/ event[f] \in dropped'[r]
      BY <1>1 DEF LookedAt, Wants
    <3>1. r \in Subscribers /\ event' = event
      BY <1>1 DEF TypeOK
    <3>2. CASE f = e /\ r = s
      BY <3>2, <1>13
    <3>3. CASE ~(f = e /\ r = s)
      BY <3>1, <3>3, <2>1, <1>2, <1>11 DEF LookedAt, IsSeen
    <3> QED
      BY <3>2, <3>3
  <2>3. Behind' /\ Ordered'
    BY <2>1, <1>1, <1>12, SeenType DEF Behind, Ordered
  <2> QED
    BY <1>7, <1>8, <2>2, <2>3
<1>14. CASE queue' = [queue EXCEPT ![s] = Append(@, ev)] /\ Wants(s, ev)
  <2> DEFINE m == Len(Seen(s))
  <2>1. /\ m \in Nat /\ Len(Seen(s)') = m + 1 /\ Seen(s)'[m + 1] = ev
        /\ \A i \in 1..m : Seen(s)'[i] = Seen(s)[i]
    <3>1. queue'[s] = Append(queue[s], ev) /\ got' = got
      BY <1>14, <1>1 DEF TypeOK
    <3>2. Seen(s)' = got[s] \o Append(queue[s], ev)
      BY <3>1 DEF Seen
    <3>3. got[s] \in Seq(Events) /\ queue[s] \in Seq(Events) /\ m \in Nat
      BY SeenType
    <3>4. m = Len(got[s] \o queue[s])
      BY DEF Seen
    <3>5. /\ Len(got[s] \o Append(queue[s], ev)) = Len(got[s] \o queue[s]) + 1
          /\ (got[s] \o Append(queue[s], ev))[Len(got[s] \o queue[s]) + 1] = ev
          /\ \A i \in 1..Len(got[s] \o queue[s]) :
               (got[s] \o Append(queue[s], ev))[i] = (got[s] \o queue[s])[i]
      <4> DEFINE g == got[s]
                 q == queue[s]
      <4>1. ev \in Events /\ g \in Seq(Events) /\ q \in Seq(Events)
        BY <1>1, <3>3
      <4> HIDE DEF ev, g, q
      <4>2. /\ Len(g \o Append(q, ev)) = Len(g \o q) + 1
            /\ (g \o Append(q, ev))[Len(g \o q) + 1] = ev
            /\ \A i \in 1..Len(g \o q) : (g \o Append(q, ev))[i] = (g \o q)[i]
        BY <4>1, SendExtendsSeen
      <4> QED
        BY <4>2 DEF g, q
    <3> HIDE DEF m
    <3> QED
      BY <3>2, <3>3, <3>4, <3>5 DEF Seen
  <2>2. \A i \in 1..Len(Seen(s)') : i \in 1..m \/ i = m + 1
    BY <2>1
  <2>3. LookedAt'
    <3> SUFFICES ASSUME NEW f \in Emitters, NEW r \in subscribers,
                        at[f] = "send", r \notin left'[f], Wants(r, event[f])
                 PROVE  IsSeen(r, event[f])' \/ event[f] \in dropped'[r]
      BY <1>1 DEF LookedAt, Wants
    <3>1. r \in Subscribers /\ event' = event
      BY <1>1 DEF TypeOK
    <3>2. CASE f = e /\ r = s
      BY <3>1, <3>2, <2>1 DEF IsSeen
    <3>3. CASE ~(f = e /\ r = s)
      <4>1. IsSeen(r, event[f]) \/ event[f] \in dropped[r]
        BY <3>3, <1>2 DEF LookedAt
      <4>2. CASE r = s
        BY <4>1, <4>2, <3>1, <2>1, <1>11 DEF IsSeen
      <4>3. CASE r # s
        BY <4>1, <4>3, <3>1, <1>10, <1>11 DEF IsSeen
      <4> QED
        BY <4>2, <4>3
    <3> QED
      BY <3>2, <3>3
  <2>4. ASSUME NEW i \in 1..m
        PROVE  /\ Seen(s)[i].from \in Emitters
               /\ Seen(s)[i].n <= event[Seen(s)[i].from].n
               /\ Pending(Seen(s)[i].from, s) => Seen(s)[i].n < event[Seen(s)[i].from].n
               /\ Seen(s)[i].from = e => Seen(s)[i].n < ev.n
    BY <1>1, SeenType DEF Behind, Pending
  <2>5. Behind'
    <3> SUFFICES ASSUME NEW r \in Subscribers, NEW i \in 1..Len(Seen(r)'),
                        NEW x, x = Seen(r)'[i]
                 PROVE  /\ x.n <= event[x.from].n
                        /\ Pending(x.from, r)' => x.n < event[x.from].n
      BY <1>1 DEF Behind
    <3>1. CASE r # s
      BY <3>1, <1>10, <1>12, SeenType DEF Behind
    <3>2. CASE r = s /\ i \in 1..m
      BY <3>2, <2>1, <2>4, <1>12
    <3>3. CASE r = s /\ i = m + 1
      BY <3>3, <2>1, <1>1, <1>12 DEF Events
    <3> QED
      BY <2>2, <3>1, <3>2, <3>3
  <2>6. Ordered'
    <3> SUFFICES ASSUME NEW r \in Subscribers,
                        NEW i \in 1..Len(Seen(r)'), NEW j \in 1..Len(Seen(r)'),
                        i < j, Seen(r)'[i].from = Seen(r)'[j].from
                 PROVE  Seen(r)'[i].n < Seen(r)'[j].n
      BY DEF Ordered
    <3>1. CASE r # s
      BY <3>1, <1>10 DEF Ordered
    <3>2. CASE r = s /\ j \in 1..m
      BY <3>2, <2>1 DEF Ordered
    <3>3. CASE r = s /\ j = m + 1
      <4>1. i \in 1..m
        BY <3>3, <2>1
      <4> QED
        BY <3>3, <4>1, <2>1, <2>4, <1>1
    <3> QED
      BY <2>2, <3>1, <3>2, <3>3
  <2> QED
    BY <1>7, <1>8, <2>3, <2>5, <2>6
<1> QED
  <2>1. CASE Wants(s, ev) /\ queue' = queue /\ dropped' = [dropped EXCEPT ![s] = @ \cup {ev}]
    <3>1. ev \in dropped'[s]
      BY <2>1 DEF TypeOK
    <3> QED
      BY <2>1, <3>1, <1>9, <1>13
  <2>2. CASE ~Wants(s, ev) /\ queue' = queue
    BY <2>2, <1>9, <1>13
  <2> QED
    BY <2>1, <2>2, <1>4, <1>14

-----------------------------------------------------------------------------
\* The steps of the clients, and of the owner of the bus.

LEMMA AskToWritePreserves ==
  ASSUME BusInv, NEW who \in Subscribers \cup {Owner}, AskToWrite(who),
         cancels' \in [Subscribers -> 0..MaxCancels]
  PROVE  BusInv'
<1>1. TypeOK'
  BY DEF AskToWrite, BusInv, TypeOK, busVars, emitVars
<1>2. \A s \in Subscribers : Seen(s)' = Seen(s)
  BY DEF AskToWrite, Seen
<1> QED
  BY <1>1, <1>2, SeenUnchanged DEF AskToWrite, busVars

LEMMA ReceivePreserves ==
  ASSUME BusInv, NEW s \in Subscribers, Receive(s)
  PROVE  BusInv'
<1>1. /\ queue[s] \in Seq(Events) /\ got[s] \in Seq(Events) /\ queue[s] # <<>>
      /\ queue' = [queue EXCEPT ![s] = Tail(@)]
      /\ got' = [got EXCEPT ![s] = Append(@, Head(queue[s]))]
  BY DEF Receive, BusInv, TypeOK
<1>2. /\ Tail(queue[s]) \in Seq(Events) /\ Len(Tail(queue[s])) = Len(queue[s]) - 1
      /\ Append(got[s], Head(queue[s])) \in Seq(Events)
      /\ Len(queue[s]) \in Nat
  BY <1>1
<1>3. TypeOK'
  <2>1. queue' \in [Subscribers -> Seq(Events)] /\ got' \in [Subscribers -> Seq(Events)]
    BY <1>1, <1>2 DEF BusInv, TypeOK
  <2>2. \A r \in Subscribers : Len(queue'[r]) <= Capacity
    BY <1>1, <1>2, BusAssumption DEF BusInv, TypeOK
  <2> QED
    BY <2>1, <2>2 DEF Receive, BusInv, TypeOK, busVars, emitVars
<1>4. \A r \in Subscribers : Seen(r)' = Seen(r)
  <2> SUFFICES ASSUME NEW r \in Subscribers PROVE Seen(r)' = Seen(r)
    OBVIOUS
  <2>1. CASE r = s
    <3>1. queue'[s] = Tail(queue[s]) /\ got'[s] = Append(got[s], Head(queue[s]))
      BY <1>1 DEF BusInv, TypeOK
    <3>2. Append(got[s], Head(queue[s])) \o Tail(queue[s]) = got[s] \o queue[s]
      BY <1>1, ReceiveKeepsSeen
    <3> QED
      BY <2>1, <3>1, <3>2 DEF Seen
  <2>2. CASE r # s
    BY <2>2, <1>1 DEF Seen, BusInv, TypeOK
  <2> QED
    BY <2>1, <2>2
<1> QED
  BY <1>3, <1>4, SeenUnchanged DEF Receive, busVars

\* Whoever writes is alone: no emitter has a subscription to look at.
LEMMA WriterIsAlone ==
  ASSUME BusInv, NEW who, Write(who),
         subscribers' \subseteq Subscribers,
         channel' \in [Subscribers -> {"none", "open", "closed"}],
         filter' \in [Subscribers -> SUBSET Kinds],
         closed' \in BOOLEAN, panicked' = panicked, cancels' = cancels, MapIsOpen'
  PROVE  BusInv'
<1> USE DEF BusInv
<1>1. /\ \A e \in Emitters : at[e] # "send" /\ left[e] = {}
      /\ UNCHANGED <<queue, at, event, left, got, dropped>>
      /\ waiting' \subseteq waiting
  BY DEF Write, ReadersAreOut, LeftIsInMap, emitVars
<1>2. TypeOK' /\ NeverPanics'
  BY <1>1 DEF TypeOK, NeverPanics
<1>3. FromIsEmitter' /\ LeftIsInMap' /\ LookedAt'
  BY <1>1 DEF FromIsEmitter, LeftIsInMap, LookedAt
<1>4. \A s \in Subscribers : Seen(s)' = Seen(s)
  BY <1>1 DEF Seen
<1>5. Behind' /\ Ordered'
  BY <1>1, <1>4 DEF Behind, Ordered, Pending
<1> QED
  BY <1>2, <1>3, <1>5

LEMMA SubscribePreserves ==
  ASSUME BusInv, NEW s \in Subscribers, Subscribe(s)
  PROVE  BusInv'
<1> USE DEF BusInv
<1>1. Write(s) /\ channel[s] = "none" /\ UNCHANGED <<closed, panicked, cancels>>
  BY DEF Subscribe
<1>2. filter' \in [Subscribers -> SUBSET Kinds]
  BY DEF Subscribe, TypeOK
<1>3. /\ subscribers' \subseteq Subscribers
      /\ channel' \in [Subscribers -> {"none", "open", "closed"}]
      /\ MapIsOpen'
  <2>1. s \notin subscribers
    BY <1>1 DEF MapIsOpen
  <2>2. CASE closed
    BY <2>1, <2>2 DEF Subscribe, TypeOK, MapIsOpen
  <2>3. CASE ~closed
    <3>1. /\ channel' = [channel EXCEPT ![s] = "open"]
          /\ subscribers' = subscribers \cup {s}
      BY <2>3 DEF Subscribe
    <3> QED
      BY <2>1, <3>1 DEF TypeOK, MapIsOpen
  <2> QED
    BY <2>2, <2>3
<1> QED
  BY <1>1, <1>2, <1>3, WriterIsAlone DEF TypeOK

\* Only channels of the map are closed, so none is closed twice.
LEMMA CloseAllIsSafe ==
  ASSUME BusInv, NEW subs \in SUBSET subscribers, CloseAll(subs),
         subscribers' = subscribers \ subs
  PROVE  /\ panicked' = panicked
         /\ channel' \in [Subscribers -> {"none", "open", "closed"}]
         /\ MapIsOpen'
<1> USE DEF BusInv
<1>1. \A s \in subs : s \in Subscribers /\ channel[s] = "open"
  BY DEF MapIsOpen, TypeOK
<1>2. panicked' = panicked
  BY <1>1 DEF CloseAll, TypeOK
<1>3. channel' = [s \in Subscribers |-> IF s \in subs THEN "closed" ELSE channel[s]]
  BY DEF CloseAll
<1> QED
  BY <1>1, <1>2, <1>3 DEF MapIsOpen, TypeOK

LEMMA CancelPreserves ==
  ASSUME BusInv, NEW s \in Subscribers, Cancel(s)
  PROVE  BusInv'
<1>1. /\ Write(s) /\ UNCHANGED <<closed, filter, cancels>>
      /\ subscribers' = subscribers \ (subscribers \cap {s})
      /\ CloseAll(subscribers \cap {s})
  BY DEF Cancel
<1>2. /\ panicked' = panicked
      /\ channel' \in [Subscribers -> {"none", "open", "closed"}]
      /\ MapIsOpen'
  BY <1>1, CloseAllIsSafe
<1> QED
  BY <1>1, <1>2, WriterIsAlone DEF BusInv, TypeOK

LEMMA ClosePreserves ==
  ASSUME BusInv, Close
  PROVE  BusInv'
<1>1. /\ Write(Owner) /\ closed' = TRUE /\ UNCHANGED <<filter, cancels>>
      /\ subscribers' = subscribers \ subscribers
      /\ CloseAll(subscribers)
  BY DEF Close
<1>2. /\ panicked' = panicked
      /\ channel' \in [Subscribers -> {"none", "open", "closed"}]
      /\ MapIsOpen'
  BY <1>1, CloseAllIsSafe
<1> QED
  BY <1>1, <1>2, WriterIsAlone DEF BusInv, TypeOK

-----------------------------------------------------------------------------

LEMMA InvNext == BusInv /\ [Next]_vars => BusInv'
<1> SUFFICES ASSUME BusInv, [Next]_vars PROVE BusInv'
  OBVIOUS
<1>1. ASSUME NEW e \in Emitters, Emit(e) PROVE BusInv'
  BY <1>1, EmitPreserves
<1>2. ASSUME NEW e \in Emitters, EmitStep(e) PROVE BusInv'
  BY <1>2, EnterEmitPreserves, EmitToPreserves, LeaveEmitPreserves DEF EmitStep
<1>3. ASSUME NEW s \in Subscribers, ClientStep(s) PROVE BusInv'
  <2>1. CASE CallSubscribe(s)
    BY <2>1, AskToWritePreserves DEF CallSubscribe, BusInv, TypeOK
  <2>2. CASE CallCancel(s)
    <3>1. cancels' \in [Subscribers -> 0..MaxCancels]
      BY <2>2, BusAssumption DEF CallCancel, BusInv, TypeOK
    <3> QED
      BY <2>2, <3>1, AskToWritePreserves DEF CallCancel
  <2>3. CASE Receive(s)
    BY <2>3, ReceivePreserves
  <2> QED
    BY <1>3, <2>1, <2>2, <2>3 DEF ClientStep
<1>4. CASE CallClose
  BY <1>4, AskToWritePreserves DEF CallClose, BusInv, TypeOK
<1>5. CASE WriteStep
  BY <1>5, ClosePreserves, SubscribePreserves, CancelPreserves DEF WriteStep
<1>6. CASE UNCHANGED vars
  <2>1. TypeOK'
    BY <1>6 DEF BusInv, TypeOK, vars, busVars, emitVars, clientVars
  <2>2. \A s \in Subscribers : Seen(s)' = Seen(s)
    BY <1>6 DEF Seen, vars, clientVars
  <2> QED
    BY <1>6, <2>1, <2>2, SeenUnchanged DEF vars, busVars
<1> QED
  BY <1>1, <1>2, <1>3, <1>4, <1>5, <1>6 DEF Next

\* The invariant holds in every reachable state of the bus.
THEOREM BusInductive == Spec => []BusInv
<1>1. Init => BusInv
  BY BusInit
<1>2. BusInv /\ [Next]_vars => BusInv'
  BY InvNext
<1> QED
  BY <1>1, <1>2, PTL DEF Spec

\* Each variable keeps its type; no channel holds more than its capacity.
THEOREM BusTypeCorrect == Spec => []TypeOK
<1>1. BusInv => TypeOK
  BY DEF BusInv
<1> QED
  BY <1>1, BusInductive, PTL

\* No emitter sends on a closed channel, and no channel is closed twice,
\* whoever cancels or closes the bus while others emit.
THEOREM BusNeverPanics == Spec => []NeverPanics
<1>1. BusInv => NeverPanics
  BY DEF BusInv
<1> QED
  BY <1>1, BusInductive, PTL

\* What a client has seen is what it received or has in its channel.
LEMMA SeenIsHeld ==
  ASSUME TypeOK, NEW s \in Subscribers, NEW ev, IsSeen(s, ev)
  PROVE  ev \in Range(got[s]) \cup Range(queue[s])
<1>1. /\ got[s] \in Seq(Events) /\ queue[s] \in Seq(Events)
      /\ Len(got[s]) \in Nat /\ Len(queue[s]) \in Nat
  BY SeenType, LenProperties
<1>2. PICK i \in 1..Len(Seen(s)) : Seen(s)[i] = ev
  BY DEF IsSeen
<1>3. /\ Len(Seen(s)) = Len(got[s]) + Len(queue[s])
      /\ Seen(s)[i] = IF i <= Len(got[s]) THEN got[s][i] ELSE queue[s][i - Len(got[s])]
  BY <1>1, <1>2, ConcatProperties DEF Seen
<1>4. CASE i <= Len(got[s])
  BY <1>1, <1>2, <1>3, <1>4, RangeEquality
<1>5. CASE ~(i <= Len(got[s]))
  <2> DEFINE a == Len(got[s])
             b == Len(queue[s])
  <2>2. i - a \in 1..b
    <3>1. a \in Nat /\ b \in Nat /\ i \in 1..(a + b) /\ ~(i <= a)
      BY <1>1, <1>2, <1>3, <1>5
    <3> HIDE DEF a, b
    <3> QED
      BY <3>1
  <2>3. queue[s][i - Len(got[s])] = ev
    BY <1>2, <1>3, <1>5, Zenon
  <2>1. i - Len(got[s]) \in 1..Len(queue[s]) /\ queue[s][i - Len(got[s])] = ev
    BY <2>2, <2>3
  <2> QED
    BY <1>1, <2>1, RangeEquality
<1> QED
  BY <1>4, <1>5

\* An Emit ends with every subscriber that wants its event having received
\* it, having it in its channel, or having had its channel full.
THEOREM EmitsReachSubscribers == Spec => []EmitReachesEverySubscriber
<1>1. BusInv => EmitReachesEverySubscriber
  <2> SUFFICES ASSUME BusInv, NEW e \in Emitters, NEW s \in subscribers,
                      at[e] = "send", left[e] = {}, Wants(s, event[e])
               PROVE  event[e] \in Range(got[s]) \cup Range(queue[s]) \cup dropped[s]
    BY DEF EmitReachesEverySubscriber
  <2>1. s \in Subscribers /\ s \notin left[e] /\ TypeOK
    BY DEF BusInv, TypeOK
  <2>2. IsSeen(s, event[e]) \/ event[e] \in dropped[s]
    BY <2>1 DEF BusInv, LookedAt
  <2> QED
    BY <2>1, <2>2, SeenIsHeld
<1> QED
  BY <1>1, BusInductive, PTL

\* Subscribers see the events of each emitter in its order, and none twice.
THEOREM EventsInOrder == Spec => []InOrderOfEmission
<1>1. BusInv => InOrderOfEmission
  <2> SUFFICES ASSUME BusInv, NEW s \in Subscribers
               PROVE  \A i, j \in DOMAIN (got[s] \o queue[s]) :
                        i < j /\ (got[s] \o queue[s])[i].from = (got[s] \o queue[s])[j].from
                          => (got[s] \o queue[s])[i].n < (got[s] \o queue[s])[j].n
    BY DEF InOrderOfEmission
  <2>1. DOMAIN Seen(s) = 1..Len(Seen(s))
    BY SeenType, LenProperties DEF BusInv
  <2> QED
    BY <2>1 DEF BusInv, Ordered, Seen
<1> QED
  BY <1>1, BusInductive, PTL

-----------------------------------------------------------------------------
(***************************************************************************)
(* The interaction handler.                                                *)
(***************************************************************************)

\* A call in progress has the latest question, which has no outcome yet.
CallsAreCurrent ==
  \A a \in Askers : pc[a] # "idle" =>
    /\ question[a] = asked /\ asked \in Question!Questions
    /\ pending = asked
    /\ \A b \in Askers : pc[b] # "idle" => a = b
    /\ pc[a] = "answered" => question[a] \in shut

PendingHasACall ==
  pending # None => \E a \in Askers : pc[a] # "idle" /\ question[a] = pending

\* Whoever writes an answer writes it to the question he was shown.
AnswersAreOwn ==
  /\ \A q \in Question!Questions : answer[q] # None => answer[q] = q
  /\ \A u \in Responders : stage[u] # "idle" => shown[u] \in Question!Questions
  /\ \A u \in Responders : stage[u] = "close" => answer[shown[u]] # None

QuestionInv == /\ Question!TypeOK /\ CallsAreCurrent /\ PendingHasACall /\ AnswersAreOwn
       /\ Question!AnswersStayWithTheirQuestion

LEMMA QuestionInit == Question!Init => QuestionInv
<1> SUFFICES ASSUME Question!Init PROVE QuestionInv
  OBVIOUS
<1>1. Question!TypeOK
  <2>1. asked \in 0..MaxQuestions
    BY MCAssumption DEF Question!InteractionAssumption, Question!Init
  <2>2. shut \subseteq {q \in Question!Questions : answer[q] # None}
    BY DEF Question!Init
  <2>3. /\ pc \in [Askers -> {"idle", "waiting", "answered", "cancelled"}]
        /\ stage \in [Responders -> {"idle", "write", "close"}]
    BY DEF Question!Init
  <2> QED
    BY <2>1, <2>2, <2>3 DEF Question!Init, Question!TypeOK
<1>2. CallsAreCurrent /\ PendingHasACall /\ AnswersAreOwn /\ Question!AnswersStayWithTheirQuestion
  BY DEF Question!Init, CallsAreCurrent, PendingHasACall, AnswersAreOwn,
         Question!AnswersStayWithTheirQuestion
<1> QED
  BY <1>1, <1>2 DEF QuestionInv

LEMMA HandlePreserves ==
  ASSUME QuestionInv, NEW a \in Askers, Question!HandleInteraction(a)
  PROVE  QuestionInv'
<1>1. asked' \in Question!Questions /\ asked' # None
  BY MCAssumption DEF Question!InteractionAssumption, QuestionInv, Question!TypeOK,
                      Question!HandleInteraction, Question!Questions
<1>2. \A b \in Askers : pc[b] = "idle"
  BY <1>1, MCAssumption DEF Question!InteractionAssumption, QuestionInv, CallsAreCurrent,
                            Question!HandleInteraction, Question!Questions
<1>3. Question!TypeOK'
  BY <1>1 DEF QuestionInv, Question!TypeOK, Question!HandleInteraction, Question!Questions,
              Question!responderVars
<1>4. CallsAreCurrent' /\ PendingHasACall'
  BY <1>1, <1>2 DEF QuestionInv, Question!TypeOK, CallsAreCurrent, PendingHasACall,
                    Question!HandleInteraction
<1>5. AnswersAreOwn' /\ Question!AnswersStayWithTheirQuestion'
  BY DEF QuestionInv, AnswersAreOwn, Question!AnswersStayWithTheirQuestion,
         Question!HandleInteraction, Question!responderVars
<1> QED
  BY <1>3, <1>4, <1>5 DEF QuestionInv

LEMMA SeePreserves ==
  ASSUME QuestionInv, NEW a \in Askers, Question!SeeAnswer(a) \/ Question!SeeContextDone(a)
  PROVE  QuestionInv'
<1>1. /\ UNCHANGED <<Question!handlerVars, question, contextDone, outcome,
                      Question!responderVars, questionPanic>>
      /\ pc[a] = "waiting"
      /\ \/ pc' = [pc EXCEPT ![a] = "answered"] /\ question[a] \in shut
         \/ pc' = [pc EXCEPT ![a] = "cancelled"]
  BY DEF Question!SeeAnswer, Question!SeeContextDone
<1>2. Question!TypeOK'
  BY <1>1 DEF QuestionInv, Question!TypeOK, Question!handlerVars, Question!responderVars
<1>3. CallsAreCurrent'
  BY <1>1 DEF QuestionInv, Question!TypeOK, CallsAreCurrent, Question!handlerVars
<1>4. PendingHasACall'
  BY <1>1 DEF QuestionInv, Question!TypeOK, PendingHasACall, Question!handlerVars
<1>5. AnswersAreOwn' /\ Question!AnswersStayWithTheirQuestion'
  BY <1>1 DEF QuestionInv, AnswersAreOwn, Question!AnswersStayWithTheirQuestion,
              Question!handlerVars, Question!responderVars
<1> QED
  BY <1>2, <1>3, <1>4, <1>5 DEF QuestionInv

LEMMA CleanUpPreserves ==
  ASSUME QuestionInv, NEW a \in Askers, Question!CleanUp(a)
  PROVE  QuestionInv'
<1>1. /\ question[a] \in Question!Questions /\ pc[a] \in {"answered", "cancelled"}
      /\ \A b \in Askers : b # a => pc[b] = "idle"
      /\ pc[a] = "answered" => answer[question[a]] = question[a]
  BY DEF QuestionInv, Question!TypeOK, CallsAreCurrent, AnswersAreOwn, Question!CleanUp
<1>2. /\ Question!ReturnOf(a).kind = pc[a]
      /\ pc[a] = "answered" => Question!ReturnOf(a).answer = question[a]
      /\ Question!ReturnOf(a) \in [kind   : {"answered", "cancelled"},
                                  answer : Question!Questions \cup {None}]
  BY <1>1 DEF Question!ReturnOf
<1>3. Question!TypeOK'
  BY <1>1, <1>2 DEF QuestionInv, Question!TypeOK, Question!CleanUp, Question!responderVars
<1>4. CallsAreCurrent' /\ PendingHasACall'
  BY <1>1 DEF QuestionInv, Question!TypeOK, CallsAreCurrent, PendingHasACall, Question!CleanUp
<1>5. AnswersAreOwn'
  BY DEF QuestionInv, AnswersAreOwn, Question!CleanUp, Question!responderVars
<1>6. Question!AnswersStayWithTheirQuestion'
  BY <1>1, <1>2 DEF QuestionInv, Question!TypeOK, Question!AnswersStayWithTheirQuestion,
                    Question!CleanUp
<1> QED
  BY <1>3, <1>4, <1>5, <1>6 DEF QuestionInv

LEMMA ContextEndsPreserves ==
  ASSUME QuestionInv, NEW a \in Askers, Question!ContextEnds(a)
  PROVE  QuestionInv'
BY DEF QuestionInv, Question!TypeOK, CallsAreCurrent, PendingHasACall, AnswersAreOwn,
       Question!AnswersStayWithTheirQuestion, Question!ContextEnds, Question!handlerVars,
       Question!responderVars

LEMMA RespondPreserves ==
  ASSUME QuestionInv, NEW u \in Responders, Question!Respond(u)
  PROVE  QuestionInv'
<1>1. Question!TypeOK'
  BY DEF QuestionInv, Question!TypeOK, Question!Respond, Question!handlerVars, Question!askerVars
<1>2. CallsAreCurrent' /\ PendingHasACall' /\ Question!AnswersStayWithTheirQuestion'
  BY DEF QuestionInv, CallsAreCurrent, PendingHasACall, Question!AnswersStayWithTheirQuestion,
         Question!Respond, Question!handlerVars, Question!askerVars
<1>3. AnswersAreOwn'
  BY DEF QuestionInv, Question!TypeOK, AnswersAreOwn, Question!Respond, Question!handlerVars
<1> QED
  BY <1>1, <1>2, <1>3 DEF QuestionInv

LEMMA WriteAnswerPreserves ==
  ASSUME QuestionInv, NEW u \in Responders, Question!WriteAnswer(u)
  PROVE  QuestionInv'
<1>1. shown[u] \in Question!Questions /\ shown[u] # None
  BY MCAssumption DEF Question!InteractionAssumption, QuestionInv, AnswersAreOwn,
                      Question!WriteAnswer, Question!Questions
<1>2. Question!TypeOK'
  BY <1>1 DEF QuestionInv, Question!TypeOK, Question!WriteAnswer, Question!askerVars
<1>3. CallsAreCurrent' /\ PendingHasACall' /\ Question!AnswersStayWithTheirQuestion'
  BY DEF QuestionInv, CallsAreCurrent, PendingHasACall, Question!AnswersStayWithTheirQuestion,
         Question!WriteAnswer, Question!askerVars
<1>4. AnswersAreOwn'
  BY <1>1 DEF QuestionInv, Question!TypeOK, AnswersAreOwn, Question!WriteAnswer
<1> QED
  BY <1>2, <1>3, <1>4 DEF QuestionInv

LEMMA CloseRequestPreserves ==
  ASSUME QuestionInv, NEW u \in Responders, Question!CloseRequest(u)
  PROVE  QuestionInv'
<1>1. shown[u] \in Question!Questions /\ answer[shown[u]] # None
  BY DEF QuestionInv, AnswersAreOwn, Question!CloseRequest
<1>2. Question!TypeOK'
  BY <1>1 DEF QuestionInv, Question!TypeOK, Question!CloseRequest, Question!askerVars
<1>3. CallsAreCurrent' /\ PendingHasACall' /\ Question!AnswersStayWithTheirQuestion'
  BY DEF QuestionInv, CallsAreCurrent, PendingHasACall, Question!AnswersStayWithTheirQuestion,
         Question!CloseRequest, Question!askerVars
<1>4. AnswersAreOwn'
  BY DEF QuestionInv, Question!TypeOK, AnswersAreOwn, Question!CloseRequest
<1> QED
  BY <1>2, <1>3, <1>4 DEF QuestionInv

LEMMA PanicPreserves ==
  ASSUME QuestionInv, NEW u \in Responders, Question!CloseClosedRequest(u)
  PROVE  QuestionInv'
BY DEF QuestionInv, Question!TypeOK, CallsAreCurrent, PendingHasACall, AnswersAreOwn,
       Question!AnswersStayWithTheirQuestion, Question!CloseClosedRequest, Question!handlerVars,
       Question!askerVars, Question!responderVars

LEMMA QuestionStep == QuestionInv /\ [Question!Next]_(Question!vars) => QuestionInv'
<1> SUFFICES ASSUME QuestionInv, [Question!Next]_(Question!vars) PROVE QuestionInv'
  OBVIOUS
<1>1. CASE Question!Next
  BY <1>1, HandlePreserves, SeePreserves, CleanUpPreserves, ContextEndsPreserves,
     RespondPreserves, WriteAnswerPreserves, CloseRequestPreserves, PanicPreserves
     DEF Question!Next, Question!AskerStep, Question!ResponderStep
<1>2. CASE UNCHANGED Question!vars
  BY <1>2 DEF Question!vars, Question!handlerVars, Question!askerVars, Question!responderVars,
              QuestionInv, Question!TypeOK, CallsAreCurrent,
     PendingHasACall, AnswersAreOwn, Question!AnswersStayWithTheirQuestion
<1> QED
  BY <1>1, <1>2

\* The handler's bookkeeping is right in every reachable state.
THEOREM InteractionInductive == Question!Spec => []QuestionInv
BY QuestionInit, QuestionStep, PTL DEF Question!Spec

\* HandleInteraction and its clean-up: the handler is taken exactly while a
\* call is in it, so that a question that is over never blocks the next.
THEOREM HandlerIsTakenWhileAsking == Question!Spec => []Question!TakenWhileAsking
<1>1. QuestionInv => Question!TakenWhileAsking
  BY MCAssumption
     DEF Question!InteractionAssumption, QuestionInv, CallsAreCurrent, PendingHasACall,
         Question!TakenWhileAsking, Question!Questions
<1> QED
  BY <1>1, InteractionInductive, PTL

-----------------------------------------------------------------------------
(***************************************************************************)
(* AskPermission.  PermissionInvariant holds however calls overlap;        *)
(* InTurnInvariant strengthens it for a user who decides once about each   *)
(* call and calls that ask one after the other.                            *)
(***************************************************************************)

\* A request that was answered has a result; the pending one is of a call that
\* waits.
PermissionInvariant ==
  /\ Free!TypeOK
  /\ Free!PendingCallWaits
  /\ \A c \in resolved : result[c] # None

Quiet(c) == checking[c] \notin {"ask", "wait"}

\* No two calls ask or wait, and a call that waits is the pending one.  A
\* decision is stored only with the call it is about, which is then answered.
InTurnInvariant ==
  /\ PermissionInvariant
  /\ ended = {}
  /\ \A c, d \in Calls : c # d => Quiet(c) \/ Quiet(d)
  /\ \A c \in Calls : checking[c] = "wait" => request = c
  /\ \A c \in Calls : result[c] # None => c \in decided /\ result[c].about = c
  /\ Free!DecisionsStayWithTheirCall

LEMMA DecisionType ==
  ASSUME NEW c \in Calls, NEW allow \in BOOLEAN
  PROVE  /\ Free!Decision(c, allow) \in Free!Decisions
         /\ Free!Decision(c, allow) # None
         /\ Free!Decision(c, allow).about = c
BY MCAssumption DEF Free!Decision, Free!Decisions, Free!PermissionAssumption

\* A decision is given back only if there is one.
LEMMA ReturnKeepsType ==
  ASSUME Free!TypeOK, NEW c \in Calls, NEW d \in Free!Decisions, d # None, Free!Return(c, d)
  PROVE  /\ checking' \in [Calls -> {"idle", "ask", "wait", "returned"}]
         /\ told' \in [Calls -> Free!Decisions \cup {None}]
         /\ \A e \in Calls : checking'[e] = "returned" <=> told'[e] # None
         /\ checking'[c] = "returned"
         /\ \A e \in Calls : e # c => checking'[e] = checking[e]
BY DEF Free!Return, Free!TypeOK

LEMMA FreeInit == ASSUME Free!Init PROVE PermissionInvariant
BY MCAssumption DEF Free!Init, PermissionInvariant, Free!TypeOK, Free!PendingCallWaits,
                    Free!PermissionAssumption

LEMMA StoredType ==
  ASSUME Free!TypeOK, Free!Stored # None
  PROVE  /\ request # None /\ request \in Calls
         /\ Free!Stored \in Free!Decisions /\ Free!Stored = result[request]
BY DEF Free!Stored, Free!TypeOK

LEMMA FreeStep ==
  ASSUME PermissionInvariant, [Free!Next]_permissionVars
  PROVE  PermissionInvariant'
<1> USE MCAssumption DEF Free!PermissionAssumption
<1>1. CASE UNCHANGED permissionVars
  BY <1>1 DEF PermissionInvariant, Free!TypeOK, Free!PendingCallWaits, permissionVars
<1>2. ASSUME NEW c \in Calls, Free!Check(c) PROVE PermissionInvariant'
  <2>1. checking[c] = "idle" /\ request' = request /\ (request # None => request # c)
    BY <1>2 DEF Free!Check, PermissionInvariant, Free!PendingCallWaits
  <2>2. CASE Free!StoredFor(c)
    BY <1>2, <2>1, <2>2, ReturnKeepsType, StoredType
    DEF Free!Check, Free!StoredFor, PermissionInvariant, Free!TypeOK, Free!PendingCallWaits
  <2>3. CASE ~ Free!StoredFor(c) /\ ToolOf[c] \in Safe
    BY <1>2, <2>1, <2>3, ReturnKeepsType, DecisionType
    DEF Free!Check, PermissionInvariant, Free!TypeOK, Free!PendingCallWaits
  <2>4. CASE ~ Free!StoredFor(c) /\ ToolOf[c] \notin Safe
    BY <1>2, <2>1, <2>4 DEF Free!Check, PermissionInvariant, Free!TypeOK, Free!PendingCallWaits
  <2> QED BY <2>2, <2>3, <2>4
<1>3. ASSUME NEW c \in Calls, Free!Block(c) PROVE PermissionInvariant'
  <2>1. CASE Free!Stored # None
    BY <1>3, <2>1, ReturnKeepsType, StoredType
    DEF Free!Block, PermissionInvariant, Free!TypeOK, Free!PendingCallWaits
  <2>2. CASE Free!Stored = None
    BY <1>3, <2>2 DEF Free!Block, PermissionInvariant, Free!TypeOK, Free!PendingCallWaits
  <2> QED BY <2>1, <2>2
<1>4. ASSUME NEW c \in Calls, Free!Wake(c) PROVE PermissionInvariant'
  <2>1. result[c] \in Free!Decisions /\ result[c] # None
    BY <1>4 DEF Free!Wake, PermissionInvariant, Free!TypeOK
  <2> QED BY <1>4, <2>1, ReturnKeepsType
          DEF Free!Wake, PermissionInvariant, Free!TypeOK, Free!PendingCallWaits
<1>5. ASSUME NEW c \in Calls, Free!Leave(c) PROVE PermissionInvariant'
  BY <1>5, DecisionType, ReturnKeepsType
  DEF Free!Leave, PermissionInvariant, Free!TypeOK, Free!PendingCallWaits
<1>6. ASSUME NEW c \in Calls, Free!Cancel(c) PROVE PermissionInvariant'
  BY <1>6 DEF Free!Cancel, PermissionInvariant, Free!TypeOK, Free!PendingCallWaits
<1>7. ASSUME NEW c \in Calls, NEW allow \in BOOLEAN, Free!Respond(c, allow)
      PROVE  PermissionInvariant'
  <2>1. CASE request = None
    BY <1>7, <2>1 DEF Free!Respond, PermissionInvariant, Free!TypeOK, Free!PendingCallWaits
  <2>2. CASE request # None
    BY <1>7, <2>2, DecisionType DEF Free!Respond, PermissionInvariant, Free!TypeOK,
       Free!PendingCallWaits
  <2> QED BY <2>1, <2>2
<1> QED BY <1>1, <1>2, <1>3, <1>4, <1>5, <1>6, <1>7 DEF Free!Next

\* Calls in turn do what calls may do at any time, under the conditions they add.
LEMMA InTurnIsFree ==
  InTurn!Next =>
    \E c \in Calls :
      \/ Free!Check(c) /\ ~ Free!Busy
      \/ Free!Block(c) \/ Free!Wake(c) \/ Free!Leave(c)
      \/ \E allow \in BOOLEAN : Free!Respond(c, allow) /\ c \notin decided
BY DEF
   InTurn!Next, InTurn!Check, InTurn!Block, InTurn!Wake, InTurn!Leave, InTurn!Cancel,
   InTurn!Respond, InTurn!Return, InTurn!Busy, InTurn!Stored, InTurn!StoredFor,
   InTurn!WasAsked, InTurn!Decision, Free!Check, Free!Block, Free!Wake, Free!Leave,
   Free!Respond, Free!Return, Free!Busy, Free!Stored, Free!StoredFor, Free!WasAsked,
   Free!Decision

LEMMA InTurnInit == ASSUME Free!Init PROVE InTurnInvariant
BY FreeInit DEF Free!Init, InTurnInvariant, Quiet, Free!DecisionsStayWithTheirCall

\* Nobody but the call that asks or waits is pending.
LEMMA OthersAreNotPending ==
  ASSUME InTurnInvariant, NEW c \in Calls, ~ Quiet(c)
  PROVE  request = None \/ request = c
BY DEF InTurnInvariant, PermissionInvariant, Free!TypeOK, Free!PendingCallWaits, Quiet

LEMMA InTurnStep ==
  ASSUME InTurnInvariant, [InTurn!Next]_permissionVars
  PROVE  InTurnInvariant'
<1>0. PermissionInvariant /\ PermissionInvariant'
  BY FreeStep, InTurnIsFree DEF InTurnInvariant, Free!Next
<1>1. CASE UNCHANGED permissionVars
  BY <1>0, <1>1 DEF InTurnInvariant, Quiet, Free!DecisionsStayWithTheirCall, permissionVars
<1>2. ASSUME NEW c \in Calls, Free!Check(c), ~ Free!Busy PROVE InTurnInvariant'
  <2>1. \A d \in Calls : Quiet(d)
    BY <1>2 DEF Free!Check, Free!Busy, Quiet
  <2>2. request = None
    BY <1>0, <2>1 DEF PermissionInvariant, Free!TypeOK, Free!PendingCallWaits, Quiet
  <2>3. ~ Free!StoredFor(c)
    BY <2>2 DEF Free!StoredFor, Free!Stored
  <2>4. CASE ToolOf[c] \in Safe
    <3>1. /\ checking' = [checking EXCEPT ![c] = "returned"]
          /\ told' = [told EXCEPT ![c] = Free!Decision(c, TRUE)]
          /\ UNCHANGED <<request, result, ended, decided>>
      BY <1>2, <2>3, <2>4 DEF Free!Check, Free!Return
    <3>2. Free!DecisionsStayWithTheirCall'
      BY <3>1, DecisionType
      DEF InTurnInvariant, PermissionInvariant, Free!TypeOK, Free!DecisionsStayWithTheirCall
    <3>3. \A d \in Calls : checking'[d] # "wait" /\ Quiet(d)'
      BY <2>1, <3>1 DEF InTurnInvariant, PermissionInvariant, Free!TypeOK, Quiet
    <3> QED BY <1>0, <3>1, <3>2, <3>3 DEF InTurnInvariant
  <2>5. CASE ToolOf[c] \notin Safe
    BY <1>0, <1>2, <2>1, <2>2, <2>3, <2>5
    DEF Free!Check, InTurnInvariant, PermissionInvariant, Free!TypeOK, Quiet,
        Free!DecisionsStayWithTheirCall
  <2> QED BY <2>4, <2>5
<1>3. ASSUME NEW c \in Calls, Free!Block(c) PROVE InTurnInvariant'
  <2>1. request = None
    BY <1>0, <1>3, OthersAreNotPending
    DEF Free!Block, Quiet, PermissionInvariant, Free!PendingCallWaits
  <2>2. Free!Stored = None
    BY <2>1 DEF Free!Stored
  <2> QED BY <1>0, <1>3, <2>2
          DEF Free!Block, InTurnInvariant, PermissionInvariant, Free!TypeOK, Quiet,
              Free!DecisionsStayWithTheirCall
<1>4. ASSUME NEW c \in Calls, Free!Wake(c) PROVE InTurnInvariant'
  <2>1. result[c] # None /\ result[c].about = c
    BY <1>0, <1>4 DEF Free!Wake, InTurnInvariant, PermissionInvariant
  <2> QED BY <1>0, <1>4, <2>1
          DEF Free!Wake, Free!Return, InTurnInvariant, PermissionInvariant, Free!TypeOK, Quiet,
              Free!DecisionsStayWithTheirCall
<1>5. ASSUME NEW c \in Calls, Free!Leave(c) PROVE InTurnInvariant'
  BY <1>5 DEF Free!Leave, InTurnInvariant
<1>6. ASSUME NEW c \in Calls, NEW allow \in BOOLEAN, Free!Respond(c, allow), c \notin decided
      PROVE  InTurnInvariant'
  <2>1. checking[c] = "wait" /\ request = c
    BY <1>6 DEF Free!Respond, Free!WasAsked, InTurnInvariant
  <2>2. c # None
    BY MCAssumption DEF Free!PermissionAssumption
  <2> QED BY <1>0, <1>6, <2>1, <2>2, DecisionType
          DEF Free!Respond, InTurnInvariant, PermissionInvariant, Free!TypeOK, Quiet,
              Free!DecisionsStayWithTheirCall
<1> QED BY <1>1, <1>2, <1>3, <1>4, <1>5, <1>6, InTurnIsFree

PermissionInv ==
  /\ scope = "in turn" => InTurnInvariant
  /\ scope = "free" => PermissionInvariant

LEMMA PermissionInit == InTurn!Init => InTurnInvariant /\ PermissionInvariant
<1>1. InTurn!Init => Free!Init
  BY DEF InTurn!Init, Free!Init
<1> QED
  BY <1>1, InTurnInit, FreeInit

LEMMA PermissionStep ==
  PermissionInv /\ [MCNext]_allVars => PermissionInv'
<1> SUFFICES ASSUME PermissionInv, [MCNext]_allVars
             PROVE  PermissionInv'
  OBVIOUS
<1> USE DEF PermissionInv
<1>1. scope' = scope
  BY DEF MCNext, allVars
<1>2. CASE scope = "in turn"
  <2>1. [InTurn!Next]_permissionVars
    BY <1>2 DEF MCNext, allVars
  <2> QED
    BY <1>1, <1>2, <2>1, InTurnStep
<1>3. CASE scope = "free"
  <2>1. [Free!Next]_permissionVars
    BY <1>3 DEF MCNext, allVars
  <2> QED
    BY <1>1, <1>3, <2>1, FreeStep
<1> QED
  BY <1>1, <1>2, <1>3

LEMMA PermissionInvSuffices ==
  PermissionInv => /\ scope = "in turn" => InTurn!DecisionsStayWithTheirCall
                   /\ scope = "free" => Free!TypeOK /\ Free!PendingCallWaits
BY DEF PermissionInv, InTurnInvariant, PermissionInvariant,
       InTurn!DecisionsStayWithTheirCall, Free!DecisionsStayWithTheirCall

\* Whatever a behaviour of MCApplication is of, the invariants of questions and of
\* permissions hold.
LEMMA UserInductive == MCSpec => [](QuestionInv /\ PermissionInv)
<1>1. MCInit => QuestionInv /\ PermissionInv
  BY QuestionInit, PermissionInit DEF MCInit, PermissionInv
<1>2. [MCNext]_allVars => [Question!Next]_(Question!vars)
  BY DEF MCNext, allVars, questionVars, Question!vars, Question!handlerVars,
         Question!askerVars, Question!responderVars
<1>3. QuestionInv /\ PermissionInv /\ [MCNext]_allVars => (QuestionInv /\ PermissionInv)'
  BY <1>2, QuestionStep, PermissionStep
<1> QED
  BY <1>1, <1>3, PTL DEF MCSpec

\* Respond against HandleInteraction of reactor/interaction_handler.go: no question
\* gets another one's answer.
THEOREM AnswersStay == MCSpec => []AnswersStayWithTheirQuestion
<1>1. QuestionInv => AnswersStayWithTheirQuestion
  BY DEF QuestionInv, AnswersStayWithTheirQuestion
<1> QED
  BY <1>1, UserInductive, PTL

\* A call of tools/ask_permission.go that asks when no other does is told what was
\* decided about it, and however calls overlap no request stays pending for a call
\* that has left.
THEOREM DecisionsFindTheirCalls == MCSpec => []DecisionsFindTheirCall
<1>1. QuestionInv /\ PermissionInv => DecisionsFindTheirCall
  BY PermissionInvSuffices DEF QuestionInv, DecisionsFindTheirCall
<1> QED
  BY <1>1, UserInductive, PTL

-----------------------------------------------------------------------------
(***************************************************************************)
(* A streamed question, with channels of any size, any number of fragments *)
(* and of events of other runs.                                            *)
(***************************************************************************)

HasAnswer(s) == \E i \in DOMAIN s : s[i] = "answer"

\* TypeOK of AskStream, with what its bounded sequences are.
StreamTypes ==
  /\ asker \in {"asking", "check", "send", "close", "unsubscribe", "end", "ended"}
  /\ answered \in BOOLEAN
  /\ deltas \in 0..MaxDeltas /\ others \in 0..MaxOthers
  /\ forwarder \in {"select", "send", "drain", "close", "ended"}
  /\ held \in Stream!Fragments
  /\ eventOpen \in BOOLEAN /\ textOpen \in BOOLEAN
  /\ done = (asker = "ended")
  /\ returned \in BOOLEAN /\ cancelled \in BOOLEAN /\ crashed \in BOOLEAN /\ reading \in BOOLEAN
  /\ ctxDone = cancelled

Channels ==
  /\ eventCh \in Seq(Stream!Fragments) /\ Len(eventCh) <= StreamCapacity
  /\ textCh \in Seq(Stream!Fragments) /\ Len(textCh) <= StreamCapacity
  /\ received \in Seq(Stream!Fragments)

\* The asker is the one who unsubscribes.  Unless the caller cancels it closes
\* the text channel, too: the forwarder ends only with the subscription.
AskerClosesFirst ==
  /\ asker \in {"asking", "check", "send", "close", "unsubscribe"} => eventOpen
  /\ ~cancelled =>
       /\ asker \in {"asking", "check", "send", "close"} => textOpen
       /\ forwarder = "drain" => asker = "ended"
       /\ forwarder \in {"close", "ended"} => asker \in {"end", "ended"}

\* Past the send, the answer is in the channel or has been read.
AnswerIsSent ==
  ~cancelled /\ answered /\ asker \in {"close", "unsubscribe", "end", "ended"}
    => HasAnswer(received) \/ HasAnswer(textCh)

StreamInv == StreamTypes /\ Channels /\ AskerClosesFirst /\ AnswerIsSent

LEMMA AppendKeepsAnswer ==
  ASSUME NEW S, NEW s \in Seq(S), NEW x \in S, HasAnswer(s) \/ x = "answer"
  PROVE  HasAnswer(Append(s, x))
<1>1. /\ Len(s) \in Nat /\ DOMAIN s = 1..Len(s) /\ DOMAIN Append(s, x) = 1..(Len(s) + 1)
      /\ \A i \in 1..Len(s) : Append(s, x)[i] = s[i]
      /\ Append(s, x)[Len(s) + 1] = x
  BY AppendProperties
<1>2. Len(s) + 1 \in 1..(Len(s) + 1) /\ 1..Len(s) \subseteq 1..(Len(s) + 1)
  BY <1>1
<1> QED
  BY <1>1, <1>2 DEF HasAnswer

\* What is read is not lost.
LEMMA ReadKeepsAnswer ==
  ASSUME NEW S, NEW s \in Seq(S), NEW t \in Seq(S), t # <<>>, HasAnswer(s) \/ HasAnswer(t)
  PROVE  HasAnswer(Append(s, Head(t))) \/ HasAnswer(Tail(t))
<1>0. Len(t) \in Nat \ {0} /\ DOMAIN t = 1..Len(t) /\ Head(t) \in S /\ Head(t) = t[1]
  BY EmptySeq
<1>1. CASE HasAnswer(s) \/ t[1] = "answer"
  BY <1>0, <1>1, AppendKeepsAnswer
<1>2. CASE ~(HasAnswer(s) \/ t[1] = "answer")
  <2>1. PICK i \in 1..Len(t) : t[i] = "answer"
    BY <1>0, <1>2 DEF HasAnswer
  <2>2. i # 1 /\ i - 1 \in 1..(Len(t) - 1) /\ (i - 1) + 1 = i
    BY <1>0, <1>2, <2>1
  <2>3. DOMAIN Tail(t) = 1..(Len(t) - 1) /\ Tail(t)[i - 1] = t[(i - 1) + 1]
    BY <1>0, <2>2, HeadTailProperties
  <2> QED
    BY <2>1, <2>2, <2>3 DEF HasAnswer
<1> QED
  BY <1>1, <1>2

LEMMA StreamInit == ASSUME Stream!Init PROVE StreamInv
<1>1. <<>> \in Seq(Stream!Fragments) /\ Len(<<>>) = 0
  OBVIOUS
<1>2. StreamCapacity \in Nat /\ MaxDeltas \in Nat /\ MaxOthers \in Nat
  BY MCAssumption DEF Stream!StreamAssumption
<1>3. 0 <= StreamCapacity /\ 0 \in 0..MaxDeltas /\ 0 \in 0..MaxOthers
  BY <1>2
<1>4. Channels
  BY <1>1, <1>3 DEF Stream!Init, Channels
<1> QED
  BY <1>3, <1>4 DEF Stream!Init, StreamInv, StreamTypes, AskerClosesFirst, AnswerIsSent, Stream!Fragments

\* The channels: a send finds room or nothing is sent.
LEMMA EmitKeepsChannel ==
  ASSUME Channels, NEW x \in Stream!Fragments, Stream!Emit(x)
  PROVE  eventCh' \in Seq(Stream!Fragments) /\ Len(eventCh') <= StreamCapacity /\ eventOpen' = eventOpen
<1>1. StreamCapacity \in Nat /\ Len(eventCh) \in Nat
  BY MCAssumption DEF Stream!StreamAssumption, Channels
<1>2. CASE eventCh' = eventCh
  BY <1>2 DEF Channels, Stream!Emit
<1>3. CASE Len(eventCh) < StreamCapacity /\ eventCh' = Append(eventCh, x)
  <2>1. eventCh' \in Seq(Stream!Fragments) /\ Len(eventCh') = Len(eventCh) + 1
    BY <1>3, AppendProperties DEF Channels
  <2> QED
    BY <1>1, <1>3, <2>1 DEF Stream!Emit
<1> QED
  BY <1>2, <1>3 DEF Stream!Emit

LEMMA SendKeepsChannel ==
  ASSUME Channels, NEW x \in Stream!Fragments, Stream!SendText(x)
  PROVE  /\ textCh' \in Seq(Stream!Fragments) /\ Len(textCh') <= StreamCapacity
         /\ HasAnswer(textCh) \/ x = "answer" => HasAnswer(textCh')
<1>1. StreamCapacity \in Nat /\ Len(textCh) \in Nat
  BY MCAssumption DEF Stream!StreamAssumption, Channels
<1>2. textCh \in Seq(Stream!Fragments) /\ textCh' = Append(textCh, x) /\ Len(textCh) < StreamCapacity
  BY DEF Channels, Stream!SendText
<1>3. textCh' \in Seq(Stream!Fragments) /\ Len(textCh') = Len(textCh) + 1
  BY <1>2, AppendProperties
<1>4. HasAnswer(textCh) \/ x = "answer" => HasAnswer(textCh')
  BY <1>2, AppendKeepsAnswer
<1> QED
  BY <1>1, <1>2, <1>3, <1>4

LEMMA ShorterIsBounded ==
  ASSUME NEW S, NEW s \in Seq(S), s # <<>>, NEW n \in Nat, Len(s) <= n
  PROVE  Head(s) \in S /\ Tail(s) \in Seq(S) /\ Len(Tail(s)) <= n
<1>1. Head(s) \in S /\ Tail(s) \in Seq(S) /\ Len(Tail(s)) = Len(s) - 1 /\ Len(s) \in Nat
  BY HeadTailProperties
<1> QED
  BY <1>1

LEMMA StreamChannelsStep == ASSUME StreamInv, Stream!Next PROVE Channels'
<1> USE DEF StreamInv
<1>0. StreamCapacity \in Nat /\ {"delta", "final", "other", "answer"} = Stream!Fragments
  BY MCAssumption DEF Stream!StreamAssumption, Stream!Fragments
<1>1. ASSUME NEW x \in Stream!Fragments, Stream!Emit(x), UNCHANGED <<textCh, received>> PROVE Channels'
  <2>1. eventCh' \in Seq(Stream!Fragments) /\ Len(eventCh') <= StreamCapacity
    BY <1>1, EmitKeepsChannel
  <2> QED
    BY <1>1, <2>1 DEF Channels
<1>2. ASSUME NEW x \in Stream!Fragments, Stream!SendText(x), UNCHANGED <<eventCh, received>> PROVE Channels'
  <2>1. textCh' \in Seq(Stream!Fragments) /\ Len(textCh') <= StreamCapacity
    BY <1>2, SendKeepsChannel
  <2> QED
    BY <1>2, <2>1 DEF Channels
<1>3. ASSUME eventCh # <<>>, eventCh' = Tail(eventCh), UNCHANGED <<textCh, received>> PROVE Channels'
  <2>1. eventCh' \in Seq(Stream!Fragments) /\ Len(eventCh') <= StreamCapacity
    BY <1>0, <1>3, ShorterIsBounded DEF Channels
  <2> QED
    BY <1>3, <2>1 DEF Channels
<1>4. ASSUME UNCHANGED <<eventCh, textCh, received>> PROVE Channels'
  BY <1>4 DEF Channels
<1>5. CASE Stream!AskerStep
  <2>1. CASE Stream!EmitDelta
    BY <1>0, <1>1, <2>1 DEF Stream!EmitDelta, Stream!textVars, Stream!readVars
  <2>2. CASE Stream!RunReturns
    <3>1. CASE Stream!Emit("final")
      BY <1>0, <1>1, <2>2, <3>1 DEF Stream!RunReturns, Stream!textVars, Stream!readVars
    <3>2. CASE UNCHANGED Stream!eventVars
      BY <1>4, <2>2, <3>2 DEF Stream!RunReturns, Stream!textVars, Stream!readVars, Stream!eventVars
    <3> QED
      BY <2>2, <3>1, <3>2 DEF Stream!RunReturns
  <2>3. CASE Stream!CheckContext
    BY <1>4, <2>3 DEF Stream!CheckContext, Stream!textVars, Stream!readVars, Stream!eventVars
  <2>4. CASE Stream!SendAnswer
    <3>1. CASE Stream!SendText("answer")
      BY <1>0, <1>2, <2>4, <3>1 DEF Stream!SendAnswer, Stream!readVars, Stream!eventVars
    <3>2. CASE UNCHANGED Stream!textVars
      BY <1>4, <2>4, <3>2 DEF Stream!SendAnswer, Stream!textVars, Stream!readVars, Stream!eventVars
    <3> QED
      BY <2>4, <3>1, <3>2 DEF Stream!SendAnswer, Stream!SendOnClosed, Stream!textVars
  <2>5. CASE Stream!AskerClosesText
    BY <1>4, <2>5 DEF Stream!AskerClosesText, Stream!CloseText, Stream!readVars, Stream!eventVars
  <2>6. CASE Stream!Unsubscribe
    BY <1>4, <2>6 DEF Stream!Unsubscribe, Stream!textVars, Stream!readVars
  <2>7. CASE Stream!CloseDone
    BY <1>4, <2>7 DEF Stream!CloseDone, Stream!textVars, Stream!readVars, Stream!eventVars
  <2> QED
    BY <1>5, <2>1, <2>2, <2>3, <2>4, <2>5, <2>6, <2>7 DEF Stream!AskerStep
<1>6. CASE Stream!ForwarderStep
  <2>1. CASE Stream!ReceiveEvent
    BY <1>3, <2>1 DEF Stream!ReceiveEvent, Stream!textVars, Stream!readVars
  <2>2. CASE Stream!EventsEnd
    BY <1>4, <2>2 DEF Stream!EventsEnd, Stream!textVars, Stream!readVars, Stream!eventVars
  <2>3. CASE Stream!SeeDone
    BY <1>4, <2>3 DEF Stream!SeeDone, Stream!textVars, Stream!readVars, Stream!eventVars
  <2>4. CASE Stream!SendHeld
    <3>1. CASE Stream!SendText(held)
      BY <1>2, <2>4, <3>1 DEF Stream!SendHeld, Stream!readVars, Stream!eventVars, StreamTypes
    <3>2. CASE UNCHANGED Stream!textVars
      BY <1>4, <2>4, <3>2 DEF Stream!SendHeld, Stream!textVars, Stream!readVars, Stream!eventVars
    <3> QED
      BY <2>4, <3>1, <3>2 DEF Stream!SendHeld, Stream!SendOnClosed, Stream!textVars
  <2>5. CASE Stream!Drain
    BY <1>3, <2>5 DEF Stream!Drain, Stream!textVars, Stream!readVars
  <2>6. CASE Stream!ForwarderClosesText
    BY <1>4, <2>6 DEF Stream!ForwarderClosesText, Stream!CloseText, Stream!readVars, Stream!eventVars
  <2> QED
    BY <1>6, <2>1, <2>2, <2>3, <2>4, <2>5, <2>6 DEF Stream!ForwarderStep
<1>7. CASE Stream!Receive
  <2>1. /\ textCh # <<>> /\ textCh' = Tail(textCh) /\ received' = Append(received, Head(textCh))
        /\ UNCHANGED eventCh
    BY <1>7 DEF Stream!Receive, Stream!eventVars
  <2>2. Head(textCh) \in Stream!Fragments /\ textCh' \in Seq(Stream!Fragments) /\ Len(textCh') <= StreamCapacity
    BY <1>0, <2>1, ShorterIsBounded DEF Channels
  <2>3. received' \in Seq(Stream!Fragments)
    BY <2>1, <2>2, AppendProperties DEF Channels
  <2> QED
    BY <2>1, <2>2, <2>3 DEF Channels
<1>8. CASE Stream!CallReturns \/ Stream!Cancel \/ Stream!StopReading
  BY <1>4, <1>8 DEF Stream!CallReturns, Stream!Cancel, Stream!StopReading, Stream!textVars, Stream!readVars,
     Stream!eventVars
<1>9. CASE Stream!EmitOther
  BY <1>0, <1>1, <1>9 DEF Stream!EmitOther, Stream!textVars, Stream!readVars
<1> QED
  BY <1>5, <1>6, <1>7, <1>8, <1>9 DEF Stream!Next, Stream!CallerStep

\* Every step but those of the asker leaves the asker where it is, and the
\* answer where it was or read.
LEMMA AnswerStays ==
  ASSUME StreamInv, Stream!Next, HasAnswer(received) \/ HasAnswer(textCh)
  PROVE  HasAnswer(received') \/ HasAnswer(textCh')
<1> USE DEF StreamInv
<1>1. CASE UNCHANGED <<received, textCh>>
  BY <1>1
<1>2. ASSUME NEW x \in Stream!Fragments, Stream!SendText(x), UNCHANGED received
      PROVE  HasAnswer(received') \/ HasAnswer(textCh')
  BY <1>2, SendKeepsChannel
<1>3. CASE Stream!Receive
  <2>1. textCh # <<>> /\ textCh' = Tail(textCh) /\ received' = Append(received, Head(textCh))
    BY <1>3 DEF Stream!Receive
  <2>2. textCh \in Seq(Stream!Fragments) /\ received \in Seq(Stream!Fragments)
    BY DEF Channels
  <2> QED
    BY <2>1, <2>2, ReadKeepsAnswer
<1>4. CASE Stream!SendAnswer
  <2>1. "answer" \in Stream!Fragments
    BY DEF Stream!Fragments
  <2> QED
    BY <1>1, <1>2, <1>4, <2>1 DEF Stream!SendAnswer, Stream!SendOnClosed, Stream!textVars, Stream!readVars
<1>5. CASE Stream!SendHeld
  BY <1>1, <1>2, <1>5 DEF Stream!SendHeld, Stream!SendOnClosed, Stream!textVars, Stream!readVars, StreamTypes
<1>6. CASE \/ Stream!EmitDelta \/ Stream!RunReturns \/ Stream!CheckContext \/ Stream!AskerClosesText
           \/ Stream!Unsubscribe \/ Stream!CloseDone
  BY <1>1, <1>6 DEF Stream!EmitDelta, Stream!RunReturns, Stream!CheckContext, Stream!AskerClosesText,
     Stream!Unsubscribe, Stream!CloseDone, Stream!CloseText, Stream!textVars, Stream!readVars
<1>7. CASE \/ Stream!ReceiveEvent \/ Stream!EventsEnd \/ Stream!SeeDone \/ Stream!Drain
           \/ Stream!ForwarderClosesText
  BY <1>1, <1>7 DEF Stream!ReceiveEvent, Stream!EventsEnd, Stream!SeeDone, Stream!Drain,
     Stream!ForwarderClosesText, Stream!CloseText, Stream!textVars, Stream!readVars
<1>8. CASE Stream!CallReturns \/ Stream!Cancel \/ Stream!StopReading \/ Stream!EmitOther
  BY <1>1, <1>8 DEF Stream!CallReturns, Stream!Cancel, Stream!StopReading, Stream!EmitOther,
     Stream!textVars, Stream!readVars
<1> QED
  BY <1>3, <1>4, <1>5, <1>6, <1>7, <1>8 DEF Stream!Next, Stream!AskerStep, Stream!ForwarderStep,
     Stream!CallerStep

LEMMA CancelIsFinal == ASSUME Stream!Next, ~cancelled' PROVE ~cancelled
BY DEF Stream!Next, Stream!AskerStep, Stream!ForwarderStep, Stream!CallerStep, Stream!EmitDelta,
   Stream!RunReturns, Stream!CheckContext, Stream!SendAnswer, Stream!AskerClosesText, Stream!Unsubscribe,
   Stream!CloseDone, Stream!ReceiveEvent, Stream!EventsEnd, Stream!SeeDone, Stream!SendHeld, Stream!Drain,
   Stream!ForwarderClosesText, Stream!CallReturns, Stream!Receive, Stream!Cancel, Stream!StopReading,
   Stream!EmitOther, Stream!callVars

LEMMA StreamControlStep ==
  ASSUME StreamInv, Stream!Next
  PROVE  StreamTypes' /\ AskerClosesFirst'
<1> USE DEF StreamInv, Stream!Emit, Stream!askVars, Stream!forwardVars, Stream!eventVars, Stream!textVars,
        Stream!callVars, Stream!readVars
<1>0. MaxDeltas \in Nat /\ MaxOthers \in Nat
  BY MCAssumption DEF Stream!StreamAssumption
<1>1. CASE Stream!EmitDelta
  <2>1. deltas' \in 0..MaxDeltas
    BY <1>0, <1>1 DEF Stream!EmitDelta, StreamTypes
  <2> QED
    BY <1>1, <2>1 DEF Stream!EmitDelta, StreamTypes, AskerClosesFirst
<1>2. CASE Stream!RunReturns
  BY <1>2 DEF Stream!RunReturns, StreamTypes, AskerClosesFirst
<1>3. CASE Stream!CheckContext
  BY <1>3 DEF Stream!CheckContext, StreamTypes, AskerClosesFirst
<1>4. CASE Stream!SendAnswer
  <2>1. /\ UNCHANGED <<answered, deltas, others, forwarder, held, eventOpen, textOpen, done, returned,
                       cancelled, ctxDone, reading>>
        /\ asker = "send" /\ asker' \in {"send", "close"} /\ crashed' \in BOOLEAN
    BY <1>4 DEF Stream!SendAnswer, Stream!SendText, Stream!SendOnClosed, StreamTypes
  <2> QED
    BY <2>1 DEF StreamTypes, AskerClosesFirst
<1>5. CASE Stream!AskerClosesText
  BY <1>5 DEF Stream!AskerClosesText, Stream!CloseText, StreamTypes, AskerClosesFirst
<1>6. CASE Stream!Unsubscribe
  BY <1>6 DEF Stream!Unsubscribe, StreamTypes, AskerClosesFirst
<1>7. CASE Stream!CloseDone
  BY <1>7 DEF Stream!CloseDone, StreamTypes, AskerClosesFirst
<1>8. CASE Stream!ReceiveEvent
  <2>1. held' \in Stream!Fragments
    BY <1>8 DEF Stream!ReceiveEvent, Channels
  <2> QED
    BY <1>8, <2>1 DEF Stream!ReceiveEvent, StreamTypes, AskerClosesFirst
<1>9. CASE Stream!EventsEnd
  BY <1>9 DEF Stream!EventsEnd, StreamTypes, AskerClosesFirst
<1>10. CASE Stream!SeeDone
  BY <1>10 DEF Stream!SeeDone, StreamTypes, AskerClosesFirst
<1>11. CASE Stream!SendHeld
  <2>1. /\ UNCHANGED <<asker, answered, deltas, others, held, eventOpen, textOpen, done, returned,
                       cancelled, ctxDone, reading>>
        /\ forwarder = "send" /\ forwarder' \in {"select", "send", "close"} /\ crashed' \in BOOLEAN
        /\ forwarder' = "close" => ctxDone
    BY <1>11 DEF Stream!SendHeld, Stream!SendText, Stream!SendOnClosed, StreamTypes
  <2> QED
    BY <2>1 DEF StreamTypes, AskerClosesFirst
<1>12. CASE Stream!Drain
  BY <1>12 DEF Stream!Drain, StreamTypes, AskerClosesFirst
<1>13. CASE Stream!ForwarderClosesText
  BY <1>13 DEF Stream!ForwarderClosesText, Stream!CloseText, StreamTypes, AskerClosesFirst
<1>14. CASE Stream!CallReturns
  BY <1>14 DEF Stream!CallReturns, StreamTypes, AskerClosesFirst
<1>15. CASE Stream!Cancel
  BY <1>15 DEF Stream!Cancel, StreamTypes, AskerClosesFirst
<1>16. CASE Stream!Receive
  BY <1>16 DEF Stream!Receive, StreamTypes, AskerClosesFirst
<1>17. CASE Stream!StopReading
  BY <1>17 DEF Stream!StopReading, StreamTypes, AskerClosesFirst
<1>18. CASE Stream!EmitOther
  <2>1. others' \in 0..MaxOthers
    BY <1>0, <1>18 DEF Stream!EmitOther, StreamTypes
  <2> QED
    BY <1>18, <2>1 DEF Stream!EmitOther, StreamTypes, AskerClosesFirst
<1> QED
  BY <1>1, <1>2, <1>3, <1>4, <1>5, <1>6, <1>7, <1>8, <1>9, <1>10, <1>11, <1>12, <1>13, <1>14, <1>15,
     <1>16, <1>17, <1>18 DEF Stream!Next, Stream!AskerStep, Stream!ForwarderStep, Stream!CallerStep

LEMMA StreamAnswerStep == ASSUME StreamInv, Stream!Next PROVE AnswerIsSent'
<1> DEFINE Past == {"close", "unsubscribe", "end", "ended"}
<1> SUFFICES ASSUME ~cancelled', answered', asker' \in Past
             PROVE  HasAnswer(received') \/ HasAnswer(textCh')
  BY DEF AnswerIsSent
<1>1. CASE ~cancelled /\ answered /\ asker \in Past
  BY <1>1, AnswerStays DEF StreamInv, AnswerIsSent
<1>2. CASE Stream!SendAnswer /\ ~cancelled
  <2>1. ~ctxDone /\ "answer" \in Stream!Fragments /\ asker = "send"
    BY <1>2 DEF Stream!SendAnswer, Stream!Fragments, StreamInv, StreamTypes
  <2>2. Stream!SendText("answer")
    BY <1>2, <2>1 DEF Stream!SendAnswer
  <2> QED
    BY <2>1, <2>2, SendKeepsChannel DEF StreamInv
<1>3. CASE Stream!CheckContext /\ ~cancelled
  BY <1>3 DEF Stream!CheckContext, StreamInv, StreamTypes
<1>4. CASE ~(Stream!SendAnswer \/ Stream!CheckContext)
  <2>1. \/ asker' = asker /\ answered' = answered
        \/ asker \in Past /\ answered' = answered
        \/ asker' = "check"
    BY <1>4 DEF Stream!Next, Stream!AskerStep, Stream!ForwarderStep, Stream!CallerStep, Stream!EmitDelta,
       Stream!RunReturns, Stream!AskerClosesText, Stream!Unsubscribe, Stream!CloseDone, Stream!ReceiveEvent,
       Stream!EventsEnd, Stream!SeeDone, Stream!SendHeld, Stream!Drain, Stream!ForwarderClosesText,
       Stream!CallReturns, Stream!Receive, Stream!Cancel, Stream!StopReading, Stream!EmitOther, Stream!askVars
  <2>2. ~cancelled
    BY CancelIsFinal
  <2> QED
    BY <1>1, <2>1, <2>2
<1>5. ~cancelled
  BY CancelIsFinal
<1> QED
  BY <1>2, <1>3, <1>4, <1>5

LEMMA StreamStep ==
  ASSUME StreamInv, Stream!Next \/ UNCHANGED streamVars
  PROVE  StreamInv'
<1>1. CASE Stream!Next
  BY <1>1, StreamChannelsStep, StreamControlStep, StreamAnswerStep DEF StreamInv
<1>2. CASE UNCHANGED streamVars
  BY <1>2 DEF streamVars, StreamInv, StreamTypes, Channels, AskerClosesFirst, AnswerIsSent, HasAnswer
<1> QED
  BY <1>1, <1>2

LEMMA BoundedSeqIs ==
  ASSUME NEW S, NEW n \in Nat, NEW s \in Seq(S), Len(s) <= n
  PROVE  s \in Stream!BoundedSeq(S, n)
<1>1. Len(s) \in 0..n /\ s \in [1..Len(s) -> S]
  OBVIOUS
<1> QED
  BY <1>1 DEF Stream!BoundedSeq, Stream!SeqOf

LEMMA StreamInvSuffices ==
  ASSUME StreamInv
  PROVE  Stream!TypeOK /\ Stream!UncancelledStreamCarriesAnswer
<1>1. eventCh \in Stream!BoundedSeq(Stream!Fragments, StreamCapacity)
  BY MCAssumption, BoundedSeqIs DEF StreamInv, Channels, Stream!StreamAssumption
<1>2. textCh \in Stream!BoundedSeq(Stream!Fragments, StreamCapacity)
  BY MCAssumption, BoundedSeqIs DEF StreamInv, Channels, Stream!StreamAssumption
<1>3. Stream!TypeOK
  BY <1>1, <1>2 DEF StreamInv, StreamTypes, Channels, Stream!TypeOK
<1>4. ASSUME ~textOpen, answered, ~cancelled
      PROVE  "answer" \in Stream!Range(received) \cup Stream!Range(textCh)
  <2>1. asker \in {"close", "unsubscribe", "end", "ended"}
    BY <1>4 DEF StreamInv, StreamTypes, AskerClosesFirst
  <2>2. HasAnswer(received) \/ HasAnswer(textCh)
    BY <1>4, <2>1 DEF StreamInv, AnswerIsSent
  <2> QED
    BY <2>2 DEF HasAnswer, Stream!Range
<1> QED
  BY <1>3, <1>4 DEF Stream!UncancelledStreamCarriesAnswer

\* The safety of StreamEndsOrPanics: the bus and the stream are well typed, and a
\* stream whose channel is closed without its caller cancelling it has the answer of
\* its run in it, or has delivered it, however full its channels were and whatever
\* was dropped; that a goroutine may panic then is not excluded.
THEOREM StreamsCarryTheirAnswer ==
  MCSpec => [](TypeOK /\ Stream!TypeOK /\ Stream!UncancelledStreamCarriesAnswer)
<1>1. MCInit => BusInv /\ StreamInv
  BY BusInit, StreamInit DEF MCInit
<1>2. BusInv /\ StreamInv /\ [MCNext]_allVars => (BusInv /\ StreamInv)'
  <2> SUFFICES ASSUME BusInv, StreamInv, [MCNext]_allVars PROVE BusInv' /\ StreamInv'
    OBVIOUS
  <2>1. [Next]_vars
    BY DEF MCNext, allVars
  <2>2. Stream!Next \/ UNCHANGED streamVars
    BY DEF MCNext, allVars
  <2> QED
    BY <2>1, <2>2, InvNext, StreamStep
<1>3. BusInv /\ StreamInv => TypeOK /\ Stream!TypeOK /\ Stream!UncancelledStreamCarriesAnswer
  BY StreamInvSuffices DEF BusInv
<1> QED
  BY <1>1, <1>2, <1>3, PTL DEF MCSpec

=============================================================================
