------------------------------ MODULE EventBus ------------------------------
(***************************************************************************)
(* The event bus, reactor/eventbus.go: the runs, tools and delegated tasks *)
(* of an agent, and of its clones, emit; clients subscribe and cancel.     *)
(*                                                                         *)
(* The bus is under a sync.RWMutex.  Emit holds it for reading while it    *)
(* sends, so emitters run side by side.  What Subscribe, cancel and Close  *)
(* do, they do holding it for writing: one step here, which needs that no  *)
(* emitter is inside.  A writer that waits keeps new readers out.          *)
(*                                                                         *)
(* A subscription is made once: nextID gives it an id of its own.          *)
(***************************************************************************)
EXTENDS SequencesExt, Naturals

CONSTANTS
  Emitters,    \* goroutines that emit
  Subscribers, \* subscriptions that can be made
  Owner,       \* the goroutine that closes the bus
  Kinds,       \* of events, for the filters
  Capacity,    \* StreamChannelBufferSize
  BusCloses,   \* the bus is closed some time; an Agent never does
  MaxEvents,   \* bound: events of one emitter
  MaxCancels   \* bound: calls of one cancel function

ASSUME BusAssumption ==
  /\ Capacity \in Nat \ {0} /\ MaxEvents \in Nat /\ MaxCancels \in Nat
  /\ BusCloses \in BOOLEAN
  /\ Kinds # {}
  /\ Owner \notin Subscribers

Events == [from : Emitters, n : 0..MaxEvents, kind : Kinds]

VARIABLES
  subscribers, \* the subscriptions in the map
  closed,      \* the bus is closed
  filter,      \* kinds of events each subscription wants
  channel,     \* "none", "open" or "closed"
  queue,       \* events in the channel
  panicked,    \* a send on, or a close of, a closed channel
  waiting,     \* goroutines that wait to write
  cancels,     \* calls of each cancel function
  at,          \* where each emitter is: "idle", "lock" or "send"
  event,       \* the event it emits
  left,        \* the subscriptions it has still to look at
  got,         \* history variable: what the client has received
  dropped      \* history variable: events that found the channel full

busVars    == <<subscribers, closed, filter, channel>>
emitVars   == <<at, event, left>>
clientVars == <<waiting, cancels, got>>
vars == <<busVars, queue, panicked, emitVars, clientVars, dropped>>

Init ==
  /\ subscribers = {} /\ closed = FALSE
  /\ filter = [s \in Subscribers |-> {}]
  /\ channel = [s \in Subscribers |-> "none"]
  /\ queue = [s \in Subscribers |-> <<>>]
  /\ panicked = FALSE
  /\ waiting = {}
  /\ cancels = [s \in Subscribers |-> 0]
  /\ at = [e \in Emitters |-> "idle"]
  /\ event = [e \in Emitters |-> [from |-> e, n |-> 0, kind |-> CHOOSE k \in Kinds : TRUE]]
  /\ left = [e \in Emitters |-> {}]
  /\ got = [s \in Subscribers |-> <<>>]
  /\ dropped = [s \in Subscribers |-> {}]

-----------------------------------------------------------------------------
\* sync.RWMutex: readers wait for writers that wait, writers for readers.

ReadersAreOut == \A e \in Emitters : at[e] # "send"

AskToWrite(who) ==
  /\ who \notin waiting
  /\ waiting' = waiting \cup {who}
  /\ UNCHANGED <<busVars, queue, panicked, emitVars, got, dropped>>

\* Mutation: the lock is held for reading only.
Write_Shared(who) ==
  /\ who \in waiting
  /\ waiting' = waiting \ {who}
  /\ UNCHANGED <<queue, emitVars, got, dropped>>

Write(who) ==
  /\ who \in waiting /\ ReadersAreOut
  /\ waiting' = waiting \ {who}
  /\ UNCHANGED <<queue, emitVars, got, dropped>>

-----------------------------------------------------------------------------
\* Emit.

Emit(e) ==
  /\ at[e] = "idle"
  /\ event[e].n < MaxEvents
  /\ \E k \in Kinds : event' = [event EXCEPT ![e].n = @ + 1, ![e].kind = k]
  /\ at' = [at EXCEPT ![e] = "lock"]
  /\ UNCHANGED <<busVars, queue, panicked, left, clientVars, dropped>>

EnterEmit(e) ==
  /\ at[e] = "lock" /\ waiting = {}
  /\ IF closed
     THEN at' = [at EXCEPT ![e] = "idle"] /\ UNCHANGED left
     ELSE /\ at' = [at EXCEPT ![e] = "send"]
          /\ left' = [left EXCEPT ![e] = subscribers]
  /\ UNCHANGED <<busVars, queue, panicked, event, clientVars, dropped>>

Wants(s, ev) == ev.kind \in filter[s]

\* Mutation: there is always room.
Send_Unbounded(s, ev) ==
  IF channel[s] = "closed"
  THEN panicked' = TRUE /\ UNCHANGED <<queue, dropped>>
  ELSE queue' = [queue EXCEPT ![s] = Append(@, ev)] /\ UNCHANGED <<dropped, panicked>>

\* The select with a default: send, or drop if the channel is full.
Send(s, ev) ==
  IF channel[s] = "closed"
  THEN panicked' = TRUE /\ UNCHANGED <<queue, dropped>>
  ELSE /\ IF Len(queue[s]) < Capacity
          THEN queue' = [queue EXCEPT ![s] = Append(@, ev)] /\ UNCHANGED dropped
          ELSE dropped' = [dropped EXCEPT ![s] = @ \cup {ev}] /\ UNCHANGED queue
       /\ UNCHANGED panicked

\* Mutation: the first subscriber that does not want the event ends the loop.
EmitTo_Return(e, s) ==
  /\ at[e] = "send" /\ s \in left[e]
  /\ IF Wants(s, event[e])
     THEN Send(s, event[e]) /\ left' = [left EXCEPT ![e] = @ \ {s}]
     ELSE left' = [left EXCEPT ![e] = {}] /\ UNCHANGED <<queue, panicked, dropped>>
  /\ UNCHANGED <<busVars, at, event, clientVars>>

\* Mutation: a subscriber may be sent an event twice.
EmitTo_Again(e, s) ==
  /\ at[e] = "send" /\ s \in left[e]
  /\ IF Wants(s, event[e])
     THEN Send(s, event[e])
     ELSE UNCHANGED <<queue, panicked, dropped>>
  /\ left' \in {left, [left EXCEPT ![e] = @ \ {s}]}
  /\ UNCHANGED <<busVars, at, event, clientVars>>

\* Mutation: Emit waits for room.
EmitTo_Blocks(e, s) ==
  /\ at[e] = "send" /\ s \in left[e]
  /\ IF Wants(s, event[e])
     THEN Len(queue[s]) < Capacity /\ Send(s, event[e])
     ELSE UNCHANGED <<queue, panicked, dropped>>
  /\ left' = [left EXCEPT ![e] = @ \ {s}]
  /\ UNCHANGED <<busVars, at, event, clientVars>>

\* The map is ranged over in any order.
EmitTo(e, s) ==
  /\ at[e] = "send" /\ s \in left[e]
  /\ IF Wants(s, event[e])
     THEN Send(s, event[e])
     ELSE UNCHANGED <<queue, panicked, dropped>>
  /\ left' = [left EXCEPT ![e] = @ \ {s}]
  /\ UNCHANGED <<busVars, at, event, clientVars>>

LeaveEmit(e) ==
  /\ at[e] = "send" /\ left[e] = {}
  /\ at' = [at EXCEPT ![e] = "idle"]
  /\ UNCHANGED <<busVars, queue, panicked, event, left, clientVars, dropped>>

-----------------------------------------------------------------------------
\* Subscribe, cancel, Close, and what clients do with their channel.

CallSubscribe(s) ==
  /\ channel[s] = "none"
  /\ AskToWrite(s)
  /\ UNCHANGED cancels

\* On a closed bus the channel is closed, and its cancel function does nothing.
Subscribe(s) ==
  /\ channel[s] = "none"
  /\ Write(s)
  /\ \E kinds \in SUBSET Kinds : filter' = [filter EXCEPT ![s] = kinds]
  /\ IF closed
     THEN channel' = [channel EXCEPT ![s] = "closed"] /\ UNCHANGED subscribers
     ELSE /\ channel' = [channel EXCEPT ![s] = "open"]
          /\ subscribers' = subscribers \cup {s}
  /\ UNCHANGED <<closed, panicked, cancels>>

CloseAll(subs) ==
  /\ channel' = [s \in Subscribers |-> IF s \in subs THEN "closed" ELSE channel[s]]
  /\ panicked' = (panicked \/ \E s \in subs : channel[s] = "closed")

CallCancel(s) ==
  /\ channel[s] # "none"
  /\ cancels[s] < MaxCancels
  /\ cancels' = [cancels EXCEPT ![s] = @ + 1]
  /\ AskToWrite(s)

\* The second time, or on a bus that was closed, it finds nothing to close.
Cancel(s) ==
  /\ channel[s] # "none"
  /\ Write(s)
  /\ subscribers' = subscribers \ {s}
  /\ CloseAll(subscribers \cap {s})
  /\ UNCHANGED <<closed, filter, cancels>>

CallClose ==
  /\ BusCloses /\ ~closed
  /\ AskToWrite(Owner)
  /\ UNCHANGED cancels

Close ==
  /\ Write(Owner)
  /\ closed' = TRUE
  /\ CloseAll(subscribers)
  /\ subscribers' = {}
  /\ UNCHANGED <<filter, cancels>>

Receive(s) ==
  /\ queue[s] # <<>>
  /\ got' = [got EXCEPT ![s] = Append(@, Head(queue[s]))]
  /\ queue' = [queue EXCEPT ![s] = Tail(@)]
  /\ UNCHANGED <<busVars, panicked, emitVars, waiting, cancels, dropped>>

-----------------------------------------------------------------------------

EmitStep(e) == EnterEmit(e) \/ (\E s \in Subscribers : EmitTo(e, s)) \/ LeaveEmit(e)
ClientStep(s) == CallSubscribe(s) \/ CallCancel(s) \/ Receive(s)
WriteStep == Close \/ \E s \in Subscribers : Subscribe(s) \/ Cancel(s)

Next ==
  \/ \E e \in Emitters : Emit(e) \/ EmitStep(e)
  \/ \E s \in Subscribers : ClientStep(s)
  \/ CallClose
  \/ WriteStep

Spec == Init /\ [][Next]_vars

\* The scheduler runs the goroutines that are on the bus; nobody has to emit,
\* subscribe, receive, cancel or close.
FairSpec ==
  /\ Spec
  /\ WF_vars(WriteStep)
  /\ \A e \in Emitters : WF_vars(EmitStep(e))

-----------------------------------------------------------------------------

TypeOK ==
  /\ subscribers \subseteq Subscribers
  /\ closed \in BOOLEAN
  /\ filter \in [Subscribers -> SUBSET Kinds]
  /\ channel \in [Subscribers -> {"none", "open", "closed"}]
  /\ queue \in [Subscribers -> Seq(Events)]
  /\ \A s \in Subscribers : Len(queue[s]) <= Capacity
  /\ panicked \in BOOLEAN
  /\ waiting \subseteq Subscribers \cup {Owner}
  /\ cancels \in [Subscribers -> 0..MaxCancels]
  /\ at \in [Emitters -> {"idle", "lock", "send"}]
  /\ event \in [Emitters -> Events]
  /\ left \in [Emitters -> SUBSET Subscribers]
  /\ got \in [Subscribers -> Seq(Events)]
  /\ dropped \in [Subscribers -> SUBSET Events]

\* The bus is safe for concurrent use: whoever cancels or closes, how often and
\* when, no emitter sends on a closed channel of the bus and none is closed twice.
NeverPanics == ~panicked

\* What an Emit leaves behind: each subscriber of that moment that wants the
\* event has received it, has it in its channel, or had its channel full.
EmitReachesEverySubscriber ==
  \A e \in Emitters : \A s \in subscribers :
    (at[e] = "send" /\ left[e] = {} /\ Wants(s, event[e])) =>
       event[e] \in Range(got[s]) \cup Range(queue[s]) \cup dropped[s]

\* Subscribers see the events of a goroutine in its order, and none twice,
\* also when other goroutines emit at the same time.
InOrderOfEmission ==
  \A s \in Subscribers :
    LET seen == got[s] \o queue[s] IN
      \A i, j \in DOMAIN seen :
        i < j /\ seen[i].from = seen[j].from => seen[i].n < seen[j].n

\* Emit never blocks its run: not on a subscriber that does not read, nor
\* behind those that come and go.
EmitReturns == \A e \in Emitters : at[e] # "idle" ~> at[e] = "idle"

=============================================================================
