------------------------------ MODULE AskStream ------------------------------
(***************************************************************************)
(* A streamed question: AskStream and AskStreamWithContext of agent.go.    *)
(*                                                                         *)
(* Two goroutines serve a stream.  The asker calls AskWithContext, whose   *)
(* run emits text on the event bus, then sends the answer, closes the text *)
(* channel, unsubscribes and closes `done`.  The forwarder copies the      *)
(* events of its subscription to the text channel and closes it when it    *)
(* ends.  The consumer reads the text channel, and may stop or cancel.     *)
(*                                                                         *)
(* Run never returns an error, so the branch that sends "[error]" is left  *)
(* out; that AskWithContext returns is what ReactLoop and AgentRun show.   *)
(***************************************************************************)
EXTENDS SequencesExt, Naturals

CONSTANTS
  Capacity,    \* StreamChannelBufferSize, of both channels
  MaxDeltas,   \* bound: ThinkingDelta events of the run
  MaxOthers,   \* bound: events of other runs on the same bus
  OwnTimeout   \* AskStream (TRUE) or AskStreamWithContext (FALSE)

StreamAssumption ==
  /\ Capacity \in Nat \ {0}
  /\ MaxDeltas \in Nat
  /\ MaxOthers \in Nat
  /\ OwnTimeout \in BOOLEAN

\* What the filter of the subscription lets through, and the answer itself.
Fragments == {"delta", "final", "other", "answer"}

VARIABLES
  asker,      \* where the goroutine that asks is
  answered,   \* its run had an answer that is not empty
  deltas,     \* ThinkingDelta events of its run
  others,     \* events of other runs
  forwarder,  \* where the goroutine that forwards is
  held,       \* the fragment the forwarder is about to send
  eventCh,    \* the channel of the subscription
  eventOpen,  \* it is subscribed, and open
  textCh,     \* the channel the consumer reads
  textOpen,   \* it is open
  done,       \* `done` is closed
  returned,   \* the call that made the stream has returned
  cancelled,  \* the caller has cancelled, or his own context is done
  ctxDone,    \* the context of the two goroutines is done
  panicked,   \* a send on a closed channel has ended the process
  reading,    \* the consumer still reads
  received    \* history variable: what he has read

askVars     == <<asker, answered, deltas>>
forwardVars == <<forwarder, held>>
eventVars   == <<eventCh, eventOpen>>
textVars    == <<textCh, textOpen>>
callVars    == <<returned, cancelled, ctxDone>>
readVars    == <<reading, received>>
vars == <<askVars, others, forwardVars, eventVars, textVars, done, callVars, panicked, readVars>>

Init ==
  /\ asker = "asking" /\ answered = FALSE /\ deltas = 0 /\ others = 0
  /\ forwarder = "select" /\ held = "delta"
  /\ eventCh = <<>> /\ eventOpen = TRUE
  /\ textCh = <<>> /\ textOpen = TRUE
  /\ done = FALSE
  /\ returned = FALSE /\ cancelled = FALSE /\ ctxDone = FALSE
  /\ panicked = FALSE
  /\ reading = TRUE /\ received = <<>>

-----------------------------------------------------------------------------
\* The two ends of a channel.

\* Mutation: nothing is dropped.
Emit_Unbounded(fragment) ==
  /\ eventCh' = IF eventOpen THEN Append(eventCh, fragment) ELSE eventCh
  /\ UNCHANGED eventOpen

\* Emit never blocks: a subscriber that is full or gone misses the event.
Emit(fragment) ==
  /\ eventCh' = IF eventOpen /\ Len(eventCh) < Capacity THEN Append(eventCh, fragment) ELSE eventCh
  /\ UNCHANGED eventOpen

SendText(fragment) ==
  /\ textOpen
  /\ Len(textCh) < Capacity
  /\ textCh' = Append(textCh, fragment)
  /\ UNCHANGED <<textOpen, panicked>>

\* A send on a closed channel panics, the goroutine is blocked in it or not.
SendOnClosed ==
  /\ ~textOpen
  /\ panicked' = TRUE
  /\ UNCHANGED textVars

\* closeOnce: whoever comes second does nothing.
CloseText == textOpen' = FALSE /\ UNCHANGED textCh

-----------------------------------------------------------------------------
\* The goroutine that asks.

EmitDelta ==
  /\ asker = "asking"
  /\ deltas < MaxDeltas
  /\ deltas' = deltas + 1
  /\ Emit("delta")
  /\ UNCHANGED <<asker, answered, others, forwardVars, textVars, done, callVars, panicked, readVars>>

\* AskWithContext returns; a run with an answer has emitted it, too.
RunReturns ==
  /\ asker = "asking"
  /\ \E a \in BOOLEAN :
       /\ answered' = a
       /\ IF a THEN Emit("final") ELSE UNCHANGED eventVars
  /\ asker' = "check"
  /\ UNCHANGED <<deltas, others, forwardVars, textVars, done, callVars, panicked, readVars>>

\* The select with a default: an ended context drops the answer.
CheckContext ==
  /\ asker = "check"
  /\ asker' = IF ~ctxDone /\ answered THEN "send" ELSE "close"
  /\ UNCHANGED <<answered, deltas, others, forwardVars, eventVars, textVars, done, callVars, panicked, readVars>>

\* Mutation: the answer is sent like an event, without waiting for room.
SendAnswer_Drops ==
  /\ asker = "send"
  /\ \/ SendText("answer") /\ asker' = "close"
     \/ SendOnClosed /\ UNCHANGED asker
     \/ Len(textCh) = Capacity /\ asker' = "close" /\ UNCHANGED <<textVars, panicked>>
  /\ UNCHANGED <<answered, deltas, others, forwardVars, eventVars, done, callVars, readVars>>

\* With several cases of the select ready, any of them is taken.
SendAnswer ==
  /\ asker = "send"
  /\ \/ SendText("answer") /\ asker' = "close"
     \/ SendOnClosed /\ UNCHANGED asker
     \/ ctxDone /\ asker' = "close" /\ UNCHANGED <<textVars, panicked>>
  /\ UNCHANGED <<answered, deltas, others, forwardVars, eventVars, done, callVars, readVars>>

\* The deferred calls, last one first.
AskerClosesText ==
  /\ asker = "close"
  /\ CloseText
  /\ asker' = "unsubscribe"
  /\ UNCHANGED <<answered, deltas, others, forwardVars, eventVars, done, callVars, panicked, readVars>>

\* Mutation: nobody unsubscribes.
Unsubscribe_Never ==
  /\ asker = "unsubscribe"
  /\ asker' = "end"
  /\ UNCHANGED <<answered, deltas, others, forwardVars, eventVars, textVars, done, callVars, panicked, readVars>>

Unsubscribe ==
  /\ asker = "unsubscribe"
  /\ eventOpen' = FALSE
  /\ asker' = "end"
  /\ UNCHANGED <<answered, deltas, others, forwardVars, eventCh, textVars, done, callVars, panicked, readVars>>

CloseDone ==
  /\ asker = "end"
  /\ done' = TRUE
  /\ asker' = "ended"
  /\ UNCHANGED <<answered, deltas, others, forwardVars, eventVars, textVars, callVars, panicked, readVars>>

-----------------------------------------------------------------------------
\* The goroutine that forwards.

ReceiveEvent ==
  /\ forwarder = "select"
  /\ eventCh # <<>>
  /\ held' = Head(eventCh)
  /\ eventCh' = Tail(eventCh)
  /\ forwarder' = "send"
  /\ UNCHANGED <<askVars, others, eventOpen, textVars, done, callVars, panicked, readVars>>

\* Of its select, and of the range of drainEvents.
EventsEnd ==
  /\ forwarder \in {"select", "drain"}
  /\ eventCh = <<>> /\ ~eventOpen
  /\ forwarder' = "close"
  /\ UNCHANGED <<askVars, others, held, eventVars, textVars, done, callVars, panicked, readVars>>

SeeDone ==
  /\ forwarder = "select"
  /\ done \/ ctxDone
  /\ forwarder' = "drain"
  /\ UNCHANGED <<askVars, others, held, eventVars, textVars, done, callVars, panicked, readVars>>

SendHeld ==
  /\ forwarder = "send"
  /\ \/ SendText(held) /\ forwarder' = "select"
     \/ SendOnClosed /\ UNCHANGED forwarder
     \/ ctxDone /\ forwarder' = "close" /\ UNCHANGED <<textVars, panicked>>
  /\ UNCHANGED <<askVars, others, held, eventVars, done, callVars, readVars>>

Drain ==
  /\ forwarder = "drain"
  /\ eventCh # <<>>
  /\ eventCh' = Tail(eventCh)
  /\ UNCHANGED <<askVars, others, forwardVars, eventOpen, textVars, done, callVars, panicked, readVars>>

ForwarderClosesText ==
  /\ forwarder = "close"
  /\ CloseText
  /\ forwarder' = "ended"
  /\ UNCHANGED <<askVars, others, held, eventVars, done, callVars, panicked, readVars>>

-----------------------------------------------------------------------------
\* The caller, the consumer, and other runs of the agent.

\* AskStream cancels the context of its timeout when it returns.
CallReturns ==
  /\ ~returned
  /\ returned' = TRUE
  /\ ctxDone' = (ctxDone \/ OwnTimeout)
  /\ UNCHANGED <<askVars, others, forwardVars, eventVars, textVars, done, cancelled, panicked, readVars>>

\* The returned cancel function, or the context the caller passed.
Cancel ==
  /\ ~cancelled
  /\ cancelled' = TRUE
  /\ ctxDone' = TRUE
  /\ UNCHANGED <<askVars, others, forwardVars, eventVars, textVars, done, returned, panicked, readVars>>

Receive ==
  /\ returned /\ reading
  /\ textCh # <<>>
  /\ received' = Append(received, Head(textCh))
  /\ textCh' = Tail(textCh)
  /\ UNCHANGED <<askVars, others, forwardVars, eventVars, textOpen, done, callVars, panicked, reading>>

StopReading ==
  /\ returned /\ reading
  /\ reading' = FALSE
  /\ UNCHANGED <<askVars, others, forwardVars, eventVars, textVars, done, callVars, panicked, received>>

EmitOther ==
  /\ others < MaxOthers
  /\ others' = others + 1
  /\ Emit("other")
  /\ UNCHANGED <<askVars, forwardVars, textVars, done, callVars, panicked, readVars>>

-----------------------------------------------------------------------------

AskerStep ==
  /\ ~panicked
  /\ \/ EmitDelta \/ RunReturns \/ CheckContext \/ SendAnswer
     \/ AskerClosesText \/ Unsubscribe \/ CloseDone

ForwarderStep ==
  /\ ~panicked
  /\ ReceiveEvent \/ EventsEnd \/ SeeDone \/ SendHeld \/ Drain \/ ForwarderClosesText

CallerStep == ~panicked /\ (CallReturns \/ Receive)

Next ==
  \/ AskerStep
  \/ ForwarderStep
  \/ CallerStep
  \/ ~panicked /\ (Cancel \/ StopReading \/ EmitOther)

\* The goroutines run on, the call returns, and a consumer that reads, reads.
Spec ==
  /\ Init
  /\ [][Next]_vars
  /\ WF_vars(AskerStep) /\ WF_vars(ForwarderStep) /\ WF_vars(CallerStep)

-----------------------------------------------------------------------------

TypeOK ==
  /\ asker \in {"asking", "check", "send", "close", "unsubscribe", "end", "ended"}
  /\ answered \in BOOLEAN
  /\ deltas \in 0..MaxDeltas /\ others \in 0..MaxOthers
  /\ forwarder \in {"select", "send", "drain", "close", "ended"}
  /\ held \in Fragments
  /\ eventCh \in BoundedSeq(Fragments, Capacity)
  /\ textCh \in BoundedSeq(Fragments, Capacity)
  /\ eventOpen \in BOOLEAN /\ textOpen \in BOOLEAN
  /\ done = (asker = "ended")
  /\ \A b \in {returned, cancelled, panicked, reading} : b \in BOOLEAN
  /\ ctxDone = (cancelled \/ (returned /\ OwnTimeout))
  /\ received \in Seq(Fragments)

\* If the consumer reads to the end, or the context is done some time, nobody is
\* blocked for good: both goroutines end and the channel is closed, or the process
\* ends with a panic.  That happens in a stream that is read and not cancelled,
\* too, but only to the forwarder, with a fragment in hand when the asker closes
\* the channel; to the asker it happens only if the context is done.
StreamEndsOrPanics ==
  ([]reading \/ <>ctxDone)
    => <>(\/ asker = "ended" /\ forwarder = "ended" /\ ~textOpen
          \/ panicked /\ (forwarder = "send" \/ (asker = "send" /\ ctxDone)))

\* A stream whose channel is closed without its caller cancelling it has the
\* answer of its run in it, or has delivered it, however full its channels were
\* and whatever fragments were dropped.
UncancelledStreamCarriesAnswer ==
  ~textOpen /\ answered /\ ~cancelled => "answer" \in Range(received) \cup Range(textCh)

=============================================================================
