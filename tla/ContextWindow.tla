---------------------------- MODULE ContextWindow ----------------------------
(***************************************************************************)
(* The context window of a session, core/ctx_win.go, used directly: its    *)
(* owner adds messages and tokens, slides it when it is triggered, and     *)
(* resets it.  Every operation holds the window's lock.                    *)
(***************************************************************************)
EXTENDS SlidingWindow

CONSTANTS
  Roles,        \* of messages; "system" among them or not
  Weights,      \* tokens a message can have
  MaxMessages,  \* bound: messages added between two resets
  MaxUsed       \* bound: tokens counted

WindowAssumption == MaxMessages \in Nat /\ MaxUsed \in Nat /\ Weights \subseteq Nat

Messages == [role : Roles, tokens : Weights]

VARIABLES
  window,   \* Messages and TokensUsed
  log,      \* history variable: all messages added since the last reset
  reported  \* history variable: those Slide has returned as evicted

vars == <<window, log, reported>>

Init ==
  /\ window = [messages |-> <<>>, used |-> 0]
  /\ log = <<>>
  /\ reported = <<>>

AddMessage ==
  /\ Len(log) < MaxMessages
  /\ \E m \in Messages :
       /\ window' = [window EXCEPT !.messages = Append(@, m)]
       /\ log' = Append(log, m)
  /\ UNCHANGED reported

AddTokens ==
  /\ \E n \in Weights :
       /\ window.used + n <= MaxUsed
       /\ window' = [window EXCEPT !.used = @ + n]
  /\ UNCHANGED <<log, reported>>

\* What doSlide and checkSlide do with a window.
SlideWindow ==
  /\ SlideTriggered(window)
  /\ window' = Slide(window).window
  /\ reported' = reported \o Slide(window).evicted
  /\ UNCHANGED log

\* Mutation: the counter is cleared, the messages are not.
Reset_KeepsMessages ==
  /\ window' = [window EXCEPT !.used = 0]
  /\ log' = <<>> /\ reported' = <<>>

Reset ==
  /\ window' = [messages |-> <<>>, used |-> 0]
  /\ log' = <<>> /\ reported' = <<>>

Next == AddMessage \/ AddTokens \/ SlideWindow \/ Reset

Spec == Init /\ [][Next]_vars

-----------------------------------------------------------------------------

TypeOK ==
  /\ window \in [messages : BoundedSeq(Messages, MaxMessages), used : Nat]
  /\ log \in BoundedSeq(Messages, MaxMessages)
  /\ reported \in BoundedSeq(Messages, MaxMessages)

\* However often a window slides, and whatever is added in between, it keeps
\* the end of the conversation in order, with the messages that are to be
\* preserved, and has reported every other message exactly once, in order.
\* System messages are the exception: they leave without being reported.
SlidesKeepTheEnd ==
  LET gone == SubSeq(log, 1, Len(log) - Len(window.messages)) IN
    /\ IsSuffix(window.messages, log)
    /\ reported = NonSystem(gone)
    /\ gone # <<>> => Len(NonSystem(window.messages)) >= MinPreserve

\* A slide does not leave the next call over the target, unless it must keep
\* the messages it preserves, or is limited to a batch.
ReachesTarget ==
  log' = log /\ window'.messages # window.messages =>
    \/ Weight(window'.messages) <= TargetTokens
    \/ Len(NonSystem(window'.messages)) <= MinPreserve
    \/ MaxBatch > 0 /\ Len(reported') - Len(reported) = MaxBatch

=============================================================================
