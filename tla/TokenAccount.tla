---------------------------- MODULE TokenAccount ----------------------------
(***************************************************************************)
(* What the calls of the model cost and what that does to the context      *)
(* window: CallStream and recordResult of reactor/llmcall.go, driven by    *)
(* the Ask calls of one session.                                           *)
(*                                                                         *)
(* Conversation has the steps in which messages reach window and store;    *)
(* here each message reaches both at once, and the steps in which a call   *)
(* is accounted for are apart.  The window and the store are those of one  *)
(* session, messages are their role and tokens.                            *)
(***************************************************************************)
EXTENDS SlidingWindow

CONSTANTS
  Callers,        \* goroutines that call Ask
  Weights,        \* tokens of a message
  Sections,       \* tokens of the system prompt
  Replies,        \* tokens of a reply, as the provider counts them
  HistoryBudget,  \* historyTokenBudgetRatio of MaxTokens
  MaxTokens,      \* of the model
  MayFail,        \* TRUE: the provider may fail before or in the middle of a stream
  MaxMessages     \* bound: messages in one behaviour

AccountAssumption ==
  /\ Weights \subseteq Nat /\ Replies \subseteq Nat \ {0} /\ Sections \in Nat
  /\ HistoryBudget \in Nat /\ MaxTokens \in Nat /\ MaxMessages \in Nat
  /\ MayFail \in BOOLEAN

VARIABLES
  window,   \* LLMCaller.contextWindow
  log,      \* the session's messages in the store
  records,  \* LLMCaller.records
  streamed, \* history variable: the input of every call that was streamed
  pc,       \* where each call is
  input,    \* the question and the history of its run
  usage     \* the usage it is recording

accounts == <<records, streamed>>
vars == <<window, log, accounts, pc, input, usage>>

NoUsage == [input |-> 0, output |-> 0, remain |-> 0]

Init ==
  /\ window = [messages |-> <<>>, used |-> 0]
  /\ log = <<>>
  /\ records = <<>> /\ streamed = <<>>
  /\ pc = [c \in Callers |-> "idle"]
  /\ input = [c \in Callers |-> <<>>]
  /\ usage = [c \in Callers |-> NoUsage]

Goto(c, where) == pc' = [pc EXCEPT ![c] = where]

-----------------------------------------------------------------------------

\* Mutation: what remains may be negative.
Remaining_Negative == MaxTokens - window.used

\* TokensRemaining.
Remaining == IF window.used > MaxTokens THEN 0 ELSE MaxTokens - window.used

\* persistMessage counts no tokens, AddContextMessage does.
Added(role, tokens, counted) ==
  [messages |-> Append(window.messages, [role |-> role, tokens |-> tokens]),
   used     |-> window.used + (IF counted THEN tokens ELSE 0)]

Slid(w) == IF SlideTriggered(w) THEN Slide(w).window ELSE w

\* Ask reads the history and persists the question, which is sent after it.
Ask(c) ==
  /\ pc[c] = "idle"
  /\ Len(log) < MaxMessages
  /\ \E tokens \in Weights :
       LET question == [role |-> "user", tokens |-> tokens] IN
         /\ input' = [input EXCEPT ![c] = Append(NewestWithin(log, HistoryBudget), question)]
         /\ window' = Added("user", tokens, FALSE)
         /\ log' = Append(log, question)
  /\ Goto(c, "call")
  /\ UNCHANGED <<accounts, usage>>

\* CallStream slides the window and counts the input.  An error before the
\* stream is not recorded, and its text does not parse, which ends the run.
CallStream(c) ==
  /\ pc[c] = "call"
  /\ window' = Slid(window)
  /\ usage' = [usage EXCEPT ![c] = [NoUsage EXCEPT !.input = Sections + Weight(input[c])]]
  /\ \E where \in {"stream"} \cup (IF MayFail THEN {"end"} ELSE {}) : Goto(c, where)
  /\ UNCHANGED <<log, accounts, input>>

\* The output of a call is the total that the provider reports, if it does.
StreamEnds(c) ==
  /\ pc[c] = "stream"
  /\ \E reply \in Replies : \E output \in {0, usage[c].input + reply} :
       usage' = [usage EXCEPT ![c].output = output]
  /\ streamed' = Append(streamed, usage[c].input)
  /\ Goto(c, "read")
  /\ UNCHANGED <<window, log, records, input>>

\* A stream that breaks off is recorded without output; the tokens are spent.
StreamBreaks(c) ==
  /\ MayFail
  /\ pc[c] = "stream"
  /\ streamed' = Append(streamed, usage[c].input)
  /\ Goto(c, "read")
  /\ UNCHANGED <<window, log, records, input, usage>>

\* recordResult reads what remains ...
ReadRemaining(c) ==
  /\ pc[c] = "read"
  /\ usage' = [usage EXCEPT ![c].remain = Remaining]
  /\ Goto(c, "record")
  /\ UNCHANGED <<window, log, accounts, input>>

\* Mutation: the reply is recorded, the input not counted.
Record_NotCounted(c) ==
  /\ pc[c] = "record"
  /\ records' = Append(records, usage[c])
  /\ Goto(c, "think")
  /\ UNCHANGED <<window, log, streamed, input, usage>>

\* Mutation: a call without output is not recorded.
Record_OnlyWithOutput(c) ==
  /\ pc[c] = "record"
  /\ window' = [window EXCEPT !.used = @ + usage[c].input]
  /\ records' = IF usage[c].output > 0 THEN Append(records, usage[c]) ELSE records
  /\ Goto(c, "think")
  /\ UNCHANGED <<log, streamed, input, usage>>

\* ... counts the input in the window and records the usage.  Think passes no
\* session with its call, so that the store is not given the usage.
Record(c) ==
  /\ pc[c] = "record"
  /\ window' = [window EXCEPT !.used = @ + usage[c].input]
  /\ records' = Append(records, usage[c])
  /\ Goto(c, "think")
  /\ UNCHANGED <<log, streamed, input, usage>>

\* A thought or a tool's result is a step: into history, window and store.
Step(c) ==
  /\ pc[c] = "think"
  /\ Len(log) < MaxMessages
  /\ \E tokens \in Weights :
       LET step == [role |-> "assistant", tokens |-> tokens] IN
         /\ input' = [input EXCEPT ![c] = Append(@, step)]
         /\ window' = Added("assistant", tokens, TRUE)
         /\ log' = Append(log, step)
  /\ \E where \in {"call", "end"} : Goto(c, where)
  /\ UNCHANGED <<accounts, usage>>

\* A reply that is no thought ends the run without a step.
NoThought(c) ==
  /\ pc[c] = "think"
  /\ Goto(c, "end")
  /\ UNCHANGED <<window, log, accounts, input, usage>>

\* Ask persists the answer, if there is one, and slides the window.
Answer(c) ==
  /\ pc[c] = "end"
  /\ Len(log) < MaxMessages
  /\ \E tokens \in Weights :
       /\ window' = Slid(Added("assistant", tokens, FALSE))
       /\ log' = Append(log, [role |-> "assistant", tokens |-> tokens])
  /\ Goto(c, "idle")
  /\ UNCHANGED <<accounts, input, usage>>

NoAnswer(c) ==
  /\ pc[c] = "end"
  /\ Goto(c, "idle")
  /\ UNCHANGED <<window, log, accounts, input, usage>>

Next ==
  \E c \in Callers :
    \/ Ask(c) \/ CallStream(c) \/ StreamEnds(c) \/ StreamBreaks(c)
    \/ ReadRemaining(c) \/ Record(c)
    \/ Step(c) \/ NoThought(c) \/ Answer(c) \/ NoAnswer(c)

Spec == Init /\ [][Next]_vars

-----------------------------------------------------------------------------

Messages == [role : {"user", "assistant"}, tokens : Weights]

TypeOK ==
  /\ Range(window.messages) \subseteq Messages /\ window.used \in Nat
  /\ Range(log) \subseteq Messages /\ Len(log) <= MaxMessages
  /\ \A u \in Range(records) : u.input \in Nat /\ u.output \in Nat /\ u.remain \in 0..MaxTokens
  /\ pc \in [Callers -> {"idle", "call", "stream", "read", "record", "think", "end"}]
  /\ \A c \in Callers : Range(input[c]) \subseteq Messages /\ usage[c].remain \in 0..MaxTokens

\* The calls whose usage is about to be recorded.
InFlight == {c \in Callers : pc[c] \in {"read", "record"}}

Total(numbers) == FoldLeft(LAMBDA total, n : total + n, 0, numbers)

Spent(calls) == Total([i \in DOMAIN calls |-> calls[i].input])

SpentBy(callers) == FoldSet(LAMBDA c, total : total + usage[c].input, 0, callers)

\* However the calls of several callers interleave, fail or break off, the
\* records account for the input of every stream exactly once, but for those
\* that are about to be recorded.
RecordsAccountForStreams ==
  Spent(records) + SpentBy(InFlight) = Total(streamed)

\* Once a call is recorded the window's count covers the messages in it, so
\* that a slide is late by the messages of one exchange at most.
CountCoversWindow ==
  \A c \in Callers : pc[c] = "think" => window.used >= Weight(window.messages)

=============================================================================
