------------------------- MODULE MCConversation_proof -------------------------
(***************************************************************************)
(* Proofs about the bookkeeping of conversations (MCConversation).  A      *)
(* behaviour is of one of its instances and leaves the others as they      *)
(* were, so each has an invariant of its own:                              *)
(*                                                                         *)
(*   ConversationInv  for Conversation, with the calls of one goroutine    *)
(*                    (Serial) and of several;                             *)
(*   RolesInv         for Roles, with one agent that is switched between   *)
(*                    its calls (Switched) and clones that are switched at *)
(*                    any time (Cloned);                                   *)
(*   AccountInv       for TokenAccount, of one caller (OneCaller) and of   *)
(*                    two that share a reactor (TwoCallers);               *)
(*   WindowInv        for ContextWindow, one window by itself (Window).    *)
(***************************************************************************)
EXTENDS MCConversation, Conversation_proof

-----------------------------------------------------------------------------

(***************************************************************************)
(* Conversation, for one caller and for several.                           *)
(***************************************************************************)

\* The operators of the instance Serial are those of Conversation.
LEMMA SerialOperators ==
  /\ \A ms : Serial!Weight(ms) = Weight(ms) /\ Serial!NonSystem(ms) = NonSystem(ms)
  /\ \A w : Serial!Slide(w) = Slide(w) /\ Serial!SlideTriggered(w) = SlideTriggered(w)
  /\ \A s, t : Serial!IsSuffix(s, t) = IsSuffix(s, t)
       /\ Serial!RemoveFirst(s, t) = RemoveFirst(s, t)
  /\ \A s : Serial!Range(s) = Range(s) /\ Serial!Max(s) = Max(s) /\ Serial!Suffixes(s) = Suffixes(s)
  /\ \A ms, n : Serial!NewestWithin(ms, n) = NewestWithin(ms, n)
  /\ \A s : Serial!IsInjective(s) = IsInjective(s)
<1>1. \A ms : Serial!Weight(ms) = Weight(ms)
  BY DEF Weight, FoldLeft, MapThenFoldSet, Max,
         Serial!Weight, Serial!FoldLeft, Serial!MapThenFoldSet, Serial!Max
<1>2. \A ms : Serial!NonSystem(ms) = NonSystem(ms)
  BY DEF NonSystem, FoldLeft, MapThenFoldSet, Max, Evictable,
         Serial!NonSystem, Serial!FoldLeft, Serial!MapThenFoldSet, Serial!Max, Serial!Evictable
<1>3. \A w : Serial!Slide(w) = Slide(w) /\ Serial!SlideTriggered(w) = SlideTriggered(w)
  <2> SUFFICES ASSUME NEW w
               PROVE  Serial!Slide(w) = Slide(w) /\ Serial!SlideTriggered(w) = SlideTriggered(w)
    OBVIOUS
  <2>1. \A ms, k : Serial!SlideStops(ms, k) <=> SlideStops(ms, k)
    BY <1>1, <1>2 DEF SlideStops, Serial!SlideStops
  <2>2. Serial!Slide(w) = Slide(w)
    BY <1>1, <1>2, <2>1 DEF Slide, Serial!Slide
  <2>3. Serial!SlideTriggered(w) = SlideTriggered(w)
    BY DEF SlideTriggered, Serial!SlideTriggered
  <2> QED
    BY <2>2, <2>3
<1>4. \A s, t : Serial!IsSuffix(s, t) = IsSuffix(s, t)
  BY DEF Serial!IsSuffix, IsSuffix, Serial!IsPrefix, IsPrefix, Serial!Reverse, Reverse
<1>5. \A s, t : Serial!RemoveFirst(s, t) = RemoveFirst(s, t)
  BY DEF Serial!RemoveFirst, RemoveFirst, Serial!RemoveAt, RemoveAt,
         Serial!SelectInSeq, SelectInSeq, Serial!Min, Min
<1>6. \A s : Serial!Range(s) = Range(s) /\ Serial!Max(s) = Max(s)
        /\ Serial!Suffixes(s) = Suffixes(s)
  BY DEF Serial!Range, Range, Serial!Max, Max, Serial!Suffixes, Suffixes
<1>7. \A ms, n : Serial!NewestWithin(ms, n) = NewestWithin(ms, n)
  BY <1>1, <1>6 DEF Serial!NewestWithin, NewestWithin
<1>8. \A s : Serial!IsInjective(s) = IsInjective(s)
  BY DEF Serial!IsInjective, IsInjective
<1> QED
  BY <1>1, <1>2, <1>3, <1>4, <1>5, <1>6, <1>7, <1>8

\* The instance's Next, for its one caller and its bound.
LEMMA SerialStep ==
  ASSUME Serial!Next
  PROVE  StepUpTo(SerialMessages, c1)
<1>0. /\ \A s, m, b : Serial!StoreAppend(s, m, b) <=> StoreAppend(s, m, b)
      /\ Serial!CheckSlide <=> CheckSlide
      /\ Serial!CurrentContext = CurrentContext
      /\ \A c, s, r : Serial!Compose(c, s, r) <=> ComposeUpTo(SerialMessages, c, s, r)
      /\ \A c, where : Serial!Goto(c, where) <=> Goto(c, where)
      /\ \A s, b : Serial!FreshWindow(s, b) = FreshWindow(s, b)
      /\ Serial!agentVars = agentVars /\ Serial!callerVars = callerVars
  <2>1. \A s, m, b : Serial!StoreAppend(s, m, b) <=> StoreAppend(s, m, b)
    BY SerialOperators DEF Serial!StoreAppend, StoreAppend
  <2>2. Serial!CheckSlide <=> CheckSlide
    BY SerialOperators DEF Serial!CheckSlide, CheckSlide
  <2>3. Serial!CurrentContext = CurrentContext
    BY SerialOperators DEF Serial!CurrentContext, CurrentContext
  <2>4. \A c, s, r : Serial!Compose(c, s, r) <=> ComposeUpTo(SerialMessages, c, s, r)
    BY DEF Serial!Compose, ComposeUpTo
  <2>5. \A c, where : Serial!Goto(c, where) <=> Goto(c, where)
    BY DEF Serial!Goto, Goto
  <2>6. /\ \A s, b : Serial!FreshWindow(s, b) = FreshWindow(s, b)
        /\ Serial!agentVars = agentVars /\ Serial!callerVars = callerVars
    BY DEF Serial!FreshWindow, FreshWindow, Serial!agentVars, agentVars,
           Serial!callerVars, callerVars
  <2> QED
    BY <2>1, <2>2, <2>3, <2>4, <2>5, <2>6
<1>1. PICK c \in {c1} :
        \/ Serial!Ask(c) \/ Serial!BindWindow(c) \/ Serial!MakeWindow(c)
        \/ Serial!AddToWindow(c) \/ Serial!AppendToStore(c) \/ Serial!Think(c)
        \/ Serial!RecordResult(c) \/ Serial!PersistStep(c) \/ Serial!AddContextMessage(c)
        \/ Serial!AppendStep(c) \/ Serial!Answer(c) \/ Serial!NoAnswer(c)
        \/ Serial!SlideAndReturn(c) \/ Serial!NewSession(c)
  BY DEF Serial!Next
<1>2. Serial!Ask(c) => AskUpTo(SerialMessages, c)
  BY <1>0 DEF Serial!Ask, AskUpTo
<1>3. Serial!BindWindow(c) => BindWindow(c)
  BY <1>0 DEF Serial!BindWindow, BindWindow, Serial!agentVars, agentVars
<1>4. Serial!MakeWindow(c) => MakeWindow(c)
  BY <1>0 DEF Serial!MakeWindow, MakeWindow
<1>5. Serial!AddToWindow(c) => AddToWindow(c)
  BY <1>0 DEF Serial!AddToWindow, AddToWindow
<1>6. Serial!AppendToStore(c) => AppendToStore(c)
  BY <1>0 DEF Serial!AppendToStore, AppendToStore
<1>7. Serial!Think(c) => Think(c)
  BY <1>0 DEF Serial!Think, Think
<1>8. Serial!RecordResult(c) => RecordResult(c)
  BY <1>0, SerialOperators DEF Serial!RecordResult, RecordResult
<1>9. Serial!PersistStep(c) => PersistStepUpTo(SerialMessages, c)
  BY <1>0 DEF Serial!PersistStep, PersistStepUpTo
<1>10. Serial!AddContextMessage(c) => AddContextMessage(c)
  BY <1>0 DEF Serial!AddContextMessage, AddContextMessage
<1>11. Serial!AppendStep(c) => AppendStep(c)
  BY <1>0 DEF Serial!AppendStep, AppendStep
<1>12. Serial!Answer(c) => AnswerUpTo(SerialMessages, c)
  BY <1>0 DEF Serial!Answer, AnswerUpTo
<1>13. Serial!NoAnswer(c) => NoAnswer(c)
  BY <1>0 DEF Serial!NoAnswer, NoAnswer, Serial!agentVars, agentVars
<1>14. Serial!SlideAndReturn(c) => SlideAndReturn(c)
  BY <1>0 DEF Serial!SlideAndReturn, SlideAndReturn
<1>15. Serial!NewSession(c) => AnySession(c)
  BY <1>0, SerialOperators DEF Serial!NewSession, AnySession, Serial!callerVars, callerVars
<1>16. StepUpTo(SerialMessages, c)
  BY <1>1, <1>2, <1>3, <1>4, <1>5, <1>6, <1>7, <1>8, <1>9, <1>10, <1>11, <1>12, <1>13,
     <1>14, <1>15, Zenon DEF StepUpTo
<1> QED
  BY <1>16

ConversationInv ==
  /\ ExchangesStayInTheirSession
  /\ scope = "concurrent" => Types(Callers, MaxMessages) /\ CallsOf(Callers, MaxMessages)
  /\ scope = "serial" =>
       /\ Types({c1}, SerialMessages) /\ CallsOf({c1}, SerialMessages)
       /\ CallerHasWindow(c1) /\ LogsAreOfTheirSession /\ WindowEndsLog(c1)

LEMMA InitTypes ==
  ASSUME NEW C, NEW limit \in Nat,
         windows = <<>>, current = 0, store = [s \in Sessions |-> <<>>], recent = <<>>,
         named = {}, sent = 0, pc = [c \in C |-> "idle"], session = [c \in C |-> None],
         history = [c \in C |-> <<>>], msg = [c \in C |-> None], held = [c \in C |-> 0]
  PROVE  Types(C, limit) /\ CallsOf(C, limit) /\ ExchangesStayInTheirSession
<1> DEFINE M == MessagesUpTo(limit)
           W == WindowsUpTo(limit)
<1>1. windows \in Seq(W) /\ Len(windows) = 0 /\ current \in 0..Len(windows)
  OBVIOUS
<1>2. store \in [Sessions -> Seq(M)] /\ history \in [C -> Seq(M)]
  OBVIOUS
<1>3. recent \in Seq(Sessions) /\ IsInjective(recent) /\ named \subseteq Range(recent)
  BY DEF IsInjective
<1>4. /\ pc \in [C -> Locations] /\ session \in [C -> Sessions \cup {None}]
      /\ msg \in [C -> M \cup {None}] /\ held \in [C -> 0..Len(windows)] /\ sent \in 0..limit
  BY <1>1 DEF Locations
<1>5. CallsOf(C, limit)
  BY DEF CallsOf, CallOf
<1>6. ExchangesStayInTheirSession
  BY DEF ExchangesStayInTheirSession, Range
<1> QED
  BY <1>1, <1>2, <1>3, <1>4, <1>5, <1>6 DEF Types

LEMMA ConversationInit == MCInit => ConversationInv
<1> SUFFICES ASSUME MCInit PROVE ConversationInv
  OBVIOUS
<1>0. MaxMessages \in Nat /\ SerialMessages \in Nat
  BY ConversationAssumption, MCAssumption DEF Serial!ConversationAssumption
<1>1. CASE scope = "serial"
  <2>1. Serial!Init
    BY <1>1 DEF MCInit
  <2>2. Types({c1}, SerialMessages) /\ CallsOf({c1}, SerialMessages) /\ ExchangesStayInTheirSession
    BY <1>0, <2>1, InitTypes DEF Serial!Init
  <2>3. CallerHasWindow(c1) /\ LogsAreOfTheirSession /\ WindowEndsLog(c1)
    BY <2>1 DEF Serial!Init, CallerHasWindow, LogsAreOfTheirSession, WindowEndsLog
  <2> QED
    BY <1>1, <2>2, <2>3 DEF ConversationInv
<1>2. CASE scope # "serial"
  <2>1. Init
    BY <1>2 DEF MCInit
  <2>2. Types(Callers, MaxMessages) /\ CallsOf(Callers, MaxMessages) /\ ExchangesStayInTheirSession
    BY <1>0, <2>1, InitTypes DEF Init
  <2> QED
    BY <1>2, <2>2 DEF ConversationInv
<1> QED
  BY <1>1, <1>2

LEMMA ConversationNext ==
  ConversationInv /\ [MCNext]_<<scope, vars, accountVars, rolesVars>> => ConversationInv'
<1> SUFFICES ASSUME ConversationInv, [MCNext]_<<scope, vars, accountVars, rolesVars>>
             PROVE  ConversationInv'
  OBVIOUS
<1>0. /\ MaxMessages \in Nat /\ SerialMessages \in Nat
      /\ scope' = scope
  BY ConversationAssumption, MCAssumption DEF Serial!ConversationAssumption, MCNext
<1>1. CASE scope = "serial" /\ Serial!Next
  <2>1. StepUpTo(SerialMessages, c1)
    BY <1>1, SerialStep
  <2>2. /\ Types({c1}, SerialMessages) /\ CallsOf({c1}, SerialMessages)
        /\ CallerHasWindow(c1) /\ LogsAreOfTheirSession /\ WindowEndsLog(c1)
        /\ ExchangesStayInTheirSession /\ c1 \in {c1}
    BY <1>1 DEF ConversationInv
  <2>3. Types({c1}, SerialMessages)'
    BY <1>0, <2>1, <2>2, TypesStep
  <2>4. CallsOf({c1}, SerialMessages)'
    BY <1>0, <2>1, <2>2, CallsStep
  <2>5. ExchangesStayInTheirSession'
    BY <1>0, <2>1, <2>2, ExchangesStep
  <2>6. CallerHasWindow(c1)' /\ LogsAreOfTheirSession' /\ WindowEndsLog(c1)'
    BY <1>0, <2>1, <2>2, CallerHasWindowStep, LogsStep, WindowEndsLogStep
  <2> QED
    BY <1>0, <1>1, <2>3, <2>4, <2>5, <2>6 DEF ConversationInv
<1>2. CASE scope = "concurrent" /\ Next
  <2>1. PICK c \in Callers : StepUpTo(MaxMessages, c)
    BY <1>2, ConcurrentStep
  <2>2. /\ Types(Callers, MaxMessages) /\ CallsOf(Callers, MaxMessages)
        /\ ExchangesStayInTheirSession
    BY <1>2 DEF ConversationInv
  <2>3. Types(Callers, MaxMessages)'
    BY <1>0, <2>1, <2>2, TypesStep
  <2>4. CallsOf(Callers, MaxMessages)'
    BY <1>0, <2>1, <2>2, CallsStep
  <2>5. ExchangesStayInTheirSession'
    BY <1>0, <2>1, <2>2, ExchangesStep
  <2> QED
    BY <1>0, <1>2, <2>3, <2>4, <2>5 DEF ConversationInv
<1>3. CASE UNCHANGED vars
  <2>1. UNCHANGED <<windows, current, store, recent, named, sent, pc, session, history, msg, held>>
    BY <1>3 DEF vars, agentVars, callerVars
  <2>2. /\ ExchangesStayInTheirSession' = ExchangesStayInTheirSession
        /\ CallerHasWindow(c1)' = CallerHasWindow(c1)
             /\ LogsAreOfTheirSession' = LogsAreOfTheirSession
        /\ WindowEndsLog(c1)' = WindowEndsLog(c1)
    BY <2>1 DEF ExchangesStayInTheirSession, CallerHasWindow, LogsAreOfTheirSession,
                WindowEndsLog, Pending
  <2>3. \A C, limit : Types(C, limit)' = Types(C, limit) /\ CallsOf(C, limit)' = CallsOf(C, limit)
    BY <2>1 DEF Types, CallsOf, CallOf
  <2> QED
    BY <1>0, <2>2, <2>3 DEF ConversationInv
<1>4. (scope = "serial" /\ Serial!Next) \/ (scope = "concurrent" /\ Next) \/ UNCHANGED vars
  BY DEF MCNext
<1> QED
  BY <1>1, <1>2, <1>3, <1>4

LEMMA ConversationInvariant == MCSpec => []ConversationInv
<1> QED
  BY ConversationInit, ConversationNext, PTL DEF MCSpec

\* What the two invariants of the run state of these scopes.
LEMMA ConcurrentTypes ==
  ASSUME Types(Callers, MaxMessages), CallsOf(Callers, MaxMessages)
  PROVE  TypeOK
<1> DEFINE M == MessagesUpTo(MaxMessages)
<1>0. M = Messages
  BY DEF MessagesUpTo, Messages
<1>1. ASSUME NEW ms \in Seq(M) PROVE Range(ms) \subseteq Messages
  <2> HIDE DEF M
  <2> QED
    BY <1>0, <1>1 DEF Range
<1>2. ASSUME NEW i \in DOMAIN windows
      PROVE  windows[i].session \in Sessions /\ windows[i].messages \in Seq(M)
               /\ windows[i].used \in Nat
  <2>1. windows[i] \in WindowsUpTo(MaxMessages)
    BY DEF Types
  <2> QED
    BY <2>1 DEF WindowsUpTo
<1>3. /\ \A s \in Sessions : store[s] \in Seq(M)
      /\ \A c \in Callers : history[c] \in Seq(M)
      /\ \A c \in Callers : msg[c] \in M \cup {None} /\ held[c] \in 0..Len(windows)
  BY DEF Types
<1>4. /\ current \in 0..Len(windows)
      /\ Range(recent) \subseteq Sessions /\ IsInjective(recent) /\ named \subseteq Range(recent)
      /\ sent \in 0..MaxMessages
      /\ pc \in [Callers -> Locations] /\ session \in [Callers -> Sessions \cup {None}]
  BY DEF Types, Range
<1>5. \A c \in Callers : pc[c] \notin {"idle", "bind", "make"} => held[c] # 0
  BY DEF CallsOf, CallOf
<1> HIDE DEF M
<1> QED
  BY <1>0, <1>1, <1>2, <1>3, <1>4, <1>5 DEF TypeOK

LEMMA SerialTypes ==
  ASSUME Types({c1}, SerialMessages), CallsOf({c1}, SerialMessages)
  PROVE  Serial!TypeOK
<1> DEFINE M == MessagesUpTo(SerialMessages)
<1>0. M = Serial!Messages /\ Locations = Serial!Locations
  BY DEF MessagesUpTo, Serial!Messages, Serial!Locations, Locations
<1>1. ASSUME NEW ms \in Seq(M) PROVE Serial!Range(ms) \subseteq Serial!Messages
  <2> HIDE DEF M
  <2> QED
    BY <1>0, <1>1 DEF Serial!Range
<1>2. ASSUME NEW i \in DOMAIN windows
      PROVE  windows[i].session \in Sessions /\ windows[i].messages \in Seq(M)
               /\ windows[i].used \in Nat
  <2>1. windows[i] \in WindowsUpTo(SerialMessages)
    BY DEF Types
  <2> QED
    BY <2>1 DEF WindowsUpTo
<1>3. /\ \A s \in Sessions : store[s] \in Seq(M)
      /\ \A c \in {c1} : history[c] \in Seq(M)
      /\ \A c \in {c1} : msg[c] \in M \cup {None} /\ held[c] \in 0..Len(windows)
  BY DEF Types
<1>4. /\ current \in 0..Len(windows)
      /\ Range(recent) \subseteq Sessions /\ IsInjective(recent) /\ named \subseteq Range(recent)
      /\ sent \in 0..SerialMessages
      /\ pc \in [{c1} -> Locations] /\ session \in [{c1} -> Sessions \cup {None}]
  BY DEF Types, Range
<1>5. \A c \in {c1} : pc[c] \notin {"idle", "bind", "make"} => held[c] # 0
  BY DEF CallsOf, CallOf
<1>6. Serial!Range(recent) = Range(recent) /\ Serial!IsInjective(recent) = IsInjective(recent)
  BY SerialOperators
<1> HIDE DEF M
<1> QED
  BY <1>0, <1>1, <1>2, <1>3, <1>4, <1>5, <1>6 DEF Serial!TypeOK

LEMMA SerialWindow ==
  ASSUME Types({c1}, SerialMessages), WindowEndsLog(c1)
  PROVE  Serial!WindowIsRecentLog
<1> SUFFICES ASSUME current # 0, pc[c1] \notin {"log", "stepLog"}
             PROVE  Serial!IsSuffix(windows[current].messages, store[windows[current].session])
  BY DEF Serial!WindowIsRecentLog
<1> DEFINE M == MessagesUpTo(SerialMessages)
<1>1. windows[current] \in WindowsUpTo(SerialMessages)
  BY DEF Types
<1>2. windows[current].messages \in Seq(M) /\ windows[current].session \in Sessions
  BY <1>1 DEF WindowsUpTo
<1>3. store[windows[current].session] \in Seq(M)
  BY <1>2 DEF Types
<1>4. IsEndOf(windows[current].messages, store[windows[current].session])
  BY DEF WindowEndsLog, Pending
<1> HIDE DEF M
<1>5. IsSuffix(windows[current].messages, store[windows[current].session])
  BY <1>2, <1>3, <1>4, SuffixIsEnd
<1> QED
  BY <1>5, SerialOperators

(***************************************************************************)
(* The question and answer of a call are in the log of its session and in  *)
(* no window of another, whoever else calls and replaces the agent's       *)
(* window in the middle of it; and all that the calls of one caller        *)
(* persist is in the log of their session.                                 *)
(***************************************************************************)
THEOREM ConversationsStayApart == MCSpec => []SessionsStayApart
<1>1. ConversationInv => SessionsStayApart
  <2> SUFFICES ASSUME ConversationInv PROVE SessionsStayApart
    OBVIOUS
  <2>1. scope = "concurrent" => TypeOK
    BY ConcurrentTypes DEF ConversationInv
  <2>2. scope = "serial" => Serial!MessagesStayInTheirSession
    BY DEF ConversationInv, LogsAreOfTheirSession, Serial!MessagesStayInTheirSession
  <2> QED
    BY <2>1, <2>2 DEF SessionsStayApart, ConversationInv
<1> QED
  BY <1>1, ConversationInvariant, PTL

(***************************************************************************)
(* The proof that a window is the end of its log goes on with Roles, for   *)
(* one agent that is switched between its calls and for several at any     *)
(* time.  What both keep is stated for any agents and any bound.           *)
(***************************************************************************)

RoleMessagesUpTo(A, limit) == [n : 1..limit, agent : A, name : Names]
RoleWindowsUpTo(A, limit) ==
  [session : Sessions, role : Names \cup {None}, messages : Seq(RoleMessagesUpTo(A, limit))]
Reactors == [window : Nat, pause : BOOLEAN, snapshot : BOOLEAN]
Calls == [pc : {"idle", "run", "answer"}, session : Sessions \cup {None}, reactor : Nat,
          asked : BOOLEAN]

WindowOf(r) == reactors[r].window
Message(a) == [n |-> said + 1, agent |-> a, name |-> name[a]]

PersistUpTo(limit, a, s, rs) ==
  LET r == reactor[a]
      w == WindowOf(r)
  IN /\ said < limit
     /\ said' = said + 1
     /\ IF w # 0 /\ made[w].session = s
        THEN /\ made' = [made EXCEPT ![w].messages = Append(@, Message(a))]
             /\ reactors' = rs
        ELSE /\ made' = Append(made, Switched!Window(s, None, <<Message(a)>>))
             /\ reactors' = [rs EXCEPT ![r].window = Len(made) + 1]
     /\ Switched!StoreAppend(s, name[a], Message(a))

RoleAsk(limit, a) ==
  /\ name[a] # None
  /\ call[a].pc = "idle"
  /\ \E s \in Sessions :
       /\ PersistUpTo(limit, a, s, reactors)
       /\ call' = [call EXCEPT ![a] =
            [pc |-> "run", session |-> s, reactor |-> reactor[a], asked |-> TRUE]]
  /\ UNCHANGED <<name, reactor>>

RoleStep(limit, a) ==
  LET w == WindowOf(call[a].reactor)
  IN /\ call[a].pc = "run"
     /\ said < limit
     /\ said' = said + 1
     /\ made' = [made EXCEPT ![w].messages = Append(@, Message(a))]
     /\ Switched!StoreAppend(made[w].session, made[w].role, Message(a))
     /\ UNCHANGED <<name, reactor, reactors, call>>

RoleAnswer(limit, a) ==
  /\ call[a].pc = "answer"
  /\ \/ PersistUpTo(limit, a, call[a].session, reactors)
     \/ UNCHANGED <<reactors, made, logs, active, role, said>>
  /\ call' = [call EXCEPT ![a] = Switched!Idle]
  /\ UNCHANGED <<name, reactor>>

RoleResume(limit, a) ==
  /\ call[a].pc = "idle"
  /\ reactor[a] # 0 /\ reactors[reactor[a]].snapshot
  /\ \E s \in Sessions :
       LET taken == [reactors EXCEPT ![reactor[a]].snapshot = FALSE] IN
         /\ \/ PersistUpTo(limit, a, s, taken)
            \/ reactors' = taken /\ UNCHANGED <<made, logs, active, role, said>>
         /\ call' = [call EXCEPT ![a] =
              [pc |-> "run", session |-> s, reactor |-> reactor[a], asked |-> FALSE]]
  /\ UNCHANGED <<name, reactor>>

RoleSession(a, s) ==
  /\ name[a] # None
  /\ made' = Append(made, Switched!Window(s, name[a], <<>>))
  /\ reactors' = [reactors EXCEPT ![reactor[a]].window = Len(made')]
  /\ Switched!RegisterRole(s, name[a])
  /\ UNCHANGED <<name, reactor, said, call>>

RoleSwitch(free, a, n) ==
  /\ name[a] # None
  /\ free \/ call[a].pc = "idle"
  /\ name' = [name EXCEPT ![a] = n]
  /\ Switched!ResolveSession(a, n)
  /\ reactor' = [reactor EXCEPT ![a] = Len(reactors')]
  /\ UNCHANGED <<said, call>>

RoleClone(a, b, n) ==
  /\ name[a] # None /\ name[b] = None
  /\ name' = [name EXCEPT ![b] = n]
  /\ \E s \in Sessions : made' = Append(made, Switched!Window(s, None, <<>>))
  /\ reactors' = Switched!CloneReactor(Len(made'))
  /\ reactor' = [reactor EXCEPT ![b] = Len(reactors')]
  /\ UNCHANGED <<logs, active, role, said, call>>

RolesStep(A, free, limit, a) ==
  \/ RoleAsk(limit, a) \/ RoleStep(limit, a) \/ Switched!EndRun(a) \/ RoleAnswer(limit, a)
  \/ Switched!Pause(a) \/ RoleResume(limit, a)
  \/ \E s \in Sessions : RoleSession(a, s)
  \/ \E n \in Names : RoleSwitch(free, a, n)
  \/ \E b \in A \ {a}, n \in Names : RoleClone(a, b, n)

\* Next of the two instances of Roles, for any agents and any bound.
LEMMA SwitchedStep ==
  ASSUME Switched!Next
  PROVE  RolesStep({c1}, FALSE, RoleMessages, c1)
<1>1. \A r : Switched!WindowOf(r) = WindowOf(r)
  BY DEF Switched!WindowOf, WindowOf
<1>2. \A a : Switched!NextMessage(a) = Message(a)
  BY DEF Switched!NextMessage, Message
<1>3. \A a, s, rs : Switched!Persist(a, s, rs) <=> PersistUpTo(RoleMessages, a, s, rs)
  BY <1>1, <1>2 DEF Switched!Persist, PersistUpTo
<1>4. PICK a \in {c1} :
        \/ Switched!Ask(a) \/ Switched!PersistStep(a) \/ Switched!EndRun(a) \/ Switched!Answer(a)
        \/ Switched!Pause(a) \/ Switched!Resume(a)
        \/ \E s \in Sessions : Switched!NewSession(a, s)
        \/ \E n \in Names : Switched!Switch(a, n)
        \/ \E b \in {c1} \ {a}, n \in Names : Switched!Clone(a, b, n)
  BY DEF Switched!Next
<1>5. Switched!Ask(a) => RoleAsk(RoleMessages, a)
  BY <1>3 DEF Switched!Ask, RoleAsk
<1>6. Switched!PersistStep(a) => RoleStep(RoleMessages, a)
  BY <1>1, <1>2 DEF Switched!PersistStep, RoleStep
<1>7. Switched!Answer(a) => RoleAnswer(RoleMessages, a)
  BY <1>3 DEF Switched!Answer, RoleAnswer, Switched!storeVars
<1>8. Switched!Resume(a) => RoleResume(RoleMessages, a)
  BY <1>3 DEF Switched!Resume, RoleResume, Switched!storeVars
<1>9. \A s \in Sessions : Switched!NewSession(a, s) => RoleSession(a, s)
  BY DEF Switched!NewSession, RoleSession
<1>10. \A n \in Names : Switched!Switch(a, n) => RoleSwitch(FALSE, a, n)
  BY DEF Switched!Switch, RoleSwitch
<1>11. \A b \in {c1}, n \in Names : Switched!Clone(a, b, n) => RoleClone(a, b, n)
  BY DEF Switched!Clone, RoleClone, Switched!storeVars
<1> QED
  BY <1>4, <1>5, <1>6, <1>7, <1>8, <1>9, <1>10, <1>11, Zenon DEF RolesStep

LEMMA ClonedStep ==
  ASSUME Cloned!Next
  PROVE  \E a \in Callers : RolesStep(Callers, TRUE, CloneMessages, a)
<1>1. \A r : Cloned!WindowOf(r) = WindowOf(r)
  BY DEF Cloned!WindowOf, WindowOf
<1>2. \A a : Cloned!NextMessage(a) = Message(a)
  BY DEF Cloned!NextMessage, Message
<1>3. /\ \A s, t : Cloned!RemoveFirst(s, t) = Switched!RemoveFirst(s, t)
      /\ \A s : Cloned!Range(s) = Switched!Range(s) /\ Cloned!Max(s) = Switched!Max(s)
  BY DEF Cloned!RemoveFirst, Cloned!RemoveAt, Cloned!SelectInSeq, Cloned!Min, Cloned!Range,
       Cloned!Max,
         Switched!RemoveFirst, Switched!RemoveAt, Switched!SelectInSeq, Switched!Min,
         Switched!Range, Switched!Max
<1>4. /\ \A s, n, m : Cloned!StoreAppend(s, n, m) <=> Switched!StoreAppend(s, n, m)
      /\ \A s, n : Cloned!RegisterRole(s, n) <=> Switched!RegisterRole(s, n)
      /\ \A s, n, m : Cloned!Window(s, n, m) = Switched!Window(s, n, m)
      /\ \A w : Cloned!CloneReactor(w) = Switched!CloneReactor(w)
      /\ \A s : Cloned!Fresh(s) <=> Switched!Fresh(s)
      /\ \A n : Cloned!SessionsOf(n) = Switched!SessionsOf(n)
      /\ \A n : Cloned!LastSessionOf(n) = Switched!LastSessionOf(n)
      /\ Cloned!Idle = Switched!Idle
  BY <1>3 DEF Cloned!StoreAppend, Cloned!RegisterRole, Cloned!Window, Cloned!CloneReactor,
         Cloned!Reactor, Cloned!Fresh, Cloned!SessionsOf, Cloned!LastSessionOf, Cloned!Idle,
         Switched!StoreAppend, Switched!RegisterRole, Switched!Window, Switched!CloneReactor,
         Switched!Reactor, Switched!Fresh, Switched!SessionsOf, Switched!LastSessionOf,
           Switched!Idle
<1>5. \A a, s, rs : Cloned!Persist(a, s, rs) <=> PersistUpTo(CloneMessages, a, s, rs)
  <2> SUFFICES ASSUME NEW a, NEW s, NEW rs
               PROVE  Cloned!Persist(a, s, rs) <=> PersistUpTo(CloneMessages, a, s, rs)
    OBVIOUS
  <2>1. /\ Cloned!WindowOf(reactor[a]) = WindowOf(reactor[a])
        /\ Cloned!NextMessage(a) = Message(a)
        /\ Cloned!StoreAppend(s, name[a], Message(a)) <=> Switched!StoreAppend(s, name[a],
             Message(a))
        /\ Cloned!Window(s, None, <<Message(a)>>) = Switched!Window(s, None, <<Message(a)>>)
    BY <1>1, <1>2, <1>4
  <2> QED
    BY <2>1 DEF Cloned!Persist, PersistUpTo
<1>6. \A a, n : Cloned!ResolveSession(a, n) <=> Switched!ResolveSession(a, n)
  BY <1>4 DEF Cloned!ResolveSession, Switched!ResolveSession, Cloned!WindowOf, Switched!WindowOf,
              Cloned!storeVars, Switched!storeVars
<1>7. PICK a \in Callers :
        \/ Cloned!Ask(a) \/ Cloned!PersistStep(a) \/ Cloned!EndRun(a) \/ Cloned!Answer(a)
        \/ Cloned!Pause(a) \/ Cloned!Resume(a)
        \/ \E s \in Sessions : Cloned!NewSession(a, s)
        \/ \E n \in Names : Cloned!Switch(a, n)
        \/ \E b \in Callers \ {a}, n \in Names : Cloned!Clone(a, b, n)
  BY DEF Cloned!Next
<1>8. Cloned!Ask(a) => RoleAsk(CloneMessages, a)
  BY <1>5 DEF Cloned!Ask, RoleAsk
<1>9. Cloned!PersistStep(a) => RoleStep(CloneMessages, a)
  BY <1>1, <1>2, <1>4 DEF Cloned!PersistStep, RoleStep
<1>10. Cloned!EndRun(a) => Switched!EndRun(a)
  BY DEF Cloned!EndRun, Switched!EndRun, Cloned!storeVars, Switched!storeVars
<1>11. Cloned!Answer(a) => RoleAnswer(CloneMessages, a)
  BY <1>4, <1>5 DEF Cloned!Answer, RoleAnswer, Cloned!storeVars
<1>12. Cloned!Pause(a) => Switched!Pause(a)
  BY DEF Cloned!Pause, Switched!Pause, Cloned!storeVars, Switched!storeVars
<1>13. Cloned!Resume(a) => RoleResume(CloneMessages, a)
  BY <1>5 DEF Cloned!Resume, RoleResume, Cloned!storeVars
<1>14. \A s \in Sessions : Cloned!NewSession(a, s) => RoleSession(a, s)
  BY <1>4 DEF Cloned!NewSession, RoleSession
<1>15. \A n \in Names : Cloned!Switch(a, n) => RoleSwitch(TRUE, a, n)
  BY <1>6 DEF Cloned!Switch, RoleSwitch
<1>16. \A b \in Callers, n \in Names : Cloned!Clone(a, b, n) => RoleClone(a, b, n)
  BY <1>4 DEF Cloned!Clone, RoleClone, Cloned!storeVars
<1>17. RolesStep(Callers, TRUE, CloneMessages, a)
  BY <1>7, <1>8, <1>9, <1>10, <1>11, <1>12, <1>13, <1>14, <1>15, <1>16, Zenon DEF RolesStep
<1> QED
  BY <1>17

\* The windows of reactors are windows that were made, and a reactor that keeps
\* a snapshot has one, as does the reactor of a call.
ReactorsHaveWindows ==
  \A r \in 1..Len(reactors) :
    /\ reactors[r].window <= Len(made)
    /\ reactors[r].snapshot => reactors[r].window # 0
StoreTypes(A, limit) ==
  /\ made \in Seq(RoleWindowsUpTo(A, limit))
  /\ logs \in [Sessions -> Seq(RoleMessagesUpTo(A, limit))]
  /\ active \in Seq(Sessions) /\ IsInjective(active)
  /\ role \in [Sessions -> Names \cup {None}]
  /\ said \in 0..limit
AgentTypes(A) ==
  /\ name \in [A -> Names \cup {None}]
  /\ reactors \in Seq(Reactors)
  /\ reactor \in [A -> 0..Len(reactors)]
  /\ call \in [A -> Calls]
  /\ \A a \in A : name[a] # None <=> reactor[a] # 0
CallHasWindow(a) ==
  call[a].pc # "idle" \/ call[a].asked =>
    /\ call[a].session \in Sessions
    /\ call[a].reactor \in 1..Len(reactors) /\ WindowOf(call[a].reactor) # 0
    /\ name[a] # None
RoleTypes(A, limit) ==
  /\ StoreTypes(A, limit) /\ AgentTypes(A)
  /\ ReactorsHaveWindows /\ \A a \in A : CallHasWindow(a)

\* The operators of the instance Switched are those of Conversation.
LEMMA SwitchedOperators ==
  /\ \A s, t : Switched!IsSuffix(s, t) = IsSuffix(s, t)
       /\ Switched!RemoveFirst(s, t) = RemoveFirst(s, t)
  /\ \A s : Switched!Range(s) = Range(s) /\ Switched!Max(s) = Max(s)
  /\ \A s : Switched!IsInjective(s) = IsInjective(s)
<1>1. \A s, t : Switched!IsSuffix(s, t) = IsSuffix(s, t)
  BY DEF Switched!IsSuffix, Switched!IsPrefix, Switched!Reverse, IsSuffix, IsPrefix, Reverse
<1>2. \A s, t : Switched!RemoveFirst(s, t) = RemoveFirst(s, t)
  BY DEF Switched!RemoveFirst, Switched!RemoveAt, Switched!SelectInSeq, Switched!Min,
         RemoveFirst, RemoveAt, SelectInSeq, Min
<1>3. \A s : Switched!Range(s) = Range(s) /\ Switched!Max(s) = Max(s)
  BY DEF Switched!Range, Range, Switched!Max, Max
<1>4. \A s : Switched!IsInjective(s) = IsInjective(s)
  BY DEF Switched!IsInjective, IsInjective
<1> QED
  BY <1>1, <1>2, <1>3, <1>4

\* Append keeps the store typed, and the log of one session grows.
LEMMA RoleAppend ==
  ASSUME NEW A, NEW limit \in Nat, StoreTypes(A, limit), NEW s \in Sessions,
         NEW n \in Names \cup {None}, NEW m \in RoleMessagesUpTo(A, limit),
         Switched!StoreAppend(s, n, m)
  PROVE  /\ logs' \in [Sessions -> Seq(RoleMessagesUpTo(A, limit))]
         /\ \A t \in Sessions : logs'[t] = IF t = s THEN Append(logs[s], m) ELSE logs[t]
         /\ active' \in Seq(Sessions) /\ IsInjective(active')
         /\ role' \in [Sessions -> Names \cup {None}]
<1> DEFINE M == RoleMessagesUpTo(A, limit)
<1>1. /\ logs' = [logs EXCEPT ![s] = Append(@, m)]
      /\ active' = Append(RemoveFirst(active, s), s)
      /\ role' = [role EXCEPT ![s] = IF @ = None THEN n ELSE @]
  BY SwitchedOperators DEF Switched!StoreAppend
<1>2. /\ logs \in [Sessions -> Seq(M)] /\ m \in M
      /\ active \in Seq(Sessions) /\ IsInjective(active) /\ role \in [Sessions -> Names \cup {None}]
  BY DEF StoreTypes
<1> HIDE DEF M
<1>3. /\ logs' \in [Sessions -> Seq(M)]
      /\ \A t \in Sessions : logs'[t] = IF t = s THEN Append(logs[s], m) ELSE logs[t]
  BY <1>1, <1>2
<1>4. active' \in Seq(Sessions) /\ IsInjective(active')
  BY <1>1, <1>2, Refreshed
<1>5. role' \in [Sessions -> Names \cup {None}]
  BY <1>1, <1>2
<1> QED
  BY <1>3, <1>4, <1>5 DEF M

LEMMA RoleRegistered ==
  ASSUME NEW A, NEW limit \in Nat, StoreTypes(A, limit), NEW s \in Sessions, NEW n \in Names,
         Switched!RegisterRole(s, n)
  PROVE  /\ logs' = logs
         /\ active' \in Seq(Sessions) /\ IsInjective(active')
         /\ role' \in [Sessions -> Names \cup {None}]
<1>1. /\ role' = [role EXCEPT ![s] = n] /\ logs' = logs
      /\ active' = IF s \in Range(active) THEN active ELSE Append(active, s)
  BY SwitchedOperators DEF Switched!RegisterRole
<1>2. active \in Seq(Sessions) /\ IsInjective(active) /\ role \in [Sessions -> Names \cup {None}]
  BY DEF StoreTypes
<1>3. active' \in Seq(Sessions) /\ IsInjective(active')
  BY <1>1, <1>2, AppendOnce
<1> QED
  BY <1>1, <1>2, <1>3

\* A step adds a window, writes one or leaves them; no window changes its session.
RoleWindowWith(v, ms) == [v EXCEPT !.messages = ms]

LEMMA RoleWindowTypes ==
  ASSUME NEW A, NEW limit, NEW s \in Sessions, NEW n \in Names \cup {None},
         NEW ms \in Seq(RoleMessagesUpTo(A, limit))
  PROVE  /\ Switched!Window(s, n, ms) \in RoleWindowsUpTo(A, limit)
         /\ Switched!Window(s, n, ms).session = s /\ Switched!Window(s, n, ms).messages = ms
<1> DEFINE M == RoleMessagesUpTo(A, limit)
<1>1. ms \in Seq(M)
  OBVIOUS
<1> HIDE DEF M
<1>2. /\ Switched!Window(s, n, ms) \in [session : Sessions, role : Names \cup {None},
           messages : Seq(M)]
      /\ Switched!Window(s, n, ms).session = s /\ Switched!Window(s, n, ms).messages = ms
  BY <1>1 DEF Switched!Window
<1> QED
  BY <1>2 DEF M, RoleWindowsUpTo

LEMMA RoleWindowAppended ==
  ASSUME NEW A, NEW limit, NEW v \in RoleWindowsUpTo(A, limit), NEW m \in RoleMessagesUpTo(A, limit)
  PROVE  LET w == RoleWindowWith(v, Append(v.messages, m))
         IN /\ w \in RoleWindowsUpTo(A, limit) /\ v.messages \in Seq(RoleMessagesUpTo(A, limit))
            /\ w.session = v.session /\ w.role = v.role /\ w.messages = Append(v.messages, m)
<1> DEFINE M == RoleMessagesUpTo(A, limit)
<1>1. v \in [session : Sessions, role : Names \cup {None}, messages : Seq(M)] /\ m \in M
  BY DEF RoleWindowsUpTo
<1> HIDE DEF M
<1>2. v.messages \in Seq(M) /\ Append(v.messages, m) \in Seq(M)
  BY <1>1
<1> DEFINE ms == Append(v.messages, m)
<1>3. ms \in Seq(M)
  BY <1>2
<1> HIDE DEF ms
<1>4. /\ RoleWindowWith(v, ms) \in [session : Sessions, role : Names \cup {None}, messages : Seq(M)]
      /\ RoleWindowWith(v, ms).session = v.session /\ RoleWindowWith(v, ms).role = v.role
      /\ RoleWindowWith(v, ms).messages = ms
  BY <1>1, <1>3 DEF RoleWindowWith
<1> QED
  BY <1>2, <1>4 DEF ms, M, RoleWindowsUpTo

LEMMA FirstMessage ==
  ASSUME NEW A, NEW limit, NEW s \in Sessions, NEW m \in RoleMessagesUpTo(A, limit)
  PROVE  LET w == Switched!Window(s, None, <<m>>)
         IN w \in RoleWindowsUpTo(A, limit) /\ w.session = s /\ w.messages = <<m>>
<1>1. <<m>> \in Seq(RoleMessagesUpTo(A, limit))
  OBVIOUS
<1> QED
  BY <1>1 DEF Switched!Window, RoleWindowsUpTo

LEMMA MessageType ==
  ASSUME NEW A, NEW limit \in Nat, StoreTypes(A, limit), AgentTypes(A), NEW a \in A,
         name[a] # None, said < limit
  PROVE  Message(a) \in RoleMessagesUpTo(A, limit) /\ said + 1 \in 0..limit
BY DEF StoreTypes, AgentTypes, Message, RoleMessagesUpTo

\* What a persisted message changes: the window of the agent's reactor, or a new
\* one that the reactor has from then on, and the log of the session.
Persisted(a, s, rs, w) ==
  /\ said' = said + 1
  /\ w \in 1..Len(made') /\ made'[w].session = s
  /\ Len(made) <= Len(made')
  /\ \/ /\ w = WindowOf(reactor[a]) /\ made[w].session = s
        /\ made'[w].messages = Append(made[w].messages, Message(a))
     \/ w = Len(made) + 1 /\ made'[w].messages = <<Message(a)>>
  /\ reactors' \in Seq(Reactors) /\ Len(reactors') = Len(reactors)
  /\ \A r \in 1..Len(reactors) :
       /\ reactors'[r].window = IF r = reactor[a] THEN w ELSE reactors[r].window
       /\ reactors'[r].snapshot = rs[r].snapshot
  /\ \A t \in Sessions : logs'[t] = IF t = s THEN Append(logs[s], Message(a)) ELSE logs[t]

\* Persist does what Persisted says.
LEMMA PersistEffect ==
  ASSUME NEW A, NEW limit \in Nat, StoreTypes(A, limit), AgentTypes(A), ReactorsHaveWindows,
         NEW a \in A, name[a] # None, NEW s \in Sessions,
         NEW rs \in Seq(Reactors), Len(rs) = Len(reactors),
         \A r \in 1..Len(reactors) : rs[r].window = reactors[r].window,
         PersistUpTo(limit, a, s, rs)
  PROVE  StoreTypes(A, limit)' /\ \E w \in 1..Len(made') : Persisted(a, s, rs, w)
<1> DEFINE M == RoleMessagesUpTo(A, limit)
           W == RoleWindowsUpTo(A, limit)
           m == Message(a)
           q == reactor[a]
           v == WindowOf(q)
<1>1. m \in M /\ said' \in 0..limit
  BY MessageType DEF PersistUpTo
<1>2. /\ made \in Seq(W) /\ Len(made) \in Nat
      /\ reactors \in Seq(Reactors) /\ Len(reactors) \in Nat
      /\ q \in 1..Len(reactors) /\ v \in 0..Len(made)
      /\ name[a] \in Names \cup {None}
  <2>1. q \in 1..Len(reactors) /\ reactors \in Seq(Reactors)
    BY DEF AgentTypes
  <2>2. reactors[q] \in Reactors /\ reactors[q].window <= Len(made)
    BY <2>1 DEF ReactorsHaveWindows
  <2>3. made \in Seq(W) /\ name[a] \in Names \cup {None}
    BY DEF StoreTypes, AgentTypes
  <2> HIDE DEF W
  <2> QED
    BY <2>1, <2>2, <2>3 DEF WindowOf, Reactors
<1>3. Switched!StoreAppend(s, name[a], m)
  BY DEF PersistUpTo
<1>4. /\ logs' \in [Sessions -> Seq(M)]
      /\ \A t \in Sessions : logs'[t] = IF t = s THEN Append(logs[s], m) ELSE logs[t]
      /\ active' \in Seq(Sessions) /\ IsInjective(active')
      /\ role' \in [Sessions -> Names \cup {None}]
  BY <1>1, <1>2, <1>3, RoleAppend
<1>5. CASE v # 0 /\ made[v].session = s
  <2> DEFINE x == RoleWindowWith(made[v], Append(made[v].messages, m))
  <2>1. v \in 1..Len(made) /\ made[v] \in W
    BY <1>2, <1>5
  <2>2. x \in W /\ x.session = s /\ x.messages = Append(made[v].messages, m)
    <3> DEFINE u == made[v]
    <3>1. m \in RoleMessagesUpTo(A, limit) /\ u \in RoleWindowsUpTo(A, limit)
      BY <1>1, <2>1
    <3>2. u.session = s
      BY <1>5
    <3> HIDE DEF m, u
    <3>3. LET w == RoleWindowWith(u, Append(u.messages, m))
          IN w \in RoleWindowsUpTo(A, limit) /\ w.session = u.session
               /\ w.messages = Append(u.messages, m)
      BY <3>1, RoleWindowAppended
    <3> QED
      BY <3>2, <3>3 DEF u
  <2>3. made' = [made EXCEPT ![v] = x] /\ reactors' = rs
    BY <1>5 DEF PersistUpTo, RoleWindowWith
  <2> HIDE DEF x, W
  <2>4. made' \in Seq(W) /\ made'[v] = x /\ Len(made') = Len(made)
    BY <1>2, <2>1, <2>2, <2>3
  <2>5. StoreTypes(A, limit)'
    BY <1>1, <1>4, <2>4 DEF StoreTypes, W, M
  <2>6. Persisted(a, s, rs, v)
    <3>1. \A r \in 1..Len(reactors) :
            /\ reactors'[r].window = IF r = q THEN v ELSE reactors[r].window
            /\ reactors'[r].snapshot = rs[r].snapshot
      BY <2>3 DEF WindowOf
    <3>2. reactors' \in Seq(Reactors) /\ Len(reactors') = Len(reactors)
      BY <2>3
    <3>3. v \in 1..Len(made') /\ made'[v].session = s /\ Len(made) <= Len(made')
      BY <1>2, <2>1, <2>2, <2>4
    <3>4. made'[v].messages = Append(made[v].messages, m)
      BY <2>2, <2>4
    <3> QED
      BY <1>4, <1>5, <3>1, <3>2, <3>3, <3>4 DEF Persisted, PersistUpTo
  <2> QED
    BY <1>2, <2>1, <2>4, <2>5, <2>6
<1>6. CASE ~(v # 0 /\ made[v].session = s)
  <2> DEFINE x == Switched!Window(s, None, <<m>>)
             k == Len(made) + 1
  <2>1. x \in W /\ x.session = s /\ x.messages = <<m>>
    <3> HIDE DEF m
    <3> QED
      BY <1>1, FirstMessage
  <2>2. made' = Append(made, x) /\ reactors' = [rs EXCEPT ![q].window = k]
    BY <1>6 DEF PersistUpTo
  <2> HIDE DEF x, W
  <2>3. made' \in Seq(W) /\ Len(made') = k /\ made'[k] = x
    BY <1>2, <2>1, <2>2
  <2>4. rs[q] \in Reactors /\ q \in 1..Len(rs) /\ k \in Nat
    BY <1>2
  <2>5. /\ reactors' \in Seq(Reactors) /\ Len(reactors') = Len(rs)
        /\ \A r \in 1..Len(rs) : /\ reactors'[r].window = IF r = q THEN k ELSE rs[r].window
                                 /\ reactors'[r].snapshot = rs[r].snapshot
    <3> DEFINE y == [rs[q] EXCEPT !.window = k]
    <3>1. rs[q] \in [window : Nat, pause : BOOLEAN, snapshot : BOOLEAN]
      BY <2>4 DEF Reactors
    <3>2. /\ y \in [window : Nat, pause : BOOLEAN, snapshot : BOOLEAN]
          /\ y.window = k /\ y.snapshot = rs[q].snapshot
      BY <2>4, <3>1
    <3>3. reactors' = [rs EXCEPT ![q] = y]
      BY <2>2
    <3>4. y \in Reactors
      BY <3>2 DEF Reactors
    <3> HIDE DEF y, k, q
    <3>5. /\ reactors' \in Seq(Reactors) /\ Len(reactors') = Len(rs)
          /\ \A r \in 1..Len(rs) : reactors'[r] = IF r = q THEN y ELSE rs[r]
      BY <2>4, <3>3, <3>4
    <3> QED
      BY <3>2, <3>5
  <2>6. StoreTypes(A, limit)'
    BY <1>1, <1>4, <2>3 DEF StoreTypes, W, M
  <2>7. Persisted(a, s, rs, k)
    <3>1. k \in 1..Len(made') /\ Len(made) <= Len(made')
      BY <1>2, <2>3
    <3>2. made'[k].session = s /\ made'[k].messages = <<m>>
      BY <2>1, <2>3
    <3>3. \A r \in 1..Len(reactors) :
            /\ reactors'[r].window = IF r = q THEN k ELSE reactors[r].window
            /\ reactors'[r].snapshot = rs[r].snapshot
      BY <2>5
    <3> QED
      BY <1>4, <2>5, <3>1, <3>2, <3>3 DEF Persisted, PersistUpTo
  <2> QED
    BY <1>2, <2>3, <2>6, <2>7
<1> QED
  BY <1>5, <1>6

\* What a switch changes: a reactor is added, with the window that the agent had
\* or with a new one, which is empty or holds what the log of its session holds.
Joined(a, w) ==
  /\ w \in 1..Len(made') /\ Len(made) <= Len(made') /\ logs' = logs
  /\ reactors' = Append(reactors, Switched!Reactor(w))
  /\ \/ /\ w = WindowOf(reactor[a]) /\ w # 0
        /\ made'[w].messages = made[w].messages /\ made'[w].session = made[w].session
     \/ w = Len(made) + 1 /\ made'[w].messages \in {<<>>, logs[made'[w].session]}

LEMMA LastSession ==
  ASSUME NEW A, NEW limit \in Nat, StoreTypes(A, limit), NEW n \in Names,
         Switched!SessionsOf(n) # {}
  PROVE  Switched!LastSessionOf(n) \in Sessions
<1> DEFINE S == Switched!SessionsOf(n)
<1>1. active \in Seq(Sessions) /\ Len(active) \in Nat
  BY DEF StoreTypes
<1>2. S \in SUBSET (1..Len(active))
  BY <1>1 DEF Switched!SessionsOf
<1> HIDE DEF S
<1>3. Max(S) \in S
  <2>1. S # {}
    BY DEF S
  <2> QED
    BY <1>1, <1>2, <2>1, MaxIsGreatest
<1>4. Switched!LastSessionOf(n) = active[Max(S)]
  BY SwitchedOperators DEF Switched!LastSessionOf, S
<1>5. Max(S) \in 1..Len(active)
  BY <1>2, <1>3
<1> QED
  BY <1>1, <1>4, <1>5

\* ResolveSession does what Joined says.
LEMMA SwitchEffect ==
  ASSUME NEW A, NEW limit \in Nat, StoreTypes(A, limit), AgentTypes(A), ReactorsHaveWindows,
         NEW a \in A, name[a] # None, NEW n \in Names, Switched!ResolveSession(a, n), said' = said
  PROVE  StoreTypes(A, limit)' /\ \E w \in 1..Len(made') : Joined(a, w)
<1> DEFINE M == RoleMessagesUpTo(A, limit)
           W == RoleWindowsUpTo(A, limit)
           last == Switched!LastSessionOf(n)
           q == reactor[a]
           v == WindowOf(q)
<1>1. /\ made \in Seq(W) /\ Len(made) \in Nat
      /\ logs \in [Sessions -> Seq(M)] /\ role \in [Sessions -> Names \cup {None}]
      /\ active \in Seq(Sessions) /\ IsInjective(active) /\ said \in 0..limit
      /\ q \in 1..Len(reactors) /\ v \in 0..Len(made)
  <2>1. q \in 1..Len(reactors) /\ reactors \in Seq(Reactors)
    BY DEF AgentTypes
  <2>2. reactors[q] \in Reactors /\ reactors[q].window <= Len(made)
    BY <2>1 DEF ReactorsHaveWindows
  <2>3. /\ made \in Seq(W)
        /\ logs \in [Sessions -> Seq(M)] /\ role \in [Sessions -> Names \cup {None}]
        /\ active \in Seq(Sessions) /\ IsInjective(active) /\ said \in 0..limit
    BY DEF StoreTypes
  <2> HIDE DEF W
  <2> QED
    BY <2>1, <2>2, <2>3 DEF WindowOf, Reactors
<1>2. Switched!WindowOf(q) = v
  BY DEF Switched!WindowOf, WindowOf
<1>3. ASSUME NEW s \in Sessions, NEW ms \in Seq(M), ms \in {<<>>, logs[s]},
             made' = Append(made, Switched!Window(s, n, ms)),
             reactors' = Append(reactors, Switched!Reactor(Len(made'))),
             Switched!RegisterRole(s, n)
      PROVE  StoreTypes(A, limit)' /\ Joined(a, Len(made) + 1)
  <2> DEFINE x == Switched!Window(s, n, ms)
  <2>1. x \in W /\ x.session = s /\ x.messages = ms
    BY <1>3, RoleWindowTypes
  <2> HIDE DEF x, W, M
  <2>2. made' = Append(made, x)
    BY <1>3 DEF x
  <2>3. made' \in Seq(W) /\ Len(made') = Len(made) + 1 /\ made'[Len(made) + 1] = x
    BY <1>1, <2>1, <2>2
  <2>4. /\ logs' = logs /\ active' \in Seq(Sessions) /\ IsInjective(active')
        /\ role' \in [Sessions -> Names \cup {None}]
    BY <1>3, RoleRegistered
  <2>5. StoreTypes(A, limit)'
    BY <1>1, <2>3, <2>4 DEF StoreTypes, W, M
  <2>6. Joined(a, Len(made) + 1)
    BY <1>1, <1>3, <2>1, <2>3, <2>4 DEF Joined
  <2> QED
    BY <2>5, <2>6
<1>4. CASE Switched!SessionsOf(n) # {} /\ logs[last] # <<>>
  <2>1. last \in Sessions
    BY <1>4, LastSession
  <2>2. /\ made' = Append(made, Switched!Window(last, n, logs[last]))
        /\ reactors' = Append(reactors, Switched!Reactor(Len(made')))
        /\ Switched!RegisterRole(last, n)
    BY <1>4 DEF Switched!ResolveSession, Switched!CloneReactor
  <2>3. logs[last] \in Seq(M)
    BY <1>1, <2>1
  <2> HIDE DEF last, M
  <2>4. StoreTypes(A, limit)' /\ Joined(a, Len(made) + 1)
    BY <1>3, <2>1, <2>2, <2>3
  <2> QED
    BY <1>1, <2>4 DEF Joined
<1>5. CASE ~(Switched!SessionsOf(n) # {} /\ logs[last] # <<>>) /\ v # 0
  <2> DEFINE y == made[v]
             x == [y EXCEPT !.role = n]
  <2>1. /\ made' = [made EXCEPT ![v].role = n]
        /\ reactors' = Append(reactors, Switched!Reactor(v))
        /\ UNCHANGED <<logs, active, role>>
    BY <1>2, <1>5 DEF Switched!ResolveSession, Switched!CloneReactor, Switched!storeVars
  <2>2. v \in 1..Len(made) /\ y \in W
    BY <1>1, <1>5
  <2>3. x \in W /\ x.session = y.session /\ x.messages = y.messages
    <3> HIDE DEF M, y
    <3>1. y \in [session : Sessions, role : Names \cup {None}, messages : Seq(M)]
      BY <2>2 DEF RoleWindowsUpTo, M
    <3>2. /\ x \in [session : Sessions, role : Names \cup {None}, messages : Seq(M)]
          /\ x.session = y.session /\ x.messages = y.messages
      BY <3>1
    <3> QED
      BY <3>2 DEF RoleWindowsUpTo, M
  <2>4. made' = [made EXCEPT ![v] = x]
    BY <2>1
  <2> HIDE DEF x, W, M
  <2>5. made' \in Seq(W) /\ made'[v] = x /\ Len(made') = Len(made)
    BY <1>1, <2>2, <2>3, <2>4
  <2>6. StoreTypes(A, limit)'
    BY <1>1, <2>1, <2>5 DEF StoreTypes, W, M
  <2>7. Joined(a, v)
    BY <1>5, <2>1, <2>2, <2>3, <2>5 DEF Joined
  <2> QED
    BY <2>2, <2>5, <2>6, <2>7
<1>6. CASE ~(Switched!SessionsOf(n) # {} /\ logs[last] # <<>>) /\ v = 0
  <2>1. PICK s \in Sessions :
          /\ made' = Append(made, Switched!Window(s, n, <<>>))
          /\ reactors' = Append(reactors, Switched!Reactor(Len(made')))
          /\ Switched!RegisterRole(s, n)
    BY <1>2, <1>6 DEF Switched!ResolveSession, Switched!CloneReactor
  <2>2. <<>> \in Seq(M) /\ <<>> \in {<<>>, logs[s]}
    OBVIOUS
  <2> HIDE DEF M
  <2>3. StoreTypes(A, limit)' /\ Joined(a, Len(made) + 1)
    BY <1>3, <2>1, <2>2
  <2> QED
    BY <1>1, <2>3 DEF Joined
<1> QED
  BY <1>4, <1>5, <1>6

\* A reactor that has a window keeps one.
ReactorsKept ==
  /\ reactors' \in Seq(Reactors) /\ Len(reactors) <= Len(reactors')
  /\ ReactorsHaveWindows'
  /\ \A r \in 1..Len(reactors) : reactors[r].window # 0 => reactors'[r].window # 0

\* Reactors that change their window, for one that there is, keep one.
LEMMA ReactorsKeptInPlace ==
  ASSUME reactors \in Seq(Reactors), ReactorsHaveWindows, Len(made) \in Nat, Len(made') \in Nat,
         Len(made) <= Len(made'), reactors' \in Seq(Reactors), Len(reactors') = Len(reactors),
         \A r \in 1..Len(reactors) :
           /\ \/ reactors'[r].window = reactors[r].window
              \/ reactors'[r].window # 0 /\ reactors'[r].window <= Len(made')
           /\ reactors'[r].snapshot => reactors[r].snapshot \/ reactors'[r].window # 0
  PROVE  ReactorsKept
<1>1. \A r \in 1..Len(reactors) : reactors[r].window \in Nat
  <2>1. \A r \in 1..Len(reactors) : reactors[r] \in Reactors
    OBVIOUS
  <2> QED
    BY <2>1 DEF Reactors
<1>2. ReactorsHaveWindows'
  BY <1>1 DEF ReactorsHaveWindows
<1> QED
  BY <1>2 DEF ReactorsKept

LEMMA ReactorsKeptAppend ==
  ASSUME reactors \in Seq(Reactors), ReactorsHaveWindows, Len(made) \in Nat, Len(made') \in Nat,
         Len(made) <= Len(made'), NEW w \in 1..Len(made'),
         reactors' = Append(reactors, Switched!Reactor(w))
  PROVE  /\ ReactorsKept /\ Len(reactors') = Len(reactors) + 1
         /\ reactors'[Len(reactors) + 1].window = w
         /\ \A r \in 1..Len(reactors) : reactors'[r] = reactors[r]
<1> DEFINE x == Switched!Reactor(w)
<1>1. x \in Reactors /\ x.window = w /\ x.snapshot = FALSE
  BY DEF Switched!Reactor, Reactors
<1>2. \A r \in 1..Len(reactors) : reactors[r].window \in Nat
  <2>1. \A r \in 1..Len(reactors) : reactors[r] \in Reactors
    OBVIOUS
  <2> QED
    BY <2>1 DEF Reactors
<1>3. reactors' = Append(reactors, x)
  OBVIOUS
<1> HIDE DEF x
<1>4. /\ reactors' \in Seq(Reactors) /\ Len(reactors') = Len(reactors) + 1
      /\ reactors'[Len(reactors) + 1] = x
      /\ \A r \in 1..Len(reactors) : reactors'[r] = reactors[r]
  BY <1>1, <1>3
<1>5. ReactorsHaveWindows'
  <2> SUFFICES ASSUME NEW r \in 1..Len(reactors')
               PROVE  /\ reactors'[r].window <= Len(made')
                      /\ reactors'[r].snapshot => reactors'[r].window # 0
    BY DEF ReactorsHaveWindows
  <2>1. CASE r = Len(reactors) + 1
    BY <1>1, <1>4, <2>1
  <2>2. CASE r # Len(reactors) + 1
    <3>1. r \in 1..Len(reactors)
      BY <1>4, <2>2
    <3>2. reactors[r].window <= Len(made) /\ (reactors[r].snapshot => reactors[r].window # 0)
      BY <3>1 DEF ReactorsHaveWindows
    <3> QED
      BY <1>2, <1>4, <3>1, <3>2
  <2> QED
    BY <2>1, <2>2
<1> QED
  BY <1>1, <1>4, <1>5 DEF ReactorsKept

LEMMA StoreKept ==
  ASSUME NEW A, NEW limit, StoreTypes(A, limit), UNCHANGED <<made, logs, active, role, said>>
  PROVE  StoreTypes(A, limit)' /\ Len(made) \in Nat /\ Len(made') = Len(made)
<1>1. Len(made) \in Nat
  BY DEF StoreTypes
<1> QED
  BY <1>1 DEF StoreTypes

LEMMA PersistKept ==
  ASSUME NEW A, NEW limit \in Nat, StoreTypes(A, limit), AgentTypes(A), ReactorsHaveWindows,
         NEW a \in A, name[a] # None, NEW s \in Sessions,
         NEW rs \in Seq(Reactors), Len(rs) = Len(reactors),
         \A r \in 1..Len(reactors) :
           rs[r].window = reactors[r].window /\ (rs[r].snapshot => reactors[r].snapshot),
         PersistUpTo(limit, a, s, rs)
  PROVE  /\ StoreTypes(A, limit)' /\ ReactorsKept /\ Len(reactors') = Len(reactors)
         /\ \E w \in 1..Len(made') : Persisted(a, s, rs, w)
         /\ reactors'[reactor[a]].window # 0
<1>1. StoreTypes(A, limit)' /\ \E w \in 1..Len(made') : Persisted(a, s, rs, w)
  BY PersistEffect
<1>2. PICK w \in 1..Len(made') : Persisted(a, s, rs, w)
  BY <1>1
<1>3. /\ Len(made) \in Nat /\ Len(made') \in Nat
      /\ reactors \in Seq(Reactors) /\ reactor[a] \in 1..Len(reactors)
  BY <1>1 DEF StoreTypes, AgentTypes
<1>4. /\ Len(made) <= Len(made') /\ reactors' \in Seq(Reactors) /\ Len(reactors') = Len(reactors)
      /\ \A r \in 1..Len(reactors) :
           /\ reactors'[r].window = IF r = reactor[a] THEN w ELSE reactors[r].window
           /\ reactors'[r].snapshot = rs[r].snapshot
  BY <1>2 DEF Persisted
<1>5. ReactorsKept
  BY <1>3, <1>4, ReactorsKeptInPlace
<1> QED
  BY <1>1, <1>3, <1>4, <1>5

LEMMA RoleStepEffect ==
  ASSUME NEW A, NEW limit \in Nat, RoleTypes(A, limit), NEW a \in A, RoleStep(limit, a)
  PROVE  LET w == WindowOf(call[a].reactor)
             m == Message(a)
         IN /\ StoreTypes(A, limit)' /\ ReactorsKept
            /\ w \in 1..Len(made) /\ Len(made') = Len(made)
            /\ made'[w].messages = Append(made[w].messages, m)
            /\ made'[w].session = made[w].session
            /\ \A t \in Sessions :
                 logs'[t] = IF t = made[w].session THEN Append(logs[t], m) ELSE logs[t]
<1> DEFINE M == RoleMessagesUpTo(A, limit)
           W == RoleWindowsUpTo(A, limit)
           w == WindowOf(call[a].reactor)
           m == Message(a)
           v == made[w]
           x == RoleWindowWith(v, Append(v.messages, m))
<1>1. /\ StoreTypes(A, limit) /\ AgentTypes(A) /\ ReactorsHaveWindows /\ CallHasWindow(a)
      /\ call[a].pc = "run" /\ said < limit
  BY DEF RoleTypes, RoleStep
<1>2. /\ call[a].reactor \in 1..Len(reactors) /\ w # 0 /\ name[a] # None
      /\ reactors \in Seq(Reactors)
  BY <1>1 DEF CallHasWindow, AgentTypes
<1>3. m \in M /\ said' \in 0..limit
  BY <1>1, <1>2, MessageType DEF RoleStep
<1>4. w \in 1..Len(made) /\ made \in Seq(W) /\ Len(made) \in Nat
  <2>1. reactors[call[a].reactor] \in Reactors /\ reactors[call[a].reactor].window <= Len(made)
    BY <1>1, <1>2 DEF ReactorsHaveWindows
  <2>2. made \in Seq(W)
    BY <1>1 DEF StoreTypes
  <2> HIDE DEF W
  <2> QED
    BY <1>2, <2>1, <2>2 DEF WindowOf, Reactors
<1>5. v \in W
  BY <1>4
<1>6. x \in W /\ x.session = v.session /\ x.messages = Append(v.messages, m)
  <2>1. v \in RoleWindowsUpTo(A, limit) /\ m \in RoleMessagesUpTo(A, limit)
    BY <1>3, <1>5
  <2> HIDE DEF v, m
  <2>2. LET u == RoleWindowWith(v, Append(v.messages, m))
        IN u \in RoleWindowsUpTo(A, limit) /\ u.session = v.session
             /\ u.messages = Append(v.messages, m)
    BY <2>1, RoleWindowAppended
  <2> QED
    BY <2>2
<1>7. made' = [made EXCEPT ![w] = x]
  BY DEF RoleStep, RoleWindowWith
<1>8. v.session \in Sessions /\ v.role \in Names \cup {None}
  BY <1>5 DEF RoleWindowsUpTo
<1>9. Switched!StoreAppend(v.session, v.role, m)
  BY DEF RoleStep
<1>10. UNCHANGED reactors
  BY DEF RoleStep
<1> HIDE DEF x, W, M, m
<1>11. made' \in Seq(W) /\ made'[w] = x /\ Len(made') = Len(made)
  BY <1>4, <1>6, <1>7
<1>12. /\ logs' \in [Sessions -> Seq(RoleMessagesUpTo(A, limit))]
       /\ \A t \in Sessions : logs'[t] = IF t = v.session THEN Append(logs[v.session],
            m) ELSE logs[t]
       /\ active' \in Seq(Sessions) /\ IsInjective(active')
       /\ role' \in [Sessions -> Names \cup {None}]
  <2> DEFINE s == v.session
             n == v.role
  <2>1. /\ s \in Sessions /\ n \in Names \cup {None} /\ m \in RoleMessagesUpTo(A, limit)
        /\ Switched!StoreAppend(s, n, m)
    BY <1>3, <1>8, <1>9 DEF M
  <2> HIDE DEF s, n
  <2>2. /\ logs' \in [Sessions -> Seq(RoleMessagesUpTo(A, limit))]
        /\ \A t \in Sessions : logs'[t] = IF t = s THEN Append(logs[s], m) ELSE logs[t]
        /\ active' \in Seq(Sessions) /\ IsInjective(active')
        /\ role' \in [Sessions -> Names \cup {None}]
    BY <1>1, <2>1, RoleAppend
  <2> QED
    BY <2>2 DEF s
<1>13. StoreTypes(A, limit)'
  BY <1>3, <1>11, <1>12 DEF StoreTypes, W
<1>14. ReactorsKept
  BY <1>1, <1>2, <1>4, <1>10, <1>11, ReactorsKeptInPlace
<1> QED
  BY <1>4, <1>6, <1>11, <1>12, <1>13, <1>14 DEF m

\* The requests and snapshots of reactors change; their windows do not.
LEMMA PauseEffect ==
  ASSUME NEW A, NEW limit \in Nat, RoleTypes(A, limit), NEW a \in A,
         Switched!Pause(a) \/ Switched!EndRun(a)
  PROVE  /\ StoreTypes(A, limit)' /\ ReactorsKept /\ Len(reactors') = Len(reactors)
         /\ UNCHANGED <<name, reactor, made, logs>>
         /\ \A r \in 1..Len(reactors) : reactors'[r].window = reactors[r].window
<1>1. UNCHANGED <<name, reactor, made, logs, active, role, said>>
  BY DEF Switched!Pause, Switched!EndRun, Switched!storeVars
<1>2. /\ StoreTypes(A, limit) /\ AgentTypes(A) /\ ReactorsHaveWindows /\ CallHasWindow(a)
  BY DEF RoleTypes
<1>3. StoreTypes(A, limit)' /\ Len(made) \in Nat /\ Len(made') = Len(made)
  BY <1>1, <1>2, StoreKept
<1>4. reactors \in Seq(Reactors) /\ \A r \in 1..Len(reactors) : reactors[r] \in Reactors
  BY <1>2 DEF AgentTypes
<1>5. PICK r \in 1..Len(reactors), p \in BOOLEAN, t \in BOOLEAN :
        /\ reactors' = [reactors EXCEPT ![r].pause = p, ![r].snapshot = t]
        /\ t => reactors[r].snapshot \/ reactors[r].window # 0
  <2>1. CASE Switched!Pause(a)
    <3> DEFINE r == reactor[a]
    <3>1. r \in 1..Len(reactors)
      <4>1. call[a].asked
        BY <2>1 DEF Switched!Pause
      <4> QED
        BY <1>2, <4>1 DEF AgentTypes, CallHasWindow
    <3>2. reactors[r] \in [window : Nat, pause : BOOLEAN, snapshot : BOOLEAN]
      BY <1>4, <3>1 DEF Reactors
    <3>3. reactors' = [reactors EXCEPT ![r].pause = TRUE]
      BY <2>1 DEF Switched!Pause
    <3> HIDE DEF r
    <3>4. reactors' = [reactors EXCEPT ![r].pause = TRUE, ![r].snapshot = reactors[r].snapshot]
      BY <3>1, <3>2, <3>3
    <3> QED
      BY <3>1, <3>2, <3>4
  <2>2. CASE Switched!EndRun(a)
    <3> DEFINE r == call[a].reactor
    <3>1. r \in 1..Len(reactors) /\ reactors[r].window # 0
      BY <1>2, <2>2 DEF Switched!EndRun, CallHasWindow, WindowOf
    <3>2. reactors[r] \in [window : Nat, pause : BOOLEAN, snapshot : BOOLEAN]
      BY <1>4, <3>1 DEF Reactors
    <3>3. reactors' = [reactors EXCEPT ![r].pause = FALSE, ![r].snapshot = @ \/ reactors[r].pause]
      BY <2>2 DEF Switched!EndRun
    <3> DEFINE t == reactors[r].snapshot \/ reactors[r].pause
    <3>4. t \in BOOLEAN
      BY <3>2
    <3> HIDE DEF r
    <3>5. reactors' = [reactors EXCEPT ![r].pause = FALSE, ![r].snapshot = t]
      BY <3>1, <3>2, <3>3
    <3> QED
      BY <3>1, <3>4, <3>5
  <2> QED
    BY <2>1, <2>2
<1> DEFINE y == [reactors[r] EXCEPT !.pause = p, !.snapshot = t]
<1>6. y \in Reactors /\ y.window = reactors[r].window /\ y.snapshot = t
  BY <1>4 DEF Reactors
<1>7. reactors' = [reactors EXCEPT ![r] = y]
  BY <1>4, <1>5 DEF Reactors
<1> HIDE DEF y
<1>8. /\ reactors' \in Seq(Reactors) /\ Len(reactors') = Len(reactors)
      /\ \A i \in 1..Len(reactors) : reactors'[i] = IF i = r THEN y ELSE reactors[i]
  BY <1>4, <1>6, <1>7
<1>9. ReactorsKept
  BY <1>2, <1>3, <1>4, <1>5, <1>6, <1>8, ReactorsKeptInPlace
<1> QED
  BY <1>1, <1>3, <1>6, <1>8, <1>9

LEMMA EmptyWindow ==
  ASSUME NEW A, NEW limit, NEW s \in Sessions, NEW n, n = None \/ n \in Names
  PROVE  LET w == Switched!Window(s, n, <<>>)
         IN w \in RoleWindowsUpTo(A, limit) /\ w.session = s /\ w.messages = <<>>
BY DEF Switched!Window, RoleWindowsUpTo

LEMMA SessionEffect ==
  ASSUME NEW A, NEW limit \in Nat, RoleTypes(A, limit), NEW a \in A, NEW s \in Sessions,
         RoleSession(a, s)
  PROVE  LET w == Len(made) + 1
         IN /\ StoreTypes(A, limit)' /\ ReactorsKept /\ Len(reactors') = Len(reactors)
            /\ w \in 1..Len(made') /\ made'[w].messages = <<>> /\ made'[w].session = s
            /\ UNCHANGED <<name, reactor, call, logs>>
            /\ \A r \in 1..Len(reactors) :
                 reactors'[r].window = IF r = reactor[a] THEN w ELSE reactors[r].window
<1> DEFINE W == RoleWindowsUpTo(A, limit)
           x == Switched!Window(s, name[a], <<>>)
           q == reactor[a]
           w == Len(made) + 1
<1>1. /\ StoreTypes(A, limit) /\ AgentTypes(A) /\ ReactorsHaveWindows
      /\ name[a] # None /\ UNCHANGED <<name, reactor, call, said>>
      /\ made' = Append(made, x) /\ reactors' = [reactors EXCEPT ![q].window = Len(made')]
      /\ Switched!RegisterRole(s, name[a])
  BY DEF RoleTypes, RoleSession
<1>2. /\ made \in Seq(W) /\ Len(made) \in Nat /\ name[a] \in Names
      /\ reactors \in Seq(Reactors) /\ q \in 1..Len(reactors)
  BY <1>1 DEF StoreTypes, AgentTypes
<1>3. x \in W /\ x.session = s /\ x.messages = <<>>
  BY <1>2, EmptyWindow
<1>4. /\ logs' = logs /\ active' \in Seq(Sessions) /\ IsInjective(active')
      /\ role' \in [Sessions -> Names \cup {None}]
  BY <1>1, <1>2, RoleRegistered
<1> HIDE DEF x, W
<1>5. made' \in Seq(W) /\ Len(made') = w /\ made'[w] = x
  BY <1>1, <1>2, <1>3
<1>6. StoreTypes(A, limit)'
  BY <1>1, <1>4, <1>5 DEF StoreTypes, W
<1> DEFINE y == [reactors[q] EXCEPT !.window = w]
<1>7. reactors[q] \in [window : Nat, pause : BOOLEAN, snapshot : BOOLEAN] /\ w \in Nat
  <2>1. reactors[q] \in Reactors
    BY <1>2
  <2> QED
    BY <1>2, <2>1 DEF Reactors
<1>8. /\ y \in [window : Nat, pause : BOOLEAN, snapshot : BOOLEAN]
      /\ y.window = w /\ y.snapshot = reactors[q].snapshot
  BY <1>7
<1>9. y \in Reactors /\ reactors' = [reactors EXCEPT ![q] = y]
  BY <1>1, <1>5, <1>8 DEF Reactors
<1> HIDE DEF y, w, q
<1>10. /\ reactors' \in Seq(Reactors) /\ Len(reactors') = Len(reactors)
       /\ \A i \in 1..Len(reactors) : reactors'[i] = IF i = q THEN y ELSE reactors[i]
  BY <1>2, <1>9
<1>11. ReactorsKept
  <2>1. Len(made) <= Len(made') /\ Len(made') \in Nat /\ w # 0 /\ w <= Len(made')
    BY <1>2, <1>5 DEF w
  <2> QED
    BY <1>1, <1>2, <1>8, <1>10, <2>1, ReactorsKeptInPlace
<1>12. w \in 1..Len(made')
  BY <1>2, <1>5 DEF w
<1> QED
  BY <1>1, <1>3, <1>4, <1>5, <1>6, <1>8, <1>10, <1>11, <1>12 DEF w, q

LEMMA CloneEffect ==
  ASSUME NEW A, NEW limit \in Nat, RoleTypes(A, limit), NEW a \in A, NEW b \in A, NEW n \in Names,
         RoleClone(a, b, n)
  PROVE  LET w == Len(made) + 1
         IN /\ StoreTypes(A, limit)' /\ ReactorsKept /\ Len(reactors') = Len(reactors) + 1
            /\ reactors'[Len(reactors) + 1].window = w /\ UNCHANGED <<call, logs>>
            /\ \A r \in 1..Len(reactors) : reactors'[r] = reactors[r]
<1> DEFINE W == RoleWindowsUpTo(A, limit)
           w == Len(made) + 1
<1>1. /\ StoreTypes(A, limit) /\ AgentTypes(A) /\ ReactorsHaveWindows
      /\ UNCHANGED <<logs, active, role, said, call>>
      /\ reactors' = Append(reactors, Switched!Reactor(Len(made')))
  BY DEF RoleTypes, RoleClone, Switched!CloneReactor
<1>2. PICK s \in Sessions : made' = Append(made, Switched!Window(s, None, <<>>))
  BY DEF RoleClone
<1> DEFINE x == Switched!Window(s, None, <<>>)
<1>3. x \in W
  BY EmptyWindow
<1>4. made \in Seq(W) /\ Len(made) \in Nat /\ reactors \in Seq(Reactors)
  BY <1>1 DEF StoreTypes, AgentTypes
<1>5. made' = Append(made, x)
  BY <1>2
<1> HIDE DEF x, W
<1>6. made' \in Seq(W) /\ Len(made') = w
  BY <1>3, <1>4, <1>5
<1>7. StoreTypes(A, limit)'
  BY <1>1, <1>6 DEF StoreTypes, W
<1>8. w \in 1..Len(made') /\ Len(made') \in Nat /\ Len(made) <= Len(made')
  BY <1>4, <1>6
<1>9. reactors' = Append(reactors, Switched!Reactor(w))
  BY <1>1, <1>6
<1> HIDE DEF w
<1>10. /\ ReactorsKept /\ Len(reactors') = Len(reactors) + 1
       /\ reactors'[Len(reactors) + 1].window = w
       /\ \A r \in 1..Len(reactors) : reactors'[r] = reactors[r]
  BY <1>1, <1>4, <1>8, <1>9, ReactorsKeptAppend
<1> QED
  BY <1>1, <1>7, <1>10 DEF w

\* A call that goes on, or one that begins on the agent's reactor.
LEMMA CallsKept ==
  ASSUME NEW A, AgentTypes(A), ReactorsKept, NEW b \in A, CallHasWindow(b),
         name[b] # None => name'[b] # None, call'[b].reactor = call[b].reactor,
         call'[b].session = call[b].session,
         call'[b].pc # "idle" \/ call'[b].asked => call[b].pc # "idle" \/ call[b].asked
  PROVE  CallHasWindow(b)'
<1>1. Len(reactors) \in Nat /\ Len(reactors') \in Nat /\ Len(reactors) <= Len(reactors')
  BY DEF AgentTypes, ReactorsKept
<1> QED
  BY <1>1 DEF CallHasWindow, WindowOf, ReactorsKept

Taken(q) == [reactors EXCEPT ![q].snapshot = FALSE]

LEMMA TakenTypes ==
  ASSUME reactors \in Seq(Reactors), NEW q \in 1..Len(reactors)
  PROVE  /\ Taken(q) \in Seq(Reactors) /\ Len(Taken(q)) = Len(reactors)
         /\ \A r \in 1..Len(reactors) :
              /\ Taken(q)[r].window = reactors[r].window
              /\ Taken(q)[r].snapshot => reactors[r].snapshot
<1> DEFINE y == [reactors[q] EXCEPT !.snapshot = FALSE]
<1>1. reactors[q] \in Reactors
  OBVIOUS
<1>2. y \in Reactors /\ y.window = reactors[q].window /\ y.snapshot = FALSE
  BY <1>1 DEF Reactors
<1>3. Taken(q) = [reactors EXCEPT ![q] = y]
  BY DEF Taken
<1> HIDE DEF y
<1>4. /\ Taken(q) \in Seq(Reactors) /\ Len(Taken(q)) = Len(reactors)
      /\ \A r \in 1..Len(reactors) : Taken(q)[r] = IF r = q THEN y ELSE reactors[r]
  BY <1>2, <1>3
<1> QED
  BY <1>2, <1>4

\* The steps that may persist a message: what they leave and what they change.
LEMMA AskEffect ==
  ASSUME NEW A, NEW limit \in Nat, RoleTypes(A, limit), NEW a \in A,
         RoleAsk(limit, a) \/ RoleAnswer(limit, a) \/ RoleResume(limit, a)
  PROVE  /\ name[a] # None /\ reactor[a] \in 1..Len(reactors)
         /\ StoreTypes(A, limit)' /\ ReactorsKept /\ Len(reactors') = Len(reactors)
         /\ UNCHANGED <<name, reactor>>
         /\ \/ \E s \in Sessions, w \in 1..Len(made'), rs \in Seq(Reactors) : Persisted(a, s, rs, w)
            \/ /\ UNCHANGED <<made, logs>>
               /\ \A r \in 1..Len(reactors) : reactors'[r].window = reactors[r].window
         /\ \/ call' = [call EXCEPT ![a] = Switched!Idle]
            \/ \E s \in Sessions, asked \in BOOLEAN :
                 /\ call' = [call EXCEPT ![a] = [pc |-> "run", session |-> s,
                                                reactor |-> reactor[a], asked |-> asked]]
                 /\ reactors'[reactor[a]].window # 0
<1> DEFINE q == reactor[a]
<1>1. /\ StoreTypes(A, limit) /\ AgentTypes(A) /\ ReactorsHaveWindows /\ CallHasWindow(a)
      /\ UNCHANGED <<name, reactor>>
  BY DEF RoleTypes, RoleAsk, RoleAnswer, RoleResume
<1>2. name[a] # None
  BY <1>1 DEF RoleAsk, RoleAnswer, RoleResume, CallHasWindow, AgentTypes
<1>3. q \in 1..Len(reactors) /\ reactors \in Seq(Reactors)
  BY <1>1, <1>2 DEF AgentTypes
<1>4. ASSUME NEW s \in Sessions, PersistUpTo(limit, a, s, reactors)
      PROVE  /\ StoreTypes(A, limit)' /\ ReactorsKept /\ Len(reactors') = Len(reactors)
             /\ \E w \in 1..Len(made') : Persisted(a, s, reactors, w)
             /\ reactors'[q].window # 0
  BY <1>1, <1>2, <1>3, <1>4, PersistKept
<1>5. CASE RoleAsk(limit, a)
  <2>1. PICK s \in Sessions :
          /\ PersistUpTo(limit, a, s, reactors)
          /\ call' = [call EXCEPT ![a] = [pc |-> "run", session |-> s, reactor |-> q,
               asked |-> TRUE]]
    BY <1>5 DEF RoleAsk
  <2> QED
    BY <1>1, <1>2, <1>3, <1>4, <2>1
<1>6. CASE RoleAnswer(limit, a)
  <2>1. /\ call[a].session \in Sessions
        /\ call' = [call EXCEPT ![a] = Switched!Idle]
    BY <1>1, <1>6 DEF RoleAnswer, CallHasWindow
  <2>2. CASE PersistUpTo(limit, a, call[a].session, reactors)
    BY <1>1, <1>2, <1>3, <1>4, <2>1, <2>2
  <2>3. CASE UNCHANGED <<reactors, made, logs, active, role, said>>
    <3>1. StoreTypes(A, limit)' /\ Len(made) \in Nat /\ Len(made') = Len(made)
      BY <1>1, <2>3, StoreKept
    <3>2. ReactorsKept
      BY <1>1, <1>3, <2>3, <3>1, ReactorsKeptInPlace
    <3> QED
      BY <1>1, <1>2, <1>3, <2>1, <2>3, <3>1, <3>2
  <2> QED
    BY <1>6, <2>2, <2>3 DEF RoleAnswer
<1>7. CASE RoleResume(limit, a)
  <2>1. PICK s \in Sessions :
          /\ \/ PersistUpTo(limit, a, s, Taken(q))
             \/ reactors' = Taken(q) /\ UNCHANGED <<made, logs, active, role, said>>
          /\ call' = [call EXCEPT ![a] = [pc |-> "run", session |-> s, reactor |-> q,
               asked |-> FALSE]]
    BY <1>7 DEF RoleResume, Taken
  <2>2. reactors[q].window # 0
    BY <1>1, <1>3, <1>7 DEF RoleResume, ReactorsHaveWindows
  <2> DEFINE rs == Taken(q)
  <2>3. /\ rs \in Seq(Reactors) /\ Len(rs) = Len(reactors)
        /\ \A r \in 1..Len(reactors) : /\ rs[r].window = reactors[r].window
                                       /\ rs[r].snapshot => reactors[r].snapshot
    <3> HIDE DEF q
    <3> QED
      BY <1>3, TakenTypes
  <2> HIDE DEF rs
  <2>4. CASE PersistUpTo(limit, a, s, rs)
    <3>1. /\ StoreTypes(A, limit)' /\ ReactorsKept /\ Len(reactors') = Len(reactors)
          /\ \E w \in 1..Len(made') : Persisted(a, s, rs, w)
          /\ reactors'[reactor[a]].window # 0
      BY <1>1, <1>2, <2>3, <2>4, PersistKept
    <3> QED
      BY <1>1, <1>2, <1>3, <2>1, <2>3, <3>1
  <2>5. CASE reactors' = rs /\ UNCHANGED <<made, logs, active, role, said>>
    <3>1. StoreTypes(A, limit)' /\ Len(made) \in Nat /\ Len(made') = Len(made)
      BY <1>1, <2>5, StoreKept
    <3>2. ReactorsKept
      BY <1>1, <1>3, <2>3, <2>5, <3>1, ReactorsKeptInPlace
    <3> QED
      BY <1>1, <1>2, <1>3, <2>1, <2>2, <2>3, <2>5, <3>1, <3>2
  <2> QED
    BY <2>1, <2>4, <2>5 DEF rs
<1> QED
  BY <1>5, <1>6, <1>7

\* Every step keeps the types, and that reactors and calls have their windows.
LEMMA RoleTypesStep ==
  ASSUME NEW A, NEW limit \in Nat, RoleTypes(A, limit), NEW a \in A, NEW free \in BOOLEAN,
         RolesStep(A, free, limit, a)
  PROVE  RoleTypes(A, limit)'
<1>0. /\ StoreTypes(A, limit) /\ AgentTypes(A) /\ ReactorsHaveWindows
      /\ \A b \in A : CallHasWindow(b)
      /\ reactors \in Seq(Reactors) /\ Len(reactors) \in Nat
      /\ name \in [A -> Names \cup {None}] /\ reactor \in [A -> 0..Len(reactors)]
      /\ call \in [A -> Calls]
      /\ \A b \in A : name[b] # None <=> reactor[b] # 0
      /\ None \notin Names
  BY MCAssumption DEF RoleTypes, AgentTypes, Switched!RolesAssumption
<1>1. CASE RoleAsk(limit, a) \/ RoleAnswer(limit, a) \/ RoleResume(limit, a)
  <2>1. /\ name[a] # None /\ reactor[a] \in 1..Len(reactors)
        /\ StoreTypes(A, limit)' /\ ReactorsKept /\ Len(reactors') = Len(reactors)
        /\ UNCHANGED <<name, reactor>>
        /\ \/ call' = [call EXCEPT ![a] = Switched!Idle]
           \/ \E s \in Sessions, asked \in BOOLEAN :
                /\ call' = [call EXCEPT ![a] = [pc |-> "run", session |-> s,
                                               reactor |-> reactor[a], asked |-> asked]]
                /\ reactors'[reactor[a]].window # 0
    BY <1>1, AskEffect
  <2>2. call' \in [A -> Calls] /\ CallHasWindow(a)' /\ \A b \in A : b # a => call'[b] = call[b]
    <3>1. CASE call' = [call EXCEPT ![a] = Switched!Idle]
      BY <1>0, <2>1, <3>1 DEF Switched!Idle, Calls, CallHasWindow
    <3>2. ASSUME NEW s \in Sessions, NEW asked \in BOOLEAN,
                 call' = [call EXCEPT ![a] = [pc |-> "run", session |-> s,
                                             reactor |-> reactor[a], asked |-> asked]],
                 reactors'[reactor[a]].window # 0
          PROVE  call' \in [A -> Calls] /\ CallHasWindow(a)'
                   /\ \A b \in A : b # a => call'[b] = call[b]
      BY <1>0, <2>1, <3>2 DEF Calls, CallHasWindow, WindowOf
    <3> QED
      BY <2>1, <3>1, <3>2
  <2>3. ASSUME NEW b \in A PROVE CallHasWindow(b)'
    BY <1>0, <2>1, <2>2, CallsKept
  <2>4. AgentTypes(A)'
    BY <1>0, <2>1, <2>2 DEF AgentTypes, ReactorsKept
  <2> QED
    BY <2>1, <2>3, <2>4 DEF RoleTypes, ReactorsKept
<1>2. CASE RoleStep(limit, a) \/ (\E s \in Sessions : RoleSession(a, s))
  <2>1. StoreTypes(A, limit)' /\ ReactorsKept /\ UNCHANGED <<name, reactor, call>>
        /\ Len(reactors') = Len(reactors)
    BY <1>2, RoleStepEffect, SessionEffect DEF RoleStep
  <2>2. ASSUME NEW b \in A PROVE CallHasWindow(b)'
    BY <1>0, <2>1, CallsKept
  <2>3. AgentTypes(A)'
    BY <1>0, <2>1 DEF AgentTypes, ReactorsKept
  <2> QED
    BY <2>1, <2>2, <2>3 DEF RoleTypes, ReactorsKept
<1>3. CASE Switched!Pause(a) \/ Switched!EndRun(a)
  <2>1. /\ StoreTypes(A, limit)' /\ ReactorsKept /\ Len(reactors') = Len(reactors)
        /\ UNCHANGED <<name, reactor>>
    BY <1>3, PauseEffect
  <2>2. /\ call' \in [A -> Calls]
        /\ \A b \in A : /\ call'[b].reactor = call[b].reactor /\ call'[b].session = call[b].session
                        /\ call'[b].pc # "idle" \/ call'[b].asked => call[b].pc # "idle"
                             \/ call[b].asked
    <3>1. CASE UNCHANGED call
      BY <1>0, <3>1
    <3>2. CASE call[a].pc = "run" /\ call' = [call EXCEPT ![a].pc = "answer"]
      BY <1>0, <3>2 DEF Calls
    <3> QED
      BY <1>3, <3>1, <3>2 DEF Switched!Pause, Switched!EndRun
  <2>3. ASSUME NEW b \in A PROVE CallHasWindow(b)'
    BY <1>0, <2>1, <2>2, CallsKept
  <2>4. AgentTypes(A)'
    BY <1>0, <2>1, <2>2 DEF AgentTypes, ReactorsKept
  <2> QED
    BY <2>1, <2>3, <2>4 DEF RoleTypes, ReactorsKept
<1>4. ASSUME NEW n \in Names, NEW b \in A, StoreTypes(A, limit)', ReactorsKept,
             Len(reactors') = Len(reactors) + 1, call' = call,
             name' = [name EXCEPT ![b] = n], reactor' = [reactor EXCEPT ![b] = Len(reactors')]
      PROVE  RoleTypes(A, limit)'
  <2>1. ASSUME NEW d \in A PROVE CallHasWindow(d)'
    <3>1. name[d] # None => name'[d] # None
      BY <1>0, <1>4
    <3> QED
      BY <1>0, <1>4, <3>1, CallsKept
  <2>2. AgentTypes(A)'
    BY <1>0, <1>4 DEF AgentTypes, ReactorsKept
  <2> QED
    BY <1>4, <2>1, <2>2 DEF RoleTypes, ReactorsKept
<1>5. ASSUME NEW n \in Names, RoleSwitch(free, a, n) PROVE RoleTypes(A, limit)'
  <2>1. /\ name[a] # None /\ Switched!ResolveSession(a, n) /\ UNCHANGED <<said, call>>
        /\ name' = [name EXCEPT ![a] = n] /\ reactor' = [reactor EXCEPT ![a] = Len(reactors')]
    BY <1>5 DEF RoleSwitch
  <2>2. StoreTypes(A, limit)' /\ \E w \in 1..Len(made') : Joined(a, w)
    BY <1>0, <2>1, SwitchEffect
  <2>3. PICK w \in 1..Len(made') : Joined(a, w)
    BY <2>2
  <2>4. Len(made) \in Nat /\ Len(made') \in Nat
    BY <1>0, <2>2 DEF StoreTypes
  <2>5. ReactorsKept /\ Len(reactors') = Len(reactors) + 1
    BY <1>0, <2>3, <2>4, ReactorsKeptAppend DEF Joined
  <2> QED
    BY <1>4, <2>1, <2>2, <2>5
<1>6. ASSUME NEW b \in A, NEW n \in Names, RoleClone(a, b, n) PROVE RoleTypes(A, limit)'
  <2>1. /\ StoreTypes(A, limit)' /\ ReactorsKept /\ Len(reactors') = Len(reactors) + 1
        /\ UNCHANGED call
    BY <1>6, CloneEffect
  <2>2. name' = [name EXCEPT ![b] = n] /\ reactor' = [reactor EXCEPT ![b] = Len(reactors')]
    BY <1>6 DEF RoleClone
  <2> QED
    BY <1>4, <2>1, <2>2
<1> QED
  BY <1>1, <1>2, <1>3, <1>5, <1>6 DEF RolesStep

(***************************************************************************)
(* Clones.  Each agent has a reactor of its own, and each that has a       *)
(* window has that to itself: a window that an agent comes to have is its  *)
(* own or the next that is made.  That reactors are apart is what keeps a  *)
(* message of one agent from replacing the window of another.              *)
(***************************************************************************)

ClonesApart(A) ==
  \A a, b \in A : name[a] # None /\ name[b] # None /\ a # b =>
    /\ reactor[a] # reactor[b]
    /\ WindowOf(reactor[a]) # 0 => WindowOf(reactor[a]) # WindowOf(reactor[b])

\* a keeps its reactor, which keeps its window or has the next one.
LEMMA ApartInPlace ==
  ASSUME NEW A, NEW limit \in Nat, RoleTypes(A, limit), ClonesApart(A), NEW a \in A, name[a] # None,
         UNCHANGED <<name, reactor>>, NEW w, w \in {WindowOf(reactor[a]), Len(made) + 1},
         \A r \in 1..Len(reactors) :
           reactors'[r].window = IF r = reactor[a] THEN w ELSE reactors[r].window
  PROVE  ClonesApart(A)'
<1>1. Len(made) \in Nat /\ reactors \in Seq(Reactors)
  BY DEF RoleTypes, StoreTypes, AgentTypes
<1>2. \A b \in A : name[b] # None =>
        /\ reactor[b] \in 1..Len(reactors)
        /\ WindowOf(reactor[b]) \in Nat /\ WindowOf(reactor[b]) <= Len(made)
  <2> SUFFICES ASSUME NEW b \in A, name[b] # None
               PROVE  /\ reactor[b] \in 1..Len(reactors)
                      /\ WindowOf(reactor[b]) \in Nat /\ WindowOf(reactor[b]) <= Len(made)
    OBVIOUS
  <2>1. reactor[b] \in 1..Len(reactors)
    BY DEF RoleTypes, AgentTypes
  <2>2. reactors[reactor[b]] \in Reactors
    BY <1>1, <2>1
  <2> QED
    BY <2>1, <2>2 DEF RoleTypes, ReactorsHaveWindows, WindowOf, Reactors
<1>3. \A b \in A : name[b] # None =>
        WindowOf(reactor[b])' = IF reactor[b] = reactor[a] THEN w ELSE WindowOf(reactor[b])
  BY <1>2 DEF WindowOf
<1> QED
  BY <1>1, <1>2, <1>3 DEF ClonesApart

\* a, or an agent there was not, has a new reactor, with the window a had or the next.
LEMMA ApartAppended ==
  ASSUME NEW A, NEW limit \in Nat, RoleTypes(A, limit), ClonesApart(A), NEW a \in A,
           NEW n \in Names,
         Len(reactors') = Len(reactors) + 1,
         name' = [name EXCEPT ![a] = n], reactor' = [reactor EXCEPT ![a] = Len(reactors')],
         NEW w, reactors'[Len(reactors) + 1].window = w,
         \/ w = WindowOf(reactor[a]) /\ name[a] # None
         \/ w = Len(made) + 1,
         \A r \in 1..Len(reactors) : reactors'[r] = reactors[r]
  PROVE  ClonesApart(A)'
<1>1. /\ Len(made) \in Nat /\ reactors \in Seq(Reactors) /\ Len(reactors) \in Nat
      /\ name \in [A -> Names \cup {None}] /\ reactor \in [A -> 0..Len(reactors)]
  BY DEF RoleTypes, StoreTypes, AgentTypes
<1>2. \A b \in A : name[b] # None =>
        /\ reactor[b] \in 1..Len(reactors)
        /\ WindowOf(reactor[b]) \in Nat /\ WindowOf(reactor[b]) <= Len(made)
  <2> SUFFICES ASSUME NEW b \in A, name[b] # None
               PROVE  /\ reactor[b] \in 1..Len(reactors)
                      /\ WindowOf(reactor[b]) \in Nat /\ WindowOf(reactor[b]) <= Len(made)
    OBVIOUS
  <2>1. reactor[b] \in 1..Len(reactors)
    BY DEF RoleTypes, AgentTypes
  <2>2. reactors[reactor[b]] \in Reactors
    BY <1>1, <2>1
  <2> QED
    BY <2>1, <2>2 DEF RoleTypes, ReactorsHaveWindows, WindowOf, Reactors
<1>3. ASSUME NEW b \in A, b # a, name'[b] # None
      PROVE  /\ name[b] # None /\ reactor'[b] = reactor[b] /\ reactor'[b] # reactor'[a]
             /\ reactors'[reactor'[b]].window = WindowOf(reactor[b])
  BY <1>1, <1>2, <1>3 DEF WindowOf
<1>4. reactors'[reactor'[a]].window = w
  BY <1>1
<1> QED
  BY <1>1, <1>2, <1>3, <1>4 DEF ClonesApart, WindowOf

\* No step gives an agent the reactor or the window of another.
LEMMA ClonesStep ==
  ASSUME NEW A, NEW limit \in Nat, RoleTypes(A, limit), ClonesApart(A),
         NEW a \in A, NEW free \in BOOLEAN, RolesStep(A, free, limit, a)
  PROVE  ClonesApart(A)'
<1>0. /\ StoreTypes(A, limit) /\ AgentTypes(A) /\ ReactorsHaveWindows /\ CallHasWindow(a)
      /\ Len(made) \in Nat
  BY DEF RoleTypes, StoreTypes
<1>1. CASE RoleAsk(limit, a) \/ RoleAnswer(limit, a) \/ RoleResume(limit, a)
  <2>1. /\ name[a] # None /\ reactor[a] \in 1..Len(reactors) /\ UNCHANGED <<name, reactor>>
        /\ \/ \E s \in Sessions, w \in 1..Len(made'), rs \in Seq(Reactors) : Persisted(a, s, rs, w)
           \/ \A r \in 1..Len(reactors) : reactors'[r].window = reactors[r].window
    BY <1>1, AskEffect
  <2>2. PICK w :
          /\ w \in {WindowOf(reactor[a]), Len(made) + 1}
          /\ \A r \in 1..Len(reactors) :
               reactors'[r].window = IF r = reactor[a] THEN w ELSE reactors[r].window
    BY <2>1 DEF Persisted, WindowOf
  <2> QED
    BY <2>1, <2>2, ApartInPlace
<1>2. CASE RoleStep(limit, a) \/ Switched!Pause(a) \/ Switched!EndRun(a)
  <2>1. /\ UNCHANGED <<name, reactor>>
        /\ \A r \in 1..Len(reactors) : reactors'[r].window = reactors[r].window
    BY <1>2, PauseEffect DEF RoleStep
  <2>2. name[a] # None
    BY <1>0, <1>2 DEF RoleStep, Switched!Pause, Switched!EndRun, CallHasWindow
  <2> DEFINE w == WindowOf(reactor[a])
  <2>3. w \in {WindowOf(reactor[a]), Len(made) + 1}
    OBVIOUS
  <2>4. \A r \in 1..Len(reactors) :
          reactors'[r].window = IF r = reactor[a] THEN w ELSE reactors[r].window
    BY <2>1 DEF WindowOf
  <2> HIDE DEF w
  <2> QED
    BY <2>1, <2>2, <2>3, <2>4, ApartInPlace
<1>3. ASSUME NEW s \in Sessions, RoleSession(a, s) PROVE ClonesApart(A)'
  <2> DEFINE w == Len(made) + 1
  <2>1. /\ UNCHANGED <<name, reactor>> /\ name[a] # None
        /\ \A r \in 1..Len(reactors) :
             reactors'[r].window = IF r = reactor[a] THEN w ELSE reactors[r].window
    BY <1>3, SessionEffect DEF RoleSession
  <2>2. w \in {WindowOf(reactor[a]), Len(made) + 1}
    OBVIOUS
  <2> HIDE DEF w
  <2> QED
    BY <2>1, <2>2, ApartInPlace
<1>4. ASSUME NEW n \in Names, RoleSwitch(free, a, n) PROVE ClonesApart(A)'
  <2>1. /\ name[a] # None /\ Switched!ResolveSession(a, n) /\ UNCHANGED <<said, call>>
        /\ name' = [name EXCEPT ![a] = n] /\ reactor' = [reactor EXCEPT ![a] = Len(reactors')]
    BY <1>4 DEF RoleSwitch
  <2>2. StoreTypes(A, limit)' /\ \E w \in 1..Len(made') : Joined(a, w)
    BY <1>0, <2>1, SwitchEffect
  <2>3. PICK w \in 1..Len(made') : Joined(a, w)
    BY <2>2
  <2>4. Len(made') \in Nat /\ reactors \in Seq(Reactors)
    BY <1>0, <2>2 DEF StoreTypes, AgentTypes
  <2>5. /\ Len(reactors') = Len(reactors) + 1 /\ reactors'[Len(reactors) + 1].window = w
        /\ \A r \in 1..Len(reactors) : reactors'[r] = reactors[r]
    BY <1>0, <2>3, <2>4, ReactorsKeptAppend DEF Joined
  <2>6. w = WindowOf(reactor[a]) \/ w = Len(made) + 1
    BY <2>3 DEF Joined
  <2> QED
    BY <2>1, <2>5, <2>6, ApartAppended
<1>5. ASSUME NEW b \in A, NEW n \in Names, RoleClone(a, b, n) PROVE ClonesApart(A)'
  <2> DEFINE w == Len(made) + 1
  <2>1. /\ Len(reactors') = Len(reactors) + 1
        /\ reactors'[Len(reactors) + 1].window = w
        /\ \A r \in 1..Len(reactors) : reactors'[r] = reactors[r]
    BY <1>5, CloneEffect
  <2>2. name' = [name EXCEPT ![b] = n] /\ reactor' = [reactor EXCEPT ![b] = Len(reactors')]
    BY <1>5 DEF RoleClone
  <2>3. (w = WindowOf(reactor[b]) /\ name[b] # None) \/ w = Len(made) + 1
    OBVIOUS
  <2> HIDE DEF w
  <2> QED
    BY <2>1, <2>2, <2>3, ApartAppended
<1> QED
  BY <1>1, <1>2, <1>3, <1>4, <1>5 DEF RolesStep

(***************************************************************************)
(* One agent that is switched between its calls.  Its run is on the        *)
(* reactor it has, since a switch waits for the call; so what the run      *)
(* writes goes to the agent's window and to the log of that window's       *)
(* session.                                                                *)
(***************************************************************************)

RunsOnItsReactor == call[c1].pc = "run" => call[c1].reactor = reactor[c1]
AgentsWindowEndsLog ==
  name[c1] # None => LET w == WindowOf(reactor[c1]) IN
    w # 0 => IsEndOf(made[w].messages, logs[made[w].session])

\* Only a switch changes the reactor, and it waits for the call.
LEMMA RunsOnItsReactorStep ==
  ASSUME NEW limit \in Nat, RoleTypes({c1}, limit), RunsOnItsReactor,
         RolesStep({c1}, FALSE, limit, c1)
  PROVE  RunsOnItsReactor'
<1>0. call \in [{c1} -> Calls]
  BY DEF RoleTypes, AgentTypes
<1>1. CASE RoleAsk(limit, c1) \/ RoleAnswer(limit, c1) \/ RoleResume(limit, c1)
  BY <1>0, <1>1, AskEffect DEF RunsOnItsReactor, Switched!Idle
<1>2. CASE RoleStep(limit, c1) \/ Switched!Pause(c1) \/ (\E s \in Sessions : RoleSession(c1, s))
  BY <1>2 DEF RunsOnItsReactor, RoleStep, Switched!Pause, RoleSession
<1>3. CASE Switched!EndRun(c1) \/ (\E n \in Names : RoleSwitch(FALSE, c1, n))
  BY <1>0, <1>3 DEF RunsOnItsReactor, Switched!EndRun, RoleSwitch, Calls
<1> QED
  BY <1>1, <1>2, <1>3 DEF RolesStep

LEMMA MadeTypes ==
  ASSUME NEW A, NEW limit \in Nat, StoreTypes(A, limit), NEW w \in 1..Len(made)
  PROVE  /\ made[w].messages \in Seq(RoleMessagesUpTo(A, limit)) /\ made[w].session \in Sessions
         /\ logs[made[w].session] \in Seq(RoleMessagesUpTo(A, limit))
<1> DEFINE W == RoleWindowsUpTo(A, limit)
<1>1. made \in Seq(W) /\ logs \in [Sessions -> Seq(RoleMessagesUpTo(A, limit))]
  BY DEF StoreTypes
<1> HIDE DEF W
<1>2. made[w] \in W
  BY <1>1
<1> QED
  BY <1>1, <1>2 DEF W, RoleWindowsUpTo

\* Every step keeps the agent's window the end of its log.
LEMMA AgentsWindowStep ==
  ASSUME NEW limit \in Nat, RoleTypes({c1}, limit), RunsOnItsReactor, AgentsWindowEndsLog,
         RolesStep({c1}, FALSE, limit, c1)
  PROVE  AgentsWindowEndsLog'
<1> DEFINE M == RoleMessagesUpTo({c1}, limit)
           v == WindowOf(reactor[c1])
<1>0. /\ StoreTypes({c1}, limit) /\ AgentTypes({c1}) /\ ReactorsHaveWindows /\ CallHasWindow(c1)
      /\ reactors \in Seq(Reactors) /\ Len(made) \in Nat /\ c1 \in {c1}
      /\ logs \in [Sessions -> Seq(M)]
      /\ name[c1] # None => reactor[c1] \in 1..Len(reactors)
  <2>1. /\ StoreTypes({c1}, limit) /\ AgentTypes({c1}) /\ ReactorsHaveWindows /\ CallHasWindow(c1)
        /\ c1 \in {c1}
    BY DEF RoleTypes
  <2>2. /\ reactors \in Seq(Reactors)
        /\ name[c1] # None => reactor[c1] \in 1..Len(reactors)
    BY <2>1 DEF AgentTypes
  <2>3. logs \in [Sessions -> Seq(M)] /\ made \in Seq(RoleWindowsUpTo({c1}, limit))
    BY <2>1 DEF StoreTypes
  <2>4. Len(made) \in Nat
    BY <2>3
  <2> QED
    BY <2>1, <2>2, <2>3, <2>4
<1>1. ASSUME name[c1] # None, v # 0
      PROVE  /\ v \in 1..Len(made) /\ IsEndOf(made[v].messages, logs[made[v].session])
             /\ made[v].messages \in Seq(M) /\ made[v].session \in Sessions
  <2>1. reactors[reactor[c1]] \in Reactors /\ reactors[reactor[c1]].window <= Len(made)
    BY <1>0, <1>1 DEF ReactorsHaveWindows
  <2>2. v \in 1..Len(made)
    BY <1>0, <1>1, <2>1 DEF WindowOf, Reactors
  <2> HIDE DEF v, M
  <2>3. made[v].messages \in Seq(M) /\ made[v].session \in Sessions
    BY <1>0, <2>2, MadeTypes DEF M
  <2> QED
    BY <1>1, <2>2, <2>3 DEF v, AgentsWindowEndsLog
<1>2. CASE RoleAsk(limit, c1) \/ RoleAnswer(limit, c1) \/ RoleResume(limit, c1)
  <2>1. /\ name[c1] # None /\ reactor[c1] \in 1..Len(reactors) /\ UNCHANGED <<name, reactor>>
        /\ StoreTypes({c1}, limit)'
        /\ \/ \E s \in Sessions, w \in 1..Len(made'), rs \in Seq(Reactors) : Persisted(c1, s, rs, w)
           \/ /\ UNCHANGED <<made, logs>>
              /\ \A r \in 1..Len(reactors) : reactors'[r].window = reactors[r].window
    BY <1>2, AskEffect
  <2>2. ASSUME NEW s \in Sessions, NEW w \in 1..Len(made'), NEW rs \in Seq(Reactors),
               Persisted(c1, s, rs, w)
        PROVE  AgentsWindowEndsLog'
    <3> DEFINE m == Message(c1)
    <3>1. /\ WindowOf(reactor[c1])' = w /\ made'[w].session = s
          /\ logs'[s] = Append(logs[s], m)
      BY <2>1, <2>2 DEF Persisted, WindowOf
    <3>2. m \in M
      <4>1. said < limit
        BY <1>0, <2>1, <2>2 DEF Persisted, StoreTypes
      <4> QED
        BY <1>0, <2>1, <4>1, MessageType
    <3> HIDE DEF m, M
    <3>3. logs[s] \in Seq(M)
      BY <1>0
    <3>4. CASE /\ w = v /\ made[w].session = s
               /\ made'[w].messages = Append(made[w].messages, m)
      <4>1. w # 0
        BY <1>0
      <4>2. IsEndOf(made[w].messages, logs[s]) /\ made[w].messages \in Seq(M)
        BY <1>1, <2>1, <3>4, <4>1
      <4>3. IsEndOf(Append(made[w].messages, m), Append(logs[s], m))
        BY <3>2, <3>3, <4>2, EndAppend
      <4> QED
        BY <3>1, <3>4, <4>3 DEF AgentsWindowEndsLog
    <3>5. CASE made'[w].messages = <<m>>
      <4>1. IsEndOf(<<>>, logs[s]) /\ <<>> \in Seq(M)
        BY <3>3, EndsOfItself
      <4>2. IsEndOf(Append(<<>>, m), Append(logs[s], m))
        BY <3>2, <3>3, <4>1, EndAppend
      <4>3. Append(<<>>, m) = <<m>>
        OBVIOUS
      <4> QED
        BY <3>1, <3>5, <4>2, <4>3 DEF AgentsWindowEndsLog
    <3> QED
      BY <2>2, <3>4, <3>5 DEF Persisted, m
  <2>3. CASE /\ UNCHANGED <<made, logs>>
             /\ \A r \in 1..Len(reactors) : reactors'[r].window = reactors[r].window
    BY <2>1, <2>3 DEF AgentsWindowEndsLog, WindowOf
  <2> QED
    BY <2>1, <2>2, <2>3
<1>3. CASE RoleStep(limit, c1)
  <2> DEFINE m == Message(c1)
             s == made[v].session
  <2>1. /\ call[c1].pc = "run" /\ name[c1] # None /\ UNCHANGED <<name, reactor, reactors>>
        /\ call[c1].reactor = reactor[c1] /\ v # 0
    BY <1>0, <1>3 DEF RoleStep, CallHasWindow, RunsOnItsReactor
  <2>2. /\ made'[v].messages = Append(made[v].messages, m) /\ made'[v].session = s
        /\ \A t \in Sessions : logs'[t] = IF t = s THEN Append(logs[t], m) ELSE logs[t]
    BY <1>3, <2>1, RoleStepEffect
  <2>3. m \in M
    BY <1>0, <1>3, <2>1, MessageType DEF RoleStep
  <2>4. IsEndOf(made[v].messages, logs[s]) /\ made[v].messages \in Seq(M) /\ s \in Sessions
    BY <1>1, <2>1
  <2>5. WindowOf(reactor[c1])' = v
    BY <2>1 DEF WindowOf
  <2> HIDE DEF m, M, s, v
  <2>6. logs[s] \in Seq(M)
    BY <1>0, <2>4
  <2>7. IsEndOf(Append(made[v].messages, m), Append(logs[s], m))
    BY <2>3, <2>4, <2>6, EndAppend
  <2> QED
    BY <2>2, <2>4, <2>5, <2>7 DEF AgentsWindowEndsLog
<1>4. CASE Switched!Pause(c1) \/ Switched!EndRun(c1)
  BY <1>0, <1>4, PauseEffect DEF AgentsWindowEndsLog, WindowOf
<1>5. ASSUME NEW s \in Sessions, RoleSession(c1, s) PROVE AgentsWindowEndsLog'
  <2> DEFINE w == Len(made) + 1
  <2>1. /\ name[c1] # None /\ UNCHANGED <<name, reactor, logs>>
        /\ made'[w].messages = <<>> /\ made'[w].session = s
        /\ \A r \in 1..Len(reactors) :
             reactors'[r].window = IF r = reactor[c1] THEN w ELSE reactors[r].window
    BY <1>0, <1>5, SessionEffect DEF RoleSession
  <2>2. WindowOf(reactor[c1])' = w
    BY <1>0, <2>1 DEF WindowOf
  <2>3. IsEndOf(<<>>, logs[s])
    <3>1. logs[s] \in Seq(M)
      BY <1>0
    <3> QED
      BY <3>1, EndsOfItself
  <2> HIDE DEF w
  <2> QED
    BY <2>1, <2>2, <2>3 DEF AgentsWindowEndsLog
<1>6. ASSUME NEW n \in Names, RoleSwitch(FALSE, c1, n) PROVE AgentsWindowEndsLog'
  <2>1. /\ name[c1] # None /\ Switched!ResolveSession(c1, n) /\ UNCHANGED <<said, call>>
        /\ reactor' = [reactor EXCEPT ![c1] = Len(reactors')] /\ reactor'[c1] = Len(reactors')
    BY <1>0, <1>6 DEF RoleSwitch, AgentTypes
  <2>2. StoreTypes({c1}, limit)' /\ \E w \in 1..Len(made') : Joined(c1, w)
    BY <1>0, <2>1, SwitchEffect
  <2>3. PICK w \in 1..Len(made') : Joined(c1, w)
    BY <2>2
  <2>4. Len(made') \in Nat
    BY <2>2 DEF StoreTypes
  <2>5. Len(reactors') = Len(reactors) + 1 /\ reactors'[Len(reactors) + 1].window = w
    BY <1>0, <2>3, <2>4, ReactorsKeptAppend DEF Joined
  <2>6. WindowOf(reactor[c1])' = w
    BY <2>1, <2>5 DEF WindowOf
  <2>7. CASE /\ w = v /\ w # 0
             /\ made'[w].messages = made[w].messages /\ made'[w].session = made[w].session
    BY <1>1, <2>1, <2>3, <2>6, <2>7 DEF AgentsWindowEndsLog, Joined
  <2>8. CASE made'[w].messages \in {<<>>, logs[made'[w].session]}
    <3> DEFINE s == made'[w].session
    <3>1. s \in Sessions
      <4> DEFINE W == RoleWindowsUpTo({c1}, limit)
      <4>1. made' \in Seq(W)
        BY <2>2 DEF StoreTypes
      <4> HIDE DEF W
      <4>2. made'[w] \in W
        BY <4>1
      <4> QED
        BY <4>2 DEF W, RoleWindowsUpTo
    <3>2. logs[s] \in Seq(M)
      BY <1>0, <3>1
    <3> HIDE DEF s, M
    <3>3. IsEndOf(<<>>, logs[s]) /\ IsEndOf(logs[s], logs[s])
      BY <3>2, EndsOfItself
    <3> QED
      BY <2>3, <2>6, <2>8, <3>3 DEF AgentsWindowEndsLog, Joined, s
  <2> QED
    BY <2>3, <2>7, <2>8 DEF Joined
<1> QED
  BY <1>2, <1>3, <1>4, <1>5, <1>6 DEF RolesStep

RolesInv ==
  /\ scope = "switched" =>
       RoleTypes({c1}, RoleMessages) /\ RunsOnItsReactor /\ AgentsWindowEndsLog
  /\ scope = "cloned" => RoleTypes(Callers, CloneMessages) /\ ClonesApart(Callers)

LEMMA RoleInitTypes ==
  ASSUME NEW A, NEW limit \in Nat, NEW n \in Names,
         name = [a \in A |-> IF a = c1 THEN n ELSE None],
         reactors = <<Switched!Reactor(0)>>,
         reactor = [a \in A |-> IF a = c1 THEN 1 ELSE 0],
         made = <<>>, logs = [s \in Sessions |-> <<>>], active = <<>>,
         role = [s \in Sessions |-> None], said = 0, call = [a \in A |-> Switched!Idle]
  PROVE  RoleTypes(A, limit) /\ ClonesApart(A)
<1> DEFINE M == RoleMessagesUpTo(A, limit)
           W == RoleWindowsUpTo(A, limit)
<1>1. None \notin Names
  BY MCAssumption DEF Switched!RolesAssumption
<1>2. StoreTypes(A, limit)
  <2>1. made \in Seq(W) /\ logs \in [Sessions -> Seq(M)]
    OBVIOUS
  <2>2. active \in Seq(Sessions) /\ IsInjective(active)
    BY DEF IsInjective
  <2>3. role \in [Sessions -> Names \cup {None}] /\ said \in 0..limit
    OBVIOUS
  <2> QED
    BY <2>1, <2>2, <2>3 DEF StoreTypes
<1>3. /\ reactors \in Seq(Reactors) /\ Len(reactors) = 1
      /\ reactors[1].window = 0 /\ ~reactors[1].snapshot
  <2>1. Switched!Reactor(0) \in Reactors
    BY DEF Switched!Reactor, Reactors
  <2> QED
    BY <2>1 DEF Switched!Reactor
<1>4. AgentTypes(A)
  <2>1. Switched!Idle \in Calls
    BY DEF Switched!Idle, Calls
  <2> QED
    BY <1>1, <1>3, <2>1 DEF AgentTypes
<1>5. ReactorsHaveWindows
  BY <1>3 DEF ReactorsHaveWindows
<1>6. \A a \in A : CallHasWindow(a)
  BY DEF CallHasWindow, Switched!Idle
<1>7. ClonesApart(A)
  BY DEF ClonesApart
<1> QED
  BY <1>2, <1>4, <1>5, <1>6, <1>7 DEF RoleTypes

LEMMA RolesInit == MCInit => RolesInv
<1> SUFFICES ASSUME MCInit PROVE RolesInv
  OBVIOUS
<1>0. RoleMessages \in Nat /\ CloneMessages \in Nat /\ c1 \in {c1}
  BY MCAssumption DEF Switched!RolesAssumption, Cloned!RolesAssumption
<1>1. ASSUME scope = "cloned" PROVE RoleTypes(Callers, CloneMessages) /\ ClonesApart(Callers)
  <2>1. Cloned!Init
    BY <1>1 DEF MCInit
  <2>2. PICK n \in Names : /\ name = [a \in Callers |-> IF a = c1 THEN n ELSE None]
                           /\ reactors = <<Cloned!Reactor(0)>>
    BY <2>1 DEF Cloned!Init
  <2>3. Cloned!Reactor(0) = Switched!Reactor(0) /\ Cloned!Idle = Switched!Idle
    BY DEF Cloned!Reactor, Switched!Reactor, Cloned!Idle, Switched!Idle
  <2>4. /\ reactor = [a \in Callers |-> IF a = c1 THEN 1 ELSE 0]
        /\ made = <<>> /\ logs = [s \in Sessions |-> <<>>] /\ active = <<>>
        /\ role = [s \in Sessions |-> None] /\ said = 0
        /\ call = [a \in Callers |-> Cloned!Idle]
    BY <2>1 DEF Cloned!Init
  <2>5. reactors = <<Switched!Reactor(0)>> /\ call = [a \in Callers |-> Switched!Idle]
    BY <2>2, <2>3, <2>4
  <2> QED
    BY <1>0, <2>2, <2>4, <2>5, RoleInitTypes
<1>2. ASSUME scope = "switched"
      PROVE  RoleTypes({c1}, RoleMessages) /\ RunsOnItsReactor /\ AgentsWindowEndsLog
  <2>1. Switched!Init
    BY <1>2 DEF MCInit
  <2>2. PICK n \in Names : /\ name = [a \in {c1} |-> IF a = c1 THEN n ELSE None]
                           /\ reactors = <<Switched!Reactor(0)>>
    BY <2>1 DEF Switched!Init
  <2>3. /\ reactor = [a \in {c1} |-> IF a = c1 THEN 1 ELSE 0]
        /\ made = <<>> /\ logs = [s \in Sessions |-> <<>>] /\ active = <<>>
        /\ role = [s \in Sessions |-> None] /\ said = 0
        /\ call = [a \in {c1} |-> Switched!Idle]
    BY <2>1 DEF Switched!Init
  <2>4. RoleTypes({c1}, RoleMessages)
    BY <1>0, <2>2, <2>3, RoleInitTypes
  <2>5. RunsOnItsReactor
    BY <2>3 DEF RunsOnItsReactor, Switched!Idle
  <2>6. AgentsWindowEndsLog
    <3>1. WindowOf(reactor[c1]) = 0
      BY <2>2, <2>3 DEF WindowOf, Switched!Reactor
    <3> QED
      BY <3>1 DEF AgentsWindowEndsLog
  <2> QED
    BY <2>4, <2>5, <2>6
<1> QED
  BY <1>1, <1>2 DEF RolesInv

LEMMA RolesNext ==
  RolesInv /\ [MCNext]_<<scope, vars, accountVars, rolesVars>> => RolesInv'
<1> SUFFICES ASSUME RolesInv, [MCNext]_<<scope, vars, accountVars, rolesVars>> PROVE RolesInv'
  OBVIOUS
<1>0. /\ RoleMessages \in Nat /\ CloneMessages \in Nat /\ c1 \in {c1} /\ scope' = scope
      /\ TRUE \in BOOLEAN /\ FALSE \in BOOLEAN
  BY MCAssumption DEF Switched!RolesAssumption, Cloned!RolesAssumption, MCNext
<1>1. CASE scope = "switched" /\ Switched!Next
  <2>1. /\ RolesStep({c1}, FALSE, RoleMessages, c1)
        /\ RoleTypes({c1}, RoleMessages) /\ RunsOnItsReactor /\ AgentsWindowEndsLog
    BY <1>1, SwitchedStep DEF RolesInv
  <2>2. RoleTypes({c1}, RoleMessages)'
    BY <1>0, <2>1, RoleTypesStep
  <2>3. RunsOnItsReactor' /\ AgentsWindowEndsLog'
    BY <1>0, <2>1, RunsOnItsReactorStep, AgentsWindowStep
  <2> QED
    BY <1>0, <1>1, <2>2, <2>3 DEF RolesInv
<1>2. CASE scope = "cloned" /\ Cloned!Next
  <2>1. PICK a \in Callers : RolesStep(Callers, TRUE, CloneMessages, a)
    BY <1>2, ClonedStep
  <2>2. RoleTypes(Callers, CloneMessages) /\ ClonesApart(Callers)
    BY <1>2 DEF RolesInv
  <2>3. RoleTypes(Callers, CloneMessages)'
    BY <1>0, <2>1, <2>2, RoleTypesStep
  <2>4. ClonesApart(Callers)'
    BY <1>0, <2>1, <2>2, ClonesStep
  <2> QED
    BY <1>0, <1>2, <2>3, <2>4 DEF RolesInv
<1>3. CASE UNCHANGED rolesVars
  <2>1. UNCHANGED <<name, reactor, reactors, made, logs, active, role, said, call>>
    BY <1>3 DEF rolesVars
  <2>2. /\ RunsOnItsReactor' = RunsOnItsReactor /\ AgentsWindowEndsLog' = AgentsWindowEndsLog
        /\ ReactorsHaveWindows' = ReactorsHaveWindows
    BY <2>1 DEF RunsOnItsReactor, AgentsWindowEndsLog, ReactorsHaveWindows, WindowOf
  <2>3. \A A, limit : /\ StoreTypes(A, limit)' = StoreTypes(A, limit)
                      /\ AgentTypes(A)' = AgentTypes(A)
                      /\ ClonesApart(A)' = ClonesApart(A)
    BY <2>1 DEF StoreTypes, AgentTypes, ClonesApart, WindowOf
  <2>4. \A a : CallHasWindow(a)' = CallHasWindow(a)
    BY <2>1 DEF CallHasWindow, WindowOf
  <2> QED
    BY <1>0, <2>2, <2>3, <2>4 DEF RolesInv, RoleTypes
<1>4. (scope = "switched" /\ Switched!Next) \/ (scope = "cloned" /\ Cloned!Next)
        \/ UNCHANGED rolesVars
  BY DEF MCNext
<1> QED
  BY <1>1, <1>2, <1>3, <1>4

LEMMA RolesInvariant == MCSpec => []RolesInv
<1> QED
  BY RolesInit, RolesNext, PTL DEF MCSpec

\* What the two invariants of the run state of these scopes.
LEMMA RoleTypesMean ==
  ASSUME NEW A, NEW limit \in Nat, RoleTypes(A, limit)
  PROVE  /\ name \in [A -> Names \cup {None}] /\ reactor \in [A -> 0..Len(reactors)]
         /\ \A a \in A : name[a] # None => reactor[a] # 0
         /\ \A r \in Range(reactors) : /\ r.window \in 0..Len(made)
                                      /\ {r.pause, r.snapshot} \subseteq BOOLEAN
         /\ \A w \in Range(made) : /\ w.session \in Sessions /\ w.role \in Names \cup {None}
                                  /\ Range(w.messages) \subseteq RoleMessagesUpTo(A, limit)
         /\ \A s \in Sessions : Range(logs[s]) \subseteq RoleMessagesUpTo(A, limit)
         /\ Range(active) \subseteq Sessions /\ IsInjective(active)
         /\ role \in [Sessions -> Names \cup {None}] /\ said \in 0..limit
         /\ \A a \in A : call[a].pc # "idle" => WindowOf(call[a].reactor) # 0
<1> DEFINE M == RoleMessagesUpTo(A, limit)
           W == RoleWindowsUpTo(A, limit)
<1>0. StoreTypes(A, limit) /\ AgentTypes(A) /\ ReactorsHaveWindows /\ \A a \in A : CallHasWindow(a)
  BY DEF RoleTypes
<1>1. ASSUME NEW ms \in Seq(M) PROVE Range(ms) \subseteq M
  <2> HIDE DEF M
  <2> QED
    BY DEF Range
<1>2. made \in Seq(W) /\ logs \in [Sessions -> Seq(M)] /\ active \in Seq(Sessions)
  BY <1>0 DEF StoreTypes
<1>3. ASSUME NEW w \in Range(made)
      PROVE  w.session \in Sessions /\ w.role \in Names \cup {None} /\ w.messages \in Seq(M)
  <2>1. w \in W
    <3> HIDE DEF W
    <3> QED
      BY <1>2 DEF Range
  <2> QED
    BY <2>1 DEF RoleWindowsUpTo
<1>4. ASSUME NEW r \in Range(reactors)
      PROVE  r.window \in 0..Len(made) /\ {r.pause, r.snapshot} \subseteq BOOLEAN
  <2>1. PICK i \in 1..Len(reactors) : reactors[i] = r
    BY <1>0 DEF AgentTypes, Range
  <2>2. r \in Reactors /\ r.window <= Len(made)
    BY <1>0, <2>1 DEF AgentTypes, ReactorsHaveWindows
  <2>3. Len(made) \in Nat
    <3> HIDE DEF W
    <3> QED
      BY <1>2
  <2> QED
    BY <2>2, <2>3 DEF Reactors
<1>5. Range(active) \subseteq Sessions
  BY <1>2 DEF Range
<1>6. \A s \in Sessions : logs[s] \in Seq(M)
  BY <1>2
<1> HIDE DEF M
<1>7. \A w \in Range(made) : Range(w.messages) \subseteq M
  BY <1>1, <1>3
<1>8. \A s \in Sessions : Range(logs[s]) \subseteq M
  BY <1>1, <1>6
<1>9. \A a \in A : call[a].pc # "idle" => WindowOf(call[a].reactor) # 0
  BY <1>0 DEF CallHasWindow
<1>10. /\ name \in [A -> Names \cup {None}] /\ reactor \in [A -> 0..Len(reactors)]
       /\ \A a \in A : name[a] # None => reactor[a] # 0
  BY <1>0 DEF AgentTypes
<1>11. IsInjective(active) /\ role \in [Sessions -> Names \cup {None}] /\ said \in 0..limit
  BY <1>0 DEF StoreTypes
<1> QED
  BY <1>3, <1>4, <1>5, <1>7, <1>8, <1>9, <1>10, <1>11 DEF M

LEMMA SwitchedMeans ==
  ASSUME RoleTypes({c1}, RoleMessages), AgentsWindowEndsLog
  PROVE  Switched!TypeOK /\ Switched!WindowIsRecentLog
<1>0. RoleMessages \in Nat
  BY MCAssumption DEF Switched!RolesAssumption
<1>1. /\ RoleMessagesUpTo({c1}, RoleMessages) = Switched!Messages
      /\ \A r : Switched!WindowOf(r) = WindowOf(r)
  BY DEF RoleMessagesUpTo, Switched!Messages, Switched!WindowOf, WindowOf
<1>2. Switched!TypeOK
  BY <1>0, <1>1, RoleTypesMean, SwitchedOperators DEF Switched!TypeOK, Switched!Living
<1>3. Switched!WindowIsRecentLog
  <2> DEFINE M == RoleMessagesUpTo({c1}, RoleMessages)
             w == WindowOf(reactor[c1])
  <2> SUFFICES ASSUME name[c1] # None, w # 0
               PROVE  IsSuffix(made[w].messages, logs[made[w].session])
    BY <1>1, SwitchedOperators DEF Switched!WindowIsRecentLog, Switched!Living
  <2>1. StoreTypes({c1}, RoleMessages)
    BY DEF RoleTypes
  <2>2. w \in 1..Len(made)
    <3>1. /\ reactor[c1] \in 1..Len(reactors) /\ reactors \in Seq(Reactors)
      BY DEF RoleTypes, AgentTypes
    <3>2. reactors[reactor[c1]] \in Reactors /\ reactors[reactor[c1]].window <= Len(made)
      BY <3>1 DEF RoleTypes, ReactorsHaveWindows
    <3>3. made \in Seq(RoleWindowsUpTo({c1}, RoleMessages))
      BY <2>1 DEF StoreTypes
    <3>4. Len(made) \in Nat
      BY <3>3
    <3> QED
      BY <3>2, <3>4 DEF WindowOf, Reactors
  <2>3. IsEndOf(made[w].messages, logs[made[w].session])
    BY DEF AgentsWindowEndsLog
  <2> HIDE DEF w
  <2>4. made[w].messages \in Seq(M) /\ logs[made[w].session] \in Seq(M)
    BY <1>0, <2>1, <2>2, MadeTypes
  <2> HIDE DEF M
  <2> QED
    BY <2>3, <2>4, SuffixIsEnd
<1> QED
  BY <1>2, <1>3

LEMMA ClonedMeans ==
  ASSUME RoleTypes(Callers, CloneMessages), ClonesApart(Callers)
  PROVE  Cloned!TypeOK /\ Cloned!ClonesHaveTheirOwnWindow
<1>0. CloneMessages \in Nat
  BY MCAssumption DEF Cloned!RolesAssumption
<1>1. /\ RoleMessagesUpTo(Callers, CloneMessages) = Cloned!Messages
      /\ \A r : Cloned!WindowOf(r) = WindowOf(r)
      /\ \A s : Cloned!Range(s) = Range(s) /\ Cloned!IsInjective(s) = IsInjective(s)
  BY DEF RoleMessagesUpTo, Cloned!Messages, Cloned!WindowOf, WindowOf,
         Cloned!Range, Range, Cloned!IsInjective, IsInjective
<1>2. Cloned!TypeOK
  BY <1>0, <1>1, RoleTypesMean DEF Cloned!TypeOK, Cloned!Living
<1>3. Cloned!ClonesHaveTheirOwnWindow
  BY <1>1 DEF ClonesApart, Cloned!ClonesHaveTheirOwnWindow, Cloned!Living
<1> QED
  BY <1>2, <1>3

(***************************************************************************)
(* What an agent is reminded of is what was said: the window of one that   *)
(* is called by one goroutine is the end of its session's log after every  *)
(* slide, new session, pause and change of role between calls; and however *)
(* agents are cloned and switched in the middle of their calls, each       *)
(* writes to a window of its own.                                          *)
(***************************************************************************)
THEOREM WindowsEndTheirLogs == MCSpec => []WindowIsTheEndOfItsLog
<1>1. ConversationInv /\ RolesInv => WindowIsTheEndOfItsLog
  <2> SUFFICES ASSUME ConversationInv, RolesInv PROVE WindowIsTheEndOfItsLog
    OBVIOUS
  <2>1. scope = "serial" => Serial!TypeOK /\ Serial!WindowIsRecentLog
    BY SerialTypes, SerialWindow DEF ConversationInv
  <2>2. scope = "switched" => Switched!TypeOK /\ Switched!WindowIsRecentLog
    BY SwitchedMeans DEF RolesInv
  <2>3. scope = "cloned" => Cloned!TypeOK /\ Cloned!ClonesHaveTheirOwnWindow
    BY ClonedMeans DEF RolesInv
  <2> QED
    BY <2>1, <2>2, <2>3 DEF WindowIsTheEndOfItsLog
<1> QED
  BY <1>1, ConversationInvariant, RolesInvariant, PTL

(***************************************************************************)
(* The tokens of a session's calls (TokenAccount).                         *)
(***************************************************************************)

\* The folds of the three instances are those above.
LEMMA AccountOperators ==
  /\ \A ms : OneCaller!Weight(ms) = Weight(ms) /\ TwoCallers!Weight(ms) = Weight(ms)
  /\ \A ms : OneCaller!NonSystem(ms) = NonSystem(ms) /\ TwoCallers!NonSystem(ms) = NonSystem(ms)
  /\ \A ms, n : OneCaller!NewestWithin(ms, n) = NewestWithin(ms, n)
  /\ \A ms, n : TwoCallers!NewestWithin(ms, n) = NewestWithin(ms, n)
  /\ \A s : OneCaller!Range(s) = Range(s) /\ TwoCallers!Range(s) = Range(s)
  /\ \A s : TwoCallers!Total(s) = Sum(s)
  /\ \A w : OneCaller!Slid(w) \in {w, Slide(w).window}
  /\ \A w : TwoCallers!Slid(w) \in {w, Slide(w).window}
<1>1. \A ms : OneCaller!Weight(ms) = Weight(ms)
  BY DEF Weight, FoldLeft, MapThenFoldSet, Max,
         OneCaller!Weight, OneCaller!FoldLeft, OneCaller!MapThenFoldSet, OneCaller!Max
<1>2. \A ms : TwoCallers!Weight(ms) = Weight(ms)
  BY DEF Weight, FoldLeft, MapThenFoldSet, Max,
         TwoCallers!Weight, TwoCallers!FoldLeft, TwoCallers!MapThenFoldSet, TwoCallers!Max
<1>3. \A ms : OneCaller!NonSystem(ms) = NonSystem(ms)
  BY DEF NonSystem, FoldLeft, MapThenFoldSet, Max, Evictable,
         OneCaller!NonSystem, OneCaller!FoldLeft, OneCaller!MapThenFoldSet, OneCaller!Max,
         OneCaller!Evictable
<1>4. \A ms : TwoCallers!NonSystem(ms) = NonSystem(ms)
  BY DEF NonSystem, FoldLeft, MapThenFoldSet, Max, Evictable,
         TwoCallers!NonSystem, TwoCallers!FoldLeft, TwoCallers!MapThenFoldSet, TwoCallers!Max,
         TwoCallers!Evictable
<1>5. \A ms, n : OneCaller!NewestWithin(ms, n) = NewestWithin(ms, n)
  BY <1>1 DEF NewestWithin, Suffixes, OneCaller!NewestWithin, OneCaller!Suffixes
<1>6. \A ms, n : TwoCallers!NewestWithin(ms, n) = NewestWithin(ms, n)
  BY <1>2 DEF NewestWithin, Suffixes, TwoCallers!NewestWithin, TwoCallers!Suffixes
<1>7. \A s : OneCaller!Range(s) = Range(s) /\ TwoCallers!Range(s) = Range(s)
  BY DEF Range, OneCaller!Range, TwoCallers!Range
<1>8. \A s : TwoCallers!Total(s) = Sum(s)
  BY DEF Sum, FoldLeft, MapThenFoldSet, Max,
         TwoCallers!Total, TwoCallers!FoldLeft, TwoCallers!MapThenFoldSet, TwoCallers!Max
<1>9. \A w : OneCaller!Slid(w) \in {w, Slide(w).window}
  <2>1. \A ms, k : OneCaller!SlideStops(ms, k) <=> SlideStops(ms, k)
    BY <1>1, <1>3 DEF SlideStops, OneCaller!SlideStops
  <2>2. \A w : OneCaller!Slide(w) = Slide(w)
    BY <1>1, <1>3, <2>1 DEF Slide, OneCaller!Slide
  <2> QED
    BY <2>2 DEF OneCaller!Slid
<1>10. \A w : TwoCallers!Slid(w) \in {w, Slide(w).window}
  <2>1. \A ms, k : TwoCallers!SlideStops(ms, k) <=> SlideStops(ms, k)
    BY <1>2, <1>4 DEF SlideStops, TwoCallers!SlideStops
  <2>2. \A w : TwoCallers!Slide(w) = Slide(w)
    BY <1>2, <1>4, <2>1 DEF Slide, TwoCallers!Slide
  <2> QED
    BY <2>2 DEF TwoCallers!Slid
<1> QED
  BY <1>1, <1>2, <1>3, <1>4, <1>5, <1>6, <1>7, <1>8, <1>9, <1>10

(***************************************************************************)
(* The steps of TokenAccount, for any callers, weights and bounds.         *)
(***************************************************************************)

Question(t) == [role |-> "user", tokens |-> t]
Reply(t) == [role |-> "assistant", tokens |-> t]
Said(W) == [role : {"user", "assistant"}, tokens : W]
Longer(m, n) == [messages |-> Append(window.messages, m), used |-> window.used + n]
GoesTo(c, where) == doing' = [doing EXCEPT ![c] = where]

AccountAsk(W, limit, budget, c) ==
  /\ doing[c] = "idle" /\ Len(log) < limit
  /\ \E t \in W : /\ input' = [input EXCEPT ![c] = Append(NewestWithin(log, budget), Question(t))]
                  /\ window' = Longer(Question(t), 0)
                  /\ log' = Append(log, Question(t))
  /\ GoesTo(c, "call")
  /\ UNCHANGED <<records, streamed, usage>>

AccountCall(fails, c) ==
  /\ doing[c] = "call"
  /\ MaySlide(window, window')
  /\ usage' = [usage EXCEPT ![c] = [input |-> Sections + Weight(input[c]), output |-> 0,
                                          remain |-> 0]]
  /\ GoesTo(c, "stream") \/ (fails /\ GoesTo(c, "end"))
  /\ UNCHANGED <<log, records, streamed, input>>

AccountStream(c) ==
  /\ doing[c] = "stream"
  /\ \E n \in Nat : usage' = [usage EXCEPT ![c].output = n]
  /\ streamed' = Append(streamed, usage[c].input)
  /\ GoesTo(c, "read")
  /\ UNCHANGED <<window, log, records, input>>

AccountRemaining(most, c) ==
  /\ doing[c] = "read"
  /\ \E n \in 0..most : usage' = [usage EXCEPT ![c].remain = n]
  /\ GoesTo(c, "record")
  /\ UNCHANGED <<window, log, records, streamed, input>>

AccountRecord(c) ==
  /\ doing[c] = "record"
  /\ window' = [window EXCEPT !.used = @ + usage[c].input]
  /\ records' = Append(records, usage[c])
  /\ GoesTo(c, "think")
  /\ UNCHANGED <<log, streamed, input, usage>>

AccountThought(W, limit, c) ==
  /\ doing[c] = "think" /\ Len(log) < limit
  /\ \E t \in W : /\ input' = [input EXCEPT ![c] = Append(@, Reply(t))]
                  /\ window' = Longer(Reply(t), t)
                  /\ log' = Append(log, Reply(t))
  /\ GoesTo(c, "call") \/ GoesTo(c, "end")
  /\ UNCHANGED <<records, streamed, usage>>

AccountAnswer(W, limit, c) ==
  /\ doing[c] = "end" /\ Len(log) < limit
  /\ \E t \in W : /\ MaySlide(Longer(Reply(t), 0), window')
                  /\ log' = Append(log, Reply(t))
  /\ GoesTo(c, "idle")
  /\ UNCHANGED <<records, streamed, input, usage>>

AccountEnd(c) ==
  /\ \/ doing[c] = "think" /\ GoesTo(c, "end")
     \/ doing[c] = "end" /\ GoesTo(c, "idle")
  /\ UNCHANGED <<window, log, records, streamed, input, usage>>

AccountStep(W, limit, budget, most, fails, c) ==
  \/ AccountAsk(W, limit, budget, c) \/ AccountCall(fails, c) \/ AccountStream(c)
  \/ AccountRemaining(most, c) \/ AccountRecord(c) \/ AccountThought(W, limit, c)
  \/ AccountAnswer(W, limit, c) \/ AccountEnd(c)

Usages(most) == [input : Nat, output : Nat, remain : 0..most]

AccountTypes(C, W, limit, most) ==
  /\ window \in [messages : Seq(Said(W)), used : Nat]
  /\ log \in Seq(Said(W)) /\ Len(log) <= limit
  /\ records \in Seq(Usages(most)) /\ streamed \in Seq(Nat)
  /\ doing \in [C -> {"idle", "call", "stream", "read", "record", "think", "end"}]
  /\ input \in [C -> Seq(Said(W))] /\ usage \in [C -> Usages(most)]

\* Questions and replies are what is said, and weigh what their text weighs.
LEMMA SaidWeighs ==
  ASSUME NEW W \in SUBSET Nat
  PROVE  /\ \A e \in Said(W) : e.tokens \in W /\ e.tokens \in Nat
         /\ \A t \in W : Question(t) \in Said(W) /\ Reply(t) \in Said(W)
BY DEF Said, Question, Reply

\* What may be left after a slide is a window.
LEMMA SlidType ==
  ASSUME NEW W \in SUBSET Nat, NEW w \in [messages : Seq(Said(W)), used : Nat], NEW v,
         MaySlide(w, v)
  PROVE  v \in [messages : Seq(Said(W)), used : Nat]
<1>1. ASSUME NEW k \in 0..Len(w.messages), NEW n \in Nat
      PROVE  [messages |-> SubSeq(w.messages, k + 1, Len(w.messages)), used |-> n]
               \in [messages : Seq(Said(W)), used : Nat]
  <2>1. SubSeq(w.messages, k + 1, Len(w.messages)) \in Seq(Said(W))
    OBVIOUS
  <2> QED
    BY <2>1
<1> QED
  BY <1>1 DEF MaySlide

\* What the models of accounts assume of their constants.
LEMMA AccountConstants ==
  /\ Sections \in Nat /\ Replies \in SUBSET Nat /\ MaxTokens \in Nat /\ AccountBudget \in Nat
  /\ OneWeights \in SUBSET Nat /\ TwoWeights \in SUBSET Nat
  /\ OneMessages \in Nat /\ TwoMessages \in Nat
  /\ \A tokens \in OneWeights : tokens <= AccountBudget
BY MCAssumption DEF OneCaller!AccountAssumption, TwoCallers!AccountAssumption

\* Next of the instance with one caller ...
LEMMA OneCallerStep ==
  ASSUME AccountTypes({c1}, OneWeights, OneMessages, MaxTokens), OneCaller!Next
  PROVE  AccountStep(OneWeights, OneMessages, AccountBudget, MaxTokens, FALSE, c1)
<1> DEFINE W == OneWeights
           M == Said(W)
<1>0. /\ \A e \in M : e.tokens \in Nat
      /\ \A t \in W : Question(t) \in M /\ Reply(t) \in M
  BY SaidWeighs, AccountConstants
<1>1. window \in [messages : Seq(M), used : Nat] /\ input[c1] \in Seq(M)
        /\ usage[c1] \in Usages(MaxTokens)
  BY DEF AccountTypes
<1>2. \A t \in W : OneCaller!Added("user", t, FALSE) = Longer(Question(t), 0)
                   /\ OneCaller!Added("assistant", t, TRUE) = Longer(Reply(t), t)
                   /\ OneCaller!Added("assistant", t, FALSE) = Longer(Reply(t), 0)
  BY DEF OneCaller!Added, Longer, Question, Reply
<1>3. \A t \in W : Longer(Reply(t), 0) \in [messages : Seq(M), used : Nat]
  BY <1>0, <1>1 DEF Longer
<1>4. CASE OneCaller!Ask(c1)
  BY <1>2, <1>4, AccountOperators
    DEF OneCaller!Ask, OneCaller!Goto, OneCaller!accounts, AccountStep, AccountAsk, GoesTo, Question
<1>5. CASE OneCaller!CallStream(c1)
  <2>1. window' = OneCaller!Slid(window)
    BY <1>5 DEF OneCaller!CallStream
  <2>2. MaySlide(window, window')
    <3> HIDE DEF M
    <3> QED
      BY <1>0, <1>1, <2>1, AccountOperators, SlideMay
  <2>3. /\ doing[c1] = "call" /\ GoesTo(c1, "stream")
        /\ usage' = [usage EXCEPT
                        ![c1] = [OneCaller!NoUsage EXCEPT !.input = Sections + Weight(input[c1])]]
        /\ UNCHANGED <<log, records, streamed, input>>
    BY <1>5, AccountOperators
      DEF OneCaller!CallStream, OneCaller!Goto, OneCaller!accounts, GoesTo
  <2>4. \A n : [OneCaller!NoUsage EXCEPT !.input = n] = [input |-> n, output |-> 0, remain |-> 0]
    BY DEF OneCaller!NoUsage
  <2> QED
    BY <2>2, <2>3, <2>4 DEF AccountStep, AccountCall
<1>6. CASE OneCaller!StreamEnds(c1)
  <2>1. \A reply \in Replies : \A output \in {0, usage[c1].input + reply} : output \in Nat
    BY <1>1, AccountConstants DEF Usages
  <2> QED
    BY <1>6, <2>1 DEF OneCaller!StreamEnds, OneCaller!Goto, AccountStep, AccountStream, GoesTo
<1>7. ~OneCaller!StreamBreaks(c1)
  BY DEF OneCaller!StreamBreaks
<1>8. CASE OneCaller!ReadRemaining(c1)
  <2>1. OneCaller!Remaining \in 0..MaxTokens
    BY <1>1, AccountConstants DEF OneCaller!Remaining
  <2> QED
    BY <1>8, <2>1
      DEF OneCaller!ReadRemaining, OneCaller!Goto, OneCaller!accounts, AccountStep,
          AccountRemaining, GoesTo
<1>9. CASE OneCaller!Record(c1)
  BY <1>9 DEF OneCaller!Record, OneCaller!Goto, AccountStep, AccountRecord, GoesTo
<1>10. CASE OneCaller!Step(c1)
  BY <1>2, <1>10
    DEF OneCaller!Step, OneCaller!Goto, OneCaller!accounts, AccountStep, AccountThought,
      GoesTo, Reply
<1>11. CASE OneCaller!Answer(c1)
  <2>1. PICK t \in W : /\ window' = OneCaller!Slid(Longer(Reply(t), 0))
                       /\ log' = Append(log, Reply(t))
    BY <1>2, <1>11 DEF OneCaller!Answer, Reply
  <2>2. MaySlide(Longer(Reply(t), 0), window')
    <3> HIDE DEF M
    <3> QED
      BY <1>0, <1>3, <2>1, AccountOperators, SlideMay
  <2> QED
    BY <1>11, <2>1, <2>2
      DEF OneCaller!Answer, OneCaller!Goto, OneCaller!accounts, AccountStep, AccountAnswer, GoesTo
<1>12. CASE OneCaller!NoThought(c1) \/ OneCaller!NoAnswer(c1)
  BY <1>12
    DEF OneCaller!NoThought, OneCaller!NoAnswer, OneCaller!Goto, OneCaller!accounts,
        AccountStep, AccountEnd, GoesTo
<1> QED
  BY <1>4, <1>5, <1>6, <1>7, <1>8, <1>9, <1>10, <1>11, <1>12 DEF OneCaller!Next

\* ... and with two, whose provider may fail.
LEMMA TwoCallersStep ==
  ASSUME AccountTypes({c1, c2}, TwoWeights, TwoMessages, MaxTokens), TwoCallers!Next
  PROVE  \E c \in {c1, c2} : AccountStep(TwoWeights, TwoMessages, AccountBudget, MaxTokens, TRUE, c)
<1> DEFINE W == TwoWeights
           M == Said(W)
<1>0. /\ \A e \in M : e.tokens \in Nat
      /\ \A t \in W : Question(t) \in M /\ Reply(t) \in M
  BY SaidWeighs, AccountConstants
<1>who. PICK c \in {c1, c2} :
        \/ TwoCallers!Ask(c) \/ TwoCallers!CallStream(c) \/ TwoCallers!StreamEnds(c)
        \/ TwoCallers!StreamBreaks(c) \/ TwoCallers!ReadRemaining(c) \/ TwoCallers!Record(c)
        \/ TwoCallers!Step(c) \/ TwoCallers!NoThought(c) \/ TwoCallers!Answer(c)
        \/ TwoCallers!NoAnswer(c)
  BY DEF TwoCallers!Next
<1> SUFFICES AccountStep(TwoWeights, TwoMessages, AccountBudget, MaxTokens, TRUE, c)
  OBVIOUS
<1>1. window \in [messages : Seq(M), used : Nat] /\ input[c] \in Seq(M)
        /\ usage[c] \in Usages(MaxTokens)
  BY DEF AccountTypes
<1>2. \A t \in W : TwoCallers!Added("user", t, FALSE) = Longer(Question(t), 0)
                   /\ TwoCallers!Added("assistant", t, TRUE) = Longer(Reply(t), t)
                   /\ TwoCallers!Added("assistant", t, FALSE) = Longer(Reply(t), 0)
  BY DEF TwoCallers!Added, Longer, Question, Reply
<1>3. \A t \in W : Longer(Reply(t), 0) \in [messages : Seq(M), used : Nat]
  BY <1>0, <1>1 DEF Longer
<1>4. CASE TwoCallers!Ask(c)
  BY <1>2, <1>4, AccountOperators
    DEF TwoCallers!Ask, TwoCallers!Goto, TwoCallers!accounts, AccountStep, AccountAsk, GoesTo,
      Question
<1>5. CASE TwoCallers!CallStream(c)
  <2>1. window' = TwoCallers!Slid(window)
    BY <1>5 DEF TwoCallers!CallStream
  <2>2. MaySlide(window, window')
    <3> HIDE DEF M
    <3> QED
      BY <1>0, <1>1, <2>1, AccountOperators, SlideMay
  <2>3. /\ doing[c] = "call" /\ (GoesTo(c, "stream") \/ GoesTo(c, "end"))
        /\ usage' = [usage EXCEPT ![c] =
                       [TwoCallers!NoUsage EXCEPT !.input = Sections + Weight(input[c])]]
        /\ UNCHANGED <<log, records, streamed, input>>
    BY <1>5, AccountOperators
      DEF TwoCallers!CallStream, TwoCallers!Goto, TwoCallers!accounts, GoesTo
  <2>4. \A n : [TwoCallers!NoUsage EXCEPT !.input = n] = [input |-> n, output |-> 0, remain |-> 0]
    BY DEF TwoCallers!NoUsage
  <2> QED
    BY <2>2, <2>3, <2>4 DEF AccountStep, AccountCall
<1>6. CASE TwoCallers!StreamEnds(c)
  <2>1. \A reply \in Replies : \A output \in {0, usage[c].input + reply} : output \in Nat
    BY <1>1, AccountConstants DEF Usages
  <2> QED
    BY <1>6, <2>1 DEF TwoCallers!StreamEnds, TwoCallers!Goto, AccountStep, AccountStream, GoesTo
<1>7. CASE TwoCallers!StreamBreaks(c)
  <2>1. usage' = [usage EXCEPT ![c].output = usage[c].output] /\ usage[c].output \in Nat
    BY <1>1, <1>7 DEF TwoCallers!StreamBreaks, Usages, AccountTypes
  <2> QED
    BY <1>7, <2>1 DEF TwoCallers!StreamBreaks, TwoCallers!Goto, AccountStep, AccountStream, GoesTo
<1>8. CASE TwoCallers!ReadRemaining(c)
  <2>1. TwoCallers!Remaining \in 0..MaxTokens
    BY <1>1, AccountConstants DEF TwoCallers!Remaining
  <2> QED
    BY <1>8, <2>1
      DEF TwoCallers!ReadRemaining, TwoCallers!Goto, TwoCallers!accounts, AccountStep,
          AccountRemaining, GoesTo
<1>9. CASE TwoCallers!Record(c)
  BY <1>9 DEF TwoCallers!Record, TwoCallers!Goto, AccountStep, AccountRecord, GoesTo
<1>10. CASE TwoCallers!Step(c)
  BY <1>2, <1>10
    DEF TwoCallers!Step, TwoCallers!Goto, TwoCallers!accounts, AccountStep, AccountThought,
      GoesTo, Reply
<1>11. CASE TwoCallers!Answer(c)
  <2>1. PICK t \in W : /\ window' = TwoCallers!Slid(Longer(Reply(t), 0))
                       /\ log' = Append(log, Reply(t))
    BY <1>2, <1>11 DEF TwoCallers!Answer, Reply
  <2>2. MaySlide(Longer(Reply(t), 0), window')
    <3> HIDE DEF M
    <3> QED
      BY <1>0, <1>3, <2>1, AccountOperators, SlideMay
  <2> QED
    BY <1>11, <2>1, <2>2
      DEF TwoCallers!Answer, TwoCallers!Goto, TwoCallers!accounts, AccountStep, AccountAnswer,
        GoesTo
<1>12. CASE TwoCallers!NoThought(c) \/ TwoCallers!NoAnswer(c)
  BY <1>12
    DEF TwoCallers!NoThought, TwoCallers!NoAnswer, TwoCallers!Goto, TwoCallers!accounts,
        AccountStep, AccountEnd, GoesTo
<1> QED
  BY <1>who, <1>4, <1>5, <1>6, <1>7, <1>8, <1>9, <1>10, <1>11, <1>12

\* Every step keeps the types.
LEMMA AccountTypesStep ==
  ASSUME NEW C, NEW W \in SUBSET Nat, NEW limit \in Nat, NEW budget \in Nat, NEW most \in Nat,
         NEW fails, NEW c \in C, AccountTypes(C, W, limit, most),
         AccountStep(W, limit, budget, most, fails, c)
  PROVE  AccountTypes(C, W, limit, most)'
<1> DEFINE M == Said(W)
           Windowed == [messages : Seq(M), used : Nat]
           Where == {"idle", "call", "stream", "read", "record", "think", "end"}
<1>0. /\ window \in Windowed /\ log \in Seq(M) /\ Len(log) <= limit
      /\ records \in Seq(Usages(most)) /\ streamed \in Seq(Nat)
      /\ doing \in [C -> Where] /\ input \in [C -> Seq(M)] /\ usage \in [C -> Usages(most)]
  BY DEF AccountTypes
<1>1. /\ \A e \in M : e.tokens \in Nat
      /\ \A t \in W : t \in Nat /\ Question(t) \in M /\ Reply(t) \in M
  BY SaidWeighs
<1>2. \A w \in Windowed : \A v : MaySlide(w, v) => v \in Windowed
  BY SlidType
<1>3. \A t \in W : /\ Longer(Question(t), 0) \in Windowed
                    /\ Longer(Reply(t), 0) \in Windowed /\ Longer(Reply(t), t) \in Windowed
  BY <1>0, <1>1 DEF Longer
<1>4. input[c] \in Seq(M) /\ usage[c] \in Usages(most) /\ usage[c].input \in Nat
  BY <1>0 DEF Usages
<1> HIDE DEF M
<1>5. doing' \in [C -> Where]
  BY <1>0
    DEF AccountStep, AccountAsk, AccountCall, AccountStream, AccountRemaining, AccountRecord,
        AccountThought, AccountAnswer, AccountEnd, GoesTo
<1>6. window' \in Windowed
  <2>1. CASE AccountAsk(W, limit, budget, c)
    BY <1>3, <2>1 DEF AccountAsk
  <2>2. CASE AccountCall(fails, c)
    BY <1>0, <1>2, <2>2 DEF AccountCall
  <2>3. CASE AccountRecord(c)
    <3>1. window.used + usage[c].input \in Nat /\ window.messages \in Seq(M)
      BY <1>0, <1>4
    <3>2. \A n \in Nat : [window EXCEPT !.used = n] \in Windowed
      BY <1>0
    <3> QED
      BY <2>3, <3>1, <3>2 DEF AccountRecord
  <2>4. CASE AccountThought(W, limit, c)
    BY <1>3, <2>4 DEF AccountThought
  <2>5. CASE AccountAnswer(W, limit, c)
    <3>1. PICK t \in W : MaySlide(Longer(Reply(t), 0), window')
      BY <2>5 DEF AccountAnswer
    <3>2. Longer(Reply(t), 0) \in Windowed
      BY <1>3
    <3> HIDE DEF Windowed
    <3> QED
      BY <1>2, <3>1, <3>2
  <2> QED
    BY <1>0, <2>1, <2>2, <2>3, <2>4, <2>5
      DEF AccountStep, AccountStream, AccountRemaining, AccountEnd
<1>7. log' \in Seq(M) /\ Len(log') <= limit
  <2>1. ASSUME NEW m \in M, Len(log) < limit, log' = Append(log, m)
        PROVE  log' \in Seq(M) /\ Len(log') <= limit
    BY <1>0, <2>1
  <2> QED
    BY <1>0, <1>1, <2>1
      DEF AccountStep, AccountAsk, AccountCall, AccountStream, AccountRemaining, AccountRecord,
          AccountThought, AccountAnswer, AccountEnd
<1>8. input' \in [C -> Seq(M)]
  <2>1. CASE AccountAsk(W, limit, budget, c)
    <3>1. NewestWithin(log, budget) \in Seq(M)
      BY <1>0, <1>1, NewestWithinType
    <3>2. \A m \in M : Append(NewestWithin(log, budget), m) \in Seq(M)
      BY <3>1
    <3> QED
      BY <1>0, <1>1, <2>1, <3>2 DEF AccountAsk
  <2>2. CASE AccountThought(W, limit, c)
    <3>1. \A m \in M : Append(input[c], m) \in Seq(M)
      BY <1>0
    <3> QED
      BY <1>0, <1>1, <2>2, <3>1 DEF AccountThought
  <2> QED
    BY <1>0, <2>1, <2>2
      DEF AccountStep, AccountCall, AccountStream, AccountRemaining, AccountRecord,
          AccountAnswer, AccountEnd
<1>9. usage' \in [C -> Usages(most)]
  <2>1. CASE AccountCall(fails, c)
    <3>0. Weight(input[c]) \in Nat
      BY <1>1, <1>4, WeightType
    <3>1. Sections + Weight(input[c]) \in Nat
      BY <3>0, AccountConstants
    <3>2. [input |-> Sections + Weight(input[c]), output |-> 0, remain |-> 0] \in Usages(most)
      BY <3>1 DEF Usages
    <3> QED
      BY <1>0, <2>1, <3>2 DEF AccountCall
  <2>2. CASE AccountStream(c) \/ AccountRemaining(most, c)
    <3>1. /\ \A n \in Nat : [usage[c] EXCEPT !.output = n] \in Usages(most)
          /\ \A n \in 0..most : [usage[c] EXCEPT !.remain = n] \in Usages(most)
      BY <1>4 DEF Usages
    <3> QED
      BY <1>0, <2>2, <3>1 DEF AccountStream, AccountRemaining
  <2> QED
    BY <1>0, <2>1, <2>2
      DEF AccountStep, AccountAsk, AccountRecord, AccountThought, AccountAnswer, AccountEnd
<1>10. records' \in Seq(Usages(most)) /\ streamed' \in Seq(Nat)
  <2>1. Append(records, usage[c]) \in Seq(Usages(most))
          /\ Append(streamed, usage[c].input) \in Seq(Nat)
    BY <1>0, <1>4
  <2> QED
    BY <1>0, <2>1
      DEF AccountStep, AccountAsk, AccountCall, AccountStream, AccountRemaining, AccountRecord,
          AccountThought, AccountAnswer, AccountEnd
<1> QED
  BY <1>5, <1>6, <1>7, <1>8, <1>9, <1>10 DEF AccountTypes, M

(***************************************************************************)
(* What one caller has counted, and what two have recorded.                *)
(***************************************************************************)

\* The tokens in the window are counted, or about to be as a part of the input.
\* What is late when a call ends is its answer, which the next one remembers.
Covered(c) ==
  LET weight == Weight(window.messages)
      last   == IF log = <<>> THEN 0 ELSE log[Len(log)].tokens
  IN /\ doing[c] = "idle" => weight <= window.used + last
     /\ doing[c] = "call" => weight <= window.used + Weight(input[c])
     /\ doing[c] \in {"stream", "read", "record"} => weight <= window.used + usage[c].input
     /\ doing[c] \in {"think", "end"} => weight <= window.used

\* A slide leaves a window whose tokens are counted.
LEMMA SlidIsCounted ==
  ASSUME NEW W \in SUBSET Nat, NEW w \in [messages : Seq(Said(W)), used : Nat], NEW v,
         MaySlide(w, v), NEW n \in Nat, Weight(w.messages) <= w.used + n
  PROVE  v.used \in Nat /\ Weight(v.messages) \in Nat /\ Weight(v.messages) <= v.used + n
<1>1. v \in [messages : Seq(Said(W)), used : Nat]
  BY SlidType
<1>2. v.used \in Nat /\ Weight(v.messages) \in Nat
  BY <1>1, SaidWeighs, WeightType
<1>3. v = w \/ Weight(v.messages) <= v.used
  <2> SUFFICES ASSUME v # w PROVE Weight(v.messages) <= v.used
    OBVIOUS
  <2> DEFINE rest(k) == SubSeq(w.messages, k + 1, Len(w.messages))
  <2>1. PICK k \in 0..Len(w.messages), m \in Nat :
          v = [messages |-> rest(k), used |-> m] /\ Weight(rest(k)) <= m
    BY DEF MaySlide
  <2> HIDE DEF rest
  <2>2. v.messages = rest(k) /\ v.used = m
    BY <2>1
  <2> QED
    BY <2>1, <2>2
<1> QED
  BY <1>2, <1>3

\* A step keeps what is counted the weight of what the window has.
LEMMA CoveredStep ==
  ASSUME NEW W \in SUBSET Nat, NEW limit \in Nat, NEW budget \in Nat, NEW most \in Nat,
         NEW c, \A t \in W : t <= budget, AccountTypes({c}, W, limit, most), Covered(c),
         AccountStep(W, limit, budget, most, FALSE, c)
  PROVE  Covered(c)'
<1> DEFINE M == Said(W)
           weight == Weight(window.messages)
           used == window.used
           last == IF log = <<>> THEN 0 ELSE log[Len(log)].tokens
<1>0. /\ window \in [messages : Seq(M), used : Nat] /\ log \in Seq(M)
      /\ input[c] \in Seq(M) /\ usage[c].input \in Nat
      /\ DOMAIN doing = {c} /\ DOMAIN input = {c} /\ DOMAIN usage = {c}
  BY DEF AccountTypes, Usages
<1>1. /\ \A e \in M : e.tokens \in W /\ e.tokens \in Nat
      /\ \A t \in W : t \in Nat /\ Question(t) \in M /\ Reply(t) \in M
      /\ \A t \in W : Question(t).tokens = t /\ Reply(t).tokens = t
  BY SaidWeighs DEF Question, Reply
<1>2. \A where : GoesTo(c, where) => doing'[c] = where
  BY <1>0 DEF GoesTo
<1> HIDE DEF M
<1>3. window.messages \in Seq(M) /\ used \in Nat /\ weight \in Nat /\ Weight(input[c]) \in Nat
  BY <1>0, <1>1, WeightType
<1>4. ASSUME NEW t \in W
      PROVE  /\ Longer(Question(t), 0).used = used /\ Longer(Reply(t), 0).used = used
             /\ Longer(Reply(t), t).used = used + t
             /\ Weight(Longer(Question(t), 0).messages) = weight + t
             /\ Weight(Longer(Reply(t), 0).messages) = weight + t
             /\ Weight(Longer(Reply(t), t).messages) = weight + t
  <2>1. /\ Weight(Append(window.messages, Question(t))) = weight + Question(t).tokens
        /\ Weight(Append(window.messages, Reply(t))) = weight + Reply(t).tokens
    BY <1>1, <1>3, WeightAppend
  <2>2. used + 0 = used
    BY <1>3
  <2> QED
    BY <1>1, <2>1, <2>2 DEF Longer
<1>5. last \in Nat
  BY <1>0, <1>1
<1>6. CASE AccountAsk(W, limit, budget, c)
  <2> DEFINE h == NewestWithin(log, budget)
  <2>1. PICK t \in W : /\ input' = [input EXCEPT ![c] = Append(h, Question(t))]
                       /\ window' = Longer(Question(t), 0)
    BY <1>6 DEF AccountAsk
  <2>2. h \in Seq(M) /\ Weight(h) \in Nat
    BY <1>0, <1>1, NewestWithinType, WeightType
  <2>3. Weight(h) >= last
    <3>1. CASE log = <<>>
      BY <2>2, <3>1
    <3>2. CASE log # <<>>
      <4>1. log[Len(log)] \in M
        BY <1>0, <3>2
      <4>2. log[Len(log)].tokens <= budget
        BY <1>1, <4>1
      <4> QED
        BY <1>0, <1>1, <3>2, <4>2, LastIsRemembered
    <3> QED
      BY <3>1, <3>2
  <2> HIDE DEF h, last
  <2>4. Weight(Append(h, Question(t))) = Weight(h) + t
    BY <1>1, <2>2, WeightAppend
  <2>5. /\ Weight(window'.messages) = weight + t /\ window'.used = used
        /\ input'[c] = Append(h, Question(t))
    BY <1>0, <1>4, <2>1
  <2>6. weight <= used + last /\ doing'[c] = "call"
    BY <1>2, <1>6 DEF AccountAsk, Covered, last
  <2>7. Weight(window'.messages) <= window'.used + Weight(input'[c])
    <3>1. weight + t <= used + (Weight(h) + t)
      BY <1>1, <1>3, <1>5, <2>2, <2>3, <2>6
    <3> HIDE DEF weight, used
    <3> QED
      BY <2>4, <2>5, <3>1
  <2> QED
    BY <2>6, <2>7 DEF Covered
<1>7. CASE AccountCall(FALSE, c)
  <2>1. /\ weight <= used + Weight(input[c]) /\ MaySlide(window, window')
        /\ doing'[c] = "stream"
        /\ usage' = [usage EXCEPT ![c] = [input |-> Sections + Weight(input[c]), output |-> 0,
                                          remain |-> 0]]
    BY <1>2, <1>7 DEF AccountCall, Covered
  <2>2. window'.used \in Nat /\ Weight(window'.messages) \in Nat
        /\ Weight(window'.messages) <= window'.used + Weight(input[c])
    BY <1>0, <1>3, <2>1, SlidIsCounted DEF M
  <2>3. usage'[c].input = Sections + Weight(input[c])
    BY <1>0, <2>1
  <2>4. Weight(window'.messages) <= window'.used + usage'[c].input
    BY <1>3, <2>2, <2>3, AccountConstants
  <2> QED
    BY <2>1, <2>4 DEF Covered
<1>8. CASE AccountStream(c) \/ AccountRemaining(most, c)
  <2>1. usage'[c].input = usage[c].input
    <3>1. \A n : /\ [usage EXCEPT ![c].output = n][c].input = usage[c].input
                 /\ [usage EXCEPT ![c].remain = n][c].input = usage[c].input
      BY <1>0 DEF AccountTypes, Usages
    <3> QED
      BY <1>8, <3>1 DEF AccountStream, AccountRemaining
  <2>2. /\ doing[c] \in {"stream", "read"} /\ doing'[c] \in {"read", "record"}
        /\ window' = window
    BY <1>2, <1>8 DEF AccountStream, AccountRemaining
  <2> QED
    BY <2>1, <2>2 DEF Covered
<1>9. CASE AccountRecord(c)
  <2>1. window'.used = used + usage[c].input /\ window'.messages = window.messages
    BY <1>0, <1>9 DEF AccountRecord
  <2>2. weight <= used + usage[c].input /\ doing'[c] = "think"
    BY <1>2, <1>9 DEF AccountRecord, Covered
  <2> QED
    BY <2>1, <2>2 DEF Covered
<1>10. CASE AccountThought(W, limit, c)
  <2>1. PICK t \in W : /\ input' = [input EXCEPT ![c] = Append(@, Reply(t))]
                       /\ window' = Longer(Reply(t), t)
    BY <1>10 DEF AccountThought
  <2>2. weight <= used /\ doing'[c] \in {"call", "end"}
    BY <1>2, <1>10 DEF AccountThought, Covered
  <2>3. Weight(window'.messages) = weight + t /\ window'.used = used + t /\ t \in Nat
    BY <1>1, <1>4, <2>1
  <2>4. Weight(input'[c]) \in Nat
    <3>1. input'[c] = Append(input[c], Reply(t)) /\ Append(input[c], Reply(t)) \in Seq(M)
      <4>1. Reply(t) \in M /\ input[c] \in Seq(M) /\ c \in DOMAIN input
        BY <1>0, <1>1, <2>1
      <4>2. input'[c] = Append(input[c], Reply(t))
        BY <2>1, <4>1
      <4> QED
        BY <4>1, <4>2
    <3> QED
      BY <1>1, <3>1, WeightType
  <2>5. /\ Weight(window'.messages) <= window'.used
        /\ Weight(window'.messages) <= window'.used + Weight(input'[c])
    BY <1>3, <2>2, <2>3, <2>4
  <2> QED
    BY <2>2, <2>5 DEF Covered
<1>11. CASE AccountAnswer(W, limit, c)
  <2>1. PICK t \in W : /\ MaySlide(Longer(Reply(t), 0), window')
                       /\ log' = Append(log, Reply(t))
    BY <1>11 DEF AccountAnswer
  <2>2. weight <= used /\ doing'[c] = "idle"
    BY <1>2, <1>11 DEF AccountAnswer, Covered
  <2>3. Longer(Reply(t), 0) \in [messages : Seq(M), used : Nat]
    <3>1. Append(window.messages, Reply(t)) \in Seq(M)
      <4>1. Reply(t) \in M
        BY <1>1
      <4> QED
        BY <1>3, <4>1
    <3>2. used + 0 \in Nat
      BY <1>3
    <3> HIDE DEF used
    <3> QED
      BY <3>1, <3>2 DEF Longer, used
  <2>4. /\ Weight(Longer(Reply(t), 0).messages) = weight + t
        /\ Longer(Reply(t), 0).used = used /\ t \in Nat
    BY <1>1, <1>4
  <2>5. Weight(Longer(Reply(t), 0).messages) <= Longer(Reply(t), 0).used + t
    BY <1>3, <2>2, <2>4
  <2>6. Weight(window'.messages) <= window'.used + t
    BY <2>1, <2>3, <2>4, <2>5, SlidIsCounted DEF M
  <2>7. log' # <<>> /\ log'[Len(log')].tokens = t
    <3>1. Reply(t) \in M /\ Reply(t).tokens = t
      BY <1>1
    <3>2. log' # <<>> /\ log'[Len(log')] = Reply(t)
      BY <1>0, <2>1, <3>1
    <3> QED
      BY <3>1, <3>2
  <2> QED
    BY <2>2, <2>6, <2>7 DEF Covered
<1>12. CASE AccountEnd(c)
  <2>1. /\ weight <= used /\ doing'[c] \in {"end", "idle"}
        /\ window' = window /\ log' = log
    BY <1>2, <1>12 DEF AccountEnd, Covered
  <2>2. weight <= used + last
    BY <1>3, <1>5, <2>1
  <2> QED
    BY <2>1, <2>2 DEF Covered
<1> QED
  BY <1>6, <1>7, <1>8, <1>9, <1>10, <1>11, <1>12 DEF AccountStep

Inputs(calls) == [i \in DOMAIN calls |-> calls[i].input]
InputOf(c) == IF doing[c] \in {"read", "record"} THEN usage[c].input ELSE 0
InputInFlight == IF c1 = c2 THEN InputOf(c1) ELSE InputOf(c1) + InputOf(c2)

\* The fold over the calls whose usage is about to be recorded: the sum of one
\* or two, in whatever order they are chosen.
LEMMA SpentInFlight ==
  ASSUME NEW W, NEW limit, NEW most, AccountTypes({c1, c2}, W, limit, most)
  PROVE  TwoCallers!SpentBy(TwoCallers!InFlight) = InputInFlight
<1> DEFINE S == TwoCallers!InFlight
           some(s) == CHOOSE x \in s : TRUE
           Equation(f) == f = [s \in SUBSET S |->
                                 IF s = {} THEN 0 ELSE f[s \ {some(s)}] + usage[some(s)].input]
           part(s, c) == IF c \in s THEN usage[c].input ELSE 0
           total(s) == IF c1 = c2 THEN part(s, c1) ELSE part(s, c1) + part(s, c2)
           iter == CHOOSE f : Equation(f)
<1>0. /\ S \in SUBSET {c1, c2} /\ usage[c1].input \in Nat /\ usage[c2].input \in Nat
      /\ \A c \in {c1, c2} : c \in S <=> doing[c] \in {"read", "record"}
  BY DEF TwoCallers!InFlight, AccountTypes, Usages
<1>1. TwoCallers!SpentBy(S) = iter[S]
  BY DEF TwoCallers!SpentBy, TwoCallers!FoldSet, TwoCallers!MapThenFoldSet
<1> HIDE DEF S
<1>2. ASSUME NEW s \in SUBSET S, s # {}
      PROVE  total(s) = total(s \ {some(s)}) + usage[some(s)].input
  <2>1. some(s) \in s /\ some(s) \in {c1, c2}
    BY <1>0, <1>2
  <2> HIDE DEF some
  <2> QED
    BY <1>0, <2>1
<1>3. Equation([s \in SUBSET S |-> total(s)])
  <2> DEFINE F == [s \in SUBSET S |-> total(s)]
             G == [s \in SUBSET S |->
                     IF s = {} THEN 0 ELSE F[s \ {some(s)}] + usage[some(s)].input]
  <2>1. total({}) = 0
    OBVIOUS
  <2> HIDE DEF total, some
  <2>2. \A s \in SUBSET S : F[s] = G[s]
    BY <1>2, <2>1
  <2>3. F = G
    BY <2>2
  <2> QED
    BY <2>3
<1>4. Equation(iter)
  <2> HIDE DEF Equation
  <2> QED
    BY <1>3
<1> HIDE DEF iter, total
<1>5. \A s \in SUBSET S : iter[s] = IF s = {} THEN 0 ELSE iter[s \ {some(s)}] + usage[some(s)].input
  BY <1>4
<1> HIDE DEF Equation, some
<1>6. iter[{}] = 0 /\ total({}) = 0
  <2>1. iter[{}] = 0
    BY <1>5
  <2>2. total({}) = 0
    BY DEF total
  <2> QED
    BY <2>1, <2>2
<1>7. \A c \in S : iter[{c}] = total({c})
  <2> SUFFICES ASSUME NEW c \in S PROVE iter[{c}] = total({c})
    OBVIOUS
  <2>1. some({c}) = c /\ {c} # {} /\ {c} \in SUBSET S /\ {c} \ {c} = {}
    BY DEF some
  <2> QED
    BY <1>2, <1>5, <1>6, <2>1
<1>8. iter[S] = total(S)
  <2>1. CASE S = {}
    BY <1>6, <2>1
  <2>2. CASE S # {}
    <3>1. some(S) \in S
      BY <2>2 DEF some
    <3>2. S \ {some(S)} = {} \/ \E c \in S : S \ {some(S)} = {c}
      BY <1>0, <3>1
    <3>3. iter[S \ {some(S)}] = total(S \ {some(S)})
      BY <1>6, <1>7, <3>2
    <3> QED
      BY <1>2, <1>5, <2>2, <3>3
  <2> QED
    BY <2>1, <2>2
<1> QED
  BY <1>0, <1>1, <1>8 DEF S, total, InputInFlight, InputOf

\* Every step keeps the sums the same: an input is streamed, waits to be
\* recorded, and is recorded.
SumsAgree == Sum(Inputs(records)) + InputInFlight = Sum(streamed)

\* A step adds to the records and to the streams the same, or to neither.
LEMMA SumsAgreeStep ==
  ASSUME NEW W \in SUBSET Nat, NEW limit \in Nat, NEW budget \in Nat, NEW most \in Nat,
         NEW fails, NEW c \in {c1, c2}, AccountTypes({c1, c2}, W, limit, most), SumsAgree,
         AccountStep(W, limit, budget, most, fails, c)
  PROVE  SumsAgree'
<1> DEFINE spent == Sum(Inputs(records))
           n == usage[c].input
<1>0. /\ records \in Seq(Usages(most)) /\ streamed \in Seq(Nat)
      /\ doing \in [{c1, c2} -> {"idle", "call", "stream", "read", "record", "think", "end"}]
      /\ usage \in [{c1, c2} -> Usages(most)]
      /\ usage[c1].input \in Nat /\ usage[c2].input \in Nat /\ n \in Nat
  BY DEF AccountTypes, Usages
<1>1. Inputs(records) \in Seq(Nat)
  <2>1. \A i \in 1..Len(records) : records[i].input \in Nat
    <3>1. \A i \in 1..Len(records) : records[i] \in Usages(most)
      BY <1>0
    <3> QED
      BY <3>1 DEF Usages
  <2>2. Len(records) \in Nat /\ DOMAIN records = 1..Len(records)
    BY <1>0
  <2>3. Inputs(records) \in [1..Len(records) -> Nat]
    BY <2>1, <2>2 DEF Inputs
  <2> QED
    BY <2>2, <2>3
<1>2. spent \in Nat /\ Sum(streamed) \in Nat /\ Sum(Append(streamed, n)) = Sum(streamed) + n
  BY <1>0, <1>1, SumAppend
<1>3. Sum(Inputs(Append(records, usage[c]))) = spent + n
  <2>1. Inputs(Append(records, usage[c])) = Append(Inputs(records), n)
    BY <1>0, <1>1 DEF Inputs
  <2> QED
    BY <1>0, <1>1, <2>1, SumAppend
<1>4. /\ InputOf(c1) \in Nat /\ InputOf(c2) \in Nat
      /\ spent + InputInFlight = Sum(streamed)
  BY <1>0 DEF InputOf, SumsAgree
<1>5. ASSUME NEW where, GoesTo(c, where), \A d \in {c1, c2} : d # c => usage'[d] = usage[d],
             InputOf(c)' \in Nat
      PROVE  /\ InputInFlight' \in Nat
             /\ InputInFlight' + InputOf(c) = InputInFlight + InputOf(c)'
             /\ InputOf(c)' = InputOf(c) => InputInFlight' = InputInFlight
  <2>1. \A d \in {c1, c2} : d # c => InputOf(d)' = InputOf(d)
    BY <1>0, <1>5 DEF GoesTo, InputOf
  <2> QED
    BY <1>4, <1>5, <2>1 DEF InputInFlight
<1>6. InputInFlight \in Nat
  BY <1>4 DEF InputInFlight
<1>7. CASE AccountStream(c)
  <2>1. /\ InputOf(c) = 0 /\ InputOf(c)' = n
        /\ \A d \in {c1, c2} : d # c => usage'[d] = usage[d]
        /\ records' = records /\ streamed' = Append(streamed, n)
    BY <1>0, <1>7 DEF AccountStream, GoesTo, InputOf, Usages
  <2>2. InputInFlight' \in Nat /\ InputInFlight' + 0 = InputInFlight + n
    BY <1>0, <1>5, <1>7, <2>1 DEF AccountStream
  <2>3. spent + InputInFlight' = Sum(streamed) + n
    BY <1>0, <1>2, <1>4, <1>6, <2>2
  <2> QED
    BY <1>2, <2>1, <2>3 DEF SumsAgree
<1>8. CASE AccountRemaining(most, c)
  <2>1. /\ InputOf(c) = n /\ InputOf(c)' = n
        /\ \A d \in {c1, c2} : d # c => usage'[d] = usage[d]
        /\ records' = records /\ streamed' = streamed
    BY <1>0, <1>8 DEF AccountRemaining, GoesTo, InputOf, Usages
  <2>2. InputInFlight' = InputInFlight
    BY <1>0, <1>5, <1>8, <2>1 DEF AccountRemaining
  <2> QED
    BY <1>4, <2>1, <2>2 DEF SumsAgree
<1>9. CASE AccountRecord(c)
  <2>1. /\ InputOf(c) = n /\ InputOf(c)' = 0
        /\ \A d \in {c1, c2} : d # c => usage'[d] = usage[d]
        /\ records' = Append(records, usage[c]) /\ streamed' = streamed
    BY <1>0, <1>9 DEF AccountRecord, GoesTo, InputOf
  <2>2. InputInFlight' \in Nat /\ InputInFlight' + n = InputInFlight + 0
    BY <1>5, <1>9, <2>1 DEF AccountRecord
  <2>3. (spent + n) + InputInFlight' = Sum(streamed)
    BY <1>0, <1>2, <1>4, <1>6, <2>2
  <2> QED
    BY <1>3, <2>1, <2>3 DEF SumsAgree
<1>10. CASE \/ AccountAsk(W, limit, budget, c) \/ AccountCall(fails, c)
            \/ AccountThought(W, limit, c) \/ AccountAnswer(W, limit, c) \/ AccountEnd(c)
  <2>1. /\ InputOf(c) = 0 /\ InputOf(c)' = 0
        /\ \A d \in {c1, c2} : d # c => usage'[d] = usage[d]
        /\ \E where : GoesTo(c, where)
        /\ records' = records /\ streamed' = streamed
    BY <1>0, <1>10
      DEF AccountAsk, AccountCall, AccountThought, AccountAnswer, AccountEnd, GoesTo, InputOf
  <2>2. InputInFlight' = InputInFlight
    BY <1>5, <2>1
  <2> QED
    BY <1>4, <2>1, <2>2 DEF SumsAgree
<1> QED
  BY <1>7, <1>8, <1>9, <1>10 DEF AccountStep

AccountInv ==
  /\ scope = "one caller" => AccountTypes({c1}, OneWeights, OneMessages, MaxTokens) /\ Covered(c1)
  /\ scope = "two callers" => AccountTypes({c1, c2}, TwoWeights, TwoMessages, MaxTokens)
       /\ SumsAgree

\* No call has begun.
LEMMA AccountInit == MCInit => AccountInv
<1> SUFFICES ASSUME MCInit PROVE AccountInv
  OBVIOUS
<1>1. ASSUME NEW C, NEW W, NEW limit \in Nat, NEW most \in Nat,
             window = [messages |-> <<>>, used |-> 0], log = <<>>, records = <<>>, streamed = <<>>,
             doing = [c \in C |-> "idle"], input = [c \in C |-> <<>>],
             usage = [c \in C |-> [input |-> 0, output |-> 0, remain |-> 0]]
      PROVE  AccountTypes(C, W, limit, most)
  <2>1. [input |-> 0, output |-> 0, remain |-> 0] \in Usages(most)
    BY DEF Usages
  <2> QED
    BY <1>1, <2>1 DEF AccountTypes
<1>2. CASE scope = "two callers"
  <2>1. TwoCallers!Init
    BY <1>2 DEF MCInit
  <2>2. /\ AccountTypes({c1, c2}, TwoWeights, TwoMessages, MaxTokens)
        /\ records = <<>> /\ streamed = <<>>
        /\ \A c \in {c1, c2} : doing[c] = "idle"
    BY <1>1, <2>1, AccountConstants DEF TwoCallers!Init, TwoCallers!NoUsage
  <2>3. Inputs(records) = <<>>
    BY <2>2 DEF Inputs
  <2>4. InputInFlight = 0
    BY <2>2 DEF InputInFlight, InputOf
  <2>5. SumsAgree
    <3>1. Sum(Inputs(records)) = 0 /\ Sum(streamed) = 0
      BY <2>2, <2>3, SumEmpty
    <3> QED
      BY <2>4, <3>1 DEF SumsAgree
  <2> QED
    BY <1>2, <2>2, <2>5 DEF AccountInv
<1>3. CASE scope # "two callers"
  <2>1. OneCaller!Init
    BY <1>3 DEF MCInit
  <2>2. /\ AccountTypes({c1}, OneWeights, OneMessages, MaxTokens)
        /\ window = [messages |-> <<>>, used |-> 0] /\ log = <<>> /\ doing[c1] = "idle"
    BY <1>1, <2>1, AccountConstants DEF OneCaller!Init, OneCaller!NoUsage
  <2>3. Covered(c1)
    BY <2>2, WeightEmpty DEF Covered
  <2> QED
    BY <1>3, <2>2, <2>3 DEF AccountInv
<1> QED
  BY <1>2, <1>3

\* The steps of either account, one conjunct at a time.
LEMMA AccountNext ==
  AccountInv /\ [MCNext]_<<scope, vars, accountVars, rolesVars>> => AccountInv'
<1> SUFFICES ASSUME AccountInv, [MCNext]_<<scope, vars, accountVars, rolesVars>>
             PROVE  AccountInv'
  OBVIOUS
<1>0. scope' = scope
  BY DEF MCNext
<1>1. CASE scope = "one caller" /\ OneCaller!Next
  <2>1. AccountTypes({c1}, OneWeights, OneMessages, MaxTokens) /\ Covered(c1)
    BY <1>1 DEF AccountInv
  <2>2. AccountStep(OneWeights, OneMessages, AccountBudget, MaxTokens, FALSE, c1)
    BY <1>1, <2>1, OneCallerStep
  <2>3. AccountTypes({c1}, OneWeights, OneMessages, MaxTokens)'
    BY <2>1, <2>2, AccountConstants, AccountTypesStep
  <2>4. Covered(c1)'
    BY <2>1, <2>2, AccountConstants, CoveredStep
  <2> QED
    BY <1>0, <1>1, <2>3, <2>4 DEF AccountInv
<1>2. CASE scope = "two callers" /\ TwoCallers!Next
  <2>1. AccountTypes({c1, c2}, TwoWeights, TwoMessages, MaxTokens) /\ SumsAgree
    BY <1>2 DEF AccountInv
  <2>2. PICK c \in {c1, c2} : AccountStep(TwoWeights, TwoMessages, AccountBudget, MaxTokens,
               TRUE, c)
    BY <1>2, <2>1, TwoCallersStep
  <2>3. AccountTypes({c1, c2}, TwoWeights, TwoMessages, MaxTokens)'
    BY <2>1, <2>2, AccountConstants, AccountTypesStep
  <2>4. SumsAgree'
    BY <2>1, <2>2, AccountConstants, SumsAgreeStep
  <2> QED
    BY <1>0, <1>2, <2>3, <2>4 DEF AccountInv
<1>3. CASE UNCHANGED accountVars
  BY <1>0, <1>3
    DEF accountVars, AccountInv, AccountTypes, Covered, SumsAgree, InputInFlight, InputOf
<1>4. CASE scope \notin {"one caller", "two callers"}
  BY <1>0, <1>4 DEF AccountInv
<1>5. \/ scope = "one caller" /\ OneCaller!Next
      \/ scope = "two callers" /\ TwoCallers!Next
      \/ UNCHANGED accountVars
      \/ scope \notin {"one caller", "two callers"}
  BY DEF MCNext
<1> QED
  BY <1>1, <1>2, <1>3, <1>4, <1>5

\* The invariant of both accounts, in every state.
LEMMA AccountInvariant == MCSpec => []AccountInv
<1> QED
  BY AccountInit, AccountNext, PTL DEF MCSpec

\* What is said of every message, call and record, as the runs' TypeOK has it.
LEMMA AccountTypesMean ==
  ASSUME NEW C, NEW W \in SUBSET Nat, NEW limit \in Nat, NEW most \in Nat,
         AccountTypes(C, W, limit, most)
  PROVE  /\ Range(window.messages) \subseteq Said(W) /\ window.used \in Nat
         /\ Range(log) \subseteq Said(W) /\ Len(log) <= limit
         /\ \A u \in Range(records) : u.input \in Nat /\ u.output \in Nat /\ u.remain \in 0..most
         /\ doing \in [C -> {"idle", "call", "stream", "read", "record", "think", "end"}]
         /\ \A c \in C : Range(input[c]) \subseteq Said(W) /\ usage[c].remain \in 0..most
<1> DEFINE M == Said(W)
<1>1. /\ window.messages \in Seq(M) /\ window.used \in Nat /\ log \in Seq(M) /\ Len(log) <= limit
      /\ records \in Seq(Usages(most))
      /\ doing \in [C -> {"idle", "call", "stream", "read", "record", "think", "end"}]
      /\ \A c \in C : input[c] \in Seq(M) /\ usage[c] \in Usages(most)
  BY DEF AccountTypes
<1> HIDE DEF M
<1>2. \A ms \in Seq(M) : Range(ms) \subseteq M
  BY DEF Range
<1>3. \A u \in Range(records) : u \in Usages(most)
  BY <1>1 DEF Range
<1> QED
  BY <1>1, <1>2, <1>3 DEF Usages, M

(***************************************************************************)
(* The records account for the input of every stream once, those that      *)
(* break off included, however two callers interleave; and what one caller *)
(* has counted never falls behind its window by more than an exchange.     *)
(***************************************************************************)
THEOREM TokensAreRecorded == MCSpec => []TokensAreAccountedFor
<1>1. AccountInv => TokensAreAccountedFor
  <2> SUFFICES ASSUME AccountInv PROVE TokensAreAccountedFor
    OBVIOUS
  <2>1. ASSUME scope = "one caller"
        PROVE  OneCaller!TypeOK /\ OneCaller!CountCoversWindow
    <3>1. AccountTypes({c1}, OneWeights, OneMessages, MaxTokens) /\ Covered(c1)
      BY <2>1 DEF AccountInv
    <3>2. Said(OneWeights) = OneCaller!Messages
      BY DEF Said, OneCaller!Messages
    <3>3. OneCaller!TypeOK
      BY <3>1, <3>2, AccountTypesMean, AccountConstants, AccountOperators DEF OneCaller!TypeOK
    <3>4. window.used \in Nat /\ Weight(window.messages) \in Nat
      BY <3>1, SaidWeighs, AccountConstants, WeightType DEF AccountTypes
    <3>5. OneCaller!CountCoversWindow
      BY <3>1, <3>4, AccountOperators DEF OneCaller!CountCoversWindow, Covered
    <3> QED
      BY <3>3, <3>5
  <2>2. ASSUME scope = "two callers"
        PROVE  TwoCallers!TypeOK /\ TwoCallers!RecordsAccountForStreams
    <3>1. AccountTypes({c1, c2}, TwoWeights, TwoMessages, MaxTokens) /\ SumsAgree
      BY <2>2 DEF AccountInv
    <3>2. Said(TwoWeights) = TwoCallers!Messages
      BY DEF Said, TwoCallers!Messages
    <3>3. TwoCallers!TypeOK
      BY <3>1, <3>2, AccountTypesMean, AccountConstants, AccountOperators DEF TwoCallers!TypeOK
    <3>4. TwoCallers!Spent(records) = Sum(Inputs(records))
      BY AccountOperators DEF TwoCallers!Spent, Inputs
    <3>5. TwoCallers!RecordsAccountForStreams
      BY <3>1, <3>4, SpentInFlight, AccountOperators
        DEF TwoCallers!RecordsAccountForStreams, SumsAgree
    <3> QED
      BY <3>3, <3>5
  <2> QED
    BY <2>1, <2>2 DEF TokensAreAccountedFor
<1> QED
  BY <1>1, AccountInvariant, PTL

(***************************************************************************)
(* A window that is used directly (ContextWindow).                         *)
(***************************************************************************)

WindowMessages == [role : WindowRoles, tokens : WindowWeights]
Gone == SubSeq(log, 1, Len(log) - Len(window.messages))

\* The window is the end of the log; what is gone was reported, and is gone for
\* having been too much.
WindowInv ==
  /\ window \in [messages : Seq(WindowMessages), used : Nat]
  /\ log \in Seq(WindowMessages) /\ Len(log) <= WindowLength
  /\ IsEndOf(window.messages, log)
  /\ reported = NonSystem(Gone)
  /\ Gone # <<>> => Len(NonSystem(window.messages)) >= MinPreserve

\* What the model of a window assumes of its constants.
LEMMA WindowConstants ==
  /\ WindowLength \in Nat /\ WindowWeights \in SUBSET Nat
  /\ TargetTokens \in Nat /\ MinPreserve \in Nat /\ MaxBatch \in Nat
  /\ \A m \in WindowMessages : m.tokens \in Nat
BY MCAssumption, SlideAssumption DEF Window!WindowAssumption, WindowMessages

\* The operators of the instance Window are those of SlidingWindow.
LEMMA WindowOperators ==
  /\ \A ms : Window!Weight(ms) = Weight(ms) /\ Window!NonSystem(ms) = NonSystem(ms)
  /\ \A w : Window!Slide(w) = Slide(w)
  /\ \A s, t : Window!IsSuffix(s, t) = IsSuffix(s, t)
<1>1. \A ms : Window!Weight(ms) = Weight(ms)
  BY DEF Weight, FoldLeft, MapThenFoldSet, Max,
         Window!Weight, Window!FoldLeft, Window!MapThenFoldSet, Window!Max
<1>2. \A ms : Window!NonSystem(ms) = NonSystem(ms)
  BY DEF NonSystem, FoldLeft, MapThenFoldSet, Max, Evictable,
         Window!NonSystem, Window!FoldLeft, Window!MapThenFoldSet, Window!Max, Window!Evictable
<1>3. \A w : Window!Slide(w) = Slide(w)
  <2>1. \A ms, k : Window!SlideStops(ms, k) <=> SlideStops(ms, k)
    BY <1>1, <1>2 DEF SlideStops, Window!SlideStops
  <2> QED
    BY <1>1, <1>2, <2>1 DEF Slide, Window!Slide
<1>4. \A s, t : Window!IsSuffix(s, t) = IsSuffix(s, t)
  BY DEF Window!IsSuffix, IsSuffix, Window!IsPrefix, IsPrefix, Window!Reverse, Reverse
<1> QED
  BY <1>1, <1>2, <1>3, <1>4

\* What a slide does to the window: it keeps what is said of it, and reaches the
\* target, what it must keep, or the limit of a batch.
LEMMA WindowSlides ==
  ASSUME WindowInv, window' = Slide(window).window,
         reported' = reported \o Slide(window).evicted, log' = log
  PROVE  /\ WindowInv'
         /\ \/ Weight(window'.messages) <= TargetTokens
            \/ Len(NonSystem(window'.messages)) <= MinPreserve
            \/ MaxBatch > 0 /\ Len(reported') - Len(reported) = MaxBatch
<1> DEFINE M == WindowMessages
           ms == window.messages
<1>has. /\ window \in [messages : Seq(M), used : Nat] /\ log \in Seq(M)
        /\ Len(log) <= WindowLength
        /\ IsEndOf(ms, log) /\ reported = NonSystem(Gone)
  BY DEF WindowInv
<1>weigh. \A e \in M : e.tokens \in Nat
  BY WindowConstants
<1> HIDE DEF M
<1>0. /\ ms \in Seq(M) /\ log \in Seq(M) /\ Len(log) <= WindowLength
      /\ Len(ms) \in Nat /\ Len(log) \in Nat
      /\ IsEndOf(ms, log) /\ Len(ms) <= Len(log) /\ window \in [messages : Seq(M), used : Nat]
      /\ reported = NonSystem(Gone) /\ \A e \in M : e.tokens \in Nat
  <2>1. ms \in Seq(M) /\ Len(ms) \in Nat /\ Len(log) \in Nat
    BY <1>has
  <2>2. Len(ms) <= Len(log)
    BY <1>has DEF IsEndOf
  <2> HIDE DEF ms
  <2> QED
    BY <1>has, <1>weigh, <2>1, <2>2
<1>1. PICK k \in 0..Len(ms) :
        /\ SlideStops(ms, k) /\ \A l \in 0..(k - 1) : ~SlideStops(ms, l)
        /\ reported' = reported \o NonSystem(SubSeq(ms, 1, k))
        /\ window' = [window EXCEPT !.messages = SubSeq(ms, k + 1, Len(ms)),
                                    !.used = Weight(ms) - Weight(NonSystem(SubSeq(ms, 1, k)))]
  BY <1>0, SlideIs
<1> DEFINE front == SubSeq(ms, 1, k)
           rest == SubSeq(ms, k + 1, Len(ms))
           left == Weight(ms) - Weight(NonSystem(front))
<1>2. /\ front \in Seq(M) /\ rest \in Seq(M) /\ Len(front) = k /\ Len(rest) = Len(ms) - k
      /\ Len(NonSystem(ms)) = Len(NonSystem(front)) + Len(NonSystem(rest))
      /\ left \in Nat /\ Weight(rest) <= left
  BY <1>0, PartsWeigh
<1>3. window'.messages = rest /\ window'.used = left
  BY <1>0, <1>1
<1>4. /\ Weight(NonSystem(front)) \in Nat /\ NonSystem(front) \in Seq(M)
      /\ NonSystem(rest) \in Seq(M) /\ NonSystem(ms) \in Seq(M)
      /\ Weight(ms) \in Nat /\ Weight(rest) \in Nat
  BY <1>0, <1>2, WeightType
<1>5. /\ Len(NonSystem(front)) \in Nat /\ Len(NonSystem(rest)) \in Nat
      /\ Len(NonSystem(ms)) \in Nat
      /\ TargetTokens \in Nat /\ MinPreserve \in Nat /\ MaxBatch \in Nat
  BY <1>4, WindowConstants
<1> HIDE DEF rest
<1>7. window' \in [messages : Seq(M), used : Nat]
  <2>1. \A m \in Seq(M), n \in Nat :
          [window EXCEPT !.messages = m, !.used = n] \in [messages : Seq(M), used : Nat]
    BY <1>0
  <2> HIDE DEF left
  <2> QED
    BY <1>1, <1>2, <2>1 DEF rest, left
<1>8. IsEndOf(rest, log)
  BY <1>0, EndOfEnd DEF rest
<1>9. Gone' = Gone \o front /\ Gone \in Seq(M)
  <2>1. Len(log) - Len(rest) = (Len(log) - Len(ms)) + k
    BY <1>0, <1>2
  <2>2. Gone' = SubSeq(log, 1, (Len(log) - Len(ms)) + k)
    BY <1>3, <2>1 DEF Gone
  <2>3. /\ SubSeq(log, 1, Len(log) - Len(ms)) \in Seq(M)
        /\ SubSeq(log, 1, (Len(log) - Len(ms)) + k)
             = SubSeq(log, 1, Len(log) - Len(ms)) \o SubSeq(ms, 1, k)
    <3> HIDE DEF ms, left, front
    <3> QED
      BY <1>0, OldestFirst
  <2> QED
    BY <2>2, <2>3 DEF Gone
<1>10. reported' = NonSystem(Gone')
  <2>1. NonSystem(Gone \o front) = NonSystem(Gone) \o NonSystem(front)
    BY <1>0, <1>2, <1>9, FoldsOfConcatenation
  <2> QED
    BY <1>0, <1>1, <1>9, <2>1
<1> DEFINE before == SubSeq(ms, 1, k - 1)
<1>11. ASSUME k # 0
       PROVE  /\ Len(NonSystem(rest)) >= MinPreserve
              /\ MaxBatch > 0 => Len(NonSystem(front)) <= MaxBatch
  <2>1. k - 1 \in 0..(k - 1) /\ k - 1 # Len(ms) /\ k \in 1..Len(ms)
    BY <1>0, <1>11
  <2>2. /\ ~(Len(NonSystem(ms)) - Len(NonSystem(before)) <= MinPreserve)
        /\ MaxBatch > 0 => ~(Len(NonSystem(before)) >= MaxBatch)
    BY <1>1, <2>1 DEF SlideStops
  <2>3. before \in Seq(M) /\ front = Append(before, ms[k]) /\ ms[k] \in M
    BY <1>0, <2>1
  <2> HIDE DEF before, front
  <2>4. /\ NonSystem(before) \in Seq(M)
        /\ NonSystem(front) \in {NonSystem(before), Append(NonSystem(before), ms[k])}
    BY <2>3, NonSystemAppend
  <2>5. Len(NonSystem(before)) \in Nat /\ Len(NonSystem(front)) <= Len(NonSystem(before)) + 1
    BY <2>3, <2>4
  <2> QED
    BY <1>2, <1>5, <2>2, <2>5
<1> HIDE DEF before
<1>12. Gone' # <<>> => Len(NonSystem(rest)) >= MinPreserve
  <2> SUFFICES ASSUME k = 0, Gone' # <<>> PROVE Len(NonSystem(rest)) >= MinPreserve
    BY <1>11
  <2>1. front = <<>> /\ rest = ms
    BY <1>0 DEF rest
  <2>2. Gone' = Gone
    BY <1>9, <2>1
  <2> QED
    BY <2>1, <2>2 DEF WindowInv
<1>13. \/ Weight(rest) <= TargetTokens \/ Len(NonSystem(rest)) <= MinPreserve
       \/ MaxBatch > 0 /\ Len(reported') - Len(reported) = MaxBatch
  <2>1. CASE k = Len(ms)
    <3>1. rest = <<>>
      BY <1>0, <2>1 DEF rest
    <3> QED
      BY <1>5, <3>1, WeightEmpty
  <2>2. CASE Len(NonSystem(ms)) - Len(NonSystem(front)) <= MinPreserve
    BY <1>2, <1>5, <2>2
  <2>3. CASE left <= TargetTokens
    BY <1>2, <1>4, <1>5, <2>3
  <2>4. CASE MaxBatch > 0 /\ Len(NonSystem(front)) >= MaxBatch
    <3>1. k # 0
      <4> SUFFICES ASSUME k = 0 PROVE FALSE
        OBVIOUS
      <4>1. front = <<>>
        OBVIOUS
      <4> HIDE DEF front
      <4>2. NonSystem(front) = <<>>
        BY <4>1, NonSystemEmpty
      <4>3. Len(NonSystem(front)) = 0
        BY <4>2
      <4> QED
        BY <1>5, <2>4, <4>3
    <3>2. Len(NonSystem(front)) = MaxBatch
      BY <1>5, <1>11, <2>4, <3>1
    <3>3. reported \in Seq(M)
      BY <1>0, <1>9, WeightType
    <3>4. Len(reported') = Len(reported) + Len(NonSystem(front)) /\ Len(reported) \in Nat
      BY <1>1, <1>4, <3>3
    <3> QED
      BY <1>5, <2>4, <3>2, <3>4
  <2> QED
    BY <1>1, <2>1, <2>2, <2>3, <2>4 DEF SlideStops
<1> QED
  BY <1>0, <1>3, <1>7, <1>8, <1>10, <1>12, <1>13 DEF WindowInv, M

\* Adding a message to the window and to the log keeps the invariant.
LEMMA WindowGrows ==
  ASSUME WindowInv, NEW m \in WindowMessages, Len(log) < WindowLength,
         window' = [window EXCEPT !.messages = Append(@, m)], log' = Append(log, m),
         reported' = reported
  PROVE  WindowInv' /\ log' # log
<1> DEFINE M == WindowMessages
           ms == window.messages
<1>has. /\ window \in [messages : Seq(M), used : Nat] /\ log \in Seq(M) /\ Len(log) <= WindowLength
        /\ IsEndOf(ms, log) /\ reported = NonSystem(Gone)
        /\ Gone # <<>> => Len(NonSystem(ms)) >= MinPreserve
  BY DEF WindowInv
<1> HIDE DEF M
<1>0. /\ ms \in Seq(M) /\ Len(ms) \in Nat /\ Len(log) \in Nat /\ m \in M /\ Len(ms) <= Len(log)
      /\ Append(ms, m) \in Seq(M) /\ Len(Append(ms, m)) = Len(ms) + 1
      /\ Append(log, m) \in Seq(M) /\ Len(Append(log, m)) = Len(log) + 1
  BY <1>has DEF M, IsEndOf
<1>1. window'.messages = Append(ms, m) /\ window' \in [messages : Seq(M), used : Nat]
  BY <1>has, <1>0
<1>2. IsEndOf(Append(ms, m), Append(log, m))
  <2> HIDE DEF ms
  <2> QED
    BY <1>has, <1>0, EndAppend
<1>3. Gone' = Gone
  <2>1. Len(log') - Len(window'.messages) = Len(log) - Len(ms)
    BY <1>0, <1>1
  <2>2. Len(log) - Len(ms) \in 0..Len(log)
    BY <1>0
  <2>3. \A n \in 0..Len(log) : SubSeq(Append(log, m), 1, n) = SubSeq(log, 1, n)
    BY <1>has, <1>0
  <2> QED
    BY <2>1, <2>2, <2>3 DEF Gone
<1>4. Len(NonSystem(Append(ms, m))) >= Len(NonSystem(ms)) /\ Len(NonSystem(ms)) \in Nat
  <2>1. /\ NonSystem(ms) \in Seq(M)
        /\ NonSystem(Append(ms, m)) \in {NonSystem(ms), Append(NonSystem(ms), m)}
    <3> HIDE DEF ms
    <3> QED
      BY <1>0, NonSystemAppend
  <2> QED
    BY <1>0, <2>1
<1>5. Gone' # <<>> => Len(NonSystem(window'.messages)) >= MinPreserve
  <2> SUFFICES ASSUME Gone # <<>> PROVE Len(NonSystem(Append(ms, m))) >= MinPreserve
    BY <1>1, <1>3
  <2>1. Len(NonSystem(ms)) >= MinPreserve
    BY <1>has
  <2>2. NonSystem(Append(ms, m)) \in Seq(M)
    <3> HIDE DEF ms
    <3> QED
      BY <1>0, NonSystemAppend
  <2>3. Len(NonSystem(Append(ms, m))) \in Nat
    BY <2>2
  <2>4. MinPreserve \in Nat
    BY WindowConstants
  <2> HIDE DEF ms
  <2> QED
    BY <1>4, <2>1, <2>3, <2>4
<1>6. Len(log') <= WindowLength /\ log' # log
  BY <1>0, WindowConstants
<1> QED
  BY <1>has, <1>0, <1>1, <1>2, <1>3, <1>5, <1>6 DEF WindowInv, M

\* A window's step keeps what is said of it, and a slide reaches its target or
\* what it must keep.
LEMMA WindowStep ==
  ASSUME WindowInv, Window!Next
  PROVE  WindowInv' /\ Window!ReachesTarget
<1>0. Window!Messages = WindowMessages
  BY DEF Window!Messages, WindowMessages
<1>1. CASE Window!AddMessage
  <2>1. PICK m \in WindowMessages :
          /\ window' = [window EXCEPT !.messages = Append(@, m)]
          /\ log' = Append(log, m) /\ reported' = reported /\ Len(log) < WindowLength
    BY <1>0, <1>1 DEF Window!AddMessage
  <2>2. WindowInv' /\ log' # log
    BY <2>1, WindowGrows
  <2> QED
    BY <2>2 DEF Window!ReachesTarget
<1>2. CASE Window!AddTokens
  <2>1. PICK n \in WindowWeights : /\ window' = [window EXCEPT !.used = @ + n]
                                  /\ log' = log /\ reported' = reported
    BY <1>2 DEF Window!AddTokens
  <2>2. /\ window \in [messages : Seq(WindowMessages), used : Nat]
        /\ window.used + n \in Nat
    BY WindowConstants DEF WindowInv
  <2>3. /\ window'.messages = window.messages
        /\ window' \in [messages : Seq(WindowMessages), used : Nat]
    BY <2>1, <2>2
  <2>4. Gone' = Gone
    BY <2>1, <2>3 DEF Gone
  <2> QED
    BY <2>1, <2>3, <2>4 DEF WindowInv, Window!ReachesTarget
<1>3. CASE Window!SlideWindow
  <2>1. /\ WindowInv'
        /\ \/ Weight(window'.messages) <= TargetTokens
           \/ Len(NonSystem(window'.messages)) <= MinPreserve
           \/ MaxBatch > 0 /\ Len(reported') - Len(reported) = MaxBatch
    BY <1>3, WindowSlides, WindowOperators DEF Window!SlideWindow
  <2> QED
    BY <2>1, WindowOperators DEF Window!ReachesTarget
<1>4. CASE Window!Reset
  <2>1. window' = [messages |-> <<>>, used |-> 0] /\ log' = <<>> /\ reported' = <<>>
    BY <1>4 DEF Window!Reset
  <2>2. Gone' = <<>>
    BY <2>1 DEF Gone
  <2>3. IsEndOf(<<>>, <<>>)
    BY DEF IsEndOf
  <2>4. WindowInv'
    BY <2>1, <2>2, <2>3, NonSystemEmpty, WindowConstants DEF WindowInv
  <2>5. Weight(window'.messages) <= TargetTokens
    BY <2>1, WeightEmpty, WindowConstants
  <2> QED
    BY <2>4, <2>5, WindowOperators DEF Window!ReachesTarget
<1> QED
  BY <1>1, <1>2, <1>3, <1>4 DEF Window!Next

\* What is said of a window, as the run has it.
LEMMA WindowMeans ==
  ASSUME WindowInv
  PROVE  Window!TypeOK /\ Window!SlidesKeepTheEnd
<1> DEFINE M == WindowMessages
           ms == window.messages
<1>0. /\ window \in [messages : Seq(M), used : Nat] /\ log \in Seq(M) /\ Len(log) <= WindowLength
      /\ IsEndOf(ms, log) /\ reported = NonSystem(Gone)
      /\ Gone # <<>> => Len(NonSystem(ms)) >= MinPreserve
  BY DEF WindowInv
<1>1. Window!Messages = M
  BY DEF Window!Messages, WindowMessages
<1>2. \A e \in M : e.tokens \in Nat
  BY WindowConstants
<1> HIDE DEF M
<1>3. /\ ms \in Seq(M) /\ Len(ms) \in Nat /\ Len(log) \in Nat /\ Len(ms) <= Len(log)
  BY <1>0 DEF IsEndOf
<1>4. reported \in Seq(M) /\ Len(reported) <= WindowLength
  <2>1. Gone \in Seq(M) /\ Len(Gone) <= Len(log)
    BY <1>0, <1>3 DEF Gone
  <2>2. NonSystem(Gone) \in Seq(M) /\ Len(NonSystem(Gone)) <= Len(Gone)
    BY <1>2, <2>1, WeightType
  <2>3. Len(Gone) \in Nat /\ Len(NonSystem(Gone)) \in Nat /\ WindowLength \in Nat
    BY <2>1, <2>2, WindowConstants
  <2> QED
    BY <1>0, <1>3, <2>1, <2>2, <2>3
<1>5. ASSUME NEW s \in Seq(M), Len(s) <= WindowLength PROVE s \in Window!BoundedSeq(M, WindowLength)
  <2> HIDE DEF M
  <2>0. Len(s) \in Nat
    OBVIOUS
  <2>1. WindowLength \in Nat
    BY WindowConstants
  <2>3. Len(s) \in 0..WindowLength
    BY <1>5, <2>0, <2>1
  <2>2. s \in [1..Len(s) -> M]
    BY <1>5
  <2> QED
    BY <2>2, <2>3 DEF Window!BoundedSeq, Window!SeqOf
<1>6. Window!TypeOK
  <2>1. Len(ms) <= WindowLength
    BY <1>0, <1>3, WindowConstants
  <2>2. /\ ms \in Window!BoundedSeq(M, WindowLength) /\ log \in Window!BoundedSeq(M, WindowLength)
        /\ reported \in Window!BoundedSeq(M, WindowLength)
    <3> HIDE DEF ms
    <3> QED
      BY <1>0, <1>3, <1>4, <1>5, <2>1
  <2>3. window \in [messages : Window!BoundedSeq(M, WindowLength), used : Nat]
    BY <1>0, <2>2
  <2> QED
    BY <1>1, <2>2, <2>3 DEF Window!TypeOK
<1>7. IsSuffix(ms, log)
  <2> HIDE DEF ms
  <2> QED
    BY <1>0, <1>3, SuffixIsEnd
<1>8. Window!SlidesKeepTheEnd
  BY <1>0, <1>7, WindowOperators DEF Window!SlidesKeepTheEnd, Gone
<1> QED
  BY <1>6, <1>8

(***************************************************************************)
(* However often a window slides, it is the end of what was added, all     *)
(* that is gone was reported once and in order, and what must be kept is;  *)
(* and a slide reaches its target, unless that is in its way.              *)
(***************************************************************************)
THEOREM SlidesKeepWhatTheyMust == MCSpec => SlidesAreSound
<1> DEFINE Inv == scope = "window" => WindowInv
<1>1. MCInit => Inv
  <2> SUFFICES ASSUME MCInit, scope = "window" PROVE WindowInv
    OBVIOUS
  <2>1. window = [messages |-> <<>>, used |-> 0] /\ log = <<>> /\ reported = <<>>
    BY DEF MCInit, OneCaller!Init
  <2>2. Gone = <<>>
    BY <2>1 DEF Gone
  <2>3. IsEndOf(<<>>, <<>>)
    BY DEF IsEndOf
  <2> QED
    BY <2>1, <2>2, <2>3, NonSystemEmpty, WindowConstants DEF WindowInv
<1>2. Inv /\ [MCNext]_<<scope, vars, accountVars, rolesVars>> =>
        /\ Inv'
        /\ [scope = "window" => Window!ReachesTarget]_<<scope, vars, accountVars, rolesVars>>
  <2> SUFFICES ASSUME Inv, [MCNext]_<<scope, vars, accountVars, rolesVars>>
               PROVE  /\ Inv'
                      /\ \/ scope = "window" => Window!ReachesTarget
                         \/ UNCHANGED <<scope, vars, accountVars, rolesVars>>
    OBVIOUS
  <2>1. CASE scope = "window" /\ Window!Next
    BY <2>1, WindowStep
  <2>2. CASE UNCHANGED <<scope, vars, accountVars, rolesVars>>
    BY <2>2 DEF accountVars, WindowInv, Gone
  <2>3. CASE MCNext /\ scope # "window"
    BY <2>3 DEF MCNext
  <2> QED
    BY <2>1, <2>2, <2>3 DEF MCNext
<1>3. Inv => (scope = "window" => Window!TypeOK /\ Window!SlidesKeepTheEnd)
  BY WindowMeans
<1> QED
  BY <1>1, <1>2, <1>3, PTL DEF MCSpec, SlidesAreSound

=============================================================================
