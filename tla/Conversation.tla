---------------------------- MODULE Conversation ----------------------------
(***************************************************************************)
(* Conversations of an agent: how the messages of a call reach the session *)
(* store and the context window, agent.go, reactor.go, llmcall.go and      *)
(* core/session_store_memory.go.                                           *)
(*                                                                         *)
(* A call reads the history, persists the question, runs cycles that each  *)
(* call the model and persist a step, persists the answer and slides the   *)
(* window.  The question and the answer go to the session of the call; a   *)
(* step goes to whatever window the agent holds at that moment.  The agent *)
(* has one window; a call for another session replaces it.                 *)
(*                                                                         *)
(* Every message weighs one token.  One agent name, so that all sessions   *)
(* are sessions of this agent.                                             *)
(***************************************************************************)
EXTENDS SlidingWindow

CONSTANTS
  Callers,          \* goroutines that call Ask
  Sessions,
  HistoryBudget,    \* historyTokenBudgetRatio of the model's MaxTokens
  MaxMessages,      \* bound: messages in one behaviour
  MaxWindows,       \* bound: windows in one behaviour
  None

ASSUME ConversationAssumption ==
  /\ HistoryBudget \in Nat /\ MaxMessages \in Nat /\ MaxWindows \in Nat
  /\ None \notin Sessions

Messages == [n : 1..MaxMessages, of : Sessions, role : {"user", "step", "tool", "assistant"}, tokens : {1}]

VARIABLES
  windows,  \* every ContextWindow that was made, oldest first
  current,  \* the one LLMCaller.contextWindow points to, or 0
  store,    \* MemorySessionStore.store
  recent,   \* the sessions in MemorySessionStore.metas, last active last
  named,    \* those whose role is the agent's name; the role of others is ""
  sent,     \* messages so far
  pc,       \* where each call is
  session,  \* the session of each caller's call
  history,  \* the ConversationHistory of its run
  msg,      \* the message it is persisting
  held      \* the window it holds a pointer to

agentVars  == <<windows, current, store, recent, named, sent>>
callerVars == <<pc, session, history, msg, held>>
vars == <<agentVars, callerVars>>

\* A window has the agent's role or, like those of persistMessage, none.
FreshWindow(s, hasRole) == [session |-> s, hasRole |-> hasRole, messages |-> <<>>, used |-> 0]

Init ==
  /\ windows = <<>> /\ current = 0
  /\ store = [s \in Sessions |-> <<>>]
  /\ recent = <<>> /\ named = {}
  /\ sent = 0
  /\ pc = [c \in Callers |-> "idle"]
  /\ session = [c \in Callers |-> None]
  /\ history = [c \in Callers |-> <<>>]
  /\ msg = [c \in Callers |-> None]
  /\ held = [c \in Callers |-> 0]

-----------------------------------------------------------------------------

Goto(c, where) == pc' = [pc EXCEPT ![c] = where]

\* A message is on its way to window and store.
Compose(c, s, role) ==
  /\ sent < MaxMessages
  /\ sent' = sent + 1
  /\ msg' = [msg EXCEPT ![c] = [n |-> sent + 1, of |-> s, role |-> role, tokens |-> 1]]

\* Mutation: the session's entry is not refreshed but added.
StoreAppend_NewEntry(s, m, hasName) ==
  /\ store' = [store EXCEPT ![s] = Append(@, m)]
  /\ recent' = Append(recent, s)
  /\ named' = IF hasName THEN named \cup {s} ELSE named

\* Append: under the store's lock, the session becomes the last active one.
StoreAppend(s, m, hasName) ==
  /\ store' = [store EXCEPT ![s] = Append(@, m)]
  /\ recent' = Append(RemoveFirst(recent, s), s)
  /\ named' = IF hasName THEN named \cup {s} ELSE named

\* doSlide and checkSlide.
CheckSlide ==
  IF current # 0 /\ SlideTriggered(windows[current])
  THEN windows' = [windows EXCEPT ![current] = Slide(windows[current]).window]
  ELSE UNCHANGED windows

\* CurrentContext: the agent's last active session, within the budget.
CurrentContext ==
  LET own == {i \in DOMAIN recent : recent[i] \in named} IN
    IF own = {} THEN <<>> ELSE NewestWithin(store[recent[Max(own)]], HistoryBudget)

-----------------------------------------------------------------------------
\* Ask: history, question, run, answer.

Ask(c) ==
  /\ pc[c] = "idle"
  /\ \E s \in Sessions :
       /\ session' = [session EXCEPT ![c] = s]
       /\ Compose(c, s, "user")
  /\ history' = [history EXCEPT ![c] = CurrentContext]
  /\ Goto(c, "bind")
  /\ UNCHANGED <<windows, current, store, recent, named, held>>

\* Mutation: any window will do.
BindWindow_AnySession(c) ==
  /\ pc[c] = "bind"
  /\ IF current # 0
     THEN held' = [held EXCEPT ![c] = current] /\ Goto(c, "add")
     ELSE Goto(c, "make") /\ UNCHANGED held
  /\ UNCHANGED <<agentVars, session, history, msg>>

\* persistMessage looks at the agent's window ...
BindWindow(c) ==
  /\ pc[c] = "bind"
  /\ IF current # 0 /\ windows[current].session = session[c]
     THEN held' = [held EXCEPT ![c] = current] /\ Goto(c, "add")
     ELSE Goto(c, "make") /\ UNCHANGED held
  /\ UNCHANGED <<agentVars, session, history, msg>>

\* ... replaces it if it belongs to another session ...
MakeWindow(c) ==
  /\ pc[c] = "make"
  /\ windows' = Append(windows, FreshWindow(session[c], FALSE))
  /\ current' = Len(windows')
  /\ held' = [held EXCEPT ![c] = Len(windows')]
  /\ Goto(c, "add")
  /\ UNCHANGED <<store, recent, named, sent, session, history, msg>>

\* Mutation: the agent's window is read again.
AddToWindow_Current(c) ==
  /\ pc[c] = "add"
  /\ windows' = [windows EXCEPT ![current].messages = Append(@, msg[c])]
  /\ Goto(c, "log")
  /\ UNCHANGED <<current, store, recent, named, sent, session, history, msg, held>>

\* ... adds the message to the window it found or made ...
AddToWindow(c) ==
  /\ pc[c] = "add"
  /\ windows' = [windows EXCEPT ![held[c]].messages = Append(@, msg[c])]
  /\ Goto(c, "log")
  /\ UNCHANGED <<current, store, recent, named, sent, session, history, msg, held>>

\* ... and appends it to the store.
AppendToStore(c) ==
  /\ pc[c] = "log"
  /\ StoreAppend(session[c], msg[c], TRUE)
  /\ Goto(c, IF msg[c].role = "user" THEN "run" ELSE "slide")
  /\ UNCHANGED <<windows, current, sent, session, history, msg, held>>

\* Think: CallStream slides the window, then calls the model.
Think(c) ==
  /\ pc[c] = "run"
  /\ CheckSlide
  /\ Goto(c, "think")
  /\ UNCHANGED <<current, store, recent, named, sent, session, history, msg, held>>

\* recordResult counts the whole input; a reply that does not parse ends the run.
RecordResult(c) ==
  /\ pc[c] = "think"
  /\ windows' = [windows EXCEPT ![current].used = @ + Weight(history[c]) + 1]
  /\ \E parsed \in BOOLEAN : Goto(c, IF parsed THEN "step" ELSE "end")
  /\ UNCHANGED <<current, store, recent, named, sent, session, history, msg, held>>

\* Mutation: the step goes to the session of the first window.
PersistStep_OldWindow(c) ==
  /\ pc[c] \in {"step", "tool"}
  /\ Compose(c, session[c], pc[c])
  /\ history' = [history EXCEPT ![c] = Append(@, msg'[c])]
  /\ held' = [held EXCEPT ![c] = 1]
  /\ Goto(c, "stepAdd")
  /\ UNCHANGED <<windows, current, store, recent, named, session>>

\* persistStep adds the thought, or the result of its tools, to the history of
\* the run; persistStepToStore takes the session of the window it reads here ...
PersistStep(c) ==
  /\ pc[c] \in {"step", "tool"}
  /\ Compose(c, session[c], pc[c])
  /\ history' = [history EXCEPT ![c] = Append(@, msg'[c])]
  /\ held' = [held EXCEPT ![c] = current]
  /\ Goto(c, "stepAdd")
  /\ UNCHANGED <<windows, current, store, recent, named, session>>

\* ... AddContextMessage adds to the one that is current by now ...
AddContextMessage(c) ==
  /\ pc[c] = "stepAdd"
  /\ windows' = [windows EXCEPT ![current].messages = Append(@, msg[c]),
                                ![current].used = @ + msg[c].tokens]
  /\ Goto(c, "stepLog")
  /\ UNCHANGED <<current, store, recent, named, sent, session, history, msg, held>>

\* ... and, with a tool's result to persist or without, the loop goes on or not.
AppendStep(c) ==
  /\ pc[c] = "stepLog"
  /\ StoreAppend(windows[held[c]].session, msg[c], windows[held[c]].hasRole)
  /\ \E where \in {"run", "end"} \cup (IF msg[c].role = "step" THEN {"tool"} ELSE {}) :
       Goto(c, where)
  /\ UNCHANGED <<windows, current, sent, session, history, msg, held>>

\* An answer is persisted like the question; without one the call returns.
Answer(c) ==
  /\ pc[c] = "end"
  /\ Compose(c, session[c], "assistant")
  /\ Goto(c, "bind")
  /\ UNCHANGED <<windows, current, store, recent, named, session, history, held>>

NoAnswer(c) ==
  /\ pc[c] = "end"
  /\ Goto(c, "idle")
  /\ UNCHANGED <<agentVars, session, history, msg, held>>

\* checkSlide, at the end of the call.
SlideAndReturn(c) ==
  /\ pc[c] = "slide"
  /\ CheckSlide
  /\ Goto(c, "idle")
  /\ UNCHANGED <<current, store, recent, named, sent, session, history, msg, held>>

\* NewSession and RegisterRole: a known session keeps its last activity.
NewSession(c) ==
  /\ pc[c] = "idle"
  /\ Len(windows) < MaxWindows
  /\ \E s \in Sessions :
       /\ windows' = Append(windows, FreshWindow(s, TRUE))
       /\ recent' = IF s \in Range(recent) THEN recent ELSE Append(recent, s)
       /\ named' = named \cup {s}
  /\ current' = Len(windows')
  /\ UNCHANGED <<store, sent, callerVars>>

Next ==
  \E c \in Callers :
    \/ Ask(c) \/ BindWindow(c) \/ MakeWindow(c) \/ AddToWindow(c) \/ AppendToStore(c)
    \/ Think(c) \/ RecordResult(c) \/ PersistStep(c) \/ AddContextMessage(c) \/ AppendStep(c)
    \/ Answer(c) \/ NoAnswer(c) \/ SlideAndReturn(c) \/ NewSession(c)

Spec == Init /\ [][Next]_vars

-----------------------------------------------------------------------------

Locations == {"idle", "bind", "make", "add", "log", "run", "think", "step", "tool",
              "stepAdd", "stepLog", "end", "slide"}

TypeOK ==
  /\ \A i \in DOMAIN windows :
       /\ windows[i].session \in Sessions
       /\ Range(windows[i].messages) \subseteq Messages
       /\ windows[i].used \in Nat
  /\ current \in 0..Len(windows)
  /\ \A s \in Sessions : Range(store[s]) \subseteq Messages
  /\ Range(recent) \subseteq Sessions /\ IsInjective(recent)
  /\ named \subseteq Range(recent)
  /\ sent \in 0..MaxMessages
  /\ pc \in [Callers -> Locations]
  /\ session \in [Callers -> Sessions \cup {None}]
  /\ \A c \in Callers : /\ Range(history[c]) \subseteq Messages
                        /\ msg[c] \in Messages \cup {None}
                        /\ held[c] \in 0..Len(windows)
                        /\ pc[c] \notin {"idle", "bind", "make"} => held[c] # 0

\* The context window never shows a conversation that differs from the log:
\* what it holds is the end of its session's log, in order, with nothing
\* missing, through slides, switches between sessions and new windows.
WindowIsRecentLog ==
  (current # 0 /\ \A c \in Callers : pc[c] \notin {"log", "stepLog"})
    => IsSuffix(windows[current].messages, store[windows[current].session])

\* Ask's comment: the session id says which conversation a call belongs to.
\* Nothing a call persists ends up in the log of another conversation.
MessagesStayInTheirSession ==
  \A s \in Sessions : \A i \in DOMAIN store[s] : store[s][i].of = s

\* Questions and answers do so, and are in no window of another conversation,
\* even while other calls replace the agent's window.
ExchangesStayInTheirSession ==
  /\ \A s \in Sessions : \A i \in DOMAIN store[s] :
       store[s][i].role \notin {"step", "tool"} => store[s][i].of = s
  /\ \A w \in Range(windows) : \A i \in DOMAIN w.messages :
       w.messages[i].role \notin {"step", "tool"} => w.messages[i].of = w.session

=============================================================================
