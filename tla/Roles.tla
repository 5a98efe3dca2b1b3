------------------------------- MODULE Roles -------------------------------
(***************************************************************************)
(* Agents that change their role and are cloned: NewSession, Switch and    *)
(* Clone of agent.go, CloneReactor of reactor.go and the sessions by role  *)
(* of core/session_store_memory.go.                                        *)
(*                                                                         *)
(* Switch gives the agent a new reactor; a call that is in progress goes   *)
(* on with the old one and hands its answer to the new.  A clone is an     *)
(* agent with a reactor of its own; all share one session store.           *)
(*                                                                         *)
(* A call is taken in four steps, question, messages of its cycles, end of *)
(* the run, answer; Conversation takes the persisting of one message apart *)
(* and AgentRun the pause.  Windows do not slide here.                     *)
(***************************************************************************)
EXTENDS Naturals, SequencesExt

CONSTANTS
  Agents, First,       \* the agents there can be, and the one there is
  Names,               \* AgentConfig.Name
  Sessions,
  SwitchWhileRunning,  \* Switch may be called while a call is in progress
  MaxMessages,         \* bounds: messages, reactors and, for NewSession,
  MaxReactors,         \*   windows in one behaviour
  MaxWindows,
  None

RolesAssumption ==
  /\ First \in Agents
  /\ SwitchWhileRunning \in BOOLEAN
  /\ MaxMessages \in Nat /\ MaxReactors \in Nat /\ MaxWindows \in Nat
  /\ None \notin Names \cup Sessions

VARIABLES
  name,      \* config.Name of each agent, None while it does not exist
  reactor,   \* index of its reactor
  reactors,  \* every reactor that was made
  windows,   \* every context window that was made
  store,     \* MemorySessionStore.store
  recent,    \* the sessions in its metas, last active last
  role,      \* the role in their metas; None is the empty one
  sent,      \* messages so far
  call       \* the call of each agent

storeVars == <<store, recent, role>>
vars == <<name, reactor, reactors, windows, storeVars, sent, call>>

Messages == [n : 1..MaxMessages, agent : Agents, name : Names]

Reactor(window)         == [window |-> window, pause |-> FALSE, snapshot |-> FALSE]
Window(s, nm, msgs)     == [session |-> s, role |-> nm, messages |-> msgs]
Idle == [pc |-> "idle", session |-> None, reactor |-> 0, asked |-> FALSE]

\* NewAgent: until its first session there is no window.
Init ==
  /\ \E n \in Names : /\ name = [a \in Agents |-> IF a = First THEN n ELSE None]
                      /\ reactors = <<Reactor(0)>>
  /\ reactor = [a \in Agents |-> IF a = First THEN 1 ELSE 0]
  /\ windows = <<>>
  /\ store = [s \in Sessions |-> <<>>] /\ recent = <<>>
  /\ role = [s \in Sessions |-> None]
  /\ sent = 0
  /\ call = [a \in Agents |-> Idle]

-----------------------------------------------------------------------------

WindowOf(r) == reactors[r].window
Fresh(s) == s \notin Range(recent) /\ \A w \in Range(windows) : w.session # s

\* GetByRole and CurrentContext: where the sessions of a role are, and the last
\* active of them.
SessionsOf(n) == {i \in DOMAIN recent : role[recent[i]] = n}
LastSessionOf(n) == recent[Max(SessionsOf(n))]

\* Mutation: every append makes an entry.
StoreAppend_NewEntry(s, n, m) ==
  /\ store' = [store EXCEPT ![s] = Append(@, m)]
  /\ recent' = Append(recent, s)
  /\ role' = [role EXCEPT ![s] = IF @ = None THEN n ELSE @]

\* Append: the first name that is not empty binds the session.
StoreAppend(s, n, m) ==
  /\ store' = [store EXCEPT ![s] = Append(@, m)]
  /\ recent' = Append(RemoveFirst(recent, s), s)
  /\ role' = [role EXCEPT ![s] = IF @ = None THEN n ELSE @]

\* RegisterRole: binds the session whatever it was bound to.
RegisterRole(s, n) ==
  /\ role' = [role EXCEPT ![s] = n]
  /\ recent' = IF s \in Range(recent) THEN recent ELSE Append(recent, s)
  /\ UNCHANGED store

NextMessage(a) == [n |-> sent + 1, agent |-> a, name |-> name[a]]

\* persistMessage: to the window of the agent's reactor, which is replaced if
\* it belongs to another session, and to the store.  rs are the reactors with
\* whatever else the step changes about them.
Persist(a, s, rs) ==
  LET r == reactor[a]
      w == WindowOf(r)
      m == NextMessage(a)
  IN /\ sent < MaxMessages
     /\ sent' = sent + 1
     /\ IF w # 0 /\ windows[w].session = s
        THEN /\ windows' = [windows EXCEPT ![w].messages = Append(@, m)]
             /\ reactors' = rs
        ELSE /\ windows' = Append(windows, Window(s, None, <<m>>))
             /\ reactors' = [rs EXCEPT ![r].window = Len(windows) + 1]
     /\ StoreAppend(s, name[a], m)

-----------------------------------------------------------------------------

\* Ask: the question, and a run on the agent's reactor.
Ask(a) ==
  /\ name[a] # None
  /\ call[a].pc = "idle"
  /\ \E s \in Sessions :
       /\ Persist(a, s, reactors)
       /\ call' = [call EXCEPT ![a] =
            [pc |-> "run", session |-> s, reactor |-> reactor[a], asked |-> TRUE]]
  /\ UNCHANGED <<name, reactor>>

\* persistStepToStore: to the window of the reactor that runs, and to the log
\* of that window's session, under that window's role.
PersistStep(a) ==
  LET w == WindowOf(call[a].reactor)
      m == NextMessage(a)
  IN /\ call[a].pc = "run"
     /\ sent < MaxMessages
     /\ sent' = sent + 1
     /\ windows' = [windows EXCEPT ![w].messages = Append(@, m)]
     /\ StoreAppend(windows[w].session, windows[w].role, m)
     /\ UNCHANGED <<name, reactor, reactors, call>>

\* The run ends; handlePauseSnapshot serves the request of its reactor.
EndRun(a) ==
  LET r == call[a].reactor IN
    /\ call[a].pc = "run"
    /\ reactors' = [reactors EXCEPT ![r].pause = FALSE,
                                    ![r].snapshot = @ \/ reactors[r].pause]
    /\ call' = [call EXCEPT ![a].pc = "answer"]
    /\ UNCHANGED <<name, reactor, windows, storeVars, sent>>

\* An answer, if there is one, goes through the reactor the agent has by now.
Answer(a) ==
  /\ call[a].pc = "answer"
  /\ \/ Persist(a, call[a].session, reactors)
     \/ UNCHANGED <<reactors, windows, storeVars, sent>>
  /\ call' = [call EXCEPT ![a] = Idle]
  /\ UNCHANGED <<name, reactor>>

\* isRunning is set by Ask alone: a resumed run is not paused.
Pause(a) ==
  /\ call[a].asked
  /\ reactors' = [reactors EXCEPT ![reactor[a]].pause = TRUE]
  /\ UNCHANGED <<name, reactor, windows, storeVars, sent, call>>

\* Resume takes the snapshot of the agent's reactor, which holds the history of
\* the run, and persists its new input if there is one.
Resume(a) ==
  /\ call[a].pc = "idle"
  /\ reactor[a] # 0 /\ reactors[reactor[a]].snapshot
  /\ \E s \in Sessions :
       LET taken == [reactors EXCEPT ![reactor[a]].snapshot = FALSE] IN
         /\ \/ Persist(a, s, taken)
            \/ reactors' = taken /\ UNCHANGED <<windows, storeVars, sent>>
         /\ call' = [call EXCEPT ![a] = [pc |-> "run", session |-> s, reactor |-> reactor[a], asked |-> FALSE]]
  /\ UNCHANGED <<name, reactor>>

NewSession(a, s) ==
  /\ name[a] # None
  /\ Len(windows) < MaxWindows
  /\ windows' = Append(windows, Window(s, name[a], <<>>))
  /\ reactors' = [reactors EXCEPT ![reactor[a]].window = Len(windows')]
  /\ RegisterRole(s, name[a])
  /\ UNCHANGED <<name, reactor, sent, call>>

CloneReactor(window) == Append(reactors, Reactor(window))

\* Mutation: the restored messages are put under the session there was.
ResolveSession_KeepsSession(a, n) ==
  LET last == LastSessionOf(n)
      w    == WindowOf(reactor[a])
  IN IF SessionsOf(n) # {} /\ store[last] # <<>> /\ w # 0
     THEN /\ windows' = Append(windows, Window(windows[w].session, n, store[last]))
          /\ reactors' = CloneReactor(Len(windows'))
          /\ RegisterRole(last, n)
     ELSE /\ w # 0
          /\ windows' = [windows EXCEPT ![w].role = n]
          /\ reactors' = CloneReactor(w)
          /\ UNCHANGED storeVars

\* resolveSessionForRole and what Switch makes of it: the messages of the
\* role's last session, else the window there is, else a new session.
ResolveSession(a, n) ==
  LET last == LastSessionOf(n)
      w    == WindowOf(reactor[a])
  IN IF SessionsOf(n) # {} /\ store[last] # <<>>
     THEN /\ windows' = Append(windows, Window(last, n, store[last]))
          /\ reactors' = CloneReactor(Len(windows'))
          /\ RegisterRole(last, n)
     ELSE IF w # 0
     THEN /\ windows' = [windows EXCEPT ![w].role = n]
          /\ reactors' = CloneReactor(w)
          /\ UNCHANGED storeVars
     ELSE \E s \in Sessions :
            /\ Fresh(s)
            /\ windows' = Append(windows, Window(s, n, <<>>))
            /\ reactors' = CloneReactor(Len(windows'))
            /\ RegisterRole(s, n)

Switch(a, n) ==
  /\ name[a] # None
  /\ SwitchWhileRunning \/ call[a].pc = "idle"
  /\ Len(reactors) < MaxReactors
  /\ name' = [name EXCEPT ![a] = n]
  /\ ResolveSession(a, n)
  /\ reactor' = [reactor EXCEPT ![a] = Len(reactors')]
  /\ UNCHANGED <<sent, call>>

\* Mutation: the clone is given its parent's window.
Clone_SharesWindow(a, b, n) ==
  /\ name[a] # None /\ name[b] = None
  /\ Len(reactors) < MaxReactors
  /\ name' = [name EXCEPT ![b] = n]
  /\ reactors' = CloneReactor(WindowOf(reactor[a]))
  /\ reactor' = [reactor EXCEPT ![b] = Len(reactors')]
  /\ UNCHANGED <<windows, storeVars, sent, call>>

Clone(a, b, n) ==
  /\ name[a] # None /\ name[b] = None
  /\ Len(reactors) < MaxReactors
  /\ name' = [name EXCEPT ![b] = n]
  /\ \E s \in Sessions :
       /\ Fresh(s)
       /\ windows' = Append(windows, Window(s, None, <<>>))
  /\ reactors' = CloneReactor(Len(windows'))
  /\ reactor' = [reactor EXCEPT ![b] = Len(reactors')]
  /\ UNCHANGED <<storeVars, sent, call>>

Next ==
  \E a \in Agents :
    \/ Ask(a) \/ PersistStep(a) \/ EndRun(a) \/ Answer(a)
    \/ Pause(a) \/ Resume(a)
    \/ \E s \in Sessions : NewSession(a, s)
    \/ \E n \in Names : Switch(a, n)
    \/ \E b \in Agents \ {a}, n \in Names : Clone(a, b, n)

Spec == Init /\ [][Next]_vars

-----------------------------------------------------------------------------

Living == {a \in Agents : name[a] # None}

TypeOK ==
  /\ name \in [Agents -> Names \cup {None}]
  /\ reactor \in [Agents -> 0..Len(reactors)]
  /\ \A a \in Living : reactor[a] # 0
  /\ \A r \in Range(reactors) : /\ r.window \in 0..Len(windows)
                               /\ {r.pause, r.snapshot} \subseteq BOOLEAN
  /\ \A w \in Range(windows) : /\ w.session \in Sessions
                              /\ w.role \in Names \cup {None}
                              /\ Range(w.messages) \subseteq Messages
  /\ \A s \in Sessions : Range(store[s]) \subseteq Messages
  /\ Range(recent) \subseteq Sessions /\ IsInjective(recent)
  /\ role \in [Sessions -> Names \cup {None}]
  /\ sent \in 0..MaxMessages
  /\ \A a \in Agents : call[a].pc # "idle" => WindowOf(call[a].reactor) # 0

\* What the model is reminded of is what was said: the window of an agent is
\* the end of its session's log, through new sessions, pauses and any sequence
\* of roles it is switched to and back from between its calls.
WindowIsRecentLog ==
  \A a \in Living : LET w == WindowOf(reactor[a]) IN
    w # 0 => IsSuffix(windows[w].messages, store[windows[w].session])

\* Clone's comment: a new context window.  However parents and clones are
\* switched, no two agents ever write to the same one.
ClonesHaveTheirOwnWindow ==
  \A a, b \in Living :
    a # b /\ WindowOf(reactor[a]) # 0 => WindowOf(reactor[a]) # WindowOf(reactor[b])

=============================================================================
