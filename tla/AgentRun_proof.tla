--------------------------- MODULE AgentRun_proof ---------------------------
(***************************************************************************)
(* Proofs about AgentRun for any set of callers, any number of questions   *)
(* and switches and any budget: type correctness, that Cancel and Pause    *)
(* only ever reach an open Ask, that no task is worked on twice at a time, *)
(* that the budget of a task holds over all the calls that work on it, and *)
(* what holds only for callers in turn (MCAgentRun).                       *)
(***************************************************************************)
EXTENDS MCAgentRun, TLAPS

\* A caller holds its task until it can no longer save a snapshot of it.
Holds(c) == pc[c] \in InLoop \cup {"starting", "left", "pausing"}

Saved(r) == snapshot[r] # None

\* Every unfinished task has at most one holder, a run or a snapshot ...
SingleHolder ==
  /\ \A c, d \in Callers : c # d /\ Holds(c) /\ Holds(d) => run[c].task # run[d].task
  /\ \A c \in Callers, r \in Reactors :
       Holds(c) /\ Saved(r) => run[c].task # snapshot[r].task
  /\ \A r, s \in Reactors :
       r # s /\ Saved(r) /\ Saved(s) => snapshot[r].task # snapshot[s].task

\* ... the holder knows how much of the budget is spent ...
HolderCounts ==
  /\ \A c \in Callers : Holds(c) => spent[run[c].task] = run[c].cycles
  /\ \A r \in Reactors : Saved(r) => spent[snapshot[r].task] = snapshot[r].cycles
  /\ \A c \in Callers : pc[c] = "cycle" => run[c].cycles < MaxIterations

\* ... and a question not yet asked has neither a holder nor a cycle.
FreshTasks ==
  /\ \A c \in Callers : Holds(c) => run[c].task <= asked
  /\ \A r \in Reactors : Saved(r) => snapshot[r].task <= asked
  /\ \A t \in Tasks : t > asked => spent[t] = 0

IInv == TypeOK /\ InterruptReachesAnOpenAsk /\ SingleHolder /\ HolderCounts
               /\ FreshTasks /\ BudgetPerTask

-----------------------------------------------------------------------------
\* Type correctness: every variable keeps its type and a call in progress has
\* a context.

LEMMA InitTypeOK == Init => TypeOK
<1> SUFFICES ASSUME Init PROVE TypeOK
  OBVIOUS
<1> USE AgentAssumption DEF Init
<1>1. asked \in 0..MaxTasks /\ spent \in [Tasks -> Nat]
  OBVIOUS
<1>2. /\ reactor \in Reactors
      /\ paused \in [task : Tasks \cup {None}, reactor : Reactors, inTime : BOOLEAN]
  BY DEF NoPause, Reactors
<1>3. /\ pc \in [Callers -> Places]
      /\ kind \in [Callers -> {"ask", "resume"}]
      /\ ctxDone \in [Callers -> BOOLEAN]
      /\ run \in [Callers -> Contexts \cup {None}]
  BY DEF Places
<1>4. /\ pauseRequested \in [Reactors -> BOOLEAN]
      /\ snapshot \in [Reactors -> Contexts \cup {None}]
      /\ runsOn \in [Callers -> Reactors]
      /\ workedOn \in [Tasks -> SUBSET Reactors]
  BY <1>2
<1>5. \A c \in Callers : pc[c] # "idle" => run[c] # None
  OBVIOUS
<1> QED
  BY <1>1, <1>2, <1>3, <1>4, <1>5 DEF TypeOK

LEMMA NextTypeOK ==
  TypeOK /\ InterruptReachesAnOpenAsk /\ [Next]_vars => TypeOK'
<1> SUFFICES ASSUME TypeOK, InterruptReachesAnOpenAsk, [Next]_vars PROVE TypeOK'
  OBVIOUS
<1> USE AgentAssumption, NoneAssumption
<1>1. ASSUME NEW c \in Callers, Ask(c) PROVE TypeOK'
  <2>1. asked + 1 \in Tasks
    BY <1>1 DEF TypeOK, Ask, Tasks
  <2>2. [task |-> asked + 1, cycles |-> 0, stop |-> FALSE] \in Contexts
    BY <2>1 DEF Contexts
  <2>3. run' \in [Callers -> Contexts \cup {None}] /\ run'[c] # None
    BY <1>1, <2>2 DEF TypeOK, Ask
  <2>4. pc' \in [Callers -> Places] /\ kind' \in [Callers -> {"ask", "resume"}]
    BY <1>1 DEF TypeOK, Ask, Places, InLoop
  <2>5. asked' \in 0..MaxTasks
    BY <1>1 DEF TypeOK, Ask
  <2>6. \A d \in Callers : pc'[d] # "idle" => run'[d] # None
    BY <1>1, <2>3 DEF TypeOK, Ask
  <2> QED
    BY <1>1, <2>3, <2>4, <2>5, <2>6 DEF TypeOK, Ask, reactorVars
<1>2. ASSUME NEW c \in Callers, Resume(c) PROVE TypeOK'
  <2>1. NoPause \in [task : Tasks \cup {None}, reactor : Reactors, inTime : BOOLEAN]
    BY DEF NoPause, Reactors
  <2>2. snapshot[reactor] \in Contexts \cup {None} /\ snapshot[reactor] # None
    BY <1>2 DEF TypeOK, Resume
  <2> QED
    BY <1>2, <2>1, <2>2 DEF TypeOK, Resume, agentVars, Places, InLoop
<1>3. ASSUME NEW c \in Callers, AskTimeout(c) PROVE TypeOK'
  BY <1>3 DEF TypeOK, AskTimeout, agentVars, reactorVars, historyVars
<1>4. ASSUME NEW c \in Callers, StartRun(c) PROVE TypeOK'
  <2>1. run[c].task \in Tasks
    BY <1>4 DEF TypeOK, StartRun, Contexts
  <2>2. workedOn' \in [Tasks -> SUBSET Reactors]
    BY <1>4, <2>1 DEF TypeOK, StartRun
  <2> QED
    BY <1>4, <2>2 DEF TypeOK, StartRun, agentVars, reactorVars, Places, InLoop
<1>5. ASSUME NEW c \in Callers, LeaveLoop(c) PROVE TypeOK'
  BY <1>5 DEF TypeOK, LeaveLoop, agentVars, reactorVars, historyVars, Places, InLoop
<1>6. ASSUME NEW c \in Callers, BeginCycle(c) PROVE TypeOK'
  BY <1>6 DEF TypeOK, BeginCycle, agentVars, reactorVars, historyVars, Places, InLoop
<1>7. ASSUME NEW c \in Callers, CompleteCycle(c) PROVE TypeOK'
  <2>1. run[c] \in Contexts
    BY <1>7 DEF TypeOK, CompleteCycle
  <2>2. PICK stop \in BOOLEAN :
          run' = [run EXCEPT ![c] = [task   |-> run[c].task,
                                     cycles |-> run[c].cycles + 1,
                                     stop   |-> stop]]
    BY <1>7 DEF CompleteCycle
  <2>8. [task |-> run[c].task, cycles |-> run[c].cycles + 1, stop |-> stop] \in Contexts
    BY <2>1 DEF Contexts
  <2>3. run'[c] \in Contexts /\ run' \in [Callers -> Contexts \cup {None}]
    BY <2>8, <2>2 DEF TypeOK
  <2>4. run'[c] # None
    BY <2>3
  <2>5. spent' \in [Tasks -> Nat]
    BY <1>7, <2>1 DEF TypeOK, CompleteCycle, Contexts
  <2>6. pc' \in [Callers -> Places]
    BY <1>7 DEF TypeOK, CompleteCycle, Places, InLoop
  <2>7. \A d \in Callers : pc'[d] # "idle" => run'[d] # None
    BY <1>7, <2>2, <2>4 DEF TypeOK, CompleteCycle
  <2> QED
    BY <1>7, <2>3, <2>5, <2>6, <2>7
    DEF TypeOK, CompleteCycle, agentVars, reactorVars
<1>8. ASSUME NEW c \in Callers, ThinkError(c) PROVE TypeOK'
  BY <1>8 DEF TypeOK, ThinkError, agentVars, reactorVars, historyVars, Places, InLoop
<1>9. ASSUME NEW c \in Callers, TakePauseRequest(c) PROVE TypeOK'
  BY <1>9 DEF TypeOK, TakePauseRequest, agentVars, historyVars, Places, InLoop
<1>10. ASSUME NEW c \in Callers, SaveSnapshot(c) PROVE TypeOK'
  BY <1>10 DEF TypeOK, SaveSnapshot, agentVars, historyVars, Places, InLoop
<1>11. ASSUME NEW c \in Callers, ReturnFromAsk(c) PROVE TypeOK'
  BY <1>11 DEF TypeOK, ReturnFromAsk, reactorVars, historyVars, Places, InLoop
<1>12. ASSUME NEW c \in Callers, ReturnFromResume(c) PROVE TypeOK'
  BY <1>12 DEF TypeOK, ReturnFromResume, agentVars, reactorVars, historyVars, Places, InLoop
<1>13. CASE Cancel
  BY <1>13 DEF TypeOK, Cancel, CancelContext, agentVars, reactorVars, historyVars
<1>14. CASE Pause
  <2>1. run[cancelFunc] \in Contexts
    BY <1>14 DEF TypeOK, Pause, InterruptReachesAnOpenAsk
  <2>2. paused' \in [task : Tasks \cup {None}, reactor : Reactors, inTime : BOOLEAN]
    BY <1>14, <2>1 DEF Pause, Contexts, TypeOK
  <2>3. cancelFunc \in Callers
    BY <1>14 DEF TypeOK, Pause, InterruptReachesAnOpenAsk
  <2>4. ctxDone' \in [Callers -> BOOLEAN]
    BY <1>14, <2>3 DEF TypeOK, Pause, CancelContext
  <2>5. /\ pauseRequested' \in [Reactors -> BOOLEAN]
        /\ UNCHANGED <<agentVars, reactor, snapshot, pc, runsOn, kind, run, asked, spent, workedOn>>
    BY <1>14 DEF Pause, TypeOK
  <2> QED
    BY <2>2, <2>4, <2>5 DEF TypeOK, agentVars
<1>15. CASE Switch
  BY <1>15 DEF TypeOK, Switch, agentVars, reactorVars, historyVars, Reactors
<1>16. CASE UNCHANGED vars
  BY <1>16 DEF TypeOK, vars, agentVars, reactorVars, historyVars
<1> QED
  BY <1>1, <1>2, <1>3, <1>5, <1>6, <1>7, <1>8, <1>9, <1>10, <1>11, <1>12, <1>13, <1>14, <1>16,
     <1>4, <1>15
  DEF Next, CallStep

-----------------------------------------------------------------------------
\* Interrupts: the clean-up of any Ask clears both fields, so what they name
\* is always a call that has not been cleaned up.

LEMMA NextInterrupt ==
  TypeOK /\ InterruptReachesAnOpenAsk /\ [Next]_vars => InterruptReachesAnOpenAsk'
<1> SUFFICES ASSUME TypeOK, InterruptReachesAnOpenAsk, [Next]_vars
             PROVE  InterruptReachesAnOpenAsk'
  OBVIOUS
<1> USE AgentAssumption DEF InterruptReachesAnOpenAsk
<1>1. ASSUME NEW c \in Callers, Ask(c) PROVE InterruptReachesAnOpenAsk'
  BY <1>1 DEF TypeOK, Ask
<1>2. ASSUME NEW c \in Callers, Resume(c) PROVE InterruptReachesAnOpenAsk'
  BY <1>2 DEF TypeOK, Resume, agentVars
<1>3. ASSUME NEW c \in Callers, AskTimeout(c) PROVE InterruptReachesAnOpenAsk'
  BY <1>3 DEF TypeOK, AskTimeout, agentVars
<1>4. ASSUME NEW c \in Callers, CallStep(c), pc[c] # "cleanup"
      PROVE  InterruptReachesAnOpenAsk'
  BY <1>4 DEF TypeOK, CallStep, StartRun, LeaveLoop, BeginCycle, CompleteCycle, ThinkError,
              TakePauseRequest, SaveSnapshot, ReturnFromAsk, ReturnFromResume, agentVars
<1>5. ASSUME NEW c \in Callers, ReturnFromAsk(c) PROVE InterruptReachesAnOpenAsk'
  BY <1>5 DEF ReturnFromAsk
<1>6. ASSUME NEW c \in Callers, ReturnFromResume(c) PROVE InterruptReachesAnOpenAsk'
  BY <1>6 DEF TypeOK, ReturnFromResume, agentVars
<1>7. CASE Cancel
  BY <1>7 DEF Cancel, agentVars
<1>8. CASE Pause
  BY <1>8 DEF Pause, agentVars
<1>9. CASE Switch \/ UNCHANGED vars
  BY <1>9 DEF Switch, vars, agentVars
<1>10. ASSUME NEW c \in Callers, CallStep(c), pc[c] = "cleanup"
       PROVE  ReturnFromAsk(c) \/ ReturnFromResume(c)
  BY <1>10 DEF CallStep, StartRun, LeaveLoop, BeginCycle, CompleteCycle, ThinkError,
               TakePauseRequest, SaveSnapshot
<1> QED
  BY <1>1, <1>2, <1>3, <1>4, <1>5, <1>6, <1>7, <1>8, <1>9, <1>10 DEF Next

-----------------------------------------------------------------------------
\* The budget.  The conjuncts are preserved together: the count of a task is
\* known because it has one holder, and only the holder counts.

LEMMA NextHolders ==
  IInv /\ [Next]_vars => (SingleHolder /\ HolderCounts /\ FreshTasks /\ BudgetPerTask)'
<1> SUFFICES ASSUME IInv, [Next]_vars
             PROVE  (SingleHolder /\ HolderCounts /\ FreshTasks /\ BudgetPerTask)'
  OBVIOUS
<1> DEFINE Goal == SingleHolder /\ HolderCounts /\ FreshTasks /\ BudgetPerTask
<1> USE AgentAssumption, NoneAssumption
<1>0. TypeOK /\ TypeOK'
  BY NextTypeOK DEF IInv
<1>1. ASSUME NEW c \in Callers, Ask(c) PROVE Goal'
  <2>1. /\ asked + 1 \in Tasks /\ asked' = asked + 1 /\ asked \in Nat
        /\ spent' = spent /\ snapshot' = snapshot
        /\ pc'[c] = "starting" /\ run'[c].task = asked + 1 /\ run'[c].cycles = 0
        /\ \A d \in Callers : d # c => pc'[d] = pc[d] /\ run'[d] = run[d]
    BY <1>0, <1>1 DEF TypeOK, Ask, Tasks, reactorVars
  <2>6. \A r \in Reactors : Saved(r) => snapshot[r] \in Contexts
    BY <1>0 DEF TypeOK, Saved
  <2>2. \A d \in Callers : Holds(d) => run[d] \in Contexts
    BY <1>0 DEF TypeOK, Holds, InLoop
  <2>3. SingleHolder'
    BY <2>1, <2>2, <2>6 DEF IInv, SingleHolder, FreshTasks, Holds, Saved, Contexts, Tasks
  <2>4. HolderCounts'
    BY <2>1, <2>2, <2>6 DEF IInv, HolderCounts, FreshTasks, Holds, Saved, Contexts, Tasks
  <2>5. FreshTasks'
    <3>1. \A d \in Callers : d # c /\ Holds(d)' => run'[d].task <= asked'
      BY <2>1, <2>2 DEF IInv, FreshTasks, Holds, Contexts, Tasks
    <3>2. \A r \in Reactors : Saved(r)' => snapshot'[r].task <= asked'
      BY <2>1, <2>6 DEF IInv, FreshTasks, Saved, Contexts, Tasks
    <3>3. \A t \in Tasks : t > asked' => spent'[t] = 0
      BY <2>1 DEF IInv, FreshTasks, Tasks
    <3> QED
      BY <3>1, <3>2, <3>3, <2>1 DEF FreshTasks
  <2> QED
    BY <2>1, <2>3, <2>4, <2>5 DEF IInv, BudgetPerTask
<1>2. ASSUME NEW c \in Callers, Resume(c) PROVE Goal'
  <2>1. /\ asked' = asked /\ spent' = spent
        /\ reactor \in Reactors /\ Saved(reactor) /\ ~Saved(reactor)'
        /\ \A r \in Reactors : r # reactor => snapshot'[r] = snapshot[r]
        /\ pc'[c] = "starting" /\ run'[c] = snapshot[reactor]
        /\ \A d \in Callers : d # c => pc'[d] = pc[d] /\ run'[d] = run[d]
    <3>1. reactor' = reactor
      BY <1>2 DEF Resume
    <3> QED
      BY <1>0, <1>2, <3>1 DEF TypeOK, Resume, Saved
  <2>5. \A r \in Reactors : Saved(r)' => r # reactor /\ Saved(r) /\ snapshot'[r] = snapshot[r]
    BY <1>2, <2>1 DEF Saved, Resume
  <2>2. SingleHolder'
    BY <2>1, <2>5 DEF IInv, SingleHolder, Holds
  <2>3. HolderCounts'
    BY <2>1, <2>5 DEF IInv, HolderCounts, Holds
  <2>4. FreshTasks'
    BY <2>1, <2>5 DEF IInv, FreshTasks, Holds
  <2> QED
    BY <2>1, <2>2, <2>3, <2>4 DEF IInv, BudgetPerTask
<1>3. ASSUME NEW c \in Callers, CompleteCycle(c) PROVE Goal'
  <2> DEFINE t == run[c].task
  <2>1. /\ asked' = asked /\ snapshot' = snapshot
        /\ pc[c] = "cycle" /\ pc'[c] = "head"
        /\ \A d \in Callers : d # c => pc'[d] = pc[d] /\ run'[d] = run[d]
    BY <1>0, <1>3 DEF TypeOK, CompleteCycle, reactorVars
  <2>2. run'[c].task = t /\ run'[c].cycles = run[c].cycles + 1
    BY <1>0, <1>3 DEF TypeOK, CompleteCycle
  <2>3. Holds(c) /\ t \in Tasks /\ run[c].cycles \in Nat /\ run[c].cycles < MaxIterations
    BY <1>0, <2>1 DEF TypeOK, IInv, HolderCounts, Holds, InLoop, Contexts
  <2>4. /\ spent'[t] = run[c].cycles + 1
        /\ \A u \in Tasks : u # t => spent'[u] = spent[u]
    BY <1>0, <1>3, <2>3 DEF TypeOK, CompleteCycle, IInv, HolderCounts
  <2>5. \A d \in Callers : Holds(d) => run[d].task \in Tasks
    BY <1>0 DEF TypeOK, Holds, InLoop, Contexts
  <2>6. \A r \in Reactors :
          (Saved(r)' <=> Saved(r)) /\ (Saved(r) => snapshot[r].task \in Tasks)
    <3>1. \A r \in Reactors : Saved(r) => snapshot[r] \in Contexts
      BY <1>0 DEF TypeOK, Saved
    <3>2. \A r \in Reactors : Saved(r)' <=> Saved(r)
      BY <2>1 DEF Saved
    <3> QED
      BY <3>1, <3>2 DEF Contexts
  <2>7. SingleHolder'
    BY <2>1, <2>2, <2>3, <2>6 DEF IInv, SingleHolder, Holds
  <2>8. HolderCounts'
    BY <2>1, <2>2, <2>3, <2>4, <2>5, <2>6 DEF IInv, SingleHolder, HolderCounts, Holds
  <2>9. FreshTasks'
    <3>1. t <= asked
      BY <2>3 DEF IInv, FreshTasks
    <3>2. \A d \in Callers : Holds(d)' => run'[d].task <= asked'
      BY <2>1, <2>2, <3>1 DEF IInv, FreshTasks, Holds
    <3>3. \A u \in Tasks : u > asked => u # t
      BY <3>1, <1>0, <2>3 DEF TypeOK, Tasks
    <3>4. \A u \in Tasks : u > asked' => spent'[u] = 0
      BY <2>1, <2>4, <3>3 DEF IInv, FreshTasks
    <3> QED
      BY <2>1, <2>6, <3>2, <3>4 DEF IInv, FreshTasks
  <2>10. BudgetPerTask'
    BY <2>3, <2>4 DEF IInv, BudgetPerTask
  <2> QED
    BY <2>7, <2>8, <2>9, <2>10
<1>4. ASSUME NEW c \in Callers, SaveSnapshot(c) PROVE Goal'
  <2>1. /\ asked' = asked /\ spent' = spent /\ run' = run
        /\ runsOn[c] \in Reactors /\ snapshot'[runsOn[c]] = run[c]
        /\ \A r \in Reactors : r # runsOn[c] => snapshot'[r] = snapshot[r]
        /\ pc[c] = "pausing" /\ pc'[c] = "cleanup"
        /\ \A d \in Callers : d # c => pc'[d] = pc[d]
    BY <1>0, <1>4 DEF TypeOK, SaveSnapshot, historyVars
  <2>5. Holds(c) /\ ~Holds(c)' /\ \A d \in Callers : d # c => (Holds(d)' <=> Holds(d))
    BY <2>1 DEF Holds, InLoop
  <2>6. \A r \in Reactors : r # runsOn[c] => (Saved(r)' <=> Saved(r))
    BY <2>1 DEF Saved
  <2>2. SingleHolder'
    BY <2>1, <2>5, <2>6 DEF IInv, SingleHolder
  <2>3. HolderCounts'
    BY <2>1, <2>5, <2>6 DEF IInv, HolderCounts
  <2>4. FreshTasks'
    BY <2>1, <2>5, <2>6 DEF IInv, FreshTasks
  <2> QED
    BY <2>1, <2>2, <2>3, <2>4 DEF IInv, BudgetPerTask
<1>5. ASSUME NEW c \in Callers, BeginCycle(c) PROVE Goal'
  <2>1. /\ asked' = asked /\ spent' = spent /\ run' = run /\ snapshot' = snapshot
        /\ pc[c] = "head" /\ pc'[c] = "cycle" /\ run[c].cycles < MaxIterations
        /\ \A d \in Callers : d # c => pc'[d] = pc[d]
    BY <1>0, <1>5 DEF TypeOK, BeginCycle, historyVars, reactorVars
  <2> QED
    BY <2>1 DEF IInv, SingleHolder, HolderCounts, FreshTasks, BudgetPerTask, Holds, InLoop, Saved
<1>6. ASSUME NEW c \in Callers,
             \/ StartRun(c) \/ LeaveLoop(c) \/ ThinkError(c) \/ TakePauseRequest(c)
             \/ ReturnFromAsk(c) \/ ReturnFromResume(c)
      PROVE Goal'
  <2>1. /\ asked' = asked /\ spent' = spent /\ run' = run /\ snapshot' = snapshot
        /\ pc'[c] # "cycle" /\ (Holds(c)' => Holds(c))
        /\ \A d \in Callers : d # c => pc'[d] = pc[d]
    BY <1>0, <1>6 DEF TypeOK, StartRun, LeaveLoop, ThinkError, TakePauseRequest, ReturnFromAsk,
                      ReturnFromResume, historyVars, reactorVars, Holds, InLoop
  <2> QED
    BY <2>1 DEF IInv, SingleHolder, HolderCounts, FreshTasks, BudgetPerTask, Holds, Saved
<1>7. CASE \/ Cancel \/ Pause \/ Switch \/ UNCHANGED vars \/ \E c \in Callers : AskTimeout(c)
  <2>1. UNCHANGED <<asked, spent, run, snapshot, pc>>
    BY <1>7 DEF Cancel, Pause, Switch, AskTimeout, vars, historyVars, reactorVars
  <2> QED
    BY <2>1 DEF IInv, SingleHolder, HolderCounts, FreshTasks, BudgetPerTask, Holds, Saved
<1> QED
  BY <1>1, <1>2, <1>3, <1>4, <1>5, <1>6, <1>7 DEF Next, CallStep

-----------------------------------------------------------------------------

LEMMA InitIInv == Init => IInv
<1> SUFFICES ASSUME Init PROVE IInv
  OBVIOUS
<1> USE AgentAssumption
<1>1. TypeOK
  BY InitTypeOK
<1>2. InterruptReachesAnOpenAsk
  BY DEF Init, InterruptReachesAnOpenAsk
<1>3. SingleHolder /\ HolderCounts
  BY DEF Init, SingleHolder, HolderCounts, Holds, Saved, InLoop
<1>4. FreshTasks /\ BudgetPerTask
  BY DEF Init, FreshTasks, BudgetPerTask, Holds, Saved, InLoop
<1> QED
  BY <1>1, <1>2, <1>3, <1>4 DEF IInv

LEMMA NextIInv == IInv /\ [Next]_vars => IInv'
BY NextTypeOK, NextInterrupt, NextHolders DEF IInv

\* The inductive invariant holds in every reachable state of agent.go's facade.
THEOREM Inductive == Spec => []IInv
<1>1. Init => IInv
  BY InitIInv
<1>2. IInv /\ [Next]_vars => IInv'
  BY NextIInv
<1> QED
  BY <1>1, <1>2, PTL DEF Spec

\* The fields of Agent and Reactor and the state of every call keep their types.
THEOREM TypeCorrect == Spec => []TypeOK
<1>1. IInv => TypeOK
  BY DEF IInv
<1> QED
  BY <1>1, Inductive, PTL

\* Cancel and Pause (agent.go) never act on a call that is already over, for
\* any number of goroutines starting and finishing calls in any order.
THEOREM InterruptsReachOpenAsks == Spec => []InterruptReachesAnOpenAsk
<1>1. IInv => InterruptReachesAnOpenAsk
  BY DEF IInv
<1> QED
  BY <1>1, Inductive, PTL

\* The atomic ConsumeSnapshot hands a paused task to one Resume only: no two
\* runs ever work on the same task.
THEOREM TasksHaveOneWorker == Spec => []OneWorkerPerTask
<1>1. IInv => OneWorkerPerTask
  BY DEF IInv, SingleHolder, OneWorkerPerTask, Holds, Saved
<1> QED
  BY <1>1, Inductive, PTL

\* No sequence of pauses and resumes gives a task more than MaxIterations
\* think-act-observe cycles.
THEOREM BudgetHolds == Spec => []BudgetPerTask
<1>1. IInv => BudgetPerTask
  BY DEF IInv
<1> QED
  BY <1>1, Inductive, PTL

-----------------------------------------------------------------------------
(***************************************************************************)
(* Callers in turn.  While no two calls have overlapped, the reactor of    *)
(* the only call is the agent's, and so is the one its pause request and   *)
(* its snapshot are kept in.                                               *)
(***************************************************************************)

Busy(c) == pc[c] # "idle"

OneAtATime == \A c, d \in Callers : Busy(c) /\ Busy(d) => c = d

RunsOnTheReactor == \A c \in Callers : Busy(c) /\ pc[c] # "starting" => runsOn[c] = reactor

\* Whoever may go on with a task is of the reactor that has worked on it.
WorkStaysThere ==
  /\ \A c \in Callers : Holds(c) => workedOn[run[c].task] \subseteq {reactor}
  /\ \A r \in Reactors : Saved(r) => workedOn[snapshot[r].task] \subseteq {r}
  /\ \A t \in Tasks : t > asked => workedOn[t] = {}

\* A pause that came in time is on its way to a snapshot ...
PauseIsPending ==
  \E c \in Callers :
    /\ \/ pc[c] \in InLoop \cup {"starting", "left"} /\ pauseRequested[reactor]
       \/ pc[c] = "pausing" /\ ~pauseRequested[reactor]
    /\ run[c].task = paused.task
    /\ paused.reactor = reactor

\* ... or saved, and nothing is left that would save another one over it.
PauseIsSaved ==
  /\ Saved(paused.reactor) /\ snapshot[paused.reactor].task = paused.task
  /\ ~pauseRequested[paused.reactor]
  /\ \A c \in Callers : pc[c] = "pausing" => runsOn[c] # paused.reactor

PauseIsKept == paused.inTime => PauseIsPending \/ PauseIsSaved

InTurn == ~overlapped => /\ OneAtATime /\ IsRunningIsExact /\ RunsOnTheReactor
                         /\ WorkStaysThere /\ OneReactorPerTask /\ PauseIsKept

\* What a step in turn is: there is one call at most before and after it, and
\* only a step between two calls changes the reactor.
LEMMA StepInTurn ==
  ASSUME MCNext, ~overlapped'
  PROVE  Next /\ ~overlapped /\ OneAtATime' /\ (AllIdle \/ reactor' = reactor)
BY DEF MCNext, OneAtATime, Busy

LEMMA ExactInTurn ==
  ASSUME IInv, [Next]_vars, OneAtATime, OneAtATime', IsRunningIsExact
  PROVE  IsRunningIsExact'
<1> USE DEF IsRunningIsExact
<1>0. TypeOK
  BY DEF IInv
<1>1. ASSUME NEW c \in Callers, Ask(c) PROVE IsRunningIsExact'
  BY <1>0, <1>1 DEF TypeOK, Ask
<1>2. ASSUME NEW c \in Callers, Resume(c) PROVE IsRunningIsExact'
  BY <1>0, <1>2 DEF TypeOK, Resume, agentVars, OneAtATime, Busy
<1>3. ASSUME NEW c \in Callers, AskTimeout(c) PROVE IsRunningIsExact'
  BY <1>3 DEF AskTimeout, agentVars
<1>4. ASSUME NEW c \in Callers, CallStep(c), ~ReturnFromAsk(c), ~ReturnFromResume(c)
      PROVE  IsRunningIsExact'
  <2>1. UNCHANGED <<agentVars, kind>> /\ pc[c] # "idle" /\ pc'[c] # "idle"
        /\ \A d \in Callers : d # c => pc'[d] = pc[d]
    BY <1>0, <1>4 DEF TypeOK, CallStep, StartRun, LeaveLoop, BeginCycle, CompleteCycle,
                      ThinkError, TakePauseRequest, SaveSnapshot
  <2> QED
    BY <2>1 DEF agentVars
<1>5. ASSUME NEW c \in Callers, ReturnFromAsk(c) PROVE IsRunningIsExact'
  BY <1>0, <1>5 DEF TypeOK, ReturnFromAsk, OneAtATime, Busy
<1>6. ASSUME NEW c \in Callers, ReturnFromResume(c) PROVE IsRunningIsExact'
  BY <1>0, <1>6 DEF TypeOK, ReturnFromResume, agentVars, OneAtATime, Busy
<1>7. CASE Cancel \/ Pause \/ Switch \/ UNCHANGED vars
  BY <1>7 DEF Cancel, Pause, Switch, vars, agentVars
<1> QED
  BY <1>1, <1>2, <1>3, <1>4, <1>5, <1>6, <1>7 DEF Next, CallStep

LEMMA ReactorInTurn ==
  ASSUME IInv, [Next]_vars, OneAtATime, OneAtATime', AllIdle \/ reactor' = reactor,
         RunsOnTheReactor
  PROVE  RunsOnTheReactor'
<1> USE DEF RunsOnTheReactor, Busy
<1>0. TypeOK
  BY DEF IInv
<1>1. ASSUME NEW c \in Callers, Ask(c) \/ Resume(c) PROVE RunsOnTheReactor'
  BY <1>0, <1>1 DEF TypeOK, Ask, Resume
<1>2. ASSUME NEW c \in Callers, StartRun(c) PROVE RunsOnTheReactor'
  BY <1>0, <1>2 DEF TypeOK, StartRun
<1>3. ASSUME NEW c \in Callers, CallStep(c), ~StartRun(c) PROVE RunsOnTheReactor'
  <2>1. UNCHANGED <<reactor, runsOn>> /\ pc[c] \notin {"idle", "starting"}
        /\ \A d \in Callers : d # c => pc'[d] = pc[d]
    BY <1>0, <1>3 DEF TypeOK, CallStep, LeaveLoop, BeginCycle, CompleteCycle, ThinkError,
                TakePauseRequest, SaveSnapshot, ReturnFromAsk, ReturnFromResume
  <2> QED
    BY <2>1
<1>4. CASE Cancel \/ Pause \/ UNCHANGED vars \/ \E c \in Callers : AskTimeout(c)
  BY <1>4 DEF Cancel, Pause, AskTimeout, vars
<1>5. CASE Switch
  BY <1>0, <1>5 DEF Switch, AllIdle, TypeOK, Reactors
<1> QED
  BY <1>1, <1>2, <1>3, <1>4, <1>5 DEF Next, CallStep

LEMMA WorkInTurn ==
  ASSUME IInv, [Next]_vars, AllIdle \/ reactor' = reactor,
         RunsOnTheReactor, WorkStaysThere, OneReactorPerTask
  PROVE  (WorkStaysThere /\ OneReactorPerTask)'
<1> USE AgentAssumption, NoneAssumption
<1> DEFINE Goal == WorkStaysThere /\ OneReactorPerTask
<1>0. TypeOK /\ TypeOK'
  BY NextTypeOK DEF IInv
<1>a. /\ \A c \in Callers : Holds(c) => run[c] \in Contexts /\ run[c].task \in Tasks
      /\ \A r \in Reactors : Saved(r) => snapshot[r] \in Contexts /\ snapshot[r].task \in Tasks
  BY <1>0 DEF TypeOK, Holds, InLoop, Saved, Contexts
<1>1. ASSUME NEW c \in Callers, Ask(c) PROVE Goal'
  <2>1. /\ asked + 1 \in Tasks /\ asked' = asked + 1 /\ asked \in Nat
        /\ UNCHANGED <<workedOn, snapshot, reactor>>
        /\ run'[c].task = asked + 1
        /\ \A d \in Callers : d # c => pc'[d] = pc[d] /\ run'[d] = run[d]
    BY <1>0, <1>1 DEF TypeOK, Ask, Tasks, reactorVars
  <2>2. workedOn[asked + 1] = {}
    BY <2>1 DEF WorkStaysThere
  <2>3. \A d \in Callers : Holds(d)' => workedOn'[run'[d].task] \subseteq {reactor'}
    BY <2>1, <2>2 DEF WorkStaysThere, Holds
  <2>4. \A t \in Tasks : t > asked' => t > asked
    BY <2>1 DEF Tasks
  <2> QED
    BY <2>1, <2>3, <2>4 DEF WorkStaysThere, OneReactorPerTask, Saved
<1>2. ASSUME NEW c \in Callers, Resume(c) PROVE Goal'
  <2>1. /\ UNCHANGED <<asked, workedOn, reactor>> /\ reactor \in Reactors /\ Saved(reactor)
        /\ \A r \in Reactors : Saved(r)' => Saved(r) /\ snapshot'[r] = snapshot[r]
        /\ run'[c] = snapshot[reactor]
        /\ \A d \in Callers : d # c => pc'[d] = pc[d] /\ run'[d] = run[d]
    BY <1>0, <1>2 DEF TypeOK, Resume, Saved
  <2>2. \A d \in Callers : Holds(d)' => workedOn'[run'[d].task] \subseteq {reactor'}
    BY <2>1 DEF WorkStaysThere, Holds
  <2> QED
    BY <2>1, <2>2 DEF WorkStaysThere, OneReactorPerTask
<1>3. ASSUME NEW c \in Callers, StartRun(c) PROVE Goal'
  <2> DEFINE t == run[c].task
  <2>1. /\ UNCHANGED <<asked, snapshot, reactor, run>>
        /\ Holds(c) /\ \A d \in Callers : Holds(d)' <=> Holds(d)
        /\ \A r \in Reactors : Saved(r)' <=> Saved(r)
    BY <1>0, <1>3 DEF TypeOK, StartRun, reactorVars, Holds, InLoop, Saved
  <2>2. t \in Tasks /\ t <= asked
    BY <1>a, <2>1 DEF IInv, FreshTasks
  <2>3. /\ workedOn'[t] = workedOn[t] \cup {reactor}
        /\ \A u \in Tasks : u # t => workedOn'[u] = workedOn[u]
    BY <1>0, <1>3, <2>2 DEF TypeOK, StartRun
  <2>4. workedOn[t] \subseteq {reactor}
    BY <2>1 DEF WorkStaysThere
  <2>5. \A d \in Callers : Holds(d)' => workedOn'[run'[d].task] \subseteq {reactor'}
    BY <1>a, <2>1, <2>3 DEF WorkStaysThere
  <2>6. \A r \in Reactors : Saved(r) => snapshot[r].task # t
    BY <2>1 DEF IInv, SingleHolder
  <2>7. \A r \in Reactors : Saved(r)' => workedOn'[snapshot'[r].task] \subseteq {r}
    BY <1>a, <2>1, <2>3, <2>6 DEF WorkStaysThere
  <2>8. \A u \in Tasks : u > asked' => u # t /\ workedOn'[u] = {}
    BY <1>0, <2>1, <2>2, <2>3 DEF WorkStaysThere, TypeOK, Tasks
  <2>9. OneReactorPerTask'
    BY <2>3, <2>4 DEF OneReactorPerTask
  <2> QED
    BY <2>5, <2>7, <2>8, <2>9 DEF WorkStaysThere
<1>4. ASSUME NEW c \in Callers, SaveSnapshot(c) PROVE Goal'
  <2>1. /\ UNCHANGED <<asked, workedOn, run, reactor>> /\ Holds(c)
        /\ runsOn[c] = reactor /\ reactor \in Reactors
        /\ snapshot'[reactor] = run[c]
        /\ \A r \in Reactors : r # reactor => snapshot'[r] = snapshot[r]
        /\ \A d \in Callers : Holds(d)' => Holds(d)
    BY <1>0, <1>4 DEF TypeOK, SaveSnapshot, historyVars, RunsOnTheReactor, Busy, Holds, InLoop
  <2>2. workedOn[run[c].task] \subseteq {reactor}
    BY <2>1 DEF WorkStaysThere
  <2>3. \A r \in Reactors : Saved(r)' => workedOn'[snapshot'[r].task] \subseteq {r}
    BY <2>1, <2>2 DEF WorkStaysThere, Saved
  <2> QED
    BY <2>1, <2>3 DEF WorkStaysThere, OneReactorPerTask
<1>5. ASSUME NEW c \in Callers, CompleteCycle(c) PROVE Goal'
  <2>1. /\ UNCHANGED <<asked, workedOn, snapshot, reactor>>
        /\ \A d \in Callers : Holds(d)' => Holds(d) /\ run'[d].task = run[d].task
    BY <1>0, <1>5 DEF TypeOK, CompleteCycle, reactorVars, Holds, InLoop
  <2> QED
    BY <2>1 DEF WorkStaysThere, OneReactorPerTask, Saved
<1>6. ASSUME NEW c \in Callers,
             \/ LeaveLoop(c) \/ BeginCycle(c) \/ ThinkError(c) \/ TakePauseRequest(c)
             \/ ReturnFromAsk(c) \/ ReturnFromResume(c)
      PROVE Goal'
  <2>1. /\ UNCHANGED <<asked, workedOn, run, snapshot, reactor>>
        /\ \A d \in Callers : Holds(d)' => Holds(d)
    BY <1>0, <1>6 DEF TypeOK, LeaveLoop, BeginCycle, ThinkError, TakePauseRequest,
                ReturnFromAsk, ReturnFromResume, historyVars, reactorVars, Holds, InLoop
  <2> QED
    BY <2>1 DEF WorkStaysThere, OneReactorPerTask, Saved
<1>7. CASE Cancel \/ Pause \/ UNCHANGED vars \/ \E c \in Callers : AskTimeout(c)
  <2>1. UNCHANGED <<asked, workedOn, run, snapshot, pc, reactor>>
    BY <1>7 DEF Cancel, Pause, AskTimeout, vars, historyVars, reactorVars
  <2> QED
    BY <2>1 DEF WorkStaysThere, OneReactorPerTask, Saved, Holds
<1>8. CASE Switch
  <2>1. UNCHANGED <<asked, workedOn, run, snapshot, pc>> /\ reactor' # reactor
    BY <1>0, <1>8 DEF Switch, historyVars, reactorVars, TypeOK, Reactors
  <2>2. \A d \in Callers : ~Holds(d)'
    BY <2>1 DEF AllIdle, Holds, InLoop
  <2> QED
    BY <2>1, <2>2 DEF WorkStaysThere, OneReactorPerTask, Saved
<1> QED
  BY <1>1, <1>2, <1>3, <1>4, <1>5, <1>6, <1>7, <1>8 DEF Next, CallStep

LEMMA PauseInTurn ==
  ASSUME IInv, [Next]_vars, OneAtATime, OneAtATime', AllIdle \/ reactor' = reactor,
         RunsOnTheReactor, PauseIsKept
  PROVE  PauseIsKept'
<1> USE AgentAssumption
<1>0. TypeOK
  BY DEF IInv
<1>a. paused.reactor \in Reactors /\ reactor \in Reactors
  BY <1>0 DEF TypeOK
<1>1. ASSUME NEW c \in Callers, Ask(c) PROVE PauseIsKept'
  <2>1. /\ UNCHANGED <<reactor, pauseRequested, snapshot, runsOn, paused>>
        /\ pc[c] = "idle" /\ pc'[c] = "starting"
        /\ \A d \in Callers : d # c => pc'[d] = pc[d]
    BY <1>0, <1>1 DEF TypeOK, Ask, reactorVars
  <2>2. ~PauseIsPending
    BY <2>1 DEF PauseIsPending, OneAtATime, Busy, InLoop
  <2>3. PauseIsSaved => PauseIsSaved'
    BY <2>1 DEF PauseIsSaved, Saved
  <2> QED
    BY <2>1, <2>2, <2>3 DEF PauseIsKept
<1>2. ASSUME NEW c \in Callers, Resume(c) PROVE PauseIsKept'
  BY <1>2 DEF Resume, NoPause, PauseIsKept
<1>3. ASSUME NEW c \in Callers,
             \/ StartRun(c) \/ LeaveLoop(c) \/ BeginCycle(c) \/ CompleteCycle(c) \/ ThinkError(c)
      PROVE  PauseIsKept'
  <2>1. /\ UNCHANGED <<reactor, pauseRequested, snapshot, paused>>
        /\ pc[c] \in InLoop \cup {"starting"} /\ pc'[c] \in InLoop \cup {"left"}
        /\ \A d \in Callers : d # c => pc'[d] = pc[d] /\ runsOn'[d] = runsOn[d]
        /\ \A d \in Callers : pc[d] # "idle" => run'[d].task = run[d].task
    BY <1>0, <1>3 DEF TypeOK, StartRun, LeaveLoop, BeginCycle, CompleteCycle, ThinkError,
                      reactorVars, historyVars, InLoop
  <2>2. PauseIsPending => PauseIsPending'
    BY <2>1 DEF PauseIsPending, InLoop
  <2>3. PauseIsSaved => PauseIsSaved'
    BY <2>1 DEF PauseIsSaved, Saved, InLoop
  <2> QED
    BY <2>1, <2>2, <2>3 DEF PauseIsKept
<1>4. ASSUME NEW c \in Callers, TakePauseRequest(c) PROVE PauseIsKept'
  <2>1. /\ UNCHANGED <<reactor, snapshot, run, runsOn, paused>>
        /\ pc[c] = "left" /\ runsOn[c] = reactor
        /\ pc'[c] = IF pauseRequested[reactor] THEN "pausing" ELSE "cleanup"
        /\ ~pauseRequested'[reactor]
        /\ \A r \in Reactors : pauseRequested'[r] => pauseRequested[r]
        /\ \A d \in Callers : d # c => pc'[d] = pc[d]
    BY <1>0, <1>a, <1>4
    DEF TypeOK, TakePauseRequest, historyVars, RunsOnTheReactor, Busy
  <2>2. PauseIsPending => PauseIsPending'
    BY <2>1 DEF PauseIsPending, OneAtATime, Busy, InLoop
  <2>3. PauseIsSaved => PauseIsSaved'
    BY <1>a, <2>1 DEF PauseIsSaved, Saved
  <2> QED
    BY <2>1, <2>2, <2>3 DEF PauseIsKept
<1>5. ASSUME NEW c \in Callers, SaveSnapshot(c) PROVE PauseIsKept'
  <2>1. /\ UNCHANGED <<reactor, pauseRequested, run, runsOn, paused>>
        /\ pc[c] = "pausing" /\ pc'[c] = "cleanup" /\ runsOn[c] = reactor
        /\ run[c] # None /\ snapshot'[reactor] = run[c]
        /\ \A r \in Reactors : r # reactor => snapshot'[r] = snapshot[r]
        /\ \A d \in Callers : d # c => pc'[d] = pc[d]
    BY <1>0, <1>a, <1>5 DEF TypeOK, SaveSnapshot, historyVars, RunsOnTheReactor, Busy
  <2>2. \A d \in Callers : pc'[d] # "pausing"
    BY <2>1 DEF OneAtATime, Busy
  <2>3. PauseIsPending => PauseIsSaved'
    BY <2>1, <2>2 DEF PauseIsPending, PauseIsSaved, Saved, OneAtATime, Busy, InLoop
  <2>4. PauseIsSaved => PauseIsSaved'
    BY <1>a, <2>1, <2>2 DEF PauseIsSaved, Saved
  <2> QED
    BY <2>1, <2>3, <2>4 DEF PauseIsKept
<1>6. ASSUME NEW c \in Callers, ReturnFromAsk(c) \/ ReturnFromResume(c) PROVE PauseIsKept'
  <2>1. /\ UNCHANGED <<reactor, pauseRequested, snapshot, runsOn, paused>>
        /\ pc[c] = "cleanup" /\ pc'[c] = "idle"
        /\ \A d \in Callers : d # c => pc'[d] = pc[d]
    BY <1>0, <1>6 DEF TypeOK, ReturnFromAsk, ReturnFromResume, reactorVars, historyVars
  <2>2. ~PauseIsPending
    BY <2>1 DEF PauseIsPending, OneAtATime, Busy, InLoop
  <2>3. PauseIsSaved => PauseIsSaved'
    BY <2>1 DEF PauseIsSaved, Saved
  <2> QED
    BY <2>1, <2>2, <2>3 DEF PauseIsKept
<1>7. CASE Pause
  <2>1. /\ UNCHANGED <<reactor, pc, run>> /\ pauseRequested'[reactor]
        /\ paused'.task = run[cancelFunc].task /\ paused'.reactor = reactor
        /\ paused'.inTime => pc[cancelFunc] \in InLoop \cup {"starting", "left"}
        /\ cancelFunc \in Callers
    BY <1>0, <1>a, <1>7 DEF TypeOK, Pause, IInv, InterruptReachesAnOpenAsk
  <2>2. paused'.inTime => PauseIsPending'
    BY <2>1 DEF PauseIsPending
  <2> QED
    BY <2>2 DEF PauseIsKept
<1>8. CASE Cancel \/ UNCHANGED vars \/ \E c \in Callers : AskTimeout(c)
  <2>1. UNCHANGED <<reactor, pauseRequested, snapshot, pc, runsOn, run, paused>>
    BY <1>8 DEF Cancel, AskTimeout, vars, reactorVars, historyVars
  <2> QED
    BY <2>1 DEF PauseIsKept, PauseIsPending, PauseIsSaved, Saved
<1>9. CASE Switch
  <2>1. UNCHANGED <<pauseRequested, snapshot, pc, runsOn, paused>> /\ reactor' # reactor
    BY <1>a, <1>9 DEF Switch, reactorVars, historyVars, Reactors
  <2>2. ~PauseIsPending
    BY <2>1 DEF AllIdle, PauseIsPending, InLoop
  <2> QED
    BY <2>1, <2>2 DEF PauseIsKept, PauseIsSaved, Saved
<1> QED
  BY <1>1, <1>2, <1>3, <1>4, <1>5, <1>6, <1>7, <1>8, <1>9 DEF Next, CallStep

LEMMA InitInTurn == MCInit => InTurn
<1> SUFFICES ASSUME MCInit PROVE InTurn
  OBVIOUS
<1>1. /\ ~isRunning /\ workedOn = [t \in Tasks |-> {}] /\ ~paused.inTime
      /\ \A c \in Callers : pc[c] = "idle"
      /\ \A r \in Reactors : ~Saved(r)
  BY DEF MCInit, Init, NoPause, Saved
<1>2. OneAtATime /\ IsRunningIsExact /\ RunsOnTheReactor
  BY <1>1 DEF OneAtATime, IsRunningIsExact, RunsOnTheReactor, Busy
<1>3. WorkStaysThere /\ OneReactorPerTask /\ PauseIsKept
  BY <1>1 DEF WorkStaysThere, OneReactorPerTask, PauseIsKept, Holds, InLoop
<1> QED
  BY <1>2, <1>3 DEF InTurn

LEMMA NextInTurn == IInv /\ InTurn /\ [MCNext]_<<vars, overlapped>> => InTurn'
<1> SUFFICES ASSUME IInv, InTurn, [MCNext]_<<vars, overlapped>>, ~overlapped' PROVE InTurn'
  BY DEF InTurn
<1>1. CASE MCNext
  <2>1. Next /\ ~overlapped /\ OneAtATime' /\ (AllIdle \/ reactor' = reactor)
    BY <1>1, StepInTurn
  <2>2. OneAtATime /\ IsRunningIsExact /\ RunsOnTheReactor /\ WorkStaysThere
        /\ OneReactorPerTask /\ PauseIsKept
    BY <2>1 DEF InTurn
  <2>3. IsRunningIsExact'
    BY <2>1, <2>2, ExactInTurn
  <2>4. RunsOnTheReactor'
    BY <2>1, <2>2, ReactorInTurn
  <2>5. WorkStaysThere' /\ OneReactorPerTask'
    BY <2>1, <2>2, WorkInTurn
  <2>6. PauseIsKept'
    BY <2>1, <2>2, PauseInTurn
  <2> QED
    BY <2>1, <2>3, <2>4, <2>5, <2>6 DEF InTurn
<1>2. CASE UNCHANGED <<vars, overlapped>>
  BY <1>2 DEF InTurn, OneAtATime, IsRunningIsExact, RunsOnTheReactor, WorkStaysThere,
              OneReactorPerTask, PauseIsKept, PauseIsPending, PauseIsSaved, Busy, Holds, Saved,
              vars, agentVars, reactorVars, historyVars
<1> QED
  BY <1>1, <1>2

\* Agent.IsRunning and Pause (agent.go), for any number of goroutines that wait
\* for each other, however calls, interrupts and switches follow each other: the
\* flag is exact, a pause in time is saved, and no reactor goes on with a task
\* of another one.
THEOREM FlagsAreExact == MCSpec => []FlagsAreExactInTurn
<1>1. MCInit => IInv /\ InTurn
  BY InitIInv, InitInTurn DEF MCInit
<1>2. [MCNext]_<<vars, overlapped>> => [Next]_vars
  BY DEF MCNext
<1>3. IInv /\ InTurn /\ [MCNext]_<<vars, overlapped>> => (IInv /\ InTurn)'
  BY <1>2, NextIInv, NextInTurn
<1>4. InTurn => FlagsAreExactInTurn
  BY DEF InTurn, FlagsAreExactInTurn, TimelyPauseIsSaved, PauseIsKept, PauseIsPending,
         PauseIsSaved, AllIdle, Saved, InLoop
<1> QED
  BY <1>1, <1>3, <1>4, PTL DEF MCSpec

=============================================================================
