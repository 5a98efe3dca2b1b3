---------------------------- MODULE Coordination ----------------------------
(***************************************************************************)
(* Coordinator mode, reactor/coordination.go: the table of sub-tasks, the  *)
(* lifecycle of CoordState, and runCoordinatorLoop, which polls the table. *)
(*                                                                         *)
(* The loop is one goroutine.  Around it are those the exported methods    *)
(* are for: sub-tasks are added, registered and reported about as the      *)
(* tests do it, an owner interrupts, resumes and cancels, by a method or   *)
(* by the control channel, and the timer of the state fires.  Each method  *)
(* of the table is one critical section.  CoordState has no lock: a method *)
(* is one step here, the most its callers can count on.                    *)
(*                                                                         *)
(* No thought of the model enters this mode (ParseThinkResponse turns      *)
(* "coordinate" into "answer"); the module is about the code as it stands. *)
(***************************************************************************)
EXTENDS Integers, Sequences, FiniteSets

CONSTANTS
  Tasks,            \* sub-task ids
  MaxRetries,       \* TaskEntry.MaxRetries
  ControlCapacity,  \* places of ControlChan
  MaxContexts,      \* bound: contexts of sub-tasks
  MaxResumes        \* bound: calls of Resume that succeed

CoordinationAssumption ==
  /\ IsFiniteSet(Tasks)
  /\ MaxRetries \in Nat /\ ControlCapacity \in Nat
  /\ MaxContexts \in Nat /\ MaxResumes \in Nat

VARIABLES
  pc,          \* where the loop is
  final,       \* LastThought.IsFinal, or LastAction is of type answer
  pending,     \* PendingCount as observeCoordinator read it, 0 outside of it
  ctxDone,     \* the context of the run is done
  status,      \* TaskProgress: the status of each task, "none" if not in it
  retries,     \* TaskEntry.RetryCount
  lifecycle,   \* LifecycleState
  life,        \* LifecycleCtx, numbered: Resume makes a new one
  lifeDone,    \* it is cancelled
  lifeOf,      \* the lifecycle context each sub-task context is a child of
  live,        \* sub-task contexts that are not done
  registered,  \* SubTaskCancels: the context of each task, 0 if it has none
  control,     \* ControlChan
  timer,       \* GlobalTimer is going to fire
  reopened     \* history variable: a task became pending while a poll was observing

loopVars == <<pc, final, pending, ctxDone>>
tableVars == <<status, retries, reopened>>
contextVars == <<life, lifeDone, lifeOf, live, registered>>
channelVars == <<control, timer>>
vars == <<loopVars, tableVars, lifecycle, contextVars, channelVars>>

-----------------------------------------------------------------------------

\* No code tells "assigned" from "dispatched", or "timed_out" from a failure
\* that is not retried.
Ended == {"succeeded", "failed", "cancelled"}  \* TaskEntry.IsTerminal
Statuses == Ended \cup {"dispatched", "running", "retry_pending"}

Table == {t \in Tasks : status[t] # "none"}
Pending == {t \in Table : status[t] \notin Ended}
AllCompleted == Pending = {}

IsTerminal(state) == state \in {"cancelled", "completed"}

\* Dispose has closed ControlChan.
closed == pc = "returned"

\* The state machine of LifecycleState.
CanTransitionTo(from, to) ==
  \/ from = "running" /\ to \in {"interrupted", "cancelled", "completed"}
  \/ from = "interrupted" /\ to \in {"running", "cancelled"}

Init ==
  /\ pc = "head"
  /\ final \in BOOLEAN
  /\ pending = 0
  /\ ctxDone = FALSE
  /\ status = [t \in Tasks |-> "none"]
  /\ retries = [t \in Tasks |-> 0]
  /\ reopened = FALSE
  /\ lifecycle = "running"
  /\ life = 1
  /\ lifeDone = FALSE
  /\ lifeOf = <<>>
  /\ live = {}
  /\ registered = [t \in Tasks |-> 0]
  /\ control = <<>>
  /\ timer \in BOOLEAN

-----------------------------------------------------------------------------
(* The lifecycle *)

Registered == {registered[t] : t \in Tasks}
ChildrenOfLife == {c \in live : lifeOf[c] = life}

\* cancelAllSubTasks: every registered task, whatever it has come to, is
\* marked as cancelled.
MarkSubTasks ==
  status' = [t \in Tasks |-> IF registered[t] # 0 /\ t \in Table THEN "cancelled" ELSE status[t]]

Interrupt ==
  /\ lifecycle = "running"
  /\ lifecycle' = "interrupted"
  /\ MarkSubTasks
  /\ live' = live \ Registered
  /\ UNCHANGED <<retries, reopened, life, lifeDone, lifeOf, registered>>

\* Mutation: the context of the lifecycle is left alone.
Cancel_SubTasksOnly ==
  /\ ~IsTerminal(lifecycle)
  /\ lifecycle' = "cancelled"
  /\ MarkSubTasks
  /\ live' = live \ Registered
  /\ UNCHANGED <<retries, reopened, life, lifeDone, lifeOf, registered>>

Cancel ==
  /\ ~IsTerminal(lifecycle)
  /\ lifecycle' = "cancelled"
  /\ MarkSubTasks
  /\ live' = live \ (Registered \cup ChildrenOfLife)
  /\ lifeDone' = TRUE
  /\ UNCHANGED <<retries, reopened, life, lifeOf, registered>>

\* An error: nothing happens but a log line.
Refused == UNCHANGED <<lifecycle, contextVars, tableVars>>

TryInterrupt == IF lifecycle = "running" THEN Interrupt ELSE Refused
TryCancel    == IF IsTerminal(lifecycle) THEN Refused ELSE Cancel

\* Nobody resumes a coordinator whose loop has returned, or adds to its table.
\* recreateInterruptedSubTaskContexts: who is neither done nor waiting for an
\* executor gets a new context and is dispatched again.
Interrupted == {t \in Table : status[t] \in {"running", "retry_pending"}}

\* Mutation: a cancelled coordinator may be resumed, too.
Resume_Cancelled ==
  /\ lifecycle \in {"interrupted", "cancelled"} /\ ~closed
  /\ life <= MaxResumes
  /\ lifecycle' = "running"
  /\ life' = life + 1
  /\ lifeDone' = FALSE
  /\ UNCHANGED <<loopVars, channelVars, tableVars, lifeOf, live, registered>>

Resume ==
  /\ lifecycle = "interrupted" /\ ~closed
  /\ life <= MaxResumes
  /\ Len(lifeOf) + Cardinality(Interrupted) <= MaxContexts
  /\ lifecycle' = "running"
  /\ life' = life + 1
  /\ lifeDone' = FALSE
  /\ lifeOf' = lifeOf \o [i \in 1..Cardinality(Interrupted) |-> life + 1]
  /\ live' = live \cup (Len(lifeOf) + 1)..Len(lifeOf')
  /\ \E new \in [Interrupted -> (Len(lifeOf) + 1)..Len(lifeOf')] :
       /\ \A s, t \in Interrupted : new[s] = new[t] => s = t
       /\ registered' = [t \in Tasks |-> IF t \in Interrupted THEN new[t] ELSE registered[t]]
  /\ status' = [t \in Tasks |-> IF t \in Interrupted THEN "dispatched" ELSE status[t]]
  /\ UNCHANGED <<loopVars, channelVars, retries, reopened>>

CallInterrupt ==
  Interrupt /\ UNCHANGED <<loopVars, channelVars>>

CallCancel ==
  Cancel /\ UNCHANGED <<loopVars, channelVars>>

-----------------------------------------------------------------------------
(* Sub-tasks: what is dispatched, and what executors report *)

Reopens == reopened' = (pc = "observe" \/ reopened)

Add(t) ==
  /\ status[t] = "none" /\ ~closed
  /\ status' = [status EXCEPT ![t] = "dispatched"]
  /\ Reopens
  /\ UNCHANGED <<loopVars, channelVars, lifecycle, contextVars, retries>>

\* Mutation: the context is not a child of the lifecycle's.
RegisterSubTask_Detached(t) ==
  /\ status[t] = "dispatched"
  /\ Len(lifeOf) < MaxContexts
  /\ lifeOf' = Append(lifeOf, life)
  /\ live' = live \cup {Len(lifeOf')}
  /\ registered' = [registered EXCEPT ![t] = Len(lifeOf')]
  /\ UNCHANGED <<loopVars, channelVars, tableVars, lifecycle, life, lifeDone>>

\* A context for a task that is about to be executed, or executed again.
RegisterSubTask(t) ==
  /\ status[t] = "dispatched"
  /\ Len(lifeOf) < MaxContexts
  /\ lifeOf' = Append(lifeOf, life)
  /\ live' = IF lifeDone THEN live ELSE live \cup {Len(lifeOf')}
  /\ registered' = [registered EXCEPT ![t] = Len(lifeOf')]
  /\ UNCHANGED <<loopVars, channelVars, tableVars, lifecycle, life, lifeDone>>

\* A task that has ended is unregistered.
UnregisterSubTask(t) ==
  /\ registered[t] # 0 /\ status[t] \in Ended
  /\ registered' = [registered EXCEPT ![t] = 0]
  /\ UNCHANGED <<loopVars, channelVars, tableVars, lifecycle, life, lifeDone, lifeOf, live>>

\* UpdateStatus by an executor; it does not report about a task that has ended.
Report(t) ==
  /\ \/ status[t] = "dispatched" /\ status' = [status EXCEPT ![t] = "running"]
     \/ status[t] = "running" /\ \E s \in {"succeeded", "failed"} : status' = [status EXCEPT ![t] = s]
     \/ status[t] = "retry_pending" /\ status' = [status EXCEPT ![t] = "dispatched"]
  /\ UNCHANGED <<loopVars, channelVars, lifecycle, contextVars, retries, reopened>>

\* CanRetry, and UpdateStatus with WithIncrementRetry.
Retry(t) ==
  /\ status[t] = "failed"
  /\ retries[t] < MaxRetries
  /\ status' = [status EXCEPT ![t] = "retry_pending"]
  /\ retries' = [retries EXCEPT ![t] = retries[t] + 1]
  /\ Reopens
  /\ UNCHANGED <<loopVars, channelVars, lifecycle, contextVars>>

-----------------------------------------------------------------------------
(* The control channel, the timer and the context of the run *)

SendControl(command) ==
  /\ ~closed
  /\ Len(control) < ControlCapacity
  /\ control' = Append(control, command)
  /\ UNCHANGED <<loopVars, tableVars, lifecycle, contextVars, timer>>

\* The select's default catches a full channel; a closed one is no such case,
\* and the program ends.
TimerFires ==
  /\ timer
  /\ timer' = FALSE
  /\ control' = IF ~closed /\ Len(control) < ControlCapacity
                THEN Append(control, "cancel") ELSE control
  /\ pc' = IF closed THEN "crashed" ELSE pc
  /\ UNCHANGED <<final, pending, ctxDone, tableVars, lifecycle, contextVars>>

EndContext ==
  /\ pc # "returned" /\ ~ctxDone
  /\ ctxDone' = TRUE
  /\ UNCHANGED <<pc, final, pending, tableVars, lifecycle, contextVars, channelVars>>

-----------------------------------------------------------------------------
(* runCoordinatorLoop *)

Goto(place) == pc' = place

\* What the head of the loop asks.  The budget of iterations is left out: it is
\* not spent at the first head, and at the next one the loop ends anyway.
Stops == ctxDone \/ final \/ IsTerminal(lifecycle)
Continues == pc = "head" /\ ~Stops

Leave ==
  /\ pc = "head" /\ Stops
  /\ Goto("cleanup")
  /\ UNCHANGED <<final, pending, ctxDone, tableVars, lifecycle, contextVars, channelVars>>

\* The ten minutes are over.
LeaveLate ==
  /\ Continues
  /\ Cancel
  /\ Goto("cleanup")
  /\ UNCHANGED <<final, pending, ctxDone, channelVars>>

\* Act makes an answer of any decision it does not know, "coordinate" included.
\* observeCoordinator then reads the counts, one lock each.
ActAndCount ==
  /\ Continues
  /\ final' = TRUE
  /\ pending' = Cardinality(Pending)
  /\ Goto("observe")
  /\ UNCHANGED <<ctxDone, tableVars, lifecycle, contextVars, channelVars>>

\* Mutation: a poll is over as soon as one task has ended.
ObserveAll_Any ==
  /\ pc = "observe"
  /\ AllCompleted \/ pending < Cardinality(Table)
  /\ lifecycle' = IF IsTerminal(lifecycle) THEN lifecycle ELSE "completed"
  /\ pending' = 0
  /\ reopened' = FALSE
  /\ Goto("cleanup")
  /\ UNCHANGED <<final, ctxDone, status, retries, contextVars, channelVars>>

\* Every task has ended, or none was pending when they were counted: the
\* summary is the final answer, and MarkCompleted.
ObserveAll ==
  /\ pc = "observe"
  /\ AllCompleted \/ pending = 0
  /\ lifecycle' = IF IsTerminal(lifecycle) THEN lifecycle ELSE "completed"
  /\ pending' = 0
  /\ reopened' = FALSE
  /\ Goto("cleanup")
  /\ UNCHANGED <<final, ctxDone, status, retries, contextVars, channelVars>>

\* Otherwise the loop waits, unless the lifecycle has ended meanwhile.
ObservePending ==
  /\ pc = "observe"
  /\ ~AllCompleted /\ pending > 0
  /\ pending' = 0
  /\ reopened' = FALSE
  /\ Goto(IF IsTerminal(lifecycle) THEN "cleanup" ELSE "wait")
  /\ UNCHANGED <<final, ctxDone, status, retries, lifecycle, contextVars, channelVars>>

\* Mutation: the wait has no tick.
Tick_Never ==
  /\ pc = "wait"
  /\ Pending = {}
  /\ Goto("head")
  /\ UNCHANGED <<final, pending, ctxDone, tableVars, lifecycle, contextVars, channelVars>>

Tick ==
  /\ pc = "wait"
  /\ Goto("head")
  /\ UNCHANGED <<final, pending, ctxDone, tableVars, lifecycle, contextVars, channelVars>>

SeeContextDone ==
  /\ pc = "wait" /\ ctxDone
  /\ TryCancel
  /\ Goto("head")
  /\ UNCHANGED <<final, pending, ctxDone, channelVars>>

\* A command to resume is none the loop knows.
HandleControl ==
  /\ pc = "wait" /\ control # <<>>
  /\ control' = Tail(control)
  /\ CASE Head(control) = "interrupt" -> TryInterrupt
       [] Head(control) = "cancel"    -> TryCancel
       [] OTHER                       -> Refused
  /\ Goto("head")
  /\ UNCHANGED <<final, pending, ctxDone, timer>>

\* Mutation: registered sub-tasks are left to their own contexts.
Dispose_LifecycleOnly ==
  /\ pc = "cleanup"
  /\ live' = live \ ChildrenOfLife
  /\ lifeDone' = TRUE
  /\ timer' \in {timer, FALSE}
  /\ control' = <<>>
  /\ Goto("returned")
  /\ UNCHANGED <<final, pending, ctxDone, tableVars, lifecycle,
                 life, lifeOf, registered>>

\* The loop is over: Dispose.  Stop cannot stop a timer that fires,
\* and nobody receives from the closed channel.
Dispose ==
  /\ pc = "cleanup"
  /\ live' = live \ (ChildrenOfLife \cup Registered)
  /\ lifeDone' = TRUE
  /\ timer' \in {timer, FALSE}
  /\ control' = <<>>
  /\ Goto("returned")
  /\ UNCHANGED <<final, pending, ctxDone, tableVars, lifecycle,
                 life, lifeOf, registered>>

LoopStep == \/ Leave \/ LeaveLate \/ ActAndCount \/ ObserveAll \/ ObservePending
            \/ Tick \/ SeeContextDone \/ HandleControl \/ Dispose

Next ==
  /\ pc # "crashed"
  /\ \/ LoopStep
     \/ \E t \in Tasks : \/ Add(t) \/ RegisterSubTask(t) \/ UnregisterSubTask(t)
                         \/ Report(t) \/ Retry(t)
     \/ CallInterrupt \/ CallCancel \/ Resume
     \/ \E command \in {"interrupt", "cancel", "resume"} : SendControl(command)
     \/ TimerFires \/ EndContext

\* The loop runs on; its wait has a timer.
Spec == Init /\ [][Next]_vars /\ WF_vars(LoopStep)

-----------------------------------------------------------------------------

TypeOK ==
  /\ pc \in {"head", "observe", "wait", "cleanup", "returned", "crashed"}
  /\ final \in BOOLEAN /\ ctxDone \in BOOLEAN
  /\ pending \in Nat
  /\ status \in [Tasks -> Statuses \cup {"none"}]
  /\ retries \in [Tasks -> 0..MaxRetries]
  /\ reopened \in BOOLEAN
  /\ lifecycle \in {"running", "interrupted", "cancelled", "completed"}
  /\ life \in Nat \ {0}
  /\ lifeDone \in BOOLEAN
  /\ lifeOf \in Seq(Nat)
  /\ live \subseteq 1..Len(lifeOf)
  /\ registered \in [Tasks -> 0..Len(lifeOf)]
  /\ control \in Seq({"interrupt", "cancel", "resume"}) /\ Len(control) <= ControlCapacity
  /\ timer \in BOOLEAN

\* A coordinator that was cancelled, or whose loop has returned, has stopped
\* its sub-tasks: whatever context it has handed out in this life, or is still
\* registered, is done, a task that is registered only afterwards included.
EndedStopsItsTasks ==
  lifecycle = "cancelled" \/ lifeDone => live \cap (ChildrenOfLife \cup Registered) = {}

\* A coordinator that has ended is never taken up again, and otherwise moves as
\* CanTransitionTo allows, with one exception: MarkCompleted does not ask, so
\* a poll completes an interrupted coordinator whose tasks it finds cancelled.
\* It is completed only when every task has ended, unless one was added or
\* retried while the poll was reading the counts.
LifecycleMove ==
  lifecycle' # lifecycle =>
    /\ \/ CanTransitionTo(lifecycle, lifecycle')
       \/ lifecycle = "interrupted" /\ lifecycle' = "completed" /\ pc = "observe"
    /\ lifecycle' = "completed" /\ ~reopened => AllCompleted

\* The loop returns, whatever becomes of its tasks: no task, no command and no
\* context has to end for it.
LoopReturns == pc = "head" ~> pc = "returned"

=============================================================================
