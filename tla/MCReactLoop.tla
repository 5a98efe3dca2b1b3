---------------------------- MODULE MCReactLoop ----------------------------
(***************************************************************************)
(* The two loops of a reactor for model checking.  They share nothing but  *)
(* code, so a behaviour is of one of them, in one of the instances below.  *)
(*                                                                         *)
(* ReactLoop has two of one state space: two short runs, of which the      *)
(* second is a task of its own or the paused one resumed ("short"), or one *)
(* run with room for every stop condition, the longest of which looks at   *)
(* four steps ("long").  Its properties have the budget of the long run: a *)
(* task that is resumed with a new budget exceeds it in two short runs,    *)
(* too.  Coordination has one ("coordinator").                             *)
(***************************************************************************)
EXTENDS ReactLoop

CONSTANTS
  Scopes,                        \* those that are checked
  ShortIterations, ShortErrors,
  Tasks, MaxRetries, ControlCapacity, MaxContexts, MaxResumes  \* of Coordination

VARIABLES scope,
  loop, final, pending, ctxDone, status, retries, reopened, lifecycle,
  life, lifeDone, lifeOf, live, registered, control, timer

Short == INSTANCE ReactLoop WITH MaxIterations <- ShortIterations, ToolErrors <- ShortErrors
Long  == INSTANCE ReactLoop WITH MaxRuns <- 1

Coord == INSTANCE Coordination WITH pc <- loop

coordinatorVars == <<loop, final, pending, ctxDone, status, retries, reopened, lifecycle,
                     life, lifeDone, lifeOf, live, registered, control, timer>>
allVars == <<scope, vars, coordinatorVars>>

ASSUME MCAssumption ==
  /\ Scopes \subseteq {"short", "long", "coordinator"}
  /\ Coord!CoordinationAssumption

MCInit ==
  /\ scope \in Scopes
  /\ Init
  /\ Coord!Init /\ (scope # "coordinator" => ~final /\ ~timer)

MCNext ==
  /\ UNCHANGED scope
  /\ \/ /\ \/ scope = "short" /\ Short!Next
           \/ scope = "long"  /\ Long!Next
        /\ UNCHANGED coordinatorVars
     \/ scope = "coordinator" /\ Coord!Next /\ UNCHANGED vars

\* The goroutine of a run keeps running, and so does the coordinator's loop, whose
\* wait has a timer.
MCSpec ==
  /\ MCInit /\ [][MCNext]_allVars
  /\ WF_vars(scope = "short" /\ Short!LoopStep)
  /\ WF_vars(scope = "long" /\ Long!LoopStep)
  /\ WF_coordinatorVars(scope = "coordinator" /\ Coord!LoopStep)

-----------------------------------------------------------------------------

\* A coordinator that was cancelled, or whose loop has returned, has stopped its
\* sub-tasks.
EndedStopsItsTasks == scope = "coordinator" => Coord!EndedStopsItsTasks

\* A coordinator that has ended is never taken up again, moves as its state
\* machine allows, with one exception, and is completed when its tasks have ended.
LifecycleMoves == [][scope = "coordinator" => Coord!LifecycleMove]_coordinatorVars

\* The coordinator's loop returns, whatever becomes of its tasks.
LoopReturns == scope = "coordinator" => Coord!LoopReturns

=============================================================================
