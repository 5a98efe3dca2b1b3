---------------------------- MODULE RunContract ----------------------------
(***************************************************************************)
(* What a run of the reactor promises its caller, without saying how.      *)
(*                                                                         *)
(* A task is worked on in cycles.  It never gets more than MaxIterations   *)
(* of them, whether it is worked on in one run or is paused and resumed    *)
(* any number of times; after the caller has asked the run to stop, at     *)
(* most one more cycle is completed; and every run returns.                *)
(***************************************************************************)
EXTENDS Integers

CONSTANTS
  MaxIterations,  \* the cycle budget of a task, a number
  NoTask          \* no paused task is saved; not a number

VARIABLES
  phase,     \* "idle" or "running"
  cycles,    \* cycles the current task has completed, over all of its runs
  stopping,  \* the caller has asked this run to stop
  lastCycle, \* the one cycle allowed after that is used up
  saved      \* the cycles of the paused task, or NoTask

contractVars == <<phase, cycles, stopping, lastCycle, saved>>

ContractInit ==
  /\ phase = "idle"
  /\ cycles = 0
  /\ stopping = FALSE
  /\ lastCycle = FALSE
  /\ saved = NoTask

BeginTask ==
  /\ phase = "idle"
  /\ phase' = "running"
  /\ cycles' = 0
  /\ stopping' = FALSE
  /\ lastCycle' = FALSE
  /\ UNCHANGED saved

ContinueTask ==
  /\ phase = "idle"
  /\ saved # NoTask
  /\ phase' = "running"
  /\ cycles' = saved
  /\ stopping' = FALSE
  /\ lastCycle' = FALSE
  /\ saved' = NoTask

AskToStop ==
  /\ phase = "running"
  /\ stopping' = TRUE
  /\ UNCHANGED <<phase, cycles, lastCycle, saved>>

CompleteCycle ==
  /\ phase = "running"
  /\ cycles < MaxIterations
  /\ ~lastCycle
  /\ cycles' = cycles + 1
  /\ lastCycle' = stopping
  /\ UNCHANGED <<phase, stopping, saved>>

Return ==
  /\ phase = "running"
  /\ phase' = "idle"
  /\ saved' \in {saved, cycles}
  /\ UNCHANGED <<cycles, stopping, lastCycle>>

ContractNext == BeginTask \/ ContinueTask \/ AskToStop \/ CompleteCycle \/ Return

ContractSafety == ContractInit /\ [][ContractNext]_contractVars

\* Only the return is promised: nobody is obliged to start or stop a run.
Contract == ContractSafety /\ WF_contractVars(Return)

=============================================================================
