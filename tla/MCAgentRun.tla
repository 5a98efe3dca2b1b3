----------------------------- MODULE MCAgentRun -----------------------------
(***************************************************************************)
(* AgentRun for model checking.  Some of what the agent's comments say     *)
(* holds for callers that wait for each other and not for callers that     *)
(* overlap; a history variable tells the two apart.                        *)
(***************************************************************************)
EXTENDS AgentRun

VARIABLE overlapped  \* history variable: two calls were in progress at a time,
                     \*   or the reactor was switched during one

MCInit == Init /\ overlapped = FALSE

MCNext ==
  /\ Next
  /\ overlapped' = \/ overlapped
                    \/ (\E c, d \in Callers : c # d /\ pc'[c] # "idle" /\ pc'[d] # "idle")
                    \/ (reactor' # reactor /\ ~AllIdle)

MCSpec ==
  /\ MCInit /\ [][MCNext]_<<vars, overlapped>>
  /\ \A c \in Callers : WF_vars(CallStep(c))

-----------------------------------------------------------------------------

\* For callers in turn, whoever cancels or pauses meanwhile, IsRunning is true
\* exactly while a call is in progress, no Pause that comes in time is lost,
\* and no role goes on with a task of another one, however calls and switches
\* follow each other.
FlagsAreExactInTurn ==
  ~overlapped => IsRunningIsExact /\ TimelyPauseIsSaved /\ OneReactorPerTask
=============================================================================
