----------------------------- MODULE Delegation -----------------------------
(***************************************************************************)
(* Background sub-agents: the asynchronous half of executeToolCalls, the   *)
(* tools Delegate and CollectResults, and the result store between them.   *)
(*                                                                         *)
(* A run starts `go Execute` for the Delegate call of a batch, throws its  *)
(* result away and tells the model an id of its own making.  Execute       *)
(* numbers the task, starts a goroutine for the sub-agent and returns; the *)
(* goroutine stores the result under that number.  CollectResults waits    *)
(* for the ids it is passed, one after the other; the model may pass any   *)
(* id, one it has been told or one it makes up.                            *)
(*                                                                         *)
(* Runs share the store and the counter when the agent is used from more   *)
(* than one goroutine.  Cancelling a run is left out: neither CollectResults *)
(* nor the sub-agent looks at the context.                                 *)
(***************************************************************************)
EXTENDS ResultStore, Naturals, SequencesExt

\* The store's tasks are the IDs below, its waiters the goroutines that are in
\* a think-act-observe loop.
CONSTANTS
  MaxBatch,        \* bound: asynchronous tools called in one batch
  MaxDelegations,  \* bound: Delegate calls in one behaviour
  MaxCollect       \* bound: ids in one CollectResults call

\* "async-Delegate-<n>" and "task-<agent>-<n>": two name spaces.
ToldIDs == {"async"} \X (1..MaxBatch)
TaskIDs == {"task"} \X (1..MaxDelegations)
IDs     == ToldIDs \cup TaskIDs
Runs    == Waiters

ASSUME DelegationAssumption ==
  /\ Tasks = IDs
  /\ MaxBatch \in Nat /\ MaxDelegations \in Nat /\ MaxCollect \in Nat

VARIABLES
  pc,         \* "act" or "collect": what each run is doing
  told,       \* the ids each run's model has been told, oldest first
  toCollect,  \* the ids the CollectResults call of each run has left
  executing,  \* goroutines on their way into Delegate.Execute
  delegated,  \* Delegate calls so far
  counter,    \* DelegateTool.counter
  subAgents,  \* tasks whose sub-agent is at work
  completed   \* tasks for which SubtaskCompleted has been emitted

vars == <<pc, told, toCollect, executing, delegated, counter, subAgents, completed, storeVars>>

Init ==
  /\ pc = [r \in Runs |-> "act"]
  /\ told = [r \in Runs |-> <<>>]
  /\ toCollect = [r \in Runs |-> <<>>]
  /\ executing = 0
  /\ delegated = 0
  /\ counter = 0
  /\ subAgents = {}
  /\ completed = {}
  /\ StoreInit

\* Delegate in a batch of asynchronous tools.  taskIDcounter starts at 0 for
\* every batch and its increments race, so the number is any of the batch's.
LaunchAsync(r) ==
  /\ pc[r] = "act"
  /\ delegated < MaxDelegations
  /\ \E n \in 1..MaxBatch : told' = [told EXCEPT ![r] = Append(told[r], <<"async", n>>)]
  /\ delegated' = delegated + 1
  /\ executing' = executing + 1
  /\ UNCHANGED <<pc, toCollect, counter, subAgents, completed, storeVars>>

\* Delegate.Execute refuses its arguments: nobody reads the error.
DelegateRefuses ==
  /\ executing > 0
  /\ executing' = executing - 1
  /\ UNCHANGED <<pc, told, toCollect, delegated, counter, subAgents, completed, storeVars>>

\* Mutation: Execute is repeated although it had succeeded.
DelegateExecute_Repeated ==
  /\ executing > 0
  /\ counter' = counter + 1
  /\ subAgents' = subAgents \cup {<<"task", counter'>>}
  /\ UNCHANGED <<pc, told, toCollect, executing, delegated, completed, storeVars>>

DelegateExecute ==
  /\ executing > 0
  /\ executing' = executing - 1
  /\ counter' = counter + 1
  /\ subAgents' = subAgents \cup {<<"task", counter'>>}
  /\ UNCHANGED <<pc, told, toCollect, delegated, completed, storeVars>>

\* Mutation: only a success is stored.
StoreResult_OnlySuccess(t) ==
  /\ t \in subAgents
  /\ Store(t) \/ UNCHANGED storeVars
  /\ subAgents' = subAgents \ {t}
  /\ UNCHANGED <<pc, told, toCollect, executing, delegated, counter, completed>>

\* The sub-agent returns and its goroutine enters Store.
StoreResult(t) ==
  /\ t \in subAgents
  /\ Store(t)
  /\ subAgents' = subAgents \ {t}
  /\ UNCHANGED <<pc, told, toCollect, executing, delegated, counter, completed>>

NotifyWaiter(t) ==
  /\ Notify(t)
  /\ UNCHANGED <<pc, told, toCollect, executing, delegated, counter, subAgents, completed>>

\* Mutation: the event is emitted before the result is stored.
EmitCompleted_BeforeStore(t) ==
  /\ t \in subAgents
  /\ completed' = completed \cup {t}
  /\ UNCHANGED <<pc, told, toCollect, executing, delegated, counter, subAgents, storeVars>>

EmitCompleted(t) ==
  /\ results[t] # None /\ notifying[t] = <<>>
  /\ t \notin completed
  /\ completed' = completed \cup {t}
  /\ UNCHANGED <<pc, told, toCollect, executing, delegated, counter, subAgents, storeVars>>

CallCollectResults(r) ==
  /\ pc[r] = "act"
  /\ \E ids \in BoundedSeq(IDs, MaxCollect) : toCollect' = [toCollect EXCEPT ![r] = ids]
  /\ pc' = [pc EXCEPT ![r] = "collect"]
  /\ UNCHANGED <<told, executing, delegated, counter, subAgents, completed, storeVars>>

CollectNext(r) ==
  /\ pc[r] = "collect"
  /\ toCollect[r] # <<>>
  /\ WaitStored(r, Head(toCollect[r])) \/ WaitRegister(r, Head(toCollect[r]))
  /\ toCollect' = [toCollect EXCEPT ![r] = Tail(toCollect[r])]
  /\ UNCHANGED <<pc, told, executing, delegated, counter, subAgents, completed>>

Collected(r) ==
  /\ WaitReturn(r)
  /\ UNCHANGED <<pc, told, toCollect, executing, delegated, counter, subAgents, completed>>

ReturnFromCollect(r) ==
  /\ pc[r] = "collect"
  /\ toCollect[r] = <<>>
  /\ waiting[r] = None
  /\ pc' = [pc EXCEPT ![r] = "act"]
  /\ UNCHANGED <<told, toCollect, executing, delegated, counter, subAgents, completed, storeVars>>

Next ==
  \/ DelegateRefuses
  \/ DelegateExecute
  \/ \E t \in IDs : StoreResult(t) \/ NotifyWaiter(t) \/ EmitCompleted(t)
  \/ \E r \in Runs : \/ LaunchAsync(r) \/ CallCollectResults(r) \/ CollectNext(r)
                     \/ Collected(r) \/ ReturnFromCollect(r)

\* Goroutines run on and sub-agents return; the model calls what it likes.
Spec ==
  /\ Init
  /\ [][Next]_vars
  /\ WF_vars(DelegateRefuses \/ DelegateExecute)
  /\ \A t \in IDs : WF_vars(StoreResult(t) \/ NotifyWaiter(t) \/ EmitCompleted(t))
  /\ \A r \in Runs : WF_vars(CollectNext(r) \/ Collected(r) \/ ReturnFromCollect(r))

-----------------------------------------------------------------------------

TypeOK ==
  /\ StoreTypeOK
  /\ pc \in [Runs -> {"act", "collect"}]
  /\ told \in [Runs -> BoundedSeq(ToldIDs, MaxDelegations)]
  /\ toCollect \in [Runs -> BoundedSeq(IDs, MaxCollect)]
  /\ delegated \in 0..MaxDelegations
  /\ executing + counter \in 0..delegated
  /\ subAgents \subseteq TaskIDs
  /\ completed \subseteq TaskIDs

\* A client that reacts to SubtaskCompleted finds the result in the store, and
\* a run that was blocked on it has it: the event is the last thing to happen.
CompletedMeansStored ==
  \A t \in completed :
    /\ results[t] # None
    /\ \A r \in Runs : waiting[r] = t => channel[r] = results[t]

\* Sub-agents at work, or done.
Started == subAgents \cup {t \in TaskIDs : results[t] # None}

\* Collecting tasks that have been started returns, whichever of them end in
\* an error, in whatever order they end, and whoever else collects them.
CollectOfStartedReturns ==
  \A r \in Runs :
    (pc[r] = "collect" /\ Range(toCollect[r]) \cup {waiting[r]} \subseteq Started \cup {None})
      ~> pc[r] = "act"

\* CollectResults's prompt: pass the ids Delegate returned; it blocks until
\* every task is complete and then returns.
CollectOfToldReturns ==
  \A r \in Runs :
    (pc[r] = "collect" /\ Range(toCollect[r]) \cup {waiting[r]} \subseteq Range(told[r]) \cup {None})
      ~> pc[r] = "act"

=============================================================================
