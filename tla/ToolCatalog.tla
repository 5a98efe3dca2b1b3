---------------------------- MODULE ToolCatalog ----------------------------
(***************************************************************************)
(* The tools a model is offered: DefaultToolRegistry of                    *)
(* reactor/tool_registry.go, and RegisterTool and getLLMTools of           *)
(* reactor.go, which keep a converted list of it for each reactor.         *)
(*                                                                         *)
(* A reactor and its clones share the registry; each has its own list.     *)
(* RegisterTool empties the list and then registers, each under its own    *)
(* lock; getLLMTools looks at the list under a read lock and, if there is  *)
(* none, again under the write lock, where it makes one.                   *)
(***************************************************************************)
EXTENDS Naturals, FiniteSets

CONSTANTS
  Names,     \* Info().Name of tools
  Makes,     \* what tells tools of one name apart
  Reactors,  \* a reactor and its clones
  Threads,   \* goroutines that register tools or ask for the list
  Serial,    \* TRUE: nobody asks for a list while a tool is registered
  None

\* What can be registered.
Tools == [name : Names, make : Makes]

ASSUME CatalogAssumption ==
  Serial \in BOOLEAN /\ None \notin Tools /\ \A list \in SUBSET Tools : list # None

VARIABLES
  registry,  \* DefaultToolRegistry.tools
  cached,    \* cachedLLMTools of each reactor; None is nil
  thread,    \* what each goroutine is at
  returned   \* history variable: tools whose registration through a reactor has
             \*   returned without an error

vars == <<registry, cached, thread, returned>>

\* A call: where it is, of which reactor, the tool it registers, the list it
\* returned and what had been registered when it began.
Call(at, r, tool) == [at |-> at, reactor |-> r, tool |-> tool, list |-> None, before |-> {}]
Idle == Call("idle", None, None)

Init ==
  /\ registry = {}
  /\ cached = [r \in Reactors |-> None]
  /\ thread = [t \in Threads |-> Idle]
  /\ returned = [r \in Reactors |-> {}]

-----------------------------------------------------------------------------

Registering == \E t \in Threads : thread[t].at \in {"invalidate", "register"}
Listing     == \E t \in Threads : thread[t].at \in {"look", "build"}

\* Tools that have the name of this one.
Namesakes(tool) == {x \in registry : x.name = tool.name}

CallRegister(t, r, tool) ==
  /\ thread[t].at = "idle"
  /\ Serial => ~ Listing
  /\ thread' = [thread EXCEPT ![t] = Call("invalidate", r, tool)]
  /\ UNCHANGED <<registry, cached, returned>>

\* Mutation: the list stays.
Invalidate_Keeps(t) ==
  /\ thread[t].at = "invalidate"
  /\ thread' = [thread EXCEPT ![t].at = "register"]
  /\ UNCHANGED <<registry, cached, returned>>

\* Mutation: the argument is lost before the registry sees it.
Invalidate_Forgets(t) ==
  /\ thread[t].at = "invalidate"
  /\ cached' = [cached EXCEPT ![thread[t].reactor] = None]
  /\ thread' = [thread EXCEPT ![t] = Call("register", thread[t].reactor, None)]
  /\ UNCHANGED <<registry, returned>>

\* RegisterTool, under cacheMu.
Invalidate(t) ==
  /\ thread[t].at = "invalidate"
  /\ cached' = [cached EXCEPT ![thread[t].reactor] = None]
  /\ thread' = [thread EXCEPT ![t].at = "register"]
  /\ UNCHANGED <<registry, returned>>

\* Mutation: a name may be registered again.
Register_Again(t) ==
  LET tool == thread[t].tool IN
    /\ thread[t].at = "register"
    /\ registry' = registry \cup {tool}
    /\ returned' = [returned EXCEPT ![thread[t].reactor] = @ \cup {tool}]
    /\ thread' = [thread EXCEPT ![t] = Idle]
    /\ UNCHANGED cached

\* Register, under the registry's lock: a name that is taken is an error.
Register(t) ==
  LET tool == thread[t].tool IN
    /\ thread[t].at = "register"
    /\ IF Namesakes(tool) = {}
       THEN /\ registry' = registry \cup {tool}
            /\ returned' = [returned EXCEPT ![thread[t].reactor] = @ \cup {tool}]
       ELSE UNCHANGED <<registry, returned>>
    /\ thread' = [thread EXCEPT ![t] = Idle]
    /\ UNCHANGED cached

CallList(t, r) ==
  /\ thread[t].at = "idle"
  /\ Serial => ~ Registering
  /\ thread' = [thread EXCEPT ![t] = [Call("look", r, None) EXCEPT !.before = returned[r]]]
  /\ UNCHANGED <<registry, cached, returned>>

Return(t, list) ==
  thread' = [thread EXCEPT ![t] = [@ EXCEPT !.at = "listed", !.list = list]]

\* getLLMTools, under the read lock.
Look(t) ==
  LET list == cached[thread[t].reactor] IN
    /\ thread[t].at = "look"
    /\ IF list # None THEN Return(t, list)
                      ELSE thread' = [thread EXCEPT ![t].at = "build"]
    /\ UNCHANGED <<registry, cached, returned>>

\* getLLMTools, under the write lock.  Of an empty registry the list is nil.
Build(t) ==
  LET r == thread[t].reactor
      list == IF registry = {} THEN None ELSE registry
  IN /\ thread[t].at = "build"
     /\ IF cached[r] # None
        THEN Return(t, cached[r]) /\ UNCHANGED cached
        ELSE Return(t, list) /\ cached' = [cached EXCEPT ![r] = list]
     /\ UNCHANGED <<registry, returned>>

\* What the model does with the list is not modelled.
Forget(t) ==
  /\ thread[t].at = "listed"
  /\ thread' = [thread EXCEPT ![t] = Idle]
  /\ UNCHANGED <<registry, cached, returned>>

Next ==
  \E t \in Threads :
    \/ Invalidate(t) \/ Register(t) \/ Look(t) \/ Build(t) \/ Forget(t)
    \/ \E r \in Reactors : CallList(t, r) \/ \E tool \in Tools : CallRegister(t, r, tool)

Spec == Init /\ [][Next]_vars

-----------------------------------------------------------------------------

TypeOK ==
  /\ registry \subseteq Tools
  /\ returned \in [Reactors -> SUBSET Tools]
  /\ cached \in [Reactors -> (SUBSET Tools) \cup {None}]
  /\ thread \in [Threads -> [at : {"idle", "invalidate", "register", "look", "build", "listed"},
                             reactor : Reactors \cup {None}, tool : Tools \cup {None},
                             list : (SUBSET Tools) \cup {None}, before : SUBSET Tools]]
  /\ \A t \in Threads :
       /\ thread[t].at \in {"invalidate", "register"} => thread[t].tool \in Tools
       /\ thread[t].at \in {"invalidate", "register", "look", "build"} => thread[t].reactor \in Reactors

OfferedList(t) == IF thread[t].list = None THEN {} ELSE thread[t].list

\* Whatever the model is offered is there when it calls it, by its name, and is
\* the tool that was described: lists are old at worst, never wrong.
OfferedCanBeCalled ==
  \A t \in Threads : thread[t].at = "listed" =>
    \A tool \in OfferedList(t) : Namesakes(tool) = {tool}

\* The comment on the list: invalidated when RegisterTool is called.  A tool
\* whose registration through a reactor had returned before that reactor was
\* asked for its list is in it.  One registered through a clone may not be.
RegisteredAreOffered ==
  \A t \in Threads : thread[t].at = "listed" => thread[t].before \subseteq OfferedList(t)
=============================================================================
