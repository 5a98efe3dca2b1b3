------------------------------- MODULE MCTools -------------------------------
(***************************************************************************)
(* What a model can call and what becomes of it: the catalog of tools      *)
(* (ToolCatalog), the budget and the files of their output (ToolOutput),   *)
(* the list of tasks (TodoList) and the tools for files (FileTools,        *)
(* PagedRead).  They share nothing, so a behaviour is of one of them, in   *)
(* one of the instances below.                                             *)
(***************************************************************************)
EXTENDS ToolCatalog, Integers, Sequences

CONSTANT r1

CONSTANTS
  MaxPersistChars, MaxResultSize, MaxCycleChars, OffloadThreshold,  \* of ToolOutput
  SyncSizes, AsyncSizes, MaxCycles, MaxCalls,
  DependentTasks, SeveralTasks, PlannedTasks,  \* the constants of each TodoList
  SomeThreads,                    \* those of "in turn"
  First, Texts, Edits, MaxTime,   \* of FileTools
  MaxLines, MaxLimit              \* of PagedRead

VARIABLES scope,
  charsUsed, running, pc, cycle, results, history,
  todoStore, todoCounter,
  file, modified, editing, doing, held, looked, expected, disturbed,
  totalLines, limit, offset, shown, noted

outputVars    == <<charsUsed, running, pc, cycle, results, history>>
todoVars      == <<todoStore, todoCounter>>
fileVars      == <<file, modified, editing, doing, held, looked, expected, disturbed>>
pageVars      == <<totalLines, limit, offset, shown, noted>>
otherVars     == <<vars, outputVars, todoVars>>
allVars == <<scope, otherVars, fileVars, pageVars>>

\* Nobody asks for a list of tools while one is registered.
InTurn == INSTANCE ToolCatalog WITH Threads <- SomeThreads, Serial <- TRUE

\* Output below, at and above each limit; a disk that may fail, or asynchronous
\* tools, which end in a later cycle.
Sync == INSTANCE ToolOutput WITH
  Runs <- {r1}, Sizes <- SyncSizes, AsyncTools <- FALSE, DiskFails <- TRUE

Async == INSTANCE ToolOutput WITH
  Runs <- {r1}, Sizes <- AsyncSizes, AsyncTools <- TRUE, DiskFails <- FALSE

\* Items that depend on each other, written one by one; items of which some
\* have the same identifier, written two at a time; items of two priorities, which
\* are enough for loops that compare fixed positions.
TwoIDs    == [ids |-> {1, 2}, priorities |-> {0},    given |-> 1, items |-> 2, counter |-> 1]
TwoGiven  == [ids |-> {1},    priorities |-> {0},    given |-> 2, items |-> 3, counter |-> 2]
TwoLevels == [ids |-> {1},    priorities |-> {0, 1}, given |-> 1, items |-> 3, counter |-> 3]

Dependent == INSTANCE TodoList WITH
  IDs <- DependentTasks.ids, Priorities <- DependentTasks.priorities,
  MaxGiven <- DependentTasks.given, MaxItems <- DependentTasks.items,
  MaxCounter <- DependentTasks.counter

Several == INSTANCE TodoList WITH
  IDs <- SeveralTasks.ids, Priorities <- SeveralTasks.priorities,
  MaxGiven <- SeveralTasks.given, MaxItems <- SeveralTasks.items,
  MaxCounter <- SeveralTasks.counter

Planned == INSTANCE TodoList WITH
  IDs <- PlannedTasks.ids, Priorities <- PlannedTasks.priorities,
  MaxGiven <- PlannedTasks.given, MaxItems <- PlannedTasks.items,
  MaxCounter <- PlannedTasks.counter

\* A word that occurs twice, replaced once or everywhere, and a shorter text.
FirstText == <<"a", "b", "a">>
SomeTexts == {<<"b">>}
SomeEdits == {[old |-> "a", new |-> "b", limit |-> 1], [old |-> "b", new |-> "a", limit |-> -1]}

Edited == INSTANCE FileTools WITH Callers <- Threads, at <- editing

Paged == INSTANCE PagedRead

ASSUME MCAssumption ==
  /\ InTurn!CatalogAssumption
  /\ Sync!ToolOutputAssumption /\ Async!ToolOutputAssumption
  /\ Dependent!TodoAssumption /\ Several!TodoAssumption /\ Planned!TodoAssumption
  /\ Edited!FilesAssumption /\ Paged!PagesAssumption

MCInit ==
  /\ scope \in {"catalog", "in turn", "sync", "async", "dependent", "several", "planned",
                "edited", "paged"}
  /\ IF scope = "in turn" THEN InTurn!Init ELSE Init
  /\ Sync!Init
  /\ Planned!Init
  /\ Edited!Init
  /\ IF scope = "paged" THEN Paged!Init
     ELSE totalLines = 1 /\ limit = 1 /\ offset = 1 /\ shown = <<0>> /\ noted = {}

MCNext ==
  /\ UNCHANGED scope
  /\ \/ /\ \/ scope = "catalog"   /\ Next
           \/ scope = "in turn"   /\ InTurn!Next
        /\ UNCHANGED <<outputVars, todoVars, fileVars, pageVars>>
     \/ /\ \/ scope = "sync"      /\ Sync!Next
           \/ scope = "async"     /\ Async!Next
        /\ UNCHANGED <<vars, todoVars, fileVars, pageVars>>
     \/ /\ \/ scope = "dependent" /\ Dependent!Next
           \/ scope = "several"   /\ Several!Next
           \/ scope = "planned"   /\ Planned!Next
        /\ UNCHANGED <<vars, outputVars, fileVars, pageVars>>
     \/ scope = "edited" /\ Edited!Next /\ UNCHANGED <<otherVars, pageVars>>
     \/ scope = "paged"  /\ Paged!Read  /\ UNCHANGED <<otherVars, fileVars>>

MCSpec == MCInit /\ [][MCNext]_allVars

-----------------------------------------------------------------------------

\* Each component below is also well typed and keeps its limits: results of the
\* size of their kind, items with one identifier each.

\* The list a model is shown is that of the registry: whoever registers and asks
\* meanwhile, what is offered can be called; and if nobody asks while a tool is
\* registered, every tool that is registered through a reactor is offered by it.
OffersMatchRegistry ==
  /\ scope = "catalog" => TypeOK /\ OfferedCanBeCalled
  /\ scope = "in turn" => InTurn!RegisteredAreOffered

\* Output is cut in a cycle whose own output is over the budget, whatever else
\* ends in that cycle, and without asynchronous tools in no other.
OutputIsCutOverBudget ==
  /\ scope = "sync" => Sync!TypeOK /\ Sync!OnlyOverBudgetIsCut
  /\ scope = "async" => Async!TypeOK /\ Async!OverBudgetIsCut

\* A plan is in the order of its priorities, and empty only if every item that is
\* left waits for one that is not completed.
PlansAreSound ==
  /\ scope = "dependent" => Dependent!TypeOK /\ Dependent!StuckForAReason
  /\ scope = "several" => Several!TypeOK /\ Several!StuckForAReason
  /\ scope = "planned" => Planned!TypeOK /\ Planned!PlanIsInPriorityOrder

\* Changes of a file by calls that do not overlap add up, and one that fails or
\* in which the process ends leaves the old content or a beginning of the new;
\* an edit keeps to its limit, and if it is checked it is of what its agent saw;
\* who reads a file page by page misses, but for a last line, only what the end
\* of a page says is cut.
FilesAreKept ==
  /\ scope = "edited" => /\ Edited!TypeOK
                         /\ Edited!ChangesAddUp
                         /\ Edited!CheckedEditsAreOfWhatWasSeen
                         /\ Edited!EditsKeepToTheirLimit
  /\ scope = "paged" => Paged!LinesAreShown

=============================================================================
