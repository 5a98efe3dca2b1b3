--------------------------- MODULE MCConversation ---------------------------
(***************************************************************************)
(* The bookkeeping of a conversation, at three levels of detail: a window  *)
(* used directly (ContextWindow), the tokens of a session's calls          *)
(* (TokenAccount), the messages of several sessions (Conversation), and    *)
(* of agents that change their role and are cloned (Roles).  They are      *)
(* models of the same code, not parts of one state: a behaviour is of one  *)
(* of them, with one caller, agent, or two.                                *)
(***************************************************************************)
EXTENDS Conversation

CONSTANTS
  c1, c2,  \* callers, who are the agents of Roles too
  Names,
  WindowRoles, WindowWeights,     \* messages of Window
  OneWeights, TwoWeights,         \* tokens of the messages of the accounts,
  Sections, Replies, MaxTokens,   \*   as in TokenAccount,
  AccountBudget,                  \*   and of the histories
  SerialMessages, SerialWindows,  \* bounds: of Serial,
  WindowLength, MaxUsed,          \*   of Window,
  OneMessages, TwoMessages,       \*   of OneCaller and TwoCallers,
  RoleMessages, RoleWindows,      \*   of Switched,
  CloneMessages, CloneWindows,    \*   of Cloned
  MaxReactors                     \*   and of both

VARIABLES
  scope,
  window, log, reported, records, streamed, doing, input, usage,
  name, reactor, reactors, made, logs, active, role, said, call

accountVars == <<window, log, reported, records, streamed, doing, input, usage>>
rolesVars == <<name, reactor, reactors, made, logs, active, role, said, call>>

\* The calls of one goroutine, and new sessions between them; Conversation
\* itself is instantiated for calls of two.
Serial == INSTANCE Conversation WITH
  Callers <- {c1}, MaxMessages <- SerialMessages, MaxWindows <- SerialWindows

\* A window whose owner adds messages and counts tokens as it likes.
Window == INSTANCE ContextWindow WITH
  Roles <- WindowRoles, Weights <- WindowWeights, MaxMessages <- WindowLength

\* One caller, who meets no failures ...
OneCaller == INSTANCE TokenAccount WITH
  Callers <- {c1}, Weights <- OneWeights, HistoryBudget <- AccountBudget,
  MayFail <- FALSE, MaxMessages <- OneMessages, pc <- doing

\* ... and two, whose provider fails.
TwoCallers == INSTANCE TokenAccount WITH
  Callers <- {c1, c2}, Weights <- TwoWeights, HistoryBudget <- AccountBudget,
  MayFail <- TRUE, MaxMessages <- TwoMessages, pc <- doing

\* One agent that is switched between its calls, and two, one a clone of the
\* other, that are switched at any time.
Switched == INSTANCE Roles WITH
  Agents <- {c1}, First <- c1, SwitchWhileRunning <- FALSE,
  MaxMessages <- RoleMessages, MaxWindows <- RoleWindows,
  windows <- made, store <- logs, recent <- active, sent <- said
Cloned == INSTANCE Roles WITH
  Agents <- Callers, First <- c1, SwitchWhileRunning <- TRUE,
  MaxMessages <- CloneMessages, MaxWindows <- CloneWindows,
  windows <- made, store <- logs, recent <- active, sent <- said

\* No message of the one caller is heavier than what its history may weigh:
\* a run that does not remember the last answer does not count it.
ASSUME MCAssumption ==
  /\ Serial!ConversationAssumption /\ Window!WindowAssumption
  /\ OneCaller!AccountAssumption /\ TwoCallers!AccountAssumption
  /\ \A tokens \in OneWeights : tokens <= AccountBudget
  /\ Switched!RolesAssumption /\ Cloned!RolesAssumption

MCInit ==
  /\ scope \in {"serial", "concurrent", "window", "one caller", "two callers",
                "switched", "cloned"}
  /\ IF scope = "serial" THEN Serial!Init ELSE Init
  /\ IF scope = "two callers" THEN TwoCallers!Init ELSE OneCaller!Init
  /\ reported = <<>>
  /\ IF scope = "cloned" THEN Cloned!Init ELSE Switched!Init

MCNext ==
  /\ UNCHANGED scope
  /\ \/ scope = "serial"      /\ Serial!Next     /\ UNCHANGED <<accountVars, rolesVars>>
     \/ scope = "concurrent"  /\ Next            /\ UNCHANGED <<accountVars, rolesVars>>
     \/ /\ scope = "window" /\ Window!Next
        /\ UNCHANGED <<vars, records, streamed, doing, input, usage, rolesVars>>
     \/ scope = "one caller"  /\ OneCaller!Next  /\ UNCHANGED <<vars, reported, rolesVars>>
     \/ scope = "two callers" /\ TwoCallers!Next /\ UNCHANGED <<vars, reported, rolesVars>>
     \/ scope = "switched"    /\ Switched!Next   /\ UNCHANGED <<vars, accountVars>>
     \/ scope = "cloned"      /\ Cloned!Next     /\ UNCHANGED <<vars, accountVars>>

MCSpec == MCInit /\ [][MCNext]_<<scope, vars, accountVars, rolesVars>>

Symmetry == Permutations(Sessions) \cup Permutations(Names)

-----------------------------------------------------------------------------

\* Each component below is also well typed.

\* What an agent is reminded of is what was said: its window is the end of its
\* session's log, whatever sessions it is called for and roles it is switched to
\* and back from; and however parents and clones are switched, each has a window
\* of its own.
WindowIsTheEndOfItsLog ==
  /\ scope = "serial" => Serial!TypeOK /\ Serial!WindowIsRecentLog
  /\ scope = "switched" => Switched!TypeOK /\ Switched!WindowIsRecentLog
  /\ scope = "cloned" => Cloned!TypeOK /\ Cloned!ClonesHaveTheirOwnWindow

\* The question and answer of a call are in the log of its session, whoever else
\* calls; and so is all that the calls of one caller persist.
SessionsStayApart ==
  /\ scope = "concurrent" => TypeOK
  /\ ExchangesStayInTheirSession
  /\ scope = "serial" => Serial!MessagesStayInTheirSession

\* A window that slides stays the end of what was added and reports the rest, and
\* a slide reaches its target, what it must keep, or the limit of a batch.
SlidesAreSound ==
  /\ [](scope = "window" => Window!TypeOK /\ Window!SlidesKeepTheEnd)
  /\ [][scope = "window" => Window!ReachesTarget]_<<scope, vars, accountVars, rolesVars>>

\* The records account for the input of every stream once, those that break off
\* included; and the count of one caller's tokens never falls behind its window
\* by more than an exchange.
TokensAreAccountedFor ==
  /\ scope = "two callers" => TwoCallers!TypeOK /\ TwoCallers!RecordsAccountForStreams
  /\ scope = "one caller" => OneCaller!TypeOK /\ OneCaller!CountCoversWindow

=============================================================================
