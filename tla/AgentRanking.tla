---------------------------- MODULE AgentRanking ----------------------------
(***************************************************************************)
(* ListAvailable of core/runtime.go: the agents of the runtime directory   *)
(* that are free, sorted by their score.  Nothing in this repository calls *)
(* it; FindAgent lists with FindByDescription, which does not sort.        *)
(***************************************************************************)
EXTENDS Integers, FiniteSets, SequencesExt

CONSTANTS AgentNames, None

VARIABLE directory  \* RuntimeDirectory.agents; None for names without an entry

IsAvailable(n) == directory[n] # None /\ directory[n].state \in {"idle", "dormant"}

\* Mutation: an agent goes before those of its score and above.
InsertByScore_Ascending(sorted, n) ==
  LET k == Cardinality({i \in DOMAIN sorted : directory[sorted[i]].score <= directory[n].score})
  IN InsertAt(sorted, k + 1, n)

\* One step of sortByScore: an agent goes behind those of its score and above.
InsertByScore(sorted, n) ==
  LET k == Cardinality({i \in DOMAIN sorted : directory[sorted[i]].score >= directory[n].score})
  IN InsertAt(sorted, k + 1, n)

\* The map is listed in any order.
ListAvailable ==
  {FoldLeft(LAMBDA sorted, n : InsertByScore(sorted, n), <<>>, order) :
     order \in SetToSeqs({n \in AgentNames : IsAvailable(n)})}

\* An available agent is never listed behind one with a lower score, and each
\* is listed once.
AvailableAreInScoreOrder ==
  \A list \in ListAvailable :
    /\ \A i, j \in DOMAIN list : i < j => directory[list[i]].score >= directory[list[j]].score
    /\ Range(list) = {n \in AgentNames : IsAvailable(n)} /\ IsInjective(list)

=============================================================================
