------------------------------ MODULE WebSearch ------------------------------
(***************************************************************************)
(* WebSearch of tools/web_search.go: a cache in front of a chain of search *)
(* adapters, used by several calls at the same time.                       *)
(*                                                                         *)
(* A page is its host.  What a host matches is equality, for HasSuffix.    *)
(* The number of results a call asks for is in halves, as it is a float.   *)
(* The one adapter there is, DuckDuckGo's, takes out the hosts that are    *)
(* not wanted; here all adapters of a chain do.                            *)
(***************************************************************************)
EXTENDS SequencesExt, Integers

CONSTANTS
  Calls,       \* WebSearch calls, each made once
  Request,     \* of each: query, allowed and blocked hosts, and max (0: absent)
  Pages,       \* what each adapter finds for each query, in the order they are tried
  DefaultMax,  \* 10 in the code
  LargestMax,  \* 20 in the code
  TTL,         \* cacheTTL
  MaxTime,     \* bound: the time of the last step
  MayFail,     \* TRUE: an adapter may return an error
  None

ASSUME SearchAssumption ==
  /\ DefaultMax \in Nat /\ LargestMax \in Nat /\ TTL \in Nat \ {0} /\ MaxTime \in Nat
  /\ MayFail \in BOOLEAN
  /\ \A c \in Calls : Request[c].max \in Nat
  /\ Pages \in Seq(Range(Pages))
  /\ \A i \in DOMAIN Pages, c \in Calls :
       LET found == Pages[i][Request[c].query] IN found \in Seq(Range(found))

VARIABLES
  at,      \* where each call is
  cache,   \* WebSearchTool.cache: what was found for a key, and when
  now,     \* the time
  begun,   \* history variable: when each call looked into the cache
  answer   \* what each call found, and when it was fetched

vars == <<at, cache, now, begun, answer>>

\* Mutation: hosts are not part of the key.
Key_Query(c) == <<Request[c].query>>

Key(c) == <<Request[c].query, Request[c].allowed, Request[c].blocked>>
Keys == {Key(c) : c \in Calls}

Init ==
  /\ at = [c \in Calls |-> "idle"]
  /\ cache = [k \in Keys |-> None]
  /\ now = 0
  /\ begun = [c \in Calls |-> 0]
  /\ answer = [c \in Calls |-> [pages |-> <<>>, time |-> 0]]

-----------------------------------------------------------------------------

\* max_results: at most 20, 10 if it is absent; 0 means no limit to the filter.
MaxResults(c) ==
  LET max == Request[c].max \div 2 IN
    IF Request[c].max = 0 THEN DefaultMax
    ELSE IF max > LargestMax THEN LargestMax ELSE max

Wanted(c, page) ==
  /\ page \notin Request[c].blocked
  /\ Request[c].allowed = {} \/ page \in Request[c].allowed

\* filterResults: first the number, then the hosts.
FilterResults(c, pages) ==
  LET max == MaxResults(c)
      cut == IF max > 0 /\ Len(pages) > max THEN SubSeq(pages, 1, max) ELSE pages
  IN FoldLeft(LAMBDA kept, page : IF Wanted(c, page) THEN Append(kept, page) ELSE kept, <<>>, cut)

\* The chain: the first adapter that works and finds something.
FirstFound(c, failing) ==
  LET finds(i) == i \notin failing /\ FilterResults(c, Pages[i][Request[c].query]) # <<>>
      found    == {i \in DOMAIN Pages : finds(i)}
  IN IF found = {} THEN <<>>
     ELSE LET first == CHOOSE i \in found : \A j \in found : i <= j
          IN FilterResults(c, Pages[first][Request[c].query])

-----------------------------------------------------------------------------

\* Mutation: what is cached is served for good.
Lookup_NoTTL(c) ==
  /\ at[c] = "idle"
  /\ begun' = [begun EXCEPT ![c] = now]
  /\ IF cache[Key(c)] = None
     THEN at' = [at EXCEPT ![c] = "search"] /\ UNCHANGED answer
     ELSE at' = [at EXCEPT ![c] = "found"] /\ answer' = [answer EXCEPT ![c] = cache[Key(c)]]
  /\ UNCHANGED <<cache, now>>

\* A fresh entry is the answer, a stale one is to be deleted.
Lookup(c) ==
  /\ at[c] = "idle"
  /\ begun' = [begun EXCEPT ![c] = now]
  /\ LET entry == cache[Key(c)] IN
       IF entry = None
       THEN at' = [at EXCEPT ![c] = "search"] /\ UNCHANGED answer
       ELSE IF now - entry.time < TTL
       THEN at' = [at EXCEPT ![c] = "found"] /\ answer' = [answer EXCEPT ![c] = entry]
       ELSE at' = [at EXCEPT ![c] = "delete"] /\ UNCHANGED answer
  /\ UNCHANGED <<cache, now>>

\* Whatever is stored by now is deleted.
Delete(c) ==
  /\ at[c] = "delete"
  /\ cache' = [cache EXCEPT ![Key(c)] = None]
  /\ at' = [at EXCEPT ![c] = "search"]
  /\ UNCHANGED <<now, begun, answer>>

Failing == IF MayFail THEN SUBSET DOMAIN Pages ELSE {{}}

\* An error of any adapter makes an empty search an error.
Search(c) ==
  /\ at[c] = "search"
  /\ \E failing \in Failing :
       LET pages == FirstFound(c, failing) IN
         /\ answer' = [answer EXCEPT ![c] = [pages |-> pages, time |-> now]]
         /\ at' = [at EXCEPT ![c] = IF pages # <<>> THEN "store"
                                    ELSE IF failing # {} THEN "all failed" ELSE "none"]
  /\ UNCHANGED <<cache, now, begun>>

\* Mutation: the entry says when it expires, not when it was stored.
Store_Expiry(c) ==
  /\ at[c] = "store"
  /\ cache' = [cache EXCEPT ![Key(c)] = [pages |-> answer[c].pages, time |-> now + TTL]]
  /\ at' = [at EXCEPT ![c] = "found"]
  /\ UNCHANGED <<now, begun, answer>>

Store(c) ==
  /\ at[c] = "store"
  /\ cache' = [cache EXCEPT ![Key(c)] = [pages |-> answer[c].pages, time |-> now]]
  /\ at' = [at EXCEPT ![c] = "found"]
  /\ UNCHANGED <<now, begun, answer>>

Tick ==
  /\ now < MaxTime
  /\ now' = now + 1
  /\ UNCHANGED <<at, cache, begun, answer>>

Next == Tick \/ \E c \in Calls : Lookup(c) \/ Delete(c) \/ Search(c) \/ Store(c)

Spec == Init /\ [][Next]_vars

-----------------------------------------------------------------------------

Results ==
  [pages : {FilterResults(c, Pages[i][Request[c].query]) : i \in DOMAIN Pages, c \in Calls} \cup {<<>>},
   time : 0..MaxTime]

TypeOK ==
  /\ at \in [Calls -> {"idle", "delete", "search", "store", "found", "none", "all failed"}]
  /\ \A k \in Keys : cache[k] # None => cache[k] \in Results
  /\ now \in 0..MaxTime /\ begun \in [Calls -> 0..MaxTime]
  /\ answer \in [Calls -> Results]

\* A call gets pages of the hosts it asked for, also those another call of the
\* same query has put into the cache.
AnswersAreOfWantedHosts ==
  \A c \in Calls : at[c] = "found" => \A i \in DOMAIN answer[c].pages : Wanted(c, answer[c].pages[i])

\* An answer was stored less than the TTL before the call looked.  A search
\* that takes long is stored with the time of its end.
AnswersAreFresh ==
  \A c \in Calls : at[c] = "found" => begun[c] - answer[c].time < TTL

=============================================================================
