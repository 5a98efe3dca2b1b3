--------------------------- MODULE Workspace_proof ---------------------------
(***************************************************************************)
(* Proofs about what tools keep, for any values of the constants: cached   *)
(* answers, the crontab, skills on disk, Python environments and the       *)
(* agents a process knows.                                                 *)
(***************************************************************************)
EXTENDS MCWorkspace, FiniteSetTheorems, SequenceTheorems, WellFoundedInduction, TLAPS

-----------------------------------------------------------------------------
(***************************************************************************)
(* Naturals, and the greatest of a range.                                  *)
(***************************************************************************)

LEMMA LeastNatural ==
  ASSUME NEW S \in SUBSET Nat, S # {}
  PROVE  \E n \in S : \A m \in S : n <= m
<1>1. PICK n \in S : \A m \in S : ~(<<m, n>> \in OpToRel(<, Nat))
  BY WFMin, NatLessThanWellFounded
<1>2. \A m \in S : <<m, n>> \in OpToRel(<, Nat) <=> m < n
  BY DEF OpToRel
<1>3. \A m \in S : ~(m < n)
  BY <1>1, <1>2, Zenon
<1> QED
  BY <1>3

\* A set with 0 and the successors of its members is all of Nat: a missing
\* number that is least would have a predecessor that is not missing.
LEMMA NaturalSteps ==
  ASSUME NEW S, 0 \in S, \A n \in Nat : n \in S => n + 1 \in S
  PROVE  \A n \in Nat : n \in S
<1> DEFINE Missing == {n \in Nat : n \notin S}
<1> SUFFICES ASSUME Missing # {} PROVE FALSE
  OBVIOUS
<1>1. PICK m \in Missing : \A n \in Missing : m <= n
  <2>1. Missing \in SUBSET Nat
    OBVIOUS
  <2> HIDE DEF Missing
  <2> QED
    BY <2>1, LeastNatural
<1>2. m \in Nat \ {0} /\ m - 1 \in Nat /\ m = (m - 1) + 1
  OBVIOUS
<1>3. m - 1 \in S
  BY <1>1, <1>2
<1> QED
  BY <1>2, <1>3

Greatest(S) == CHOOSE x \in S : \A y \in S : x >= y

\* It is the greatest element of a set of indices.
LEMMA GreatestIsGreatest ==
  ASSUME NEW n \in Nat, NEW S \in SUBSET (1..n), S # {}
  PROVE  Greatest(S) \in S /\ \A x \in S : x <= Greatest(S)
<1> DEFINE Below == {m \in Nat : \E x \in S : m = n - x}
<1>1. PICK b \in Below : \A c \in Below : b <= c
  <2>1. PICK x \in S : TRUE
    OBVIOUS
  <2>2. n - x \in Nat
    OBVIOUS
  <2>3. Below # {}
    BY <2>2
  <2>4. Below \in SUBSET Nat
    OBVIOUS
  <2> HIDE DEF Below
  <2> QED
    BY <2>3, <2>4, LeastNatural
<1>2. PICK x \in S : b = n - x
  OBVIOUS
<1>3. ASSUME NEW y \in S PROVE x >= y
  <2>1. n - y \in Below
    OBVIOUS
  <2>2. n - x <= n - y
    BY <1>1, <1>2, <2>1
  <2>3. x \in Int /\ y \in Int
    OBVIOUS
  <2> QED
    BY <2>2, <2>3
<1>4. Greatest(S) \in S /\ \A y \in S : Greatest(S) >= y
  BY <1>3 DEF Greatest
<1>5. ASSUME NEW y \in S PROVE y <= Greatest(S)
  <2>1. Greatest(S) >= y /\ Greatest(S) \in 1..n /\ y \in 1..n
    BY <1>4, Zenon
  <2> QED
    BY <2>1
<1> QED
  BY <1>4, <1>5

LEMMA GreatestOfRange ==
  ASSUME NEW k \in Nat, k # 0
  PROVE  Greatest(1..k) = k /\ (1..k) \ {k} = 1..(k - 1)
<1>1. k \in 1..k
  OBVIOUS
<1>2. Greatest(1..k) \in 1..k /\ k <= Greatest(1..k)
  BY <1>1, GreatestIsGreatest
<1>3. (1..k) \ {k} = 1..(k - 1)
  OBVIOUS
<1> QED
  BY <1>2, <1>3

(***************************************************************************)
(* Folds.  FoldLeft is the value at the domain of a sequence of a function *)
(* on the subsets of that domain, which is chosen among those that satisfy *)
(* its equation.  There is one, so that the chosen one has the equation.   *)
(***************************************************************************)

Iterates(f, V, op, base, seq) ==
  /\ f \in [SUBSET (1..Len(seq)) -> V]
  /\ \A s \in SUBSET (1..Len(seq)) :
       f[s] = IF s = {} THEN base ELSE op[<<f[s \ {Greatest(s)}], seq[Greatest(s)]>>]

LEMMA IterationExists ==
  ASSUME NEW V, NEW E, NEW op \in [V \X E -> V], NEW base \in V, NEW seq \in Seq(E)
  PROVE  \E f : Iterates(f, V, op, base, seq)
<1> DEFINE Upto(n) == \E f \in [SUBSET (1..n) -> V] :
                        \A s \in SUBSET (1..n) :
                          f[s] = IF s = {} THEN base ELSE op[<<f[s \ {Greatest(s)}], seq[Greatest(s)]>>]
           Reached == {n \in Nat : n > Len(seq) \/ Upto(n)}
<1>0. Len(seq) \in Nat /\ \A k \in 1..Len(seq) : seq[k] \in E
  OBVIOUS
<1>1. Upto(0)
  <2>1. SUBSET (1..0) = {{}}
    OBVIOUS
  <2>2. [s \in SUBSET (1..0) |-> base] \in [SUBSET (1..0) -> V]
    OBVIOUS
  <2> QED
    BY <2>1, <2>2
<1>2. ASSUME NEW n \in Nat, Upto(n), n + 1 <= Len(seq) PROVE Upto(n + 1)
  <2>1. PICK f \in [SUBSET (1..n) -> V] :
          \A s \in SUBSET (1..n) :
            f[s] = IF s = {} THEN base ELSE op[<<f[s \ {Greatest(s)}], seq[Greatest(s)]>>]
    BY <1>2
  <2> DEFINE g == [s \in SUBSET (1..(n + 1)) |->
                     IF s = {} THEN base ELSE op[<<f[s \ {Greatest(s)}], seq[Greatest(s)]>>]]
  <2>2. ASSUME NEW s \in SUBSET (1..(n + 1)), s # {}
        PROVE  /\ s \ {Greatest(s)} \in SUBSET (1..n)
               /\ Greatest(s) \in 1..(n + 1)
    <3>1. n + 1 \in Nat
      OBVIOUS
    <3>2. Greatest(s) \in s /\ \A x \in s : x <= Greatest(s)
      BY <2>2, <3>1, GreatestIsGreatest
    <3> HIDE DEF g
    <3>3. ASSUME NEW x \in s, x # Greatest(s) PROVE x \in 1..n
      <4>1. x \in 1..(n + 1) /\ Greatest(s) \in 1..(n + 1)
        BY <3>2
      <4>2. x <= Greatest(s) /\ x # Greatest(s)
        BY <3>2, <3>3
      <4> QED
        BY <4>1, <4>2
    <3> QED
      BY <3>2, <3>3
  <2>3. ASSUME NEW s \in SUBSET (1..(n + 1)), s # {}
        PROVE  op[<<f[s \ {Greatest(s)}], seq[Greatest(s)]>>] \in V
    <3>1. s \ {Greatest(s)} \in SUBSET (1..n) /\ Greatest(s) \in 1..(n + 1)
      BY <2>2, <2>3
    <3>2. Greatest(s) \in 1..Len(seq)
      BY <1>0, <1>2, <3>1
    <3>3. f[s \ {Greatest(s)}] \in V /\ seq[Greatest(s)] \in E
      BY <1>0, <2>1, <3>1, <3>2
    <3> QED
      BY <3>3
  <2>4. g \in [SUBSET (1..(n + 1)) -> V]
    BY <2>3
  <2>5. ASSUME NEW s \in SUBSET (1..n) PROVE g[s] = f[s]
    <3>1. s \in SUBSET (1..(n + 1))
      OBVIOUS
    <3> QED
      BY <2>1, <3>1
  <2>6. ASSUME NEW s \in SUBSET (1..(n + 1))
        PROVE  g[s] = IF s = {} THEN base ELSE op[<<g[s \ {Greatest(s)}], seq[Greatest(s)]>>]
    BY <2>2, <2>5
  <2> HIDE DEF g
  <2> QED
    BY <2>4, <2>6
<1>3. ASSUME NEW n \in Nat, n \in Reached PROVE n + 1 \in Reached
  <2> HIDE DEF Upto
  <2>1. CASE n + 1 > Len(seq)
    BY <2>1
  <2>2. CASE n + 1 <= Len(seq)
    <3>1. ~(n > Len(seq))
      BY <1>0, <2>2
    <3>2. Upto(n)
      BY <1>3, <3>1
    <3> QED
      BY <1>2, <2>2, <3>2
  <2> QED
    BY <1>0, <2>1, <2>2
<1>4. Len(seq) \in Reached
  <2>1. 0 \in Reached
    BY <1>1
  <2> HIDE DEF Reached
  <2> QED
    BY <1>0, <1>3, <2>1, NaturalSteps
<1>5. Upto(Len(seq))
  <2> HIDE DEF Upto
  <2> QED
    BY <1>0, <1>4
<1> QED
  BY <1>5 DEF Iterates

-----------------------------------------------------------------------------
(***************************************************************************)
(* Web searches.  What the filter lets through is wanted.                  *)
(***************************************************************************)

FilterStep(c, kept, page) == IF Wanted(c, page) THEN Append(kept, page) ELSE kept

FilterFold(c, s) == FoldLeft(LAMBDA kept, page : FilterStep(c, kept, page), <<>>, s)

AllWanted(c, s) == \A i \in DOMAIN s : Wanted(c, s[i])

\* Every value of the loop, after however many pages, holds wanted ones only.
LEMMA FilteredAreWanted ==
  ASSUME NEW c, NEW E, NEW s \in Seq(E)
  PROVE  AllWanted(c, FilterFold(c, s))
<1> DEFINE V == Seq({e \in E : Wanted(c, e)})
           Equation(f) ==
             f = [t \in SUBSET DOMAIN s |->
                    IF t = {} THEN <<>> ELSE FilterStep(c, f[t \ {Greatest(t)}], s[Greatest(t)])]
           op == [p \in V \X E |-> FilterStep(c, p[1], p[2])]
           iter == CHOOSE f : Equation(f)
<1>0. /\ Len(s) \in Nat /\ DOMAIN s = 1..Len(s)
      /\ \A k \in 1..Len(s) : s[k] \in E
  OBVIOUS
<1>w. \A v \in V, e \in E : FilterStep(c, v, e) \in V
  BY DEF FilterStep
<1>v. <<>> \in V
  OBVIOUS
<1>1. \E f : Equation(f) /\ f \in [SUBSET (1..Len(s)) -> V]
  <2> HIDE DEF V
  <2>1. op \in [V \X E -> V]
    BY <1>w
  <2>2. \A v \in V, e \in E : op[<<v, e>>] = FilterStep(c, v, e)
    OBVIOUS
  <2> HIDE DEF op, Equation, iter
  <2>3. PICK f : Iterates(f, V, op, <<>>, s)
    BY <1>v, <2>1, IterationExists
  <2>4. ASSUME NEW t \in SUBSET (1..Len(s)), t # {}
        PROVE  op[<<f[t \ {Greatest(t)}], s[Greatest(t)]>>]
                 = FilterStep(c, f[t \ {Greatest(t)}], s[Greatest(t)])
    <3>1. Greatest(t) \in 1..Len(s)
      BY <1>0, <2>4, GreatestIsGreatest
    <3>2. s[Greatest(t)] \in E /\ f[t \ {Greatest(t)}] \in V
      BY <1>0, <2>3, <3>1 DEF Iterates
    <3> QED
      BY <2>2, <3>2
  <2>5. Equation(f)
    BY <1>0, <2>3, <2>4 DEF Equation, Iterates
  <2> QED
    BY <2>3, <2>5 DEF Iterates
<1>2. Equation(iter)
  <2> HIDE DEF Equation
  <2> QED
    BY <1>1
<1>3. FilterFold(c, s) = iter[DOMAIN s]
  BY DEF FilterFold, FoldLeft, MapThenFoldSet, Greatest, Max
<1> HIDE DEF iter, V
<1>4. iter[1..0] = <<>>
  <2>1. 1..0 = {} /\ {} \in SUBSET DOMAIN s
    OBVIOUS
  <2> QED
    BY <1>2, <2>1
<1>5. ASSUME NEW n \in Nat, n + 1 <= Len(s)
      PROVE  iter[1..(n + 1)] = FilterStep(c, iter[1..n], s[n + 1])
  <2>0. n + 1 \in 1..Len(s) /\ (n + 1) - 1 = n /\ n + 1 \in Nat /\ n + 1 # 0
    BY <1>0, <1>5
  <2>1. 1..(n + 1) \in SUBSET DOMAIN s /\ 1..(n + 1) # {}
    <3>1. n + 1 \in 1..(n + 1) /\ 1..(n + 1) \subseteq 1..Len(s)
      BY <1>0, <2>0
    <3> QED
      BY <1>0, <3>1
  <2>2. Greatest(1..(n + 1)) = n + 1 /\ (1..(n + 1)) \ {n + 1} = 1..n
    BY <2>0, GreatestOfRange
  <2> QED
    BY <1>2, <2>1, <2>2
<1> HIDE DEF Equation
<1> DEFINE Reached == {n \in Nat : n > Len(s) \/ iter[1..n] \in V}
<1>6. \A n \in Nat : n \in Reached
  <2>1. 0 \in Reached
    BY <1>4, <1>v
  <2>2. ASSUME NEW n \in Nat, n \in Reached PROVE n + 1 \in Reached
    <3>1. CASE n + 1 > Len(s)
      BY <3>1
    <3>2. CASE n + 1 <= Len(s)
      <4>1. n + 1 \in 1..Len(s) /\ iter[1..n] \in V
        BY <1>0, <2>2, <3>2
      <4> QED
        BY <1>0, <1>5, <1>w, <3>2, <4>1
    <3> QED
      BY <1>0, <3>1, <3>2
  <2> HIDE DEF Reached
  <2> QED
    BY <2>1, <2>2, NaturalSteps
<1>7. iter[DOMAIN s] \in V
  BY <1>0, <1>6
<1> QED
  BY <1>3, <1>7 DEF V, AllWanted

FoundPages(c) == {FilterResults(c, Pages[i][Request[c].query]) : i \in DOMAIN Pages} \cup {<<>>}

LEMMA ResultsAreWanted ==
  ASSUME NEW c \in Calls, NEW i \in DOMAIN Pages
  PROVE  AllWanted(c, FilterResults(c, Pages[i][Request[c].query]))
<1> DEFINE found == Pages[i][Request[c].query]
           cut == IF MaxResults(c) > 0 /\ Len(found) > MaxResults(c)
                  THEN SubSeq(found, 1, MaxResults(c)) ELSE found
<1>1. found \in Seq(Range(found))
  BY SearchAssumption
<1>2. MaxResults(c) \in Nat
  BY SearchAssumption DEF MaxResults
<1>3. cut \in Seq(Range(found))
  <2> HIDE DEF found
  <2> QED
    BY <1>1, <1>2
<1>4. FilterResults(c, found) = FilterFold(c, cut)
  BY DEF FilterResults, FilterFold, FilterStep
<1> HIDE DEF found, cut
<1>5. AllWanted(c, FilterFold(c, cut))
  BY <1>3, FilteredAreWanted
<1> QED
  BY <1>4, <1>5 DEF found

LEMMA FirstIsFound ==
  ASSUME NEW c \in Calls, NEW failing
  PROVE  /\ FirstFound(c, failing) \in FoundPages(c)
         /\ AllWanted(c, FirstFound(c, failing))
<1> DEFINE found == {i \in DOMAIN Pages : i \notin failing /\ FilterResults(c, Pages[i][Request[c].query]) # <<>>}
           first == CHOOSE i \in found : \A j \in found : i <= j
<1>1. CASE found = {}
  <2>1. FirstFound(c, failing) = <<>>
    BY <1>1 DEF FirstFound
  <2> QED
    BY <2>1 DEF FoundPages, AllWanted
<1>2. CASE found # {}
  <2>1. found \in SUBSET Nat
    BY SearchAssumption
  <2>2. FirstFound(c, failing) = FilterResults(c, Pages[first][Request[c].query])
    BY <1>2 DEF FirstFound
  <2>3. found \subseteq DOMAIN Pages
    OBVIOUS
  <2> HIDE DEF found
  <2>4. \E i \in found : \A j \in found : i <= j
    BY <1>2, <2>1, LeastNatural
  <2>5. first \in DOMAIN Pages
    BY <2>3, <2>4
  <2> HIDE DEF first
  <2> QED
    BY <2>2, <2>5, ResultsAreWanted DEF FoundPages
<1> QED
  BY <1>1, <1>2

SearchTypes ==
  /\ at \in [Calls -> {"idle", "delete", "search", "store", "found", "none", "all failed"}]
  /\ cache \in [Keys -> Results \cup {None}]
  /\ now \in 0..MaxTime /\ begun \in [Calls -> 0..MaxTime]
  /\ answer \in [Calls -> Results]

CachedIsWanted(c) == cache[Key(c)] # None => AllWanted(c, cache[Key(c)].pages)

\* What a call is about to store, it wants, and found after it had looked.
CallIsServed(c) ==
  /\ begun[c] <= now
  /\ at[c] \in {"store", "found"} => AllWanted(c, answer[c].pages)
  /\ at[c] = "store" => begun[c] <= answer[c].time
  /\ at[c] = "found" => begun[c] - answer[c].time < TTL

SearchInv == SearchTypes /\ \A c \in Calls : CachedIsWanted(c) /\ CallIsServed(c)

LEMMA WantedAlike ==
  ASSUME NEW c \in Calls, NEW d \in Calls, Key(c) = Key(d), NEW s, AllWanted(c, s)
  PROVE  AllWanted(d, s)
BY DEF Key, AllWanted, Wanted

LEMMA FoundIsResult ==
  ASSUME NEW c \in Calls, NEW p \in FoundPages(c), NEW t \in 0..MaxTime
  PROVE  [pages |-> p, time |-> t] \in Results
BY DEF FoundPages, Results

LEMMA ResultTimes == \A r \in Results : r.time \in 0..MaxTime
BY DEF Results

LEMMA RestoredIsResult ==
  ASSUME NEW r \in Results, NEW t \in 0..MaxTime
  PROVE  [pages |-> r.pages, time |-> t] \in Results
BY DEF Results

LEMMA SearchLimits == MaxTime \in Nat /\ TTL \in Nat \ {0}
BY SearchAssumption

LEMMA SearchInit == ASSUME Init PROVE SearchInv
<1>1. 0 \in 0..MaxTime /\ TTL \in Nat \ {0}
  BY SearchLimits
<1>2. [pages |-> <<>>, time |-> 0] \in Results
  BY <1>1 DEF Results
<1>3. \A c \in Calls : Key(c) \in Keys
  BY DEF Keys
<1> QED
  BY <1>1, <1>2, <1>3 DEF Init, SearchInv, SearchTypes, CachedIsWanted, CallIsServed

LEMMA SearchTimes ==
  ASSUME SearchTypes
  PROVE  now \in Nat /\ MaxTime \in Nat /\ \A c \in Calls : begun[c] \in Nat
<1>1. now \in 0..MaxTime /\ \A c \in Calls : begun[c] \in 0..MaxTime
  BY DEF SearchTypes
<1> QED
  BY <1>1, SearchLimits

\* The steps of one call leave the others alone, but for the cache.
LEMMA SearchChange ==
  ASSUME SearchInv, NEW c \in Calls, SearchTypes', UNCHANGED now, CallIsServed(c)',
         \A d \in Calls : CachedIsWanted(d)',
         \A d \in Calls : d # c => begun'[d] = begun[d] /\ at'[d] = at[d] /\ answer'[d] = answer[d]
  PROVE  SearchInv'
BY DEF SearchInv, CallIsServed

LEMMA LookupPreserves == ASSUME SearchInv, NEW c \in Calls, Lookup(c) PROVE SearchInv'
<1>0. SearchTypes /\ CachedIsWanted(c)
  BY DEF SearchInv
<1>1. Key(c) \in Keys /\ at[c] = "idle" /\ UNCHANGED <<cache, now>>
  BY DEF Keys, Lookup
<1>2. begun' = [begun EXCEPT ![c] = now]
  BY DEF Lookup
<1>3. now \in Nat /\ MaxTime \in Nat
  BY <1>0, SearchTimes
<1>t. now \in 0..MaxTime /\ begun'[c] = now
  BY <1>0, <1>2 DEF SearchTypes
<1>l. begun'[c] <= now'
  BY <1>1, <1>3, <1>t
<1>4. CASE UNCHANGED answer /\ \/ at' = [at EXCEPT ![c] = "search"]
                               \/ at' = [at EXCEPT ![c] = "delete"]
  <2>0. SearchTypes'
    BY <1>0, <1>1, <1>2, <1>4 DEF SearchTypes
  <2>4. at'[c] \in {"search", "delete"}
    BY <1>0, <1>4 DEF SearchTypes
  <2>1. SearchTypes' /\ CallIsServed(c)'
    BY <1>l, <2>0, <2>4 DEF CallIsServed
  <2>2. \A d \in Calls : CachedIsWanted(d)'
    BY <1>1 DEF SearchInv, CachedIsWanted
  <2>3. \A d \in Calls : d # c => begun'[d] = begun[d] /\ at'[d] = at[d] /\ answer'[d] = answer[d]
    BY <1>0, <1>2, <1>4 DEF SearchTypes
  <2> QED
    BY <1>1, <2>1, <2>2, <2>3, SearchChange
<1>5. CASE /\ cache[Key(c)] # None /\ now - cache[Key(c)].time < TTL
           /\ at' = [at EXCEPT ![c] = "found"]
           /\ answer' = [answer EXCEPT ![c] = cache[Key(c)]]
  <2>1. cache[Key(c)] \in Results
    BY <1>0, <1>1, <1>5 DEF SearchTypes
  <2>2. AllWanted(c, cache[Key(c)].pages)
    BY <1>0, <1>5 DEF CachedIsWanted
  <2>3. SearchTypes'
    BY <1>0, <1>1, <1>2, <1>3, <1>5, <2>1 DEF SearchTypes
  <2>7. at'[c] = "found" /\ answer'[c] = cache[Key(c)]
    BY <1>0, <1>5 DEF SearchTypes
  <2>8. begun'[c] - answer'[c].time < TTL
    BY <1>t, <1>5, <2>7
  <2>4. CallIsServed(c)'
    BY <1>l, <2>2, <2>7, <2>8 DEF CallIsServed
  <2>5. \A d \in Calls : CachedIsWanted(d)'
    BY <1>1 DEF SearchInv, CachedIsWanted
  <2>6. \A d \in Calls : d # c => begun'[d] = begun[d] /\ at'[d] = at[d] /\ answer'[d] = answer[d]
    BY <1>0, <1>2, <1>5 DEF SearchTypes
  <2> QED
    BY <1>1, <2>3, <2>4, <2>5, <2>6, SearchChange
<1> QED
  BY <1>4, <1>5 DEF Lookup

LEMMA DeletePreserves == ASSUME SearchInv, NEW c \in Calls, Delete(c) PROVE SearchInv'
<1>0. SearchTypes /\ CallIsServed(c)
  BY DEF SearchInv
<1>1. Key(c) \in Keys
  BY DEF Keys
<1>2. cache' = [cache EXCEPT ![Key(c)] = None] /\ at' = [at EXCEPT ![c] = "search"]
      /\ UNCHANGED <<now, begun, answer>>
  BY DEF Delete
<1>3. SearchTypes' /\ CallIsServed(c)'
  BY <1>0, <1>1, <1>2 DEF SearchTypes, CallIsServed
<1>4. \A d \in Calls : CachedIsWanted(d)'
  BY <1>0, <1>1, <1>2 DEF SearchInv, CachedIsWanted, SearchTypes, Keys
<1>5. \A d \in Calls : d # c => begun'[d] = begun[d] /\ at'[d] = at[d] /\ answer'[d] = answer[d]
  BY <1>0, <1>2 DEF SearchTypes
<1> QED
  BY <1>2, <1>3, <1>4, <1>5, SearchChange

LEMMA SearchPreserves == ASSUME SearchInv, NEW c \in Calls, Search(c) PROVE SearchInv'
<1>0. SearchTypes /\ CallIsServed(c)
  BY DEF SearchInv
<1>1. PICK failing : answer' = [answer EXCEPT ![c] = [pages |-> FirstFound(c, failing), time |-> now]]
  BY DEF Search
<1> DEFINE entry == [pages |-> FirstFound(c, failing), time |-> now]
<1>2. entry \in Results
  BY <1>0, FirstIsFound, FoundIsResult DEF SearchTypes
<1>3. AllWanted(c, entry.pages) /\ entry.time = now
  BY FirstIsFound
<1> HIDE DEF entry
<1>4. \E where \in {"store", "all failed", "none"} : at' = [at EXCEPT ![c] = where]
  BY DEF Search
<1>5. UNCHANGED <<cache, now, begun>> /\ answer' = [answer EXCEPT ![c] = entry]
  BY <1>1 DEF Search, entry
<1>6. SearchTypes'
  BY <1>0, <1>2, <1>4, <1>5 DEF SearchTypes
<1>7. CallIsServed(c)'
  BY <1>0, <1>3, <1>4, <1>5 DEF SearchTypes, CallIsServed
<1>8. \A d \in Calls : CachedIsWanted(d)'
  BY <1>5 DEF SearchInv, CachedIsWanted
<1>9. \A d \in Calls : d # c => begun'[d] = begun[d] /\ at'[d] = at[d] /\ answer'[d] = answer[d]
  BY <1>0, <1>4, <1>5 DEF SearchTypes
<1> QED
  BY <1>5, <1>6, <1>7, <1>8, <1>9, SearchChange

LEMMA StorePreserves == ASSUME SearchInv, NEW c \in Calls, Store(c) PROVE SearchInv'
<1> DEFINE entry == [pages |-> answer[c].pages, time |-> now]
<1>0. SearchTypes /\ CallIsServed(c) /\ at[c] = "store" /\ Key(c) \in Keys
  BY DEF SearchInv, Store, Keys
<1>1. entry \in Results /\ answer[c] \in Results
  BY <1>0, RestoredIsResult DEF SearchTypes
<1>2. AllWanted(c, entry.pages)
  BY <1>0 DEF CallIsServed
<1>3. /\ cache' = [cache EXCEPT ![Key(c)] = entry] /\ at' = [at EXCEPT ![c] = "found"]
      /\ UNCHANGED <<now, begun, answer>>
  BY DEF Store
<1> HIDE DEF entry
<1>4. SearchTypes'
  BY <1>0, <1>1, <1>3 DEF SearchTypes
<1>5. begun[c] <= answer[c].time /\ answer[c].time \in 0..MaxTime /\ begun[c] \in 0..MaxTime
  BY <1>0, <1>1, ResultTimes DEF SearchTypes, CallIsServed
<1>6. begun[c] - answer[c].time < TTL
  BY <1>5, SearchLimits
<1>7. CallIsServed(c)'
  BY <1>0, <1>3, <1>6 DEF SearchTypes, CallIsServed
<1>8. ASSUME NEW d \in Calls PROVE CachedIsWanted(d)'
  <2>1. Key(d) \in Keys /\ CachedIsWanted(d)
    BY DEF Keys, SearchInv
  <2>2. CASE Key(d) = Key(c)
    <3>1. AllWanted(d, entry.pages)
      BY <1>2, <2>2, WantedAlike
    <3>2. cache'[Key(d)] = entry
      BY <1>0, <1>3, <2>1, <2>2 DEF SearchTypes
    <3> QED
      BY <3>1, <3>2 DEF CachedIsWanted
  <2>3. CASE Key(d) # Key(c)
    <3>1. cache'[Key(d)] = cache[Key(d)]
      BY <1>0, <1>3, <2>1, <2>3 DEF SearchTypes
    <3> QED
      BY <2>1, <3>1 DEF CachedIsWanted
  <2> QED
    BY <2>2, <2>3
<1>9. \A d \in Calls : d # c => begun'[d] = begun[d] /\ at'[d] = at[d] /\ answer'[d] = answer[d]
  BY <1>0, <1>3 DEF SearchTypes
<1> QED
  BY <1>3, <1>4, <1>7, <1>8, <1>9, SearchChange

LEMMA SearchStep == ASSUME SearchInv, Next PROVE SearchInv'
<1>1. CASE Tick
  <2>1. now \in Nat /\ MaxTime \in Nat /\ \A c \in Calls : begun[c] \in Nat
    BY SearchTimes DEF SearchInv
  <2>2. now' = now + 1 /\ now < MaxTime /\ UNCHANGED <<at, cache, begun, answer>>
    BY <1>1 DEF Tick
  <2>3. now' \in 0..MaxTime
    BY <2>1, <2>2
  <2>4. SearchTypes'
    BY <2>2, <2>3 DEF SearchInv, SearchTypes
  <2> QED
    BY <2>1, <2>2, <2>4 DEF SearchInv, CachedIsWanted, CallIsServed
<1> QED
  BY <1>1, LookupPreserves, DeletePreserves, SearchPreserves, StorePreserves DEF Next

LEMMA SearchIsAnswered == ASSUME SearchInv PROVE TypeOK /\ AnswersAreOfWantedHosts /\ AnswersAreFresh
BY DEF SearchInv, SearchTypes, CachedIsWanted, CallIsServed, TypeOK, AnswersAreOfWantedHosts,
   AnswersAreFresh, AllWanted


-----------------------------------------------------------------------------
(***************************************************************************)
(* Fetches of pages.                                                       *)
(***************************************************************************)

FetchTypes ==
  /\ clock \in Nat /\ since \in [Fetchers -> Nat]
  /\ fetching \in [Fetchers -> {"idle", "delete", "fetch", "store", "failed", "done", "panicked"}]
  /\ DOMAIN pages = {Fetch!Key(c) : c \in Fetchers}
  /\ DOMAIN text = Fetchers

PageIsDated(k) == pages[k] # None => pages[k].time \in Nat

\* A text that was returned was fetched less than FetchTTL before the call.
FetchIsServed(c) ==
  /\ since[c] <= clock
  /\ fetching[c] = "done" => text[c].time \in Nat /\ since[c] < text[c].time + FetchTTL

FetchInv ==
  /\ FetchTypes
  /\ \A c \in Fetchers : PageIsDated(Fetch!Key(c)) /\ FetchIsServed(c)

LEMMA FetchLimit == FetchTTL \in Nat \ {0}
BY MCAssumption DEF Fetch!FetchAssumption

LEMMA FetchInit == ASSUME Fetch!Init PROVE FetchInv
<1>1. FetchTypes
  BY DEF Fetch!Init, FetchTypes
<1> QED
  BY <1>1 DEF Fetch!Init, FetchInv, PageIsDated, FetchIsServed

LEMMA FetchChange ==
  ASSUME FetchInv, NEW c \in Fetchers, FetchTypes', UNCHANGED clock, FetchIsServed(c)',
         \A d \in Fetchers : PageIsDated(Fetch!Key(d))',
         \A d \in Fetchers \ {c} : /\ since'[d] = since[d] /\ fetching'[d] = fetching[d]
                                   /\ text'[d] = text[d]
  PROVE  FetchInv'
BY DEF FetchInv, FetchIsServed, Fetch!Key

LEMMA FetchLookupPreserves ==
  ASSUME FetchInv, NEW c \in Fetchers, Fetch!Lookup(c)
  PROVE  FetchInv'
<1> DEFINE entry == pages[Fetch!Key(c)]
<1>0. FetchTypes /\ PageIsDated(Fetch!Key(c))
  BY DEF FetchInv
<1>1. since' = [since EXCEPT ![c] = clock] /\ UNCHANGED <<pages, clock>>
  BY DEF Fetch!Lookup
<1>2. \A d \in Fetchers : PageIsDated(Fetch!Key(d))'
  BY <1>1 DEF FetchInv, PageIsDated, Fetch!Key
<1>3. \E next \in {"done", "fetch", "delete"} : fetching' = [fetching EXCEPT ![c] = next]
  BY DEF Fetch!Lookup
<1>4. text' = [text EXCEPT ![c] = entry] \/ UNCHANGED text
  BY DEF Fetch!Lookup
<1>5. FetchTypes'
  BY <1>0, <1>1, <1>3, <1>4 DEF FetchTypes, Fetch!Key
<1>6. since'[c] = clock /\ clock \in Nat
  BY <1>0, <1>1 DEF FetchTypes
<1>7. ASSUME fetching'[c] = "done"
      PROVE  text'[c].time \in Nat /\ since'[c] < text'[c].time + FetchTTL
  <2>1. /\ entry # None /\ clock - entry.time < FetchTTL
        /\ text' = [text EXCEPT ![c] = entry]
    BY <1>0, <1>7 DEF Fetch!Lookup, FetchTypes
  <2>2. text'[c] = entry /\ entry.time \in Nat
    BY <1>0, <2>1 DEF FetchTypes, PageIsDated
  <2> HIDE DEF entry
  <2>3. clock < entry.time + FetchTTL
    BY <1>6, <2>1, <2>2, FetchLimit
  <2> QED
    BY <1>6, <2>2, <2>3
<1>8. FetchIsServed(c)'
  BY <1>1, <1>6, <1>7 DEF FetchIsServed
<1>9. \A d \in Fetchers \ {c} : /\ since'[d] = since[d] /\ fetching'[d] = fetching[d]
                                /\ text'[d] = text[d]
  BY <1>0, <1>1, <1>3, <1>4 DEF FetchTypes
<1> QED
  BY <1>1, <1>2, <1>5, <1>8, <1>9, FetchChange

LEMMA FetchDeletePreserves ==
  ASSUME FetchInv, NEW c \in Fetchers, Fetch!Delete(c) \/ Fetch!Fetch(c) \/ Fetch!Panic(c)
  PROVE  FetchInv'
<1>0. FetchTypes /\ FetchIsServed(c)
  BY DEF FetchInv
<1>1. UNCHANGED <<clock, since, text>>
  BY DEF Fetch!Delete, Fetch!Fetch, Fetch!Panic
<1>2. pages' = [pages EXCEPT ![Fetch!Key(c)] = None] \/ UNCHANGED pages
  BY DEF Fetch!Delete, Fetch!Fetch, Fetch!Panic
<1>3. \E next \in {"fetch", "failed", "store", "panicked"} : fetching' = [fetching EXCEPT ![c] = next]
  BY DEF Fetch!Delete, Fetch!Fetch, Fetch!Panic
<1>4. FetchTypes' /\ FetchIsServed(c)'
  BY <1>0, <1>1, <1>2, <1>3 DEF FetchTypes, FetchIsServed, Fetch!Key
<1>5. \A d \in Fetchers : PageIsDated(Fetch!Key(d))'
  BY <1>2 DEF FetchInv, FetchTypes, PageIsDated, Fetch!Key
<1>6. \A d \in Fetchers \ {c} : /\ since'[d] = since[d] /\ fetching'[d] = fetching[d]
                                /\ text'[d] = text[d]
  BY <1>0, <1>1, <1>3 DEF FetchTypes
<1> QED
  BY <1>1, <1>4, <1>5, <1>6, FetchChange

LEMMA FetchStorePreserves ==
  ASSUME FetchInv, NEW c \in Fetchers, Fetch!Store(c)
  PROVE  FetchInv'
<1>0. FetchTypes /\ FetchIsServed(c)
  BY DEF FetchInv
<1>1. PICK entry : /\ entry.time = clock
                   /\ pages' = [pages EXCEPT ![Fetch!Key(c)] = entry]
                   /\ text' = [text EXCEPT ![c] = entry]
  BY DEF Fetch!Store
<1>2. fetching' = [fetching EXCEPT ![c] = "done"] /\ UNCHANGED <<clock, since>>
  BY DEF Fetch!Store
<1>3. FetchTypes'
  BY <1>0, <1>1, <1>2 DEF FetchTypes, Fetch!Key
<1>4. clock \in Nat /\ since[c] \in Nat /\ since[c] <= clock /\ text'[c] = entry
  BY <1>0, <1>1 DEF FetchTypes, FetchIsServed
<1>5. since[c] < entry.time + FetchTTL
  BY <1>1, <1>4, FetchLimit
<1>6. FetchIsServed(c)'
  BY <1>1, <1>2, <1>4, <1>5 DEF FetchIsServed
<1>7. \A d \in Fetchers : PageIsDated(Fetch!Key(d))'
  BY <1>1, <1>4 DEF FetchInv, FetchTypes, PageIsDated, Fetch!Key
<1>8. \A d \in Fetchers \ {c} : /\ since'[d] = since[d] /\ fetching'[d] = fetching[d]
                                /\ text'[d] = text[d]
  BY <1>0, <1>1, <1>2 DEF FetchTypes
<1> QED
  BY <1>2, <1>3, <1>6, <1>7, <1>8, FetchChange

LEMMA FetchStep == ASSUME FetchInv, Fetch!Next PROVE FetchInv'
<1>1. CASE Fetch!Tick
  <2>1. clock' = clock + 1 /\ UNCHANGED <<fetching, pages, since, text>>
    BY <1>1 DEF Fetch!Tick
  <2>2. FetchTypes'
    BY <2>1 DEF FetchInv, FetchTypes, Fetch!Key
  <2>3. \A c \in Fetchers : since[c] \in Nat /\ clock \in Nat /\ since[c] <= clock
    BY DEF FetchInv, FetchTypes, FetchIsServed
  <2>4. \A c \in Fetchers : since[c] <= clock'
    BY <2>1, <2>3
  <2> QED
    BY <2>1, <2>2, <2>4 DEF FetchInv, PageIsDated, FetchIsServed, Fetch!Key
<1> QED
  BY <1>1, FetchLookupPreserves, FetchDeletePreserves, FetchStorePreserves DEF Fetch!Next

LEMMA FetchIsFresh == ASSUME FetchInv PROVE Fetch!TextIsFresh
<1>1. ASSUME NEW c \in Fetchers, fetching[c] = "done" PROVE text[c].time + FetchTTL > since[c]
  <2>1. text[c].time \in Nat /\ since[c] < text[c].time + FetchTTL /\ since[c] \in Nat
    BY <1>1 DEF FetchInv, FetchIsServed, FetchTypes
  <2> QED
    BY <2>1, FetchLimit
<1> QED
  BY <1>1 DEF Fetch!TextIsFresh

SearchesInv == /\ scope = "search" => SearchInv
               /\ scope = "fetch" => FetchInv

\* The answer to a search is of the hosts it wants, and neither it nor the text
\* that a fetch returns is older than its cache keeps answers, whatever other
\* calls find, store and delete between the steps of a call.
THEOREM AnswersAreFreshAndWanted == MCSpec => []SearchesAreAnswered
<1>1. MCInit => SearchesInv
  BY SearchInit, FetchInit DEF MCInit, SearchesInv
<1>2. SearchesInv /\ [MCNext]_allVars => SearchesInv'
  <2> SUFFICES ASSUME SearchesInv, [MCNext]_allVars PROVE SearchesInv'
    OBVIOUS
  <2>1. UNCHANGED scope
    BY DEF MCNext, allVars
  <2>2. CASE scope = "search"
    <3>1. Next \/ UNCHANGED vars
      BY <2>2 DEF MCNext, allVars, toolVars
    <3>2. SearchInv
      BY <2>2 DEF SearchesInv
    <3>3. ASSUME UNCHANGED vars PROVE SearchInv'
      BY <3>2, <3>3 DEF vars, SearchInv, SearchTypes, CachedIsWanted, CallIsServed
    <3>4. SearchInv'
      BY <3>1, <3>2, <3>3, SearchStep
    <3> QED
      BY <2>1, <2>2, <3>4 DEF SearchesInv
  <2>3. CASE scope = "fetch"
    <3>1. Fetch!Next \/ UNCHANGED fetchVars
      BY <2>3 DEF MCNext, allVars, toolVars
    <3>2. FetchInv
      BY <2>3 DEF SearchesInv
    <3>3. ASSUME UNCHANGED fetchVars PROVE FetchInv'
      BY <3>2, <3>3 DEF fetchVars, FetchInv, FetchTypes, PageIsDated, FetchIsServed, Fetch!Key
    <3>4. FetchInv'
      BY <3>1, <3>2, <3>3, FetchStep
    <3> QED
      BY <2>1, <2>3, <3>4 DEF SearchesInv
  <2> QED
    BY <2>1, <2>2, <2>3 DEF SearchesInv
<1>3. SearchesInv => SearchesAreAnswered
  BY SearchIsAnswered, FetchIsFresh DEF SearchesInv, SearchesAreAnswered
<1> QED
  BY <1>1, <1>2, <1>3, PTL DEF MCSpec

-----------------------------------------------------------------------------
(***************************************************************************)
(* The crontab.  What an agent that also adds may do, one that only        *)
(* removes does: facts about steps are of the former.                      *)
(***************************************************************************)

CronTables == {s \in Seq(Added!Lines) : Len(s) <= MaxLines}
Entries    == [line : 1..MaxLines, job : Jobs]
Knowledge  == [seen : SUBSET Entries, of : CronTables \cup {None}, line : 0..MaxLines,
               read : CronTables \cup {None}, asked : Jobs \cup {None}, gone : SUBSET Added!Lines]

\* A number that is to be removed was seen, with the job that is meant.
CronInv ==
  /\ table \in CronTables /\ agent \in [{Owner} -> Knowledge]
  /\ agent[Owner].of # None => agent[Owner].seen = Added!Numbered(agent[Owner].of)
  /\ agent[Owner].line > 0 =>
       [line |-> agent[Owner].line, job |-> agent[Owner].asked] \in agent[Owner].seen

NoneIsBlank(lines) == \A i \in DOMAIN lines : lines[i] # Blank

JobsAreOnce(lines) == \A i, k \in DOMAIN lines : lines[i] = lines[k] /\ lines[i] \in Jobs => i = k

LEMMA CronLimits == MaxLines \in Nat /\ MaxLines >= 2 /\ Comment \notin Jobs /\ Blank \notin Jobs
BY MCAssumption DEF Added!CrontabAssumption

LEMMA SameCardinality == \A S : Added!Cardinality(S) = Cardinality(S)
BY DEF Cardinality, Added!Cardinality

LEMMA BlankIsNoComment == Blank # Comment
<1>1. Cardinality({Comment, Blank, None}) = 3
  BY MCAssumption, SameCardinality DEF Added!CrontabAssumption
<1> SUFFICES ASSUME Blank = Comment PROVE FALSE
  OBVIOUS
<1>2. {Comment, Blank, None} = {Comment} \cup {None}
  OBVIOUS
<1>3. /\ IsFiniteSet({Comment}) /\ Cardinality({Comment}) = 1
      /\ IsFiniteSet({None}) /\ Cardinality({None}) = 1
  BY FS_Singleton
<1>4. Cardinality({Comment} \cup {None}) <= 2
  BY <1>3, FS_AddElement
<1> QED
  BY <1>1, <1>2, <1>4

LEMMA GreatestNatural ==
  ASSUME NEW n \in Nat, NEW S \in SUBSET (0..n), S # {}
  PROVE  \E x \in S : \A y \in S : y <= x
<1> DEFINE Below == {m \in Nat : \E x \in S : m = n - x}
<1>1. PICK b \in Below : \A c \in Below : b <= c
  <2>1. PICK x \in S : TRUE
    OBVIOUS
  <2>2. n - x \in Nat
    OBVIOUS
  <2>3. Below # {} /\ Below \in SUBSET Nat
    BY <2>2
  <2> HIDE DEF Below
  <2> QED
    BY <2>3, LeastNatural
<1>2. PICK x \in S : b = n - x
  OBVIOUS
<1>3. ASSUME NEW y \in S PROVE y <= x
  <2>1. n - y \in Below
    OBVIOUS
  <2>2. n - x <= n - y
    BY <1>1, <1>2, <2>1
  <2>3. x \in Int /\ y \in Int
    OBVIOUS
  <2> QED
    BY <2>2, <2>3
<1> QED
  BY <1>3

\* The numbers of a list are those of lines, counted from the first that is not
\* empty.
LEMMA NumberedAreEntries ==
  ASSUME NEW lines \in CronTables
  PROVE  /\ Added!Numbered(lines) \subseteq Entries
         /\ NoneIsBlank(lines) =>
              \A e \in Added!Numbered(lines) : e.line \in DOMAIN lines /\ lines[e.line] = e.job
<1> DEFINE blanks == {i \in 0..Len(lines) : \A j \in 1..i : lines[j] = Blank}
           first  == CHOOSE i \in blanks : \A j \in blanks : j <= i
<1>1. lines \in Seq(Added!Lines) /\ Len(lines) \in Nat /\ Len(lines) <= MaxLines
      /\ DOMAIN lines = 1..Len(lines)
  BY DEF CronTables
<1>2. 0 \in blanks /\ blanks \in SUBSET (0..Len(lines))
  BY <1>1
<1>3. first \in blanks
  <2> HIDE DEF blanks
  <2>1. \E x \in blanks : \A y \in blanks : y <= x
    BY <1>1, <1>2, GreatestNatural
  <2> QED
    BY <2>1
<1>4. first \in 0..Len(lines) /\ \A j \in 1..first : lines[j] = Blank
  BY <1>3
<1>5. Added!Numbered(lines) = {[line |-> i - first, job |-> lines[i]] : i \in {j \in DOMAIN lines : lines[j] \in Jobs}}
  BY DEF Added!Numbered
<1> HIDE DEF first
<1>6. ASSUME NEW i \in DOMAIN lines, lines[i] \in Jobs PROVE i - first \in 1..MaxLines
  <2>1. i \notin 1..first
    BY <1>4, <1>6, CronLimits
  <2>2. i \in 1..Len(lines) /\ first \in Nat
    BY <1>1, <1>4
  <2> QED
    BY <1>1, <2>1, <2>2, CronLimits
<1>7. ASSUME NoneIsBlank(lines) PROVE first = 0
  <2>1. CASE first > 0
    <3>1. 1 \in 1..first /\ 1 \in DOMAIN lines
      BY <1>1, <1>4, <2>1
    <3>2. lines[1] = Blank
      BY <1>4, <3>1
    <3> QED
      BY <1>7, <3>1, <3>2 DEF NoneIsBlank
  <2> QED
    BY <1>4, <2>1
<1>8. ASSUME NoneIsBlank(lines), NEW i \in DOMAIN lines PROVE i - first = i
  BY <1>1, <1>7, <1>8
<1>9. Added!Numbered(lines) \subseteq Entries
  BY <1>5, <1>6 DEF Entries
<1> QED
  BY <1>5, <1>8, <1>9

\* Without a line, every other is what it was.
LEMMA WithoutLine ==
  ASSUME NEW E, NEW s \in Seq(E), NEW n \in 1..Len(s)
  PROVE  /\ Added!Without(s, n) \in Seq(E)
         /\ Len(Added!Without(s, n)) = Len(s) - 1
         /\ \A i \in 1..(Len(s) - 1) :
              Added!Without(s, n)[i] = IF i < n THEN s[i] ELSE s[i + 1]
<1>1. Len(s) \in Nat /\ n \in Nat
  OBVIOUS
<1>2. /\ SubSeq(s, 1, n - 1) \in Seq(E) /\ Len(SubSeq(s, 1, n - 1)) = n - 1
      /\ \A i \in 1..(n - 1) : SubSeq(s, 1, n - 1)[i] = s[i]
  OBVIOUS
<1>3. /\ SubSeq(s, n + 1, Len(s)) \in Seq(E) /\ Len(SubSeq(s, n + 1, Len(s))) = Len(s) - n
      /\ \A i \in 1..(Len(s) - n) : SubSeq(s, n + 1, Len(s))[i] = s[n + i]
  OBVIOUS
<1> DEFINE a == SubSeq(s, 1, n - 1)
           b == SubSeq(s, n + 1, Len(s))
<1>4. Added!Without(s, n) = a \o b
  BY DEF Added!Without
<1> HIDE DEF a, b
<1>5. Len(a) = n - 1 /\ Len(b) = Len(s) - n /\ a \in Seq(E) /\ b \in Seq(E)
  BY <1>2, <1>3 DEF a, b
<1>6. /\ a \o b \in Seq(E) /\ Len(a \o b) = Len(a) + Len(b)
      /\ \A i \in 1..(Len(a) + Len(b)) : (a \o b)[i] = IF i <= Len(a) THEN a[i] ELSE b[i - Len(a)]
  BY <1>5, ConcatProperties
<1>7. Len(a \o b) = Len(s) - 1
  BY <1>1, <1>5, <1>6
<1>8. ASSUME NEW i \in 1..(Len(s) - 1) PROVE (a \o b)[i] = IF i < n THEN s[i] ELSE s[i + 1]
  <2>1. i \in 1..(Len(a) + Len(b))
    BY <1>1, <1>5
  <2>2. CASE i < n
    <3>1. i <= Len(a) /\ i \in 1..(n - 1)
      BY <1>1, <1>5, <2>2
    <3>2. a[i] = s[i]
      BY <1>2, <3>1 DEF a
    <3> QED
      BY <1>6, <2>1, <2>2, <3>1, <3>2
  <2>3. CASE ~(i < n)
    <3>1. ~(i <= Len(a)) /\ i - (n - 1) \in 1..(Len(s) - n) /\ n + (i - (n - 1)) = i + 1
      BY <1>1, <1>5, <2>3
    <3>2. b[i - (n - 1)] = s[i + 1]
      BY <1>3, <3>1 DEF b
    <3> QED
      BY <1>5, <1>6, <2>1, <2>3, <3>1, <3>2
  <2> QED
    BY <2>2, <2>3
<1> QED
  BY <1>4, <1>6, <1>7, <1>8

\* What is written is a table of lines that were read.
LEMMA RemovedIsTable ==
  ASSUME NEW E, NEW s \in Seq(E), NEW n \in Nat \ {0}
  PROVE  /\ Added!Removed(s, n) \in Seq(E)
         /\ Len(Added!Removed(s, n)) <= Len(s)
         /\ Len(Added!Removed(s, n)) >= Len(s) - 1
<1>1. Len(s) \in Nat
  OBVIOUS
<1>2. CASE n > Len(s)
  BY <1>1, <1>2 DEF Added!Removed
<1>3. CASE ~(n > Len(s))
  <2>1. n \in 1..Len(s)
    BY <1>1, <1>3
  <2>2. Added!Removed(s, n) = Added!Without(s, n)
    BY <1>3 DEF Added!Removed
  <2>3. Added!Without(s, n) \in Seq(E) /\ Len(Added!Without(s, n)) = Len(s) - 1
    BY <2>1, WithoutLine
  <2> QED
    BY <1>1, <2>2, <2>3
<1> QED
  BY <1>2, <1>3

LEMMA RemovingIsAdding == Removing!Next => Added!Next
BY DEF Removing!Next, Added!Next, Removing!List, Added!List, Removing!ReadTable, Added!ReadTable,
   Removing!WriteTable, Added!WriteTable, Removing!Add, Added!Add, Removing!CallRemove,
   Added!CallRemove, Removing!Numbered, Added!Numbered, Removing!Removed, Added!Removed,
   Removing!Without, Added!Without

\* The steps of the one agent.
CronList ==
  /\ agent[Owner].line = 0 /\ UNCHANGED table
  /\ agent' = [agent EXCEPT ![Owner].seen = Added!Numbered(table), ![Owner].of = table]

CronCallRemove(entry) ==
  /\ agent[Owner].line = 0 /\ entry \in agent[Owner].seen /\ UNCHANGED table
  /\ agent' = [agent EXCEPT ![Owner].line = entry.line, ![Owner].asked = entry.job]

CronGiveUp ==
  /\ agent[Owner].line > 0 /\ agent[Owner].read = None /\ UNCHANGED table
  /\ agent' = [agent EXCEPT ![Owner] = [@ EXCEPT !.line = 0, !.asked = None]]

CronRead ==
  /\ agent[Owner].line > 0 /\ agent[Owner].read = None /\ UNCHANGED table
  /\ agent' = [agent EXCEPT ![Owner] = [@ EXCEPT !.read = table]]

CronWrite(gone) ==
  /\ agent[Owner].line > 0 /\ agent[Owner].read # None
  /\ table' = Added!Removed(agent[Owner].read, agent[Owner].line)
  /\ \/ gone = agent[Owner].gone /\ agent[Owner].line > Len(agent[Owner].read)
     \/ /\ gone = agent[Owner].gone \cup {agent[Owner].read[agent[Owner].line]}
        /\ ~ (agent[Owner].line > Len(agent[Owner].read))
  /\ agent' = [agent EXCEPT ![Owner] = [@ EXCEPT !.line = 0, !.read = None, !.asked = None, !.gone = gone]]

CronAdd(job, comment) ==
  /\ table' = (IF comment THEN <<Comment, job>> ELSE <<job>>)
  /\ UNCHANGED agent

LEMMA CronSteps ==
  ASSUME Added!Next
  PROVE  \/ CronList \/ CronGiveUp \/ CronRead
         \/ \E entry : CronCallRemove(entry)
         \/ \E gone : CronWrite(gone)
         \/ \E job \in Jobs, comment \in BOOLEAN : CronAdd(job, comment)
<1>1. CASE Added!List(Owner)
  BY <1>1 DEF Added!List, CronList
<1>2. CASE Added!ReadTable(Owner)
  BY <1>2 DEF Added!ReadTable, CronGiveUp, CronRead
<1>3. CASE Added!WriteTable(Owner)
  <2> DEFINE me == agent[Owner]
             gone == IF me.line > Len(me.read) THEN me.gone ELSE me.gone \cup {me.read[me.line]}
  <2>1. /\ me.line > 0 /\ me.read # None /\ table' = Added!Removed(me.read, me.line)
        /\ agent' = [agent EXCEPT ![Owner] =
             [@ EXCEPT !.line = 0, !.read = None, !.asked = None, !.gone = gone]]
    BY <1>3 DEF Added!WriteTable
  <2>2. CronWrite(gone)
    BY <2>1 DEF CronWrite
  <2> QED
    BY <2>2
<1>4. CASE \E job \in Jobs, comment \in BOOLEAN : Added!Add(Owner, job, comment)
  BY <1>4 DEF Added!Add, CronAdd
<1>5. CASE \E entry \in agent[Owner].seen : Added!CallRemove(Owner, entry)
  BY <1>5 DEF Added!CallRemove, CronCallRemove
<1> QED
  BY <1>1, <1>2, <1>3, <1>4, <1>5 DEF Added!Next

LEMMA CronStep == ASSUME CronInv, Added!Next PROVE CronInv'
<1> DEFINE me == agent[Owner]
<1>0. table \in CronTables /\ agent \in [{Owner} -> Knowledge] /\ me \in Knowledge
  BY DEF CronInv
<1>z. 0 \in 0..MaxLines
  BY CronLimits
<1>e. \A e \in Entries : e.line \in 0..MaxLines /\ e.job \in Jobs /\ e = [line |-> e.line, job |-> e.job]
  BY DEF Entries
<1>1. CASE CronList
  <2> DEFINE new == [me EXCEPT !.seen = Added!Numbered(table), !.of = table]
  <2>1. agent' = [agent EXCEPT ![Owner] = new] /\ UNCHANGED table /\ me.line = 0
    BY <1>0, <1>1 DEF CronList, Knowledge
  <2>2. new \in Knowledge
    BY <1>0, NumberedAreEntries DEF Knowledge
  <2>3. agent' \in [{Owner} -> Knowledge] /\ agent'[Owner] = new
    BY <1>0, <2>1, <2>2
  <2>4. new.line = 0 /\ new.of = table /\ new.seen = Added!Numbered(table)
    BY <1>0, <2>1 DEF Knowledge
  <2> HIDE DEF new, me
  <2> QED
    BY <1>0, <2>1, <2>3, <2>4 DEF CronInv
<1>2. CASE \E entry : CronCallRemove(entry)
  <2>1. PICK entry : CronCallRemove(entry)
    BY <1>2
  <2> DEFINE new == [me EXCEPT !.line = entry.line, !.asked = entry.job]
  <2>2. agent' = [agent EXCEPT ![Owner] = new] /\ UNCHANGED table /\ entry \in me.seen
    BY <1>0, <2>1 DEF CronCallRemove, Knowledge
  <2>3. entry \in Entries
    BY <1>0, <2>2 DEF Knowledge
  <2>4. new \in Knowledge /\ new.line = entry.line /\ new.asked = entry.job
        /\ new.of = me.of /\ new.seen = me.seen
    BY <1>0, <1>e, <2>3 DEF Knowledge
  <2>5. [line |-> new.line, job |-> new.asked] \in new.seen
    BY <1>e, <2>2, <2>3, <2>4
  <2>6. agent' \in [{Owner} -> Knowledge] /\ agent'[Owner] = new
    BY <1>0, <2>2, <2>4
  <2> HIDE DEF new
  <2> QED
    BY <1>0, <2>2, <2>4, <2>5, <2>6 DEF CronInv
<1>3. CASE CronGiveUp
  <2> DEFINE new == [me EXCEPT !.line = 0, !.asked = None]
  <2>1. agent' = [agent EXCEPT ![Owner] = new] /\ UNCHANGED table
    BY <1>3 DEF CronGiveUp
  <2>2. new \in Knowledge /\ new.line = 0 /\ new.of = me.of /\ new.seen = me.seen
    BY <1>0, <1>z DEF Knowledge
  <2>3. agent' \in [{Owner} -> Knowledge] /\ agent'[Owner] = new
    BY <1>0, <2>1, <2>2
  <2> HIDE DEF new
  <2> QED
    BY <1>0, <2>1, <2>2, <2>3 DEF CronInv
<1>4. CASE CronRead
  <2> DEFINE new == [me EXCEPT !.read = table]
  <2>1. agent' = [agent EXCEPT ![Owner] = new] /\ UNCHANGED table
    BY <1>4 DEF CronRead
  <2>2. new \in Knowledge /\ new.line = me.line /\ new.of = me.of /\ new.seen = me.seen
        /\ new.asked = me.asked
    BY <1>0 DEF Knowledge
  <2>3. agent' \in [{Owner} -> Knowledge] /\ agent'[Owner] = new
    BY <1>0, <2>1, <2>2
  <2> HIDE DEF new
  <2> QED
    BY <1>0, <2>1, <2>2, <2>3 DEF CronInv
<1>5. CASE \E gone : CronWrite(gone)
  <2>1. PICK gone : CronWrite(gone)
    BY <1>5
  <2> DEFINE new == [me EXCEPT !.line = 0, !.read = None, !.asked = None, !.gone = gone]
  <2>2. agent' = [agent EXCEPT ![Owner] = new] /\ table' = Added!Removed(me.read, me.line)
        /\ me.read # None /\ me.line > 0
    BY <2>1 DEF CronWrite
  <2>3. me.read \in CronTables /\ me.line \in 0..MaxLines /\ me.gone \in SUBSET Added!Lines
    BY <1>0, <2>2 DEF Knowledge
  <2>4. me.read \in Seq(Added!Lines) /\ Len(me.read) \in Nat /\ Len(me.read) <= MaxLines
    BY <2>3 DEF CronTables
  <2>5. me.line \in Nat \ {0} /\ MaxLines \in Nat
    BY <2>2, <2>3, CronLimits
  <2>6. gone \in SUBSET Added!Lines
    <3>1. CASE me.line > Len(me.read)
      BY <2>1, <2>3, <3>1 DEF CronWrite
    <3>2. CASE ~(me.line > Len(me.read))
      <4>1. me.line \in 1..Len(me.read)
        BY <2>4, <2>5, <3>2
      <4>2. me.read[me.line] \in Added!Lines
        BY <2>4, <4>1
      <4>3. gone = me.gone \cup {me.read[me.line]}
        BY <2>1, <3>2 DEF CronWrite
      <4> QED
        BY <2>3, <4>2, <4>3
    <3> QED
      BY <3>1, <3>2
  <2>7. table' \in Seq(Added!Lines) /\ Len(table') <= Len(me.read)
    BY <2>2, <2>4, <2>5, RemovedIsTable
  <2>8. table' \in CronTables
    <3>1. Len(table') \in Nat
      BY <2>7
    <3> QED
      BY <2>4, <2>5, <2>7, <3>1 DEF CronTables
  <2>9. new \in Knowledge /\ new.line = 0 /\ new.of = me.of /\ new.seen = me.seen
    BY <1>0, <1>z, <2>6 DEF Knowledge
  <2>10. agent' \in [{Owner} -> Knowledge] /\ agent'[Owner] = new
    BY <1>0, <2>2, <2>9
  <2> HIDE DEF new
  <2> QED
    BY <1>0, <2>8, <2>9, <2>10 DEF CronInv
<1>6. CASE \E job \in Jobs, comment \in BOOLEAN : CronAdd(job, comment)
  <2>1. PICK job \in Jobs, comment \in BOOLEAN : CronAdd(job, comment)
    BY <1>6
  <2>2. job \in Added!Lines /\ Comment \in Added!Lines
    BY DEF Added!Lines
  <2>3. /\ <<Comment, job>> \in Seq(Added!Lines) /\ Len(<<Comment, job>>) = 2
        /\ <<job>> \in Seq(Added!Lines) /\ Len(<<job>>) = 1
    BY <2>2
  <2>4. table' \in CronTables /\ UNCHANGED agent
    BY <2>1, <2>3, CronLimits DEF CronAdd, CronTables
  <2> QED
    BY <2>4 DEF CronInv
<1> QED
  BY <1>1, <1>2, <1>3, <1>4, <1>5, <1>6, CronSteps

LEMMA CronInit ==
  ASSUME Added!Init, table \in CronTables
  PROVE  CronInv
<1>1. 0 \in 0..MaxLines
  BY CronLimits
<1>2. Added!NewAgent \in Knowledge /\ Added!NewAgent.line = 0 /\ Added!NewAgent.of = None
  BY <1>1 DEF Added!NewAgent, Knowledge
<1>3. agent = [a \in {Owner} |-> Added!NewAgent]
  BY DEF Added!Init
<1> QED
  BY <1>2, <1>3 DEF CronInv

(***************************************************************************)
(* Tables without empty lines, so that numbers are those of lines.         *)
(***************************************************************************)

AddedInv ==
  /\ CronInv /\ NoneIsBlank(table)
  /\ agent[Owner].of # None => NoneIsBlank(agent[Owner].of)
  /\ agent[Owner].read # None => NoneIsBlank(agent[Owner].read) /\ agent[Owner].line > 0

LEMMA RemovedKeepsBlanks ==
  ASSUME NEW s \in CronTables, NEW n \in Nat \ {0}, NoneIsBlank(s)
  PROVE  NoneIsBlank(Added!Removed(s, n))
<1>1. s \in Seq(Added!Lines) /\ Len(s) \in Nat /\ DOMAIN s = 1..Len(s)
  BY DEF CronTables
<1>2. CASE n > Len(s)
  BY <1>2 DEF Added!Removed
<1>3. CASE ~(n > Len(s))
  <2> DEFINE rest == Added!Without(s, n)
  <2>1. n \in 1..Len(s) /\ Added!Removed(s, n) = rest
    BY <1>1, <1>3 DEF Added!Removed
  <2>2. /\ rest \in Seq(Added!Lines) /\ Len(rest) = Len(s) - 1
        /\ \A i \in 1..(Len(s) - 1) : rest[i] = IF i < n THEN s[i] ELSE s[i + 1]
    BY <1>1, <2>1, WithoutLine
  <2> HIDE DEF rest
  <2>3. DOMAIN rest = 1..(Len(s) - 1)
    BY <2>2
  <2>4. ASSUME NEW i \in DOMAIN rest PROVE rest[i] # Blank
    <3>1. i \in 1..(Len(s) - 1) /\ i \in 1..Len(s) /\ i + 1 \in 1..Len(s)
      BY <1>1, <2>3
    <3>2. s[i] # Blank /\ s[i + 1] # Blank
      BY <1>1, <3>1 DEF NoneIsBlank
    <3> QED
      BY <2>2, <3>1, <3>2
  <2> QED
    BY <2>1, <2>4 DEF NoneIsBlank
<1> QED
  BY <1>2, <1>3

LEMMA AddedInit == ASSUME Added!Init PROVE AddedInv
<1>1. table \in AddedTables /\ agent = [a \in {Owner} |-> Added!NewAgent]
  BY DEF Added!Init
<1>2. table \in CronTables
  BY <1>1, MCAssumption DEF Added!TablesAssumption, CronTables
<1>3. table \in Seq(Jobs \cup {Comment})
  BY <1>1, ScopeAssumption
<1>4. Blank \notin Jobs \cup {Comment}
  BY MCAssumption, BlankIsNoComment DEF Added!CrontabAssumption
<1>5. NoneIsBlank(table)
  BY <1>3, <1>4 DEF NoneIsBlank
<1>6. CronInv
  BY <1>2, CronInit
<1> QED
  BY <1>1, <1>5, <1>6 DEF AddedInv, Added!NewAgent

LEMMA AddedStep == ASSUME AddedInv, Added!Next PROVE AddedInv'
<1> DEFINE me == agent[Owner]
<1>0. /\ CronInv /\ CronInv' /\ NoneIsBlank(table)
      /\ agent \in [{Owner} -> Knowledge] /\ me \in Knowledge
  BY CronStep DEF AddedInv, CronInv
<1>1. CASE CronList \/ \E entry : CronCallRemove(entry)
  <2>1. /\ UNCHANGED table /\ me.line = 0 /\ agent'[Owner].read = me.read
        /\ agent'[Owner].of \in {me.of, table}
    BY <1>0, <1>1 DEF CronList, CronCallRemove, Knowledge
  <2>2. me.read = None
    <3>1. ~(0 > 0)
      OBVIOUS
    <3> QED
      BY <2>1, <3>1 DEF AddedInv
  <2> HIDE DEF me
  <2> QED
    BY <1>0, <2>1, <2>2 DEF AddedInv, me
<1>2. CASE CronGiveUp
  <2>1. UNCHANGED table /\ agent'[Owner].read = None /\ agent'[Owner].of = me.of
    BY <1>0, <1>2 DEF CronGiveUp, Knowledge
  <2> QED
    BY <1>0, <2>1 DEF AddedInv
<1>3. CASE CronRead
  <2>1. UNCHANGED table /\ agent'[Owner].read = table /\ agent'[Owner].of = me.of
        /\ agent'[Owner].line = me.line /\ me.line > 0
    BY <1>0, <1>3 DEF CronRead, Knowledge
  <2> QED
    BY <1>0, <2>1 DEF AddedInv
<1>4. CASE \E gone : CronWrite(gone)
  <2>1. /\ table' = Added!Removed(me.read, me.line) /\ me.line > 0 /\ me.read # None
        /\ agent'[Owner].read = None /\ agent'[Owner].of = me.of
    BY <1>0, <1>4 DEF CronWrite, Knowledge
  <2>2. me.read \in CronTables /\ NoneIsBlank(me.read) /\ me.line \in 0..MaxLines
    BY <1>0, <2>1 DEF Knowledge, AddedInv
  <2>3. me.line \in Nat \ {0}
    BY <2>1, <2>2, CronLimits
  <2>4. NoneIsBlank(table')
    BY <2>1, <2>2, <2>3, RemovedKeepsBlanks
  <2>5. NoneIsBlank(table)'
    BY <2>4 DEF NoneIsBlank
  <2> HIDE DEF me
  <2> QED
    BY <1>0, <2>1, <2>5 DEF AddedInv, me
<1>5. CASE \E job \in Jobs, comment \in BOOLEAN : CronAdd(job, comment)
  <2>1. PICK job \in Jobs, comment \in BOOLEAN : CronAdd(job, comment)
    BY <1>5
  <2>2. job # Blank /\ Comment # Blank
    BY CronLimits, BlankIsNoComment
  <2>3. \A i \in DOMAIN table' : table'[i] # Blank
    BY <2>1, <2>2 DEF CronAdd
  <2> QED
    BY <1>0, <2>1, <2>3 DEF AddedInv, CronAdd, NoneIsBlank
<1> QED
  BY <1>1, <1>2, <1>3, <1>4, <1>5, CronSteps

LEMMA CronIsTyped ==
  ASSUME CronInv
  PROVE  Added!TypeOK /\ Removing!TypeOK
<1>1. agent[Owner] \in Knowledge /\ table \in Seq(Added!Lines)
  BY DEF CronInv, CronTables
<1>2. \A s \in CronTables : s \in Seq(Added!Lines)
  BY DEF CronTables
<1>3. Added!Lines = Removing!Lines
  BY DEF Added!Lines, Removing!Lines
<1> DEFINE me == agent[Owner]
<1>4. /\ me.seen \subseteq [line : 1..MaxLines, job : Jobs]
      /\ me.of = None \/ me.of \in Seq(Added!Lines)
      /\ me.read = None \/ me.read \in Seq(Added!Lines)
      /\ me.line \in 0..MaxLines /\ me.asked \in Jobs \cup {None} /\ me.gone \subseteq Added!Lines
  BY <1>1, <1>2 DEF Knowledge, Entries
<1> HIDE DEF me
<1>5. Added!TypeOK
  BY <1>1, <1>4 DEF Added!TypeOK, me
<1> QED
  BY <1>1, <1>3, <1>4, <1>5 DEF Removing!TypeOK, me

LEMMA AddedIsExact == ASSUME AddedInv PROVE Added!TypeOK /\ Added!ListedIsRemoved
<1> DEFINE me == agent[Owner]
<1>1. ASSUME me.read # None, me.read = me.of
      PROVE  me.line <= Len(me.read) /\ me.read[me.line] = me.asked
  <2>1. CronInv /\ me.line > 0 /\ me \in Knowledge /\ NoneIsBlank(me.of)
    BY <1>1 DEF AddedInv, CronInv
  <2>2. me.of \in CronTables
    BY <1>1, <2>1 DEF Knowledge
  <2>3. [line |-> me.line, job |-> me.asked] \in Added!Numbered(me.of)
    BY <1>1, <2>1 DEF CronInv
  <2>4. me.line \in DOMAIN me.of /\ me.of[me.line] = me.asked
    BY <2>1, <2>2, <2>3, NumberedAreEntries
  <2>5. DOMAIN me.of = 1..Len(me.of)
    BY <2>2 DEF CronTables
  <2> HIDE DEF me
  <2> QED
    BY <1>1, <2>4, <2>5
<1>2. Added!TypeOK
  BY CronIsTyped DEF AddedInv
<1> QED
  BY <1>1, <1>2 DEF Added!ListedIsRemoved

(***************************************************************************)
(* Tables that nobody adds to.                                             *)
(***************************************************************************)

InTable(lines) == {lines[i] : i \in DOMAIN lines} \cap Jobs

RemovingInv ==
  /\ CronInv /\ JobsAreOnce(table)
  /\ agent[Owner].read # None => agent[Owner].read = table /\ agent[Owner].line > 0
  /\ InTable(table) \cap agent[Owner].gone = {}

LEMMA RemovingInit == ASSUME Removing!Init PROVE RemovingInv
<1>1. table \in RemovedTables /\ agent = [a \in {Owner} |-> Added!NewAgent]
  BY DEF Removing!Init, Removing!NewAgent, Added!NewAgent
<1>2. table \in CronTables
  <2>1. table \in Seq(Removing!Lines) /\ Len(table) <= MaxLines
    BY <1>1, MCAssumption DEF Removing!TablesAssumption
  <2> QED
    BY <2>1 DEF CronTables, Removing!Lines, Added!Lines
<1>3. JobsAreOnce(table)
  BY <1>1, ScopeAssumption DEF JobsAreOnce
<1>4. CronInv
  <2>1. 0 \in 0..MaxLines
    BY CronLimits
  <2>2. Added!NewAgent \in Knowledge /\ Added!NewAgent.line = 0 /\ Added!NewAgent.of = None
    BY <2>1 DEF Added!NewAgent, Knowledge
  <2> QED
    BY <1>1, <1>2, <2>2 DEF CronInv
<1> QED
  BY <1>1, <1>3, <1>4 DEF RemovingInv, Added!NewAgent

\* What is written holds each job that was read once, but not the one of line n.
LEMMA RemovedIsGone ==
  ASSUME NEW s \in CronTables, NEW n \in 1..Len(s), JobsAreOnce(s)
  PROVE  /\ JobsAreOnce(Added!Removed(s, n))
         /\ InTable(Added!Removed(s, n)) \subseteq InTable(s) \ {s[n]}
<1>1. s \in Seq(Added!Lines) /\ Len(s) \in Nat /\ DOMAIN s = 1..Len(s) /\ n \in Nat
  BY DEF CronTables
<1> DEFINE rest == Added!Without(s, n)
           from(i) == IF i < n THEN i ELSE i + 1
<1>2. Added!Removed(s, n) = rest
  <2>1. ~(n > Len(s))
    BY <1>1
  <2> QED
    BY <2>1 DEF Added!Removed
<1>3. /\ rest \in Seq(Added!Lines) /\ Len(rest) = Len(s) - 1
      /\ \A i \in 1..(Len(s) - 1) : rest[i] = IF i < n THEN s[i] ELSE s[i + 1]
  BY <1>1, WithoutLine
<1> HIDE DEF rest
<1>4. DOMAIN rest = 1..(Len(s) - 1)
  BY <1>3
<1>5. ASSUME NEW i \in DOMAIN rest
      PROVE  from(i) \in DOMAIN s /\ from(i) # n /\ rest[i] = s[from(i)]
  <2>1. i \in 1..(Len(s) - 1)
    BY <1>4
  <2>2. from(i) \in 1..Len(s) /\ from(i) # n
    BY <1>1, <2>1
  <2> QED
    BY <1>1, <1>3, <2>1, <2>2
<1>6. ASSUME NEW i \in DOMAIN rest, NEW k \in DOMAIN rest, from(i) = from(k) PROVE i = k
  <2>1. i \in Nat /\ k \in Nat
    BY <1>1, <1>4
  <2> QED
    BY <1>1, <1>6, <2>1
<1> HIDE DEF from
<1>7. JobsAreOnce(rest)
  BY <1>5, <1>6 DEF JobsAreOnce
<1>8. ASSUME NEW j \in InTable(rest) PROVE j \in InTable(s) /\ j # s[n]
  <2>1. PICK i \in DOMAIN rest : j = rest[i] /\ j \in Jobs
    BY DEF InTable
  <2>2. j = s[from(i)] /\ from(i) \in DOMAIN s /\ from(i) # n
    BY <1>5, <2>1
  <2>3. n \in DOMAIN s
    BY <1>1
  <2> QED
    BY <2>1, <2>2, <2>3 DEF InTable, JobsAreOnce
<1> QED
  BY <1>2, <1>7, <1>8

LEMMA RemovingSteps ==
  ASSUME Removing!Next
  PROVE  \/ CronList \/ CronGiveUp \/ CronRead
         \/ \E entry : CronCallRemove(entry)
         \/ \E gone : CronWrite(gone)
<1>1. CASE Removing!List(Owner)
  BY <1>1 DEF Removing!List, CronList, Removing!Numbered, Added!Numbered
<1>2. CASE Removing!ReadTable(Owner)
  BY <1>2 DEF Removing!ReadTable, CronGiveUp, CronRead
<1>3. CASE Removing!WriteTable(Owner)
  <2> DEFINE me == agent[Owner]
             gone == IF me.line > Len(me.read) THEN me.gone ELSE me.gone \cup {me.read[me.line]}
  <2>1. /\ me.line > 0 /\ me.read # None /\ table' = Removing!Removed(me.read, me.line)
        /\ agent' = [agent EXCEPT ![Owner] =
             [@ EXCEPT !.line = 0, !.read = None, !.asked = None, !.gone = gone]]
    BY <1>3 DEF Removing!WriteTable
  <2>2. Removing!Removed(me.read, me.line) = Added!Removed(me.read, me.line)
    BY DEF Removing!Removed, Added!Removed, Removing!Without, Added!Without
  <2>3. CronWrite(gone)
    BY <2>1, <2>2 DEF CronWrite
  <2> QED
    BY <2>3
<1>5. CASE \E entry \in agent[Owner].seen : Removing!CallRemove(Owner, entry)
  BY <1>5 DEF Removing!CallRemove, CronCallRemove
<1> QED
  BY <1>1, <1>2, <1>3, <1>5 DEF Removing!Next, Removing!Add

LEMMA RemovingStep ==
  ASSUME RemovingInv, Removing!Next
  PROVE  RemovingInv' /\ Len(table') >= Len(table) - 1
<1> DEFINE me == agent[Owner]
<1>0. /\ CronInv /\ CronInv' /\ JobsAreOnce(table)
      /\ agent \in [{Owner} -> Knowledge] /\ me \in Knowledge
      /\ InTable(table) \cap me.gone = {}
  BY CronStep, RemovingIsAdding DEF RemovingInv, CronInv
<1>t. table \in Seq(Added!Lines) /\ Len(table) \in Nat
  BY <1>0 DEF CronInv, CronTables
<1>s. ASSUME UNCHANGED table PROVE Len(table') >= Len(table) - 1
  BY <1>s, <1>t
<1>1. CASE CronList \/ \E entry : CronCallRemove(entry)
  <2>1. /\ UNCHANGED table /\ me.line = 0 /\ agent'[Owner].read = me.read
        /\ agent'[Owner].gone = me.gone
    <3>1. CASE CronList
      BY <1>0, <3>1 DEF CronList, Knowledge
    <3>2. CASE \E entry : CronCallRemove(entry)
      BY <1>0, <3>2 DEF CronCallRemove, Knowledge
    <3> QED
      BY <1>1, <3>1, <3>2
  <2>2. me.read = None
    <3>1. ~(0 > 0)
      OBVIOUS
    <3> QED
      BY <2>1, <3>1 DEF RemovingInv
  <2> HIDE DEF me
  <2> QED
    BY <1>0, <1>s, <2>1, <2>2 DEF RemovingInv, me, JobsAreOnce, InTable
<1>2. CASE CronGiveUp
  <2>1. UNCHANGED table /\ agent'[Owner].read = None /\ agent'[Owner].gone = me.gone
    BY <1>0, <1>2 DEF CronGiveUp, Knowledge
  <2> QED
    BY <1>0, <1>s, <2>1 DEF RemovingInv, JobsAreOnce, InTable
<1>3. CASE CronRead
  <2>1. UNCHANGED table /\ agent'[Owner].read = table /\ agent'[Owner].gone = me.gone
        /\ agent'[Owner].line = me.line /\ me.line > 0
    BY <1>0, <1>3 DEF CronRead, Knowledge
  <2> QED
    BY <1>0, <1>s, <2>1 DEF RemovingInv, JobsAreOnce, InTable
<1>4. CASE \E gone : CronWrite(gone)
  <2>1. PICK gone : CronWrite(gone)
    BY <1>4
  <2>2. /\ table' = Added!Removed(me.read, me.line) /\ me.line > 0 /\ me.read # None
        /\ agent'[Owner].read = None /\ agent'[Owner].gone = gone
    BY <1>0, <2>1 DEF CronWrite, Knowledge
  <2>3. me.read = table /\ me.line \in 0..MaxLines
    BY <1>0, <2>2 DEF Knowledge, RemovingInv
  <2>4. me.line \in Nat \ {0}
    BY <2>2, <2>3, CronLimits
  <2>5. Len(table') >= Len(table) - 1
    BY <1>t, <2>2, <2>3, <2>4, RemovedIsTable
  <2>6. JobsAreOnce(table') /\ InTable(table') \cap gone = {}
    <3>1. CASE me.line > Len(table)
      <4>1. gone = me.gone /\ table' = table
        BY <2>1, <2>2, <2>3, <3>1 DEF CronWrite, Added!Removed
      <4> QED
        BY <1>0, <4>1
    <3>2. CASE ~(me.line > Len(table))
      <4>1. gone = me.gone \cup {table[me.line]}
        BY <2>1, <2>3, <3>2 DEF CronWrite
      <4>2. me.line \in 1..Len(table)
        BY <1>t, <2>4, <3>2
      <4>3. /\ JobsAreOnce(Added!Removed(table, me.line))
            /\ InTable(Added!Removed(table, me.line)) \subseteq InTable(table) \ {table[me.line]}
        BY <1>0, <4>2, RemovedIsGone DEF CronInv
      <4> QED
        BY <1>0, <2>2, <2>3, <4>1, <4>3
    <3> QED
      BY <3>1, <3>2
  <2>7. JobsAreOnce(table)' /\ (InTable(table) \cap agent[Owner].gone = {})'
    BY <2>2, <2>6 DEF JobsAreOnce, InTable
  <2> QED
    BY <1>0, <2>2, <2>5, <2>7 DEF RemovingInv
<1> QED
  BY <1>1, <1>2, <1>3, <1>4, RemovingSteps

LEMMA RemovingIsFinal == ASSUME RemovingInv PROVE Removing!TypeOK /\ Removing!RemovedStaysRemoved
<1>1. Removing!TypeOK
  BY CronIsTyped DEF RemovingInv
<1> QED
  BY <1>1 DEF RemovingInv, Removing!RemovedStaysRemoved, Removing!InTable, InTable

(***************************************************************************)
(* Expressions.                                                            *)
(***************************************************************************)

ExpressionInv ==
  /\ verdict \in {"none", "valid", "invalid"}
  /\ verdict = "valid" => Cron!validate(expression)
  /\ verdict = "invalid" => ~Cron!validate(expression)

LEMMA ExpressionStep == ASSUME ExpressionInv, Cron!Next PROVE ExpressionInv'
<1>1. Cron!validate(expression)' <=> Cron!validate(expression)
  BY DEF Cron!Next, Cron!Validate, Cron!validate, Cron!validateCronField
<1> QED
  BY <1>1 DEF ExpressionInv, Cron!Next, Cron!Validate

LEMMA ExpressionIsJudged == ASSUME ExpressionInv PROVE Cron!ValidPasses /\ Cron!MalformedFails
<1>1. Cron!CronAccepts(expression) => Cron!validate(expression)
  BY DEF Cron!CronAccepts, Cron!validate, Cron!validateCronField
<1>2. ASSUME Cron!validate(expression)
      PROVE  /\ Len(expression) = 5
             /\ \A i \in DOMAIN expression : \A k \in DOMAIN expression[i] : expression[i][k].ends # 3
  <2>1. ~(3 <= 2)
    OBVIOUS
  <2> QED
    BY <1>2, <2>1, Zenon DEF Cron!validate, Cron!validateCronField
<1> QED
  BY <1>1, <1>2 DEF ExpressionInv, Cron!ValidPasses, Cron!MalformedFails

CrontabInv ==
  /\ scope = "adding" => AddedInv
  /\ scope = "removing" => RemovingInv
  /\ scope = "cron" => ExpressionInv

\* A job is removed by the number it was listed under, alone, and for good; and
\* an expression that works is valid, one that is malformed is not.
THEOREM SchedulesStayExact == MCSpec => SchedulesAreExact
<1>1. MCInit => CrontabInv
  BY AddedInit, RemovingInit DEF MCInit, CrontabInv, Cron!Init, ExpressionInv
<1>2. CrontabInv /\ [MCNext]_allVars =>
        CrontabInv' /\ (scope = "removing" => Removing!TakesOneLine \/ UNCHANGED table)
  <2> SUFFICES ASSUME CrontabInv, [MCNext]_allVars
               PROVE  CrontabInv' /\ (scope = "removing" => Removing!TakesOneLine \/ UNCHANGED table)
    OBVIOUS
  <2>1. UNCHANGED scope
    BY DEF MCNext, allVars
  <2>2. CASE scope = "adding"
    <3>1. Added!Next \/ UNCHANGED cronVars
      BY <2>2 DEF MCNext, allVars, toolVars
    <3>2. AddedInv
      BY <2>2 DEF CrontabInv
    <3>3. ASSUME UNCHANGED cronVars PROVE AddedInv'
      BY <3>2, <3>3 DEF cronVars, AddedInv, CronInv, NoneIsBlank
    <3>4. AddedInv'
      BY <3>1, <3>2, <3>3, AddedStep
    <3> QED
      BY <2>1, <2>2, <3>4 DEF CrontabInv
  <2>3. CASE scope = "removing"
    <3>1. Removing!Next \/ UNCHANGED cronVars
      BY <2>3 DEF MCNext, allVars, toolVars
    <3>2. RemovingInv
      BY <2>3 DEF CrontabInv
    <3>3. ASSUME UNCHANGED cronVars PROVE RemovingInv' /\ UNCHANGED table
      BY <3>2, <3>3 DEF cronVars, RemovingInv, CronInv, JobsAreOnce, InTable
    <3>4. RemovingInv' /\ (Removing!TakesOneLine \/ UNCHANGED table)
      BY <3>1, <3>2, <3>3, RemovingStep DEF Removing!TakesOneLine
    <3> QED
      BY <2>1, <2>3, <3>4 DEF CrontabInv
  <2>4. CASE scope = "cron"
    <3>1. Cron!Next \/ UNCHANGED exprVars
      BY <2>4 DEF MCNext, allVars, toolVars
    <3>2. ExpressionInv
      BY <2>4 DEF CrontabInv
    <3>3. ASSUME UNCHANGED exprVars PROVE ExpressionInv'
      BY <3>2, <3>3 DEF exprVars, ExpressionInv, Cron!validate, Cron!validateCronField
    <3>4. ExpressionInv'
      BY <3>1, <3>2, <3>3, ExpressionStep
    <3> QED
      BY <2>1, <2>4, <3>4 DEF CrontabInv
  <2> QED
    BY <2>1, <2>2, <2>3, <2>4 DEF CrontabInv
<1>3. CrontabInv => /\ scope = "adding" => Added!TypeOK /\ Added!ListedIsRemoved
                    /\ scope = "removing" => Removing!TypeOK /\ Removing!RemovedStaysRemoved
                    /\ scope = "cron" => Cron!ValidPasses /\ Cron!MalformedFails
  BY AddedIsExact, RemovingIsFinal, ExpressionIsJudged DEF CrontabInv
<1>4. CrontabInv /\ [MCNext]_allVars => [scope = "removing" => Removing!TakesOneLine]_table
  BY <1>2
<1>5. CrontabInv /\ [MCNext]_allVars => CrontabInv'
  BY <1>2
<1> QED
  BY <1>1, <1>3, <1>4, <1>5, PTL DEF MCSpec, SchedulesAreExact

-----------------------------------------------------------------------------
(***************************************************************************)
(* Skills on disk.  A call that overlaps no other for its name finds the   *)
(* file as its last step left it, and whatever is not a skill is there     *)
(* because of a call that is writing, was cut short or has a name or       *)
(* description that the loader rejects.                                    *)
(***************************************************************************)

SkillNames == {SkillRequest[c].name : c \in Creators}

SkillFile(c) == files[SkillRequest[c].name]

InCreation(c) == created[c] \in {"open", "write"}

LibraryTypes ==
  /\ created \in [Creators -> {"idle", "open", "write", "created", "cut", "failed"}]
  /\ files \in [SkillNames -> {"absent", "broken"} \cup Creators]
  /\ DOMAIN registry = SkillNames
  /\ overlapped \subseteq Creators
  /\ built \in [due : SUBSET Creators, spoilers : SUBSET Creators, present : SUBSET SkillNames]

SkillIsKept(c) ==
  c \notin overlapped => /\ created[c] = "open" => SkillFile(c) = "absent"
                         /\ created[c] = "write" => SkillFile(c) = "broken"
                         /\ created[c] = "created" => SkillFile(c) = c

\* Nobody else is creating the name of a call that overlaps no other.
IsAlone(c) ==
  c \notin overlapped /\ created[c] \in {"open", "write", "created"} =>
    \A d \in Creators \ {c} : InCreation(d) => SkillRequest[d].name # SkillRequest[c].name

FileIsExplained(c) ==
  /\ SkillFile(c) = "broken" =>
       \E d \in Creators : /\ SkillRequest[d].name = SkillRequest[c].name
                           /\ created[d] \in {"write", "cut"}
  /\ SkillFile(c) \in Creators => /\ SkillRequest[SkillFile(c)].name = SkillRequest[c].name
                                  /\ created[SkillFile(c)] \in {"created", "cut"}

FilesInv ==
  /\ LibraryTypes
  /\ \A c \in Creators : SkillIsKept(c) /\ IsAlone(c) /\ FileIsExplained(c)

LibraryInv ==
  /\ FilesInv
  /\ Library!CreatedAreAvailable /\ Library!LoadedAreSound

LEMMA NoCreatorIsAState == "absent" \notin Creators /\ "broken" \notin Creators /\ None \notin Creators
BY MCAssumption DEF Library!SkillAssumption

LEMMA NamesOfSkills == /\ Library!Names = SkillNames
                       /\ \A c \in Creators : /\ Library!NameOf(c) = SkillRequest[c].name
                                              /\ SkillRequest[c].name \in SkillNames
BY DEF Library!Names, Library!NameOf, SkillNames

LEMMA LibraryInit == ASSUME Library!Init PROVE LibraryInv
<1>1. /\ created = [c \in Creators |-> "idle"] /\ files = [n \in SkillNames |-> "absent"]
      /\ registry = [n \in SkillNames |-> None] /\ overlapped = {}
      /\ built = [due |-> {}, spoilers |-> {}, present |-> {}]
  BY NamesOfSkills DEF Library!Init, Library!Absent
<1>2. \A c \in Creators : SkillFile(c) = "absent"
  BY <1>1, NamesOfSkills DEF SkillFile
<1>3. FilesInv
  BY <1>1, <1>2, NoCreatorIsAState DEF FilesInv, LibraryTypes, SkillIsKept, IsAlone, FileIsExplained
<1>4. Library!CreatedAreAvailable
  BY <1>1 DEF Library!CreatedAreAvailable
<1>5. {n \in Library!Names : registry[n] # None} = {} /\ \A n \in Library!Names : registry[n] = None
  BY <1>1, NamesOfSkills
<1> QED
  BY <1>3, <1>4, <1>5 DEF LibraryInv, Library!LoadedAreSound

\* A step of one call, which may write its file.
LEMMA CallStep ==
  ASSUME FilesInv, NEW c \in Creators, NEW where, NEW what,
         created' = [created EXCEPT ![c] = where],
         files' = [files EXCEPT ![SkillRequest[c].name] = what],
         UNCHANGED <<registry, overlapped, built>>,
         \/ created[c] \in {"idle", "open"} /\ where = "failed" /\ what = SkillFile(c)
         \/ created[c] = "open" /\ where = "write" /\ what = "broken"
         \/ created[c] = "write" /\ where = "created" /\ what = c
         \/ created[c] = "write" /\ where = "cut" /\ what \in {SkillFile(c), "broken", c}
  PROVE  FilesInv'
<1>0. /\ LibraryTypes /\ SkillRequest[c].name \in SkillNames
      /\ SkillIsKept(c) /\ IsAlone(c) /\ FileIsExplained(c)
  BY NamesOfSkills DEF FilesInv
<1>1. /\ created'[c] = where /\ \A d \in Creators \ {c} : created'[d] = created[d]
      /\ where \in {"write", "created", "cut", "failed"}
      /\ what \in {"absent", "broken"} \cup Creators
  BY <1>0 DEF LibraryTypes, SkillFile
<1>2. \A d \in Creators : SkillFile(d)' = IF SkillRequest[d].name = SkillRequest[c].name
                                         THEN what ELSE SkillFile(d)
  BY <1>0, NamesOfSkills DEF LibraryTypes, SkillFile
<1>3. LibraryTypes'
  BY <1>0, <1>1 DEF LibraryTypes, SkillNames
<1>4. ASSUME NEW d \in Creators PROVE SkillIsKept(d)'
  <2>1. CASE d = c
    BY <1>0, <1>1, <1>2, <2>1 DEF SkillIsKept, SkillFile
  <2>2. CASE d # c /\ SkillRequest[d].name # SkillRequest[c].name
    BY <1>1, <1>2, <2>2 DEF FilesInv, SkillIsKept, SkillFile
  <2>3. CASE d # c /\ SkillRequest[d].name = SkillRequest[c].name
    <3>1. CASE what = SkillFile(c)
      <4>1. SkillFile(d)' = SkillFile(d)
        BY <1>2, <2>3, <3>1 DEF SkillFile
      <4> QED
        BY <1>1, <2>3, <4>1 DEF FilesInv, SkillIsKept, SkillFile
    <3>2. CASE what # SkillFile(c)
      <4>1. InCreation(c)
        BY <3>2 DEF InCreation
      <4>2. d \in overlapped \/ created[d] \notin {"open", "write", "created"}
        BY <2>3, <4>1 DEF FilesInv, IsAlone
      <4> QED
        BY <1>1, <2>3, <4>2 DEF SkillIsKept
    <3> QED
      BY <3>1, <3>2
  <2> QED
    BY <2>1, <2>2, <2>3
<1>5. ASSUME NEW d \in Creators PROVE IsAlone(d)'
  <2>1. ASSUME NEW e \in Creators, InCreation(e)' PROVE InCreation(e)
    BY <1>1, <2>1 DEF InCreation
  <2>2. created'[d] \in {"open", "write", "created"} => created[d] \in {"open", "write", "created"}
    BY <1>1
  <2> QED
    BY <2>1, <2>2 DEF FilesInv, IsAlone
<1>6. ASSUME NEW d \in Creators PROVE FileIsExplained(d)'
  <2>1. CASE SkillRequest[d].name = SkillRequest[c].name
    <3>1. SkillFile(d)' = what
      BY <1>2, <2>1
    <3>2. CASE what = "broken"
      <4>1. \E e \in Creators : /\ SkillRequest[e].name = SkillRequest[d].name
                                /\ created'[e] \in {"write", "cut"}
        <5>1. CASE where \in {"write", "cut"}
          BY <1>1, <2>1, <5>1
        <5>2. CASE where = "failed"
          <6>1. PICK e \in Creators : /\ SkillRequest[e].name = SkillRequest[c].name
                                      /\ created[e] \in {"write", "cut"}
            BY <1>0, <3>2, <5>2 DEF FileIsExplained
          <6>2. e # c
            BY <5>2, <6>1
          <6> QED
            BY <1>1, <2>1, <6>1, <6>2
        <5> QED
          BY <1>1, <3>2, <5>1, <5>2, NoCreatorIsAState
      <4> QED
        BY <3>1, <3>2, <4>1, NoCreatorIsAState DEF FileIsExplained
    <3>3. CASE what = c /\ where \in {"created", "cut"}
      BY <1>1, <2>1, <3>1, <3>3, NoCreatorIsAState DEF FileIsExplained
    <3>4. CASE what = SkillFile(c) /\ what # "broken"
      <4>1. what \in Creators => /\ SkillRequest[what].name = SkillRequest[c].name
                                 /\ created[what] \in {"created", "cut"} /\ what # c
        BY <1>0, <3>4, NoCreatorIsAState DEF FileIsExplained
      <4> QED
        BY <1>1, <2>1, <3>1, <3>4, <4>1 DEF FileIsExplained
    <3> QED
      BY <3>2, <3>3, <3>4
  <2>2. CASE SkillRequest[d].name # SkillRequest[c].name
    <3>1. SkillFile(d)' = SkillFile(d) /\ FileIsExplained(d)
      BY <1>2, <2>2 DEF FilesInv
    <3>2. SkillFile(d) \in Creators => SkillFile(d) # c
      BY <2>2, <3>1 DEF FileIsExplained
    <3>3. \A e \in Creators : SkillRequest[e].name = SkillRequest[d].name => created'[e] = created[e]
      BY <1>1, <2>2
    <3> QED
      BY <1>1, <3>1, <3>2, <3>3 DEF FileIsExplained
  <2> QED
    BY <2>1, <2>2
<1> QED
  BY <1>3, <1>4, <1>5, <1>6 DEF FilesInv

\* A call that begins marks those that it overlaps, and finds no file.
LEMMA CallBegins ==
  ASSUME FilesInv, NEW c \in Creators, created[c] = "idle", SkillFile(c) = "absent",
         Library!Started(c), UNCHANGED <<files, registry, built>>
  PROVE  FilesInv'
<1> DEFINE others == {d \in Creators : InCreation(d) /\ SkillRequest[d].name = SkillRequest[c].name}
<1>0. LibraryTypes
  BY DEF FilesInv
<1>1. /\ created' = [created EXCEPT ![c] = "open"]
      /\ overlapped' = IF others = {} THEN overlapped ELSE overlapped \cup others \cup {c}
  BY DEF Library!Started, Library!Overlapping, Library!InCreation, Library!NameOf, InCreation
<1>2. created'[c] = "open" /\ \A d \in Creators \ {c} : created'[d] = created[d]
  BY <1>0, <1>1 DEF LibraryTypes
<1>3. \A d \in Creators : SkillFile(d)' = SkillFile(d)
  BY DEF SkillFile
<1>4. LibraryTypes'
  BY <1>0, <1>1 DEF LibraryTypes, SkillNames
<1>5. overlapped \subseteq overlapped' /\ (others # {} => c \in overlapped' /\ others \subseteq overlapped')
  BY <1>1
<1> HIDE DEF others
<1>6. ASSUME NEW d \in Creators PROVE SkillIsKept(d)'
  <2>1. d \notin overlapped' => d \notin overlapped
    BY <1>5
  <2>2. SkillIsKept(d)
    BY DEF FilesInv
  <2> QED
    BY <1>2, <1>3, <2>1, <2>2 DEF SkillIsKept
<1>7. ASSUME NEW d \in Creators, d \notin overlapped', created'[d] \in {"open", "write", "created"},
             NEW e \in Creators \ {d}, InCreation(e)'
      PROVE  SkillRequest[e].name # SkillRequest[d].name
  <2>1. CASE d = c
    <3>1. InCreation(e) /\ others = {}
      BY <1>2, <1>5, <1>7, <2>1 DEF InCreation
    <3> QED
      BY <2>1, <3>1 DEF others
  <2>2. CASE e = c
    <3>1. d \notin overlapped /\ created[d] \in {"open", "write", "created"} /\ d \notin others
      BY <1>2, <1>5, <1>7, <2>2
    <3>2. CASE InCreation(d)
      BY <2>2, <3>1, <3>2 DEF others
    <3>3. CASE created[d] = "created"
      <4>1. SkillFile(d) = d
        BY <3>1, <3>3 DEF FilesInv, SkillIsKept
      <4> QED
        BY <2>2, <4>1, NoCreatorIsAState DEF SkillFile
    <3> QED
      BY <3>1, <3>2, <3>3 DEF InCreation
  <2>3. CASE d # c /\ e # c
    <3>1. d \notin overlapped /\ created[d] \in {"open", "write", "created"} /\ InCreation(e)
      BY <1>2, <1>5, <1>7, <2>3 DEF InCreation
    <3> QED
      BY <3>1 DEF FilesInv, IsAlone
  <2> QED
    BY <2>1, <2>2, <2>3
<1>8. ASSUME NEW d \in Creators PROVE FileIsExplained(d)'
  <2>1. FileIsExplained(d)
    BY DEF FilesInv
  <2>2. \A e \in Creators : created[e] # "idle" => created'[e] = created[e]
    BY <1>2
  <2> QED
    BY <1>3, <2>1, <2>2 DEF FileIsExplained
<1> QED
  BY <1>4, <1>6, <1>7, <1>8 DEF FilesInv, IsAlone

\* Without a call that may spoil it, all there is in the directory is loaded.
LEMMA ReactorLoads ==
  ASSUME FilesInv, Library!NewReactor
  PROVE  LibraryInv'
<1> DEFINE found == Library!Found
<1>1. /\ built' = found /\ UNCHANGED <<created, files, overlapped>>
      /\ registry' = [n \in SkillNames |-> IF n \in Library!LoadedSkills /\ Library!Wanted(n)
                                           THEN files[n] ELSE None]
  BY NamesOfSkills DEF Library!NewReactor
<1>2. /\ found.due = {c \in Creators : created[c] = "created" /\ c \notin overlapped}
      /\ found.spoilers = {c \in Creators : \/ created[c] \in {"write", "cut"}
                                            \/ created[c] = "created" /\ ~Library!LoaderAccepts(SkillRequest[c])}
      /\ found.present = {n \in SkillNames : files[n] # "absent"}
      /\ found \in [due : SUBSET Creators, spoilers : SUBSET Creators, present : SUBSET SkillNames]
  BY NamesOfSkills DEF Library!Found, Library!Absent
<1> HIDE DEF found
<1>3. FilesInv'
  BY <1>1, <1>2 DEF FilesInv, LibraryTypes, SkillIsKept, IsAlone, FileIsExplained, SkillFile,
     InCreation, SkillNames
\* A name is that of a call, and its file is explained.
<1>4. ASSUME NEW n \in SkillNames
      PROVE  /\ files[n] \in {"absent", "broken"} \cup Creators
             /\ files[n] \in Creators => /\ SkillRequest[files[n]].name = n
                                         /\ created[files[n]] \in {"created", "cut"}
             /\ files[n] = "broken" => \E d \in Creators : created[d] \in {"write", "cut"}
  <2>1. PICK c \in Creators : n = SkillRequest[c].name
    BY DEF SkillNames
  <2> QED
    BY <2>1 DEF FilesInv, LibraryTypes, FileIsExplained, SkillFile
<1>5. \A n \in SkillNames : Library!WellFormed(n) <=>
        files[n] \in Creators /\ Library!LoaderAccepts(SkillRequest[files[n]])
  BY DEF Library!WellFormed
<1>6. ASSUME found.spoilers = {}, NEW c \in found.due, Library!Wanted(SkillRequest[c].name)
      PROVE  registry'[SkillRequest[c].name] = c
  <2>1. /\ c \in Creators /\ SkillRequest[c].name \in SkillNames
        /\ files[SkillRequest[c].name] = c /\ Library!LoaderAccepts(SkillRequest[c])
    BY <1>2, <1>6, NamesOfSkills DEF FilesInv, SkillIsKept, SkillFile
  <2>2. ASSUME NEW n \in SkillNames, files[n] # "absent" PROVE Library!WellFormed(n)
    <3>1. files[n] # "broken"
      BY <1>2, <1>4, <1>6
    <3>2. files[n] \in Creators /\ created[files[n]] = "created"
      BY <1>2, <1>4, <1>6, <2>2, <3>1
    <3> QED
      BY <1>2, <1>5, <1>6, <3>2
  <2>3. SkillRequest[c].name \in Library!LoadedSkills
    BY <1>5, <2>1, <2>2, NamesOfSkills DEF Library!LoadedSkills, Library!Absent
  <2> QED
    BY <1>1, <1>6, <2>1, <2>3
<1>7. Library!CreatedAreAvailable'
  <2>1. built'.spoilers = {} => \A c \in built'.due :
          Library!Wanted(SkillRequest[c].name) => registry'[SkillRequest[c].name] = c
    BY <1>1, <1>6
  <2> QED
    BY <2>1 DEF Library!CreatedAreAvailable, Library!NameOf, Library!Wanted
<1>8. ASSUME NEW n \in SkillNames, registry'[n] # None
      PROVE  /\ n \in Library!LoadedSkills /\ Library!Wanted(n) /\ registry'[n] = files[n]
             /\ files[n] \in Creators /\ Library!LoaderAccepts(SkillRequest[files[n]])
             /\ SkillRequest[files[n]].name = n
  <2>1. n \in Library!LoadedSkills /\ Library!Wanted(n) /\ registry'[n] = files[n]
    BY <1>1, <1>8
  <2>2. Library!WellFormed(n)
    BY <2>1 DEF Library!LoadedSkills
  <2> QED
    BY <1>4, <1>5, <2>1, <2>2
<1>9. {n \in SkillNames : registry'[n] # None}
        \in {{}, {n \in found.present : Library!Wanted(n)}}
  <2>1. CASE \E n \in SkillNames : files[n] # "absent" /\ ~Library!WellFormed(n)
    <3>1. Library!LoadedSkills = {}
      BY <2>1, NamesOfSkills DEF Library!LoadedSkills, Library!Absent
    <3> QED
      BY <1>8, <3>1
  <2>2. CASE \A n \in SkillNames : files[n] # "absent" => Library!WellFormed(n)
    <3>1. Library!LoadedSkills = {n \in SkillNames : Library!WellFormed(n)}
      BY <2>2, NamesOfSkills DEF Library!LoadedSkills, Library!Absent
    <3>2. ASSUME NEW n \in SkillNames
          PROVE  registry'[n] # None <=> n \in found.present /\ Library!Wanted(n)
      <4>1. CASE registry'[n] # None
        BY <1>2, <1>8, <4>1, NoCreatorIsAState
      <4>2. CASE n \in found.present /\ Library!Wanted(n)
        BY <1>1, <1>2, <1>5, <2>2, <3>1, <4>2, NoCreatorIsAState
      <4> QED
        BY <4>1, <4>2
    <3>3. found.present \subseteq SkillNames
      BY <1>2
    <3> QED
      BY <3>2, <3>3
  <2> QED
    BY <2>1, <2>2
<1>10. Library!LoadedAreSound'
  <2>1. /\ {n \in SkillNames : registry'[n] # None} \in {{}, {n \in built'.present : Library!Wanted(n)}}
        /\ \A n \in SkillNames : registry'[n] # None =>
             /\ registry'[n] \in Creators
             /\ SkillRequest[registry'[n]].name = n /\ Library!LoaderAccepts(SkillRequest[registry'[n]])
    BY <1>1, <1>8, <1>9
  <2> QED
    BY <2>1 DEF Library!LoadedAreSound, Library!Names, Library!NameOf, Library!Wanted,
       Library!LoaderAccepts, SkillNames
<1> QED
  BY <1>3, <1>7, <1>10 DEF LibraryInv

LEMMA LibraryStep == ASSUME LibraryInv, Library!Next PROVE LibraryInv'
<1>0. FilesInv /\ LibraryTypes
  BY DEF LibraryInv, FilesInv
<1>1. ASSUME NEW c \in Creators,
             \/ Library!Check(c) \/ Library!Open(c) \/ Library!Write(c)
             \/ Library!OpenFails(c) \/ Library!WriteFails(c)
      PROVE  FilesInv' /\ UNCHANGED <<registry, built>>
  <2> DEFINE name == SkillRequest[c].name
  <2>0. /\ Library!NameOf(c) = name /\ name \in SkillNames
        /\ files = [files EXCEPT ![name] = SkillFile(c)]
    BY <1>0, NamesOfSkills DEF LibraryTypes, SkillFile
  <2>1. CASE Library!Check(c)
    <3>1. CASE SkillFile(c) = "absent" /\ Library!Started(c)
      BY <1>0, <2>1, <3>1, CallBegins DEF Library!Check
    <3>2. CASE Library!Refused(c)
      BY <1>0, <2>0, <2>1, <3>2, CallStep DEF Library!Check, Library!Refused
    <3> QED
      BY <2>0, <2>1, <3>1, <3>2 DEF Library!Check, Library!Absent, SkillFile
  <2>2. CASE Library!OpenFails(c)
    BY <1>0, <2>0, <2>2, CallStep DEF Library!OpenFails, Library!Refused
  <2>3. CASE Library!Open(c) \/ Library!Write(c)
    BY <1>0, <2>0, <2>3, CallStep DEF Library!Open, Library!Write, Library!CutShort
  <2>4. CASE Library!WriteFails(c)
    <3>1. PICK left \in {SkillFile(c), "broken", c} : files' = [files EXCEPT ![name] = left]
      BY <2>0, <2>4 DEF Library!WriteFails, Library!CutShort, SkillFile
    <3> QED
      BY <1>0, <2>4, <3>1, CallStep DEF Library!WriteFails
  <2> QED
    BY <1>1, <2>1, <2>2, <2>3, <2>4
<1>2. ASSUME FilesInv', UNCHANGED <<registry, built>> PROVE LibraryInv'
  BY <1>2 DEF LibraryInv, Library!CreatedAreAvailable, Library!LoadedAreSound, Library!Names,
     Library!NameOf, Library!Wanted, Library!LoaderAccepts
<1> QED
  BY <1>0, <1>1, <1>2, ReactorLoads DEF Library!Next

LEMMA LibraryIsSound ==
  ASSUME LibraryInv
  PROVE  /\ Library!TypeOK /\ Library!CreatedStays
         /\ Library!CreatedAreAvailable /\ Library!LoadedAreSound
<1>1. Library!TypeOK
  BY NamesOfSkills DEF LibraryInv, FilesInv, LibraryTypes, Library!TypeOK, Library!Absent, Library!CutShort
<1>2. Library!CreatedStays
  BY NamesOfSkills DEF LibraryInv, FilesInv, SkillIsKept, SkillFile, Library!CreatedStays
<1> QED
  BY <1>1, <1>2 DEF LibraryInv

\* A skill that was created while no other call was creating one of its name keeps
\* what it was created with.  It is in the next reactor, unless the directory then
\* had one that the tool creates and the loader rejects, one whose writing failed,
\* or one that was being written: a reactor has all the skills of the directory or
\* none, and none that the loader rejects.
THEOREM SkillsAreKept == MCSpec => []CreatedSkillsAreKept
<1> DEFINE Inv == scope = "library" => LibraryInv
<1>1. MCInit => Inv
  BY LibraryInit DEF MCInit
<1>2. Inv /\ [MCNext]_allVars => Inv'
  <2> SUFFICES ASSUME Inv, [MCNext]_allVars, scope' = "library" PROVE LibraryInv'
    OBVIOUS
  <2>1. scope = "library" /\ LibraryInv
    <3>1. UNCHANGED scope
      BY DEF MCNext, allVars
    <3> QED
      BY <3>1
  <2>2. Library!Next \/ UNCHANGED libraryVars
    BY <2>1 DEF MCNext, allVars, toolVars
  <2>3. ASSUME UNCHANGED libraryVars PROVE LibraryInv'
    <3>1. FilesInv'
      BY <2>1, <2>3 DEF libraryVars, LibraryInv, FilesInv, LibraryTypes, SkillIsKept, IsAlone,
         FileIsExplained, SkillFile, InCreation, SkillNames
    <3>2. UNCHANGED <<registry, built>>
      BY <2>3 DEF libraryVars
    <3> QED
      BY <2>1, <3>1, <3>2 DEF LibraryInv, Library!CreatedAreAvailable, Library!LoadedAreSound,
         Library!Names, Library!NameOf, Library!Wanted, Library!LoaderAccepts
  <2> QED
    BY <2>1, <2>2, <2>3, LibraryStep
<1>3. Inv => CreatedSkillsAreKept
  BY LibraryIsSound DEF CreatedSkillsAreKept
<1> QED
  BY <1>1, <1>2, <1>3, PTL DEF MCSpec

-----------------------------------------------------------------------------
(***************************************************************************)
(* Python environments.  A set-up that works does no more than one that    *)
(* may fail, so that what holds of the steps of the latter does of both.   *)
(***************************************************************************)

InSetup(c) == running[c] \in {"create", "creating", "install"}

\* A manager is busy while one call sets up, and one manager has a directory.
FaultyInv ==
  /\ Faulty!TypeOK
  /\ \A c \in Scripts : InSetup(c) => once[RootOf[c]] = "busy"
  /\ \A c, d \in Scripts : InSetup(c) /\ InSetup(d) /\ RootOf[c] = RootOf[d] => c = d

LEMMA EnvironmentTypes ==
  /\ RootOf \in [Scripts -> Roots] /\ MaxEdits \in Nat /\ MaxRestarts \in Nat
  /\ \A c \in Scripts : RootOf[c] \in Roots /\ Faulty!Dir(c) \in Faulty!Dirs
BY MCAssumption DEF Faulty!EnvironmentAssumption, Faulty!Dir, Faulty!Dirs

LEMMA FaultyInit == ASSUME Working!Init PROVE FaultyInv
<1>1. 0 \in 0..MaxRestarts /\ 0 \in 0..(MaxEdits + 1) /\ 1 \in 0..(MaxEdits + 1)
  BY EnvironmentTypes
<1>2. Faulty!TypeOK
  BY <1>1 DEF Working!Init, Faulty!TypeOK, Faulty!Versions, Working!Dirs, Faulty!Dirs
<1> QED
  BY <1>2 DEF Working!Init, FaultyInv, InSetup

\* What a set-up does to its own manager, it may do; a manager that was not busy
\* is nobody else's.
LEMMA FaultyChange ==
  ASSUME FaultyInv, Faulty!TypeOK', NEW c \in Scripts,
         \A d \in Scripts \ {c} : running'[d] = running[d],
         \A r \in Roots \ {RootOf[c]} : once'[r] = once[r],
         InSetup(c)' => once'[RootOf[c]] = "busy",
         \/ InSetup(c)
         \/ once[RootOf[c]] # "busy"
         \/ ~InSetup(c)' /\ once'[RootOf[c]] = once[RootOf[c]]
  PROVE  FaultyInv'
<1>1. ASSUME NEW d \in Scripts, InSetup(d)' PROVE once'[RootOf[d]] = "busy"
  <2>1. CASE d = c
    BY <1>1, <2>1
  <2>2. CASE d # c /\ RootOf[d] # RootOf[c]
    BY <1>1, <2>2, EnvironmentTypes DEF FaultyInv, InSetup
  <2>3. CASE d # c /\ RootOf[d] = RootOf[c]
    <3>1. InSetup(d) /\ once[RootOf[c]] = "busy"
      BY <1>1, <2>3 DEF InSetup, FaultyInv
    <3>2. ~InSetup(c)
      BY <2>3, <3>1 DEF FaultyInv
    <3> QED
      BY <2>3, <3>1, <3>2
  <2> QED
    BY <2>1, <2>2, <2>3
<1>2. ASSUME NEW d \in Scripts, NEW e \in Scripts, InSetup(d)', InSetup(e)', RootOf[d] = RootOf[e]
      PROVE  d = e
  <2>1. ASSUME NEW g \in Scripts \ {c}, InSetup(g)', InSetup(c)', RootOf[g] = RootOf[c] PROVE FALSE
    <3>1. InSetup(g) /\ once[RootOf[c]] = "busy"
      BY <2>1 DEF InSetup, FaultyInv
    <3>2. ~InSetup(c)
      BY <2>1, <3>1 DEF FaultyInv
    <3> QED
      BY <2>1, <3>1, <3>2
  <2>2. CASE d # c /\ e # c
    BY <1>2, <2>2 DEF FaultyInv, InSetup
  <2> QED
    BY <1>2, <2>1, <2>2
<1> QED
  BY <1>1, <1>2 DEF FaultyInv, InSetup

FaultyMoves(c) ==
  \/ Faulty!Call(c) \/ Faulty!Ensure(c) \/ Faulty!StartCreate(c) \/ Faulty!EndCreate(c)
  \/ Faulty!Install(c) \/ Faulty!SetupFails(c) \/ Faulty!Run(c)

LEMMA FaultyTyped == ASSUME FaultyInv, NEW c \in Scripts, FaultyMoves(c) PROVE Faulty!TypeOK'
<1>0. Faulty!TypeOK /\ RootOf[c] \in Roots /\ Faulty!Dir(c) \in Faulty!Dirs
  BY EnvironmentTypes DEF FaultyInv
<1>1. CASE Faulty!Call(c)
  BY <1>0, <1>1 DEF Faulty!TypeOK, Faulty!Call, Faulty!Goto, Faulty!Dirs, Faulty!Dir, Faulty!Versions
<1>2. CASE Faulty!Ensure(c)
  BY <1>0, <1>2 DEF Faulty!TypeOK, Faulty!Ensure, Faulty!Goto, Faulty!Dirs, Faulty!Versions
<1>3. CASE Faulty!StartCreate(c)
  BY <1>0, <1>3 DEF Faulty!TypeOK, Faulty!StartCreate, Faulty!Goto, Faulty!Dirs, Faulty!Versions
<1>4. CASE Faulty!EndCreate(c)
  BY <1>0, <1>4 DEF Faulty!TypeOK, Faulty!EndCreate, Faulty!Goto, Faulty!Dirs, Faulty!Versions
<1>5. CASE Faulty!Install(c)
  BY <1>0, <1>5 DEF Faulty!TypeOK, Faulty!Install, Faulty!Goto, Faulty!Dirs, Faulty!Versions
<1>6. CASE Faulty!SetupFails(c)
  BY <1>0, <1>6 DEF Faulty!TypeOK, Faulty!SetupFails, Faulty!Goto, Faulty!Dirs, Faulty!Versions
<1>7. CASE Faulty!Run(c)
  BY <1>0, <1>7 DEF Faulty!TypeOK, Faulty!Run, Faulty!Goto, Faulty!Dirs, Faulty!Versions
<1> QED
  BY <1>1, <1>2, <1>3, <1>4, <1>5, <1>6, <1>7 DEF FaultyMoves

LEMMA FaultyMovesPreserve == ASSUME FaultyInv, NEW c \in Scripts, FaultyMoves(c) PROVE FaultyInv'
<1>0. /\ Faulty!TypeOK /\ Faulty!TypeOK' /\ RootOf[c] \in Roots
      /\ InSetup(c) => once[RootOf[c]] = "busy"
  BY FaultyTyped, EnvironmentTypes DEF FaultyInv
<1>1. \A d \in Scripts \ {c} : running'[d] = running[d]
  BY <1>0 DEF FaultyMoves, Faulty!TypeOK, Faulty!Goto, Faulty!Call, Faulty!Ensure,
     Faulty!StartCreate, Faulty!EndCreate, Faulty!Install, Faulty!SetupFails, Faulty!Run
<1>2. \A r \in Roots \ {RootOf[c]} : once'[r] = once[r]
  BY <1>0 DEF FaultyMoves, Faulty!TypeOK, Faulty!Call, Faulty!Ensure,
     Faulty!StartCreate, Faulty!EndCreate, Faulty!Install, Faulty!SetupFails, Faulty!Run
<1>3. CASE Faulty!Call(c)
  <2>1. running[c] = "idle" /\ running'[c] = "ensure" /\ UNCHANGED once
    BY <1>0, <1>3 DEF Faulty!Call, Faulty!Goto, Faulty!TypeOK
  <2> QED
    BY <1>0, <1>1, <1>2, <2>1, FaultyChange DEF InSetup
<1>4. CASE Faulty!Ensure(c)
  <2>1. \/ once[RootOf[c]] = "new" /\ once'[RootOf[c]] = "busy"
        \/ UNCHANGED once /\ running'[c] = "run"
    BY <1>0, <1>4 DEF Faulty!Ensure, Faulty!Goto, Faulty!TypeOK
  <2> QED
    BY <1>0, <1>1, <1>2, <2>1, FaultyChange DEF InSetup
<1>5. CASE Faulty!StartCreate(c) \/ Faulty!EndCreate(c)
  <2>1. InSetup(c) /\ UNCHANGED once
    BY <1>5 DEF Faulty!StartCreate, Faulty!EndCreate, InSetup
  <2> QED
    BY <1>0, <1>1, <1>2, <2>1, FaultyChange
<1>6. CASE Faulty!Install(c) \/ Faulty!SetupFails(c)
  <2>1. InSetup(c) /\ running'[c] \in {"run", "failed"}
    BY <1>0, <1>6 DEF Faulty!Install, Faulty!SetupFails, Faulty!Goto, Faulty!TypeOK, InSetup
  <2> QED
    BY <1>0, <1>1, <1>2, <2>1, FaultyChange DEF InSetup
<1>7. CASE Faulty!Run(c)
  <2>1. running'[c] \in {"ran", "failed"} /\ UNCHANGED once
    BY <1>0, <1>7 DEF Faulty!Run, Faulty!Goto, Faulty!TypeOK
  <2> QED
    BY <1>0, <1>1, <1>2, <2>1, FaultyChange DEF InSetup
<1> QED
  BY <1>3, <1>4, <1>5, <1>6, <1>7 DEF FaultyMoves

LEMMA FaultyStep == ASSUME FaultyInv, Faulty!Next PROVE FaultyInv'
<1>0. Faulty!TypeOK /\ MaxEdits \in Nat /\ MaxRestarts \in Nat
  BY EnvironmentTypes DEF FaultyInv
<1>1. CASE \E c \in Scripts : FaultyMoves(c)
  BY <1>1, FaultyMovesPreserve
<1>2. CASE Faulty!EditRequirements
  <2>1. PICK d \in Faulty!Dirs : /\ required[d] <= MaxEdits
                                 /\ required' = [required EXCEPT ![d] = @ + 1]
    BY <1>2 DEF Faulty!EditRequirements
  <2>2. required[d] \in 0..(MaxEdits + 1)
    BY <1>0 DEF Faulty!TypeOK, Faulty!Versions
  <2>3. required[d] + 1 \in 0..(MaxEdits + 1)
    BY <1>0, <2>1, <2>2
  <2>4. required' \in [Faulty!Dirs -> Faulty!Versions]
    BY <1>0, <2>1, <2>3 DEF Faulty!TypeOK, Faulty!Versions
  <2>5. UNCHANGED <<running, once, venv, installed, asked, restarts>>
    BY <1>2 DEF Faulty!EditRequirements
  <2>6. Faulty!TypeOK'
    BY <1>0, <2>4, <2>5 DEF Faulty!TypeOK, Faulty!Dirs, Faulty!Versions
  <2> QED
    BY <2>5, <2>6 DEF FaultyInv, InSetup
<1>3. CASE Faulty!Restart
  <2>1. restarts' \in 0..MaxRestarts
    BY <1>0, <1>3 DEF Faulty!Restart, Faulty!TypeOK
  <2>2. /\ running' = [s \in Scripts |-> IF running[s] \in {"idle", "ran"} THEN running[s] ELSE "failed"]
        /\ once' = [r \in Roots |-> "new"] /\ UNCHANGED <<venv, required, installed, asked>>
    BY <1>3 DEF Faulty!Restart
  <2>3. Faulty!TypeOK'
    BY <1>0, <2>1, <2>2 DEF Faulty!TypeOK, Faulty!Dirs, Faulty!Versions
  <2>4. \A c \in Scripts : ~InSetup(c)'
    BY <2>2 DEF InSetup
  <2> QED
    BY <2>3, <2>4 DEF FaultyInv
<1> QED
  BY <1>1, <1>2, <1>3 DEF Faulty!Next, Faulty!Step, FaultyMoves

LEMMA OneSetup == ASSUME FaultyInv PROVE Faulty!OneSetupAtATime
<1>1. \A c, d \in Scripts : Faulty!Dir(c) = Faulty!Dir(d) => RootOf[c] = RootOf[d]
  BY EnvironmentTypes, ScopeAssumption DEF Faulty!Dir
<1> QED
  BY <1>1 DEF FaultyInv, Faulty!OneSetupAtATime, InSetup

RootIsSetUp(r) ==
  /\ once[r] = "new" => venv[DirOf[r]] = "absent"
  /\ once[r] = "done" => venv[DirOf[r]] = "ready" /\ installed[DirOf[r]] = 1

ScriptFinds(c) ==
  /\ asked[c] \in {0, 1}
  /\ running[c] = "create" => venv[Faulty!Dir(c)] = "absent"
  /\ running[c] = "creating" => venv[Faulty!Dir(c)] = "partial"
  /\ running[c] = "install" => venv[Faulty!Dir(c)] = "ready"
  /\ running[c] \in {"run", "ran"} => once[RootOf[c]] = "done"

WorkingInv ==
  /\ FaultyInv
  /\ \A d \in Faulty!Dirs : required[d] = 1
  /\ \A r \in Roots : RootIsSetUp(r)
  /\ \A c \in Scripts : ScriptFinds(c)

LEMMA WorkingInit == ASSUME Working!Init PROVE WorkingInv
<1>1. FaultyInv
  BY FaultyInit
<1>2. \A r \in Roots : DirOf[r] \in Working!Dirs
  BY DEF Working!Dirs
<1>3. \A d \in Faulty!Dirs : required[d] = 1
  BY DEF Working!Init, Working!Dirs, Faulty!Dirs
<1> QED
  BY <1>1, <1>2, <1>3 DEF Working!Init, WorkingInv, RootIsSetUp, ScriptFinds

\* A set-up of one directory is nothing to the others, and calls that name the
\* same one wait for it.
LEMMA WorkingChange ==
  ASSUME WorkingInv, FaultyInv', NEW c \in Scripts, UNCHANGED required,
         \A d \in Scripts \ {c} : running'[d] = running[d] /\ asked'[d] = asked[d],
         \A r \in Roots \ {RootOf[c]} : once'[r] = once[r],
         \A d \in Faulty!Dirs \ {Faulty!Dir(c)} : venv'[d] = venv[d] /\ installed'[d] = installed[d],
         InSetup(c) \/ once[RootOf[c]] = "new" \/ UNCHANGED <<once, venv, installed>>,
         RootIsSetUp(RootOf[c])', ScriptFinds(c)'
  PROVE  WorkingInv'
<1>0. /\ RootOf[c] \in Roots
      /\ \A d \in Scripts : RootOf[d] \in Roots /\ Faulty!Dir(d) = DirOf[RootOf[d]]
      /\ \A r \in Roots : DirOf[r] \in Faulty!Dirs
      /\ \A r \in Roots \ {RootOf[c]} : DirOf[r] # Faulty!Dir(c)
  BY EnvironmentTypes, ScopeAssumption DEF Faulty!Dir, Faulty!Dirs
<1>1. ASSUME NEW r \in Roots PROVE RootIsSetUp(r)'
  <2>1. CASE r = RootOf[c]
    BY <2>1
  <2>2. CASE r # RootOf[c]
    BY <1>0, <2>2 DEF WorkingInv, RootIsSetUp
  <2> QED
    BY <2>1, <2>2
<1>2. ASSUME NEW d \in Scripts PROVE ScriptFinds(d)'
  <2>0. ScriptFinds(d) /\ FaultyInv
    BY DEF WorkingInv
  <2>1. CASE d = c
    BY <2>1
  <2>2. CASE d # c /\ RootOf[d] # RootOf[c]
    <3>1. /\ running'[d] = running[d] /\ asked'[d] = asked[d] /\ once'[RootOf[d]] = once[RootOf[d]]
          /\ venv'[Faulty!Dir(d)] = venv[Faulty!Dir(d)]
      BY <1>0, <2>2
    <3> QED
      BY <2>0, <3>1 DEF ScriptFinds, Faulty!Dir
  <2>3. CASE d # c /\ RootOf[d] = RootOf[c] /\ UNCHANGED <<once, venv, installed>>
    BY <2>0, <2>3 DEF ScriptFinds, Faulty!Dir
  <2>4. CASE d # c /\ RootOf[d] = RootOf[c] /\ (InSetup(c) \/ once[RootOf[c]] = "new")
    <3>1. ~InSetup(d) /\ once[RootOf[d]] # "done"
      BY <2>0, <2>4 DEF FaultyInv
    <3>2. running[d] \notin {"create", "creating", "install", "run", "ran"}
      BY <2>0, <3>1 DEF InSetup, ScriptFinds
    <3> QED
      BY <2>0, <2>4, <3>2 DEF ScriptFinds
  <2> QED
    BY <2>1, <2>2, <2>3, <2>4
<1>3. \A d \in Faulty!Dirs' : required'[d] = 1
  BY DEF WorkingInv, Faulty!Dirs
<1> QED
  BY <1>1, <1>2, <1>3 DEF WorkingInv

LEMMA WorkingIsFaulty == ASSUME WorkingInv, Working!Next PROVE Faulty!Next
<1>1. MaxEdits \in Nat /\ MaxRestarts \in Nat
  BY EnvironmentTypes
<1>2. Faulty!TypeOK
  BY DEF WorkingInv, FaultyInv
<1>3. CASE Working!EditRequirements
  <2>1. PICK d \in Working!Dirs : required[d] <= 0
    BY <1>3 DEF Working!EditRequirements
  <2>2. required[d] = 1
    BY DEF WorkingInv, Working!Dirs, Faulty!Dirs
  <2> QED
    BY <2>1, <2>2
<1>4. CASE Working!Restart
  <2>1. restarts < 0 /\ restarts \in 0..MaxRestarts
    BY <1>2, <1>4 DEF Working!Restart, Faulty!TypeOK
  <2> QED
    BY <1>1, <2>1
<1>5. ASSUME NEW c \in Scripts, Working!Call(c) \/ Working!Step(c) PROVE FaultyMoves(c)
  BY <1>5 DEF FaultyMoves, Working!Step, Working!Call, Faulty!Call, Working!Ensure, Faulty!Ensure,
     Working!StartCreate, Faulty!StartCreate, Working!EndCreate, Faulty!EndCreate,
     Working!Install, Faulty!Install, Working!SetupFails, Faulty!SetupFails,
     Working!Run, Faulty!Run, Working!Goto, Faulty!Goto, Working!Dir, Faulty!Dir
<1> QED
  BY <1>3, <1>4, <1>5 DEF Working!Next, Faulty!Next, FaultyMoves, Faulty!Step

LEMMA WorkingStep == ASSUME WorkingInv, Working!Next PROVE WorkingInv'
<1>0. FaultyInv /\ FaultyInv' /\ Faulty!TypeOK
  BY WorkingIsFaulty, FaultyStep DEF WorkingInv, FaultyInv
<1>1. PICK c \in Scripts : Working!Call(c) \/ Working!Step(c)
  <2>1. ~Working!EditRequirements
    <3>1. \A d \in Working!Dirs : required[d] = 1
      BY DEF WorkingInv, Working!Dirs, Faulty!Dirs
    <3>2. ~(1 <= 0)
      OBVIOUS
    <3> QED
      BY <3>1, <3>2 DEF Working!EditRequirements
  <2>2. ~Working!Restart
    <3>1. restarts \in 0..MaxRestarts /\ MaxRestarts \in Nat
      BY <1>0, EnvironmentTypes DEF Faulty!TypeOK
    <3>2. ~(restarts < 0)
      BY <3>1
    <3> QED
      BY <3>2 DEF Working!Restart
  <2> QED
    BY <2>1, <2>2 DEF Working!Next
<1> DEFINE d == Faulty!Dir(c)
           r == RootOf[c]
<1>2. /\ r \in Roots /\ d = DirOf[r] /\ d \in Faulty!Dirs /\ required[d] = 1
      /\ Working!Dir(c) = d /\ RootIsSetUp(r) /\ ScriptFinds(c) /\ (InSetup(c) => once[r] = "busy")
  BY EnvironmentTypes DEF WorkingInv, FaultyInv, Faulty!Dir, Working!Dir
<1>3. UNCHANGED required
  BY <1>1 DEF Working!Step, Working!Call, Working!Ensure, Working!StartCreate, Working!EndCreate,
     Working!Install, Working!SetupFails, Working!Run
<1>4. \A e \in Scripts \ {c} : running'[e] = running[e] /\ asked'[e] = asked[e]
  BY <1>0, <1>1 DEF Faulty!TypeOK, Working!Step, Working!Call, Working!Ensure, Working!StartCreate,
     Working!EndCreate, Working!Install, Working!SetupFails, Working!Run, Working!Goto
<1>5. \A s \in Roots \ {r} : once'[s] = once[s]
  BY <1>0, <1>1 DEF Faulty!TypeOK, Working!Step, Working!Call, Working!Ensure, Working!StartCreate,
     Working!EndCreate, Working!Install, Working!SetupFails, Working!Run
<1>6. \A e \in Faulty!Dirs \ {d} : venv'[e] = venv[e] /\ installed'[e] = installed[e]
  BY <1>0, <1>1, <1>2 DEF Faulty!TypeOK, Working!Step, Working!Call, Working!Ensure,
     Working!StartCreate, Working!EndCreate, Working!Install, Working!SetupFails, Working!Run
<1> SUFFICES /\ InSetup(c) \/ once[r] = "new" \/ UNCHANGED <<once, venv, installed>>
             /\ RootIsSetUp(r)' /\ ScriptFinds(c)'
  BY <1>0, <1>3, <1>4, <1>5, <1>6, WorkingChange
<1> HIDE DEF r
<1>u. ASSUME UNCHANGED <<once, venv, installed>> PROVE RootIsSetUp(r)'
  BY <1>2, <1>u DEF RootIsSetUp, r
<1>7. CASE Working!Call(c)
  <2>1. /\ running'[c] = "ensure" /\ asked'[c] = 1 /\ UNCHANGED <<once, venv, installed>>
    BY <1>0, <1>2, <1>7 DEF Working!Call, Working!Goto, Faulty!TypeOK
  <2> QED
    BY <1>u, <2>1 DEF ScriptFinds
<1>8. CASE Working!Ensure(c)
  <2>1. UNCHANGED <<venv, installed, asked>>
    BY <1>8 DEF Working!Ensure
  <2>2. CASE once[r] = "new"
    <3>1. once'[r] = "busy" /\ running'[c] = "create"
      BY <1>0, <1>2, <1>8, <2>2 DEF Working!Ensure, Working!Goto, Faulty!TypeOK, r
    <3> QED
      BY <1>2, <2>1, <2>2, <3>1 DEF ScriptFinds, RootIsSetUp, Faulty!Dir, r
  <2>3. CASE once[r] # "new"
    <3>1. once[r] = "done" /\ running'[c] = "run" /\ UNCHANGED once
      BY <1>0, <1>2, <1>8, <2>3 DEF Working!Ensure, Working!Goto, Faulty!TypeOK, r
    <3> QED
      BY <1>u, <1>2, <2>1, <3>1 DEF ScriptFinds, r
  <2> QED
    BY <2>2, <2>3
<1>9. CASE Working!StartCreate(c)
  <2>1. InSetup(c) /\ venv[d] = "absent" /\ once[r] = "busy" /\ UNCHANGED <<once, asked>>
    BY <1>2, <1>9 DEF Working!StartCreate, InSetup, ScriptFinds, r
  <2>2. venv'[d] = "partial" /\ running'[c] = "creating"
    BY <1>0, <1>2, <1>9, <2>1 DEF Working!StartCreate, Working!Goto, Faulty!TypeOK
  <2> QED
    BY <1>2, <2>1, <2>2 DEF ScriptFinds, RootIsSetUp, Faulty!Dir, r
<1>10. CASE Working!EndCreate(c)
  <2>1. InSetup(c) /\ once[r] = "busy" /\ UNCHANGED <<once, asked>>
    BY <1>2, <1>10 DEF Working!EndCreate, InSetup, r
  <2>2. venv'[d] = "ready" /\ running'[c] = "install"
    BY <1>0, <1>2, <1>10 DEF Working!EndCreate, Working!Goto, Faulty!TypeOK
  <2> QED
    BY <1>2, <2>1, <2>2 DEF ScriptFinds, RootIsSetUp, Faulty!Dir, r
<1>11. CASE Working!Install(c)
  <2>1. InSetup(c) /\ venv[d] = "ready" /\ UNCHANGED <<venv, asked>>
    BY <1>2, <1>11 DEF Working!Install, InSetup
  <2>2. installed'[d] = 1 /\ once'[r] = "done" /\ running'[c] = "run"
    BY <1>0, <1>2, <1>11 DEF Working!Install, Working!Goto, Faulty!TypeOK, r
  <2> QED
    BY <1>2, <2>1, <2>2 DEF ScriptFinds, RootIsSetUp, Faulty!Dir, r
<1>12. CASE Working!SetupFails(c)
  <2>1. running[c] = "install" /\ venv[d] # "ready"
    BY <1>2, <1>12 DEF Working!SetupFails
  <2> QED
    BY <1>2, <2>1 DEF ScriptFinds
<1>13. CASE Working!Run(c)
  <2>1. running[c] = "run" /\ UNCHANGED <<once, venv, installed, asked>>
    BY <1>13 DEF Working!Run
  <2>2. running'[c] \in {"ran", "failed"}
    BY <1>0, <1>13 DEF Working!Run, Working!Goto, Faulty!TypeOK
  <2>3. once[RootOf[c]] = "done" /\ asked[c] \in {0, 1}
    BY <1>2, <2>1 DEF ScriptFinds
  <2> QED
    BY <1>u, <2>1, <2>2, <2>3 DEF ScriptFinds
<1> QED
  BY <1>1, <1>7, <1>8, <1>9, <1>10, <1>11, <1>12, <1>13 DEF Working!Step

LEMMA RequirementsAreFound == ASSUME WorkingInv PROVE Working!ScriptsFindTheirRequirements
<1>1. ASSUME NEW c \in Scripts, running[c] = "ran"
      PROVE  installed[Working!Dir(c)] >= asked[c]
  <2>1. RootOf[c] \in Roots /\ once[RootOf[c]] = "done" /\ asked[c] \in {0, 1}
    BY <1>1, EnvironmentTypes DEF WorkingInv, ScriptFinds
  <2>2. installed[DirOf[RootOf[c]]] = 1
    BY <2>1 DEF WorkingInv, RootIsSetUp
  <2>3. 1 >= asked[c]
    BY <2>1
  <2> QED
    BY <2>2, <2>3 DEF Working!Dir
<1> QED
  BY <1>1 DEF Working!ScriptsFindTheirRequirements

EnvironmentsInv ==
  /\ scope = "failing" => FaultyInv
  /\ scope = "working" => WorkingInv

\* At most one set-up works on a directory at a time, and scripts find what they
\* require once it has worked: the safety half of EnvironmentsAreSetUp.
THEOREM EnvironmentsAreSafe ==
  MCSpec => /\ [](scope = "failing" => Faulty!TypeOK /\ Faulty!OneSetupAtATime)
            /\ [](scope = "working" => Working!ScriptsFindTheirRequirements)
<1>1. MCInit => EnvironmentsInv
  BY FaultyInit, WorkingInit DEF MCInit, EnvironmentsInv
<1>2. EnvironmentsInv /\ [MCNext]_allVars => EnvironmentsInv'
  <2> SUFFICES ASSUME EnvironmentsInv, [MCNext]_allVars PROVE EnvironmentsInv'
    OBVIOUS
  <2>1. UNCHANGED scope
    BY DEF MCNext, allVars
  <2>u. ASSUME UNCHANGED envVars, FaultyInv PROVE FaultyInv'
    BY <2>u DEF envVars, FaultyInv, Faulty!TypeOK, Faulty!Dirs, Faulty!Versions, InSetup
  <2>2. CASE scope = "failing"
    <3>1. Faulty!Next \/ UNCHANGED envVars
      BY <2>2 DEF MCNext, allVars, toolVars
    <3>2. FaultyInv'
      BY <2>2, <2>u, <3>1, FaultyStep DEF EnvironmentsInv
    <3> QED
      BY <2>1, <2>2, <3>2 DEF EnvironmentsInv
  <2>3. CASE scope = "working"
    <3>1. Working!Next \/ UNCHANGED envVars
      BY <2>3 DEF MCNext, allVars, toolVars
    <3>2. WorkingInv
      BY <2>3 DEF EnvironmentsInv
    <3>3. ASSUME UNCHANGED envVars PROVE WorkingInv'
      <4>1. FaultyInv'
        BY <2>u, <3>2, <3>3 DEF WorkingInv
      <4> QED
        BY <3>2, <3>3, <4>1 DEF envVars, WorkingInv, RootIsSetUp, ScriptFinds, Faulty!Dir, Faulty!Dirs
    <3>4. WorkingInv'
      BY <3>1, <3>2, <3>3, WorkingStep
    <3> QED
      BY <2>1, <2>3, <3>4 DEF EnvironmentsInv
  <2> QED
    BY <2>1, <2>2, <2>3 DEF EnvironmentsInv
<1>3. EnvironmentsInv => /\ scope = "failing" => Faulty!TypeOK /\ Faulty!OneSetupAtATime
                         /\ scope = "working" => Working!ScriptsFindTheirRequirements
  BY OneSetup, RequirementsAreFound DEF EnvironmentsInv, FaultyInv
<1> QED
  BY <1>1, <1>2, <1>3, PTL DEF MCSpec

-----------------------------------------------------------------------------
(***************************************************************************)
(* Agents.  The steps of the callers and of the administration, and the    *)
(* types, for names of given spellings, callers and scores.                *)
(***************************************************************************)

NamesOf(S) == DefinitionFiles \X S
ConfigsOf(S, C) == [name : NamesOf(S), by : C, whole : BOOLEAN]
RuntimeOf(Sc) == [state : {"idle", "busy", "coordinating", "dormant", "error"},
                  score : Sc \cup {0}, taskCount : Nat]
CallerOf(S, Sc) == [at : {"idle", "save", "insert", "register", "score", "count"},
                    name : NamesOf(S) \cup {None}, score : Sc \cup {0}]

DirTypes(S, C, Sc) ==
  /\ definitions \in [DefinitionFiles -> ConfigsOf(S, C) \cup {None, Broken}]
  /\ agents \in [NamesOf(S) -> ConfigsOf(S, C) \cup {None}]
  /\ directory \in [NamesOf(S) -> RuntimeOf(Sc) \cup {None}]
  /\ caller \in [C -> CallerOf(S, Sc)]
  /\ \A c \in C : caller[c].at # "idle" => caller[c].name \in NamesOf(S)

NoCall == [at |-> "idle", name |-> None, score |-> 0]
NewEntry == [state |-> "idle", score |-> 0, taskCount |-> 0]

Starts(c, to, n, score) ==
  /\ caller[c].at = "idle"
  /\ \/ to = "save" /\ agents[n] = None
     \/ to = "score"
  /\ caller' = [caller EXCEPT ![c] = [at |-> to, name |-> n, score |-> score]]
  /\ UNCHANGED <<definitions, agents, directory>>

Writes(c) ==
  /\ caller[c].at = "save"
  /\ definitions' = [definitions EXCEPT ![caller[c].name[1]] = [name |-> caller[c].name, by |-> c, whole |-> TRUE]]
  /\ caller' = [caller EXCEPT ![c].at = "insert"]
  /\ UNCHANGED <<agents, directory>>

FailsToWrite(c) ==
  /\ caller[c].at = "save"
  /\ \E left \in {definitions[caller[c].name[1]], Broken,
                  [name |-> caller[c].name, by |-> c, whole |-> FALSE]} :
       definitions' = [definitions EXCEPT ![caller[c].name[1]] = left]
  /\ caller' = [caller EXCEPT ![c] = NoCall]
  /\ UNCHANGED <<agents, directory>>

Inserts(c) ==
  /\ caller[c].at = "insert"
  /\ agents' = [agents EXCEPT ![caller[c].name] = [name |-> caller[c].name, by |-> c, whole |-> TRUE]]
  /\ caller' = [caller EXCEPT ![c].at = "register"]
  /\ UNCHANGED <<definitions, directory>>

Registers(c, max) ==
  /\ caller[c].at = "register"
  /\ \/ directory' = [directory EXCEPT ![caller[c].name] = NewEntry]
     \/ UNCHANGED directory /\ (directory[caller[c].name] # None \/ max > 0)
  /\ caller' = [caller EXCEPT ![c] = NoCall]
  /\ UNCHANGED <<definitions, agents>>

RanksAgent(c) ==
  LET n == caller[c].name IN
    /\ \/ /\ caller[c].at = "score" /\ caller' = [caller EXCEPT ![c].at = "count"]
          /\ directory' = IF directory[n] # None THEN [directory EXCEPT ![n].score = caller[c].score]
                          ELSE directory
       \/ /\ caller[c].at = "count" /\ caller' = [caller EXCEPT ![c] = NoCall]
          /\ directory' = IF directory[n] # None THEN [directory EXCEPT ![n].taskCount = @ + 1]
                          ELSE directory
    /\ UNCHANGED <<definitions, agents>>

CallerStep(S, Sc, max, c) ==
  \/ \E n \in NamesOf(S), to \in {"save", "score"}, score \in Sc \cup {0} : Starts(c, to, n, score)
  \/ Writes(c) \/ FailsToWrite(c) \/ Inserts(c) \/ Registers(c, max) \/ RanksAgent(c)

AdminStep(n) ==
  /\ UNCHANGED caller
  /\ \/ /\ definitions' = [definitions EXCEPT ![n[1]] = None]
        /\ agents[n] # None /\ agents' = [agents EXCEPT ![n] = None]
        /\ UNCHANGED directory
     \/ /\ directory[n] # None
        /\ directory' = [directory EXCEPT ![n] = None]
        /\ UNCHANGED <<definitions, agents>>

StateStep(n) ==
  /\ directory[n] # None
  /\ \E s \in {"idle", "busy", "coordinating", "dormant", "error"} :
       directory' = [directory EXCEPT ![n].state = s]
  /\ UNCHANGED <<definitions, agents, caller>>

LEMMA CallerKeepsTypes ==
  ASSUME NEW S, NEW C, NEW Sc, NEW max, NEW c \in C, DirTypes(S, C, Sc), CallerStep(S, Sc, max, c)
  PROVE  DirTypes(S, C, Sc)'
<1>0. /\ caller \in [C -> CallerOf(S, Sc)] /\ caller[c] \in CallerOf(S, Sc)
      /\ caller[c].at # "idle" => caller[c].name \in NamesOf(S)
      /\ definitions \in [DefinitionFiles -> ConfigsOf(S, C) \cup {None, Broken}]
      /\ agents \in [NamesOf(S) -> ConfigsOf(S, C) \cup {None}]
      /\ directory \in [NamesOf(S) -> RuntimeOf(Sc) \cup {None}]
      /\ \A d \in C : caller[d].at # "idle" => caller[d].name \in NamesOf(S)
  BY DEF DirTypes
<1>n. \A n \in NamesOf(S) : /\ n[1] \in DefinitionFiles
                            /\ [name |-> n, by |-> c, whole |-> TRUE] \in ConfigsOf(S, C)
                            /\ [name |-> n, by |-> c, whole |-> FALSE] \in ConfigsOf(S, C)
  BY DEF NamesOf, ConfigsOf
<1>i. NoCall \in CallerOf(S, Sc) /\ NoCall.at = "idle" /\ NewEntry \in RuntimeOf(Sc)
  BY DEF NoCall, CallerOf, NewEntry, RuntimeOf
\* One step changes one call, and what it writes is typed.
<1>c. ASSUME NEW new \in CallerOf(S, Sc), caller' = [caller EXCEPT ![c] = new],
             new.at # "idle" => new.name \in NamesOf(S)
      PROVE  /\ caller' \in [C -> CallerOf(S, Sc)]
             /\ \A d \in C : caller'[d].at # "idle" => caller'[d].name \in NamesOf(S)
  <2>1. caller'[c] = new /\ \A d \in C \ {c} : caller'[d] = caller[d]
    BY <1>0, <1>c
  <2>2. caller' \in [C -> CallerOf(S, Sc)]
    BY <1>0, <1>c
  <2> QED
    BY <1>0, <1>c, <2>1, <2>2
<1>g. ASSUME NEW to \in {"insert", "register", "count"}, caller[c].at # "idle",
             caller' = [caller EXCEPT ![c].at = to]
      PROVE  /\ caller' \in [C -> CallerOf(S, Sc)]
             /\ \A d \in C : caller'[d].at # "idle" => caller'[d].name \in NamesOf(S)
  <2> DEFINE new == [caller[c] EXCEPT !.at = to]
  <2>1. new \in CallerOf(S, Sc) /\ new.name = caller[c].name
    BY <1>0 DEF CallerOf
  <2>2. caller' = [caller EXCEPT ![c] = new]
    BY <1>g
  <2> HIDE DEF new
  <2> QED
    BY <1>0, <1>c, <1>g, <2>1, <2>2
<1>1. CASE \E n \in NamesOf(S), to \in {"save", "score"}, score \in Sc \cup {0} : Starts(c, to, n, score)
  <2>1. PICK n \in NamesOf(S), to \in {"save", "score"}, score \in Sc \cup {0} : Starts(c, to, n, score)
    BY <1>1
  <2> DEFINE new == [at |-> to, name |-> n, score |-> score]
  <2>2. new \in CallerOf(S, Sc) /\ new.name = n
    BY DEF CallerOf
  <2>3. caller' = [caller EXCEPT ![c] = new] /\ UNCHANGED <<definitions, agents, directory>>
    BY <2>1 DEF Starts
  <2> HIDE DEF new
  <2> QED
    BY <1>0, <1>c, <2>2, <2>3 DEF DirTypes, ConfigsOf, NamesOf
<1>2. CASE Writes(c)
  <2>1. /\ caller[c].name \in NamesOf(S) /\ caller[c].at # "idle"
        /\ caller' = [caller EXCEPT ![c].at = "insert"]
    BY <1>0, <1>2 DEF Writes
  <2>2. definitions' \in [DefinitionFiles -> ConfigsOf(S, C) \cup {None, Broken}]
    BY <1>0, <1>2, <1>n, <2>1 DEF Writes
  <2>3. UNCHANGED <<agents, directory>>
    BY <1>2 DEF Writes
  <2> QED
    BY <1>0, <1>g, <2>1, <2>2, <2>3 DEF DirTypes
<1>3. CASE FailsToWrite(c)
  <2>1. caller[c].name \in NamesOf(S) /\ caller' = [caller EXCEPT ![c] = NoCall]
    BY <1>0, <1>3 DEF FailsToWrite
  <2> DEFINE f == caller[c].name[1]
  <2>2. PICK left \in {definitions[f], Broken, [name |-> caller[c].name, by |-> c, whole |-> FALSE]} :
           definitions' = [definitions EXCEPT ![f] = left]
    BY <1>3 DEF FailsToWrite
  <2>4. left \in ConfigsOf(S, C) \cup {None, Broken}
    BY <1>0, <1>n, <2>1, <2>2
  <2> HIDE DEF f
  <2>5. definitions' \in [DefinitionFiles -> ConfigsOf(S, C) \cup {None, Broken}]
    BY <1>0, <2>2, <2>4
  <2>3. UNCHANGED <<agents, directory>>
    BY <1>3 DEF FailsToWrite
  <2> QED
    BY <1>0, <1>c, <1>i, <2>1, <2>5, <2>3 DEF DirTypes
<1>4. CASE Inserts(c)
  <2>1. /\ caller[c].name \in NamesOf(S) /\ caller[c].at # "idle"
        /\ caller' = [caller EXCEPT ![c].at = "register"]
    BY <1>0, <1>4 DEF Inserts
  <2>2. agents' \in [NamesOf(S) -> ConfigsOf(S, C) \cup {None}]
    BY <1>0, <1>4, <1>n, <2>1 DEF Inserts
  <2>3. UNCHANGED <<definitions, directory>>
    BY <1>4 DEF Inserts
  <2> QED
    BY <1>0, <1>g, <2>1, <2>2, <2>3 DEF DirTypes
<1>5. CASE Registers(c, max)
  <2>1. caller[c].name \in NamesOf(S) /\ caller' = [caller EXCEPT ![c] = NoCall]
    BY <1>0, <1>5 DEF Registers
  <2>2. directory' \in [NamesOf(S) -> RuntimeOf(Sc) \cup {None}]
    BY <1>0, <1>5, <1>i, <2>1 DEF Registers
  <2>3. UNCHANGED <<definitions, agents>>
    BY <1>5 DEF Registers
  <2> QED
    BY <1>0, <1>c, <1>i, <2>1, <2>2, <2>3 DEF DirTypes
<1>6. CASE RanksAgent(c)
  <2> DEFINE n == caller[c].name
  <2>1. n \in NamesOf(S) /\ caller[c].at # "idle" /\ UNCHANGED <<definitions, agents>>
    BY <1>0, <1>6 DEF RanksAgent
  <2>2. /\ caller' \in [C -> CallerOf(S, Sc)]
        /\ \A d \in C : caller'[d].at # "idle" => caller'[d].name \in NamesOf(S)
    BY <1>6, <1>c, <1>g, <1>i, <2>1 DEF RanksAgent
  <2>3. caller[c].score \in Sc \cup {0}
    BY <1>0 DEF CallerOf
  <2>4. \A r \in RuntimeOf(Sc) : /\ [r EXCEPT !.score = caller[c].score] \in RuntimeOf(Sc)
                                 /\ [r EXCEPT !.taskCount = @ + 1] \in RuntimeOf(Sc)
    BY <2>3 DEF RuntimeOf
  <2>5. CASE directory[n] = None
    BY <1>0, <1>6, <2>1, <2>2, <2>5 DEF RanksAgent, DirTypes
  <2>6. CASE directory[n] # None
    <3>1. directory[n] \in RuntimeOf(Sc)
      BY <1>0, <2>1, <2>6
    <3>2. \/ directory' = [directory EXCEPT ![n] = [directory[n] EXCEPT !.score = caller[c].score]]
          \/ directory' = [directory EXCEPT ![n] = [directory[n] EXCEPT !.taskCount = @ + 1]]
      BY <1>6, <2>6 DEF RanksAgent
    <3>3. directory' \in [NamesOf(S) -> RuntimeOf(Sc) \cup {None}]
      <4> DEFINE a == [directory[n] EXCEPT !.score = caller[c].score]
                 b == [directory[n] EXCEPT !.taskCount = @ + 1]
      <4>1. a \in RuntimeOf(Sc) /\ b \in RuntimeOf(Sc)
        BY <2>4, <3>1
      <4>2. directory' = [directory EXCEPT ![n] = a] \/ directory' = [directory EXCEPT ![n] = b]
        BY <3>2
      <4> HIDE DEF a, b
      <4> QED
        BY <1>0, <4>1, <4>2
    <3> QED
      BY <1>0, <2>1, <2>2, <3>3 DEF DirTypes
  <2> QED
    BY <2>5, <2>6
<1> QED
  BY <1>1, <1>2, <1>3, <1>4, <1>5, <1>6 DEF CallerStep

LEMMA AdminKeepsTypes ==
  ASSUME NEW S, NEW C, NEW Sc, NEW n \in NamesOf(S), DirTypes(S, C, Sc),
         AdminStep(n) \/ StateStep(n)
  PROVE  DirTypes(S, C, Sc)'
<1>0. n[1] \in DefinitionFiles /\ DirTypes(S, C, Sc)
  BY DEF NamesOf
<1>1. /\ definitions' \in [DefinitionFiles -> ConfigsOf(S, C) \cup {None, Broken}]
      /\ agents' \in [NamesOf(S) -> ConfigsOf(S, C) \cup {None}] /\ UNCHANGED caller
  BY <1>0 DEF AdminStep, StateStep, DirTypes
<1>2. directory' \in [NamesOf(S) -> RuntimeOf(Sc) \cup {None}]
  <2>1. CASE UNCHANGED directory
    BY <1>0, <2>1 DEF DirTypes
  <2>2. CASE directory' = [directory EXCEPT ![n] = None]
    BY <1>0, <2>2 DEF DirTypes
  <2>3. CASE \E s \in {"idle", "busy", "coordinating", "dormant", "error"} :
               directory[n] # None /\ directory' = [directory EXCEPT ![n].state = s]
    <3>1. PICK s \in {"idle", "busy", "coordinating", "dormant", "error"} :
             directory[n] # None /\ directory' = [directory EXCEPT ![n].state = s]
      BY <2>3
    <3> DEFINE new == [directory[n] EXCEPT !.state = s]
    <3>2. directory[n] \in RuntimeOf(Sc)
      BY <1>0, <3>1 DEF DirTypes
    <3>3. new \in RuntimeOf(Sc)
      BY <3>2 DEF RuntimeOf
    <3>4. directory' = [directory EXCEPT ![n] = new]
      BY <3>1
    <3> HIDE DEF new
    <3> QED
      BY <1>0, <3>3, <3>4 DEF DirTypes
  <2> QED
    BY <2>1, <2>2, <2>3 DEF AdminStep, StateStep
<1> QED
  BY <1>0, <1>1, <1>2 DEF DirTypes

(***************************************************************************)
(* A process that ends anywhere.                                           *)
(***************************************************************************)

\* What LoadAgentsFrom finds of a name.
Loaded(S, C, n) ==
  IF definitions[n[1]] \in ConfigsOf(S, C) /\ definitions[n[1]].name = n
  THEN definitions[n[1]] ELSE None

\* What is known is what LoadAgentsFrom finds, but for what a failure has cut.
IsKept(S, C, n) ==
  \/ agents[n] = Loaded(S, C, n)
  \/ agents[n] = None /\ ~Loaded(S, C, n).whole

\* The name whose definition is written and not yet known.
Pending(n) == caller[Owner].at = "insert" /\ caller[Owner].name = n

RestartedInv ==
  /\ DirTypes({lower}, {Owner}, SomeScores)
  /\ caller[Owner].at = "save" => agents[caller[Owner].name] = None
  /\ caller[Owner].at = "insert" =>
       definitions[caller[Owner].name[1]] = [name |-> caller[Owner].name, by |-> Owner, whole |-> TRUE]
  /\ \A n \in NamesOf({lower}) :
       IF Pending(n) THEN agents[n] = None ELSE IsKept({lower}, {Owner}, n)

LEMMA NoneIsNoConfig ==
  /\ None \notin ConfigsOf({lower}, {Owner}) /\ Broken \notin ConfigsOf({lower}, {Owner})
  /\ None \notin NamesOf({lower})
BY MCAssumption DEF Restarted!DirectoryAssumption, Restarted!AgentConfigs, Restarted!AgentNames,
   ConfigsOf, NamesOf

LEMMA StatesAreStates ==
  SomeStates \cup SharedStates \subseteq {"idle", "busy", "coordinating", "dormant", "error"}
BY MCAssumption DEF Restarted!DirectoryAssumption, Shared!DirectoryAssumption, Restarted!States,
   Shared!States

LEMMA RestartedInit == ASSUME Restarted!Init PROVE RestartedInv
<1>1. NoCall \in CallerOf({lower}, SomeScores) /\ NoCall.at = "idle"
  BY DEF NoCall, CallerOf
<1>2. /\ definitions = [f \in DefinitionFiles |-> None] /\ agents = [n \in NamesOf({lower}) |-> None]
      /\ directory = [n \in NamesOf({lower}) |-> None] /\ caller = [c \in {Owner} |-> NoCall]
  BY DEF Restarted!Init, Restarted!AgentNames, Restarted!Idle, NamesOf, NoCall
<1>3. DirTypes({lower}, {Owner}, SomeScores)
  BY <1>1, <1>2 DEF DirTypes
<1>4. \A n \in NamesOf({lower}) : definitions[n[1]] = None
  BY <1>2 DEF NamesOf
<1> QED
  BY <1>1, <1>2, <1>3, <1>4, NoneIsNoConfig DEF RestartedInv, IsKept, Loaded

LEMMA RestartedSteps ==
  ASSUME Restarted!Next
  PROVE  \/ CallerStep({lower}, SomeScores, 0, Owner)
         \/ \E n \in NamesOf({lower}) : AdminStep(n) \/ StateStep(n)
         \/ Restarted!Restart
<1>n. Restarted!AgentNames = NamesOf({lower})
  BY DEF Restarted!AgentNames, NamesOf
<1>1. CASE Restarted!WriteFile(Owner) \/ Restarted!WriteFails(Owner)
  BY <1>1 DEF Restarted!WriteFile, Restarted!WriteFails, Restarted!FileOf, Restarted!AgentConfig, Restarted!Goto,
     Restarted!Return, Restarted!Idle, CallerStep, Writes, FailsToWrite, NoCall
<1>2. CASE Restarted!Insert(Owner)
  BY <1>2 DEF Restarted!Insert, Restarted!AgentConfig, Restarted!Goto, CallerStep, Inserts
<1>3. CASE Restarted!Register(Owner)
  <2>1. ~(0 > 0)
    OBVIOUS
  <2> QED
    BY <1>3, <2>1 DEF Restarted!Register, Restarted!Registered, Restarted!Return, Restarted!Idle,
       Restarted!NewAgentRuntimeMeta, CallerStep, Registers, NoCall, NewEntry
<1>4. CASE Restarted!SetScore(Owner) \/ Restarted!IncrementTaskCount(Owner)
  BY <1>4 DEF Restarted!SetScore, Restarted!IncrementTaskCount, Restarted!Registered,
     Restarted!Goto, Restarted!Return, Restarted!Idle, CallerStep, RanksAgent, NoCall
<1>5. CASE \E n \in Restarted!AgentNames :
             \/ Restarted!CallCreate(Owner, n)
             \/ \E score \in SomeScores : Restarted!CallRank(Owner, n, score)
  BY <1>5, <1>n DEF Restarted!CallCreate, Restarted!CallRank, Restarted!Known, CallerStep, Starts
<1>6. ASSUME NEW n \in Restarted!AgentNames,
             \/ Restarted!RemoveAgent(n) \/ Restarted!Unregister(n)
             \/ \E s \in SomeStates : Restarted!SetState(n, s)
      PROVE  AdminStep(n) \/ StateStep(n)
  BY <1>6, StatesAreStates DEF Restarted!RemoveAgent, Restarted!Unregister, Restarted!SetState,
     Restarted!Known, Restarted!Registered, Restarted!FileOf, AdminStep, StateStep
<1> QED
  BY <1>1, <1>2, <1>3, <1>4, <1>5, <1>6, <1>n DEF Restarted!Next

\* Only the definition of one name is in a file.
LEMMA OneNameAFile == \A m, n \in NamesOf({lower}) : m[1] = n[1] => m = n
BY DEF NamesOf

LEMMA RestartedStep == ASSUME RestartedInv, Restarted!Next PROVE RestartedInv'
<1> DEFINE S == {lower}
           C == {Owner}
           me == caller[Owner]
<1>0. /\ DirTypes(S, C, SomeScores) /\ me \in CallerOf(S, SomeScores)
      /\ me.at # "idle" => me.name \in NamesOf(S) /\ me.name[1] \in DefinitionFiles
      /\ \A n \in NamesOf(S) : IF Pending(n) THEN agents[n] = None ELSE IsKept(S, C, n)
      /\ \A n \in NamesOf(S) : n[1] \in DefinitionFiles
      /\ definitions \in [DefinitionFiles -> ConfigsOf(S, C) \cup {None, Broken}]
      /\ agents \in [NamesOf(S) -> ConfigsOf(S, C) \cup {None}]
      /\ caller \in [C -> CallerOf(S, SomeScores)]
      /\ \A n \in NamesOf(S) : [name |-> n, by |-> Owner, whole |-> TRUE] \in ConfigsOf(S, C)
  BY DEF RestartedInv, DirTypes, NamesOf, ConfigsOf
<1>a. \A to \in {"insert", "register", "count"} : caller' = [caller EXCEPT ![Owner].at = to] =>
        caller'[Owner].at = to /\ caller'[Owner].name = me.name
  BY <1>0 DEF CallerOf
<1>b. caller' = [caller EXCEPT ![Owner] = NoCall] => caller'[Owner].at = "idle"
  BY <1>0 DEF NoCall
\* A step that leaves files and definitions alone, and is not a save.
<1>c. ASSUME UNCHANGED <<definitions, agents>>, DirTypes(S, C, SomeScores)',
             me.at # "insert", caller'[Owner].at # "insert",
             caller'[Owner].at = "save" => agents[caller'[Owner].name] = None
      PROVE  RestartedInv'
  BY <1>0, <1>c DEF RestartedInv, Pending, IsKept, Loaded, ConfigsOf, NamesOf
<1>1. CASE CallerStep(S, SomeScores, 0, Owner)
  <2>0. DirTypes(S, C, SomeScores)'
    BY <1>0, <1>1, CallerKeepsTypes
  <2>1. CASE \E n \in NamesOf(S), to \in {"save", "score"}, score \in SomeScores \cup {0} :
               Starts(Owner, to, n, score)
    <3>1. PICK n \in NamesOf(S), to \in {"save", "score"}, score \in SomeScores \cup {0} :
             Starts(Owner, to, n, score)
      BY <2>1
    <3>2. caller'[Owner].at = to /\ caller'[Owner].name = n /\ UNCHANGED <<definitions, agents>>
          /\ me.at = "idle" /\ (to = "save" => agents[n] = None)
      BY <1>0, <3>1 DEF Starts
    <3> QED
      BY <1>c, <2>0, <3>2
  <2>2. CASE Writes(Owner)
    <3>1. /\ me.at = "save" /\ me.name \in NamesOf(S) /\ UNCHANGED agents
          /\ definitions' = [definitions EXCEPT ![me.name[1]] = [name |-> me.name, by |-> Owner, whole |-> TRUE]]
          /\ caller'[Owner].at = "insert" /\ caller'[Owner].name = me.name
      BY <1>0, <1>a, <2>2 DEF Writes
    <3>2. definitions'[me.name[1]] = [name |-> me.name, by |-> Owner, whole |-> TRUE] /\ agents[me.name] = None
      BY <1>0, <3>1 DEF RestartedInv
    <3>3. ASSUME NEW n \in NamesOf(S)
          PROVE  IF Pending(n)' THEN agents'[n] = None ELSE IsKept(S, C, n)'
      <4>1. CASE n = me.name
        BY <3>1, <3>2, <4>1 DEF Pending
      <4>2. CASE n # me.name
        <5>1. n[1] # me.name[1] /\ ~Pending(n) /\ ~Pending(n)'
          BY <3>1, <4>2, OneNameAFile DEF Pending
        <5>2. definitions'[n[1]] = definitions[n[1]]
          BY <1>0, <3>1, <5>1
        <5> QED
          BY <1>0, <3>1, <5>1, <5>2 DEF IsKept, Loaded, ConfigsOf, NamesOf
      <4> QED
        BY <4>1, <4>2
    <3> QED
      BY <2>0, <3>1, <3>2, <3>3 DEF RestartedInv
  <2>3. CASE FailsToWrite(Owner)
    <3>1. me.at = "save" /\ me.name \in NamesOf(S) /\ UNCHANGED agents /\ caller'[Owner].at = "idle"
      BY <1>0, <1>b, <2>3 DEF FailsToWrite
    <3>2. PICK left \in {definitions[me.name[1]], Broken,
                        [name |-> me.name, by |-> Owner, whole |-> FALSE]} :
             definitions' = [definitions EXCEPT ![me.name[1]] = left]
      BY <2>3 DEF FailsToWrite
    <3>3. CASE left = definitions[me.name[1]]
      <4>1. UNCHANGED definitions
        BY <1>0, <3>1, <3>2, <3>3
      <4> QED
        BY <1>c, <2>0, <3>1, <4>1
    <3>4. CASE left # definitions[me.name[1]]
      <4>1. ASSUME NEW n \in NamesOf(S) PROVE IsKept(S, C, n)'
        <5>0. IsKept(S, C, n) /\ n[1] \in DefinitionFiles
          BY <1>0, <3>1 DEF Pending
        <5>1. CASE n = me.name
          <6>1. definitions'[n[1]] = left /\ agents'[n] = None
            BY <1>0, <3>1, <3>2, <5>0, <5>1 DEF RestartedInv
          <6>2. left = Broken \/ left = [name |-> n, by |-> Owner, whole |-> FALSE]
            BY <3>2, <3>4, <5>1
          <6>3. Loaded(S, C, n)' = None \/ Loaded(S, C, n)' = [name |-> n, by |-> Owner, whole |-> FALSE]
            BY <6>1, <6>2, NoneIsNoConfig DEF Loaded, ConfigsOf, NamesOf
          <6> QED
            BY <6>1, <6>3 DEF IsKept
        <5>2. CASE n # me.name
          <6>1. definitions'[n[1]] = definitions[n[1]]
            BY <1>0, <3>1, <3>2, <5>2, OneNameAFile
          <6> QED
            BY <3>1, <5>0, <6>1 DEF IsKept, Loaded, ConfigsOf, NamesOf
        <5> QED
          BY <5>1, <5>2
      <4> QED
        BY <2>0, <3>1, <4>1 DEF RestartedInv, Pending
    <3> QED
      BY <3>3, <3>4
  <2>4. CASE Inserts(Owner)
    <3>1. /\ me.at = "insert" /\ me.name \in NamesOf(S) /\ UNCHANGED definitions
          /\ caller'[Owner].at = "register"
          /\ agents' = [agents EXCEPT ![me.name] = [name |-> me.name, by |-> Owner, whole |-> TRUE]]
      BY <1>0, <1>a, <2>4 DEF Inserts
    <3>2. definitions[me.name[1]] = [name |-> me.name, by |-> Owner, whole |-> TRUE]
      BY <3>1 DEF RestartedInv
    <3>3. ASSUME NEW n \in NamesOf(S) PROVE IsKept(S, C, n)'
      <4>1. CASE n = me.name
        <5>1. [name |-> n, by |-> Owner, whole |-> TRUE] \in ConfigsOf(S, C)
          BY <1>0
        <5>2. agents'[n] = [name |-> n, by |-> Owner, whole |-> TRUE]
          BY <1>0, <3>1, <4>1
        <5>3. definitions[n[1]] = [name |-> n, by |-> Owner, whole |-> TRUE]
          BY <3>2, <4>1
        <5>4. definitions[n[1]] \in ConfigsOf(S, C) /\ definitions[n[1]].name = n
          BY <5>1, <5>3
        <5> QED
          BY <3>1, <5>2, <5>3, <5>4 DEF IsKept, Loaded, ConfigsOf, NamesOf
      <4>2. CASE n # me.name
        <5>1. agents'[n] = agents[n] /\ IsKept(S, C, n)
          BY <1>0, <3>1, <4>2 DEF Pending
        <5> QED
          BY <3>1, <5>1 DEF IsKept, Loaded, ConfigsOf, NamesOf
      <4> QED
        BY <4>1, <4>2
    <3> QED
      BY <2>0, <3>1, <3>3 DEF RestartedInv, Pending
  <2>5. CASE Registers(Owner, 0) \/ RanksAgent(Owner)
    <3>1. me.at # "insert" /\ caller'[Owner].at \in {"idle", "count"} /\ UNCHANGED <<definitions, agents>>
      BY <1>a, <1>b, <2>5 DEF Registers, RanksAgent
    <3> QED
      BY <1>c, <2>0, <3>1
  <2> QED
    BY <1>1, <2>1, <2>2, <2>3, <2>4, <2>5 DEF CallerStep
<1>2. CASE \E n \in NamesOf(S) : AdminStep(n) \/ StateStep(n)
  <2>1. PICK n \in NamesOf(S) : AdminStep(n) \/ StateStep(n)
    BY <1>2
  <2>2. DirTypes(S, C, SomeScores)' /\ UNCHANGED caller
    BY <1>0, <2>1, AdminKeepsTypes DEF AdminStep, StateStep
  <2>3. CASE UNCHANGED <<definitions, agents>>
    BY <2>2, <2>3 DEF RestartedInv, Pending, IsKept, Loaded, ConfigsOf, NamesOf
  <2>4. CASE /\ definitions' = [definitions EXCEPT ![n[1]] = None]
             /\ agents[n] # None /\ agents' = [agents EXCEPT ![n] = None]
    <3>1. ASSUME NEW m \in NamesOf(S) \ {n}
          PROVE  m[1] # n[1] /\ definitions'[m[1]] = definitions[m[1]] /\ agents'[m] = agents[m]
      <4>1. m[1] # n[1]
        BY OneNameAFile
      <4> QED
        BY <1>0, <2>4, <4>1
    <3>2. definitions'[n[1]] = None /\ agents'[n] = None
      BY <1>0, <2>4
    <3>3. me.at \in {"save", "insert"} => me.name # n
      BY <1>0, <2>4 DEF RestartedInv, Pending
    <3>4. ASSUME NEW m \in NamesOf(S)
          PROVE  IF Pending(m)' THEN agents'[m] = None ELSE IsKept(S, C, m)'
      <4>1. CASE m = n
        BY <3>2, <4>1, NoneIsNoConfig DEF IsKept, Loaded, ConfigsOf, NamesOf
      <4>2. CASE m # n
        <5>1. definitions'[m[1]] = definitions[m[1]] /\ agents'[m] = agents[m]
          BY <3>1, <4>2
        <5> QED
          BY <1>0, <2>2, <5>1 DEF IsKept, Loaded, ConfigsOf, NamesOf, Pending
      <4> QED
        BY <4>1, <4>2
    <3>5. me.at = "save" => agents'[me.name] = None
      BY <1>0, <3>1, <3>3 DEF RestartedInv
    <3>6. me.at = "insert" => definitions'[me.name[1]] = [name |-> me.name, by |-> Owner, whole |-> TRUE]
      BY <1>0, <3>1, <3>3 DEF RestartedInv
    <3> QED
      BY <2>2, <3>4, <3>5, <3>6 DEF RestartedInv
  <2> QED
    BY <2>1, <2>3, <2>4 DEF AdminStep, StateStep
<1>3. CASE Restarted!Restart
  <2>1. /\ UNCHANGED definitions
        /\ agents' = [n \in NamesOf(S) |-> Loaded(S, C, n)]
        /\ directory' = [n \in NamesOf(S) |-> None]
        /\ caller' = [c \in C |-> NoCall]
    BY <1>3 DEF Restarted!Restart, Restarted!LoadAgentsFrom, Restarted!AgentNames, Restarted!FileOf,
       Restarted!AgentConfigs, Restarted!Idle, Loaded, NamesOf, ConfigsOf, NoCall
  <2>2. NoCall \in CallerOf(S, SomeScores) /\ NoCall.at = "idle"
    BY DEF NoCall, CallerOf
  <2>3. \A n \in NamesOf(S) : Loaded(S, C, n) \in ConfigsOf(S, C) \cup {None}
    BY DEF Loaded
  <2>4. DirTypes(S, C, SomeScores)'
    <3>1. agents' \in [NamesOf(S) -> ConfigsOf(S, C) \cup {None}]
      BY <2>1, <2>3
    <3>2. caller' \in [C -> CallerOf(S, SomeScores)] /\ \A c \in C : caller'[c].at = "idle"
      BY <2>1, <2>2
    <3>3. directory' \in [NamesOf(S) -> RuntimeOf(SomeScores) \cup {None}]
      BY <2>1
    <3> QED
      BY <1>0, <2>1, <3>1, <3>2, <3>3 DEF DirTypes
  <2> QED
    BY <2>1, <2>2, <2>4 DEF RestartedInv, Pending, IsKept, Loaded, ConfigsOf, NamesOf
<1> QED
  BY <1>1, <1>2, <1>3, RestartedSteps

LEMMA RestartedIsSound ==
  ASSUME RestartedInv
  PROVE  Restarted!TypeOK /\ Restarted!RegistryIsOnDisk
<1>1. Restarted!TypeOK
  BY DEF RestartedInv, DirTypes, Restarted!TypeOK, NamesOf, ConfigsOf, RuntimeOf, CallerOf,
     Restarted!AgentNames, Restarted!AgentConfigs, Restarted!Metas, Restarted!States
<1>2. ASSUME Restarted!Quiet, NEW n \in Restarted!AgentNames
      PROVE  \/ agents[n] = Restarted!LoadAgentsFrom[n]
             \/ agents[n] = None /\ ~Restarted!LoadAgentsFrom[n].whole
  <2>1. n \in NamesOf({lower})
    BY DEF Restarted!AgentNames, NamesOf
  <2>2. IsKept({lower}, {Owner}, n)
    BY <1>2, <2>1 DEF Restarted!Quiet, RestartedInv, Pending
  <2>3. Restarted!LoadAgentsFrom[n] = Loaded({lower}, {Owner}, n)
    BY <2>1 DEF Restarted!LoadAgentsFrom, Restarted!AgentNames, Restarted!FileOf,
       Restarted!AgentConfigs, Loaded, NamesOf, ConfigsOf
  <2> QED
    BY <2>2, <2>3 DEF IsKept
<1> QED
  BY <1>1, <1>2 DEF Restarted!RegistryIsOnDisk

(***************************************************************************)
(* Several creators.  An agent that is known is registered, or about to    *)
(* be: its creator is at the next step, and nothing else takes the place.  *)
(***************************************************************************)

AboutToRegister(n) == \E c \in SomeCallers : caller[c].at = "register" /\ caller[c].name = n

SharedInv ==
  /\ DirTypes(SomeSpellings, SomeCallers, {})
  /\ \A n \in NamesOf(SomeSpellings) :
       agents[n] # None => directory[n] # None \/ AboutToRegister(n)

LEMMA SharedInit == ASSUME Shared!Init PROVE SharedInv
<1>1. NoCall \in CallerOf(SomeSpellings, {}) /\ NoCall.at = "idle"
  BY DEF NoCall, CallerOf
<1>2. /\ definitions = [f \in DefinitionFiles |-> None]
      /\ agents = [n \in NamesOf(SomeSpellings) |-> None]
      /\ directory = [n \in NamesOf(SomeSpellings) |-> None] /\ caller = [c \in SomeCallers |-> NoCall]
  BY DEF Shared!Init, Shared!AgentNames, Shared!Idle, NamesOf, NoCall
<1>3. DirTypes(SomeSpellings, SomeCallers, {})
  BY <1>1, <1>2 DEF DirTypes
<1> QED
  BY <1>2, <1>3 DEF SharedInv

LEMMA SharedSteps ==
  ASSUME Shared!Next
  PROVE  \/ \E c \in SomeCallers : CallerStep(SomeSpellings, {}, 0, c)
         \/ \E n \in NamesOf(SomeSpellings) : StateStep(n)
<1>n. Shared!AgentNames = NamesOf(SomeSpellings)
  BY DEF Shared!AgentNames, NamesOf
<1>a. SUFFICES ASSUME NEW c \in SomeCallers,
                      \/ Shared!WriteFile(c) \/ Shared!WriteFails(c)
                      \/ Shared!Insert(c) \/ Shared!Register(c)
                      \/ Shared!SetScore(c) \/ Shared!IncrementTaskCount(c)
                      \/ \E n \in Shared!AgentNames : Shared!CallCreate(c, n)
               PROVE  CallerStep(SomeSpellings, {}, 0, c)
  BY <1>n, StatesAreStates DEF Shared!Next, Shared!RemoveAgent, Shared!Unregister, Shared!SetState,
     Shared!Restart, Shared!Registered, StateStep
<1>1. CASE Shared!WriteFile(c) \/ Shared!WriteFails(c)
  BY <1>1 DEF Shared!WriteFile, Shared!WriteFails, Shared!FileOf, Shared!AgentConfig, Shared!Goto,
     Shared!Return, Shared!Idle, CallerStep, Writes, FailsToWrite, NoCall
<1>2. CASE Shared!Insert(c)
  BY <1>2 DEF Shared!Insert, Shared!AgentConfig, Shared!Goto, CallerStep, Inserts
<1>3. CASE Shared!Register(c)
  <2>1. ~(0 > 0)
    OBVIOUS
  <2> QED
    BY <1>3, <2>1 DEF Shared!Register, Shared!Registered, Shared!Return, Shared!Idle,
       Shared!NewAgentRuntimeMeta, CallerStep, Registers, NoCall, NewEntry
<1>4. CASE Shared!SetScore(c) \/ Shared!IncrementTaskCount(c)
  BY <1>4 DEF Shared!SetScore, Shared!IncrementTaskCount, Shared!Registered,
     Shared!Goto, Shared!Return, Shared!Idle, CallerStep, RanksAgent, NoCall
<1>5. CASE \E n \in Shared!AgentNames : Shared!CallCreate(c, n)
  BY <1>5, <1>n DEF Shared!CallCreate, Shared!Known, CallerStep, Starts
<1> QED
  BY <1>a, <1>1, <1>2, <1>3, <1>4, <1>5

LEMMA EntriesAreSome == None \notin RuntimeOf({}) /\ NewEntry \in RuntimeOf({})
BY MCAssumption DEF Shared!DirectoryAssumption, Shared!Metas, Shared!States, RuntimeOf, NewEntry

LEMMA SharedCallerStep ==
  ASSUME SharedInv, NEW c \in SomeCallers, CallerStep(SomeSpellings, {}, 0, c)
  PROVE  SharedInv'
<1> DEFINE S == SomeSpellings
           C == SomeCallers
           me == caller[c]
<1>1. CallerStep(S, {}, 0, c)
  OBVIOUS
<1>2. DirTypes(S, C, {}) /\ DirTypes(S, C, {})'
  BY <1>1, CallerKeepsTypes DEF SharedInv
<1>3. /\ caller \in [C -> CallerOf(S, {})] /\ me \in CallerOf(S, {})
      /\ me.at # "idle" => me.name \in NamesOf(S)
      /\ directory \in [NamesOf(S) -> RuntimeOf({}) \cup {None}]
      /\ directory' \in [NamesOf(S) -> RuntimeOf({}) \cup {None}]
      /\ agents \in [NamesOf(S) -> ConfigsOf(S, C) \cup {None}]
  BY <1>2 DEF DirTypes
<1>4. \A d \in C \ {c} : caller'[d] = caller[d]
  BY <1>1, <1>3 DEF CallerStep, Starts, Writes, FailsToWrite, Inserts, Registers, RanksAgent
<1>5. ASSUME NEW n \in NamesOf(S), directory[n] # None PROVE directory'[n] # None
  <2>1. CASE UNCHANGED directory
    BY <1>5, <2>1
  <2>2. CASE directory' = [directory EXCEPT ![me.name] = NewEntry]
    BY <1>3, <1>5, <2>2, EntriesAreSome
  <2>3. CASE directory[me.name] # None /\ \/ directory' = [directory EXCEPT ![me.name].score = me.score]
                                          \/ directory' = [directory EXCEPT ![me.name].taskCount = @ + 1]
    <3>1. CASE n = me.name
      <4>1. directory[n] \in RuntimeOf({})
        BY <1>3, <1>5
      <4>2. directory'[n] = [directory[n] EXCEPT !.score = me.score]
            \/ directory'[n] = [directory[n] EXCEPT !.taskCount = @ + 1]
        BY <1>3, <2>3, <3>1
      <4>3. me.score \in {} \cup {0}
        BY <1>3 DEF CallerOf
      <4>4. directory'[n] \in RuntimeOf({})
        BY <4>1, <4>2, <4>3 DEF RuntimeOf
      <4> QED
        BY <4>4, EntriesAreSome
    <3>2. CASE n # me.name
      BY <1>3, <1>5, <2>3, <3>2
    <3> QED
      BY <3>1, <3>2
  <2> QED
    BY <1>1, <2>1, <2>2, <2>3 DEF CallerStep, Starts, Writes, FailsToWrite, Inserts, Registers, RanksAgent
<1>6. ASSUME NEW n \in NamesOf(S), agents'[n] # None PROVE directory'[n] # None \/ AboutToRegister(n)'
  <2>1. CASE Inserts(c)
    <3>1. /\ agents' = [agents EXCEPT ![me.name] = [name |-> me.name, by |-> c, whole |-> TRUE]]
          /\ caller'[c].at = "register" /\ caller'[c].name = me.name
      BY <1>3, <2>1 DEF Inserts, CallerOf
    <3>2. CASE n = me.name
      BY <3>1, <3>2 DEF AboutToRegister
    <3>3. CASE n # me.name
      <4>1. agents[n] # None
        BY <1>3, <1>6, <3>1, <3>3
      <4>2. CASE directory[n] # None
        BY <1>5, <4>2
      <4>3. CASE AboutToRegister(n)
        <5>1. PICK d \in C : caller[d].at = "register" /\ caller[d].name = n
          BY <4>3 DEF AboutToRegister
        <5>2. d # c
          BY <2>1, <5>1 DEF Inserts
        <5> QED
          BY <1>4, <5>1, <5>2 DEF AboutToRegister
      <4> QED
        BY <4>1, <4>2, <4>3 DEF SharedInv
    <3> QED
      BY <3>2, <3>3
  <2>2. CASE ~Inserts(c)
    <3>1. UNCHANGED agents
      BY <1>1, <2>2 DEF CallerStep, Starts, Writes, FailsToWrite, Registers, RanksAgent
    <3>2. CASE directory[n] # None
      BY <1>5, <3>2
    <3>3. CASE AboutToRegister(n)
      <4>1. PICK d \in C : caller[d].at = "register" /\ caller[d].name = n
        BY <3>3 DEF AboutToRegister
      <4>2. CASE d # c
        BY <1>4, <4>1, <4>2 DEF AboutToRegister
      <4>3. CASE d = c
        <5>1. Registers(c, 0)
          BY <1>1, <2>2, <4>1, <4>3 DEF CallerStep, Starts, Writes, FailsToWrite, RanksAgent
        <5>2. ~(0 > 0)
          OBVIOUS
        <5>3. directory' = [directory EXCEPT ![n] = NewEntry] \/ directory[n] # None
          BY <4>1, <4>3, <5>1, <5>2 DEF Registers
        <5>4. CASE directory' = [directory EXCEPT ![n] = NewEntry]
          BY <1>3, <5>4, EntriesAreSome
        <5> QED
          BY <1>5, <5>3, <5>4
      <4> QED
        BY <4>2, <4>3
    <3> QED
      BY <1>6, <3>1, <3>2, <3>3 DEF SharedInv
  <2> QED
    BY <2>1, <2>2
<1> QED
  BY <1>2, <1>6 DEF SharedInv

LEMMA SharedStep == ASSUME SharedInv, Shared!Next PROVE SharedInv'
<1>1. ASSUME NEW n \in NamesOf(SomeSpellings), StateStep(n) PROVE SharedInv'
  <2>1. DirTypes(SomeSpellings, SomeCallers, {}) /\ DirTypes(SomeSpellings, SomeCallers, {})'
    BY <1>1, AdminKeepsTypes DEF SharedInv
  <2>2. UNCHANGED <<agents, caller>>
    BY <1>1 DEF StateStep
  <2>3. ASSUME NEW m \in NamesOf(SomeSpellings), directory[m] # None PROVE directory'[m] # None
    <3>1. CASE m # n
      BY <1>1, <2>1, <2>3, <3>1 DEF StateStep, DirTypes
    <3>2. CASE m = n
      <4>1. PICK s \in {"idle", "busy", "coordinating", "dormant", "error"} :
               directory' = [directory EXCEPT ![n].state = s]
        BY <1>1 DEF StateStep
      <4>2. directory[n] \in RuntimeOf({}) /\ directory'[n] = [directory[n] EXCEPT !.state = s]
        BY <2>1, <2>3, <3>2, <4>1 DEF DirTypes
      <4>3. directory'[n] \in RuntimeOf({})
        BY <4>2 DEF RuntimeOf
      <4> QED
        BY <3>2, <4>3, EntriesAreSome
    <3> QED
      BY <3>1, <3>2
  <2> QED
    BY <2>1, <2>2, <2>3 DEF SharedInv, AboutToRegister, NamesOf
<1> QED
  BY <1>1, SharedSteps, SharedCallerStep

LEMMA SharedIsSound == ASSUME SharedInv PROVE Shared!TypeOK /\ Shared!CreatedCanBeFound
<1>1. Shared!TypeOK
  BY DEF SharedInv, DirTypes, Shared!TypeOK, NamesOf, ConfigsOf, RuntimeOf, CallerOf,
     Shared!AgentNames, Shared!AgentConfigs, Shared!Metas, Shared!States
<1>2. ASSUME NEW n \in Shared!AgentNames, Shared!Known(n), \A c \in SomeCallers : caller[c].at = "idle"
      PROVE  directory[n] # None /\ directory[n].score >= 0
  <2>1. n \in NamesOf(SomeSpellings)
    BY DEF Shared!AgentNames, NamesOf
  <2>2. directory[n] # None /\ directory[n] \in RuntimeOf({}) \cup {None}
    BY <1>2, <2>1 DEF SharedInv, DirTypes, AboutToRegister, Shared!Known
  <2>3. directory[n].score = 0
    BY <2>2 DEF RuntimeOf
  <2> QED
    BY <2>2, <2>3
<1>3. ASSUME NEW n \in Shared!AgentNames, Shared!Known(n), \A c \in SomeCallers : caller[c].at = "idle",
             NEW query \in Described[n]
      PROVE  /\ directory[n].state # "error" => n \in Shared!FindAgent(query, 0, FALSE)
             /\ Shared!IsAvailable(n) => n \in Shared!FindAgent(query, 0, TRUE)
  <2>1. Shared!Registered(n) /\ directory[n].score >= 0
    BY <1>2, <1>3 DEF Shared!Registered
  <2>2. Shared!IsAvailable(n) => directory[n].state # "error"
    BY DEF Shared!IsAvailable
  <2>3. directory[n].state # "error" => n \in Shared!FindByDescription(query)
    BY <1>3, <2>1 DEF Shared!FindByDescription
  <2> QED
    BY <2>1, <2>2, <2>3 DEF Shared!FindAgent
<1>4. Shared!CreatedCanBeFound
  BY <1>2, <1>3 DEF Shared!CreatedCanBeFound, Shared!Registered
<1> QED
  BY <1>1, <1>4

(***************************************************************************)
(* The ranking.                                                            *)
(***************************************************************************)

HasEntry(n) == directory[n] # None

RankedInv ==
  /\ DirTypes(SomeSpellings, {Owner}, SomeScores)
  /\ IsFiniteSet({n \in NamesOf(SomeSpellings) : HasEntry(n)})

LEMMA RankedInit == ASSUME Ranked!Init PROVE RankedInv
<1>1. NoCall \in CallerOf(SomeSpellings, SomeScores) /\ NoCall.at = "idle"
  BY DEF NoCall, CallerOf
<1>2. /\ definitions = [f \in DefinitionFiles |-> None]
      /\ agents = [n \in NamesOf(SomeSpellings) |-> None]
      /\ directory = [n \in NamesOf(SomeSpellings) |-> None] /\ caller = [c \in {Owner} |-> NoCall]
  BY DEF Ranked!Init, Ranked!AgentNames, Ranked!Idle, NamesOf, NoCall
<1>3. DirTypes(SomeSpellings, {Owner}, SomeScores)
  BY <1>1, <1>2 DEF DirTypes
<1>4. {n \in NamesOf(SomeSpellings) : HasEntry(n)} = {}
  BY <1>2 DEF HasEntry
<1> QED
  BY <1>3, <1>4, FS_EmptySet DEF RankedInv

LEMMA RankedSteps ==
  ASSUME Ranked!Next
  PROVE  \/ CallerStep(SomeSpellings, SomeScores, MaxRanked, Owner)
         \/ \E n \in NamesOf(SomeSpellings) : StateStep(n)
<1>n. Ranked!AgentNames = NamesOf(SomeSpellings)
  BY DEF Ranked!AgentNames, NamesOf
<1>1. CASE Ranked!WriteFile(Owner) \/ Ranked!WriteFails(Owner)
  BY <1>1 DEF Ranked!WriteFile, Ranked!WriteFails, Ranked!FileOf, Ranked!AgentConfig, Ranked!Goto,
     Ranked!Return, Ranked!Idle, CallerStep, Writes, FailsToWrite, NoCall
<1>2. CASE Ranked!Insert(Owner)
  BY <1>2 DEF Ranked!Insert, Ranked!AgentConfig, Ranked!Goto, CallerStep, Inserts
<1>3. CASE Ranked!Register(Owner)
  BY <1>3 DEF Ranked!Register, Ranked!Registered, Ranked!Return, Ranked!Idle,
     Ranked!NewAgentRuntimeMeta, CallerStep, Registers, NoCall, NewEntry
<1>4. CASE Ranked!SetScore(Owner) \/ Ranked!IncrementTaskCount(Owner)
  BY <1>4 DEF Ranked!SetScore, Ranked!IncrementTaskCount, Ranked!Registered,
     Ranked!Goto, Ranked!Return, Ranked!Idle, CallerStep, RanksAgent, NoCall
<1>5. CASE \E n \in Ranked!AgentNames :
             \/ Ranked!CallCreate(Owner, n)
             \/ \E score \in SomeScores : Ranked!CallRank(Owner, n, score)
  BY <1>5, <1>n DEF Ranked!CallCreate, Ranked!CallRank, Ranked!Known, CallerStep, Starts
<1>6. ASSUME NEW n \in Ranked!AgentNames, NEW s \in SomeStates, Ranked!SetState(n, s)
      PROVE  StateStep(n)
  BY <1>6, StatesAreStates DEF Ranked!SetState, Ranked!Registered, StateStep
<1> QED
  BY <1>1, <1>2, <1>3, <1>4, <1>5, <1>6, <1>n DEF Ranked!Next, Ranked!RemoveAgent,
     Ranked!Unregister, Ranked!Restart

\* A step changes the entry of one name.
LEMMA RankedStep == ASSUME RankedInv, Ranked!Next PROVE RankedInv'
<1> DEFINE S == SomeSpellings
           entries == {n \in NamesOf(S) : HasEntry(n)}
<1>1. DirTypes(S, {Owner}, SomeScores) /\ DirTypes(S, {Owner}, SomeScores)'
  BY RankedSteps, CallerKeepsTypes, AdminKeepsTypes DEF RankedInv
<1>2. directory \in [NamesOf(S) -> RuntimeOf(SomeScores) \cup {None}]
  BY <1>1 DEF DirTypes
<1>3. \E one : \A n \in NamesOf(S) : n # one => directory'[n] = directory[n]
  <2>1. CASE CallerStep(S, SomeScores, MaxRanked, Owner)
    <3>1. \A n \in NamesOf(S) : n # caller[Owner].name => directory'[n] = directory[n]
      BY <1>2, <2>1 DEF CallerStep, Starts, Writes, FailsToWrite, Inserts, Registers, RanksAgent
    <3> QED
      BY <3>1
  <2>2. ASSUME NEW m \in NamesOf(S), StateStep(m) PROVE \E one : \A n \in NamesOf(S) : n # one => directory'[n] = directory[n]
    <3>1. \A n \in NamesOf(S) : n # m => directory'[n] = directory[n]
      BY <1>2, <2>2 DEF StateStep
    <3> QED
      BY <3>1
  <2> QED
    BY <2>1, <2>2, RankedSteps
<1>4. PICK one : \A n \in NamesOf(S) : n # one => directory'[n] = directory[n]
  BY <1>3
<1>5. {n \in NamesOf(S) : directory'[n] # None} \subseteq entries \cup {one}
  BY <1>4 DEF HasEntry
<1>6. IsFiniteSet(entries \cup {one})
  BY FS_AddElement DEF RankedInv
<1> HIDE DEF entries
<1>7. IsFiniteSet({n \in NamesOf(S) : directory'[n] # None})
  BY <1>5, <1>6, FS_Subset
<1>8. {n \in NamesOf(S) : directory'[n] # None} = {n \in NamesOf(S) : HasEntry(n)}'
  BY DEF HasEntry, NamesOf
<1> QED
  BY <1>1, <1>7, <1>8 DEF RankedInv

\* The best k of a list in the order of scores are those that score at least s.
Score(n) == directory[n].score

Ordered(list) == \A i, j \in DOMAIN list : i < j => Score(list[i]) >= Score(list[j])

Better(list, s) == {i \in DOMAIN list : Score(list[i]) >= s}

LEMMA BetterComeFirst ==
  ASSUME NEW E, \A n \in E : Score(n) \in Nat, NEW list \in Seq(E), Ordered(list), NEW s \in Nat
  PROVE  \E k \in 0..Len(list) : Better(list, s) = 1..k
<1> DEFINE better == Better(list, s)
           k == Greatest(better)
<1>0. /\ Len(list) \in Nat /\ DOMAIN list = 1..Len(list)
      /\ \A i \in 1..Len(list) : Score(list[i]) \in Nat
  OBVIOUS
<1>1. CASE better = {}
  <2>1. better = 1..0 /\ 0 \in 0..Len(list)
    BY <1>0, <1>1
  <2> QED
    BY <2>1
<1>2. CASE better # {}
  <2>1. better \in SUBSET (1..Len(list))
    BY <1>0 DEF Better
  <2> HIDE DEF better
  <2>2. k \in better /\ \A i \in better : i <= k
    BY <1>0, <1>2, <2>1, GreatestIsGreatest
  <2> HIDE DEF k
  <2>3. k \in 1..Len(list) /\ Score(list[k]) >= s
    BY <1>0, <2>2 DEF better, Better
  <2>4. ASSUME NEW i \in 1..k PROVE i \in better
    <3>1. i \in 1..Len(list)
      BY <1>0, <2>3
    <3>2. Score(list[i]) >= Score(list[k])
      <4>1. CASE i = k
        BY <1>0, <2>3, <4>1
      <4>2. CASE i < k
        BY <1>0, <2>3, <3>1, <4>2 DEF Ordered
      <4> QED
        BY <2>3, <4>1, <4>2
    <3>3. Score(list[i]) >= s
      BY <1>0, <2>3, <3>1, <3>2
    <3> QED
      BY <1>0, <3>1, <3>3 DEF better, Better
  <2>5. ASSUME NEW i \in better PROVE i \in 1..k
    <3>1. i \in 1..Len(list) /\ i <= k
      BY <2>1, <2>2
    <3> QED
      BY <2>3, <3>1
  <2>6. better = 1..k
    BY <2>4, <2>5
  <2>7. k \in 0..Len(list)
    BY <2>3
  <2> QED
    BY <2>6, <2>7 DEF better
<1> QED
  BY <1>1, <1>2

Insertion(list, k, n) == Ranking!InsertAt(list, k + 1, n)

IsInsertion(new, list, k, n, E) ==
  /\ new \in Seq(E) /\ Len(new) = Len(list) + 1
  /\ \A i \in 1..(Len(list) + 1) :
       new[i] = IF i <= k THEN list[i] ELSE IF i = k + 1 THEN n ELSE list[i - 1]

\* What is inserted behind k others is at k + 1; what is behind it moves on.
LEMMA InsertionIs ==
  ASSUME NEW E, NEW list \in Seq(E), NEW k \in 0..Len(list), NEW n \in E
  PROVE  IsInsertion(Insertion(list, k, n), list, k, n, E)
<1>0. Len(list) \in Nat /\ k \in Nat /\ k <= Len(list) /\ (k + 1) - 1 = k
  OBVIOUS
<1> DEFINE a == SubSeq(list, 1, (k + 1) - 1)
           b == SubSeq(list, k + 1, Len(list))
           ab == a \o <<n>>
<1>1. a \in Seq(E) /\ Len(a) = k /\ \A i \in 1..k : a[i] = list[i]
  BY <1>0
<1>2. b \in Seq(E) /\ Len(b) = Len(list) - k /\ \A i \in 1..(Len(list) - k) : b[i] = list[k + i]
  <2>1. CASE k = Len(list)
    <3>1. b = << >>
      BY <1>0, <2>1
    <3>2. 1..(Len(list) - k) = {} /\ Len(list) - k = 0
      BY <1>0, <2>1
    <3> QED
      BY <3>1, <3>2
  <2>2. CASE k # Len(list)
    <3>1. k + 1 \in 1..Len(list)
      BY <1>0, <2>2
    <3> QED
      BY <1>0, <3>1
  <2> QED
    BY <2>1, <2>2
<1>3. <<n>> \in Seq(E) /\ Len(<<n>>) = 1 /\ <<n>>[1] = n
  OBVIOUS
<1>4. Insertion(list, k, n) = ab \o b
  BY DEF Insertion, Ranking!InsertAt
<1> HIDE DEF a, b
<1>5. /\ ab \in Seq(E) /\ Len(ab) = k + 1
      /\ \A i \in 1..(k + 1) : ab[i] = IF i <= k THEN a[i] ELSE n
  <2>1. /\ ab \in Seq(E) /\ Len(ab) = k + 1
        /\ \A i \in 1..(k + 1) : ab[i] = IF i <= k THEN a[i] ELSE <<n>>[i - k]
    BY <1>1, <1>3, ConcatProperties
  <2>2. \A i \in 1..(k + 1) : ~(i <= k) => i - k = 1
    BY <1>0
  <2> QED
    BY <1>3, <2>1, <2>2
<1> HIDE DEF ab
<1>6. /\ ab \o b \in Seq(E) /\ Len(ab \o b) = Len(ab) + Len(b)
      /\ \A i \in 1..(Len(ab) + Len(b)) : (ab \o b)[i] = IF i <= Len(ab) THEN ab[i] ELSE b[i - Len(ab)]
  BY <1>2, <1>5, ConcatProperties
<1>7. Len(ab) + Len(b) = Len(list) + 1
  BY <1>0, <1>2, <1>5
<1>8. ASSUME NEW i \in 1..(Len(list) + 1)
      PROVE  (ab \o b)[i] = IF i <= k THEN list[i] ELSE IF i = k + 1 THEN n ELSE list[i - 1]
  <2>1. (ab \o b)[i] = IF i <= k + 1 THEN ab[i] ELSE b[i - (k + 1)]
    BY <1>5, <1>6, <1>7
  <2>2. CASE i <= k
    <3>1. i <= k + 1 /\ i \in 1..(k + 1) /\ i \in 1..k
      BY <1>0, <2>2
    <3> QED
      BY <1>1, <1>5, <2>1, <2>2, <3>1
  <2>3. CASE i = k + 1
    <3>1. i <= k + 1 /\ i \in 1..(k + 1) /\ ~(i <= k)
      BY <1>0, <2>3
    <3> QED
      BY <1>5, <2>1, <2>3, <3>1
  <2>4. CASE i > k + 1
    <3>1. ~(i <= k + 1) /\ ~(i <= k) /\ i # k + 1
      BY <1>0, <2>4
    <3>2. i - (k + 1) \in 1..(Len(list) - k) /\ k + (i - (k + 1)) = i - 1
      BY <1>0, <2>4
    <3> QED
      BY <1>2, <2>1, <3>1, <3>2
  <2>5. i <= k \/ i = k + 1 \/ i > k + 1
    BY <1>0
  <2> QED
    BY <2>2, <2>3, <2>4, <2>5
<1> QED
  BY <1>4, <1>6, <1>7, <1>8 DEF IsInsertion

Insert(list, n) == Ranking!InsertByScore(list, n)

LEMMA RankingCardinality == \A S : Ranking!Cardinality(S) = Cardinality(S)
BY DEF Cardinality, Ranking!Cardinality

\* An agent goes behind those of its score and above: the list stays in order,
\* and has one agent more.
LEMMA InsertByScoreKeepsOrder ==
  ASSUME NEW E, \A n \in E : Score(n) \in Nat, NEW list \in Seq(E), Ordered(list), NEW n \in E
  PROVE  /\ Insert(list, n) \in Seq(E) /\ Ordered(Insert(list, n))
         /\ \E k \in 0..Len(list) : Insert(list, n) = Insertion(list, k, n)
<1>0. /\ Len(list) \in Nat /\ DOMAIN list = 1..Len(list) /\ Score(n) \in Nat
      /\ \A i \in 1..Len(list) : Score(list[i]) \in Nat
  OBVIOUS
<1>1. PICK k \in 0..Len(list) : Better(list, Score(n)) = 1..k
  BY <1>0, BetterComeFirst
<1>2. Cardinality(1..k) = k
  BY <1>0, <1>1, FS_Interval
<1>3. Insert(list, n) = Insertion(list, k, n)
  <2>1. Ranking!Cardinality(Better(list, Score(n))) = k
    BY <1>1, <1>2, RankingCardinality
  <2> QED
    BY <2>1 DEF Insert, Ranking!InsertByScore, Insertion, Better, Score
<1> DEFINE new == Insertion(list, k, n)
           from(i) == IF i <= k THEN i ELSE i - 1
<1>4. /\ new \in Seq(E) /\ Len(new) = Len(list) + 1
      /\ \A i \in 1..(Len(list) + 1) :
           new[i] = IF i <= k THEN list[i] ELSE IF i = k + 1 THEN n ELSE list[i - 1]
  <2>1. IsInsertion(Insertion(list, k, n), list, k, n, E)
    BY InsertionIs
  <2> HIDE DEF new
  <2>2. IsInsertion(new, list, k, n, E)
    BY <2>1 DEF new
  <2> QED
    BY <2>2 DEF IsInsertion
<1> HIDE DEF new
<1>5. DOMAIN new = 1..(Len(list) + 1) /\ k \in Nat
  BY <1>0, <1>4
<1>6. ASSUME NEW i \in DOMAIN new, i # k + 1
      PROVE  from(i) \in DOMAIN list /\ new[i] = list[from(i)]
  <2>1. from(i) \in 1..Len(list)
    BY <1>0, <1>1, <1>5, <1>6
  <2> QED
    BY <1>0, <1>4, <1>5, <1>6, <2>1
<1>7. new[k + 1] = n
  <2>1. k + 1 \in 1..(Len(list) + 1) /\ ~(k + 1 <= k)
    BY <1>0, <1>1
  <2> QED
    BY <1>4, <2>1
<1>8. ASSUME NEW i \in DOMAIN new, NEW j \in DOMAIN new, i < j PROVE Score(new[i]) >= Score(new[j])
  <2>0. i \in Nat /\ j \in Nat
    BY <1>5
  <2>1. CASE i # k + 1 /\ j # k + 1
    <3>1. from(i) < from(j)
      BY <1>5, <1>8, <2>0, <2>1
    <3> HIDE DEF from
    <3> QED
      BY <1>6, <2>1, <3>1 DEF Ordered
  <2>2. CASE i = k + 1
    <3>1. j # k + 1 /\ ~(from(j) <= k)
      BY <1>5, <1>8, <2>0, <2>2
    <3> HIDE DEF from
    <3>2. from(j) \in DOMAIN list /\ new[j] = list[from(j)]
      BY <1>6, <3>1
    <3>3. from(j) \notin Better(list, Score(n))
      BY <1>1, <1>5, <3>1
    <3>4. ~(Score(list[from(j)]) >= Score(n)) /\ Score(list[from(j)]) \in Nat
      BY <1>0, <3>2, <3>3 DEF Better
    <3>5. Score(n) >= Score(list[from(j)])
      BY <1>0, <3>4
    <3> QED
      BY <1>7, <2>2, <3>2, <3>5
  <2>3. CASE j = k + 1
    <3>1. i # k + 1 /\ from(i) \in 1..k
      BY <1>5, <1>8, <2>0, <2>3
    <3> HIDE DEF from
    <3>2. new[i] = list[from(i)] /\ from(i) \in Better(list, Score(n))
      BY <1>1, <1>6, <3>1
    <3> QED
      BY <1>7, <2>3, <3>2 DEF Better
  <2> QED
    BY <2>1, <2>2, <2>3
<1>9. Ordered(new)
  BY <1>8 DEF Ordered
<1> QED
  BY <1>1, <1>3, <1>4, <1>9 DEF new

Distinct(list) == \A i, j \in DOMAIN list : list[i] = list[j] => i = j
Held(list) == {list[i] : i \in DOMAIN list}

\* What it holds is what it held, each once, and the agent.
LEMMA InsertionHolds ==
  ASSUME NEW E, NEW list \in Seq(E), NEW k \in 0..Len(list), NEW n \in E,
         Distinct(list), n \notin Held(list)
  PROVE  /\ Distinct(Insertion(list, k, n))
         /\ Held(Insertion(list, k, n)) = Held(list) \cup {n}
<1> DEFINE from(i) == IF i <= k THEN i ELSE i - 1
           new == Insertion(list, k, n)
<1>0. Len(list) \in Nat /\ DOMAIN list = 1..Len(list) /\ k \in Nat
  OBVIOUS
<1>3. IsInsertion(new, list, k, n, E)
  BY InsertionIs
<1> HIDE DEF new
<1>4. /\ new \in Seq(E) /\ Len(new) = Len(list) + 1
      /\ \A i \in 1..(Len(list) + 1) :
           new[i] = IF i <= k THEN list[i] ELSE IF i = k + 1 THEN n ELSE list[i - 1]
  BY <1>3 DEF IsInsertion
<1>5. DOMAIN new = 1..(Len(list) + 1)
  BY <1>0, <1>4
<1>6. ASSUME NEW i \in DOMAIN new, i # k + 1
      PROVE  from(i) \in DOMAIN list /\ new[i] = list[from(i)]
  <2>1. from(i) \in 1..Len(list)
    BY <1>0, <1>5, <1>6
  <2> QED
    BY <1>0, <1>4, <1>5, <1>6, <2>1
<1>7. k + 1 \in DOMAIN new /\ new[k + 1] = n
  <2>1. k + 1 \in 1..(Len(list) + 1) /\ ~(k + 1 <= k)
    BY <1>0
  <2> QED
    BY <1>4, <1>5, <2>1
<1>8. ASSUME NEW i \in DOMAIN new, NEW j \in DOMAIN new, new[i] = new[j] PROVE i = j
  <2>1. CASE i # k + 1 /\ j # k + 1
    <3>1. from(i) = from(j)
      BY <1>6, <1>8, <2>1 DEF Distinct
    <3>2. i \in Nat /\ j \in Nat
      BY <1>0, <1>5
    <3> QED
      BY <1>0, <2>1, <3>1, <3>2
  <2>2. CASE i = k + 1 /\ j # k + 1
    BY <1>6, <1>7, <1>8, <2>2 DEF Held
  <2>3. CASE j = k + 1 /\ i # k + 1
    BY <1>6, <1>7, <1>8, <2>3 DEF Held
  <2> QED
    BY <2>1, <2>2, <2>3
<1>9. ASSUME NEW i \in DOMAIN list PROVE \E j \in DOMAIN new : new[j] = list[i]
  <2> DEFINE j == IF i <= k THEN i ELSE i + 1
  <2>1. j \in DOMAIN new /\ j # k + 1 /\ from(j) = i
    BY <1>0, <1>5
  <2> HIDE DEF j, from
  <2> QED
    BY <1>6, <2>1
<1>10. {new[i] : i \in DOMAIN new} \subseteq {list[i] : i \in DOMAIN list} \cup {n}
  BY <1>6, <1>7
<1>11. {list[i] : i \in DOMAIN list} \cup {n} \subseteq {new[i] : i \in DOMAIN new}
  BY <1>7, <1>9
<1> QED
  BY <1>8, <1>10, <1>11 DEF new, Distinct, Held

RankFold(order) == Ranking!FoldLeft(LAMBDA sorted, n : Insert(sorted, n), <<>>, order)

IsRanked(list, agentsListed) ==
  /\ Ordered(list)
  /\ Distinct(list)
  /\ Held(list) = agentsListed

\* The list of the first n of an order, by induction on n.
LEMMA FoldIsRanked ==
  ASSUME NEW E, \A n \in E : Score(n) \in Nat, NEW order \in Seq(E),
         \A i, j \in DOMAIN order : i # j => order[i] # order[j]
  PROVE  IsRanked(RankFold(order), {order[i] : i \in DOMAIN order})
<1> DEFINE V == {list \in Seq(E) : Ordered(list)}
           Equation(f) ==
             f = [t \in SUBSET DOMAIN order |->
                    IF t = {} THEN <<>> ELSE Insert(f[t \ {Greatest(t)}], order[Greatest(t)])]
           op == [p \in V \X E |-> Insert(p[1], p[2])]
           iter == CHOOSE f : Equation(f)
<1>0. /\ Len(order) \in Nat /\ DOMAIN order = 1..Len(order)
      /\ \A k \in 1..Len(order) : order[k] \in E
  OBVIOUS
<1>w. \A v \in V, e \in E : Insert(v, e) \in V
  BY InsertByScoreKeepsOrder
<1>v. <<>> \in V
  BY DEF Ordered
<1>1. \E f : Equation(f) /\ f \in [SUBSET (1..Len(order)) -> V]
  <2> HIDE DEF V
  <2>1. op \in [V \X E -> V]
    BY <1>w
  <2>2. \A v \in V, e \in E : op[<<v, e>>] = Insert(v, e)
    OBVIOUS
  <2> HIDE DEF op, Equation, iter
  <2>3. PICK f : Iterates(f, V, op, <<>>, order)
    BY <1>v, <2>1, IterationExists
  <2>4. ASSUME NEW t \in SUBSET (1..Len(order)), t # {}
        PROVE  op[<<f[t \ {Greatest(t)}], order[Greatest(t)]>>]
                 = Insert(f[t \ {Greatest(t)}], order[Greatest(t)])
    <3>1. Greatest(t) \in 1..Len(order)
      BY <1>0, <2>4, GreatestIsGreatest
    <3>2. order[Greatest(t)] \in E /\ f[t \ {Greatest(t)}] \in V
      BY <1>0, <2>3, <3>1 DEF Iterates
    <3> QED
      BY <2>2, <3>2
  <2>5. Equation(f)
    BY <1>0, <2>3, <2>4 DEF Equation, Iterates
  <2> QED
    BY <2>3, <2>5 DEF Iterates
<1>2. Equation(iter)
  <2> HIDE DEF Equation
  <2> QED
    BY <1>1
<1>3. RankFold(order) = iter[DOMAIN order]
  BY DEF RankFold, Ranking!FoldLeft, Ranking!MapThenFoldSet, Greatest, Ranking!Max
<1> HIDE DEF iter, V
<1>4. iter[1..0] = <<>>
  <2>1. 1..0 = {} /\ {} \in SUBSET DOMAIN order
    OBVIOUS
  <2> QED
    BY <1>2, <2>1
<1>5. ASSUME NEW n \in Nat, n + 1 <= Len(order)
      PROVE  iter[1..(n + 1)] = Insert(iter[1..n], order[n + 1])
  <2>0. n + 1 \in 1..Len(order) /\ (n + 1) - 1 = n /\ n + 1 \in Nat /\ n + 1 # 0
    BY <1>0, <1>5
  <2>1. 1..(n + 1) \in SUBSET DOMAIN order /\ 1..(n + 1) # {}
    <3>1. n + 1 \in 1..(n + 1) /\ 1..(n + 1) \subseteq 1..Len(order)
      BY <1>0, <2>0
    <3> QED
      BY <1>0, <3>1
  <2>2. Greatest(1..(n + 1)) = n + 1 /\ (1..(n + 1)) \ {n + 1} = 1..n
    BY <2>0, GreatestOfRange
  <2> QED
    BY <1>2, <2>1, <2>2
<1> HIDE DEF Equation
<1> DEFINE Good(n) == iter[1..n] \in V /\ IsRanked(iter[1..n], {order[i] : i \in 1..n})
           Reached == {n \in Nat : n > Len(order) \/ Good(n)}
<1>6. Good(0)
  <2>1. {order[i] : i \in 1..0} = {}
    OBVIOUS
  <2> QED
    BY <1>4, <1>v, <2>1 DEF IsRanked, Ordered, Distinct, Held
<1>7. ASSUME NEW n \in Nat, n + 1 <= Len(order), Good(n) PROVE Good(n + 1)
  <2> DEFINE list == iter[1..n]
             next == order[n + 1]
             new == iter[1..(n + 1)]
  <2>1. n + 1 \in 1..Len(order) /\ next \in E /\ new = Insert(list, next)
    BY <1>0, <1>5, <1>7
  <2>2. list \in Seq(E) /\ Ordered(list) /\ Distinct(list)
    BY <1>7 DEF V, IsRanked
  <2>3. Held(list) = {order[i] : i \in 1..n}
    BY <1>7 DEF IsRanked
  <2> HIDE DEF list
  <2>4. ASSUME NEW i \in 1..n PROVE order[i] # next
    <3>1. i \in 1..Len(order) /\ i # n + 1
      BY <1>0, <1>7
    <3> QED
      BY <1>0, <2>1, <3>1
  <2>5. next \notin Held(list)
    BY <2>3, <2>4
  <2> HIDE DEF next, new
  <2>6. new \in Seq(E) /\ Ordered(new)
    BY <2>1, <2>2, InsertByScoreKeepsOrder
  <2>7. PICK k \in 0..Len(list) : new = Insertion(list, k, next)
    BY <2>1, <2>2, InsertByScoreKeepsOrder
  <2>8. Distinct(new) /\ Held(new) = Held(list) \cup {next}
    BY <2>1, <2>2, <2>5, <2>7, InsertionHolds
  <2>9. 1..(n + 1) = 1..n \cup {n + 1}
    OBVIOUS
  <2>10. {order[i] : i \in 1..(n + 1)} = {order[i] : i \in 1..n} \cup {next}
    BY <2>9 DEF next
  <2>11. IsRanked(new, {order[i] : i \in 1..(n + 1)})
    BY <2>3, <2>6, <2>8, <2>10 DEF IsRanked
  <2> QED
    BY <2>6, <2>11 DEF new, V
<1> HIDE DEF Good
<1>8. \A n \in Nat : n \in Reached
  <2>1. 0 \in Reached
    BY <1>6
  <2>2. ASSUME NEW n \in Nat, n \in Reached PROVE n + 1 \in Reached
    <3>1. CASE n + 1 > Len(order)
      BY <3>1
    <3>2. CASE n + 1 <= Len(order)
      <4>1. ~(n > Len(order))
        BY <1>0, <3>2
      <4>2. Good(n)
        BY <2>2, <4>1
      <4> QED
        BY <1>7, <3>2, <4>2
    <3> QED
      BY <1>0, <3>1, <3>2
  <2> HIDE DEF Reached
  <2> QED
    BY <2>1, <2>2, NaturalSteps
<1>9. Good(Len(order))
  <2>1. ~(Len(order) > Len(order)) /\ Len(order) \in Reached
    BY <1>0, <1>8
  <2> QED
    BY <2>1
<1> QED
  BY <1>0, <1>3, <1>9 DEF Good

\* An order of a finite set has all of it, or two of its places would have one
\* element.
LEMMA OrdersAreComplete ==
  ASSUME NEW S, IsFiniteSet(S), NEW order \in Ranking!SetToSeqs(S)
  PROVE  /\ order \in Seq(S) /\ {order[i] : i \in DOMAIN order} = S
         /\ \A i, j \in DOMAIN order : i # j => order[i] # order[j]
<1> DEFINE k == Cardinality(S)
<1>1. k \in Nat
  BY FS_CardinalityType
<1>2. order \in [1..k -> S] /\ \A i, j \in 1..k : i # j => order[i] # order[j]
  BY RankingCardinality DEF Ranking!SetToSeqs
<1> HIDE DEF k
<1>3. order \in Seq(S) /\ DOMAIN order = 1..k
  BY <1>1, <1>2
<1>4. ASSUME NEW x \in S, x \notin {order[i] : i \in DOMAIN order} PROVE FALSE
  <2>1. order \in [1..k -> S \ {x}]
    BY <1>2, <1>4
  <2>2. IsFiniteSet(S \ {x}) /\ Cardinality(S \ {x}) = k - 1
    BY <1>4, FS_RemoveElement DEF k
  <2>3. IsFiniteSet(1..k) /\ Cardinality(1..k) = k
    BY <1>1, FS_Interval
  <2>4. Cardinality(S \ {x}) < Cardinality(1..k)
    BY <1>1, <2>2, <2>3
  <2>5. \E i, j \in 1..k : i # j /\ order[i] = order[j]
    BY <2>1, <2>2, <2>3, <2>4, FS_PigeonHole
  <2> QED
    BY <1>2, <2>5
<1> QED
  BY <1>2, <1>3, <1>4

LEMMA ScoresAreNatural == \A r \in RuntimeOf(SomeScores) : r.score \in Nat
<1>1. SomeScores \subseteq 0..3
  BY Zenon, MCAssumption DEF Ranked!DirectoryAssumption
<1>2. SomeScores \cup {0} \subseteq Nat
  BY <1>1
<1> QED
  BY <1>2 DEF RuntimeOf

LEMMA RankedIsSound ==
  ASSUME RankedInv
  PROVE  Ranked!TypeOK /\ Ranking!AvailableAreInScoreOrder
<1>1. Ranked!TypeOK
  BY DEF RankedInv, DirTypes, Ranked!TypeOK, NamesOf, ConfigsOf, RuntimeOf, CallerOf,
     Ranked!AgentNames, Ranked!AgentConfigs, Ranked!Metas, Ranked!States
<1> DEFINE available == {n \in Ranked!AgentNames : Ranking!IsAvailable(n)}
<1>2. /\ available \subseteq {n \in NamesOf(SomeSpellings) : HasEntry(n)}
      /\ \A n \in available : directory[n] \in RuntimeOf(SomeScores)
  BY DEF RankedInv, DirTypes, Ranking!IsAvailable, HasEntry, Ranked!AgentNames, NamesOf
<1>3. \A n \in available : Score(n) \in Nat
  BY <1>2, ScoresAreNatural DEF Score
<1>4. IsFiniteSet(available)
  BY <1>2, FS_Subset DEF RankedInv
<1>5. ASSUME NEW list \in Ranking!ListAvailable PROVE IsRanked(list, available)
  <2>1. PICK order \in Ranking!SetToSeqs(available) : list = RankFold(order)
    BY DEF Ranking!ListAvailable, RankFold, Insert
  <2> HIDE DEF available
  <2>2. /\ order \in Seq(available) /\ {order[i] : i \in DOMAIN order} = available
        /\ \A i, j \in DOMAIN order : i # j => order[i] # order[j]
    BY <1>4, OrdersAreComplete
  <2> QED
    BY <1>3, <2>1, <2>2, FoldIsRanked
<1>6. Ranking!AvailableAreInScoreOrder
  BY <1>5 DEF IsRanked, Distinct, Held, Ordered, Score, Ranking!AvailableAreInScoreOrder, Ranking!Range, Ranking!IsInjective
<1> QED
  BY <1>1, <1>6

AgentsInv ==
  /\ scope = "restarted" => RestartedInv
  /\ scope = "shared" => SharedInv
  /\ scope = "ranked" => RankedInv

\* A process that ends anywhere and starts again knows the agents it knew, and
\* besides at most those whose creation failed and left a part of a file; an agent
\* that was created is found by FindAgent, which lists in no order; and
\* ListAvailable, which has no caller, lists those that are free by their score.
THEOREM DirectoryStaysSound == MCSpec => []DirectoryIsSound
<1>1. MCInit => AgentsInv
  BY RestartedInit, SharedInit, RankedInit DEF MCInit, AgentsInv
<1>2. AgentsInv /\ [MCNext]_allVars => AgentsInv'
  <2> SUFFICES ASSUME AgentsInv, [MCNext]_allVars PROVE AgentsInv'
    OBVIOUS
  <2>1. UNCHANGED scope
    BY DEF MCNext, allVars
  <2>2. CASE scope = "restarted"
    <3>1. Restarted!Next \/ UNCHANGED dirVars
      BY <2>2 DEF MCNext, allVars
    <3>2. RestartedInv
      BY <2>2 DEF AgentsInv
    <3>3. ASSUME UNCHANGED dirVars PROVE RestartedInv'
      BY <3>2, <3>3 DEF dirVars, RestartedInv, DirTypes, Pending, IsKept, Loaded, NamesOf, ConfigsOf,
         RuntimeOf, CallerOf
    <3>4. RestartedInv'
      BY <3>1, <3>2, <3>3, RestartedStep
    <3> QED
      BY <2>1, <2>2, <3>4 DEF AgentsInv
  <2>3. CASE scope = "shared"
    <3>1. Shared!Next \/ UNCHANGED dirVars
      BY <2>3 DEF MCNext, allVars
    <3>2. SharedInv
      BY <2>3 DEF AgentsInv
    <3>3. ASSUME UNCHANGED dirVars PROVE SharedInv'
      BY <3>2, <3>3 DEF dirVars, SharedInv, DirTypes, AboutToRegister, NamesOf, ConfigsOf,
         RuntimeOf, CallerOf
    <3>4. SharedInv'
      BY <3>1, <3>2, <3>3, SharedStep
    <3> QED
      BY <2>1, <2>3, <3>4 DEF AgentsInv
  <2>4. CASE scope = "ranked"
    <3>1. Ranked!Next \/ UNCHANGED dirVars
      BY <2>4 DEF MCNext, allVars
    <3>2. RankedInv
      BY <2>4 DEF AgentsInv
    <3>3. ASSUME UNCHANGED dirVars PROVE RankedInv'
      BY <3>2, <3>3 DEF dirVars, RankedInv, DirTypes, HasEntry, NamesOf, ConfigsOf,
         RuntimeOf, CallerOf
    <3>4. RankedInv'
      BY <3>1, <3>2, <3>3, RankedStep
    <3> QED
      BY <2>1, <2>4, <3>4 DEF AgentsInv
  <2> QED
    BY <2>1, <2>2, <2>3, <2>4 DEF AgentsInv
<1>3. AgentsInv => DirectoryIsSound
  BY RestartedIsSound, SharedIsSound, RankedIsSound DEF AgentsInv, DirectoryIsSound
<1> QED
  BY <1>1, <1>2, <1>3, PTL DEF MCSpec
=============================================================================
