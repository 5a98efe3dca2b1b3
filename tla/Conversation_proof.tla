-------------------------- MODULE Conversation_proof --------------------------
(***************************************************************************)
(* Proofs about windows (SlidingWindow) and about the steps of             *)
(* Conversation, of any callers.                                           *)
(*                                                                         *)
(* What the sliding of a window and the choice of a context compute is     *)
(* defined by folds, so the first part is about those: what a fold over a  *)
(* sequence returns, and from that what Weight, NonSystem, Slide and       *)
(* NewestWithin do.  The second part has what the steps of Conversation    *)
(* keep.  MCConversation_proof makes invariants of them.                   *)
(***************************************************************************)
EXTENDS Conversation, WellFoundedInduction, SequenceTheorems, TLAPS

-----------------------------------------------------------------------------

(***************************************************************************)
(* Natural numbers and the maximum of a range.                             *)
(***************************************************************************)

\* A set of naturals that is not empty has a least element.
LEMMA LeastNatural ==
  ASSUME NEW S \in SUBSET Nat, S # {}
  PROVE  \E n \in S : \A m \in S : n <= m
<1>1. PICK n \in S : \A m \in S : ~(<<m, n>> \in OpToRel(<, Nat))
  BY WFMin, NatLessThanWellFounded
<1>2. \A m \in S : <<m, n>> \in OpToRel(<, Nat) <=> m < n
  BY DEF OpToRel
<1>3. \A m \in S : ~(m < n)
  BY <1>1, <1>2, Zenon
<1> QED
  BY <1>3

\* A set with 0 and the successors of its members is all of Nat: a missing
\* number that is least would have a predecessor that is not missing.
LEMMA NaturalSteps ==
  ASSUME NEW S, 0 \in S, \A n \in Nat : n \in S => n + 1 \in S
  PROVE  \A n \in Nat : n \in S
<1> DEFINE Missing == {n \in Nat : n \notin S}
<1> SUFFICES ASSUME Missing # {} PROVE FALSE
  OBVIOUS
<1>1. PICK m \in Missing : \A n \in Missing : m <= n
  <2>1. Missing \in SUBSET Nat
    OBVIOUS
  <2> HIDE DEF Missing
  <2> QED
    BY <2>1, LeastNatural
<1>2. m \in Nat \ {0} /\ m - 1 \in Nat /\ m = (m - 1) + 1
  OBVIOUS
<1>3. m - 1 \in S
  BY <1>1, <1>2
<1> QED
  BY <1>2, <1>3

\* Max chooses the greatest element of a set of indices.
LEMMA MaxIsGreatest ==
  ASSUME NEW n \in Nat, NEW S \in SUBSET (1..n), S # {}
  PROVE  Max(S) \in S /\ \A x \in S : x <= Max(S)
<1> DEFINE Below == {m \in Nat : \E x \in S : m = n - x}
<1>1. PICK b \in Below : \A c \in Below : b <= c
  <2>1. PICK x \in S : TRUE
    OBVIOUS
  <2>2. n - x \in Nat
    OBVIOUS
  <2>3. Below # {}
    BY <2>2
  <2>4. Below \in SUBSET Nat
    OBVIOUS
  <2> HIDE DEF Below
  <2> QED
    BY <2>3, <2>4, LeastNatural
<1>2. PICK x \in S : b = n - x
  OBVIOUS
<1>3. ASSUME NEW y \in S PROVE x >= y
  <2>1. n - y \in Below
    OBVIOUS
  <2>2. n - x <= n - y
    BY <1>1, <1>2, <2>1
  <2>3. x \in Int /\ y \in Int
    OBVIOUS
  <2> QED
    BY <2>2, <2>3
<1>4. Max(S) \in S /\ \A y \in S : Max(S) >= y
  BY <1>3 DEF Max
<1>5. ASSUME NEW y \in S PROVE y <= Max(S)
  <2>1. Max(S) >= y /\ Max(S) \in 1..n /\ y \in 1..n
    BY <1>4, Zenon
  <2> QED
    BY <2>1
<1> QED
  BY <1>4, <1>5

LEMMA MaxOfRange ==
  ASSUME NEW k \in Nat, k # 0
  PROVE  Max(1..k) = k /\ (1..k) \ {k} = 1..(k - 1)
<1>1. k \in 1..k
  OBVIOUS
<1>2. Max(1..k) \in 1..k /\ k <= Max(1..k)
  BY <1>1, MaxIsGreatest
<1>3. (1..k) \ {k} = 1..(k - 1)
  OBVIOUS
<1> QED
  BY <1>2, <1>3

(***************************************************************************)
(* Folds.  FoldLeft is the value at the domain of a sequence of a function *)
(* on the subsets of that domain, which is chosen among those that satisfy *)
(* its equation.  There is one, so that the chosen one has the equation.   *)
(***************************************************************************)

Iterates(f, V, op, base, seq) ==
  /\ f \in [SUBSET (1..Len(seq)) -> V]
  /\ \A s \in SUBSET (1..Len(seq)) :
       f[s] = IF s = {} THEN base ELSE op[<<f[s \ {Max(s)}], seq[Max(s)]>>]

LEMMA IterationExists ==
  ASSUME NEW V, NEW E, NEW op \in [V \X E -> V], NEW base \in V, NEW seq \in Seq(E)
  PROVE  \E f : Iterates(f, V, op, base, seq)
<1> DEFINE Upto(n) == \E f \in [SUBSET (1..n) -> V] :
                        \A s \in SUBSET (1..n) :
                          f[s] = IF s = {} THEN base ELSE op[<<f[s \ {Max(s)}], seq[Max(s)]>>]
           Reached == {n \in Nat : n > Len(seq) \/ Upto(n)}
<1>0. Len(seq) \in Nat /\ \A k \in 1..Len(seq) : seq[k] \in E
  OBVIOUS
<1>1. Upto(0)
  <2>1. SUBSET (1..0) = {{}}
    OBVIOUS
  <2>2. [s \in SUBSET (1..0) |-> base] \in [SUBSET (1..0) -> V]
    OBVIOUS
  <2> QED
    BY <2>1, <2>2
<1>2. ASSUME NEW n \in Nat, Upto(n), n + 1 <= Len(seq) PROVE Upto(n + 1)
  <2>1. PICK f \in [SUBSET (1..n) -> V] :
          \A s \in SUBSET (1..n) :
            f[s] = IF s = {} THEN base ELSE op[<<f[s \ {Max(s)}], seq[Max(s)]>>]
    BY <1>2
  <2> DEFINE g == [s \in SUBSET (1..(n + 1)) |->
                     IF s = {} THEN base ELSE op[<<f[s \ {Max(s)}], seq[Max(s)]>>]]
  <2>2. ASSUME NEW s \in SUBSET (1..(n + 1)), s # {}
        PROVE  /\ s \ {Max(s)} \in SUBSET (1..n)
               /\ Max(s) \in 1..(n + 1)
    <3>1. n + 1 \in Nat
      OBVIOUS
    <3>2. Max(s) \in s /\ \A x \in s : x <= Max(s)
      BY <2>2, <3>1, MaxIsGreatest
    <3> HIDE DEF g
    <3>3. ASSUME NEW x \in s, x # Max(s) PROVE x \in 1..n
      <4>1. x \in 1..(n + 1) /\ Max(s) \in 1..(n + 1)
        BY <3>2
      <4>2. x <= Max(s) /\ x # Max(s)
        BY <3>2, <3>3
      <4> QED
        BY <4>1, <4>2
    <3> QED
      BY <3>2, <3>3
  <2>3. ASSUME NEW s \in SUBSET (1..(n + 1)), s # {}
        PROVE  op[<<f[s \ {Max(s)}], seq[Max(s)]>>] \in V
    <3>1. s \ {Max(s)} \in SUBSET (1..n) /\ Max(s) \in 1..(n + 1)
      BY <2>2, <2>3
    <3>2. Max(s) \in 1..Len(seq)
      BY <1>0, <1>2, <3>1
    <3>3. f[s \ {Max(s)}] \in V /\ seq[Max(s)] \in E
      BY <1>0, <2>1, <3>1, <3>2
    <3> QED
      BY <3>3
  <2>4. g \in [SUBSET (1..(n + 1)) -> V]
    BY <2>3
  <2>5. ASSUME NEW s \in SUBSET (1..n) PROVE g[s] = f[s]
    <3>1. s \in SUBSET (1..(n + 1))
      OBVIOUS
    <3> QED
      BY <2>1, <3>1
  <2>6. ASSUME NEW s \in SUBSET (1..(n + 1))
        PROVE  g[s] = IF s = {} THEN base ELSE op[<<g[s \ {Max(s)}], seq[Max(s)]>>]
    BY <2>2, <2>5
  <2> HIDE DEF g
  <2> QED
    BY <2>4, <2>6
<1>3. ASSUME NEW n \in Nat, n \in Reached PROVE n + 1 \in Reached
  <2> HIDE DEF Upto
  <2>1. CASE n + 1 > Len(seq)
    BY <2>1
  <2>2. CASE n + 1 <= Len(seq)
    <3>1. ~(n > Len(seq))
      BY <1>0, <2>2
    <3>2. Upto(n)
      BY <1>3, <3>1
    <3> QED
      BY <1>2, <2>2, <3>2
  <2> QED
    BY <1>0, <2>1, <2>2
<1>4. Len(seq) \in Reached
  <2>1. 0 \in Reached
    BY <1>1
  <2> HIDE DEF Reached
  <2> QED
    BY <1>0, <1>3, <2>1, NaturalSteps
<1>5. Upto(Len(seq))
  <2> HIDE DEF Upto
  <2> QED
    BY <1>0, <1>4
<1> QED
  BY <1>5 DEF Iterates

(***************************************************************************)
(* Weight and NonSystem, the folds of SlidingWindow, by their last element *)
(***************************************************************************)

Weighed == [tokens : Nat]

\* Weight is the last of the partial sums.
LEMMA WeightSteps ==
  ASSUME NEW E, \A e \in E : e.tokens \in Nat, NEW ms \in Seq(E)
  PROVE  \E h \in [0..Len(ms) -> Nat] :
           /\ h[0] = 0
           /\ \A k \in 1..Len(ms) : h[k] = h[k - 1] + ms[k].tokens
           /\ Weight(ms) = h[Len(ms)]
<1> DEFINE Equation(f) ==
             f = [s \in SUBSET DOMAIN ms |->
                    IF s = {} THEN 0 ELSE f[s \ {Max(s)}] + ms[Max(s)].tokens]
           op == [p \in Nat \X E |-> p[1] + p[2].tokens]
           iter == CHOOSE f : Equation(f)
<1>0. Len(ms) \in Nat /\ DOMAIN ms = 1..Len(ms) /\ \A k \in 1..Len(ms) : ms[k] \in E
  OBVIOUS
<1>1. \E f : Equation(f)
  <2>1. op \in [Nat \X E -> Nat]
    OBVIOUS
  <2>2. \A v \in Nat, e \in E : op[<<v, e>>] = v + e.tokens
    OBVIOUS
  <2> HIDE DEF op, Equation, iter
  <2>3. PICK f : Iterates(f, Nat, op, 0, ms)
    BY <2>1, IterationExists
  <2>4. ASSUME NEW s \in SUBSET (1..Len(ms)), s # {}
        PROVE  op[<<f[s \ {Max(s)}], ms[Max(s)]>>] = f[s \ {Max(s)}] + ms[Max(s)].tokens
    <3>1. Max(s) \in 1..Len(ms)
      BY <1>0, <2>4, MaxIsGreatest
    <3>2. ms[Max(s)] \in E /\ f[s \ {Max(s)}] \in Nat
      BY <1>0, <2>3, <3>1 DEF Iterates
    <3> QED
      BY <2>2, <3>2
  <2>5. Equation(f)
    BY <1>0, <2>3, <2>4 DEF Equation, Iterates
  <2> QED
    BY <2>5
<1>2. Equation(iter)
  <2> HIDE DEF Equation
  <2> QED
    BY <1>1
<1>3. Weight(ms) = iter[DOMAIN ms]
  BY DEF Weight, FoldLeft, MapThenFoldSet
<1> HIDE DEF iter
<1>4. iter[1..0] = 0
  <2>1. 1..0 = {} /\ {} \in SUBSET DOMAIN ms
    OBVIOUS
  <2> QED
    BY <1>2, <2>1
<1>5. ASSUME NEW k \in 1..Len(ms) PROVE iter[1..k] = iter[1..(k - 1)] + ms[k].tokens
  <2>0. k \in Nat /\ k # 0 /\ k \in 1..k /\ 1..k \subseteq 1..Len(ms)
    BY <1>0
  <2>1. k \in Nat /\ k # 0 /\ 1..k \in SUBSET DOMAIN ms /\ 1..k # {}
    BY <1>0, <2>0
  <2>2. Max(1..k) = k /\ (1..k) \ {k} = 1..(k - 1)
    BY <2>1, MaxOfRange
  <2>3. iter[1..k] = iter[(1..k) \ {Max(1..k)}] + ms[Max(1..k)].tokens
    BY <1>2, <2>1
  <2> QED
    BY <2>2, <2>3
<1> HIDE DEF Equation
<1> DEFINE Reached == {n \in Nat : n > Len(ms) \/ iter[1..n] \in Nat}
<1>6. 0 \in Reached
  BY <1>4
<1>7. ASSUME NEW n \in Nat, n \in Reached PROVE n + 1 \in Reached
  <2>1. CASE n + 1 > Len(ms)
    BY <2>1
  <2>2. CASE n + 1 <= Len(ms)
    <3>1. iter[1..n] \in Nat /\ n + 1 \in 1..Len(ms) /\ (n + 1) - 1 = n
      BY <1>0, <1>7, <2>2
    <3>2. iter[1..(n + 1)] = iter[1..n] + ms[n + 1].tokens
      BY <1>5, <3>1
    <3>3. ms[n + 1].tokens \in Nat
      BY <1>0, <3>1
    <3> QED
      BY <3>1, <3>2, <3>3
  <2> QED
    BY <1>0, <2>1, <2>2
<1>8. \A n \in 0..Len(ms) : iter[1..n] \in Nat
  <2>1. \A n \in Nat : n \in Reached
    <3> HIDE DEF Reached
    <3> QED
      BY <1>6, <1>7, NaturalSteps
  <2> QED
    BY <1>0, <2>1
<1> DEFINE h == [n \in 0..Len(ms) |-> iter[1..n]]
<1>9. h \in [0..Len(ms) -> Nat] /\ h[0] = 0
  BY <1>0, <1>4, <1>8
<1>10. \A k \in 1..Len(ms) : h[k] = h[k - 1] + ms[k].tokens
  BY <1>0, <1>5
<1>11. Weight(ms) = h[Len(ms)]
  BY <1>0, <1>3
<1> HIDE DEF h
<1> QED
  BY <1>9, <1>10, <1>11

\* NonSystem is the last of its partial results.
LEMMA NonSystemSteps ==
  ASSUME NEW E, NEW ms \in Seq(E)
  PROVE  \E h \in [0..Len(ms) -> Seq(E)] :
           /\ h[0] = <<>>
           /\ \A k \in 1..Len(ms) :
                h[k] = IF Evictable(ms[k]) THEN Append(h[k - 1], ms[k]) ELSE h[k - 1]
           /\ NonSystem(ms) = h[Len(ms)]
<1> DEFINE Equation(f) ==
             f = [s \in SUBSET DOMAIN ms |->
                    IF s = {} THEN <<>>
                    ELSE IF Evictable(ms[Max(s)])
                         THEN Append(f[s \ {Max(s)}], ms[Max(s)]) ELSE f[s \ {Max(s)}]]
           op == [p \in Seq(E) \X E |-> IF Evictable(p[2]) THEN Append(p[1], p[2]) ELSE p[1]]
           iter == CHOOSE f : Equation(f)
<1>0. Len(ms) \in Nat /\ DOMAIN ms = 1..Len(ms) /\ \A k \in 1..Len(ms) : ms[k] \in E
  OBVIOUS
<1>1. \E f : Equation(f)
  <2>1. op \in [Seq(E) \X E -> Seq(E)]
    OBVIOUS
  <2>2. \A v \in Seq(E), e \in E : op[<<v, e>>] = IF Evictable(e) THEN Append(v, e) ELSE v
    OBVIOUS
  <2> HIDE DEF op, Equation, iter
  <2>3. PICK f : Iterates(f, Seq(E), op, <<>>, ms)
    <3>1. <<>> \in Seq(E)
      OBVIOUS
    <3> QED
      BY <2>1, <3>1, IterationExists
  <2>4. ASSUME NEW s \in SUBSET (1..Len(ms)), s # {}
        PROVE  op[<<f[s \ {Max(s)}], ms[Max(s)]>>] =
                 IF Evictable(ms[Max(s)])
                 THEN Append(f[s \ {Max(s)}], ms[Max(s)]) ELSE f[s \ {Max(s)}]
    <3>1. Max(s) \in 1..Len(ms)
      BY <1>0, <2>4, MaxIsGreatest
    <3>2. ms[Max(s)] \in E /\ f[s \ {Max(s)}] \in Seq(E)
      BY <1>0, <2>3, <3>1 DEF Iterates
    <3> QED
      BY <2>2, <3>2
  <2>5. Equation(f)
    BY <1>0, <2>3, <2>4 DEF Equation, Iterates
  <2> QED
    BY <2>5
<1>2. Equation(iter)
  <2> HIDE DEF Equation
  <2> QED
    BY <1>1
<1>3. NonSystem(ms) = iter[DOMAIN ms]
  BY DEF NonSystem, FoldLeft, MapThenFoldSet
<1> HIDE DEF iter
<1>4. iter[1..0] = <<>>
  <2>1. 1..0 = {} /\ {} \in SUBSET DOMAIN ms
    OBVIOUS
  <2> QED
    BY <1>2, <2>1
<1>5. ASSUME NEW k \in 1..Len(ms)
      PROVE  iter[1..k] = IF Evictable(ms[k])
                          THEN Append(iter[1..(k - 1)], ms[k]) ELSE iter[1..(k - 1)]
  <2>0. k \in Nat /\ k # 0 /\ k \in 1..k /\ 1..k \subseteq 1..Len(ms)
    BY <1>0
  <2>1. k \in Nat /\ k # 0 /\ 1..k \in SUBSET DOMAIN ms /\ 1..k # {}
    BY <1>0, <2>0
  <2>2. Max(1..k) = k /\ (1..k) \ {k} = 1..(k - 1)
    BY <2>1, MaxOfRange
  <2> DEFINE top == Max(1..k)
             before == iter[(1..k) \ {top}]
  <2>3. iter[1..k] = IF Evictable(ms[top]) THEN Append(before, ms[top]) ELSE before
    BY <1>2, <2>1
  <2>4. top = k /\ before = iter[1..(k - 1)]
    BY <2>2
  <2> HIDE DEF top, before
  <2> QED
    BY <2>3, <2>4
<1> HIDE DEF Equation
<1> DEFINE Reached == {n \in Nat : n > Len(ms) \/ iter[1..n] \in Seq(E)}
<1>6. 0 \in Reached
  <2>1. <<>> \in Seq(E)
    OBVIOUS
  <2> QED
    BY <1>4, <2>1
<1>7. ASSUME NEW n \in Nat, n \in Reached PROVE n + 1 \in Reached
  <2>1. CASE n + 1 > Len(ms)
    BY <2>1
  <2>2. CASE n + 1 <= Len(ms)
    <3>1. iter[1..n] \in Seq(E) /\ n + 1 \in 1..Len(ms) /\ (n + 1) - 1 = n
      BY <1>0, <1>7, <2>2
    <3>2. iter[1..(n + 1)] = IF Evictable(ms[n + 1])
                             THEN Append(iter[1..n], ms[n + 1]) ELSE iter[1..n]
      BY <1>5, <3>1
    <3>3. ms[n + 1] \in E
      BY <1>0, <3>1
    <3>4. iter[1..(n + 1)] \in Seq(E)
      BY <3>1, <3>2, <3>3
    <3> QED
      BY <3>4
  <2> QED
    BY <1>0, <2>1, <2>2
<1>8. \A n \in 0..Len(ms) : iter[1..n] \in Seq(E)
  <2>1. \A n \in Nat : n \in Reached
    <3> HIDE DEF Reached
    <3> QED
      BY <1>6, <1>7, NaturalSteps
  <2> QED
    BY <1>0, <2>1
<1> DEFINE h == [n \in 0..Len(ms) |-> iter[1..n]]
<1>9. h \in [0..Len(ms) -> Seq(E)] /\ h[0] = <<>>
  BY <1>0, <1>4, <1>8
<1>10. \A k \in 1..Len(ms) :
         h[k] = IF Evictable(ms[k]) THEN Append(h[k - 1], ms[k]) ELSE h[k - 1]
  BY <1>0, <1>5
<1>11. NonSystem(ms) = h[Len(ms)]
  BY <1>0, <1>3
<1> HIDE DEF h
<1> QED
  BY <1>9, <1>10, <1>11

(***************************************************************************)
(* Sequences grow by one element at a time, and what Weight and NonSystem  *)
(* make of that.                                                           *)
(***************************************************************************)

\* A set with the empty sequence that is closed under Append has all sequences.
LEMMA SequenceSteps ==
  ASSUME NEW E, NEW S, <<>> \in S,
         \A s \in Seq(E), e \in E : s \in S => Append(s, e) \in S
  PROVE  \A s \in Seq(E) : s \in S
<1> DEFINE Reached == {n \in Nat : \A s \in Seq(E) : Len(s) = n => s \in S}
<1>1. 0 \in Reached
  OBVIOUS
<1>2. ASSUME NEW n \in Nat, n \in Reached PROVE n + 1 \in Reached
  <2> SUFFICES ASSUME NEW s \in Seq(E), Len(s) = n + 1 PROVE s \in S
    OBVIOUS
  <2> DEFINE front == SubSeq(s, 1, n)
  <2>1. front \in Seq(E) /\ Len(front) = n /\ s[n + 1] \in E
    OBVIOUS
  <2>2. s = Append(front, s[n + 1])
    OBVIOUS
  <2>3. front \in S
    BY <1>2, <2>1
  <2> HIDE DEF front
  <2> QED
    BY <2>1, <2>2, <2>3
<1>3. \A n \in Nat : n \in Reached
  <2> HIDE DEF Reached
  <2> QED
    BY <1>1, <1>2, NaturalSteps
<1>4. ASSUME NEW s \in Seq(E) PROVE s \in S
  <2>1. Len(s) \in Nat
    OBVIOUS
  <2> QED
    BY <1>3, <2>1
<1> QED
  BY <1>4

LEMMA WeightEmpty == Weight(<<>>) = 0
<1>1. <<>> \in Seq(Weighed) /\ Len(<<>>) = 0 /\ \A e \in Weighed : e.tokens \in Nat
  BY DEF Weighed
<1> QED
  BY <1>1, WeightSteps

LEMMA WeightAppend ==
  ASSUME NEW E, \A e \in E : e.tokens \in Nat, NEW ms \in Seq(E), NEW m \in E
  PROVE  /\ Weight(ms) \in Nat
         /\ Weight(Append(ms, m)) = Weight(ms) + m.tokens
<1> DEFINE more == Append(ms, m)
<1>0. /\ Len(ms) \in Nat /\ more \in Seq(E) /\ Len(more) = Len(ms) + 1
      /\ more[Len(ms) + 1] = m /\ \A k \in 1..Len(ms) : more[k] = ms[k]
  OBVIOUS
<1> HIDE DEF more
<1>1. PICK h \in [0..Len(ms) -> Nat] :
        /\ h[0] = 0
        /\ \A k \in 1..Len(ms) : h[k] = h[k - 1] + ms[k].tokens
        /\ Weight(ms) = h[Len(ms)]
  BY WeightSteps
<1>2. PICK g \in [0..Len(more) -> Nat] :
        /\ g[0] = 0
        /\ \A k \in 1..Len(more) : g[k] = g[k - 1] + more[k].tokens
        /\ Weight(more) = g[Len(more)]
  BY <1>0, WeightSteps
<1> DEFINE Reached == {n \in Nat : n > Len(ms) \/ g[n] = h[n]}
<1>3. 0 \in Reached
  BY <1>1, <1>2
<1>4. ASSUME NEW n \in Nat, n \in Reached PROVE n + 1 \in Reached
  <2>1. CASE n + 1 > Len(ms)
    BY <2>1
  <2>2. CASE n + 1 <= Len(ms)
    <3>1. n + 1 \in 1..Len(ms) /\ n + 1 \in 1..Len(more) /\ (n + 1) - 1 = n /\ g[n] = h[n]
      BY <1>0, <1>4, <2>2
    <3>2. g[n + 1] = h[n + 1]
      BY <1>0, <1>1, <1>2, <3>1
    <3> QED
      BY <3>2
  <2> QED
    BY <1>0, <2>1, <2>2
<1>5. g[Len(ms)] = h[Len(ms)]
  <2>1. Len(ms) \in Reached
    <3> HIDE DEF Reached
    <3> QED
      BY <1>0, <1>3, <1>4, NaturalSteps
  <2> QED
    BY <1>0, <2>1
<1>6. g[Len(ms) + 1] = g[Len(ms)] + m.tokens
  <2>1. Len(ms) + 1 \in 1..Len(more) /\ (Len(ms) + 1) - 1 = Len(ms)
    BY <1>0
  <2> QED
    BY <1>0, <1>2, <2>1
<1>7. Weight(ms) \in Nat
  BY <1>0, <1>1
<1>8. Weight(more) = Weight(ms) + m.tokens
  BY <1>0, <1>1, <1>2, <1>5, <1>6
<1> QED
  BY <1>7, <1>8 DEF more

LEMMA NonSystemEmpty == NonSystem(<<>>) = <<>>
<1>1. <<>> \in Seq({}) /\ Len(<<>>) = 0
  OBVIOUS
<1> QED
  BY <1>1, NonSystemSteps

LEMMA NonSystemAppend ==
  ASSUME NEW E, NEW ms \in Seq(E), NEW m \in E
  PROVE  /\ NonSystem(ms) \in Seq(E)
         /\ NonSystem(Append(ms, m)) =
              IF Evictable(m) THEN Append(NonSystem(ms), m) ELSE NonSystem(ms)
<1> DEFINE more == Append(ms, m)
<1>0. /\ Len(ms) \in Nat /\ more \in Seq(E) /\ Len(more) = Len(ms) + 1
      /\ more[Len(ms) + 1] = m /\ \A k \in 1..Len(ms) : more[k] = ms[k]
  OBVIOUS
<1> HIDE DEF more
<1>1. PICK h \in [0..Len(ms) -> Seq(E)] :
        /\ h[0] = <<>>
        /\ \A k \in 1..Len(ms) :
             h[k] = IF Evictable(ms[k]) THEN Append(h[k - 1], ms[k]) ELSE h[k - 1]
        /\ NonSystem(ms) = h[Len(ms)]
  BY NonSystemSteps
<1>2. PICK g \in [0..Len(more) -> Seq(E)] :
        /\ g[0] = <<>>
        /\ \A k \in 1..Len(more) :
             g[k] = IF Evictable(more[k]) THEN Append(g[k - 1], more[k]) ELSE g[k - 1]
        /\ NonSystem(more) = g[Len(more)]
  BY <1>0, NonSystemSteps
<1> DEFINE Reached == {n \in Nat : n > Len(ms) \/ g[n] = h[n]}
<1>3. 0 \in Reached
  BY <1>1, <1>2
<1>4. ASSUME NEW n \in Nat, n \in Reached PROVE n + 1 \in Reached
  <2>1. CASE n + 1 > Len(ms)
    BY <2>1
  <2>2. CASE n + 1 <= Len(ms)
    <3>1. n + 1 \in 1..Len(ms) /\ n + 1 \in 1..Len(more) /\ (n + 1) - 1 = n /\ g[n] = h[n]
      BY <1>0, <1>4, <2>2
    <3>2. g[n + 1] = h[n + 1]
      BY <1>0, <1>1, <1>2, <3>1
    <3> QED
      BY <3>2
  <2> QED
    BY <1>0, <2>1, <2>2
<1>5. g[Len(ms)] = h[Len(ms)]
  <2>1. Len(ms) \in Reached
    <3> HIDE DEF Reached
    <3> QED
      BY <1>0, <1>3, <1>4, NaturalSteps
  <2> QED
    BY <1>0, <2>1
<1>6. g[Len(ms) + 1] = IF Evictable(m) THEN Append(g[Len(ms)], m) ELSE g[Len(ms)]
  <2>1. Len(ms) + 1 \in 1..Len(more) /\ (Len(ms) + 1) - 1 = Len(ms)
    BY <1>0
  <2> QED
    BY <1>0, <1>2, <2>1
<1>7. NonSystem(ms) \in Seq(E)
  BY <1>0, <1>1
<1>8. NonSystem(more) = IF Evictable(m) THEN Append(NonSystem(ms), m) ELSE NonSystem(ms)
  BY <1>0, <1>1, <1>2, <1>5, <1>6
<1> QED
  BY <1>7, <1>8 DEF more

\* The weight is a number, and what is not of the system weighs and counts no
\* more than all.
LEMMA WeightType ==
  ASSUME NEW E, \A e \in E : e.tokens \in Nat
  PROVE  \A ms \in Seq(E) :
           /\ Weight(ms) \in Nat
           /\ NonSystem(ms) \in Seq(E)
           /\ Weight(NonSystem(ms)) \in Nat
           /\ Weight(NonSystem(ms)) <= Weight(ms)
           /\ Len(NonSystem(ms)) <= Len(ms)
<1> DEFINE S == {ms \in Seq(E) : /\ Weight(ms) \in Nat
                                 /\ NonSystem(ms) \in Seq(E)
                                 /\ Weight(NonSystem(ms)) \in Nat
                                 /\ Weight(NonSystem(ms)) <= Weight(ms)
                                 /\ Len(NonSystem(ms)) <= Len(ms)}
<1>1. <<>> \in S
  <2>1. <<>> \in Seq(E) /\ Len(<<>>) = 0
    OBVIOUS
  <2>2. NonSystem(<<>>) \in Seq(E) /\ Weight(NonSystem(<<>>)) = 0 /\ Len(NonSystem(<<>>)) = 0
    BY <2>1, WeightEmpty, NonSystemEmpty
  <2> QED
    BY <2>1, <2>2, WeightEmpty
<1>2. ASSUME NEW ms \in Seq(E), NEW m \in E, ms \in S PROVE Append(ms, m) \in S
  <2>1. Append(ms, m) \in Seq(E) /\ Len(Append(ms, m)) = Len(ms) + 1 /\ m.tokens \in Nat
    OBVIOUS
  <2>2. Weight(Append(ms, m)) = Weight(ms) + m.tokens
    BY WeightAppend
  <2>3. NonSystem(Append(ms, m)) = IF Evictable(m) THEN Append(NonSystem(ms), m) ELSE NonSystem(ms)
    BY NonSystemAppend
  <2> DEFINE kept == NonSystem(ms)
  <2>4. /\ kept \in Seq(E) /\ Weight(kept) \in Nat /\ Weight(ms) \in Nat
        /\ Weight(kept) <= Weight(ms) /\ Len(kept) <= Len(ms)
    BY <1>2
  <2> HIDE DEF kept
  <2>5. Weight(Append(kept, m)) = Weight(kept) + m.tokens
    BY <2>4, WeightAppend
  <2>6. Append(kept, m) \in Seq(E) /\ Len(Append(kept, m)) = Len(kept) + 1
    BY <2>4
  <2>7. Len(ms) \in Nat /\ Len(kept) \in Nat
    BY <2>4
  <2>8. NonSystem(Append(ms, m)) \in {kept, Append(kept, m)}
    BY <2>3 DEF kept
  <2>9. CASE NonSystem(Append(ms, m)) = kept
    BY <2>1, <2>2, <2>4, <2>7, <2>9
  <2>10. CASE NonSystem(Append(ms, m)) = Append(kept, m)
    <3>1. /\ NonSystem(Append(ms, m)) \in Seq(E)
          /\ Weight(NonSystem(Append(ms, m))) = Weight(kept) + m.tokens
          /\ Len(NonSystem(Append(ms, m))) = Len(kept) + 1
      BY <2>5, <2>6, <2>10
    <3> QED
      BY <2>1, <2>2, <2>4, <2>7, <3>1
  <2> QED
    BY <2>8, <2>9, <2>10
<1>3. \A ms \in Seq(E) : ms \in S
  <2> HIDE DEF S
  <2> QED
    BY <1>1, <1>2, SequenceSteps
<1> QED
  BY <1>3

LEMMA AppendToConcatenation ==
  ASSUME NEW E, NEW s \in Seq(E), NEW t \in Seq(E), NEW e \in E
  PROVE  s \o Append(t, e) = Append(s \o t, e) /\ s \o t \in Seq(E) /\ s \o <<>> = s
OBVIOUS

\* Both folds take a concatenation part by part.
LEMMA FoldsOfConcatenation ==
  ASSUME NEW E, \A e \in E : e.tokens \in Nat, NEW s \in Seq(E)
  PROVE  \A t \in Seq(E) :
           /\ Weight(s \o t) = Weight(s) + Weight(t)
           /\ NonSystem(s \o t) = NonSystem(s) \o NonSystem(t)
<1> DEFINE S == {t \in Seq(E) : /\ Weight(s \o t) = Weight(s) + Weight(t)
                                /\ NonSystem(s \o t) = NonSystem(s) \o NonSystem(t)}
<1>0. Weight(s) \in Nat /\ NonSystem(s) \in Seq(E)
  BY WeightType
<1>1. <<>> \in S
  <2>1. <<>> \in Seq(E) /\ s \o <<>> = s /\ NonSystem(s) \o <<>> = NonSystem(s)
    BY <1>0
  <2> QED
    BY <1>0, <2>1, WeightEmpty, NonSystemEmpty
<1>2. ASSUME NEW t \in Seq(E), NEW m \in E, t \in S PROVE Append(t, m) \in S
  <2>1. s \o t \in Seq(E) /\ Append(t, m) \in Seq(E) /\ m.tokens \in Nat
    OBVIOUS
  <2>2. s \o Append(t, m) = Append(s \o t, m)
    BY AppendToConcatenation
  <2>3. /\ Weight(Append(s \o t, m)) = Weight(s \o t) + m.tokens
        /\ Weight(Append(t, m)) = Weight(t) + m.tokens
        /\ Weight(t) \in Nat
    BY <2>1, WeightAppend
  <2>4. /\ NonSystem(t) \in Seq(E)
        /\ NonSystem(Append(t, m)) =
             IF Evictable(m) THEN Append(NonSystem(t), m) ELSE NonSystem(t)
    BY NonSystemAppend
  <2>5. NonSystem(Append(s \o t, m)) =
          IF Evictable(m) THEN Append(NonSystem(s \o t), m) ELSE NonSystem(s \o t)
    BY <2>1, NonSystemAppend
  <2>6. NonSystem(s) \o Append(NonSystem(t), m) = Append(NonSystem(s) \o NonSystem(t), m)
    BY <1>0, <2>4, AppendToConcatenation
  <2>7. Weight(s \o Append(t, m)) = Weight(s) + Weight(Append(t, m))
    BY <1>0, <1>2, <2>1, <2>2, <2>3
  <2>8. NonSystem(s \o Append(t, m)) = NonSystem(s) \o NonSystem(Append(t, m))
    BY <1>2, <2>2, <2>4, <2>5, <2>6
  <2> QED
    BY <2>1, <2>7, <2>8
<1>3. \A t \in Seq(E) : t \in S
  <2> HIDE DEF S
  <2> QED
    BY <1>1, <1>2, SequenceSteps
<1> QED
  BY <1>3

(***************************************************************************)
(* Suffixes, element by element.                                           *)
(***************************************************************************)

IsEndOf(s, t) ==
  Len(s) <= Len(t) /\ \A i \in 1..Len(s) : s[i] = t[Len(t) - Len(s) + i]

\* The community modules' IsSuffix, which compares reversed sequences, is IsEndOf.
LEMMA SuffixIsEnd ==
  ASSUME NEW E, NEW s \in Seq(E), NEW t \in Seq(E)
  PROVE  IsSuffix(s, t) <=> IsEndOf(s, t)
<1> DEFINE rs == Reverse(s)
           rt == Reverse(t)
<1>0. Len(s) \in Nat /\ Len(t) \in Nat
  OBVIOUS
<1>1. /\ rs \in Seq(E) /\ Len(rs) = Len(s)
      /\ \A i \in 1..Len(s) : rs[i] = s[Len(s) - i + 1]
  BY <1>0 DEF Reverse
<1>2. /\ rt \in Seq(E) /\ Len(rt) = Len(t)
      /\ \A i \in 1..Len(t) : rt[i] = t[Len(t) - i + 1]
  BY <1>0 DEF Reverse
<1>3. IsSuffix(s, t) <=>
        Len(rs) <= Len(rt) /\ SubSeq(rs, 1, Len(rs)) = SubSeq(rt, 1, Len(rs))
  BY DEF IsSuffix, IsPrefix
<1> HIDE DEF rs, rt
<1>4. ASSUME Len(s) <= Len(t)
      PROVE  SubSeq(rs, 1, Len(rs)) = SubSeq(rt, 1, Len(rs)) <=>
               \A i \in 1..Len(s) : rs[i] = rt[i]
  BY <1>0, <1>1, <1>2, <1>4
<1>5. ASSUME Len(s) <= Len(t), \A i \in 1..Len(s) : rs[i] = rt[i], NEW i \in 1..Len(s)
      PROVE  s[i] = t[Len(t) - Len(s) + i]
  <2>1. Len(s) - i + 1 \in 1..Len(s) /\ Len(s) - i + 1 \in 1..Len(t)
    BY <1>0, <1>5
  <2>2. rs[Len(s) - i + 1] = s[Len(s) - (Len(s) - i + 1) + 1]
    BY <1>1, <2>1
  <2>3. rt[Len(s) - i + 1] = t[Len(t) - (Len(s) - i + 1) + 1]
    BY <1>2, <2>1
  <2>4. /\ Len(s) - (Len(s) - i + 1) + 1 = i
        /\ Len(t) - (Len(s) - i + 1) + 1 = Len(t) - Len(s) + i
    BY <1>0
  <2> QED
    BY <1>5, <2>1, <2>2, <2>3, <2>4
<1>6. ASSUME Len(s) <= Len(t), \A i \in 1..Len(s) : s[i] = t[Len(t) - Len(s) + i],
             NEW i \in 1..Len(s)
      PROVE  rs[i] = rt[i]
  <2>1. Len(s) - i + 1 \in 1..Len(s) /\ i \in 1..Len(t)
    BY <1>0, <1>6
  <2>2. Len(t) - Len(s) + (Len(s) - i + 1) = Len(t) - i + 1
    BY <1>0
  <2>3. s[Len(s) - i + 1] = t[Len(t) - i + 1]
    BY <1>6, <2>1, <2>2
  <2> QED
    BY <1>1, <1>2, <2>1, <2>3
<1> QED
  BY <1>1, <1>2, <1>3, <1>4, <1>5, <1>6 DEF IsEndOf

\* What is added to both keeps one the end of the other.
LEMMA EndAppend ==
  ASSUME NEW E, NEW s \in Seq(E), NEW t \in Seq(E), NEW e \in E, IsEndOf(s, t)
  PROVE  IsEndOf(Append(s, e), Append(t, e))
<1>0. Len(s) \in Nat /\ Len(t) \in Nat /\ Len(s) <= Len(t)
  BY DEF IsEndOf
<1>1. Len(Append(s, e)) = Len(s) + 1 /\ Len(Append(t, e)) = Len(t) + 1
  OBVIOUS
<1>2. ASSUME NEW i \in 1..(Len(s) + 1)
      PROVE  Append(s, e)[i] = Append(t, e)[Len(t) - Len(s) + i]
  <2>1. CASE i = Len(s) + 1
    <3>1. Len(t) - Len(s) + i = Len(t) + 1
      BY <1>0, <2>1
    <3> QED
      BY <1>0, <2>1, <3>1
  <2>2. CASE i # Len(s) + 1
    <3>1. i \in 1..Len(s) /\ Len(t) - Len(s) + i \in 1..Len(t)
      BY <1>0, <2>2
    <3>2. Append(s, e)[i] = s[i] /\ Append(t, e)[Len(t) - Len(s) + i] = t[Len(t) - Len(s) + i]
      BY <1>0, <3>1
    <3> QED
      BY <3>1, <3>2 DEF IsEndOf
  <2> QED
    BY <2>1, <2>2
<1> DEFINE s2 == Append(s, e)
           t2 == Append(t, e)
<1>3. /\ Len(s2) = Len(s) + 1 /\ Len(t2) = Len(t) + 1
      /\ \A i \in 1..(Len(s) + 1) : s2[i] = t2[Len(t) - Len(s) + i]
  BY <1>1, <1>2
<1> HIDE DEF s2, t2
<1>4. Len(t2) - Len(s2) = Len(t) - Len(s) /\ Len(s2) <= Len(t2)
  BY <1>0, <1>3
<1>5. IsEndOf(s2, t2)
  BY <1>3, <1>4 DEF IsEndOf
<1> QED
  BY <1>5 DEF s2, t2

LEMMA EndOfEnd ==
  ASSUME NEW E, NEW s \in Seq(E), NEW t \in Seq(E), IsEndOf(s, t), NEW k \in 0..Len(s)
  PROVE  /\ SubSeq(s, k + 1, Len(s)) \in Seq(E)
         /\ Len(SubSeq(s, k + 1, Len(s))) = Len(s) - k
         /\ IsEndOf(SubSeq(s, k + 1, Len(s)), t)
<1> DEFINE rest == SubSeq(s, k + 1, Len(s))
<1>0. Len(s) \in Nat /\ Len(t) \in Nat /\ Len(s) <= Len(t)
  BY DEF IsEndOf
<1>1. rest \in Seq(E) /\ Len(rest) = Len(s) - k /\ \A i \in 1..(Len(s) - k) : rest[i] = s[k + i]
  BY <1>0
<1> HIDE DEF rest
<1>2. ASSUME NEW i \in 1..Len(rest) PROVE rest[i] = t[Len(t) - Len(rest) + i]
  <2>1. k + i \in 1..Len(s) /\ i \in 1..(Len(s) - k)
    BY <1>0, <1>1
  <2>2. Len(t) - Len(rest) + i = Len(t) - Len(s) + (k + i)
    BY <1>0, <1>1
  <2>3. s[k + i] = t[Len(t) - Len(s) + (k + i)]
    BY <2>1 DEF IsEndOf
  <2> QED
    BY <1>1, <2>1, <2>2, <2>3
<1>3. IsEndOf(rest, t)
  BY <1>0, <1>1, <1>2 DEF IsEndOf
<1> QED
  BY <1>1, <1>3 DEF rest

LEMMA EndsOfItself ==
  ASSUME NEW E, NEW t \in Seq(E)
  PROVE  IsEndOf(t, t) /\ IsEndOf(<<>>, t)
BY DEF IsEndOf

(***************************************************************************)
(* Slide.                                                                  *)
(***************************************************************************)

\* The loop of Slide stops, where it does the first time.
LEMMA SlideStopsAtLast ==
  ASSUME NEW E, NEW ms \in Seq(E)
  PROVE  \E n \in 0..Len(ms) : SlideStops(ms, n) /\ \A l \in 0..(n - 1) : ~SlideStops(ms, l)
<1> DEFINE S == {n \in 0..Len(ms) : SlideStops(ms, n)}
<1>0. Len(ms) \in Nat
  OBVIOUS
<1>1. Len(ms) \in S
  BY <1>0 DEF SlideStops
<1>2. PICK n \in S : \A m \in S : n <= m
  <2>1. S \in SUBSET Nat /\ S # {}
    BY <1>1
  <2> HIDE DEF S
  <2> QED
    BY <2>1, LeastNatural
<1>3. ASSUME NEW l \in 0..(n - 1) PROVE ~SlideStops(ms, l)
  <2>1. l \in 0..Len(ms) /\ ~(n <= l)
    BY <1>0
  <2> QED
    BY <1>2, <2>1
<1> QED
  BY <1>3

\* What Slide makes of a window: it removes messages from the front.
LEMMA SlideIs ==
  ASSUME NEW E, \A e \in E : e.tokens \in Nat, NEW w, w.messages \in Seq(E)
  PROVE  \E k \in 0..Len(w.messages) :
           /\ Slide(w).window =
                [w EXCEPT !.messages = SubSeq(w.messages, k + 1, Len(w.messages)),
                          !.used = Weight(w.messages) - Weight(NonSystem(SubSeq(w.messages, 1, k)))]
           /\ Slide(w).evicted = NonSystem(SubSeq(w.messages, 1, k))
           /\ SlideStops(w.messages, k)
           /\ \A l \in 0..(k - 1) : ~SlideStops(w.messages, l)
<1> DEFINE ms == w.messages
           k == CHOOSE n \in 0..Len(ms) :
                  SlideStops(ms, n) /\ \A l \in 0..(n - 1) : ~SlideStops(ms, l)
<1>1. k \in 0..Len(ms) /\ SlideStops(ms, k) /\ \A l \in 0..(k - 1) : ~SlideStops(ms, l)
  BY SlideStopsAtLast
<1>2. /\ Slide(w).window =
           [w EXCEPT !.messages = SubSeq(ms, k + 1, Len(ms)),
                     !.used = Weight(ms) - Weight(NonSystem(SubSeq(ms, 1, k)))]
      /\ Slide(w).evicted = NonSystem(SubSeq(ms, 1, k))
  BY DEF Slide
<1> HIDE DEF k
<1> QED
  BY <1>1, <1>2

\* A part of the messages weighs no more than all of them.
LEMMA PartsWeigh ==
  ASSUME NEW E, \A e \in E : e.tokens \in Nat, NEW ms \in Seq(E), NEW k \in 0..Len(ms)
  PROVE  LET front == SubSeq(ms, 1, k)
             rest  == SubSeq(ms, k + 1, Len(ms))
         IN /\ front \in Seq(E) /\ rest \in Seq(E) /\ ms = front \o rest
            /\ Len(front) = k /\ Len(rest) = Len(ms) - k
            /\ Weight(ms) = Weight(front) + Weight(rest)
            /\ NonSystem(ms) = NonSystem(front) \o NonSystem(rest)
            /\ Len(NonSystem(ms)) = Len(NonSystem(front)) + Len(NonSystem(rest))
            /\ Weight(ms) - Weight(NonSystem(front)) \in Nat
            /\ Weight(rest) <= Weight(ms) - Weight(NonSystem(front))
<1> DEFINE front == SubSeq(ms, 1, k)
           rest == SubSeq(ms, k + 1, Len(ms))
<1>1. /\ front \in Seq(E) /\ rest \in Seq(E)
      /\ Len(front) = k /\ Len(rest) = Len(ms) - k
  OBVIOUS
<1>2. ms = front \o rest
  <2>1. 1 \in 1..(Len(ms) + 1) /\ k \in (1 - 1)..Len(ms) /\ Len(ms) \in k..Len(ms)
    OBVIOUS
  <2>2. front \o rest = SubSeq(ms, 1, Len(ms))
    BY <2>1, ConcatAdjacentSubSeq
  <2> QED
    BY <2>2, SubSeqFull
<1> HIDE DEF front, rest
<1>3. /\ Weight(ms) = Weight(front) + Weight(rest)
      /\ NonSystem(ms) = NonSystem(front) \o NonSystem(rest)
  BY <1>1, <1>2, FoldsOfConcatenation
<1>4. /\ Weight(front) \in Nat /\ Weight(rest) \in Nat
      /\ NonSystem(front) \in Seq(E) /\ NonSystem(rest) \in Seq(E)
      /\ Weight(NonSystem(front)) \in Nat
      /\ Weight(NonSystem(front)) <= Weight(front)
  BY <1>1, WeightType
<1>5. Len(NonSystem(ms)) = Len(NonSystem(front)) + Len(NonSystem(rest))
  BY <1>3, <1>4
<1>6. /\ Weight(ms) - Weight(NonSystem(front)) \in Nat
      /\ Weight(rest) <= Weight(ms) - Weight(NonSystem(front))
  BY <1>3, <1>4
<1> QED
  BY <1>1, <1>2, <1>3, <1>5, <1>6 DEF front, rest

\* As a window sees it.
With(w, ms, n) == [w EXCEPT !.messages = ms, !.used = n]

\* A slide leaves an end of the messages.
LEMMA SlideKeepsEnd ==
  ASSUME NEW E, \A e \in E : e.tokens \in Nat, NEW w, w.messages \in Seq(E)
  PROVE  \E ms \in Seq(E), n \in Nat :
            Slide(w).window = With(w, ms, n) /\ IsEndOf(ms, w.messages)
<1>1. PICK k \in 0..Len(w.messages) :
        Slide(w).window =
          [w EXCEPT !.messages = SubSeq(w.messages, k + 1, Len(w.messages)),
                    !.used = Weight(w.messages) - Weight(NonSystem(SubSeq(w.messages, 1, k)))]
  BY SlideIs
<1>2. SubSeq(w.messages, k + 1, Len(w.messages)) \in Seq(E)
  OBVIOUS
<1>3. IsEndOf(SubSeq(w.messages, k + 1, Len(w.messages)), w.messages)
  BY EndsOfItself, EndOfEnd
<1>4. Weight(w.messages) - Weight(NonSystem(SubSeq(w.messages, 1, k))) \in Nat
  BY PartsWeigh
<1> QED
  BY <1>1, <1>2, <1>3, <1>4 DEF With

\* What was gone, then the oldest of the window, are the oldest of the log.
LEMMA OldestFirst ==
  ASSUME NEW E, NEW ms \in Seq(E), NEW all \in Seq(E), IsEndOf(ms, all), NEW k \in 0..Len(ms)
  PROVE  /\ SubSeq(all, 1, Len(all) - Len(ms)) \in Seq(E)
         /\ SubSeq(all, 1, (Len(all) - Len(ms)) + k)
              = SubSeq(all, 1, Len(all) - Len(ms)) \o SubSeq(ms, 1, k)
<1> DEFINE d == Len(all) - Len(ms)
           a == SubSeq(all, 1, d)
           b == SubSeq(ms, 1, k)
           c == SubSeq(all, 1, d + k)
<1>0. Len(ms) \in Nat /\ Len(all) \in Nat /\ d \in 0..Len(all) /\ d + k \in 0..Len(all)
  BY DEF IsEndOf
<1>1. /\ a \in Seq(E) /\ Len(a) = d /\ \A i \in 1..d : a[i] = all[i]
      /\ b \in Seq(E) /\ Len(b) = k /\ \A i \in 1..k : b[i] = ms[i]
      /\ c \in Seq(E) /\ Len(c) = d + k /\ \A i \in 1..(d + k) : c[i] = all[i]
  BY <1>0
<1>2. \A i \in 1..k : ms[i] = all[d + i]
  <2>1. \A i \in 1..k : i \in 1..Len(ms)
    BY <1>0
  <2> QED
    BY <2>1 DEF IsEndOf
<1> HIDE DEF a, b, c, d
<1>3. /\ a \o b \in Seq(E) /\ Len(a \o b) = d + k
      /\ \A i \in 1..(d + k) : (a \o b)[i] = IF i <= d THEN a[i] ELSE b[i - d]
  <2>1. a \in Seq(E) /\ b \in Seq(E)
    BY <1>1
  <2>2. /\ Len(a \o b) = Len(a) + Len(b)
        /\ \A i \in 1..(Len(a) + Len(b)) :
             (a \o b)[i] = IF i <= Len(a) THEN a[i] ELSE b[i - Len(a)]
    BY <2>1, ConcatProperties
  <2>3. a \o b \in Seq(E)
    BY <2>1
  <2> QED
    BY <1>1, <2>2, <2>3
<1>4. ASSUME NEW i \in 1..(d + k) PROVE (a \o b)[i] = c[i]
  <2>1. CASE i <= d
    <3>1. i \in 1..d /\ (a \o b)[i] = a[i]
      BY <1>0, <1>3, <2>1
    <3> QED
      BY <1>0, <1>1, <3>1
  <2>2. CASE ~(i <= d)
    <3>1. i - d \in 1..k /\ d + (i - d) = i
      BY <1>0, <2>2
    <3>2. (a \o b)[i] = b[i - d]
      BY <1>3, <2>2
    <3>3. b[i - d] = all[i]
      BY <1>1, <1>2, <3>1
    <3> QED
      BY <1>1, <3>2, <3>3
  <2> QED
    BY <2>1, <2>2
<1>5. c = a \o b
  <2> DEFINE ab == a \o b
  <2>1. /\ c \in Seq(E) /\ ab \in Seq(E) /\ Len(c) = Len(ab)
        /\ \A i \in 1..Len(c) : c[i] = ab[i]
    BY <1>1, <1>3, <1>4
  <2> HIDE DEF ab
  <2>2. c = ab
    BY <2>1
  <2> QED
    BY <2>2 DEF ab
<1> QED
  BY <1>1, <1>5 DEF a, b, c, d

(***************************************************************************)
(* NewestWithin and the list of sessions.                                  *)
(***************************************************************************)

\* There is a longest end of the log within the budget, and it is a part of it.
LEMMA NewestWithinIs ==
  ASSUME NEW E, \A e \in E : e.tokens \in Nat, NEW ms \in Seq(E), NEW budget \in Nat
  PROVE  LET s == NewestWithin(ms, budget) IN
           /\ s \in Suffixes(ms) \cup {<<>>}
           /\ Weight(s) <= budget
           /\ Len(s) < Len(ms) => Weight(SubSeq(ms, Len(ms) - Len(s), Len(ms))) > budget
<1> DEFINE From(k) == SubSeq(ms, k, Len(ms))
           S == {k \in 1..(Len(ms) + 1) : Weight(From(k)) <= budget}
           Fits(s) == /\ Weight(s) <= budget
                      /\ Len(s) < Len(ms) =>
                           Weight(SubSeq(ms, Len(ms) - Len(s), Len(ms))) > budget
<1>0. /\ Len(ms) \in Nat /\ From(Len(ms) + 1) = <<>>
      /\ \A k \in 1..(Len(ms) + 1) : From(k) \in Seq(E) /\ Len(From(k)) = Len(ms) + 1 - k
  OBVIOUS
<1>1. \A k \in 1..(Len(ms) + 1) : Weight(From(k)) \in Nat
  BY <1>0, WeightType
<1>2. PICK k \in S : \A l \in S : k <= l
  <2>1. Len(ms) + 1 \in S
    <3>1. Weight(From(Len(ms) + 1)) = 0
      BY <1>0, WeightEmpty
    <3> QED
      BY <1>0, <3>1
  <2>2. S \in SUBSET Nat
    OBVIOUS
  <2> HIDE DEF S
  <2> QED
    BY <2>1, <2>2, LeastNatural
<1>3. k \in 1..(Len(ms) + 1) /\ Weight(From(k)) <= budget
  OBVIOUS
<1>4. ASSUME Len(From(k)) < Len(ms)
      PROVE  Weight(SubSeq(ms, Len(ms) - Len(From(k)), Len(ms))) > budget
  <2>1. k - 1 \in 1..(Len(ms) + 1) /\ ~(k <= k - 1) /\ Len(ms) - Len(From(k)) = k - 1
    BY <1>0, <1>3, <1>4
  <2>2. ~(Weight(From(k - 1)) <= budget)
    BY <1>2, <2>1
  <2>3. Weight(From(k - 1)) > budget
    BY <1>1, <2>1, <2>2
  <2> QED
    BY <2>1, <2>3
<1>5. From(k) \in Suffixes(ms) \cup {<<>>}
  <2>1. CASE k = Len(ms) + 1
    BY <1>0, <2>1
  <2>2. CASE k # Len(ms) + 1
    <3>1. k \in 1..Len(ms)
      BY <1>0, <1>3, <2>2
    <3> QED
      BY <3>1 DEF Suffixes
  <2> QED
    BY <2>1, <2>2
<1>6. Fits(From(k))
  BY <1>3, <1>4
<1>7. NewestWithin(ms, budget) \in Suffixes(ms) \cup {<<>>} /\ Fits(NewestWithin(ms, budget))
  <2>1. NewestWithin(ms, budget) = CHOOSE s \in Suffixes(ms) \cup {<<>>} : Fits(s)
    BY DEF NewestWithin
  <2> HIDE DEF Fits, From
  <2> QED
    BY <1>5, <1>6, <2>1
<1> QED
  BY <1>7

LEMMA NewestWithinType ==
  ASSUME NEW E, \A e \in E : e.tokens \in Nat, NEW ms \in Seq(E), NEW budget \in Nat
  PROVE  /\ NewestWithin(ms, budget) \in Seq(E)
         /\ Weight(NewestWithin(ms, budget)) <= budget
<1>1. \A k \in 1..Len(ms) : SubSeq(ms, k, Len(ms)) \in Seq(E)
  OBVIOUS
<1>2. ASSUME NEW s \in Suffixes(ms) \cup {<<>>} PROVE s \in Seq(E)
  <2>1. CASE s = <<>>
    BY <2>1
  <2>2. CASE s # <<>>
    <3>1. PICK k \in 1..Len(ms) : s = SubSeq(ms, k, Len(ms))
      BY <2>2 DEF Suffixes
    <3> QED
      BY <1>1, <3>1
  <2> QED
    BY <2>1, <2>2
<1> QED
  BY <1>2, NewestWithinIs

\* Where the first of some elements is taken out, the others stay in order.
LEMMA RemoveFirstIs ==
  ASSUME NEW E, NEW s \in Seq(E), NEW e \in Range(s)
  PROVE  \E j \in 1..Len(s) :
           /\ s[j] = e
           /\ RemoveFirst(s, e) \in Seq(E) /\ Len(RemoveFirst(s, e)) = Len(s) - 1
           /\ \A i \in 1..(Len(s) - 1) :
                RemoveFirst(s, e)[i] = IF i < j THEN s[i] ELSE s[i + 1]
<1> DEFINE At == {i \in 1..Len(s) : s[i] = e}
           j == Min(At)
           front == SubSeq(s, 1, j - 1)
           rest == SubSeq(s, j + 1, Len(s))
<1>0. Len(s) \in Nat
  OBVIOUS
<1>1. At # {} /\ At \in SUBSET Nat
  BY DEF Range
<1>2. j \in At
  <2> HIDE DEF At
  <2>1. PICK n \in At : \A m \in At : n <= m
    BY <1>1, LeastNatural
  <2> QED
    BY <2>1 DEF Min
<1>3. j \in 1..Len(s) /\ s[j] = e
  BY <1>2
<1>4. RemoveFirst(s, e) = front \o rest
  <2>1. SelectInSeq(s, LAMBDA v : v = e) = j
    BY <1>1 DEF SelectInSeq
  <2>2. \E i \in 1..Len(s) : s[i] = e
    BY <1>3
  <2> HIDE DEF j
  <2> QED
    BY <2>1, <2>2 DEF RemoveFirst, RemoveAt
<1> HIDE DEF j
<1>5. /\ front \in Seq(E) /\ Len(front) = j - 1 /\ \A i \in 1..(j - 1) : front[i] = s[i]
      /\ rest \in Seq(E) /\ Len(rest) = Len(s) - j
      /\ \A i \in 1..(Len(s) - j) : rest[i] = s[j + i]
  BY <1>0, <1>3
<1> HIDE DEF front, rest
<1>6. front \o rest \in Seq(E) /\ Len(front \o rest) = Len(s) - 1
  <2>1. Len(front \o rest) = Len(front) + Len(rest) /\ front \o rest \in Seq(E)
    <3>1. front \in Seq(E) /\ rest \in Seq(E)
      BY <1>5
    <3> QED
      BY <3>1, ConcatProperties
  <2> QED
    BY <1>0, <1>3, <1>5, <2>1
<1>7. ASSUME NEW i \in 1..(Len(s) - 1)
      PROVE  (front \o rest)[i] = IF i < j THEN s[i] ELSE s[i + 1]
  <2>1. CASE i < j
    <3>1. i \in 1..(j - 1)
      BY <1>0, <1>3, <2>1
    <3>2. (front \o rest)[i] = front[i]
      BY <1>0, <1>3, <1>5, <3>1
    <3> QED
      BY <1>5, <2>1, <3>1, <3>2
  <2>2. CASE ~(i < j)
    <3>1. i - (j - 1) \in 1..(Len(s) - j) /\ j + (i - (j - 1)) = i + 1
      BY <1>0, <1>3, <2>2
    <3>2. (front \o rest)[i] = rest[i - (j - 1)]
      <4>1. /\ front \in Seq(E) /\ rest \in Seq(E) /\ Len(front) = j - 1
            /\ i \in 1..(Len(front) + Len(rest)) /\ ~(i <= Len(front))
        BY <1>0, <1>3, <1>5, <2>2
      <4>2. (front \o rest)[i] = rest[i - Len(front)]
        BY <4>1
      <4> QED
        BY <4>1, <4>2
    <3> QED
      BY <1>5, <2>2, <3>1, <3>2
  <2> QED
    BY <2>1, <2>2
<1> QED
  BY <1>3, <1>4, <1>6, <1>7

\* A session that is refreshed is the last, and still there once.
LEMMA Refreshed ==
  ASSUME NEW E, NEW s \in Seq(E), IsInjective(s), NEW e \in E
  PROVE  LET r == Append(RemoveFirst(s, e), e)
         IN r \in Seq(E) /\ IsInjective(r) /\ Range(r) = Range(s) \cup {e}
<1> DEFINE less == RemoveFirst(s, e)
           r == Append(less, e)
<1>0. Len(s) \in Nat /\ \A a, b \in 1..Len(s) : s[a] = s[b] => a = b
  BY DEF IsInjective
<1>1. /\ less \in Seq(E)
      /\ \A a, b \in 1..Len(less) : less[a] = less[b] => a = b
      /\ \A a \in 1..Len(less) : less[a] # e /\ less[a] \in Range(s)
      /\ \A a \in 1..Len(s) : s[a] # e => \E b \in 1..Len(less) : less[b] = s[a]
  <2>1. CASE e \notin Range(s)
    <3>1. less = s
      BY <2>1 DEF RemoveFirst, Range
    <3> HIDE DEF less
    <3> QED
      BY <1>0, <2>1, <3>1 DEF Range
  <2>2. CASE e \in Range(s)
    <3>1. PICK j \in 1..Len(s) :
            /\ s[j] = e
            /\ less \in Seq(E) /\ Len(less) = Len(s) - 1
            /\ \A i \in 1..(Len(s) - 1) : less[i] = IF i < j THEN s[i] ELSE s[i + 1]
      BY <2>2, RemoveFirstIs
    <3> HIDE DEF less
    <3> DEFINE old(i) == IF i < j THEN i ELSE i + 1
    <3>2. \A i \in 1..Len(less) : old(i) \in 1..Len(s) /\ old(i) # j /\ less[i] = s[old(i)]
      BY <1>0, <3>1
    <3>3. \A a, b \in 1..Len(less) : old(a) = old(b) => a = b
      BY <1>0, <3>1
    <3>4. ASSUME NEW a \in 1..Len(s), s[a] # e PROVE \E b \in 1..Len(less) : less[b] = s[a]
      <4>1. a # j
        BY <3>1, <3>4
      <4>2. CASE a < j
        <5>1. a \in 1..Len(less) /\ less[a] = s[a]
          BY <1>0, <3>1, <4>2
        <5> QED
          BY <5>1
      <4>3. CASE ~(a < j)
        <5>1. a - 1 \in 1..Len(less) /\ ~(a - 1 < j) /\ (a - 1) + 1 = a
          BY <1>0, <3>1, <4>1, <4>3
        <5>2. less[a - 1] = s[a]
          BY <3>1, <5>1
        <5> QED
          BY <5>1, <5>2
      <4> QED
        BY <4>2, <4>3
    <3> HIDE DEF old
    <3>5. \A a, b \in 1..Len(less) : less[a] = less[b] => a = b
      BY <1>0, <3>2, <3>3
    <3>6. ASSUME NEW a \in 1..Len(less) PROVE less[a] # e /\ less[a] \in Range(s)
      BY <1>0, <3>1, <3>2 DEF Range
    <3> QED
      BY <3>1, <3>4, <3>5, <3>6
  <2> QED
    BY <2>1, <2>2
<1> HIDE DEF less
<1>2. /\ r \in Seq(E) /\ Len(r) = Len(less) + 1 /\ r[Len(less) + 1] = e
      /\ \A i \in 1..Len(less) : r[i] = less[i]
  BY <1>1
<1>3. Len(less) \in Nat /\ DOMAIN r = 1..Len(r)
  BY <1>1, <1>2
<1> HIDE DEF r
<1>4. ASSUME NEW a \in 1..Len(r), NEW b \in 1..Len(r), r[a] = r[b] PROVE a = b
  <2>1. \A i \in 1..Len(r) : i = Len(less) + 1 \/ i \in 1..Len(less)
    BY <1>2, <1>3
  <2>2. CASE a = Len(less) + 1 /\ b \in 1..Len(less)
    BY <1>1, <1>2, <1>4, <2>2
  <2>3. CASE b = Len(less) + 1 /\ a \in 1..Len(less)
    BY <1>1, <1>2, <1>4, <2>3
  <2>4. CASE a \in 1..Len(less) /\ b \in 1..Len(less)
    <3>1. less[a] = less[b]
      BY <1>2, <1>4, <2>4
    <3> QED
      BY <1>1, <2>4, <3>1
  <2> QED
    BY <2>1, <2>2, <2>3, <2>4
<1>5. IsInjective(r)
  BY <1>3, <1>4 DEF IsInjective
<1>6. Range(r) \subseteq Range(s) \cup {e}
  <2> SUFFICES ASSUME NEW i \in 1..Len(r) PROVE r[i] \in Range(s) \cup {e}
    BY <1>3 DEF Range
  <2>1. i = Len(less) + 1 \/ i \in 1..Len(less)
    BY <1>2, <1>3
  <2> QED
    BY <1>1, <1>2, <2>1
<1>7. Range(s) \cup {e} \subseteq Range(r)
  <2>1. e \in Range(r)
    <3>1. Len(less) + 1 \in DOMAIN r
      BY <1>2, <1>3
    <3> QED
      BY <1>2, <3>1 DEF Range
  <2>2. ASSUME NEW a \in 1..Len(s), s[a] # e PROVE s[a] \in Range(r)
    <3>1. PICK b \in 1..Len(less) : less[b] = s[a]
      BY <1>1, <2>2
    <3>2. b \in DOMAIN r /\ r[b] = s[a]
      BY <1>2, <1>3, <3>1
    <3> QED
      BY <3>2 DEF Range
  <2>3. DOMAIN s = 1..Len(s)
    OBVIOUS
  <2> QED
    BY <2>1, <2>2, <2>3 DEF Range
<1> QED
  BY <1>2, <1>5, <1>6, <1>7 DEF r, less

(***************************************************************************)
(* What windows may weigh, and sums of numbers (TokenAccount).             *)
(***************************************************************************)

Sum(s) == FoldLeft(LAMBDA total, n : total + n, 0, s)
AsMessages(s) == [i \in DOMAIN s |-> [tokens |-> s[i]]]

\* A sum is the weight of messages with those tokens: the two folds have the
\* same equation.
LEMMA SumIsWeight ==
  ASSUME NEW s \in Seq(Nat)
  PROVE  /\ AsMessages(s) \in Seq(Weighed)
         /\ Sum(s) = Weight(AsMessages(s))
<1> DEFINE ms == AsMessages(s)
           OfSum(f) == f = [t \in SUBSET DOMAIN s |->
                              IF t = {} THEN 0 ELSE f[t \ {Max(t)}] + s[Max(t)]]
           OfWeight(f) == f = [t \in SUBSET DOMAIN ms |->
                                 IF t = {} THEN 0 ELSE f[t \ {Max(t)}] + ms[Max(t)].tokens]
<1>1. /\ Len(s) \in Nat /\ DOMAIN s = 1..Len(s) /\ DOMAIN ms = 1..Len(s)
      /\ ms \in Seq(Weighed) /\ \A i \in 1..Len(s) : ms[i].tokens = s[i]
  <2>1. Len(s) \in Nat /\ DOMAIN s = 1..Len(s) /\ \A i \in 1..Len(s) : s[i] \in Nat
    OBVIOUS
  <2>2. ms \in [1..Len(s) -> Weighed]
    BY <2>1 DEF AsMessages, Weighed
  <2> QED
    BY <2>1, <2>2 DEF AsMessages
<1>2. Sum(s) = (CHOOSE f : OfSum(f))[DOMAIN s]
  BY DEF Sum, FoldLeft, MapThenFoldSet
<1>3. Weight(ms) = (CHOOSE f : OfWeight(f))[DOMAIN ms]
  BY DEF Weight, FoldLeft, MapThenFoldSet
<1>4. ASSUME NEW t \in SUBSET (1..Len(s)), t # {} PROVE ms[Max(t)].tokens = s[Max(t)]
  <2>1. Max(t) \in 1..Len(s)
    BY <1>1, <1>4, MaxIsGreatest
  <2> QED
    BY <1>1, <2>1
<1> HIDE DEF ms
<1>5. ASSUME NEW f PROVE OfSum(f) <=> OfWeight(f)
  BY <1>1, <1>4
<1> HIDE DEF OfSum, OfWeight
<1>6. (CHOOSE f : OfSum(f)) = (CHOOSE f : OfWeight(f))
  BY <1>5
<1> QED
  BY <1>1, <1>2, <1>3, <1>6 DEF ms

\* The last of the numbers is added to the sum of the others.
LEMMA SumAppend ==
  ASSUME NEW s \in Seq(Nat), NEW n \in Nat
  PROVE  Sum(s) \in Nat /\ Sum(Append(s, n)) = Sum(s) + n
<1> DEFINE m == [tokens |-> n]
<1>1. /\ Append(s, n) \in Seq(Nat)
      /\ AsMessages(s) \in Seq(Weighed)
      /\ m \in Weighed /\ \A e \in Weighed : e.tokens \in Nat
  BY SumIsWeight DEF Weighed
<1>2. AsMessages(Append(s, n)) = Append(AsMessages(s), m)
  BY DEF AsMessages
<1>3. m.tokens = n
  OBVIOUS
<1> HIDE DEF m
<1>4. /\ Weight(AsMessages(s)) \in Nat
      /\ Weight(Append(AsMessages(s), m)) = Weight(AsMessages(s)) + m.tokens
  BY <1>1, WeightAppend
<1> QED
  BY <1>1, <1>2, <1>3, <1>4, SumIsWeight

\* Nothing weighs nothing.
LEMMA SumEmpty == Sum(<<>>) = 0
<1>1. <<>> \in Seq(Nat) /\ AsMessages(<<>>) = <<>>
  BY DEF AsMessages
<1> QED
  BY <1>1, SumIsWeight, WeightEmpty

\* The history of a run has the last message of the log, if that fits.
LEMMA LastIsRemembered ==
  ASSUME NEW E, \A e \in E : e.tokens \in Nat, NEW ms \in Seq(E), NEW budget \in Nat,
         ms # <<>>, ms[Len(ms)].tokens <= budget
  PROVE  Weight(NewestWithin(ms, budget)) >= ms[Len(ms)].tokens
<1> DEFINE s == NewestWithin(ms, budget)
           From(k) == SubSeq(ms, k, Len(ms))
           last == ms[Len(ms)]
           Fits(t) == /\ Weight(t) <= budget
                      /\ Len(t) < Len(ms) =>
                           Weight(SubSeq(ms, Len(ms) - Len(t), Len(ms))) > budget
<1>1. Len(ms) \in Nat /\ Len(ms) # 0 /\ last \in E /\ last.tokens \in Nat
  OBVIOUS
<1>2. s \in Suffixes(ms) \cup {<<>>} /\ Fits(s)
  BY NewestWithinIs DEF Fits
<1> HIDE DEF s, last
<1>3. ASSUME NEW k \in 1..Len(ms)
      PROVE  /\ SubSeq(ms, k, Len(ms) - 1) \in Seq(E)
             /\ Weight(SubSeq(ms, k, Len(ms) - 1)) \in Nat
             /\ Weight(From(k)) = Weight(SubSeq(ms, k, Len(ms) - 1)) + last.tokens
  <2>1. /\ SubSeq(ms, k, Len(ms) - 1) \in Seq(E)
        /\ From(k) = Append(SubSeq(ms, k, Len(ms) - 1), last)
    BY <1>1 DEF last
  <2> HIDE DEF From
  <2> QED
    BY <1>1, <2>1, WeightAppend
<1> HIDE DEF From
<1>4. s # <<>>
  <2> SUFFICES ASSUME s = <<>> PROVE FALSE
    OBVIOUS
  <2>1. Len(s) = 0 /\ Len(ms) - Len(s) = Len(ms) /\ Len(ms) \in 1..Len(ms)
    BY <1>1
  <2>2. Weight(From(Len(ms))) > budget
    BY <1>1, <1>2, <2>1 DEF From
  <2>3. SubSeq(ms, Len(ms), Len(ms) - 1) = <<>>
    BY <1>1
  <2>4. Weight(From(Len(ms))) = Weight(<<>>) + last.tokens
    BY <1>3, <2>1, <2>3
  <2> QED
    BY <1>1, <2>2, <2>4, WeightEmpty DEF last
<1>5. PICK k \in 1..Len(ms) : s = From(k)
  BY <1>2, <1>4 DEF Suffixes, From
<1> QED
  BY <1>1, <1>3, <1>5 DEF s, last

\* What an account may find of a window when it has had it slid: as it was, or
\* with some of the last messages, and their tokens counted.
MaySlide(w, v) ==
  \/ v = w
  \/ \E k \in 0..Len(w.messages), n \in Nat :
       /\ v = [messages |-> SubSeq(w.messages, k + 1, Len(w.messages)), used |-> n]
       /\ Weight(SubSeq(w.messages, k + 1, Len(w.messages))) <= n

\* What is counted after a slide are the messages that are left, and system
\* messages that are not.
LEMMA SlideMay ==
  ASSUME NEW E, \A e \in E : e.tokens \in Nat, NEW w \in [messages : Seq(E), used : Nat],
         NEW v \in {w, Slide(w).window}
  PROVE  MaySlide(w, v)
<1> DEFINE ms == w.messages
           rest(k) == SubSeq(ms, k + 1, Len(ms))
           left(k) == Weight(ms) - Weight(NonSystem(SubSeq(ms, 1, k)))
<1>1. ms \in Seq(E) /\ Len(ms) \in Nat
  OBVIOUS
<1>2. PICK k \in 0..Len(ms) :
        Slide(w).window = [w EXCEPT !.messages = rest(k), !.used = left(k)]
  BY <1>1, SlideIs
<1>3. left(k) \in Nat /\ Weight(rest(k)) <= left(k)
  BY <1>1, PartsWeigh
<1> HIDE DEF rest, left
<1>4. Slide(w).window = [messages |-> rest(k), used |-> left(k)]
  BY <1>2
<1> QED
  BY <1>3, <1>4 DEF MaySlide, rest

(***************************************************************************)
(* Conversation, for one caller and for several.  The two specifications   *)
(* differ in their callers and bounds, so that what both keep is stated    *)
(* for any callers and any bound on messages.                              *)
(***************************************************************************)

MessagesUpTo(limit) ==
  [n : 1..limit, of : Sessions, role : {"user", "step", "tool", "assistant"}, tokens : {1}]

WindowsUpTo(limit) ==
  [session : Sessions, hasRole : BOOLEAN, messages : Seq(MessagesUpTo(limit)), used : Nat]

ComposeUpTo(limit, c, s, who) ==
  /\ sent < limit
  /\ sent' = sent + 1
  /\ msg' = [msg EXCEPT ![c] = [n |-> sent + 1, of |-> s, role |-> who, tokens |-> 1]]

AskUpTo(limit, c) ==
  /\ pc[c] = "idle"
  /\ \E s \in Sessions :
       /\ session' = [session EXCEPT ![c] = s]
       /\ ComposeUpTo(limit, c, s, "user")
  /\ history' = [history EXCEPT ![c] = CurrentContext]
  /\ Goto(c, "bind")
  /\ UNCHANGED <<windows, current, store, recent, named, held>>

PersistStepUpTo(limit, c) ==
  /\ pc[c] \in {"step", "tool"}
  /\ ComposeUpTo(limit, c, session[c], pc[c])
  /\ history' = [history EXCEPT ![c] = Append(@, msg'[c])]
  /\ held' = [held EXCEPT ![c] = current]
  /\ Goto(c, "stepAdd")
  /\ UNCHANGED <<windows, current, store, recent, named, session>>

AnswerUpTo(limit, c) ==
  /\ pc[c] = "end"
  /\ ComposeUpTo(limit, c, session[c], "assistant")
  /\ Goto(c, "bind")
  /\ UNCHANGED <<windows, current, store, recent, named, session, history, held>>

AnySession(c) ==
  /\ pc[c] = "idle"
  /\ \E s \in Sessions :
       /\ windows' = Append(windows, FreshWindow(s, TRUE))
       /\ recent' = IF s \in Range(recent) THEN recent ELSE Append(recent, s)
       /\ named' = named \cup {s}
  /\ current' = Len(windows')
  /\ UNCHANGED <<store, sent, callerVars>>

StepUpTo(limit, c) ==
  \/ AskUpTo(limit, c) \/ BindWindow(c) \/ MakeWindow(c) \/ AddToWindow(c) \/ AppendToStore(c)
  \/ Think(c) \/ RecordResult(c) \/ PersistStepUpTo(limit, c) \/ AddContextMessage(c)
  \/ AppendStep(c) \/ AnswerUpTo(limit, c) \/ NoAnswer(c) \/ SlideAndReturn(c) \/ AnySession(c)

\* Next of Conversation, for the callers and the bound it has there.
LEMMA ConcurrentStep ==
  ASSUME Next
  PROVE  \E c \in Callers : StepUpTo(MaxMessages, c)
<1>1. PICK c \in Callers :
        \/ Ask(c) \/ BindWindow(c) \/ MakeWindow(c) \/ AddToWindow(c) \/ AppendToStore(c)
        \/ Think(c) \/ RecordResult(c) \/ PersistStep(c) \/ AddContextMessage(c) \/ AppendStep(c)
        \/ Answer(c) \/ NoAnswer(c) \/ SlideAndReturn(c) \/ NewSession(c)
  BY DEF Next
<1>2. Ask(c) => AskUpTo(MaxMessages, c)
  BY DEF Ask, AskUpTo, Compose, ComposeUpTo
<1>3. PersistStep(c) => PersistStepUpTo(MaxMessages, c)
  BY DEF PersistStep, PersistStepUpTo, Compose, ComposeUpTo
<1>4. Answer(c) => AnswerUpTo(MaxMessages, c)
  BY DEF Answer, AnswerUpTo, Compose, ComposeUpTo
<1>5. NewSession(c) => AnySession(c)
  BY DEF NewSession, AnySession
<1>6. StepUpTo(MaxMessages, c)
  BY <1>1, <1>2, <1>3, <1>4, <1>5, Zenon DEF StepUpTo
<1> QED
  BY <1>6

Types(C, limit) ==
  /\ windows \in Seq(WindowsUpTo(limit))
  /\ current \in 0..Len(windows)
  /\ store \in [Sessions -> Seq(MessagesUpTo(limit))]
  /\ recent \in Seq(Sessions) /\ IsInjective(recent)
  /\ named \subseteq Range(recent)
  /\ sent \in 0..limit
  /\ pc \in [C -> Locations]
  /\ session \in [C -> Sessions \cup {None}]
  /\ history \in [C -> Seq(MessagesUpTo(limit))]
  /\ msg \in [C -> MessagesUpTo(limit) \cup {None}]
  /\ held \in [C -> 0..Len(windows)]

\* A call knows its session, the message it persists and the window it holds.
\* Questions and answers are of the session of the call, and added to a window
\* of that session, which no other call can change.
CallOf(limit, c) ==
  /\ pc[c] # "idle" => session[c] \in Sessions
  /\ pc[c] \in {"bind", "make", "add", "log"} =>
       msg[c] \in MessagesUpTo(limit) /\ msg[c].role \notin {"step", "tool"}
         /\ msg[c].of = session[c]
  /\ pc[c] \in {"stepAdd", "stepLog"} =>
       msg[c] \in MessagesUpTo(limit) /\ msg[c].role \in {"step", "tool"}
  /\ pc[c] \notin {"idle", "bind", "make"} => held[c] # 0 /\ current # 0
  /\ pc[c] = "add" => windows[held[c]].session = session[c]
CallsOf(C, limit) == \A c \in C : CallOf(limit, c)

LEMMA TokensOfMessages ==
  ASSUME NEW limit
  PROVE  \A e \in MessagesUpTo(limit) : e.tokens \in Nat
BY DEF MessagesUpTo

\* Windows are added and changed one at a time, and no window changes its
\* session.  What is added to one is the message of a call.
Grown(limit, w) == windows' = Append(windows, w) /\ w.messages = <<>> /\ current' = Len(windows')
Written(i, w, c) ==
  /\ windows' = [windows EXCEPT ![i] = w] /\ current' = current
  /\ w.session = windows[i].session /\ w.hasRole = windows[i].hasRole
  /\ \/ IsEndOf(w.messages, windows[i].messages)
     \/ /\ pc[c] \in {"add", "stepAdd"} /\ w.messages = Append(windows[i].messages, msg[c])
        /\ i = (IF pc[c] = "add" THEN held[c] ELSE current)

LEMMA WindowWith ==
  ASSUME NEW limit, NEW v \in WindowsUpTo(limit),
         NEW ms \in Seq(MessagesUpTo(limit)), NEW n \in Nat
  PROVE  /\ With(v, ms, n) \in WindowsUpTo(limit) /\ With(v, ms, n).messages = ms
         /\ With(v, ms, n).session = v.session /\ With(v, ms, n).hasRole = v.hasRole
<1> DEFINE M == MessagesUpTo(limit)
<1>1. v \in [session : Sessions, hasRole : BOOLEAN, messages : Seq(M), used : Nat] /\ ms \in Seq(M)
  BY DEF WindowsUpTo
<1> HIDE DEF M
<1>2. /\ With(v, ms, n) \in [session : Sessions, hasRole : BOOLEAN, messages : Seq(M), used : Nat]
      /\ With(v, ms, n).messages = ms
      /\ With(v, ms, n).session = v.session /\ With(v, ms, n).hasRole = v.hasRole
  BY <1>1 DEF With
<1> QED
  BY <1>2 DEF M, WindowsUpTo

LEMMA CheckSlideIs ==
  ASSUME NEW C, NEW limit \in Nat, NEW c \in C, Types(C, limit), CheckSlide, current' = current
  PROVE  \/ windows' = windows
         \/ \E i \in 1..Len(windows), w \in WindowsUpTo(limit) : i = current /\ Written(i, w, c)
<1> SUFFICES ASSUME current # 0,
                      windows' = [windows EXCEPT ![current] = Slide(windows[current]).window]
             PROVE  \E i \in 1..Len(windows), w \in WindowsUpTo(limit) : i = current
                      /\ Written(i, w, c)
  BY DEF CheckSlide
<1> DEFINE M == MessagesUpTo(limit)
           old == windows[current]
<1>1. current \in 1..Len(windows) /\ old \in WindowsUpTo(limit)
  BY DEF Types
<1>2. old.messages \in Seq(M)
  BY <1>1 DEF WindowsUpTo
<1>3. \A e \in M : e.tokens \in Nat
  BY TokensOfMessages
<1> HIDE DEF M
<1>4. PICK ms \in Seq(M), n \in Nat : Slide(old).window = With(old, ms, n)
             /\ IsEndOf(ms, old.messages)
  BY <1>2, <1>3, SlideKeepsEnd
<1> DEFINE w == With(old, ms, n)
<1>5. /\ w \in WindowsUpTo(limit) /\ w.messages = ms
      /\ w.session = old.session /\ w.hasRole = old.hasRole
  <2>1. old \in WindowsUpTo(limit) /\ ms \in Seq(MessagesUpTo(limit))
    BY <1>1 DEF M
  <2> HIDE DEF old
  <2> QED
    BY <2>1, WindowWith
<1>6. windows' = [windows EXCEPT ![current] = w]
  BY <1>4
<1> HIDE DEF w
<1>7. Written(current, w, c)
  BY <1>4, <1>5, <1>6 DEF Written
<1> QED
  BY <1>1, <1>5, <1>7

\* Every step adds a window, writes one or leaves them as they are.
LEMMA WindowsStep ==
  ASSUME NEW C, NEW limit \in Nat, NEW c \in C, Types(C, limit), CallsOf(C, limit),
         StepUpTo(limit, c)
  PROVE  \/ windows' = windows /\ current' = current
         \/ \E w \in WindowsUpTo(limit) : Grown(limit, w)
         \/ \E i \in 1..Len(windows), w \in WindowsUpTo(limit) : Written(i, w, c)
<1> DEFINE M == MessagesUpTo(limit)
           W == WindowsUpTo(limit)
<1>0. /\ windows \in Seq(W) /\ current \in 0..Len(windows) /\ Len(windows) \in Nat
      /\ \A i \in 1..Len(windows) : windows[i] \in W
      /\ pc[c] \in Locations
      /\ CallOf(limit, c)
      /\ history[c] \in Seq(M)
      /\ held[c] \in 0..Len(windows)
  BY DEF Types, CallsOf
<1>1. ASSUME NEW i \in 1..Len(windows), NEW m \in M
      PROVE  /\ windows[i].messages \in Seq(M) /\ windows[i].used \in Nat /\ m.tokens \in Nat
             /\ Append(windows[i].messages, m) \in Seq(M)
  <2>1. windows[i].messages \in Seq(M) /\ windows[i].used \in Nat /\ m.tokens \in Nat
    BY <1>0, TokensOfMessages DEF WindowsUpTo
  <2> HIDE DEF M
  <2> QED
    BY <2>1
<1>2. CASE BindWindow(c) \/ NoAnswer(c)
  BY <1>2 DEF BindWindow, NoAnswer, agentVars
<1>3. CASE AskUpTo(limit, c) \/ PersistStepUpTo(limit, c) \/ AnswerUpTo(limit, c)
  BY <1>3 DEF AskUpTo, PersistStepUpTo, AnswerUpTo
<1>4. CASE AppendToStore(c) \/ AppendStep(c)
  BY <1>4 DEF AppendToStore, AppendStep
<1>5. CASE MakeWindow(c)
  <2>1. session[c] \in Sessions
    BY <1>0, <1>5 DEF MakeWindow, CallOf
  <2>2. FreshWindow(session[c], FALSE) \in W /\ FreshWindow(session[c], FALSE).messages = <<>>
    BY <2>1 DEF FreshWindow, WindowsUpTo
  <2> QED
    BY <1>5, <2>2 DEF MakeWindow, Grown
<1>6. CASE AnySession(c)
  <2>1. PICK s \in Sessions : windows' = Append(windows, FreshWindow(s, TRUE))
    BY <1>6 DEF AnySession
  <2>2. FreshWindow(s, TRUE) \in W /\ FreshWindow(s, TRUE).messages = <<>>
    BY DEF FreshWindow, WindowsUpTo
  <2> QED
    BY <1>6, <2>1, <2>2 DEF AnySession, Grown
<1>7. CASE AddToWindow(c)
  <2> DEFINE i == held[c]
             v == windows[i]
             ms == Append(v.messages, msg[c])
             n == v.used
             w == With(v, ms, n)
  <2>1. pc[c] = "add" /\ i \in 1..Len(windows) /\ msg[c] \in M
    BY <1>0, <1>7 DEF AddToWindow, CallOf
  <2>2. v \in W /\ v.used \in Nat /\ Append(v.messages, msg[c]) \in Seq(M)
    BY <1>0, <1>1, <2>1
  <2>3. /\ w \in W /\ w.session = v.session /\ w.hasRole = v.hasRole
        /\ w.messages = Append(v.messages, msg[c])
    <3>1. v \in WindowsUpTo(limit) /\ ms \in Seq(MessagesUpTo(limit)) /\ n \in Nat
      BY <2>2
    <3>2. ms = Append(v.messages, msg[c])
      OBVIOUS
    <3>3. /\ w \in WindowsUpTo(limit) /\ w.messages = ms
          /\ w.session = v.session /\ w.hasRole = v.hasRole
      <4> HIDE DEF v, ms, n
      <4> QED
        BY <3>1, WindowWith
    <3> QED
      BY <3>2, <3>3
  <2>4. windows' = [windows EXCEPT ![i] = w]
    <3>1. windows' = [windows EXCEPT ![i] = [v EXCEPT !.messages = Append(v.messages, msg[c])]]
      BY <1>7 DEF AddToWindow
    <3>2. w = [v EXCEPT !.messages = Append(v.messages, msg[c])]
      BY <2>2 DEF WindowsUpTo, With
    <3> QED
      BY <3>1, <3>2
  <2> HIDE DEF w
  <2>5. Written(i, w, c)
    BY <1>7, <2>1, <2>3, <2>4 DEF Written, AddToWindow
  <2> QED
    BY <2>1, <2>3, <2>5
<1>8. CASE AddContextMessage(c)
  <2> DEFINE i == current
             v == windows[i]
             ms == Append(v.messages, msg[c])
             n == v.used + msg[c].tokens
             w == With(v, ms, n)
  <2>1. pc[c] = "stepAdd" /\ i \in 1..Len(windows) /\ msg[c] \in M
    BY <1>0, <1>8 DEF AddContextMessage, CallOf
  <2>2. v \in W /\ v.used + msg[c].tokens \in Nat /\ Append(v.messages, msg[c]) \in Seq(M)
    BY <1>0, <1>1, <2>1
  <2>3. /\ w \in W /\ w.session = v.session /\ w.hasRole = v.hasRole
        /\ w.messages = Append(v.messages, msg[c])
    <3>1. v \in WindowsUpTo(limit) /\ ms \in Seq(MessagesUpTo(limit)) /\ n \in Nat
      BY <2>2
    <3>2. ms = Append(v.messages, msg[c])
      OBVIOUS
    <3>3. /\ w \in WindowsUpTo(limit) /\ w.messages = ms
          /\ w.session = v.session /\ w.hasRole = v.hasRole
      <4> HIDE DEF v, ms, n
      <4> QED
        BY <3>1, WindowWith
    <3> QED
      BY <3>2, <3>3
  <2>4. windows' = [windows EXCEPT ![i] = w]
    BY <1>0, <1>8, <2>1, <2>2 DEF AddContextMessage, With
  <2> HIDE DEF w
  <2>5. Written(i, w, c)
    BY <1>8, <2>1, <2>3, <2>4 DEF Written, AddContextMessage
  <2> QED
    BY <2>1, <2>3, <2>5
<1>9. CASE RecordResult(c)
  <2> DEFINE i == current
             v == windows[i]
             w == [v EXCEPT !.used = v.used + Weight(history[c]) + 1]
  <2>1. pc[c] = "think" /\ i \in 1..Len(windows)
    BY <1>0, <1>9 DEF RecordResult, CallOf
  <2>2. v \in W /\ v.used + Weight(history[c]) + 1 \in Nat
    <3>1. Weight(history[c]) \in Nat
      BY <1>0, TokensOfMessages, WeightType
    <3> QED
      BY <1>0, <2>1, <3>1 DEF WindowsUpTo
  <2>3. w \in W /\ w.session = v.session /\ w.hasRole = v.hasRole /\ w.messages = v.messages
    BY <2>2 DEF WindowsUpTo
  <2>4. windows' = [windows EXCEPT ![i] = w]
    BY <1>9, <2>1, <2>2 DEF RecordResult
  <2>5. IsEndOf(w.messages, v.messages)
    <3>1. v.messages \in Seq(M)
      BY <2>2 DEF WindowsUpTo
    <3> QED
      BY <2>3, <3>1, EndsOfItself
  <2> HIDE DEF w
  <2>6. Written(i, w, c)
    BY <1>9, <2>3, <2>4, <2>5 DEF Written, RecordResult
  <2> QED
    BY <2>1, <2>3, <2>6
<1>10. CASE Think(c) \/ SlideAndReturn(c)
  <2>1. CheckSlide /\ current' = current
    BY <1>10 DEF Think, SlideAndReturn
  <2> QED
    BY <2>1, CheckSlideIs
<1> QED
  BY <1>2, <1>3, <1>4, <1>5, <1>6, <1>7, <1>8, <1>9, <1>10 DEF StepUpTo

\* Windows are typed, never removed, and never of another session.
LEMMA WindowsKept ==
  ASSUME NEW C, NEW limit \in Nat, NEW c \in C, Types(C, limit), CallsOf(C, limit),
         StepUpTo(limit, c)
  PROVE  /\ windows' \in Seq(WindowsUpTo(limit))
         /\ Len(windows') \in Nat /\ Len(windows) <= Len(windows')
         /\ current' \in 0..Len(windows') /\ (current # 0 => current' # 0)
         /\ \A i \in 1..Len(windows) : windows'[i].session = windows[i].session
<1> DEFINE W == WindowsUpTo(limit)
<1>0. windows \in Seq(W) /\ Len(windows) \in Nat /\ current \in 0..Len(windows)
  BY DEF Types
<1>1. CASE windows' = windows /\ current' = current
  BY <1>0, <1>1
<1>2. ASSUME NEW w \in W, Grown(limit, w)
      PROVE  /\ windows' \in Seq(W)
             /\ Len(windows') \in Nat /\ Len(windows) <= Len(windows')
             /\ current' \in 0..Len(windows') /\ current' # 0
             /\ \A i \in 1..Len(windows) : windows'[i].session = windows[i].session
  <2> HIDE DEF W
  <2>1. /\ windows' \in Seq(W) /\ Len(windows') = Len(windows) + 1
        /\ \A i \in 1..Len(windows) : windows'[i] = windows[i]
    BY <1>0, <1>2 DEF Grown
  <2> QED
    BY <1>0, <1>2, <2>1 DEF Grown
<1>3. ASSUME NEW i \in 1..Len(windows), NEW w \in W, Written(i, w, c)
      PROVE  /\ windows' \in Seq(W)
             /\ Len(windows') = Len(windows) /\ current' = current
             /\ \A j \in 1..Len(windows) : windows'[j].session = windows[j].session
  <2> HIDE DEF W
  <2>1. /\ windows' \in Seq(W) /\ Len(windows') = Len(windows)
        /\ \A j \in 1..Len(windows) : windows'[j] = IF j = i THEN w ELSE windows[j]
    BY <1>0, <1>3 DEF Written
  <2> QED
    BY <1>0, <1>3, <2>1 DEF Written
<1> QED
  BY <1>0, <1>1, <1>2, <1>3, WindowsStep

LEMMA AppendOnce ==
  ASSUME NEW E, NEW s \in Seq(E), IsInjective(s), NEW e \in E, e \notin Range(s)
  PROVE  Append(s, e) \in Seq(E) /\ IsInjective(Append(s, e))
           /\ Range(Append(s, e)) = Range(s) \cup {e}
<1>0. Len(s) \in Nat /\ DOMAIN s = 1..Len(s)
  OBVIOUS
<1>1. /\ \A a, b \in 1..Len(s) : s[a] = s[b] => a = b
      /\ \A a \in 1..Len(s) : s[a] # e /\ s[a] \in Range(s)
  BY <1>0 DEF IsInjective, Range
<1> DEFINE r == Append(s, e)
<1>2. /\ r \in Seq(E) /\ Len(r) = Len(s) + 1 /\ DOMAIN r = 1..Len(r)
      /\ r[Len(s) + 1] = e /\ \A i \in 1..Len(s) : r[i] = s[i]
  OBVIOUS
<1> HIDE DEF r
<1>3. \A i \in 1..Len(r) : i = Len(s) + 1 \/ i \in 1..Len(s)
  BY <1>0, <1>2
<1>4. ASSUME NEW a \in 1..Len(r), NEW b \in 1..Len(r), r[a] = r[b] PROVE a = b
  BY <1>1, <1>2, <1>3, <1>4
<1>5. IsInjective(r)
  BY <1>2, <1>4 DEF IsInjective
<1>6. Range(r) \subseteq Range(s) \cup {e}
  <2> SUFFICES ASSUME NEW i \in 1..Len(r) PROVE r[i] \in Range(s) \cup {e}
    BY <1>2 DEF Range
  <2> QED
    BY <1>1, <1>2, <1>3
<1>7. ASSUME NEW x \in Range(s) \cup {e} PROVE x \in Range(r)
  <2>1. \E i \in 1..Len(r) : r[i] = x
    <3>1. CASE x = e
      <4>1. Len(s) + 1 \in 1..Len(r)
        BY <1>0, <1>2
      <4> QED
        BY <1>2, <3>1, <4>1
    <3>2. CASE x # e
      <4>1. PICK i \in 1..Len(s) : s[i] = x
        BY <1>0, <3>2 DEF Range
      <4>2. i \in 1..Len(r) /\ r[i] = x
        BY <1>0, <1>2, <4>1
      <4> QED
        BY <4>2
    <3> QED
      BY <3>1, <3>2
  <2> QED
    BY <1>2, <2>1 DEF Range
<1> QED
  BY <1>2, <1>5, <1>6, <1>7 DEF r

\* The store after a message is appended.
LEMMA StoreAppendTypes ==
  ASSUME NEW C, NEW limit \in Nat, Types(C, limit), NEW s \in Sessions,
         NEW m \in MessagesUpTo(limit), NEW hasName \in BOOLEAN, StoreAppend(s, m, hasName)
  PROVE  /\ store' \in [Sessions -> Seq(MessagesUpTo(limit))]
         /\ \A t \in Sessions : store'[t] = IF t = s THEN Append(store[s], m) ELSE store[t]
         /\ recent' \in Seq(Sessions) /\ IsInjective(recent') /\ named' \subseteq Range(recent')
<1> DEFINE M == MessagesUpTo(limit)
<1>0. /\ store \in [Sessions -> Seq(M)] /\ recent \in Seq(Sessions) /\ IsInjective(recent)
      /\ named \subseteq Range(recent) /\ m \in M
      /\ store' = [store EXCEPT ![s] = Append(store[s], m)]
      /\ recent' = Append(RemoveFirst(recent, s), s)
      /\ named' \subseteq named \cup {s}
  BY DEF Types, StoreAppend
<1> HIDE DEF M
<1>1. /\ store' \in [Sessions -> Seq(M)]
      /\ \A t \in Sessions : store'[t] = IF t = s THEN Append(store[s], m) ELSE store[t]
  BY <1>0
<1>2. recent' \in Seq(Sessions) /\ IsInjective(recent') /\ Range(recent') = Range(recent) \cup {s}
  BY <1>0, Refreshed
<1> QED
  BY <1>0, <1>1, <1>2 DEF M

\* The history of a run is made of messages of the log.
LEMMA CurrentContextType ==
  ASSUME NEW C, NEW limit \in Nat, Types(C, limit)
  PROVE  CurrentContext \in Seq(MessagesUpTo(limit))
<1> DEFINE M == MessagesUpTo(limit)
           own == {i \in DOMAIN recent : recent[i] \in named}
<1>0. /\ store \in [Sessions -> Seq(M)] /\ recent \in Seq(Sessions)
           /\ DOMAIN recent = 1..Len(recent)
      /\ Len(recent) \in Nat /\ HistoryBudget \in Nat
  BY ConversationAssumption DEF Types
<1>1. \A e \in M : e.tokens \in Nat
  BY TokensOfMessages
<1> HIDE DEF M
<1>2. CASE own = {}
  <2>1. CurrentContext = <<>>
    BY <1>2 DEF CurrentContext
  <2>2. <<>> \in Seq(M)
    OBVIOUS
  <2> QED
    BY <2>1, <2>2 DEF M
<1>3. CASE own # {}
  <2>1. CurrentContext = NewestWithin(store[recent[Max(own)]], HistoryBudget)
    BY <1>3 DEF CurrentContext
  <2>2. Max(own) \in 1..Len(recent)
    <3>1. own \in SUBSET (1..Len(recent))
      BY <1>0
    <3> HIDE DEF own
    <3> QED
      BY <1>0, <1>3, <3>1, MaxIsGreatest
  <2>3. store[recent[Max(own)]] \in Seq(M)
    BY <1>0, <2>2
  <2> QED
    BY <1>0, <1>1, <2>1, <2>3, NewestWithinType DEF M
<1> QED
  BY <1>2, <1>3

LEMMA ComposeTypes ==
  ASSUME NEW C, NEW limit \in Nat, NEW c \in C, Types(C, limit), NEW s \in Sessions,
         NEW who \in {"user", "step", "tool", "assistant"}, ComposeUpTo(limit, c, s, who)
  PROVE  /\ sent' \in 0..limit
         /\ msg' \in [C -> MessagesUpTo(limit) \cup {None}]
         /\ msg'[c] \in MessagesUpTo(limit) /\ msg'[c].role = who /\ msg'[c].of = s
         /\ \A d \in C \ {c} : msg'[d] = msg[d]
<1> DEFINE m == [n |-> sent + 1, of |-> s, role |-> who, tokens |-> 1]
<1>1. /\ sent \in 0..limit /\ sent < limit /\ sent' = sent + 1
      /\ msg \in [C -> MessagesUpTo(limit) \cup {None}] /\ msg' = [msg EXCEPT ![c] = m]
  BY DEF Types, ComposeUpTo
<1>2. m \in MessagesUpTo(limit) /\ m.role = who /\ m.of = s
  BY <1>1 DEF MessagesUpTo
<1> HIDE DEF m
<1> QED
  BY <1>1, <1>2

LEMMA TypesStep ==
  ASSUME NEW C, NEW limit \in Nat, NEW c \in C, Types(C, limit), CallsOf(C, limit),
         StepUpTo(limit, c)
  PROVE  Types(C, limit)'
<1> DEFINE M == MessagesUpTo(limit)
<1>0. /\ store \in [Sessions -> Seq(M)]
      /\ recent \in Seq(Sessions) /\ IsInjective(recent) /\ named \subseteq Range(recent)
      /\ sent \in 0..limit
      /\ pc \in [C -> Locations] /\ session \in [C -> Sessions \cup {None}]
      /\ history \in [C -> Seq(M)] /\ msg \in [C -> M \cup {None}]
      /\ held \in [C -> 0..Len(windows)] /\ Len(windows) \in Nat
      /\ current \in 0..Len(windows)
  BY DEF Types
<1>1. /\ windows' \in Seq(WindowsUpTo(limit))
      /\ Len(windows') \in Nat /\ Len(windows) <= Len(windows')
      /\ current' \in 0..Len(windows')
  BY WindowsKept
<1>2. CallOf(limit, c)
  BY DEF CallsOf
<1>3. held' \in [C -> 0..Len(windows')]
  <2>1. held \in [C -> 0..Len(windows')]
    BY <1>0, <1>1
  <2>2. \/ held' = held \/ held' = [held EXCEPT ![c] = current]
        \/ held' = [held EXCEPT ![c] = Len(windows')]
    BY DEF StepUpTo, AskUpTo, BindWindow, MakeWindow, AddToWindow, AppendToStore, Think,
           RecordResult, PersistStepUpTo, AddContextMessage, AppendStep, AnswerUpTo, NoAnswer,
           SlideAndReturn, AnySession, callerVars
  <2>3. current \in 0..Len(windows') /\ Len(windows') \in 0..Len(windows')
    BY <1>0, <1>1
  <2> QED
    BY <2>1, <2>2, <2>3
<1>4. pc' \in [C -> Locations]
  <2>1. pc' = pc \/ \E where \in Locations : pc' = [pc EXCEPT ![c] = where]
    BY DEF StepUpTo, AskUpTo, BindWindow, MakeWindow, AddToWindow, AppendToStore, Think,
           RecordResult, PersistStepUpTo, AddContextMessage, AppendStep, AnswerUpTo, NoAnswer,
           SlideAndReturn, AnySession, callerVars, Goto, Locations
  <2> QED
    BY <1>0, <2>1
<1>5. session' \in [C -> Sessions \cup {None}]
  <2>1. session' = session \/ \E s \in Sessions : session' = [session EXCEPT ![c] = s]
    BY DEF StepUpTo, AskUpTo, BindWindow, MakeWindow, AddToWindow, AppendToStore, Think,
           RecordResult, PersistStepUpTo, AddContextMessage, AppendStep, AnswerUpTo, NoAnswer,
           SlideAndReturn, AnySession, callerVars
  <2> QED
    BY <1>0, <2>1
<1>6. /\ sent' \in 0..limit /\ msg' \in [C -> M \cup {None}]
      /\ history' \in [C -> Seq(M)]
  <2>1. CASE AskUpTo(limit, c)
    <3>1. PICK s \in Sessions : ComposeUpTo(limit, c, s, "user")
      BY <2>1 DEF AskUpTo
    <3>2. sent' \in 0..limit /\ msg' \in [C -> M \cup {None}]
      BY <3>1, ComposeTypes
    <3>3. history' = [history EXCEPT ![c] = CurrentContext]
      BY <2>1 DEF AskUpTo
    <3>4. CurrentContext \in Seq(M)
      BY CurrentContextType
    <3> QED
      BY <1>0, <3>2, <3>3, <3>4
  <2>2. CASE PersistStepUpTo(limit, c)
    <3>1. pc[c] \in {"step", "tool"} /\ ComposeUpTo(limit, c, session[c], pc[c])
      BY <2>2 DEF PersistStepUpTo
    <3>2. session[c] \in Sessions /\ pc[c] \in {"user", "step", "tool", "assistant"}
      BY <1>2, <3>1 DEF CallOf
    <3>3. sent' \in 0..limit /\ msg' \in [C -> M \cup {None}] /\ msg'[c] \in M
      BY <3>1, <3>2, ComposeTypes
    <3>4. history' = [history EXCEPT ![c] = Append(history[c], msg'[c])]
      BY <2>2 DEF PersistStepUpTo
    <3> HIDE DEF M
    <3>5. Append(history[c], msg'[c]) \in Seq(M)
      BY <1>0, <3>3
    <3> QED
      BY <1>0, <3>3, <3>4, <3>5
  <2>3. CASE AnswerUpTo(limit, c)
    <3>1. pc[c] = "end" /\ ComposeUpTo(limit, c, session[c], "assistant") /\ history' = history
      BY <2>3 DEF AnswerUpTo
    <3>2. session[c] \in Sessions
      BY <1>2, <3>1 DEF CallOf
    <3>3. sent' \in 0..limit /\ msg' \in [C -> M \cup {None}]
      BY <3>1, <3>2, ComposeTypes
    <3> QED
      BY <1>0, <3>1, <3>3
  <2>4. CASE UNCHANGED <<sent, msg, history>>
    BY <1>0, <2>4
  <2>5. \/ AskUpTo(limit, c) \/ PersistStepUpTo(limit, c) \/ AnswerUpTo(limit, c)
        \/ UNCHANGED <<sent, msg, history>>
    BY DEF StepUpTo, BindWindow, MakeWindow, AddToWindow, AppendToStore, Think,
           RecordResult, AddContextMessage, AppendStep, NoAnswer,
           SlideAndReturn, AnySession, callerVars, agentVars
  <2> QED
    BY <2>1, <2>2, <2>3, <2>4, <2>5
<1>7. /\ store' \in [Sessions -> Seq(M)]
      /\ recent' \in Seq(Sessions) /\ IsInjective(recent') /\ named' \subseteq Range(recent')
  <2>1. CASE AppendToStore(c)
    <3>1. StoreAppend(session[c], msg[c], TRUE) /\ session[c] \in Sessions /\ msg[c] \in M
      BY <1>2, <2>1 DEF AppendToStore, CallOf
    <3> QED
      BY <3>1, StoreAppendTypes
  <2>2. CASE AppendStep(c)
    <3> DEFINE w == windows[held[c]]
    <3>1. StoreAppend(w.session, msg[c], w.hasRole) /\ msg[c] \in M /\ held[c] \in 1..Len(windows)
      BY <1>0, <1>2, <2>2 DEF AppendStep, CallOf
    <3>2. w.session \in Sessions /\ w.hasRole \in BOOLEAN
      <4>1. w \in WindowsUpTo(limit)
        BY <3>1 DEF Types
      <4> QED
        BY <4>1 DEF WindowsUpTo
    <3> HIDE DEF w
    <3> QED
      BY <3>1, <3>2, StoreAppendTypes
  <2>3. CASE AnySession(c)
    <3>1. PICK s \in Sessions :
            /\ recent' = IF s \in Range(recent) THEN recent ELSE Append(recent, s)
            /\ named' = named \cup {s}
      BY <2>3 DEF AnySession
    <3>2. store' = store
      BY <2>3 DEF AnySession
    <3>3. recent' \in Seq(Sessions) /\ IsInjective(recent') /\ named' \subseteq Range(recent')
      <4>1. CASE s \in Range(recent)
        BY <1>0, <3>1, <4>1
      <4>2. CASE s \notin Range(recent)
        <5>1. recent' = Append(recent, s)
          BY <3>1, <4>2
        <5>2. /\ recent' \in Seq(Sessions) /\ IsInjective(recent')
              /\ Range(recent') = Range(recent) \cup {s}
          BY <1>0, <4>2, <5>1, AppendOnce
        <5> QED
          BY <1>0, <3>1, <5>2
      <4> QED
        BY <4>1, <4>2
    <3> QED
      BY <1>0, <3>2, <3>3
  <2>4. CASE UNCHANGED <<store, recent, named>>
    BY <1>0, <2>4
  <2>5. AppendToStore(c) \/ AppendStep(c) \/ AnySession(c) \/ UNCHANGED <<store, recent, named>>
    BY DEF StepUpTo, AskUpTo, PersistStepUpTo, AnswerUpTo, BindWindow, MakeWindow, AddToWindow,
           Think, RecordResult, AddContextMessage, NoAnswer, SlideAndReturn, agentVars
  <2> QED
    BY <2>1, <2>2, <2>3, <2>4, <2>5
<1> QED
  BY <1>1, <1>3, <1>4, <1>5, <1>6, <1>7 DEF Types

\* A step leaves the other callers where they are.
LEMMA OthersStay ==
  ASSUME NEW C, NEW limit \in Nat, NEW c \in C, Types(C, limit), StepUpTo(limit, c),
         NEW d \in C, d # c
  PROVE  pc'[d] = pc[d] /\ session'[d] = session[d] /\ msg'[d] = msg[d] /\ held'[d] = held[d]
<1>0. /\ pc \in [C -> Locations] /\ session \in [C -> Sessions \cup {None}]
      /\ DOMAIN msg = C /\ DOMAIN held = C
  BY DEF Types
<1>1. pc' = pc \/ \E where : pc' = [pc EXCEPT ![c] = where]
  BY DEF StepUpTo, AskUpTo, BindWindow, MakeWindow, AddToWindow, AppendToStore, Think,
         RecordResult, PersistStepUpTo, AddContextMessage, AppendStep, AnswerUpTo, NoAnswer,
         SlideAndReturn, AnySession, callerVars, Goto
<1>2. session' = session \/ \E s : session' = [session EXCEPT ![c] = s]
  BY DEF StepUpTo, AskUpTo, BindWindow, MakeWindow, AddToWindow, AppendToStore, Think,
         RecordResult, PersistStepUpTo, AddContextMessage, AppendStep, AnswerUpTo, NoAnswer,
         SlideAndReturn, AnySession, callerVars
<1>3. msg' = msg \/ \E m : msg' = [msg EXCEPT ![c] = m]
  BY DEF StepUpTo, AskUpTo, BindWindow, MakeWindow, AddToWindow, AppendToStore, Think,
         RecordResult, PersistStepUpTo, AddContextMessage, AppendStep, AnswerUpTo, NoAnswer,
         SlideAndReturn, AnySession, callerVars, ComposeUpTo
<1>4. held' = held \/ \E h : held' = [held EXCEPT ![c] = h]
  BY DEF StepUpTo, AskUpTo, BindWindow, MakeWindow, AddToWindow, AppendToStore, Think,
         RecordResult, PersistStepUpTo, AddContextMessage, AppendStep, AnswerUpTo, NoAnswer,
         SlideAndReturn, AnySession, callerVars
<1> QED
  BY <1>0, <1>1, <1>2, <1>3, <1>4

\* A step keeps what its call knows, and does not disturb the others.
LEMMA CallsStep ==
  ASSUME NEW C, NEW limit \in Nat, NEW c \in C, Types(C, limit), CallsOf(C, limit),
         StepUpTo(limit, c)
  PROVE  CallsOf(C, limit)'
<1> DEFINE M == MessagesUpTo(limit)
<1>0. /\ pc \in [C -> Locations] /\ session \in [C -> Sessions \cup {None}]
      /\ msg \in [C -> M \cup {None}] /\ held \in [C -> 0..Len(windows)]
      /\ Len(windows) \in Nat /\ current \in 0..Len(windows)
      /\ \A d \in C : CallOf(limit, d)
  BY DEF Types, CallsOf
<1>1. /\ Len(windows') \in Nat /\ Len(windows) <= Len(windows')
      /\ (current # 0 => current' # 0)
      /\ \A i \in 1..Len(windows) : windows'[i].session = windows[i].session
  BY WindowsKept
<1>2. ASSUME NEW d \in C, d # c PROVE CallOf(limit, d)'
  <2>1. pc'[d] = pc[d] /\ session'[d] = session[d] /\ msg'[d] = msg[d] /\ held'[d] = held[d]
    BY <1>2, OthersStay
  <2>2. pc[d] = "add" => windows'[held[d]].session = windows[held[d]].session
    <3>1. pc[d] = "add" => held[d] \in 1..Len(windows)
      BY <1>0 DEF CallOf
    <3> QED
      BY <1>1, <3>1
  <2>3. CallOf(limit, d)
    BY <1>0
  <2> HIDE DEF M
  <2> QED
    BY <1>1, <2>1, <2>2, <2>3 DEF CallOf
<1>3. CallOf(limit, c)'
  <2>0. CallOf(limit, c)
    BY <1>0
  <2>1. CASE AskUpTo(limit, c)
    <3>1. PICK s \in Sessions :
            session' = [session EXCEPT ![c] = s] /\ ComposeUpTo(limit, c, s, "user")
      BY <2>1 DEF AskUpTo
    <3>2. msg'[c] \in M /\ msg'[c].role = "user" /\ msg'[c].of = s
      BY <3>1, ComposeTypes
    <3>3. pc'[c] = "bind" /\ session'[c] = s
      BY <1>0, <2>1, <3>1 DEF AskUpTo, Goto
    <3> QED
      BY <3>2, <3>3 DEF CallOf
  <2>2. CASE BindWindow(c)
    <3>1. UNCHANGED <<windows, current, session, msg>> /\ pc[c] = "bind"
      BY <2>2 DEF BindWindow, agentVars
    <3>2. CASE current # 0 /\ windows[current].session = session[c]
      <4>1. held'[c] = current /\ pc'[c] = "add"
        BY <1>0, <2>2, <3>2 DEF BindWindow, Goto
      <4> QED
        BY <2>0, <3>1, <3>2, <4>1 DEF CallOf
    <3>3. CASE ~(current # 0 /\ windows[current].session = session[c])
      <4>1. pc'[c] = "make"
        BY <1>0, <2>2, <3>3 DEF BindWindow, Goto
      <4> QED
        BY <2>0, <3>1, <4>1 DEF CallOf
    <3> QED
      BY <3>2, <3>3
  <2>3. CASE MakeWindow(c)
    <3>1. pc[c] = "make" /\ UNCHANGED <<session, msg>>
      BY <2>3 DEF MakeWindow
    <3>2. /\ windows' = Append(windows, FreshWindow(session[c], FALSE))
          /\ current' = Len(windows') /\ held' = [held EXCEPT ![c] = Len(windows')]
          /\ pc' = [pc EXCEPT ![c] = "add"]
      BY <2>3 DEF MakeWindow, Goto
    <3>3. Len(windows') = Len(windows) + 1
            /\ windows'[Len(windows')] = FreshWindow(session[c], FALSE)
      <4> DEFINE w == FreshWindow(session[c], FALSE)
                 W == WindowsUpTo(limit)
      <4>1. w \in W
        BY <2>0, <3>1 DEF CallOf, FreshWindow, WindowsUpTo
      <4>2. windows \in Seq(W) /\ windows' = Append(windows, w)
        BY <3>2 DEF Types
      <4> HIDE DEF w, W
      <4>3. Len(windows') = Len(windows) + 1 /\ windows'[Len(windows) + 1] = w
        BY <4>1, <4>2
      <4> QED
        BY <4>3 DEF w
    <3>4. held'[c] = Len(windows') /\ pc'[c] = "add" /\ Len(windows') # 0
      BY <1>0, <3>2, <3>3
    <3>5. windows'[held'[c]].session = session[c]
      BY <3>3, <3>4 DEF FreshWindow
    <3> QED
      BY <2>0, <3>1, <3>2, <3>4, <3>5 DEF CallOf
  <2>4. CASE AddToWindow(c)
    <3>1. pc[c] = "add" /\ pc'[c] = "log" /\ UNCHANGED <<session, msg, held, current>>
      BY <1>0, <2>4 DEF AddToWindow, Goto
    <3> QED
      BY <2>0, <3>1 DEF CallOf
  <2>5. CASE AppendToStore(c)
    <3>1. /\ pc[c] = "log" /\ pc'[c] \in {"run", "slide"}
          /\ UNCHANGED <<session, msg, held, current>>
      BY <1>0, <2>5 DEF AppendToStore, Goto
    <3> QED
      BY <2>0, <3>1 DEF CallOf
  <2>6. CASE Think(c)
    <3>1. pc[c] = "run" /\ pc'[c] = "think" /\ UNCHANGED <<session, msg, held, current>>
      BY <1>0, <2>6 DEF Think, Goto
    <3> QED
      BY <2>0, <3>1 DEF CallOf
  <2>7. CASE RecordResult(c)
    <3>1. pc[c] = "think" /\ pc'[c] \in {"step", "end"} /\ UNCHANGED <<session, msg, held, current>>
      BY <1>0, <2>7 DEF RecordResult, Goto
    <3> QED
      BY <2>0, <3>1 DEF CallOf
  <2>8. CASE PersistStepUpTo(limit, c)
    <3>1. pc[c] \in {"step", "tool"} /\ ComposeUpTo(limit, c, session[c], pc[c])
      BY <2>8 DEF PersistStepUpTo
    <3>2. session[c] \in Sessions /\ pc[c] \in {"user", "step", "tool", "assistant"}
      BY <2>0, <3>1 DEF CallOf
    <3>3. msg'[c] \in M /\ msg'[c].role = pc[c]
      BY <3>1, <3>2, ComposeTypes
    <3>4. /\ pc'[c] = "stepAdd" /\ held'[c] = current /\ UNCHANGED <<session, current>>
      BY <1>0, <2>8 DEF PersistStepUpTo, Goto
    <3> QED
      BY <2>0, <3>1, <3>2, <3>3, <3>4 DEF CallOf
  <2>9. CASE AddContextMessage(c)
    <3>1. pc[c] = "stepAdd" /\ pc'[c] = "stepLog" /\ UNCHANGED <<session, msg, held, current>>
      BY <1>0, <2>9 DEF AddContextMessage, Goto
    <3> QED
      BY <2>0, <3>1 DEF CallOf
  <2>10. CASE AppendStep(c)
    <3>1. /\ pc[c] = "stepLog" /\ pc'[c] \in {"run", "end", "tool"}
          /\ UNCHANGED <<session, msg, held, current>>
      BY <1>0, <2>10 DEF AppendStep, Goto
    <3> QED
      BY <2>0, <3>1 DEF CallOf
  <2>11. CASE AnswerUpTo(limit, c)
    <3>1. pc[c] = "end" /\ ComposeUpTo(limit, c, session[c], "assistant")
      BY <2>11 DEF AnswerUpTo
    <3>2. session[c] \in Sessions
      BY <2>0, <3>1 DEF CallOf
    <3>3. msg'[c] \in M /\ msg'[c].role = "assistant" /\ msg'[c].of = session[c]
      BY <3>1, <3>2, ComposeTypes
    <3>4. pc'[c] = "bind" /\ UNCHANGED <<session>>
      BY <1>0, <2>11 DEF AnswerUpTo, Goto
    <3> QED
      BY <3>2, <3>3, <3>4 DEF CallOf
  <2>12. CASE NoAnswer(c) \/ SlideAndReturn(c)
    <3>1. pc'[c] = "idle"
      BY <1>0, <2>12 DEF NoAnswer, SlideAndReturn, Goto
    <3> QED
      BY <3>1 DEF CallOf
  <2>13. CASE AnySession(c)
    <3>1. pc'[c] = "idle"
      BY <2>13 DEF AnySession, callerVars
    <3> QED
      BY <3>1 DEF CallOf
  <2> QED
    BY <2>1, <2>2, <2>3, <2>4, <2>5, <2>6, <2>7, <2>8, <2>9, <2>10, <2>11, <2>12, <2>13
    DEF StepUpTo
<1> QED
  BY <1>2, <1>3 DEF CallsOf

\* The messages of a window, or of a log, that are no steps are of the session s.
ApartFrom(ms, s) == \A j \in DOMAIN ms : ms[j].role \notin {"step", "tool"} => ms[j].of = s

LEMMA ApartAppend ==
  ASSUME NEW E, NEW ms \in Seq(E), NEW m \in E, NEW s, ApartFrom(ms, s),
         m.role \in {"step", "tool"} \/ m.of = s
  PROVE  ApartFrom(Append(ms, m), s)
<1> DEFINE more == Append(ms, m)
<1>1. /\ DOMAIN more = 1..(Len(ms) + 1) /\ Len(ms) \in Nat /\ DOMAIN ms = 1..Len(ms)
      /\ more[Len(ms) + 1] = m /\ \A j \in 1..Len(ms) : more[j] = ms[j]
  OBVIOUS
<1> HIDE DEF more
<1>2. ASSUME NEW j \in 1..(Len(ms) + 1) PROVE more[j].role \notin {"step", "tool"} => more[j].of = s
  <2>1. CASE j = Len(ms) + 1
    BY <1>1, <2>1
  <2>2. CASE j # Len(ms) + 1
    <3>1. j \in 1..Len(ms)
      BY <1>1, <2>2
    <3> QED
      BY <1>1, <3>1 DEF ApartFrom
  <2> QED
    BY <2>1, <2>2
<1>3. ApartFrom(more, s)
  BY <1>1, <1>2 DEF ApartFrom
<1> QED
  BY <1>3 DEF more

LEMMA ApartEnd ==
  ASSUME NEW E, NEW ms \in Seq(E), NEW t \in Seq(E), NEW s, ApartFrom(t, s), IsEndOf(ms, t)
  PROVE  ApartFrom(ms, s)
<1>1. /\ DOMAIN ms = 1..Len(ms) /\ DOMAIN t = 1..Len(t) /\ Len(ms) \in Nat /\ Len(t) \in Nat
      /\ Len(ms) <= Len(t)
  BY DEF IsEndOf
<1>2. ASSUME NEW j \in 1..Len(ms) PROVE ms[j].role \notin {"step", "tool"} => ms[j].of = s
  <2>1. Len(t) - Len(ms) + j \in 1..Len(t) /\ ms[j] = t[Len(t) - Len(ms) + j]
    BY <1>1 DEF IsEndOf
  <2> QED
    BY <1>1, <2>1 DEF ApartFrom
<1> QED
  BY <1>1, <1>2 DEF ApartFrom

\* A question or an answer is added to a window and a log of its call's session.
LEMMA ExchangesStep ==
  ASSUME NEW C, NEW limit \in Nat, NEW c \in C, Types(C, limit), CallsOf(C, limit),
         ExchangesStayInTheirSession, StepUpTo(limit, c)
  PROVE  ExchangesStayInTheirSession'
<1> DEFINE M == MessagesUpTo(limit)
           W == WindowsUpTo(limit)
<1>0. /\ windows \in Seq(W) /\ store \in [Sessions -> Seq(M)] /\ Len(windows) \in Nat
      /\ held \in [C -> 0..Len(windows)]
      /\ CallOf(limit, c)
      /\ \A s \in Sessions : ApartFrom(store[s], s)
      /\ \A i \in 1..Len(windows) : ApartFrom(windows[i].messages, windows[i].session)
  <2>1. /\ windows \in Seq(W) /\ store \in [Sessions -> Seq(M)] /\ Len(windows) \in Nat
        /\ held \in [C -> 0..Len(windows)] /\ DOMAIN windows = 1..Len(windows)
        /\ CallOf(limit, c)
    BY DEF Types, CallsOf
  <2>2. \A i \in 1..Len(windows) : windows[i] \in Range(windows)
    BY <2>1 DEF Range
  <2> QED
    BY <2>1, <2>2 DEF ExchangesStayInTheirSession, ApartFrom
<1>1. ASSUME NEW w \in W PROVE w.messages \in Seq(M) /\ w.session \in Sessions
               /\ w.hasRole \in BOOLEAN
  BY DEF WindowsUpTo
<1>2. \A i \in 1..Len(windows) : windows[i] \in W
  BY <1>0
<1> HIDE DEF M, W
<1>3. \A i \in 1..Len(windows') : ApartFrom(windows'[i].messages, windows'[i].session)
  <2>1. CASE windows' = windows
    BY <1>0, <2>1
  <2>2. ASSUME NEW w \in W, Grown(limit, w), NEW i \in 1..Len(windows')
        PROVE  ApartFrom(windows'[i].messages, windows'[i].session)
    <3>1. windows'[i] = IF i = Len(windows) + 1 THEN w ELSE windows[i]
      BY <1>0, <2>2 DEF Grown
    <3>2. Len(windows') = Len(windows) + 1
      BY <1>0, <2>2 DEF Grown
    <3>3. CASE i = Len(windows) + 1
      <4>1. windows'[i].messages = <<>>
        BY <2>2, <3>1, <3>3 DEF Grown
      <4>2. DOMAIN <<>> = {}
        OBVIOUS
      <4> QED
        BY <4>1, <4>2 DEF ApartFrom
    <3>4. CASE i # Len(windows) + 1
      <4>1. i \in 1..Len(windows)
        BY <1>0, <3>2, <3>4
      <4> QED
        BY <1>0, <3>1, <3>4, <4>1
    <3> QED
      BY <3>3, <3>4
  <2>3. ASSUME NEW i \in 1..Len(windows), NEW w \in W, Written(i, w, c), NEW j \in 1..Len(windows')
        PROVE  ApartFrom(windows'[j].messages, windows'[j].session)
    <3>1. j \in 1..Len(windows) /\ windows'[j] = IF j = i THEN w ELSE windows[j]
      BY <1>0, <2>3 DEF Written
    <3> DEFINE v == windows[i]
    <3>2. w.session = v.session /\ w.messages \in Seq(M) /\ v.messages \in Seq(M)
      BY <1>1, <1>2, <2>3 DEF Written
    <3>3. ApartFrom(v.messages, v.session)
      BY <1>0
    <3>4. CASE IsEndOf(w.messages, v.messages)
      <4>1. ApartFrom(w.messages, v.session)
        BY <3>2, <3>3, <3>4, ApartEnd
      <4> QED
        BY <1>0, <3>1, <3>2, <4>1
    <3>5. CASE /\ pc[c] \in {"add", "stepAdd"} /\ w.messages = Append(v.messages, msg[c])
               /\ i = (IF pc[c] = "add" THEN held[c] ELSE current)
      <4>1. /\ msg[c] \in M
            /\ msg[c].role \in {"step", "tool"} \/ msg[c].of = v.session
        BY <1>0, <3>5 DEF CallOf, M
      <4>2. ApartFrom(w.messages, v.session)
        BY <3>2, <3>3, <3>5, <4>1, ApartAppend
      <4> QED
        BY <1>0, <3>1, <3>2, <4>2
    <3> QED
      BY <2>3, <3>4, <3>5 DEF Written
  <2> QED
    BY <2>1, <2>2, <2>3, WindowsStep DEF W
<1>4. ASSUME NEW s \in Sessions, NEW m \in M, NEW hasName \in BOOLEAN, StoreAppend(s, m, hasName),
             m.role \in {"step", "tool"} \/ m.of = s, NEW t \in Sessions
      PROVE  ApartFrom(store'[t], t)
  <2>1. store'[t] = IF t = s THEN Append(store[s], m) ELSE store[t]
    BY <1>4, StoreAppendTypes DEF M
  <2>2. ApartFrom(Append(store[s], m), s)
    <3>1. store[s] \in Seq(M) /\ ApartFrom(store[s], s)
      BY <1>0
    <3> QED
      BY <1>4, <3>1, ApartAppend
  <2> QED
    BY <1>0, <2>1, <2>2
<1>5. \A t \in Sessions : ApartFrom(store'[t], t)
  <2>1. CASE AppendToStore(c)
    <3>1. /\ StoreAppend(session[c], msg[c], TRUE)
          /\ session[c] \in Sessions /\ msg[c] \in M /\ msg[c].of = session[c]
      BY <1>0, <2>1 DEF AppendToStore, CallOf, M
    <3> QED
      BY <1>4, <3>1
  <2>2. CASE AppendStep(c)
    <3> DEFINE w == windows[held[c]]
    <3>1. /\ StoreAppend(w.session, msg[c], w.hasRole)
          /\ msg[c] \in M /\ msg[c].role \in {"step", "tool"} /\ held[c] \in 1..Len(windows)
      BY <1>0, <2>2 DEF AppendStep, CallOf, M
    <3>2. w.session \in Sessions /\ w.hasRole \in BOOLEAN
      BY <1>1, <1>2, <3>1
    <3> HIDE DEF w
    <3> QED
      BY <1>4, <3>1, <3>2
  <2>3. CASE store' = store
    BY <1>0, <2>3
  <2>4. AppendToStore(c) \/ AppendStep(c) \/ store' = store
    BY DEF StepUpTo, AskUpTo, PersistStepUpTo, AnswerUpTo, BindWindow, MakeWindow, AddToWindow,
           Think, RecordResult, AddContextMessage, NoAnswer, SlideAndReturn, AnySession, agentVars
  <2> QED
    BY <2>1, <2>2, <2>3, <2>4
<1>6. ASSUME NEW w \in Range(windows') PROVE ApartFrom(w.messages, w.session)
  <2>1. DOMAIN windows' = 1..Len(windows')
    BY WindowsKept
  <2>2. PICK i \in 1..Len(windows') : w = windows'[i]
    BY <2>1 DEF Range
  <2> QED
    BY <1>3, <2>2
<1> QED
  BY <1>5, <1>6 DEF ExchangesStayInTheirSession, ApartFrom

LEMMA EndTransitive ==
  ASSUME NEW E, NEW r \in Seq(E), NEW s \in Seq(E), NEW t \in Seq(E), IsEndOf(r, s), IsEndOf(s, t)
  PROVE  IsEndOf(r, t)
<1>1. /\ Len(r) \in Nat /\ Len(s) \in Nat /\ Len(t) \in Nat /\ Len(r) <= Len(s) /\ Len(s) <= Len(t)
  BY DEF IsEndOf
<1>2. ASSUME NEW i \in 1..Len(r) PROVE r[i] = t[Len(t) - Len(r) + i]
  <2>1. /\ Len(s) - Len(r) + i \in 1..Len(s)
        /\ Len(t) - Len(s) + (Len(s) - Len(r) + i) = Len(t) - Len(r) + i
    BY <1>1
  <2>2. r[i] = s[Len(s) - Len(r) + i]
    BY DEF IsEndOf
  <2>3. s[Len(s) - Len(r) + i] = t[Len(t) - Len(s) + (Len(s) - Len(r) + i)]
    BY <2>1 DEF IsEndOf
  <2> QED
    BY <2>1, <2>2, <2>3
<1> QED
  BY <1>1, <1>2 DEF IsEndOf

\* With one caller the window it holds is the agent's, and of the session of its
\* call; so are its messages, steps included.
CallerHasWindow(c) ==
  /\ pc[c] \notin {"idle", "bind", "make"} =>
       held[c] = current /\ windows[current].session = session[c]
  /\ pc[c] \in {"bind", "make", "add", "log", "stepAdd", "stepLog"} => msg[c].of = session[c]

LogsAreOfTheirSession == \A s \in Sessions : \A i \in DOMAIN store[s] : store[s][i].of = s

\* Between the two steps that persist it a message is in the window, not in the log.
Pending(c, s) == IF pc[c] \in {"log", "stepLog"} THEN Append(store[s], msg[c]) ELSE store[s]
WindowEndsLog(c) ==
  current # 0 => IsEndOf(windows[current].messages, Pending(c, windows[current].session))

\* The one caller finds the window of its session when it persists.
LEMMA CallerHasWindowStep ==
  ASSUME NEW limit \in Nat, NEW c, Types({c}, limit), CallsOf({c}, limit), CallerHasWindow(c),
         StepUpTo(limit, c)
  PROVE  CallerHasWindow(c)'
<1> DEFINE M == MessagesUpTo(limit)
<1>0. /\ pc \in [{c} -> Locations] /\ session \in [{c} -> Sessions \cup {None}]
      /\ msg \in [{c} -> M \cup {None}] /\ held \in [{c} -> 0..Len(windows)]
      /\ Len(windows) \in Nat /\ current \in 0..Len(windows)
      /\ CallOf(limit, c)
  BY DEF Types, CallsOf
<1>1. \A i \in 1..Len(windows) : windows'[i].session = windows[i].session
  BY WindowsKept
<1>2. CASE AskUpTo(limit, c)
  <2>1. PICK s \in Sessions :
          session' = [session EXCEPT ![c] = s] /\ ComposeUpTo(limit, c, s, "user")
    BY <1>2 DEF AskUpTo
  <2>2. msg'[c].of = s
    BY <2>1, ComposeTypes
  <2>3. pc'[c] = "bind" /\ session'[c] = s
    BY <1>0, <1>2, <2>1 DEF AskUpTo, Goto
  <2> QED
    BY <2>2, <2>3 DEF CallerHasWindow
<1>3. CASE BindWindow(c)
  <2>1. UNCHANGED <<windows, current, session, msg>> /\ pc[c] = "bind"
    BY <1>3 DEF BindWindow, agentVars
  <2>2. \/ pc'[c] = "make"
        \/ pc'[c] = "add" /\ held'[c] = current /\ windows[current].session = session[c]
    BY <1>0, <1>3 DEF BindWindow, Goto
  <2> QED
    BY <2>1, <2>2 DEF CallerHasWindow
<1>4. CASE MakeWindow(c)
  <2>1. pc[c] = "make" /\ UNCHANGED <<session, msg>>
    BY <1>4 DEF MakeWindow
  <2>2. pc'[c] = "add" /\ held'[c] = current'
    BY <1>0, <1>4 DEF MakeWindow, Goto
  <2>3. windows'[current'].session = session[c]
    <3> DEFINE w == FreshWindow(session[c], FALSE)
               W == WindowsUpTo(limit)
    <3>1. w \in W /\ w.session = session[c]
      BY <1>0, <2>1 DEF CallOf, FreshWindow, WindowsUpTo
    <3>2. windows \in Seq(W) /\ windows' = Append(windows, w) /\ current' = Len(windows')
      BY <1>4 DEF Types, MakeWindow
    <3> HIDE DEF w, W
    <3>3. windows'[Len(windows')] = w
      BY <3>1, <3>2
    <3> QED
      BY <3>1, <3>2, <3>3
  <2> QED
    BY <2>1, <2>2, <2>3 DEF CallerHasWindow
<1>5. CASE \/ AddToWindow(c) \/ AppendToStore(c) \/ Think(c) \/ RecordResult(c)
           \/ AddContextMessage(c) \/ AppendStep(c)
  <2>1. /\ pc[c] \notin {"idle", "bind", "make"} /\ UNCHANGED <<session, msg, held, current>>
        /\ pc'[c] \notin {"idle", "bind", "make"}
        /\ pc'[c] \in {"add", "log", "stepAdd", "stepLog"} => pc[c] \in {"add", "log",
             "stepAdd", "stepLog"}
    BY <1>0, <1>5 DEF AddToWindow, AppendToStore, Think, RecordResult, AddContextMessage,
         AppendStep, Goto
  <2>2. current \in 1..Len(windows)
    BY <1>0, <2>1 DEF CallOf
  <2>3. windows'[current].session = windows[current].session
    BY <1>1, <2>2
  <2> QED
    BY <2>1, <2>3 DEF CallerHasWindow
<1>6. CASE PersistStepUpTo(limit, c)
  <2>1. pc[c] \in {"step", "tool"} /\ ComposeUpTo(limit, c, session[c], pc[c])
    BY <1>6 DEF PersistStepUpTo
  <2>2. session[c] \in Sessions /\ pc[c] \in {"user", "step", "tool", "assistant"}
    BY <1>0, <2>1 DEF CallOf
  <2>3. msg'[c].of = session[c]
    BY <2>1, <2>2, ComposeTypes
  <2>4. pc'[c] = "stepAdd" /\ held'[c] = current /\ UNCHANGED <<windows, session, current>>
    BY <1>0, <1>6 DEF PersistStepUpTo, Goto
  <2> QED
    BY <2>1, <2>3, <2>4 DEF CallerHasWindow
<1>7. CASE AnswerUpTo(limit, c)
  <2>1. pc[c] = "end" /\ ComposeUpTo(limit, c, session[c], "assistant")
    BY <1>7 DEF AnswerUpTo
  <2>2. session[c] \in Sessions
    BY <1>0, <2>1 DEF CallOf
  <2>3. msg'[c].of = session[c]
    BY <2>1, <2>2, ComposeTypes
  <2>4. pc'[c] = "bind" /\ UNCHANGED session
    BY <1>0, <1>7 DEF AnswerUpTo, Goto
  <2> QED
    BY <2>3, <2>4 DEF CallerHasWindow
<1>8. CASE NoAnswer(c) \/ SlideAndReturn(c) \/ AnySession(c)
  <2>1. pc'[c] = "idle"
    BY <1>0, <1>8 DEF NoAnswer, SlideAndReturn, AnySession, callerVars, Goto
  <2> QED
    BY <2>1 DEF CallerHasWindow
<1> QED
  BY <1>2, <1>3, <1>4, <1>5, <1>6, <1>7, <1>8 DEF StepUpTo

\* What a call appends to the store is of the session it is appended to.
LEMMA SerialAppend ==
  ASSUME NEW limit \in Nat, NEW c, Types({c}, limit), CallsOf({c}, limit), CallerHasWindow(c),
         AppendToStore(c) \/ AppendStep(c)
  PROVE  /\ pc[c] \in {"log", "stepLog"} /\ pc'[c] \notin {"log", "stepLog"}
         /\ current \in 1..Len(windows) /\ UNCHANGED <<windows, current, msg>>
         /\ msg[c] \in MessagesUpTo(limit)
         /\ LET s == windows[current].session
            IN /\ s \in Sessions /\ msg[c].of = s
               /\ \A t \in Sessions : store'[t] = IF t = s THEN Append(store[s],
                    msg[c]) ELSE store[t]
<1> DEFINE s == windows[current].session
<1>0. /\ pc \in [{c} -> Locations] /\ current \in 0..Len(windows) /\ Len(windows) \in Nat
      /\ CallOf(limit, c)
  BY DEF Types, CallsOf
<1>1. /\ pc[c] \in {"log", "stepLog"} /\ UNCHANGED <<windows, current, msg>>
      /\ pc'[c] \notin {"log", "stepLog"}
  BY <1>0 DEF AppendToStore, AppendStep, Goto
<1>2. /\ current \in 1..Len(windows) /\ held[c] = current
      /\ s = session[c] /\ msg[c].of = s
      /\ msg[c] \in MessagesUpTo(limit)
  BY <1>0, <1>1 DEF CallOf, CallerHasWindow
<1>3. s \in Sessions /\ windows[current].hasRole \in BOOLEAN
  <2>1. windows[current] \in WindowsUpTo(limit)
    BY <1>2 DEF Types
  <2> QED
    BY <2>1 DEF WindowsUpTo
<1>4. StoreAppend(s, msg[c], TRUE) \/ StoreAppend(s, msg[c], windows[current].hasRole)
  BY <1>2 DEF AppendToStore, AppendStep
<1> HIDE DEF s
<1>5. \A t \in Sessions : store'[t] = IF t = s THEN Append(store[s], msg[c]) ELSE store[t]
  <2>1. store' = [store EXCEPT ![s] = Append(store[s], msg[c])]
    BY <1>4 DEF StoreAppend
  <2>2. DOMAIN store = Sessions
    BY DEF Types
  <2> QED
    BY <1>3, <2>1, <2>2
<1> QED
  BY <1>1, <1>2, <1>3, <1>5 DEF s

\* The one caller appends to the log of its session alone.
LEMMA LogsStep ==
  ASSUME NEW limit \in Nat, NEW c, Types({c}, limit), CallsOf({c}, limit), CallerHasWindow(c),
         LogsAreOfTheirSession, StepUpTo(limit, c)
  PROVE  LogsAreOfTheirSession'
<1>1. CASE AppendToStore(c) \/ AppendStep(c)
  <2> DEFINE M == MessagesUpTo(limit)
             s == windows[current].session
             m == msg[c]
  <2>1. /\ s \in Sessions /\ m.of = s /\ m \in M
        /\ \A t \in Sessions : store'[t] = IF t = s THEN Append(store[s], m) ELSE store[t]
    BY <1>1, SerialAppend
  <2>2. store[s] \in Seq(M) /\ \A i \in DOMAIN store[s] : store[s][i].of = s
    BY <2>1 DEF Types, LogsAreOfTheirSession
  <2> HIDE DEF M, s, m
  <2>3. \A i \in DOMAIN Append(store[s], m) : Append(store[s], m)[i].of = s
    BY <2>1, <2>2
  <2> QED
    BY <2>1, <2>3 DEF LogsAreOfTheirSession
<1>2. CASE store' = store
  BY <1>2 DEF LogsAreOfTheirSession
<1>3. AppendToStore(c) \/ AppendStep(c) \/ store' = store
  BY DEF StepUpTo, AskUpTo, PersistStepUpTo, AnswerUpTo, BindWindow, MakeWindow, AddToWindow,
         Think, RecordResult, AddContextMessage, NoAnswer, SlideAndReturn, AnySession, agentVars
<1> QED
  BY <1>1, <1>2, <1>3

\* Adding, sliding, binding and logging keep the window the end of its log.
LEMMA WindowEndsLogStep ==
  ASSUME NEW limit \in Nat, NEW c, Types({c}, limit), CallsOf({c}, limit), CallerHasWindow(c),
         WindowEndsLog(c), StepUpTo(limit, c)
  PROVE  WindowEndsLog(c)'
<1> DEFINE M == MessagesUpTo(limit)
           W == WindowsUpTo(limit)
           s == windows[current].session
<1>0. /\ pc \in [{c} -> Locations] /\ current \in 0..Len(windows) /\ Len(windows) \in Nat
      /\ windows \in Seq(W) /\ store \in [Sessions -> Seq(M)]
      /\ held \in [{c} -> 0..Len(windows)]
      /\ CallOf(limit, c)
      /\ \A i \in 1..Len(windows) : windows[i] \in W
  BY DEF Types, CallsOf
<1>1. ASSUME NEW w \in W PROVE w.messages \in Seq(M) /\ w.session \in Sessions
  BY DEF WindowsUpTo
<1> HIDE DEF M, W
<1>2. CASE AskUpTo(limit, c) \/ BindWindow(c) \/ PersistStepUpTo(limit, c)
             \/ AnswerUpTo(limit, c) \/ NoAnswer(c)
  <2>1. /\ UNCHANGED <<windows, current, store>>
        /\ pc[c] \notin {"log", "stepLog"} /\ pc'[c] \notin {"log", "stepLog"}
    BY <1>0, <1>2 DEF AskUpTo, BindWindow, PersistStepUpTo, AnswerUpTo, NoAnswer, agentVars, Goto
  <2> QED
    BY <2>1 DEF WindowEndsLog, Pending
<1>3. CASE Think(c) \/ RecordResult(c) \/ SlideAndReturn(c)
  <2>1. /\ UNCHANGED <<current, store>> /\ current \in 1..Len(windows)
        /\ pc[c] \notin {"log", "stepLog", "add", "stepAdd"} /\ pc'[c] \notin {"log", "stepLog"}
    BY <1>0, <1>3 DEF Think, RecordResult, SlideAndReturn, Goto, CallOf
  <2>2. IsEndOf(windows[current].messages, store[s])
    BY <2>1 DEF WindowEndsLog, Pending
  <2>3. CASE windows' = windows
    BY <2>1, <2>2, <2>3 DEF WindowEndsLog, Pending
  <2>4. ASSUME NEW w \in W, Grown(limit, w) PROVE FALSE
    <3>1. Len(windows') = Len(windows) + 1
      BY <1>0, <2>4 DEF Grown
    <3> QED
      BY <1>0, <2>1, <2>4, <3>1 DEF Grown
  <2>5. ASSUME NEW i \in 1..Len(windows), NEW w \in W, Written(i, w, c)
        PROVE  WindowEndsLog(c)'
    <3>1. windows' = [windows EXCEPT ![i] = w] /\ w.session = windows[i].session
      BY <2>5 DEF Written
    <3>2. IsEndOf(w.messages, windows[i].messages)
      BY <2>1, <2>5 DEF Written
    <3>3. CASE i = current
      <4>1. windows'[current] = w
        BY <1>0, <3>1, <3>3
      <4>2. /\ w.messages \in Seq(M) /\ windows[current].messages \in Seq(M) /\ store[s] \in Seq(M)
        BY <1>0, <1>1, <2>1
      <4>3. IsEndOf(w.messages, store[s])
        BY <2>2, <3>2, <3>3, <4>2, EndTransitive
      <4> QED
        BY <2>1, <3>1, <3>3, <4>1, <4>3 DEF WindowEndsLog, Pending
    <3>4. CASE i # current
      <4>1. windows'[current] = windows[current]
        BY <1>0, <2>1, <3>1, <3>4
      <4> QED
        BY <2>1, <2>2, <4>1 DEF WindowEndsLog, Pending
    <3> QED
      BY <3>3, <3>4
  <2> QED
    BY <2>3, <2>4, <2>5, WindowsStep DEF W
<1>4. CASE AddToWindow(c) \/ AddContextMessage(c)
  <2>1. /\ UNCHANGED <<current, store, msg>> /\ current \in 1..Len(windows)
        /\ pc[c] \notin {"log", "stepLog"} /\ pc'[c] \in {"log", "stepLog"}
        /\ held[c] = current /\ msg[c] \in M
    BY <1>0, <1>4 DEF AddToWindow, AddContextMessage, Goto, CallOf, CallerHasWindow, M
  <2>2. /\ windows'[current].messages = Append(windows[current].messages, msg[c])
        /\ windows'[current].session = s
    <3> DEFINE v == windows[current]
    <3>1. v \in [session : Sessions, hasRole : BOOLEAN, messages : Seq(M), used : Nat]
      BY <1>0, <2>1 DEF W, M, WindowsUpTo
    <3>2. CASE AddToWindow(c)
      <4> DEFINE w == [v EXCEPT !.messages = Append(v.messages, msg[c])]
      <4>1. windows' = [windows EXCEPT ![current] = w]
        BY <2>1, <3>2 DEF AddToWindow
      <4>2. w.messages = Append(v.messages, msg[c]) /\ w.session = v.session
        BY <3>1
      <4> HIDE DEF w, v
      <4>3. windows'[current] = w
        BY <1>0, <2>1, <4>1
      <4> QED
        BY <4>2, <4>3 DEF v
    <3>3. CASE AddContextMessage(c)
      <4> DEFINE w == [v EXCEPT !.messages = Append(v.messages, msg[c]),
                                !.used = v.used + msg[c].tokens]
      <4>1. windows' = [windows EXCEPT ![current] = w]
        BY <1>0, <2>1, <3>1, <3>3 DEF AddContextMessage
      <4>2. w.messages = Append(v.messages, msg[c]) /\ w.session = v.session
        BY <3>1
      <4> HIDE DEF w, v
      <4>3. windows'[current] = w
        BY <1>0, <2>1, <4>1
      <4> QED
        BY <4>2, <4>3 DEF v
    <3> QED
      BY <1>4, <3>2, <3>3
  <2>3. IsEndOf(windows[current].messages, store[s])
    BY <2>1 DEF WindowEndsLog, Pending
  <2>4. windows[current].messages \in Seq(M) /\ store[s] \in Seq(M)
    BY <1>0, <1>1, <2>1
  <2>5. IsEndOf(Append(windows[current].messages, msg[c]), Append(store[s], msg[c]))
    BY <2>1, <2>3, <2>4, EndAppend
  <2> QED
    BY <2>1, <2>2, <2>5 DEF WindowEndsLog, Pending
<1>5. CASE AppendToStore(c) \/ AppendStep(c)
  <2>1. /\ pc[c] \in {"log", "stepLog"} /\ pc'[c] \notin {"log", "stepLog"}
        /\ current \in 1..Len(windows) /\ UNCHANGED <<windows, current, msg>>
        /\ s \in Sessions
        /\ \A t \in Sessions : store'[t] = IF t = s THEN Append(store[s], msg[c]) ELSE store[t]
    BY <1>5, SerialAppend
  <2>2. IsEndOf(windows[current].messages, Append(store[s], msg[c]))
    BY <2>1 DEF WindowEndsLog, Pending
  <2> QED
    BY <2>1, <2>2 DEF WindowEndsLog, Pending
<1>6. CASE MakeWindow(c) \/ AnySession(c)
  <2>1. pc'[c] \notin {"log", "stepLog"} /\ store' = store
    BY <1>0, <1>6 DEF MakeWindow, AnySession, Goto, callerVars
  <2>2. PICK t \in Sessions, b \in BOOLEAN :
          windows' = Append(windows, FreshWindow(t, b)) /\ current' = Len(windows')
    <3>1. MakeWindow(c) => session[c] \in Sessions
      BY <1>0 DEF MakeWindow, CallOf
    <3> QED
      BY <1>6, <3>1 DEF MakeWindow, AnySession
  <2> DEFINE w == FreshWindow(t, b)
  <2>3. w \in W /\ w.session = t /\ w.messages = <<>>
    BY DEF FreshWindow, W, WindowsUpTo
  <2>4. windows'[current'] = w
    <3> HIDE DEF w
    <3> QED
      BY <1>0, <2>2, <2>3 DEF w
  <2>5. IsEndOf(<<>>, store[t])
    BY <1>0, EndsOfItself
  <2> QED
    BY <2>1, <2>3, <2>4, <2>5 DEF WindowEndsLog, Pending
<1> QED
  BY <1>2, <1>3, <1>4, <1>5, <1>6 DEF StepUpTo

=============================================================================
