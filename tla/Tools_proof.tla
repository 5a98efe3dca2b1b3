----------------------------- MODULE Tools_proof -----------------------------
(***************************************************************************)
(* Proofs about what a model can call and what becomes of it (MCTools).    *)
(* A behaviour is of one of the parts and leaves the others as they were,  *)
(* so each part has an invariant of its own, for any value of its          *)
(* constants.  What a fold of ToolOutput or TodoList computes is shown by  *)
(* induction on the number of items it has seen.                           *)
(***************************************************************************)
EXTENDS MCTools, FiniteSetTheorems, WellFoundedInduction, SequenceTheorems, TLAPS

-----------------------------------------------------------------------------
(***************************************************************************)
(* Read by pages.  Every page but the last begins a whole number of limits *)
(* behind the first line; of the lines before it, those that were not      *)
(* shown are on a page that was cut.                                       *)
(***************************************************************************)

\* What was read of a file so far, if the next page begins at this line.
ShownUpTo(next) ==
  \A line \in 1..totalLines :
    /\ line >= next => shown[line] = 0
    /\ line < next  => /\ shown[line] \in {0, 1}
                       /\ shown[line] = 0 => Paged!FirstOfPage(line) \in noted

PagesInv ==
  /\ totalLines \in Nat \ {0} /\ limit \in Nat \ {0}
  /\ offset # 0 => /\ offset = 1 \/ offset < totalLines
                   /\ \E pages \in Nat : offset = 1 + pages * limit
                   /\ ShownUpTo(offset)
  /\ Paged!LinesAreShown

LEMMA PagesInit == ASSUME MCInit, scope = "paged" PROVE PagesInv
<1>1. Paged!Init
  BY DEF MCInit
<1>2. /\ totalLines \in Nat \ {0} /\ limit \in Nat \ {0} /\ offset = 1
      /\ shown = [line \in 1..totalLines |-> 0]
  BY <1>1, MCAssumption DEF Paged!Init, Paged!PagesAssumption
<1>3. offset = 1 + 0 * limit /\ 0 \in Nat
  BY <1>2
<1>4. \A line \in 1..totalLines : line >= offset /\ shown[line] = 0
  BY <1>2
<1>5. ShownUpTo(offset)
  BY <1>2, <1>4 DEF ShownUpTo
<1> QED
  BY <1>2, <1>3, <1>4, <1>5 DEF PagesInv, Paged!LinesAreShown

LEMMA WholePages ==
  ASSUME NEW d \in Nat \ {0}, NEW q \in Nat, NEW r \in 0..(d - 1)
  PROVE  (q * d + r) % d = r
OBVIOUS

\* A line that is not the first of a page is not left out by the test for a
\* further page.
LEMMA PagesStep == ASSUME PagesInv, Paged!Read PROVE PagesInv'
<1> DEFINE endLine == offset + limit - 1
<1>1. PICK pages \in Nat : offset = 1 + pages * limit
  BY DEF PagesInv, Paged!Read
<1>2. /\ totalLines' = totalLines /\ limit' = limit
      /\ totalLines \in Nat \ {0} /\ limit \in Nat \ {0}
      /\ offset = 1 \/ offset < totalLines
      /\ ShownUpTo(offset)
      /\ offset' = IF endLine + 1 < totalLines THEN endLine + 1 ELSE 0
  BY DEF PagesInv, Paged!Read, Paged!HasMore, Paged!NextOffset
<1>3. pages * limit \in Nat /\ offset \in Nat \ {0} /\ endLine \in Nat
  BY <1>1, <1>2
<1>4. PICK lastWhole \in (offset - 1)..endLine :
        /\ shown' = [line \in 1..totalLines |->
                       IF line \in offset..lastWhole THEN shown[line] + 1 ELSE shown[line]]
        /\ noted' = IF lastWhole < endLine /\ lastWhole < totalLines
                    THEN noted \cup {offset} ELSE noted
  BY DEF Paged!Read
<1>5. ASSUME NEW line \in 1..totalLines
      PROVE  Paged!FirstOfPage(line)' = Paged!FirstOfPage(line)
  BY <1>2, <1>5 DEF Paged!FirstOfPage
<1>6. ASSUME NEW line \in 1..totalLines, line <= endLine
      PROVE  shown'[line] \in {0, 1} /\ (shown'[line] = 0 => Paged!FirstOfPage(line) \in noted')
  <2>1. CASE line < offset
    <3>1. shown'[line] = shown[line]
      BY <1>3, <1>4, <2>1
    <3> QED
      BY <1>2, <1>4, <2>1, <3>1 DEF ShownUpTo
  <2>2. CASE line >= offset
    <3>1. shown[line] = 0 /\ shown'[line] = IF line <= lastWhole THEN 1 ELSE 0
      BY <1>2, <1>3, <1>4, <2>2 DEF ShownUpTo
    <3>2. line - 1 = pages * limit + (line - offset) /\ line - offset \in 0..(limit - 1)
      BY <1>1, <1>2, <1>3, <1>6, <2>2
    <3>3. (line - 1) % limit = line - offset
      BY <1>2, <3>2, WholePages
    <3>4. Paged!FirstOfPage(line) = offset
      BY <1>3, <3>3 DEF Paged!FirstOfPage
    <3>5. line > lastWhole => lastWhole < endLine /\ lastWhole < totalLines
      BY <1>2, <1>3, <1>4, <1>6
    <3> QED
      BY <1>3, <1>4, <3>1, <3>4, <3>5
  <2> QED
    BY <1>3, <2>1, <2>2
<1>7. ASSUME NEW line \in 1..totalLines, line > endLine PROVE shown'[line] = 0
  <2>1. line >= offset /\ line \notin offset..lastWhole
    BY <1>2, <1>3, <1>4, <1>7
  <2> QED
    BY <1>2, <1>4, <2>1 DEF ShownUpTo
<1>8. \A line \in 1..totalLines' : shown'[line] \in {0, 1}
  BY <1>2, <1>3, <1>6, <1>7
<1>9. CASE endLine + 1 < totalLines
  <2>1. offset' = 1 + (pages + 1) * limit /\ pages + 1 \in Nat /\ offset' # 0
    BY <1>1, <1>2, <1>3, <1>9
  <2>2. offset' = endLine + 1 /\ offset' < totalLines'
    BY <1>2, <1>9
  <2>3. ShownUpTo(offset)'
    <3> SUFFICES ASSUME NEW line \in 1..totalLines
                 PROVE  /\ line >= endLine + 1 => shown'[line] = 0
                        /\ line < endLine + 1 =>
                             /\ shown'[line] \in {0, 1}
                             /\ shown'[line] = 0 => Paged!FirstOfPage(line)' \in noted'
      BY <1>2, <2>2 DEF ShownUpTo
    <3> QED
      BY <1>2, <1>3, <1>5, <1>6, <1>7
  <2> QED
    BY <1>2, <1>8, <2>1, <2>2, <2>3 DEF PagesInv, Paged!LinesAreShown
<1>10. CASE endLine + 1 >= totalLines
  <2>1. offset' = 0
    BY <1>2, <1>3, <1>10
  <2>2. ASSUME NEW line \in 1..totalLines, shown'[line] = 0
        PROVE  \/ Paged!FirstOfPage(line)' \in noted'
               \/ line = totalLines /\ line > limit /\ Paged!FirstOfPage(line)' = line
    <3>1. CASE line <= endLine
      BY <1>5, <1>6, <2>2, <3>1
    <3>2. CASE line > endLine
      <4>1. line = totalLines /\ line - 1 = endLine
        BY <1>2, <1>3, <1>10, <3>2
      <4>2. line - 1 = (pages + 1) * limit + 0 /\ line > limit
        BY <1>1, <1>2, <1>3, <4>1
      <4>3. (line - 1) % limit = 0
        BY <1>2, <4>2, WholePages
      <4>4. Paged!FirstOfPage(line) = line
        BY <1>2, <4>3 DEF Paged!FirstOfPage
      <4> QED
        BY <1>5, <4>1, <4>2, <4>4
    <3> QED
      BY <1>2, <1>3, <3>1, <3>2
  <2> QED
    BY <1>2, <1>8, <2>1, <2>2 DEF PagesInv, Paged!LinesAreShown
<1> QED
  BY <1>2, <1>3, <1>9, <1>10

-----------------------------------------------------------------------------
(***************************************************************************)
(* strings.Replace.  The places that are replaced are those of the text up *)
(* to the last of them; the first place that is left is behind as many as  *)
(* the limit allows.                                                       *)
(***************************************************************************)

\* FileTools has the operators of FiniteSets through SequencesExt.
LEMMA SameCardinality == \A S : Edited!Cardinality(S) = Cardinality(S)
BY Zenon DEF Cardinality, Edited!Cardinality

LEMMA LeastNatural ==
  ASSUME NEW S \in SUBSET Nat, S # {}
  PROVE  \E n \in S : \A m \in S : n <= m
<1>1. PICK n \in S : \A m \in S : ~(<<m, n>> \in OpToRel(<, Nat))
  BY WFMin, NatLessThanWellFounded
<1>2. \A m \in S : <<m, n>> \in OpToRel(<, Nat) <=> m < n
  BY DEF OpToRel
<1>3. \A m \in S : ~(m < n)
  BY <1>1, <1>2, Zenon
<1> QED
  BY <1>3

LEMMA PlacesAreFinite ==
  ASSUME NEW content, NEW word, NEW i \in Nat
  PROVE  /\ IsFiniteSet(Edited!Places(content, word, i))
         /\ Cardinality(Edited!Places(content, word, i)) \in Nat
         /\ \A S \in SUBSET Edited!Places(content, word, i) :
              IsFiniteSet(S) /\ Cardinality(S) <= Cardinality(Edited!Places(content, word, i))
<1>1. IsFiniteSet(1..i)
  BY FS_Interval
<1>2. IsFiniteSet(Edited!Places(content, word, i))
  BY <1>1, FS_Subset DEF Edited!Places
<1> QED
  BY <1>2, FS_Subset, FS_CardinalityType

LEMMA PlacesGrow ==
  ASSUME NEW content, NEW word, NEW i \in Nat, NEW k \in Nat, i <= k
  PROVE  Cardinality(Edited!Places(content, word, i)) <= Cardinality(Edited!Places(content, word, k))
<1>1. Edited!Places(content, word, i) \subseteq Edited!Places(content, word, k)
  BY DEF Edited!Places
<1> QED
  BY <1>1, PlacesAreFinite

LEMMA OneMorePlace ==
  ASSUME NEW content, NEW word, NEW i \in Nat \ {0}, content[i] = word
  PROVE  /\ i \in Edited!Places(content, word, i)
         /\ Cardinality(Edited!Places(content, word, i)) = Cardinality(Edited!Places(content, word, i - 1)) + 1
<1>1. /\ Edited!Places(content, word, i) = Edited!Places(content, word, i - 1) \cup {i}
      /\ i \notin Edited!Places(content, word, i - 1)
  BY DEF Edited!Places
<1>2. IsFiniteSet(Edited!Places(content, word, i - 1))
  BY PlacesAreFinite
<1> QED
  BY <1>1, <1>2, FS_AddElement

\* What Replaced leaves in each place, with the count written as Places.
LEMMA ReplacedAt ==
  ASSUME NEW content \in Seq(STRING), NEW edit \in Edits
  PROVE  /\ Edited!Replaced(content, edit) \in Seq(STRING)
         /\ DOMAIN Edited!Replaced(content, edit) = 1..Len(content)
         /\ \A i \in 1..Len(content) :
              Edited!Replaced(content, edit)[i] =
                IF content[i] = edit.old
                   /\ (edit.limit = -1 \/ Cardinality(Edited!Places(content, edit.old, i)) <= edit.limit)
                THEN edit.new ELSE content[i]
<1>1. /\ edit.new \in STRING /\ DOMAIN content = 1..Len(content) /\ Len(content) \in Nat
      /\ \A i \in 1..Len(content) : content[i] \in STRING
  BY MCAssumption DEF MCAssumption, Edited!FilesAssumption
<1>2. Edited!Replaced(content, edit) =
        [i \in DOMAIN content |->
           IF content[i] = edit.old
              /\ (edit.limit = -1
                  \/ Edited!Cardinality(Edited!Places(content, edit.old, i)) <= edit.limit)
           THEN edit.new ELSE content[i]]
  BY DEF Edited!Replaced
<1>3. Edited!Replaced(content, edit) \in [1..Len(content) -> STRING]
  BY <1>1, <1>2
<1> QED
  BY <1>1, <1>2, <1>3, SeqDef, SameCardinality

\* What EditsKeepToTheirLimit says of one edit.
KeepsToLimit(content, edit, result) ==
  LET changed == {i \in DOMAIN result : result[i] # content[i]}
      left    == {i \in DOMAIN result : content[i] = edit.old} \ changed
  IN /\ \A i \in changed : content[i] = edit.old /\ result[i] = edit.new
     /\ \A i \in changed, k \in left : i < k
     /\ left = {} \/ Edited!Cardinality(changed) = edit.limit
     /\ edit.limit # -1 => Edited!Cardinality(changed) <= edit.limit

LEMMA ReplacedKeepsToLimit ==
  ASSUME NEW content \in Seq(STRING), NEW edit \in Edits, edit.old # edit.new,
         NEW result, result = Edited!Replaced(content, edit)
  PROVE  KeepsToLimit(content, edit, result)
<1> DEFINE changed == {i \in DOMAIN result : result[i] # content[i]}
           left    == {i \in DOMAIN result : content[i] = edit.old} \ changed
           count == [i \in Nat |-> Cardinality(Edited!Places(content, edit.old, i))]
<1>1. Len(content) \in Nat /\ DOMAIN result = 1..Len(content)
  BY ReplacedAt
<1>2. edit.limit = -1 \/ edit.limit \in Nat \ {0}
  BY MCAssumption DEF MCAssumption, Edited!FilesAssumption
<1>3. \A i \in 1..Len(content) :
        result[i] = IF content[i] = edit.old /\ (edit.limit = -1 \/ count[i] <= edit.limit)
                    THEN edit.new ELSE content[i]
  BY ReplacedAt
<1>4. count \in [Nat -> Nat]
  BY PlacesAreFinite
<1> HIDE DEF count
<1>5. \A i : i \in changed <=> /\ i \in 1..Len(content) /\ content[i] = edit.old
                               /\ edit.limit = -1 \/ count[i] <= edit.limit
  BY <1>1, <1>3
<1> HIDE DEF changed
<1>a. edit.limit \in Int /\ (edit.limit # -1 => edit.limit \in Nat \ {0})
  BY <1>2
<1>c. \A i \in Nat : count[i] \in Nat
  BY <1>4
<1>b. \A i \in Nat : count[i] \in Nat /\ (~(count[i] <= edit.limit) <=> count[i] > edit.limit)
  BY <1>c, <1>a
<1>6. \A i : i \in left <=> /\ i \in 1..Len(content) /\ content[i] = edit.old
                            /\ edit.limit # -1 /\ count[i] > edit.limit
  BY <1>1, <1>5, <1>b
<1> HIDE DEF left
<1>7. \A i \in changed : content[i] = edit.old /\ result[i] = edit.new
  BY <1>3, <1>5
<1>8. ASSUME NEW i \in changed, NEW k \in left PROVE i < k
  <2>1. i \in Nat /\ k \in Nat /\ count[i] <= edit.limit /\ count[k] > edit.limit
        /\ edit.limit \in Nat
    BY <1>1, <1>5, <1>6, <1>a
  <2>2. k <= i => count[k] <= count[i]
    BY <2>1, PlacesGrow DEF count
  <2>3. count[i] \in Nat /\ count[k] \in Nat
    BY <1>b, <2>1
  <2> QED
    BY <2>1, <2>2, <2>3
<1>9. ASSUME edit.limit # -1 PROVE Cardinality(changed) \in Nat /\ Cardinality(changed) <= edit.limit
  <2>1. CASE changed = {}
    BY <1>2, <1>9, <2>1, FS_EmptySet
  <2>2. CASE changed # {}
    <3> DEFINE behind == {n \in Nat : \A i \in changed : i <= n}
    <3>1. Len(content) \in behind
      BY <1>1, <1>5
    <3>2. PICK m \in behind : \A n \in behind : m <= n
      BY <3>1, LeastNatural
    <3>3. m \in changed
      <4>1. SUFFICES ASSUME m \notin changed PROVE FALSE
        OBVIOUS
      <4>2. \A i \in changed : i \in Nat /\ i >= 1 /\ i <= m - 1
        BY <1>5, <3>2, <4>1
      <4>3. m - 1 \in behind
        BY <2>2, <3>2, <4>2
      <4> QED
        BY <3>2, <4>3
    <3>4. changed \subseteq Edited!Places(content, edit.old, m)
      BY <1>5, <3>2 DEF Edited!Places
    <3>5. m \in Nat /\ count[m] <= edit.limit
      BY <1>5, <1>9, <3>2, <3>3
    <3>6. IsFiniteSet(changed) /\ Cardinality(changed) <= count[m]
      BY <3>4, <3>5, PlacesAreFinite DEF count
    <3>7. Cardinality(changed) \in Nat /\ count[m] \in Nat /\ edit.limit \in Int
      BY <1>a, <1>b, <3>5, <3>6, FS_CardinalityType
    <3> QED
      BY <3>5, <3>6, <3>7
  <2> QED
    BY <2>1, <2>2
<1>10. ASSUME left # {} PROVE Cardinality(changed) = edit.limit
  <2>1. left \in SUBSET Nat
    BY <1>6
  <2>2. PICK k \in left : \A n \in left : k <= n
    BY <1>10, <2>1, LeastNatural
  <2>3. /\ k \in Nat \ {0} /\ content[k] = edit.old /\ count[k] > edit.limit
        /\ edit.limit \in Nat /\ k <= Len(content)
    BY <1>1, <1>2, <1>6
  <2>4. changed = Edited!Places(content, edit.old, k - 1)
    <3>1. \A i \in changed : i \in Edited!Places(content, edit.old, k - 1)
      BY <1>5, <1>8, <2>3 DEF Edited!Places
    <3>2. ASSUME NEW i \in Edited!Places(content, edit.old, k - 1) PROVE i \in changed
      <4>1. i \in 1..Len(content) /\ content[i] = edit.old /\ i < k
        BY <1>1, <2>3 DEF Edited!Places
      <4>2. i \notin left
        BY <2>2, <2>3, <4>1
      <4>3. ~(count[i] > edit.limit)
        BY <1>6, <2>3, <4>1, <4>2
      <4> QED
        BY <1>5, <1>b, <4>1, <4>3
    <3> QED
      BY <3>1, <3>2
  <2>5. count[k] = Cardinality(changed) + 1
    BY <2>3, <2>4, OneMorePlace DEF count
  <2>6. Cardinality(changed) \in Nat /\ Cardinality(changed) <= edit.limit
    BY <1>2, <1>9, <2>3
  <2> QED
    BY <2>3, <2>5, <2>6
<1> QED
  BY <1>7, <1>8, <1>9, <1>10, SameCardinality DEF changed, left, KeepsToLimit

-----------------------------------------------------------------------------
(***************************************************************************)
(* FileEdit and Write.  The content a call holds is that of the file for   *)
(* as long as no other call has begun.                                     *)
(***************************************************************************)

InCall(c) == editing[c] # "idle"

\* Every change has a later time, so the time of the last look tells it.
LooksAreDated ==
  \A c \in Threads : /\ looked[c].time <= modified
                     /\ looked[c].time = modified => looked[c].content = file

OneCall == \A c, d \in Threads : InCall(c) /\ InCall(d) => c = d

\* What a call in progress holds, as far as it is an edit, is what is in the
\* file, or was before the file was truncated.
HeldIsCurrent ==
  \A c \in Threads :
    /\ editing[c] = "write" => doing[c].rewrites \/ held[c] = file
    /\ editing[c] = "fill" => file = <<>> /\ (doing[c].rewrites \/ held[c] = expected)

StampedSawIt ==
  \A c \in Threads : doing[c].stamped =>
    /\ editing[c] = "checked" => looked[c].content = file
    /\ editing[c] = "write" => held[c] = looked[c].content

ExpectedIsThere == (\A c \in Threads : editing[c] # "fill") => file = expected

FilesInv ==
  /\ Edited!TypeOK /\ LooksAreDated
  /\ ~disturbed => OneCall /\ HeldIsCurrent /\ StampedSawIt /\ ExpectedIsThere

LEMMA NoEditType ==
  /\ Edited!NoEdit \in [edit : Edits, stamped : BOOLEAN, rewrites : BOOLEAN]
  /\ ~Edited!NoEdit.stamped
<1>1. (CHOOSE edit \in Edits : TRUE) \in Edits
  BY MCAssumption DEF MCAssumption, Edited!FilesAssumption
<1>2. Edited!NoEdit =
        [edit |-> CHOOSE edit \in Edits : TRUE, stamped |-> FALSE, rewrites |-> FALSE]
  BY DEF Edited!NoEdit
<1> QED
  BY <1>1, <1>2

LEMMA FilesInit == ASSUME MCInit PROVE FilesInv
<1> USE MCAssumption DEF MCAssumption, Edited!FilesAssumption
<1>1. Edited!Init
  BY DEF MCInit
<1>2. Edited!NoEdit \in [edit : Edits, stamped : BOOLEAN, rewrites : BOOLEAN]
  BY NoEditType
<1>3. First \in Seq(STRING) /\ 0 \in Nat
  OBVIOUS
<1>4. /\ file = First /\ expected = First /\ modified = 0 /\ disturbed = FALSE
      /\ editing = [c \in Threads |-> "idle"]
      /\ doing = [c \in Threads |-> Edited!NoEdit]
      /\ held = [c \in Threads |-> <<>>]
      /\ looked = [c \in Threads |-> [content |-> First, time |-> 0]]
  BY <1>1 DEF Edited!Init
<1>5. Edited!TypeOK
  <2>1. /\ held \in [Threads -> Seq(STRING)]
        /\ looked \in [Threads -> [content : Seq(STRING), time : Nat]]
    BY <1>3, <1>4
  <2>2. /\ editing \in [Threads -> {"idle", "checked", "write", "fill"}]
        /\ doing \in [Threads -> [edit : Edits, stamped : BOOLEAN, rewrites : BOOLEAN]]
    BY <1>2, <1>4
  <2> QED
    BY <1>3, <1>4, <2>1, <2>2 DEF Edited!TypeOK
<1>6. LooksAreDated /\ OneCall /\ HeldIsCurrent /\ StampedSawIt /\ ExpectedIsThere
  BY <1>3, <1>4, <1>5
  DEF LooksAreDated, OneCall, InCall, HeldIsCurrent, StampedSawIt, ExpectedIsThere, Edited!TypeOK
<1> QED
  BY <1>5, <1>6 DEF FilesInv

LEMMA OutcomeType ==
  ASSUME Edited!TypeOK, NEW c \in Threads, NEW content \in Seq(STRING)
  PROVE  Edited!Outcome(c, content) \in Seq(STRING)
BY ReplacedAt DEF Edited!TypeOK, Edited!Outcome

LEMMA Returns ==
  ASSUME Edited!TypeOK, NEW c \in Threads, Edited!Return(c)
  PROVE  /\ editing' \in [Threads -> {"idle", "checked", "write", "fill"}]
         /\ doing' \in [Threads -> [edit : Edits, stamped : BOOLEAN, rewrites : BOOLEAN]]
         /\ held' \in [Threads -> Seq(STRING)]
         /\ editing'[c] = "idle" /\ ~doing'[c].stamped
         /\ \A d \in Threads \ {c} :
              editing'[d] = editing[d] /\ doing'[d] = doing[d] /\ held'[d] = held[d]
<1>1. <<>> \in Seq(STRING)
  OBVIOUS
<1> QED
  BY <1>1, NoEditType DEF Edited!Return, Edited!TypeOK

\* The steps that leave the file as it is.
LEMMA QuietFilesStep ==
  ASSUME FilesInv, NEW c \in Threads,
         \/ Edited!Look(c) \/ Edited!Check(c) \/ Edited!ReadFile(c) \/ Edited!Write(c)
         \/ Edited!OpenFails(c)
  PROVE  FilesInv'
<1> USE MCAssumption DEF MCAssumption, Edited!FilesAssumption
<1>0. Edited!TypeOK /\ LooksAreDated
  BY DEF FilesInv
<1>a. /\ file \in Seq(STRING) /\ modified \in Nat
      /\ \A d \in Threads : looked[d].time \in Nat
  BY <1>0 DEF Edited!TypeOK
<1>1. CASE Edited!Look(c)
  <2>1. /\ looked' = [looked EXCEPT ![c] = [content |-> file, time |-> modified]]
        /\ UNCHANGED <<file, modified, editing, doing, held, expected, disturbed>>
        /\ editing[c] = "idle"
    BY <1>1 DEF Edited!Look
  <2>2. Edited!TypeOK'
    BY <1>0, <1>a, <2>1 DEF Edited!TypeOK
  <2>3. LooksAreDated'
    BY <1>0, <1>a, <2>1 DEF LooksAreDated, Edited!TypeOK
  <2>4. StampedSawIt => StampedSawIt'
    BY <1>0, <2>1 DEF StampedSawIt, Edited!TypeOK
  <2> QED
    BY <2>1, <2>2, <2>3, <2>4
    DEF FilesInv, OneCall, InCall, HeldIsCurrent, ExpectedIsThere
<1>2. CASE Edited!Check(c)
  <2>1. /\ UNCHANGED <<file, modified, held, looked, expected>>
        /\ editing' = [editing EXCEPT ![c] = "checked"]
        /\ disturbed' = (disturbed \/ Edited!Disturbs)
        /\ editing[c] = "idle"
    BY <1>2 DEF Edited!Check
  <2>2. PICK edit \in Edits, stamped \in BOOLEAN :
          /\ stamped => ~Edited!IsStale(c)
          /\ doing' = [doing EXCEPT
                         ![c] = [edit |-> edit, stamped |-> stamped, rewrites |-> FALSE]]
    BY <1>2 DEF Edited!Check
  <2>3. Edited!TypeOK'
    BY <1>0, <2>1, <2>2 DEF Edited!TypeOK, Edited!Disturbs
  <2>4. LooksAreDated'
    BY <1>0, <2>1 DEF LooksAreDated
  <2>5. stamped => looked[c].content = file
    <3>1. 2 * (looked[c].time \div 2) <= looked[c].time
      BY <1>a
    <3> QED
      BY <1>0, <1>a, <2>2, <3>1 DEF Edited!IsStale, LooksAreDated
  <2>6. ~disturbed' => OneCall'
    BY <1>0, <2>1 DEF Edited!Disturbs, OneCall, InCall
  <2>7. HeldIsCurrent => HeldIsCurrent'
    BY <1>0, <2>1, <2>2 DEF HeldIsCurrent, Edited!TypeOK
  <2>8. StampedSawIt => StampedSawIt'
    BY <1>0, <2>1, <2>2, <2>5 DEF StampedSawIt, Edited!TypeOK
  <2>9. ExpectedIsThere => ExpectedIsThere'
    BY <1>0, <2>1 DEF ExpectedIsThere, Edited!TypeOK
  <2> QED
    BY <2>1, <2>3, <2>4, <2>6, <2>7, <2>8, <2>9 DEF FilesInv
<1>b. ASSUME editing[c] # "fill", Edited!Return(c),
             UNCHANGED <<file, modified, looked, expected, disturbed>>
      PROVE  FilesInv'
  <2>1. Edited!TypeOK'
    BY <1>0, <1>b, Returns DEF Edited!TypeOK
  <2>2. /\ LooksAreDated' /\ (OneCall => OneCall') /\ (ExpectedIsThere => ExpectedIsThere')
    BY <1>0, <1>b, Returns DEF LooksAreDated, OneCall, InCall, ExpectedIsThere
  <2>3. (HeldIsCurrent => HeldIsCurrent') /\ (StampedSawIt => StampedSawIt')
    BY <1>0, <1>b, Returns DEF HeldIsCurrent, StampedSawIt
  <2> QED
    BY <1>b, <2>1, <2>2, <2>3 DEF FilesInv
<1>3. CASE Edited!ReadFile(c)
  <2>1. UNCHANGED <<file, modified, looked, expected, disturbed>> /\ editing[c] = "checked"
    BY <1>3 DEF Edited!ReadFile
  <2>2. CASE /\ held' = [held EXCEPT ![c] = file]
             /\ editing' = [editing EXCEPT ![c] = "write"]
             /\ UNCHANGED doing
    <3>1. Edited!TypeOK'
      BY <1>0, <1>a, <2>1, <2>2 DEF Edited!TypeOK
    <3>2. /\ LooksAreDated' /\ (OneCall => OneCall') /\ (ExpectedIsThere => ExpectedIsThere')
      BY <1>0, <2>1, <2>2 DEF LooksAreDated, OneCall, InCall, ExpectedIsThere, Edited!TypeOK
    <3>3. (HeldIsCurrent => HeldIsCurrent') /\ (StampedSawIt => StampedSawIt')
      BY <1>0, <2>1, <2>2 DEF HeldIsCurrent, StampedSawIt, Edited!TypeOK
    <3> QED
      BY <2>1, <3>1, <3>2, <3>3 DEF FilesInv
  <2> QED
    BY <1>b, <1>3, <2>1, <2>2 DEF Edited!ReadFile
<1>4. CASE Edited!Write(c)
  <2>1. /\ UNCHANGED <<file, modified, looked, expected>>
        /\ editing' = [editing EXCEPT ![c] = "write"]
        /\ doing' = [doing EXCEPT ![c] = [Edited!NoEdit EXCEPT !.rewrites = TRUE]]
        /\ disturbed' = (disturbed \/ Edited!Disturbs)
        /\ editing[c] = "idle"
    BY <1>4 DEF Edited!Write
  <2>2. PICK text \in Texts : held' = [held EXCEPT ![c] = text]
    BY <1>4 DEF Edited!Write
  <2>3. /\ doing'[c] \in [edit : Edits, stamped : BOOLEAN, rewrites : BOOLEAN]
        /\ doing'[c].rewrites /\ ~doing'[c].stamped
    BY <1>0, <2>1 DEF Edited!NoEdit, Edited!TypeOK
  <2>4. Edited!TypeOK'
    BY <1>0, <2>1, <2>2, <2>3 DEF Edited!TypeOK, Edited!Disturbs
  <2>5. LooksAreDated' /\ (~disturbed' => OneCall')
    BY <1>0, <2>1 DEF LooksAreDated, Edited!Disturbs, OneCall, InCall
  <2>6. HeldIsCurrent => HeldIsCurrent'
    BY <1>0, <2>1, <2>2, <2>3 DEF HeldIsCurrent, Edited!TypeOK
  <2>7. StampedSawIt => StampedSawIt'
    BY <1>0, <2>1, <2>2, <2>3 DEF StampedSawIt, Edited!TypeOK
  <2>8. ExpectedIsThere => ExpectedIsThere'
    BY <1>0, <2>1 DEF ExpectedIsThere, Edited!TypeOK
  <2> QED
    BY <2>1, <2>4, <2>5, <2>6, <2>7, <2>8 DEF FilesInv
<1>5. CASE Edited!OpenFails(c)
  BY <1>b, <1>5 DEF Edited!OpenFails
<1> QED
  BY <1>1, <1>2, <1>3, <1>4, <1>5

LEMMA Touched ==
  ASSUME Edited!TypeOK, LooksAreDated, Edited!Touch, looked' = looked
  PROVE  modified' \in Nat /\ LooksAreDated'
<1>1. modified \in Nat /\ \A d \in Threads : looked[d].time \in Nat
  BY DEF Edited!TypeOK
<1>2. modified' \in Nat /\ modified' > modified
  BY <1>1 DEF Edited!Touch
<1> QED
  BY <1>1, <1>2 DEF LooksAreDated

\* A write that ends, wherever it does: what it has written is all there is.
LEMMA WriteEnds ==
  ASSUME FilesInv, NEW c \in Threads, editing[c] = "fill",
         NEW text \in Seq(STRING),
         file' = text \o SubSeq(file, Len(text) + 1, Len(file)),
         Edited!Touch \/ (text = <<>> /\ UNCHANGED modified),
         disturbed => expected' = expected, ~disturbed => expected' = text,
         UNCHANGED <<looked, disturbed>>,
         Edited!Return(c) \/ /\ editing' = [d \in Threads |-> "idle"]
                             /\ doing' = [d \in Threads |-> Edited!NoEdit]
                             /\ held' = [d \in Threads |-> <<>>]
  PROVE  FilesInv'
<1>0. Edited!TypeOK /\ LooksAreDated
  BY DEF FilesInv
<1>1. file \in Seq(STRING) /\ expected \in Seq(STRING) /\ disturbed \in BOOLEAN /\ modified \in Nat
  BY <1>0 DEF Edited!TypeOK
<1>2. file' = text \o SubSeq(file, Len(text) + 1, Len(file))
  OBVIOUS
<1>3. file' \in Seq(STRING) /\ expected' \in Seq(STRING)
  BY <1>1, <1>2
<1>4. modified' \in Nat /\ LooksAreDated'
  <2>1. CASE Edited!Touch
    BY <1>0, <2>1, Touched
  <2>2. CASE text = <<>> /\ UNCHANGED modified
    <3>1. file' = file
      BY <1>1, <1>2, <2>2
    <3> QED
      BY <1>0, <1>1, <2>2, <3>1 DEF LooksAreDated
  <2> QED
    BY <2>1, <2>2
<1>5. <<>> \in Seq(STRING)
  OBVIOUS
<1>6. Edited!TypeOK'
  <2>1. looked' \in [Threads -> [content : Seq(STRING), time : Nat]] /\ disturbed' \in BOOLEAN
    BY <1>0 DEF Edited!TypeOK
  <2>2. /\ editing' \in [Threads -> {"idle", "checked", "write", "fill"}]
        /\ doing' \in [Threads -> [edit : Edits, stamped : BOOLEAN, rewrites : BOOLEAN]]
        /\ held' \in [Threads -> Seq(STRING)]
    <3>1. CASE Edited!Return(c)
      BY <1>0, <3>1, Returns
    <3>2. CASE /\ editing' = [d \in Threads |-> "idle"]
               /\ doing' = [d \in Threads |-> Edited!NoEdit]
               /\ held' = [d \in Threads |-> <<>>]
      BY <1>5, <3>2, NoEditType
    <3> QED
      BY <3>1, <3>2
  <2> QED
    BY <1>3, <1>4, <2>1, <2>2 DEF Edited!TypeOK
<1>7. ASSUME OneCall, HeldIsCurrent, ~disturbed
      PROVE  OneCall' /\ HeldIsCurrent' /\ StampedSawIt' /\ ExpectedIsThere'
  <2>1. \A d \in Threads : editing'[d] = "idle"
    BY <1>0, <1>7, Returns DEF OneCall, InCall
  <2>2. file = <<>> /\ expected' = text
    BY <1>7 DEF HeldIsCurrent
  <2>3. file' = expected'
    BY <1>2, <2>2
  <2> QED
    BY <2>1, <2>3 DEF OneCall, InCall, HeldIsCurrent, StampedSawIt, ExpectedIsThere
<1> QED
  BY <1>4, <1>6, <1>7 DEF FilesInv

\* What a call writes is what it would have written of the content it was to be
\* given, unless calls overlap.
LEMMA OutcomeExpected ==
  ASSUME FilesInv, NEW c \in Threads, editing[c] = "fill"
  PROVE  /\ Edited!Outcome(c, held[c]) \in Seq(STRING)
         /\ ~disturbed => Edited!Outcome(c, expected) = Edited!Outcome(c, held[c])
<1>1. held[c] \in Seq(STRING) /\ Edited!TypeOK
  BY DEF FilesInv, Edited!TypeOK
<1>2. ~disturbed => doing[c].rewrites \/ held[c] = expected
  BY DEF FilesInv, HeldIsCurrent
<1> QED
  BY <1>1, <1>2, OutcomeType DEF Edited!Outcome

\* What a write that breaks has written of a call's outcome.
LEMMA WriteBreaks ==
  ASSUME FilesInv, NEW c \in Threads, Edited!Break(c)
  PROVE  \E text \in Seq(STRING) :
           /\ editing[c] = "fill"
           /\ file' = text \o SubSeq(file, Len(text) + 1, Len(file))
           /\ Edited!Touch \/ (text = <<>> /\ UNCHANGED modified)
           /\ disturbed => expected' = expected
           /\ ~disturbed => expected' = text
<1> DEFINE all == Edited!Outcome(c, held[c])
<1>1. PICK n \in 0..Len(all) :
        /\ file' = Edited!Overwritten(SubSeq(all, 1, n))
        /\ n = 0 => UNCHANGED modified
        /\ n # 0 => Edited!Touch
        /\ Edited!Expect(SubSeq(Edited!Outcome(c, expected), 1, n))
  BY DEF Edited!Break
<1> DEFINE part == SubSeq(all, 1, n)
<1>2. editing[c] = "fill"
  BY DEF Edited!Break
<1>3. all \in Seq(STRING) /\ (~disturbed => Edited!Outcome(c, expected) = all)
  BY <1>2, OutcomeExpected
<1>4. part \in Seq(STRING) /\ (n = 0 => part = <<>>)
  <2> HIDE DEF all
  <2> QED
    BY <1>3
<1>5. disturbed => expected' = expected
  BY <1>1 DEF Edited!Expect
<1>6. ~disturbed => expected' = part
  BY <1>1, <1>3 DEF Edited!Expect
<1>7. file' = part \o SubSeq(file, Len(part) + 1, Len(file))
  BY <1>1 DEF Edited!Overwritten
<1>8. Edited!Touch \/ (part = <<>> /\ UNCHANGED modified)
  BY <1>1, <1>4
<1> HIDE DEF part
<1> QED
  BY <1>2, <1>4, <1>5, <1>6, <1>7, <1>8

\* The steps that change it.
LEMMA FilesChange ==
  ASSUME FilesInv, NEW c \in Threads,
         \/ Edited!Truncate(c) \/ Edited!Fill(c) \/ Edited!FillFails(c)
         \/ \E text \in Texts : Edited!WriteAppend(c, text)
  PROVE  FilesInv'
<1> USE MCAssumption DEF MCAssumption, Edited!FilesAssumption
<1>0. Edited!TypeOK /\ LooksAreDated
  BY DEF FilesInv
<1>a. file \in Seq(STRING) /\ expected \in Seq(STRING) /\ disturbed \in BOOLEAN
  BY <1>0 DEF Edited!TypeOK
<1>1. CASE Edited!Truncate(c)
  <2>1. /\ file' = <<>> /\ Edited!Touch
        /\ editing[c] = "write" /\ editing' = [editing EXCEPT ![c] = "fill"]
        /\ UNCHANGED <<doing, held, looked, expected, disturbed>>
    BY <1>1 DEF Edited!Truncate
  <2>2. Edited!TypeOK' /\ LooksAreDated'
    BY <1>0, <2>1, Touched DEF Edited!TypeOK
  <2>3. ASSUME OneCall, HeldIsCurrent, StampedSawIt, ExpectedIsThere
        PROVE  OneCall' /\ HeldIsCurrent' /\ StampedSawIt' /\ ExpectedIsThere'
    <3>1. /\ \A d \in Threads : d # c => editing[d] = "idle" /\ editing'[d] = "idle"
          /\ editing'[c] = "fill"
      BY <1>0, <2>1, <2>3 DEF OneCall, InCall, Edited!TypeOK
    <3>2. file = expected
      BY <2>1, <2>3, <3>1 DEF ExpectedIsThere
    <3>3. HeldIsCurrent' /\ StampedSawIt'
      BY <2>1, <2>3, <3>1, <3>2 DEF HeldIsCurrent, StampedSawIt
    <3> QED
      BY <3>1, <3>3 DEF OneCall, InCall, ExpectedIsThere
  <2> QED
    BY <2>1, <2>2, <2>3 DEF FilesInv
<1>2. CASE Edited!Fill(c)
  <2> DEFINE text == Edited!Outcome(c, held[c])
  <2>1. /\ file' = text \o SubSeq(file, Len(text) + 1, Len(file)) /\ Edited!Touch
        /\ Edited!Expect(Edited!Outcome(c, expected)) /\ Edited!Return(c)
        /\ editing[c] = "fill" /\ UNCHANGED <<looked, disturbed>>
    BY <1>2 DEF Edited!Fill, Edited!Overwritten
  <2>2. /\ text \in Seq(STRING)
        /\ disturbed => expected' = expected
        /\ ~disturbed => expected' = text
    BY <2>1, OutcomeExpected DEF Edited!Expect
  <2> HIDE DEF text
  <2> QED
    BY <2>1, <2>2, WriteEnds
<1>3. CASE Edited!FillFails(c)
  <2>1. Edited!Break(c) /\ Edited!Return(c) /\ UNCHANGED <<looked, disturbed>>
    BY <1>3 DEF Edited!FillFails
  <2> QED
    BY <2>1, WriteBreaks, WriteEnds
<1>4. ASSUME NEW text \in Texts, Edited!WriteAppend(c, text) PROVE FilesInv'
  <2>1. PICK n \in 1..Len(text) :
          file' = file \o SubSeq(text, 1, n) /\ Edited!Expect(expected \o SubSeq(text, 1, n))
    BY <1>4 DEF Edited!WriteAppend
  <2>2. /\ Edited!Touch
        /\ disturbed' = (disturbed \/ \E d \in Threads : editing[d] # "idle")
        /\ UNCHANGED <<editing, doing, held, looked>>
    BY <1>4 DEF Edited!WriteAppend, Edited!callVars
  <2>3. text \in Seq(STRING) /\ SubSeq(text, 1, n) \in Seq(STRING)
    BY <2>1
  <2>4. /\ disturbed => expected' = expected
        /\ ~disturbed => expected' = expected \o SubSeq(text, 1, n)
    BY <2>1 DEF Edited!Expect
  <2>8. file' \in Seq(STRING) /\ expected' \in Seq(STRING)
    <3> DEFINE part == SubSeq(text, 1, n)
    <3>1. part \in Seq(STRING) /\ file' = file \o part
      BY <2>1, <2>3
    <3>2. expected' = expected \/ expected' = expected \o part
      BY <2>4
    <3> HIDE DEF part
    <3>3. file \o part \in Seq(STRING) /\ expected \o part \in Seq(STRING)
      BY <1>a, <3>1
    <3> QED
      BY <1>a, <3>1, <3>2, <3>3
  <2>5. Edited!TypeOK' /\ LooksAreDated'
    BY <1>0, <2>2, <2>8, Touched DEF Edited!TypeOK
  <2>6. ~disturbed' => ~disturbed /\ \A d \in Threads : editing'[d] = "idle"
    BY <1>a, <2>2
  <2>7. ~disturbed' => file' = expected'
    BY <2>1, <2>2, <2>4, <2>6 DEF FilesInv, ExpectedIsThere
  <2> QED
    BY <2>2, <2>5, <2>6, <2>7
    DEF FilesInv, OneCall, InCall, HeldIsCurrent, StampedSawIt, ExpectedIsThere
<1> QED
  BY <1>1, <1>2, <1>3, <1>4

LEMMA FilesCrash == ASSUME FilesInv, Edited!Crash PROVE FilesInv'
<1>1. /\ editing' = [c \in Threads |-> "idle"]
      /\ doing' = [c \in Threads |-> Edited!NoEdit]
      /\ held' = [c \in Threads |-> <<>>]
      /\ UNCHANGED <<looked, disturbed>>
  BY DEF Edited!Crash
<1>2. CASE (\A c \in Threads : editing[c] # "fill") /\ UNCHANGED <<file, modified, expected>>
  <2>1. <<>> \in Seq(STRING)
    OBVIOUS
  <2>2. Edited!TypeOK' /\ LooksAreDated'
    BY <1>1, <1>2, <2>1, NoEditType DEF FilesInv, Edited!TypeOK, LooksAreDated
  <2> QED
    BY <1>1, <1>2, <2>2
    DEF FilesInv, OneCall, InCall, HeldIsCurrent, StampedSawIt, ExpectedIsThere
<1>3. ASSUME NEW c \in Threads, Edited!Break(c) PROVE FilesInv'
  BY <1>1, <1>3, WriteBreaks, WriteEnds
<1> QED
  BY <1>2, <1>3 DEF Edited!Crash

LEMMA FilesStep == ASSUME FilesInv, Edited!Next PROVE FilesInv'
BY QuietFilesStep, FilesChange, FilesCrash DEF Edited!Next

\* Only the last of the four is about what one call does; it needs no more than
\* the types.
LEMMA FilesInvSuffices ==
  ASSUME FilesInv
  PROVE  /\ Edited!TypeOK /\ Edited!ChangesAddUp /\ Edited!CheckedEditsAreOfWhatWasSeen
         /\ Edited!EditsKeepToTheirLimit
<1>1. Edited!ChangesAddUp
  BY DEF FilesInv, Edited!ChangesAddUp, ExpectedIsThere
<1>2. Edited!CheckedEditsAreOfWhatWasSeen
  BY DEF FilesInv, Edited!CheckedEditsAreOfWhatWasSeen, StampedSawIt
<1>3. Edited!EditsKeepToTheirLimit
  <2> SUFFICES ASSUME NEW c \in Threads, ~doing[c].rewrites,
                      doing[c].edit.old # doing[c].edit.new
               PROVE  LET edit    == doing[c].edit
                          result  == Edited!Outcome(c, held[c])
                          changed == {i \in DOMAIN result : result[i] # held[c][i]}
                          left    == {i \in DOMAIN result : held[c][i] = edit.old} \ changed
                      IN /\ \A i \in changed : held[c][i] = edit.old /\ result[i] = edit.new
                         /\ \A i \in changed, k \in left : i < k
                         /\ left = {} \/ Edited!Cardinality(changed) = edit.limit
                         /\ edit.limit # -1 => Edited!Cardinality(changed) <= edit.limit
    BY DEF Edited!EditsKeepToTheirLimit
  <2>1. held[c] \in Seq(STRING) /\ doing[c].edit \in Edits
    BY DEF FilesInv, Edited!TypeOK
  <2>2. Edited!Outcome(c, held[c]) = Edited!Replaced(held[c], doing[c].edit)
    BY DEF Edited!Outcome
  <2>3. KeepsToLimit(held[c], doing[c].edit, Edited!Outcome(c, held[c]))
    BY <2>1, <2>2, ReplacedKeepsToLimit
  <2> QED
    BY <2>3 DEF KeepsToLimit
<1> QED
  BY <1>1, <1>2, <1>3 DEF FilesInv

\* The other parts do not touch the file, nor its pages.
FilesOfScope ==
  /\ scope = "edited" => FilesInv
  /\ scope = "paged" => PagesInv

LEMMA FilesStay == ASSUME FilesInv, UNCHANGED fileVars PROVE FilesInv'
BY DEF fileVars, FilesInv, Edited!TypeOK, LooksAreDated, OneCall, InCall, HeldIsCurrent,
       StampedSawIt, ExpectedIsThere

LEMMA PagesStay == ASSUME PagesInv, UNCHANGED pageVars PROVE PagesInv'
<1>1. UNCHANGED <<totalLines, limit, offset, shown, noted>>
  BY DEF pageVars
<1>2. \A line : Paged!FirstOfPage(line)' = Paged!FirstOfPage(line)
  BY <1>1 DEF Paged!FirstOfPage
<1>3. \A next : ShownUpTo(next)' = ShownUpTo(next)
  BY <1>1, <1>2 DEF ShownUpTo
<1>4. Paged!LinesAreShown' = Paged!LinesAreShown
  BY <1>1, <1>2 DEF Paged!LinesAreShown
<1> QED
  BY <1>1, <1>3, <1>4 DEF PagesInv

LEMMA FilesOfScopeStep == ASSUME FilesOfScope, [MCNext]_allVars PROVE FilesOfScope'
<1>1. scope' = scope
  BY DEF MCNext, allVars
<1>2. ASSUME scope = "edited" PROVE FilesInv'
  <2>1. FilesInv
    BY <1>2 DEF FilesOfScope
  <2>2. Edited!Next \/ UNCHANGED fileVars
    BY <1>2 DEF MCNext, allVars
  <2> QED
    BY <2>1, <2>2, FilesStep, FilesStay
<1>3. ASSUME scope = "paged" PROVE PagesInv'
  <2>1. PagesInv
    BY <1>3 DEF FilesOfScope
  <2>2. Paged!Read \/ UNCHANGED pageVars
    BY <1>3 DEF MCNext, allVars
  <2> QED
    BY <2>1, <2>2, PagesStep, PagesStay
<1> QED
  BY <1>1, <1>2, <1>3 DEF FilesOfScope

\* For every content, edit and text, and any number of callers: changes of a
\* file by calls of FileEdit and Write that do not overlap add up, one that fails
\* or in which the process ends leaves the old content or a beginning of the new,
\* an edit keeps to its limit of places and, if it is checked, is of what its
\* agent saw.  For every length of a file and of a page: who reads it by pages is
\* shown each line once, but for those of a page that says it is cut, and for a
\* last line alone on its page.
THEOREM FilesStayKept == MCSpec => []FilesAreKept
<1>1. MCInit => FilesOfScope
  BY FilesInit, PagesInit DEF FilesOfScope
<1>2. FilesOfScope /\ [MCNext]_allVars => FilesOfScope'
  BY FilesOfScopeStep
<1>3. FilesOfScope => FilesAreKept
  <2>1. scope = "paged" /\ FilesOfScope => Paged!LinesAreShown
    BY DEF FilesOfScope, PagesInv
  <2> QED
    BY <2>1, FilesInvSuffices DEF FilesOfScope, FilesAreKept
<1> QED
  BY <1>1, <1>2, <1>3, PTL DEF MCSpec

-----------------------------------------------------------------------------
(***************************************************************************)
(* The catalog.  Whoever asks is given a part of the registry, in which    *)
(* each name is that of one tool.                                          *)
(***************************************************************************)

NamesAreUnique == \A x, y \in registry : x.name = y.name => x = y

ListsAreOfRegistry ==
  /\ \A r \in Reactors : cached[r] # None => cached[r] \subseteq registry
  /\ \A t \in Threads : thread[t].list # None => thread[t].list \subseteq registry

CatalogInv == TypeOK /\ NamesAreUnique /\ ListsAreOfRegistry

Lists == (SUBSET Tools) \cup {None}

\* A goroutine that is in a call of one of these reactors, or in none.
CallOf(call, reactors) ==
  /\ call \in [at : {"idle", "invalidate", "register", "look", "build", "listed"},
               reactor : reactors \cup {None}, tool : Tools \cup {None},
               list : Lists, before : SUBSET Tools]
  /\ call.at \in {"invalidate", "register"} => call.tool \in Tools
  /\ call.at \in {"invalidate", "register", "look", "build"} => call.reactor \in reactors

LEMMA IdleIsCall == ASSUME NEW reactors PROVE CallOf(Idle, reactors) /\ Idle.list = None
BY DEF Idle, Call, CallOf, Lists

LEMMA TypeOfThreads ==
  TypeOK <=> /\ registry \subseteq Tools /\ returned \in [Reactors -> SUBSET Tools]
             /\ cached \in [Reactors -> Lists]
             /\ thread = [t \in Threads |-> thread[t]]
             /\ \A t \in Threads : CallOf(thread[t], Reactors)
BY DEF TypeOK, CallOf, Lists

LEMMA CatalogInit == Init => CatalogInv
<1> SUFFICES ASSUME Init PROVE CatalogInv
  OBVIOUS
<1>1. TypeOK
  <2>1. \A t \in Threads : thread[t] = Idle
    BY DEF Init
  <2>2. /\ registry \subseteq Tools /\ returned \in [Reactors -> SUBSET Tools]
        /\ cached \in [Reactors -> Lists]
        /\ thread = [t \in Threads |-> thread[t]]
    BY DEF Init, Lists
  <2> QED
    BY <2>1, <2>2, IdleIsCall, TypeOfThreads
<1> QED
  BY <1>1, IdleIsCall DEF Init, CatalogInv, NamesAreUnique, ListsAreOfRegistry

\* A step replaces the call of one goroutine.
LEMMA CatalogChange ==
  ASSUME CatalogInv, NEW t \in Threads, NEW call, CallOf(call, Reactors),
         thread' = [thread EXCEPT ![t] = call],
         registry' \subseteq Tools, registry \subseteq registry',
         returned' \in [Reactors -> SUBSET Tools],
         NamesAreUnique',
         call.list # None => call.list \subseteq registry',
         cached' \in [Reactors -> Lists],
         \A r \in Reactors : cached'[r] # None => cached'[r] \subseteq registry'
  PROVE  CatalogInv'
<1>1. /\ thread = [u \in Threads |-> thread[u]]
      /\ \A u \in Threads : CallOf(thread[u], Reactors)
  BY TypeOfThreads DEF CatalogInv
<1>2. /\ thread' = [u \in Threads |-> thread'[u]]
      /\ \A u \in Threads : thread'[u] = IF u = t THEN call ELSE thread[u]
  BY <1>1
<1>3. \A u \in Threads : CallOf(thread'[u], Reactors)
  BY <1>1, <1>2
<1>4. thread' \in [Threads -> [at : {"idle", "invalidate", "register", "look", "build", "listed"},
                               reactor : Reactors \cup {None}, tool : Tools \cup {None},
                               list : Lists, before : SUBSET Tools]]
  BY <1>2, <1>3 DEF CallOf
<1>5. TypeOK'
  BY <1>3, <1>4 DEF TypeOK, CallOf, Lists
<1>6. ListsAreOfRegistry'
  BY <1>2 DEF CatalogInv, ListsAreOfRegistry
<1> QED
  BY <1>5, <1>6 DEF CatalogInv

LEMMA CatalogStep == ASSUME CatalogInv, Next PROVE CatalogInv'
<1>1. PICK t \in Threads :
        \/ Invalidate(t) \/ Register(t) \/ Look(t) \/ Build(t) \/ Forget(t)
        \/ \E r \in Reactors : CallList(t, r) \/ \E tool \in Tools : CallRegister(t, r, tool)
  BY DEF Next
<1>2. /\ registry \subseteq Tools /\ returned \in [Reactors -> SUBSET Tools]
      /\ cached \in [Reactors -> Lists]
      /\ CallOf(thread[t], Reactors)
      /\ NamesAreUnique /\ ListsAreOfRegistry
  BY TypeOfThreads DEF CatalogInv
<1>3. CASE Invalidate(t)
  <2> DEFINE call == [thread[t] EXCEPT !.at = "register"]
  <2>1. CallOf(call, Reactors) /\ call.list = thread[t].list
    BY <1>2, <1>3 DEF Invalidate, CallOf
  <2>2. /\ cached' \in [Reactors -> Lists]
        /\ \A r \in Reactors : cached'[r] # None => cached'[r] = cached[r]
    BY <1>2, <1>3 DEF Invalidate, Lists
  <2>3. thread' = [thread EXCEPT ![t] = call] /\ UNCHANGED <<registry, returned>>
    BY <1>3 DEF Invalidate
  <2> HIDE DEF call
  <2> QED
    BY <1>2, <2>1, <2>2, <2>3, CatalogChange DEF NamesAreUnique, ListsAreOfRegistry
<1>4. CASE Register(t)
  <2>1. thread[t].tool \in Tools
    BY <1>2, <1>4 DEF Register, CallOf
  <2>2. /\ registry' \subseteq Tools /\ registry \subseteq registry'
        /\ returned' \in [Reactors -> SUBSET Tools]
    BY <1>2, <1>4, <2>1 DEF Register
  <2>3. NamesAreUnique'
    BY <1>2, <1>4 DEF Register, Namesakes, NamesAreUnique
  <2>4. thread' = [thread EXCEPT ![t] = Idle] /\ cached' = cached
    BY <1>4 DEF Register
  <2>5. \A r \in Reactors : cached'[r] # None => cached'[r] \subseteq registry'
    BY <1>2, <2>2, <2>4 DEF ListsAreOfRegistry
  <2> QED
    BY <1>2, <2>2, <2>3, <2>4, <2>5, IdleIsCall, CatalogChange
<1>5. ASSUME NEW list \in Lists, list # None => list \subseteq registry, Return(t, list),
             UNCHANGED <<registry, returned>>,
             cached' \in [Reactors -> Lists],
             \A r \in Reactors : cached'[r] # None => cached'[r] \subseteq registry
      PROVE  CatalogInv'
  <2> DEFINE call == [thread[t] EXCEPT !.at = "listed", !.list = list]
  <2>1. CallOf(call, Reactors) /\ call.list = list
    BY <1>2, <1>5 DEF CallOf
  <2>2. thread' = [thread EXCEPT ![t] = call]
    BY <1>5 DEF Return
  <2> HIDE DEF call
  <2> QED
    BY <1>2, <1>5, <2>1, <2>2, CatalogChange DEF NamesAreUnique
<1>6. CASE Look(t)
  <2>1. thread[t].reactor \in Reactors
    BY <1>2, <1>6 DEF Look, CallOf
  <2>2. UNCHANGED <<registry, cached, returned>>
    BY <1>6 DEF Look
  <2>3. CASE cached[thread[t].reactor] # None
    BY <1>2, <1>5, <1>6, <2>1, <2>2, <2>3 DEF Look, ListsAreOfRegistry
  <2>4. CASE cached[thread[t].reactor] = None
    <3> DEFINE call == [thread[t] EXCEPT !.at = "build"]
    <3>1. CallOf(call, Reactors) /\ call.list = thread[t].list
      BY <1>2, <2>1 DEF CallOf
    <3>2. thread' = [thread EXCEPT ![t] = call]
      BY <1>6, <2>4 DEF Look
    <3> HIDE DEF call
    <3> QED
      BY <1>2, <2>2, <3>1, <3>2, CatalogChange DEF NamesAreUnique, ListsAreOfRegistry
  <2> QED
    BY <2>3, <2>4
<1>7. CASE Build(t)
  <2> DEFINE r == thread[t].reactor
             list == IF registry = {} THEN None ELSE registry
  <2>1. r \in Reactors /\ list \in Lists /\ (list # None => list \subseteq registry)
    BY <1>2, <1>7 DEF Build, CallOf, Lists
  <2>2. UNCHANGED <<registry, returned>>
    BY <1>7 DEF Build
  <2>3. CASE cached[r] # None
    <3>1. Return(t, cached[r]) /\ cached' = cached
      BY <1>7, <2>3 DEF Build
    <3> QED
      BY <1>2, <1>5, <2>1, <2>2, <3>1 DEF ListsAreOfRegistry
  <2>4. CASE cached[r] = None
    <3>1. Return(t, list) /\ cached' = [cached EXCEPT ![r] = list]
      BY <1>7, <2>4 DEF Build
    <3> HIDE DEF list
    <3>2. /\ cached' \in [Reactors -> Lists]
          /\ \A q \in Reactors : cached'[q] # None => cached'[q] \subseteq registry
      BY <1>2, <2>1, <3>1 DEF ListsAreOfRegistry
    <3> QED
      BY <1>5, <2>1, <2>2, <3>1, <3>2
  <2> QED
    BY <2>3, <2>4
<1>8. CASE Forget(t)
  BY <1>2, <1>8, IdleIsCall, CatalogChange DEF Forget, NamesAreUnique, ListsAreOfRegistry
<1>9. ASSUME NEW r \in Reactors, CallList(t, r) PROVE CatalogInv'
  <2> DEFINE call == [Call("look", r, None) EXCEPT !.before = returned[r]]
  <2>1. CallOf(call, Reactors) /\ call.list = None
    BY <1>2 DEF Call, CallOf, Lists
  <2>2. thread' = [thread EXCEPT ![t] = call] /\ UNCHANGED <<registry, cached, returned>>
    BY <1>9 DEF CallList
  <2> HIDE DEF call
  <2> QED
    BY <1>2, <2>1, <2>2, CatalogChange DEF NamesAreUnique, ListsAreOfRegistry
<1>10. ASSUME NEW r \in Reactors, NEW tool \in Tools, CallRegister(t, r, tool) PROVE CatalogInv'
  <2> DEFINE call == Call("invalidate", r, tool)
  <2>1. CallOf(call, Reactors) /\ call.list = None
    BY DEF Call, CallOf, Lists
  <2>2. thread' = [thread EXCEPT ![t] = call] /\ UNCHANGED <<registry, cached, returned>>
    BY <1>10 DEF CallRegister
  <2> HIDE DEF call
  <2> QED
    BY <1>2, <2>1, <2>2, CatalogChange DEF NamesAreUnique, ListsAreOfRegistry
<1> QED
  BY <1>1, <1>3, <1>4, <1>6, <1>7, <1>8, <1>9, <1>10

LEMMA OfferedAreThere == CatalogInv => OfferedCanBeCalled
<1> SUFFICES ASSUME CatalogInv, NEW t \in Threads, NEW tool \in OfferedList(t)
             PROVE  Namesakes(tool) = {tool}
  BY DEF OfferedCanBeCalled
<1>1. tool \in registry
  BY DEF OfferedList, CatalogInv, ListsAreOfRegistry
<1> QED
  BY <1>1 DEF Namesakes, CatalogInv, NamesAreUnique

\* In turn: who asks finds nobody who registers, so a list that a reactor keeps
\* has every tool whose registration through it has returned.
InLook(t)     == thread[t].at \in {"look", "build"}
InRegister(t) == thread[t].at \in {"invalidate", "register"}

InTurnTypes ==
  /\ registry \subseteq Tools /\ returned \in [Reactors -> SUBSET registry]
  /\ cached \in [Reactors -> Lists]
  /\ thread = [t \in SomeThreads |-> thread[t]]
  /\ \A t \in SomeThreads : CallOf(thread[t], Reactors)

KeptIsComplete ==
  /\ \A r \in Reactors : cached[r] # None => returned[r] \subseteq cached[r]
  /\ \A t \in SomeThreads : thread[t].at = "register" => cached[thread[t].reactor] = None

InTurnInv ==
  /\ InTurnTypes
  /\ KeptIsComplete
  /\ \A t, u \in SomeThreads : ~ (InLook(t) /\ InRegister(u))
  /\ \A t \in SomeThreads : InLook(t) => thread[t].before \subseteq returned[thread[t].reactor]
  /\ InTurn!RegisteredAreOffered

LEMMA InTurnInit == InTurn!Init => InTurnInv
<1> SUFFICES ASSUME InTurn!Init PROVE InTurnInv
  OBVIOUS
<1>1. InTurn!Idle = Idle
  BY DEF InTurn!Idle, Idle, InTurn!Call, Call
<1>2. \A t \in SomeThreads : thread[t] = Idle
  BY <1>1 DEF InTurn!Init
<1>3. /\ registry = {} /\ returned = [r \in Reactors |-> {}]
      /\ cached = [r \in Reactors |-> None]
      /\ thread = [t \in SomeThreads |-> thread[t]]
  BY <1>1 DEF InTurn!Init
<1>4. InTurnTypes
  BY <1>2, <1>3, IdleIsCall DEF InTurnTypes, Lists
<1>5. KeptIsComplete
  BY <1>2, <1>3 DEF KeptIsComplete, Idle, Call
<1> QED
  BY <1>2, <1>4, <1>5
  DEF Idle, Call, InTurnInv, InLook, InRegister, InTurn!RegisteredAreOffered

\* A step replaces the call of one goroutine.
LEMMA InTurnChange ==
  ASSUME InTurnInv, NEW t \in SomeThreads, NEW call, CallOf(call, Reactors),
         thread' = [thread EXCEPT ![t] = call],
         registry' \subseteq Tools,
         returned' \in [Reactors -> SUBSET registry'],
         \A r \in Reactors : returned[r] \subseteq returned'[r],
         cached' \in [Reactors -> Lists],
         \A r \in Reactors : cached'[r] # None => returned'[r] \subseteq cached'[r],
         \A u \in SomeThreads \ {t} :
           thread[u].at = "register" => cached'[thread[u].reactor] = None,
         call.at = "register" => cached'[call.reactor] = None,
         call.at \in {"invalidate", "register"} => \A u \in SomeThreads \ {t} : ~ InLook(u),
         call.at \in {"look", "build"} => /\ \A u \in SomeThreads \ {t} : ~ InRegister(u)
                                          /\ call.before \subseteq returned'[call.reactor],
         call.at = "listed" => call.before \subseteq IF call.list = None THEN {} ELSE call.list
  PROVE  InTurnInv'
<1>1. /\ thread = [u \in SomeThreads |-> thread[u]]
      /\ \A u \in SomeThreads : CallOf(thread[u], Reactors)
  BY DEF InTurnInv, InTurnTypes
<1>2. /\ thread' = [u \in SomeThreads |-> thread'[u]]
      /\ \A u \in SomeThreads : thread'[u] = IF u = t THEN call ELSE thread[u]
  BY <1>1
<1>3. InTurnTypes'
  BY <1>1, <1>2 DEF InTurnTypes
<1>4. KeptIsComplete'
  BY <1>2 DEF KeptIsComplete
<1>5. (\A u, v \in SomeThreads : ~ (InLook(u) /\ InRegister(v)))'
  BY <1>2 DEF InTurnInv, InLook, InRegister
<1>6. (\A u \in SomeThreads : InLook(u) => thread[u].before \subseteq returned[thread[u].reactor])'
  BY <1>1, <1>2 DEF InTurnInv, InLook, CallOf
<1>7. InTurn!RegisteredAreOffered'
  BY <1>2 DEF InTurnInv, InTurn!RegisteredAreOffered, InTurn!OfferedList
<1> QED
  BY <1>3, <1>4, <1>5, <1>6, <1>7 DEF InTurnInv

LEMMA InTurnStep == ASSUME InTurnInv, InTurn!Next PROVE InTurnInv'
<1>0. InTurn!Tools = Tools /\ InTurn!Idle = Idle
  BY DEF InTurn!Tools, Tools, InTurn!Idle, Idle, InTurn!Call, Call
<1>1. PICK t \in SomeThreads :
        \/ InTurn!Invalidate(t) \/ InTurn!Register(t) \/ InTurn!Look(t) \/ InTurn!Build(t)
        \/ InTurn!Forget(t)
        \/ \E r \in Reactors : \/ InTurn!CallList(t, r)
                              \/ \E tool \in Tools : InTurn!CallRegister(t, r, tool)
  BY <1>0 DEF InTurn!Next
<1>2. /\ registry \subseteq Tools /\ returned \in [Reactors -> SUBSET registry]
      /\ cached \in [Reactors -> Lists]
      /\ CallOf(thread[t], Reactors)
      /\ KeptIsComplete
      /\ \A u, v \in SomeThreads : ~ (InLook(u) /\ InRegister(v))
      /\ InLook(t) => thread[t].before \subseteq returned[thread[t].reactor]
      /\ thread[t].at = "listed" => thread[t].before \subseteq InTurn!OfferedList(t)
  BY DEF InTurnInv, InTurnTypes, InTurn!RegisteredAreOffered
<1>3. CASE InTurn!Invalidate(t)
  <2> DEFINE call == [thread[t] EXCEPT !.at = "register"]
  <2>1. /\ CallOf(call, Reactors) /\ call.at = "register"
        /\ call.reactor = thread[t].reactor /\ call.reactor \in Reactors
    BY <1>2, <1>3 DEF InTurn!Invalidate, CallOf
  <2>2. cached' = [cached EXCEPT ![call.reactor] = None] /\ cached' \in [Reactors -> Lists]
    BY <1>2, <1>3, <2>1 DEF InTurn!Invalidate, Lists
  <2>3. \A u \in SomeThreads : ~ InLook(u)
    BY <1>2, <1>3 DEF InTurn!Invalidate, InRegister
  <2>4. thread' = [thread EXCEPT ![t] = call] /\ UNCHANGED <<registry, returned>>
    BY <1>3 DEF InTurn!Invalidate
  <2>5. /\ \A r \in Reactors : cached'[r] # None => returned'[r] \subseteq cached'[r]
        /\ \A u \in SomeThreads : thread[u].at = "register" => cached'[thread[u].reactor] = None
        /\ cached'[call.reactor] = None
    <3> HIDE DEF call
    <3>1. \A u \in SomeThreads : thread[u].at = "register" => thread[u].reactor \in Reactors
      BY DEF InTurnInv, InTurnTypes, CallOf
    <3> QED
      BY <1>2, <2>1, <2>2, <2>4, <3>1 DEF KeptIsComplete
  <2> HIDE DEF call
  <2> QED
    BY <1>2, <2>1, <2>2, <2>3, <2>4, <2>5, InTurnChange
<1>4. CASE InTurn!Register(t)
  <2> DEFINE q == thread[t].reactor
  <2>1. thread[t].tool \in Tools /\ q \in Reactors /\ cached[q] = None
    BY <1>2, <1>4 DEF InTurn!Register, CallOf, KeptIsComplete
  <2>2. /\ registry' \subseteq Tools /\ registry \subseteq registry'
        /\ \/ returned' = returned
           \/ /\ returned' = [returned EXCEPT ![q] = @ \cup {thread[t].tool}]
              /\ thread[t].tool \in registry'
        /\ cached' = cached /\ thread' = [thread EXCEPT ![t] = Idle]
    BY <1>0, <1>2, <1>4, <2>1 DEF InTurn!Register
  <2> HIDE DEF q
  <2>3. /\ returned' \in [Reactors -> SUBSET registry']
        /\ \A r \in Reactors : returned[r] \subseteq returned'[r]
        /\ \A r \in Reactors \ {q} : returned'[r] = returned[r]
    BY <1>2, <2>1, <2>2
  <2>4. \A r \in Reactors : cached'[r] # None => returned'[r] \subseteq cached'[r]
    BY <1>2, <2>1, <2>2, <2>3 DEF KeptIsComplete
  <2>5. \A u \in SomeThreads : thread[u].at = "register" => cached'[thread[u].reactor] = None
    BY <1>2, <2>2 DEF KeptIsComplete
  <2>6. Idle.at = "idle"
    BY DEF Idle, Call
  <2> QED
    BY <1>2, <2>2, <2>3, <2>4, <2>5, <2>6, IdleIsCall, InTurnChange
<1>5. ASSUME NEW list \in Lists, InLook(t), InTurn!Return(t, list),
             thread[t].before \subseteq IF list = None THEN {} ELSE list,
             UNCHANGED <<registry, returned>>,
             cached' \in [Reactors -> Lists],
             \A r \in Reactors : cached'[r] # None => returned[r] \subseteq cached'[r]
      PROVE  InTurnInv'
  <2> DEFINE call == [thread[t] EXCEPT !.at = "listed", !.list = list]
  <2>1. /\ CallOf(call, Reactors) /\ call.at = "listed" /\ call.list = list
        /\ call.before = thread[t].before
    BY <1>2, <1>5 DEF CallOf
  <2>2. thread' = [thread EXCEPT ![t] = call]
    BY <1>5 DEF InTurn!Return
  <2>3. \A u \in SomeThreads : thread[u].at # "register"
    BY <1>2, <1>5 DEF InRegister
  <2> HIDE DEF call
  <2> QED
    BY <1>2, <1>5, <2>1, <2>2, <2>3, InTurnChange
<1>6. CASE InTurn!Look(t)
  <2> DEFINE r == thread[t].reactor
  <2>1. /\ r \in Reactors /\ InLook(t) /\ UNCHANGED <<registry, cached, returned>>
        /\ cached[r] \in Lists
    BY <1>2, <1>6 DEF InTurn!Look, CallOf, InLook
  <2>2. CASE cached[r] # None
    <3>1. InTurn!Return(t, cached[r]) /\ thread[t].before \subseteq cached[r]
      BY <1>2, <1>6, <2>1, <2>2 DEF InTurn!Look, KeptIsComplete
    <3> QED
      BY <1>2, <1>5, <2>1, <2>2, <3>1 DEF KeptIsComplete
  <2>3. CASE cached[r] = None
    <3> DEFINE call == [thread[t] EXCEPT !.at = "build"]
    <3>1. /\ CallOf(call, Reactors) /\ call.at = "build"
          /\ call.before = thread[t].before /\ call.reactor = r
      BY <1>2, <2>1 DEF CallOf
    <3>2. thread' = [thread EXCEPT ![t] = call]
      BY <1>6, <2>1, <2>3 DEF InTurn!Look
    <3> HIDE DEF call
    <3> QED
      BY <1>2, <2>1, <3>1, <3>2, InTurnChange DEF KeptIsComplete
  <2> QED
    BY <2>2, <2>3
<1>7. CASE InTurn!Build(t)
  <2> DEFINE r == thread[t].reactor
             list == IF registry = {} THEN None ELSE registry
  <2>1. /\ r \in Reactors /\ InLook(t) /\ UNCHANGED <<registry, returned>>
        /\ cached[r] \in Lists
    BY <1>2, <1>7 DEF InTurn!Build, CallOf, InLook
  <2>2. CASE cached[r] # None
    <3>1. /\ InTurn!Return(t, cached[r]) /\ cached' = cached
          /\ thread[t].before \subseteq cached[r]
      BY <1>2, <1>7, <2>1, <2>2 DEF InTurn!Build, KeptIsComplete
    <3> QED
      BY <1>2, <1>5, <2>1, <2>2, <3>1 DEF KeptIsComplete
  <2>3. CASE cached[r] = None
    <3>1. InTurn!Return(t, list) /\ cached' = [cached EXCEPT ![r] = list]
      BY <1>7, <2>3 DEF InTurn!Build
    <3>2. /\ list \in Lists
          /\ \A q \in Reactors : returned[q] \subseteq IF list = None THEN {} ELSE list
      <4>1. \A q \in Reactors : returned[q] \subseteq registry
        BY <1>2
      <4> QED
        BY <1>2, <4>1, CatalogAssumption DEF Lists
    <3>3. thread[t].before \subseteq IF list = None THEN {} ELSE list
      BY <1>2, <2>1, <3>2
    <3> HIDE DEF list, r
    <3>4. /\ cached' \in [Reactors -> Lists]
          /\ \A q \in Reactors : cached'[q] # None => returned[q] \subseteq cached'[q]
      BY <1>2, <2>1, <3>1, <3>2 DEF KeptIsComplete
    <3> QED
      BY <1>5, <2>1, <3>1, <3>2, <3>3, <3>4
  <2> QED
    BY <2>2, <2>3
<1>8. CASE InTurn!Forget(t)
  <2>1. thread' = [thread EXCEPT ![t] = Idle] /\ UNCHANGED <<registry, cached, returned>>
    BY <1>0, <1>8 DEF InTurn!Forget
  <2>2. Idle.at = "idle"
    BY DEF Idle, Call
  <2> QED
    BY <1>2, <2>1, <2>2, IdleIsCall, InTurnChange DEF KeptIsComplete
<1>9. ASSUME NEW r \in Reactors, InTurn!CallList(t, r) PROVE InTurnInv'
  <2> DEFINE call == [Call("look", r, None) EXCEPT !.before = returned[r]]
  <2>1. /\ CallOf(call, Reactors) /\ call.at = "look"
        /\ call.before = returned[r] /\ call.reactor = r
    BY <1>2 DEF Call, CallOf, Lists
  <2>2. thread' = [thread EXCEPT ![t] = call] /\ UNCHANGED <<registry, cached, returned>>
    BY <1>9 DEF InTurn!CallList, InTurn!Call, Call
  <2>3. \A u \in SomeThreads : ~ InRegister(u)
    BY <1>9 DEF InTurn!CallList, InTurn!Registering, InRegister
  <2> HIDE DEF call
  <2> QED
    BY <1>2, <2>1, <2>2, <2>3, InTurnChange DEF KeptIsComplete
<1>10. ASSUME NEW r \in Reactors, NEW tool \in Tools, InTurn!CallRegister(t, r, tool)
       PROVE  InTurnInv'
  <2> DEFINE call == Call("invalidate", r, tool)
  <2>1. CallOf(call, Reactors) /\ call.at = "invalidate"
    BY DEF Call, CallOf, Lists
  <2>2. thread' = [thread EXCEPT ![t] = call] /\ UNCHANGED <<registry, cached, returned>>
    BY <1>10 DEF InTurn!CallRegister, InTurn!Call, Call
  <2>3. \A u \in SomeThreads : ~ InLook(u)
    BY <1>10 DEF InTurn!CallRegister, InTurn!Listing, InLook
  <2> HIDE DEF call
  <2> QED
    BY <1>2, <2>1, <2>2, <2>3, InTurnChange DEF KeptIsComplete
<1> QED
  BY <1>1, <1>3, <1>4, <1>6, <1>7, <1>8, <1>9, <1>10

CatalogOfScope ==
  /\ scope = "catalog" => CatalogInv
  /\ scope = "in turn" => InTurnInv

LEMMA CatalogStays == ASSUME CatalogInv, UNCHANGED vars PROVE CatalogInv'
BY DEF vars, CatalogInv, TypeOK, NamesAreUnique, ListsAreOfRegistry

LEMMA InTurnStays == ASSUME InTurnInv, UNCHANGED vars PROVE InTurnInv'
BY DEF vars, InTurnInv, InTurnTypes, KeptIsComplete, InLook, InRegister,
       InTurn!RegisteredAreOffered, InTurn!OfferedList

LEMMA CatalogOfScopeStep == ASSUME CatalogOfScope, [MCNext]_allVars PROVE CatalogOfScope'
<1>1. scope' = scope
  BY DEF MCNext, allVars
<1>2. ASSUME scope = "catalog" PROVE CatalogInv'
  <2>1. CatalogInv
    BY <1>2 DEF CatalogOfScope
  <2>2. Next \/ UNCHANGED vars
    BY <1>2 DEF MCNext, allVars, otherVars
  <2> QED
    BY <2>1, <2>2, CatalogStep, CatalogStays
<1>3. ASSUME scope = "in turn" PROVE InTurnInv'
  <2>1. InTurnInv
    BY <1>3 DEF CatalogOfScope
  <2>2. InTurn!Next \/ UNCHANGED vars
    BY <1>3 DEF MCNext, allVars, otherVars
  <2> QED
    BY <2>1, <2>2, InTurnStep, InTurnStays
<1> QED
  BY <1>1, <1>2, <1>3 DEF CatalogOfScope

\* For any tools, reactors and goroutines, whatever they register and ask
\* meanwhile: what getLLMTools returns is in the registry, under its name alone.
\* And if nobody asks while RegisterTool is on its way: every tool that had been
\* registered through a reactor is in that reactor's list.
THEOREM OffersAreOfRegistry == MCSpec => []OffersMatchRegistry
<1>1. MCInit => CatalogOfScope
  <2>1. MCInit /\ scope = "catalog" => Init
    BY DEF MCInit
  <2>2. MCInit /\ scope = "in turn" => InTurn!Init
    BY DEF MCInit
  <2> QED
    BY <2>1, <2>2, CatalogInit, InTurnInit DEF CatalogOfScope
<1>2. CatalogOfScope /\ [MCNext]_allVars => CatalogOfScope'
  BY CatalogOfScopeStep
<1>3. CatalogOfScope => OffersMatchRegistry
  BY OfferedAreThere DEF CatalogOfScope, CatalogInv, InTurnInv, OffersMatchRegistry
<1> QED
  BY <1>1, <1>2, <1>3, PTL DEF MCSpec

-----------------------------------------------------------------------------
(***************************************************************************)
(* Naturals, and the greatest of a range.                                  *)
(***************************************************************************)

\* A set with 0 and the successors of its members is all of Nat: a missing
\* number that is least would have a predecessor that is not missing.
LEMMA NaturalSteps ==
  ASSUME NEW S, 0 \in S, \A n \in Nat : n \in S => n + 1 \in S
  PROVE  \A n \in Nat : n \in S
<1> DEFINE Missing == {n \in Nat : n \notin S}
<1> SUFFICES ASSUME Missing # {} PROVE FALSE
  OBVIOUS
<1>1. PICK m \in Missing : \A n \in Missing : m <= n
  <2>1. Missing \in SUBSET Nat
    OBVIOUS
  <2> HIDE DEF Missing
  <2> QED
    BY <2>1, LeastNatural
<1>2. m \in Nat \ {0} /\ m - 1 \in Nat /\ m = (m - 1) + 1
  OBVIOUS
<1>3. m - 1 \in S
  BY <1>1, <1>2
<1> QED
  BY <1>2, <1>3

Greatest(S) == CHOOSE x \in S : \A y \in S : x >= y

\* It is the greatest element of a set of indices.
LEMMA GreatestIsGreatest ==
  ASSUME NEW n \in Nat, NEW S \in SUBSET (1..n), S # {}
  PROVE  Greatest(S) \in S /\ \A x \in S : x <= Greatest(S)
<1> DEFINE Below == {m \in Nat : \E x \in S : m = n - x}
<1>1. PICK b \in Below : \A c \in Below : b <= c
  <2>1. PICK x \in S : TRUE
    OBVIOUS
  <2>2. n - x \in Nat
    OBVIOUS
  <2>3. Below # {}
    BY <2>2
  <2>4. Below \in SUBSET Nat
    OBVIOUS
  <2> HIDE DEF Below
  <2> QED
    BY <2>3, <2>4, LeastNatural
<1>2. PICK x \in S : b = n - x
  OBVIOUS
<1>3. ASSUME NEW y \in S PROVE x >= y
  <2>1. n - y \in Below
    OBVIOUS
  <2>2. n - x <= n - y
    BY <1>1, <1>2, <2>1
  <2>3. x \in Int /\ y \in Int
    OBVIOUS
  <2> QED
    BY <2>2, <2>3
<1>4. Greatest(S) \in S /\ \A y \in S : Greatest(S) >= y
  BY <1>3 DEF Greatest
<1>5. ASSUME NEW y \in S PROVE y <= Greatest(S)
  <2>1. Greatest(S) >= y /\ Greatest(S) \in 1..n /\ y \in 1..n
    BY <1>4, Zenon
  <2> QED
    BY <2>1
<1> QED
  BY <1>4, <1>5

LEMMA GreatestOfRange ==
  ASSUME NEW k \in Nat, k # 0
  PROVE  Greatest(1..k) = k /\ (1..k) \ {k} = 1..(k - 1)
<1>1. k \in 1..k
  OBVIOUS
<1>2. Greatest(1..k) \in 1..k /\ k <= Greatest(1..k)
  BY <1>1, GreatestIsGreatest
<1>3. (1..k) \ {k} = 1..(k - 1)
  OBVIOUS
<1> QED
  BY <1>2, <1>3

(***************************************************************************)
(* Folds.  FoldLeft is the value at the domain of a sequence of a function *)
(* on the subsets of that domain, which is chosen among those that satisfy *)
(* its equation.  There is one, so that the chosen one has the equation.   *)
(***************************************************************************)

Iterates(f, V, op, base, seq) ==
  /\ f \in [SUBSET (1..Len(seq)) -> V]
  /\ \A s \in SUBSET (1..Len(seq)) :
       f[s] = IF s = {} THEN base ELSE op[<<f[s \ {Greatest(s)}], seq[Greatest(s)]>>]

LEMMA IterationExists ==
  ASSUME NEW V, NEW E, NEW op \in [V \X E -> V], NEW base \in V, NEW seq \in Seq(E)
  PROVE  \E f : Iterates(f, V, op, base, seq)
<1> DEFINE Upto(n) == \E f \in [SUBSET (1..n) -> V] :
                        \A s \in SUBSET (1..n) :
                          f[s] = IF s = {} THEN base ELSE op[<<f[s \ {Greatest(s)}], seq[Greatest(s)]>>]
           Reached == {n \in Nat : n > Len(seq) \/ Upto(n)}
<1>0. Len(seq) \in Nat /\ \A k \in 1..Len(seq) : seq[k] \in E
  OBVIOUS
<1>1. Upto(0)
  <2>1. SUBSET (1..0) = {{}}
    OBVIOUS
  <2>2. [s \in SUBSET (1..0) |-> base] \in [SUBSET (1..0) -> V]
    OBVIOUS
  <2> QED
    BY <2>1, <2>2
<1>2. ASSUME NEW n \in Nat, Upto(n), n + 1 <= Len(seq) PROVE Upto(n + 1)
  <2>1. PICK f \in [SUBSET (1..n) -> V] :
          \A s \in SUBSET (1..n) :
            f[s] = IF s = {} THEN base ELSE op[<<f[s \ {Greatest(s)}], seq[Greatest(s)]>>]
    BY <1>2
  <2> DEFINE g == [s \in SUBSET (1..(n + 1)) |->
                     IF s = {} THEN base ELSE op[<<f[s \ {Greatest(s)}], seq[Greatest(s)]>>]]
  <2>2. ASSUME NEW s \in SUBSET (1..(n + 1)), s # {}
        PROVE  /\ s \ {Greatest(s)} \in SUBSET (1..n)
               /\ Greatest(s) \in 1..(n + 1)
    <3>1. n + 1 \in Nat
      OBVIOUS
    <3>2. Greatest(s) \in s /\ \A x \in s : x <= Greatest(s)
      BY <2>2, <3>1, GreatestIsGreatest
    <3> HIDE DEF g
    <3>3. ASSUME NEW x \in s, x # Greatest(s) PROVE x \in 1..n
      <4>1. x \in 1..(n + 1) /\ Greatest(s) \in 1..(n + 1)
        BY <3>2
      <4>2. x <= Greatest(s) /\ x # Greatest(s)
        BY <3>2, <3>3
      <4> QED
        BY <4>1, <4>2
    <3> QED
      BY <3>2, <3>3
  <2>3. ASSUME NEW s \in SUBSET (1..(n + 1)), s # {}
        PROVE  op[<<f[s \ {Greatest(s)}], seq[Greatest(s)]>>] \in V
    <3>1. s \ {Greatest(s)} \in SUBSET (1..n) /\ Greatest(s) \in 1..(n + 1)
      BY <2>2, <2>3
    <3>2. Greatest(s) \in 1..Len(seq)
      BY <1>0, <1>2, <3>1
    <3>3. f[s \ {Greatest(s)}] \in V /\ seq[Greatest(s)] \in E
      BY <1>0, <2>1, <3>1, <3>2
    <3> QED
      BY <3>3
  <2>4. g \in [SUBSET (1..(n + 1)) -> V]
    BY <2>3
  <2>5. ASSUME NEW s \in SUBSET (1..n) PROVE g[s] = f[s]
    <3>1. s \in SUBSET (1..(n + 1))
      OBVIOUS
    <3> QED
      BY <2>1, <3>1
  <2>6. ASSUME NEW s \in SUBSET (1..(n + 1))
        PROVE  g[s] = IF s = {} THEN base ELSE op[<<g[s \ {Greatest(s)}], seq[Greatest(s)]>>]
    BY <2>2, <2>5
  <2> HIDE DEF g
  <2> QED
    BY <2>4, <2>6
<1>3. ASSUME NEW n \in Nat, n \in Reached PROVE n + 1 \in Reached
  <2> HIDE DEF Upto
  <2>1. CASE n + 1 > Len(seq)
    BY <2>1
  <2>2. CASE n + 1 <= Len(seq)
    <3>1. ~(n > Len(seq))
      BY <1>0, <2>2
    <3>2. Upto(n)
      BY <1>3, <3>1
    <3> QED
      BY <1>2, <2>2, <3>2
  <2> QED
    BY <1>0, <2>1, <2>2
<1>4. Len(seq) \in Reached
  <2>1. 0 \in Reached
    BY <1>1
  <2> HIDE DEF Reached
  <2> QED
    BY <1>0, <1>3, <2>1, NaturalSteps
<1>5. Upto(Len(seq))
  <2> HIDE DEF Upto
  <2> QED
    BY <1>0, <1>4
<1> QED
  BY <1>5 DEF Iterates


-----------------------------------------------------------------------------
(***************************************************************************)
(* The budget of output.  CountedSize of the results of a cycle is never   *)
(* more than charsUsed, and without asynchronous tools it is charsUsed.    *)
(***************************************************************************)

CountsOf(E) == \A e \in E : e.size \in Nat

\* CountedSize is the last of the partial sums.
LEMMA CountedSteps ==
  ASSUME NEW E, CountsOf(E), NEW rs \in Seq(E)
  PROVE  \E h : /\ h[0] = 0
                /\ \A k \in 1..Len(rs) :
                     h[k] = IF rs[k].rest = "unlimited" THEN h[k - 1] ELSE h[k - 1] + rs[k].size
                /\ Sync!CountedSize(rs) = h[Len(rs)]
<1> DEFINE Equation(f) ==
             f = [s \in SUBSET DOMAIN rs |->
                    IF s = {} THEN 0
                    ELSE IF rs[Greatest(s)].rest = "unlimited" THEN f[s \ {Greatest(s)}]
                         ELSE f[s \ {Greatest(s)}] + rs[Greatest(s)].size]
           op == [p \in Nat \X E |-> IF p[2].rest = "unlimited" THEN p[1] ELSE p[1] + p[2].size]
           iter == CHOOSE f : Equation(f)
<1>0. Len(rs) \in Nat /\ DOMAIN rs = 1..Len(rs) /\ \A k \in 1..Len(rs) : rs[k] \in E
  OBVIOUS
<1>1. \E f : Equation(f)
  <2>1. op \in [Nat \X E -> Nat]
    BY DEF CountsOf
  <2>2. \A v \in Nat, e \in E : op[<<v, e>>] = IF e.rest = "unlimited" THEN v ELSE v + e.size
    OBVIOUS
  <2> HIDE DEF op, Equation, iter
  <2>3. PICK f : Iterates(f, Nat, op, 0, rs)
    BY <2>1, IterationExists
  <2>4. ASSUME NEW s \in SUBSET (1..Len(rs)), s # {}
        PROVE  op[<<f[s \ {Greatest(s)}], rs[Greatest(s)]>>]
                 = IF rs[Greatest(s)].rest = "unlimited" THEN f[s \ {Greatest(s)}]
                   ELSE f[s \ {Greatest(s)}] + rs[Greatest(s)].size
    <3>1. Greatest(s) \in 1..Len(rs)
      BY <1>0, <2>4, GreatestIsGreatest
    <3>2. rs[Greatest(s)] \in E /\ f[s \ {Greatest(s)}] \in Nat
      BY <1>0, <2>3, <3>1 DEF Iterates
    <3> QED
      BY <2>2, <3>2
  <2>5. Equation(f)
    BY <1>0, <2>3, <2>4 DEF Equation, Iterates
  <2> QED
    BY <2>5
<1>2. Equation(iter)
  <2> HIDE DEF Equation
  <2> QED
    BY <1>1
<1>3. Sync!CountedSize(rs) = iter[DOMAIN rs]
  BY DEF Sync!CountedSize, Sync!FoldLeft, Sync!MapThenFoldSet, Sync!Max, Greatest
<1> HIDE DEF iter
<1> DEFINE h == [n \in 0..Len(rs) |-> iter[1..n]]
<1>4. h[0] = 0
  <2>1. 1..0 = {} /\ {} \in SUBSET DOMAIN rs
    OBVIOUS
  <2> QED
    BY <1>0, <1>2, <2>1
<1>5. ASSUME NEW k \in 1..Len(rs)
      PROVE  h[k] = IF rs[k].rest = "unlimited" THEN h[k - 1] ELSE h[k - 1] + rs[k].size
  <2>1. k \in Nat /\ k # 0 /\ k \in 1..k /\ 1..k \subseteq 1..Len(rs)
    BY <1>0
  <2>2. Greatest(1..k) = k /\ (1..k) \ {k} = 1..(k - 1)
    BY <2>1, GreatestOfRange
  <2>3. iter[1..k] = IF rs[k].rest = "unlimited" THEN iter[1..(k - 1)] ELSE iter[1..(k - 1)] + rs[k].size
    <3>1. 1..k \in SUBSET DOMAIN rs /\ 1..k # {}
      BY <1>0, <2>1
    <3> HIDE DEF h
    <3> QED
      BY <1>2, <2>2, <3>1
  <2> HIDE DEF Equation
  <2> QED
    BY <1>0, <2>1, <2>3
<1>6. Sync!CountedSize(rs) = h[Len(rs)]
  BY <1>0, <1>3
<1> HIDE DEF h
<1> QED
  BY <1>4, <1>5, <1>6

\* A result that is added is counted behind the others.
LEMMA CountedAppend ==
  ASSUME NEW E, CountsOf(E), NEW rs \in Seq(E), NEW res \in E
  PROVE  /\ Sync!CountedSize(rs) \in Nat
         /\ Sync!CountedSize(Append(rs, res))
              = Sync!CountedSize(rs) + IF res.rest = "unlimited" THEN 0 ELSE res.size
<1> DEFINE more == Append(rs, res)
<1>0. /\ Len(rs) \in Nat /\ more \in Seq(E) /\ Len(more) = Len(rs) + 1
      /\ \A k \in 1..Len(rs) : more[k] = rs[k] /\ rs[k] \in E
      /\ more[Len(rs) + 1] = res
  OBVIOUS
<1>1. PICK h : /\ h[0] = 0
               /\ \A k \in 1..Len(rs) :
                    h[k] = IF rs[k].rest = "unlimited" THEN h[k - 1] ELSE h[k - 1] + rs[k].size
               /\ Sync!CountedSize(rs) = h[Len(rs)]
  BY CountedSteps
<1>2. PICK g : /\ g[0] = 0
               /\ \A k \in 1..Len(more) :
                    g[k] = IF more[k].rest = "unlimited" THEN g[k - 1] ELSE g[k - 1] + more[k].size
               /\ Sync!CountedSize(more) = g[Len(more)]
  BY <1>0, CountedSteps
<1> HIDE DEF more
<1> DEFINE Same == {n \in Nat : n > Len(rs) \/ (h[n] = g[n] /\ h[n] \in Nat)}
<1>3. 0 \in Same
  BY <1>1, <1>2
<1>4. ASSUME NEW n \in Nat, n \in Same PROVE n + 1 \in Same
  <2>1. CASE n + 1 > Len(rs)
    BY <2>1
  <2>2. CASE n + 1 <= Len(rs)
    <3>1. /\ n + 1 \in 1..Len(rs) /\ n + 1 \in 1..Len(more) /\ (n + 1) - 1 = n
          /\ h[n] = g[n] /\ h[n] \in Nat /\ more[n + 1] = rs[n + 1] /\ rs[n + 1] \in E
      BY <1>0, <1>4, <2>2
    <3>2. rs[n + 1].size \in Nat
      BY <3>1 DEF CountsOf
    <3>3. h[n + 1] = IF rs[n + 1].rest = "unlimited" THEN h[n] ELSE h[n] + rs[n + 1].size
      BY <1>1, <3>1
    <3>4. g[n + 1] = IF more[n + 1].rest = "unlimited" THEN g[n] ELSE g[n] + more[n + 1].size
      BY <1>2, <3>1
    <3> QED
      BY <3>1, <3>2, <3>3, <3>4
  <2> QED
    BY <1>0, <2>1, <2>2
<1>5. \A n \in Nat : n \in Same
  <2> HIDE DEF Same
  <2> QED
    BY <1>3, <1>4, NaturalSteps
<1>6. h[Len(rs)] = g[Len(rs)] /\ h[Len(rs)] \in Nat
  BY <1>0, <1>5
<1>7. g[Len(rs) + 1] = IF res.rest = "unlimited" THEN g[Len(rs)] ELSE g[Len(rs)] + res.size
  <2>1. Len(rs) + 1 \in 1..Len(more) /\ (Len(rs) + 1) - 1 = Len(rs)
    BY <1>0
  <2> QED
    BY <1>0, <1>2, <2>1
<1> QED
  BY <1>0, <1>1, <1>2, <1>6, <1>7 DEF more

LEMMA NothingIsCounted == Sync!CountedSize(<<>>) = 0
<1>1. <<>> \in Seq({}) /\ Len(<<>>) = 0 /\ CountsOf({})
  BY DEF CountsOf
<1> QED
  BY <1>1, CountedSteps

LEMMA SameCount == \A rs : Async!CountedSize(rs) = Sync!CountedSize(rs)
BY DEF Sync!CountedSize, Sync!FoldLeft, Sync!MapThenFoldSet, Sync!Max,
       Async!CountedSize, Async!FoldLeft, Async!MapThenFoldSet, Async!Max

\* What processResult makes of output when this much has been counted.
Processed(res, size, count) ==
  /\ res \in [size : {size}, shown : 0..size, rest : {"none", "file", "lost", "cut"}]
  /\ res.rest = "cut" => count > MaxCycleChars
  /\ count > MaxCycleChars /\ size > MaxResultSize => res.rest = "cut"

LEMMA LimitsAreNaturals ==
  /\ {MaxPersistChars, MaxResultSize, MaxCycleChars} \subseteq Nat \ {0}
  /\ SyncSizes \subseteq Nat /\ AsyncSizes \subseteq Nat
  /\ MaxCycles \in Nat /\ MaxCalls \in Nat
BY MCAssumption DEF MCAssumption, Sync!ToolOutputAssumption, Async!ToolOutputAssumption

LEMMA SyncProcessed ==
  ASSUME NEW size \in Nat, NEW count \in Nat, NEW res \in Sync!ProcessedWithCount(size, count)
  PROVE  Processed(res, size, count)
<1>1. size > MaxPersistChars => MaxPersistChars \div 2 \in 0..size
  BY LimitsAreNaturals
<1>2. size > MaxResultSize => MaxResultSize \in 0..size
  BY LimitsAreNaturals
<1>3. size \in 0..size /\ 0 \in 0..size
  OBVIOUS
<1> QED
  BY <1>1, <1>2, <1>3, LimitsAreNaturals
     DEF Sync!ProcessedWithCount, Sync!Persisted, Sync!Cut, Sync!Result, Processed

LEMMA AsyncProcessed ==
  ASSUME NEW size \in Nat, NEW count \in Nat, NEW res \in Async!ProcessedWithCount(size, count)
  PROVE  Processed(res, size, count)
<1>1. size > MaxPersistChars => MaxPersistChars \div 2 \in 0..size
  BY LimitsAreNaturals
<1>2. size > MaxResultSize => MaxResultSize \in 0..size
  BY LimitsAreNaturals
<1>3. size \in 0..size /\ 0 \in 0..size
  OBVIOUS
<1> QED
  BY <1>1, <1>2, <1>3, LimitsAreNaturals
     DEF Async!ProcessedWithCount, Async!Persisted, Async!Cut, Async!Result, Processed

(***************************************************************************)
(* What both instances keep: a run has launched at most what its cycles    *)
(* have room for, and the count is at least that of the cycle's results.   *)
(***************************************************************************)

ResultsOf(sizes) ==
  [size : sizes \cup {0}, shown : Nat, rest : {"none", "file", "lost", "cut", "unlimited"}]

OutputInv(sizes) ==
  /\ charsUsed \in Nat /\ running \in [{r1} -> Nat]
  /\ pc \in [{r1} -> {"idle", "act"}] /\ cycle \in [{r1} -> 0..MaxCycles]
  /\ results \in [{r1} -> Seq(ResultsOf(sizes))] /\ Len(results[r1]) <= MaxCalls
  /\ \A i \in 1..Len(results[r1]) : results[r1][i].shown \in 0..results[r1][i].size
  /\ \E M : history \in [{r1} -> Seq(M)]
  /\ pc[r1] = "idle" => /\ running[r1] <= MaxCalls * cycle[r1]
                        /\ Len(history[r1]) <= cycle[r1]
  /\ pc[r1] = "act" => /\ running[r1] + (MaxCalls - Len(results[r1])) <= MaxCalls * cycle[r1]
                       /\ Len(history[r1]) < cycle[r1]
  /\ Sync!CountedSize(results[r1]) <= charsUsed

LEMMA ResultsAreCounted == ASSUME NEW sizes \in SUBSET Nat PROVE CountsOf(ResultsOf(sizes))
<1>1. ASSUME NEW res \in ResultsOf(sizes) PROVE res.size \in Nat
  <2>1. res.size \in sizes \cup {0}
    BY DEF ResultsOf
  <2>2. CASE res.size \in sizes
    BY <2>2
  <2>3. CASE res.size = 0
    BY <2>3
  <2> QED
    BY <2>1, <2>2, <2>3
<1> QED
  BY <1>1 DEF CountsOf

LEMMA OutputInit ==
  ASSUME Sync!Init, NEW sizes PROVE OutputInv(sizes)
<1>1. /\ charsUsed = 0 /\ running = [r \in {r1} |-> 0] /\ pc = [r \in {r1} |-> "idle"]
      /\ cycle = [r \in {r1} |-> 0] /\ results = [r \in {r1} |-> <<>>]
      /\ history = [r \in {r1} |-> <<>>]
  BY DEF Sync!Init
<1>2. history \in [{r1} -> Seq({})] /\ MaxCalls * 0 = 0 /\ 0 \in 0..MaxCycles
  BY <1>1, LimitsAreNaturals
<1>3. Sync!CountedSize(results[r1]) = 0
  BY <1>1, NothingIsCounted
<1>4. \E M : history \in [{r1} -> Seq(M)]
  BY <1>2
<1>5. /\ running \in [{r1} -> Nat] /\ pc \in [{r1} -> {"idle", "act"}]
      /\ cycle \in [{r1} -> 0..MaxCycles]
      /\ results \in [{r1} -> Seq(ResultsOf(sizes))] /\ Len(results[r1]) = 0
      /\ running[r1] = 0 /\ cycle[r1] = 0 /\ Len(history[r1]) = 0 /\ pc[r1] = "idle"
  BY <1>1, <1>2
<1> QED
  BY <1>1, <1>2, <1>3, <1>4, <1>5, LimitsAreNaturals DEF OutputInv

\* A cycle begins, with no results and nothing counted.
CycleBegins ==
  /\ pc[r1] = "idle" /\ cycle[r1] < MaxCycles /\ charsUsed' = 0
  /\ pc' = [pc EXCEPT ![r1] = "act"] /\ cycle' = [cycle EXCEPT ![r1] = @ + 1]
  /\ results' = [results EXCEPT ![r1] = <<>>] /\ running' = running
  /\ \E h : history' = [history EXCEPT ![r1] = [i \in DOMAIN history[r1] |-> h[i]]]

LEMMA CyclePreserves ==
  ASSUME NEW sizes \in SUBSET Nat, OutputInv(sizes), CycleBegins
  PROVE  OutputInv(sizes)' /\ results'[r1] = <<>> /\ Sync!CountedSize(results'[r1]) = 0
<1>1. PICK h : history' = [history EXCEPT ![r1] = [i \in DOMAIN history[r1] |-> h[i]]]
  BY DEF CycleBegins
<1>2. PICK M : history \in [{r1} -> Seq(M)]
  BY DEF OutputInv
<1>3. /\ history' \in [{r1} -> Seq({h[i] : i \in 1..Len(history[r1])})]
      /\ Len(history'[r1]) = Len(history[r1]) /\ Len(history[r1]) \in Nat
  <2>1. DOMAIN history[r1] = 1..Len(history[r1]) /\ Len(history[r1]) \in Nat
    BY <1>2
  <2>2. [i \in 1..Len(history[r1]) |-> h[i]] \in Seq({h[i] : i \in 1..Len(history[r1])})
    BY <2>1
  <2> QED
    BY <1>1, <1>2, <2>1, <2>2
<1>4. \E N : history' \in [{r1} -> Seq(N)]
  BY <1>3
<1>5. /\ cycle[r1] \in Nat /\ cycle'[r1] = cycle[r1] + 1 /\ cycle'[r1] \in 0..MaxCycles
      /\ cycle' \in [{r1} -> 0..MaxCycles] /\ pc' \in [{r1} -> {"idle", "act"}]
      /\ pc'[r1] = "act"
  BY LimitsAreNaturals DEF OutputInv, CycleBegins
<1>6. /\ results' \in [{r1} -> Seq(ResultsOf(sizes))] /\ results'[r1] = <<>> /\ Len(results'[r1]) = 0
      /\ running' \in [{r1} -> Nat] /\ running'[r1] = running[r1] /\ charsUsed' = 0
  BY DEF OutputInv, CycleBegins
<1>7. running[r1] + MaxCalls <= MaxCalls * (cycle[r1] + 1)
  <2>1. running[r1] <= MaxCalls * cycle[r1] /\ running[r1] \in Nat
    BY DEF OutputInv, CycleBegins
  <2>2. MaxCalls * (cycle[r1] + 1) = MaxCalls * cycle[r1] + MaxCalls /\ MaxCalls * cycle[r1] \in Nat
    BY <1>5, LimitsAreNaturals
  <2> QED
    BY <2>1, <2>2, LimitsAreNaturals
<1>8. Sync!CountedSize(results'[r1]) = 0
  BY <1>6, NothingIsCounted
<1>9. Len(history[r1]) <= cycle[r1]
  BY DEF OutputInv, CycleBegins
<1> QED
  BY <1>3, <1>4, <1>5, <1>6, <1>7, <1>8, <1>9, LimitsAreNaturals DEF OutputInv

\* A call of the cycle returns: its result is counted or it is not.
ResultAdded(res) ==
  /\ pc[r1] = "act" /\ Len(results[r1]) < MaxCalls
  /\ results' = [results EXCEPT ![r1] = Append(@, res)]
  /\ UNCHANGED <<pc, cycle, history>>

LEMMA AddPreserves ==
  ASSUME NEW sizes \in SUBSET Nat, OutputInv(sizes), NEW res \in ResultsOf(sizes), ResultAdded(res),
         res.shown \in 0..res.size,
         NEW counted \in Nat, charsUsed' = charsUsed + counted,
         res.rest # "unlimited" => counted = res.size,
         running' = running \/ running' = [running EXCEPT ![r1] = @ + 1]
  PROVE  /\ OutputInv(sizes)' /\ charsUsed' \in Nat
         /\ results[r1] \in Seq(ResultsOf(sizes)) /\ results'[r1] = Append(results[r1], res)
         /\ Sync!CountedSize(results'[r1])
              = Sync!CountedSize(results[r1]) + IF res.rest = "unlimited" THEN 0 ELSE res.size
         /\ Sync!CountedSize(results[r1]) \in Nat
<1>1. /\ results[r1] \in Seq(ResultsOf(sizes)) /\ results'[r1] = Append(results[r1], res)
      /\ results' \in [{r1} -> Seq(ResultsOf(sizes))]
      /\ Len(results'[r1]) = Len(results[r1]) + 1 /\ Len(results[r1]) \in Nat
  BY DEF OutputInv, ResultAdded
<1>2. /\ Sync!CountedSize(results'[r1])
           = Sync!CountedSize(results[r1]) + IF res.rest = "unlimited" THEN 0 ELSE res.size
      /\ Sync!CountedSize(results[r1]) \in Nat
  BY <1>1, CountedAppend, ResultsAreCounted
<1>3. res.size \in Nat
  BY ResultsAreCounted DEF CountsOf
<1>4. charsUsed' \in Nat /\ Sync!CountedSize(results'[r1]) <= charsUsed'
  BY <1>2, <1>3 DEF OutputInv
<1>5. \A i \in 1..Len(results'[r1]) : results'[r1][i].shown \in 0..results'[r1][i].size
  <2>1. ASSUME NEW i \in 1..Len(results[r1]) PROVE results'[r1][i] = results[r1][i]
    BY <1>1
  <2>2. results'[r1][Len(results[r1]) + 1] = res
    BY <1>1
  <2>3. \A i \in 1..Len(results[r1]) : results[r1][i].shown \in 0..results[r1][i].size
    BY DEF OutputInv
  <2>4. \A i \in 1..Len(results'[r1]) : i \in 1..Len(results[r1]) \/ i = Len(results[r1]) + 1
    BY <1>1
  <2> QED
    BY <2>1, <2>2, <2>3, <2>4
<1>6. /\ running \in [{r1} -> Nat] /\ running' \in [{r1} -> Nat]
      /\ running'[r1] <= running[r1] + 1 /\ running[r1] \in Nat /\ running'[r1] \in Nat
  BY DEF OutputInv
<1>7. running'[r1] + (MaxCalls - Len(results'[r1])) <= MaxCalls * cycle[r1]
  <2>1. running[r1] + (MaxCalls - Len(results[r1])) <= MaxCalls * cycle[r1]
    BY DEF OutputInv, ResultAdded
  <2> DEFINE room == MaxCalls * cycle[r1]
  <2>2. room \in Nat
    BY LimitsAreNaturals DEF OutputInv
  <2> HIDE DEF room
  <2>3. running'[r1] + (MaxCalls - Len(results'[r1])) <= room
    <3>1. running[r1] + (MaxCalls - Len(results[r1])) <= room
      BY <2>1 DEF room
    <3>2. MaxCalls \in Nat
      BY LimitsAreNaturals
    <3> QED
      BY <1>1, <1>6, <2>2, <3>1, <3>2
  <2> QED
    BY <2>3 DEF room
<1>8. Len(results'[r1]) <= MaxCalls
  BY <1>1, LimitsAreNaturals DEF ResultAdded
<1>9. OutputInv(sizes)'
  BY <1>1, <1>4, <1>5, <1>6, <1>7, <1>8 DEF OutputInv, ResultAdded
<1> QED
  BY <1>1, <1>2, <1>4, <1>9

\* An asynchronous tool ends, whatever the run is at.
LEMMA EndPreserves ==
  ASSUME NEW sizes \in SUBSET Nat, OutputInv(sizes), NEW size \in Nat, running[r1] > 0,
         running' = [running EXCEPT ![r1] = @ - 1], charsUsed' = charsUsed + size,
         UNCHANGED <<pc, cycle, results, history>>
  PROVE  OutputInv(sizes)'
<1>1. /\ running' \in [{r1} -> Nat] /\ running'[r1] <= running[r1]
      /\ running[r1] \in Nat /\ running'[r1] \in Nat
  BY DEF OutputInv
<1>2. results[r1] \in Seq(ResultsOf(sizes))
  BY DEF OutputInv
<1>3. Sync!CountedSize(results[r1]) \in Nat
  <2>1. PICK res : res \in ResultsOf(sizes)
    <3>1. [size |-> 0, shown |-> 0, rest |-> "none"] \in ResultsOf(sizes)
      BY DEF ResultsOf
    <3> QED
      BY <3>1
  <2> QED
    BY <1>2, <2>1, CountedAppend, ResultsAreCounted
<1>4. charsUsed' \in Nat /\ Sync!CountedSize(results[r1]) <= charsUsed'
  BY <1>3 DEF OutputInv
<1>5. Len(results[r1]) \in Nat /\ MaxCalls * cycle[r1] \in Nat
  BY <1>2, LimitsAreNaturals DEF OutputInv
<1>6. /\ pc[r1] = "idle" => running'[r1] <= MaxCalls * cycle[r1]
      /\ pc[r1] = "act" => running'[r1] + (MaxCalls - Len(results[r1])) <= MaxCalls * cycle[r1]
  BY <1>1, <1>5, LimitsAreNaturals DEF OutputInv
<1> QED
  BY <1>1, <1>4, <1>6 DEF OutputInv

\* The results become one message or none.
LEMMA PersistPreserves ==
  ASSUME NEW sizes \in SUBSET Nat, OutputInv(sizes), pc[r1] = "act",
         pc' = [pc EXCEPT ![r1] = "idle"],
         \/ history' = history
         \/ \E m : history' = [history EXCEPT ![r1] = Append(@, m)],
         UNCHANGED <<charsUsed, running, cycle, results>>
  PROVE  OutputInv(sizes)'
<1>1. PICK M : history \in [{r1} -> Seq(M)]
  BY DEF OutputInv
<1>2. /\ \E N : history' \in [{r1} -> Seq(N)]
      /\ Len(history'[r1]) <= Len(history[r1]) + 1 /\ Len(history'[r1]) \in Nat
  <2>1. CASE history' = history
    <3>1. Len(history[r1]) \in Nat
      BY <1>1
    <3> QED
      BY <1>1, <2>1, <3>1
  <2>2. ASSUME NEW m, history' = [history EXCEPT ![r1] = Append(@, m)]
        PROVE  /\ history' \in [{r1} -> Seq(M \cup {m})]
               /\ Len(history'[r1]) = Len(history[r1]) + 1
    <3>1. history[r1] \in Seq(M) /\ history[r1] \in Seq(M \cup {m})
      BY <1>1
    <3>2. Append(history[r1], m) \in Seq(M \cup {m})
      BY <3>1
    <3>3. Len(Append(history[r1], m)) = Len(history[r1]) + 1
      BY <3>1
    <3>4. DOMAIN history = {r1} /\ history' = [r \in {r1} |-> Append(history[r1], m)]
      BY <1>1, <2>2
    <3> QED
      BY <3>2, <3>3, <3>4
  <2>3. Len(history[r1]) \in Nat
    BY <1>1
  <2>4. ASSUME NEW m, history' = [history EXCEPT ![r1] = Append(@, m)]
        PROVE  /\ \E N : history' \in [{r1} -> Seq(N)]
               /\ Len(history'[r1]) <= Len(history[r1]) + 1 /\ Len(history'[r1]) \in Nat
    <3>1. /\ history' \in [{r1} -> Seq(M \cup {m})]
          /\ Len(history'[r1]) = Len(history[r1]) + 1
      BY <2>2, <2>4, Zenon
    <3>2. \E N : history' \in [{r1} -> Seq(N)]
      BY <3>1
    <3>3. Len(history'[r1]) <= Len(history[r1]) + 1 /\ Len(history'[r1]) \in Nat
      BY <2>3, <3>1
    <3> QED
      BY <3>2, <3>3
  <2>5. CASE \E m : history' = [history EXCEPT ![r1] = Append(@, m)]
    <3>1. PICK m : history' = [history EXCEPT ![r1] = Append(@, m)]
      BY <2>5
    <3> QED
      BY <2>4, <3>1, Zenon
  <2> QED
    BY <2>1, <2>5
<1>3. Len(history[r1]) < cycle[r1] /\ cycle[r1] \in Nat /\ Len(history[r1]) \in Nat
  BY <1>1, LimitsAreNaturals DEF OutputInv
<1>4. running[r1] <= MaxCalls * cycle[r1]
  <2>1. /\ running[r1] + (MaxCalls - Len(results[r1])) <= MaxCalls * cycle[r1]
        /\ running[r1] \in Nat /\ Len(results[r1]) \in Nat /\ Len(results[r1]) <= MaxCalls
    BY DEF OutputInv
  <2>2. MaxCalls * cycle[r1] \in Nat
    BY <1>3, LimitsAreNaturals
  <2> QED
    BY <2>1, <2>2, LimitsAreNaturals
<1>5. pc' \in [{r1} -> {"idle", "act"}] /\ pc'[r1] = "idle"
  BY DEF OutputInv
<1>6. Len(history'[r1]) <= cycle[r1]
  BY <1>2, <1>3
<1> QED
  BY <1>2, <1>4, <1>5, <1>6 DEF OutputInv

LEMMA RunningIsBounded ==
  ASSUME NEW sizes, OutputInv(sizes)
  PROVE  running \in [{r1} -> 0..(MaxCalls * MaxCycles)]
<1> DEFINE room == MaxCalls * cycle[r1]
           rest == MaxCalls * (MaxCycles - cycle[r1])
<1>1. /\ cycle[r1] \in 0..MaxCycles /\ running \in [{r1} -> Nat] /\ pc[r1] \in {"idle", "act"}
      /\ Len(results[r1]) \in Nat /\ Len(results[r1]) <= MaxCalls /\ running[r1] \in Nat
  BY DEF OutputInv
<1>2. MaxCalls * MaxCycles = room + rest /\ rest \in Nat /\ room \in Nat
  BY <1>1, LimitsAreNaturals
<1>3. /\ pc[r1] = "idle" => running[r1] <= room
      /\ pc[r1] = "act" => running[r1] + (MaxCalls - Len(results[r1])) <= room
  BY DEF OutputInv
<1> HIDE DEF room, rest
<1>4. running[r1] <= room
  BY <1>1, <1>2, <1>3, LimitsAreNaturals
<1>5. running[r1] <= MaxCalls * MaxCycles
  BY <1>1, <1>2, <1>4
<1>6. running[r1] \in 0..(MaxCalls * MaxCycles)
  BY <1>1, <1>2, <1>5
<1> QED
  BY <1>1, <1>6

(***************************************************************************)
(* A disk that fails, and no asynchronous tools: the count is exactly that *)
(* of the cycle.                                                           *)
(***************************************************************************)

SyncInv ==
  /\ OutputInv(SyncSizes)
  /\ running[r1] = 0
  /\ charsUsed = Sync!CountedSize(results[r1])
  /\ \A i \in 1..Len(results[r1]) : results[r1][i].rest = "cut" => charsUsed > MaxCycleChars

LEMMA SyncInit == ASSUME Sync!Init PROVE SyncInv
<1>1. OutputInv(SyncSizes)
  BY OutputInit
<1>2. charsUsed = 0 /\ running[r1] = 0 /\ results[r1] = <<>> /\ Len(results[r1]) = 0
  BY DEF Sync!Init
<1> QED
  BY <1>1, <1>2, NothingIsCounted DEF SyncInv

LEMMA SyncStep == ASSUME SyncInv, Sync!Next PROVE SyncInv'
<1>0. SyncSizes \in SUBSET Nat /\ OutputInv(SyncSizes) /\ r1 \in {r1}
  BY LimitsAreNaturals DEF SyncInv
<1>1. CASE Sync!BeginCycle(r1)
  <2>1. CycleBegins
    <3>1. Sync!restoreOffloadedResults(history[r1])
            = [i \in DOMAIN history[r1] |->
                 [j \in DOMAIN history[r1] |->
                    IF Sync!isOffloadReference(history[r1][j])
                    THEN Sync!Message("text", "results", history[r1][j].size) ELSE history[r1][j]][i]]
      BY DEF Sync!restoreOffloadedResults
    <3>2. history' = [history EXCEPT ![r1] = Sync!restoreOffloadedResults(history[r1])]
      BY <1>1 DEF Sync!BeginCycle
    <3>3. \E h : history' = [history EXCEPT ![r1] = [i \in DOMAIN history[r1] |-> h[i]]]
      BY <3>1, <3>2
    <3> QED
      BY <1>1, <3>3 DEF Sync!BeginCycle, Sync!ResetCycle, CycleBegins
  <2>2. OutputInv(SyncSizes)' /\ results'[r1] = <<>> /\ Sync!CountedSize(results'[r1]) = 0
    BY <1>0, <2>1, CyclePreserves
  <2> QED
    BY <2>1, <2>2 DEF SyncInv, CycleBegins
<1>2. ASSUME NEW size \in SyncSizes, Sync!Execute(r1, size) PROVE SyncInv'
  <2>0. size \in Nat /\ charsUsed \in Nat /\ charsUsed' = charsUsed + size /\ charsUsed' \in Nat
    BY <1>0, <1>2 DEF Sync!Execute, OutputInv
  <2>1. PICK res \in Sync!ProcessedWithCount(size, charsUsed') :
          results' = [results EXCEPT ![r1] = Append(@, res)]
    BY <1>2 DEF Sync!Execute
  <2>2. Processed(res, size, charsUsed')
    BY <2>0, <2>1, SyncProcessed
  <2>3. /\ res \in ResultsOf(SyncSizes) /\ res.shown \in 0..res.size /\ res.size = size
        /\ res.rest # "unlimited" /\ (res.rest = "cut" => charsUsed' > MaxCycleChars)
    BY <2>0, <2>2 DEF Processed, ResultsOf
  <2>4. ResultAdded(res) /\ running' = running
    BY <1>2, <2>1 DEF Sync!Execute, ResultAdded
  <2>5. /\ OutputInv(SyncSizes)'
        /\ results[r1] \in Seq(ResultsOf(SyncSizes)) /\ results'[r1] = Append(results[r1], res)
        /\ Sync!CountedSize(results'[r1])
             = Sync!CountedSize(results[r1]) + IF res.rest = "unlimited" THEN 0 ELSE res.size
    BY <1>0, <2>0, <2>3, <2>4, AddPreserves
  <2>6. charsUsed' = Sync!CountedSize(results'[r1])
    BY <2>0, <2>3, <2>5 DEF SyncInv
  <2>7. ASSUME NEW i \in 1..Len(results'[r1]), results'[r1][i].rest = "cut"
        PROVE  charsUsed' > MaxCycleChars
    <3>1. CASE i \in 1..Len(results[r1])
      <4>1. results'[r1][i] = results[r1][i]
        BY <2>5, <3>1
      <4>2. charsUsed > MaxCycleChars
        BY <2>7, <3>1, <4>1 DEF SyncInv
      <4> QED
        BY <2>0, <4>2, LimitsAreNaturals
    <3>2. CASE i = Len(results[r1]) + 1
      BY <2>3, <2>5, <2>7, <3>2
    <3> QED
      BY <2>5, <3>1, <3>2
  <2> QED
    BY <2>4, <2>5, <2>6, <2>7 DEF SyncInv
<1>3. ASSUME NEW size \in SyncSizes, Sync!ExecuteUnlimited(r1, size) PROVE SyncInv'
  <2> DEFINE res == Sync!Result(size, size, "unlimited")
  <2>0. size \in Nat /\ charsUsed \in Nat /\ charsUsed' = charsUsed + 0
    BY <1>0, <1>3 DEF Sync!ExecuteUnlimited, OutputInv
  <2>1. /\ res \in ResultsOf(SyncSizes) /\ res.shown \in 0..res.size
        /\ res.rest = "unlimited"
    BY <2>0 DEF Sync!Result, ResultsOf
  <2>2. ResultAdded(res) /\ running' = running
    BY <1>3 DEF Sync!ExecuteUnlimited, ResultAdded
  <2> HIDE DEF res
  <2>3. /\ OutputInv(SyncSizes)'
        /\ results[r1] \in Seq(ResultsOf(SyncSizes)) /\ results'[r1] = Append(results[r1], res)
        /\ Sync!CountedSize(results'[r1])
             = Sync!CountedSize(results[r1]) + IF res.rest = "unlimited" THEN 0 ELSE res.size
        /\ Sync!CountedSize(results[r1]) \in Nat
    BY <1>0, <2>0, <2>1, <2>2, AddPreserves
  <2>4. charsUsed' = Sync!CountedSize(results'[r1])
    BY <2>0, <2>1, <2>3 DEF SyncInv
  <2>5. ASSUME NEW i \in 1..Len(results'[r1]), results'[r1][i].rest = "cut"
        PROVE  charsUsed' > MaxCycleChars
    <3>1. i \in 1..Len(results[r1]) /\ results'[r1][i] = results[r1][i]
      BY <2>1, <2>3, <2>5
    <3> QED
      BY <2>0, <2>5, <3>1 DEF SyncInv
  <2> QED
    BY <2>2, <2>3, <2>4, <2>5 DEF SyncInv
<1>4. CASE Sync!PersistStep(r1)
  <2>1. /\ pc[r1] = "act" /\ pc' = [pc EXCEPT ![r1] = "idle"]
        /\ UNCHANGED <<charsUsed, running, cycle, results>>
        /\ \/ history' = history
           \/ \E m : history' = [history EXCEPT ![r1] = Append(@, m)]
    BY <1>4 DEF Sync!PersistStep
  <2>2. OutputInv(SyncSizes)'
    BY <1>0, <2>1, PersistPreserves
  <2> QED
    BY <2>1, <2>2 DEF SyncInv
<1>5. ASSUME NEW size \in SyncSizes PROVE ~ Sync!EndAsync(r1, size)
  BY DEF Sync!EndAsync, SyncInv
<1>6. ~ Sync!Launch(r1)
  BY DEF Sync!Launch
<1> QED
  BY <1>1, <1>2, <1>3, <1>4, <1>5, <1>6 DEF Sync!Next

LEMMA SyncIsCut == ASSUME SyncInv PROVE Sync!TypeOK /\ Sync!OnlyOverBudgetIsCut
<1>0. OutputInv(SyncSizes) /\ results[r1] \in Seq(ResultsOf(SyncSizes))
  BY DEF SyncInv, OutputInv
<1>1. running \in [{r1} -> 0..(MaxCalls * MaxCycles)]
  BY <1>0, RunningIsBounded
<1>2. ASSUME NEW res \in Sync!Range(results[r1])
      PROVE  \E i \in 1..Len(results[r1]) : res = results[r1][i] /\ res \in ResultsOf(SyncSizes)
  BY <1>0 DEF Sync!Range
<1>3. \A res \in Sync!Range(results[r1]) :
        /\ res.size \in SyncSizes \cup {0} /\ res.shown \in 0..res.size
        /\ res.rest \in {"none", "file", "lost", "cut", "unlimited"}
  BY <1>0, <1>2 DEF ResultsOf, OutputInv
<1>4. Len(history[r1]) <= cycle[r1]
  <2>1. \E M : history[r1] \in Seq(M)
    BY <1>0 DEF OutputInv
  <2>2. Len(history[r1]) \in Nat /\ cycle[r1] \in Nat /\ pc[r1] \in {"idle", "act"}
    BY <1>0, <2>1, LimitsAreNaturals DEF OutputInv
  <2> QED
    BY <1>0, <2>2 DEF OutputInv
<1>5. Sync!TypeOK
  BY <1>0, <1>1, <1>3, <1>4 DEF OutputInv, Sync!TypeOK
<1>6. Sync!OnlyOverBudgetIsCut
  BY <1>2 DEF SyncInv, Sync!OnlyOverBudgetIsCut
<1> QED
  BY <1>5, <1>6

(***************************************************************************)
(* Asynchronous tools: the count is that of the cycle and of whatever else *)
(* ended in it.                                                            *)
(***************************************************************************)

CutIfOverBudget(rs) ==
  \A i \in 1..Len(rs) :
    /\ rs[i].rest # "unlimited" /\ rs[i].size > MaxResultSize
    /\ Sync!CountedSize(SubSeq(rs, 1, i)) > MaxCycleChars
    => rs[i].rest = "cut"

AsyncInv == OutputInv(AsyncSizes) /\ CutIfOverBudget(results[r1])

\* The results before the last are those of the cycle so far.
LEMMA CutAppend ==
  ASSUME NEW sizes \in SUBSET Nat, NEW rs \in Seq(ResultsOf(sizes)), NEW res \in ResultsOf(sizes),
         CutIfOverBudget(rs),
         /\ res.rest # "unlimited" /\ res.size > MaxResultSize
         /\ Sync!CountedSize(Append(rs, res)) > MaxCycleChars
         => res.rest = "cut"
  PROVE  CutIfOverBudget(Append(rs, res))
<1> DEFINE more == Append(rs, res)
<1>1. /\ Len(rs) \in Nat /\ Len(more) = Len(rs) + 1 /\ more[Len(rs) + 1] = res
      /\ SubSeq(more, 1, Len(rs) + 1) = more
  OBVIOUS
<1>2. \A i \in 1..Len(rs) : more[i] = rs[i] /\ SubSeq(more, 1, i) = SubSeq(rs, 1, i)
  OBVIOUS
<1>3. \A i \in 1..Len(more) : i \in 1..Len(rs) \/ i = Len(rs) + 1
  BY <1>1
<1>4. Sync!CountedSize(SubSeq(more, 1, Len(rs) + 1)) = Sync!CountedSize(Append(rs, res))
  BY <1>1
<1> HIDE DEF more
<1>5. CutIfOverBudget(more)
  BY <1>1, <1>2, <1>3, <1>4 DEF CutIfOverBudget
<1> QED
  BY <1>5 DEF more

LEMMA AsyncInit == ASSUME Sync!Init PROVE AsyncInv
<1>1. OutputInv(AsyncSizes)
  BY OutputInit
<1>2. results[r1] = <<>> /\ Len(results[r1]) = 0
  BY DEF Sync!Init
<1> QED
  BY <1>1, <1>2 DEF AsyncInv, CutIfOverBudget

LEMMA AsyncStep == ASSUME AsyncInv, Async!Next PROVE AsyncInv'
<1>0. AsyncSizes \in SUBSET Nat /\ OutputInv(AsyncSizes) /\ r1 \in {r1}
  BY LimitsAreNaturals DEF AsyncInv
<1>1. CASE Async!BeginCycle(r1)
  <2>1. CycleBegins
    <3>1. Async!restoreOffloadedResults(history[r1])
            = [i \in DOMAIN history[r1] |->
                 [j \in DOMAIN history[r1] |->
                    IF Async!isOffloadReference(history[r1][j])
                    THEN Async!Message("text", "results", history[r1][j].size) ELSE history[r1][j]][i]]
      BY DEF Async!restoreOffloadedResults
    <3>2. history' = [history EXCEPT ![r1] = Async!restoreOffloadedResults(history[r1])]
      BY <1>1 DEF Async!BeginCycle
    <3>3. \E h : history' = [history EXCEPT ![r1] = [i \in DOMAIN history[r1] |-> h[i]]]
      BY <3>1, <3>2
    <3> QED
      BY <1>1, <3>3 DEF Async!BeginCycle, Async!ResetCycle, CycleBegins
  <2>2. OutputInv(AsyncSizes)' /\ results'[r1] = <<>>
    BY <1>0, <2>1, CyclePreserves
  <2>3. CutIfOverBudget(results'[r1])
    BY <2>2 DEF CutIfOverBudget
  <2> QED
    BY <2>2, <2>3 DEF AsyncInv, CutIfOverBudget
<1>2. ASSUME NEW size \in AsyncSizes, Async!Execute(r1, size) PROVE AsyncInv'
  <2>0. size \in Nat /\ charsUsed \in Nat /\ charsUsed' = charsUsed + size /\ charsUsed' \in Nat
    BY <1>0, <1>2 DEF Async!Execute, OutputInv
  <2>1. PICK res \in Async!ProcessedWithCount(size, charsUsed') :
          results' = [results EXCEPT ![r1] = Append(@, res)]
    BY <1>2 DEF Async!Execute
  <2>2. Processed(res, size, charsUsed')
    BY <2>0, <2>1, AsyncProcessed
  <2>3. /\ res \in ResultsOf(AsyncSizes) /\ res.shown \in 0..res.size /\ res.size = size
        /\ res.rest # "unlimited"
        /\ charsUsed' > MaxCycleChars /\ size > MaxResultSize => res.rest = "cut"
    BY <2>0, <2>2 DEF Processed, ResultsOf
  <2>4. ResultAdded(res) /\ running' = running
    BY <1>2, <2>1 DEF Async!Execute, ResultAdded
  <2>5. /\ OutputInv(AsyncSizes)'
        /\ results[r1] \in Seq(ResultsOf(AsyncSizes)) /\ results'[r1] = Append(results[r1], res)
        /\ Sync!CountedSize(results[r1]) \in Nat
        /\ Sync!CountedSize(results'[r1])
             = Sync!CountedSize(results[r1]) + IF res.rest = "unlimited" THEN 0 ELSE res.size
    BY <1>0, <2>0, <2>3, <2>4, AddPreserves
  <2>6. Sync!CountedSize(results'[r1]) > MaxCycleChars => charsUsed' > MaxCycleChars
    <3>1. Sync!CountedSize(results'[r1]) <= charsUsed'
      BY <2>5 DEF OutputInv
    <3>2. Sync!CountedSize(results'[r1]) \in Nat
      BY <2>0, <2>3, <2>5
    <3> QED
      BY <2>0, <3>1, <3>2, LimitsAreNaturals
  <2>7. CutIfOverBudget(results[r1])
    BY DEF AsyncInv
  <2>8. CutIfOverBudget(results'[r1])
    BY <1>0, <2>3, <2>5, <2>6, <2>7, CutAppend
  <2> QED
    BY <2>5, <2>8 DEF AsyncInv, CutIfOverBudget
<1>3. ASSUME NEW res, res \in ResultsOf(AsyncSizes), res.shown \in 0..res.size,
             res.rest = "unlimited", ResultAdded(res), charsUsed' = charsUsed,
             running' = running \/ running' = [running EXCEPT ![r1] = @ + 1]
      PROVE  AsyncInv'
  <2>1. charsUsed' = charsUsed + 0 /\ 0 \in Nat
    BY <1>0, <1>3 DEF OutputInv
  <2>2. /\ OutputInv(AsyncSizes)'
        /\ results[r1] \in Seq(ResultsOf(AsyncSizes)) /\ results'[r1] = Append(results[r1], res)
    BY <1>0, <1>3, <2>1, AddPreserves
  <2>3. CutIfOverBudget(results[r1])
    BY DEF AsyncInv
  <2>4. CutIfOverBudget(results'[r1])
    BY <1>0, <1>3, <2>2, <2>3, CutAppend
  <2> QED
    BY <2>2, <2>4 DEF AsyncInv, CutIfOverBudget
<1>4. ASSUME NEW size \in AsyncSizes, Async!ExecuteUnlimited(r1, size) PROVE AsyncInv'
  <2> DEFINE res == Async!Result(size, size, "unlimited")
  <2>1. size \in Nat
    BY <1>0
  <2>2. /\ res \in ResultsOf(AsyncSizes) /\ res.shown \in 0..res.size
        /\ res.rest = "unlimited"
    BY <2>1 DEF Async!Result, ResultsOf
  <2>3. ResultAdded(res) /\ charsUsed' = charsUsed /\ running' = running
    BY <1>4 DEF Async!ExecuteUnlimited, ResultAdded
  <2> HIDE DEF res
  <2> QED
    BY <1>3, <2>2, <2>3
<1>5. CASE Async!Launch(r1)
  <2> DEFINE res == Async!Result(0, 0, "unlimited")
  <2>1. /\ res \in ResultsOf(AsyncSizes) /\ res.shown \in 0..res.size
        /\ res.rest = "unlimited"
    BY DEF Async!Result, ResultsOf
  <2>2. ResultAdded(res) /\ charsUsed' = charsUsed /\ running' = [running EXCEPT ![r1] = @ + 1]
    BY <1>5 DEF Async!Launch, ResultAdded
  <2> HIDE DEF res
  <2> QED
    BY <1>3, <2>1, <2>2
<1>6. ASSUME NEW size \in AsyncSizes, Async!EndAsync(r1, size) PROVE AsyncInv'
  <2>1. /\ running[r1] > 0 /\ running' = [running EXCEPT ![r1] = @ - 1]
        /\ charsUsed' = charsUsed + size /\ UNCHANGED <<pc, cycle, results, history>>
        /\ size \in Nat
    BY <1>0, <1>6 DEF Async!EndAsync
  <2>2. OutputInv(AsyncSizes)'
    BY <1>0, <2>1, EndPreserves
  <2> QED
    BY <2>1, <2>2 DEF AsyncInv, CutIfOverBudget
<1>7. CASE Async!PersistStep(r1)
  <2>1. /\ pc[r1] = "act" /\ pc' = [pc EXCEPT ![r1] = "idle"]
        /\ UNCHANGED <<charsUsed, running, cycle, results>>
        /\ \/ history' = history
           \/ \E m : history' = [history EXCEPT ![r1] = Append(@, m)]
    BY <1>7 DEF Async!PersistStep
  <2>2. OutputInv(AsyncSizes)'
    BY <1>0, <2>1, PersistPreserves
  <2> QED
    BY <2>1, <2>2 DEF AsyncInv, CutIfOverBudget
<1> QED
  BY <1>1, <1>2, <1>4, <1>5, <1>6, <1>7 DEF Async!Next

LEMMA AsyncIsCut == ASSUME AsyncInv PROVE Async!TypeOK /\ Async!OverBudgetIsCut
<1>0. OutputInv(AsyncSizes) /\ results[r1] \in Seq(ResultsOf(AsyncSizes))
  BY DEF AsyncInv, OutputInv
<1>1. running \in [{r1} -> 0..(MaxCalls * MaxCycles)]
  BY <1>0, RunningIsBounded
<1>2. ASSUME NEW res \in Async!Range(results[r1])
      PROVE  \E i \in 1..Len(results[r1]) : res = results[r1][i] /\ res \in ResultsOf(AsyncSizes)
  BY <1>0 DEF Async!Range
<1>3. \A res \in Async!Range(results[r1]) :
        /\ res.size \in AsyncSizes \cup {0} /\ res.shown \in 0..res.size
        /\ res.rest \in {"none", "file", "lost", "cut", "unlimited"}
  BY <1>0, <1>2 DEF ResultsOf, OutputInv
<1>4. Len(history[r1]) <= cycle[r1]
  <2>1. \E M : history[r1] \in Seq(M)
    BY <1>0 DEF OutputInv
  <2>2. Len(history[r1]) \in Nat /\ cycle[r1] \in Nat /\ pc[r1] \in {"idle", "act"}
    BY <1>0, <2>1, LimitsAreNaturals DEF OutputInv
  <2> QED
    BY <1>0, <2>2 DEF OutputInv
<1>5. Async!TypeOK
  BY <1>0, <1>1, <1>3, <1>4 DEF OutputInv, Async!TypeOK
<1>6. Async!OverBudgetIsCut
  BY <1>0, SameCount DEF AsyncInv, CutIfOverBudget, Async!OverBudgetIsCut
<1> QED
  BY <1>5, <1>6

OutputOfScope ==
  /\ scope = "sync" => SyncInv
  /\ scope = "async" => AsyncInv

LEMMA OutputStays ==
  ASSUME UNCHANGED outputVars
  PROVE  (SyncInv => SyncInv') /\ (AsyncInv => AsyncInv')
BY DEF outputVars, SyncInv, AsyncInv, OutputInv, CutIfOverBudget

LEMMA OutputOfScopeStep == ASSUME OutputOfScope, [MCNext]_allVars PROVE OutputOfScope'
<1>1. scope' = scope
  BY DEF MCNext, allVars
<1>2. ASSUME scope = "sync" PROVE SyncInv'
  <2>1. SyncInv
    BY <1>2 DEF OutputOfScope
  <2>2. Sync!Next \/ UNCHANGED outputVars
    BY <1>2 DEF MCNext, allVars, otherVars
  <2> QED
    BY <2>1, <2>2, SyncStep, OutputStays
<1>3. ASSUME scope = "async" PROVE AsyncInv'
  <2>1. AsyncInv
    BY <1>3 DEF OutputOfScope
  <2>2. Async!Next \/ UNCHANGED outputVars
    BY <1>3 DEF MCNext, allVars, otherVars
  <2> QED
    BY <2>1, <2>2, AsyncStep, OutputStays
<1> QED
  BY <1>1, <1>2, <1>3 DEF OutputOfScope

\* For output of any lengths and any limits: a result loses its end in a cycle
\* whose own results are more than the budget, in no other if there are no
\* asynchronous tools, and if it is large always.
THEOREM OutputIsCut == MCSpec => []OutputIsCutOverBudget
<1>1. MCInit => OutputOfScope
  BY SyncInit, AsyncInit DEF MCInit, OutputOfScope
<1>2. OutputOfScope /\ [MCNext]_allVars => OutputOfScope'
  BY OutputOfScopeStep
<1>3. OutputOfScope => OutputIsCutOverBudget
  BY SyncIsCut, AsyncIsCut DEF OutputOfScope, OutputIsCutOverBudget
<1> QED
  BY <1>1, <1>2, <1>3, PTL DEF MCSpec

-----------------------------------------------------------------------------
(***************************************************************************)
(* The list of tasks.  The operators of TodoList but Items do not depend   *)
(* on its constants, so they are those of each instance.                   *)
(***************************************************************************)

TaskStatuses == {"pending", "in_progress", "completed", "cancelled"}
TasksOf(ids, tasks) ==
  [id : ids, status : TaskStatuses, priority : tasks.priorities, deps : SUBSET tasks.ids]

TodoConstants(tasks) ==
  /\ tasks.ids \subseteq Nat \ {0}
  /\ tasks.priorities \subseteq Nat /\ 0 \in tasks.priorities
  /\ tasks.given \in Nat /\ tasks.items \in Nat /\ tasks.counter \in Nat

LEMMA TodoConstantsHold ==
  TodoConstants(DependentTasks) /\ TodoConstants(SeveralTasks) /\ TodoConstants(PlannedTasks)
BY MCAssumption DEF MCAssumption, TodoConstants,
   Dependent!TodoAssumption, Several!TodoAssumption, Planned!TodoAssumption

LEMMA PutIsTyped ==
  ASSUME NEW S, NEW store \in Seq(S), NEW item \in S
  PROVE  Planned!Put(store, item) \in Seq(S)
<1> DEFINE I == {k \in 1..Len(store) : store[k].id = item.id}
           i == IF I # {} THEN Planned!Min(I) ELSE 0
<1>1. Planned!Put(store, item) = IF i = 0 THEN Append(store, item) ELSE [store EXCEPT ![i] = item]
  BY DEF Planned!Put, Planned!SelectInSeq
<1>2. I # {} => Planned!Min(I) \in I
  <2>1. I \in SUBSET Nat
    OBVIOUS
  <2> HIDE DEF I
  <2>2. I # {} => \E n \in I : \A m \in I : n <= m
    BY <2>1, LeastNatural
  <2> QED
    BY <2>2 DEF Planned!Min
<1>3. i = 0 \/ i \in 1..Len(store)
  <2>1. I \subseteq 1..Len(store)
    OBVIOUS
  <2> HIDE DEF I
  <2> QED
    BY <1>2, <2>1
<1> HIDE DEF i
<1>4. CASE i = 0
  BY <1>1, <1>4
<1>5. CASE i # 0 /\ i \in 1..Len(store)
  <2>1. [store EXCEPT ![i] = item] \in Seq(S)
    BY <1>5
  <2> QED
    BY <1>1, <1>5, <2>1
<1> QED
  BY <1>3, <1>4, <1>5

LEMMA IdentifyIsTyped ==
  ASSUME NEW tasks, TodoConstants(tasks), NEW n \in Nat,
         NEW item \in TasksOf(tasks.ids \cup {0}, tasks)
  PROVE  LET known == Planned!Identify(item, n)
         IN  /\ known[2] \in Nat /\ n <= known[2]
             /\ known[1] \in TasksOf(tasks.ids \cup 1..known[2], tasks)
<1>1. CASE item.id = 0
  <2>1. Planned!Identify(item, n) = <<[item EXCEPT !.id = n + 1], n + 1>>
    BY <1>1 DEF Planned!Identify
  <2>2. n + 1 \in 1..(n + 1)
    OBVIOUS
  <2>3. [item EXCEPT !.id = n + 1] \in TasksOf(tasks.ids \cup 1..(n + 1), tasks)
    BY <2>2 DEF TasksOf
  <2> QED
    BY <2>1, <2>3
<1>2. CASE item.id # 0
  <2>1. Planned!Identify(item, n) = <<item, n>>
    BY <1>2 DEF Planned!Identify
  <2>2. item \in TasksOf(tasks.ids \cup 1..n, tasks)
    BY <1>2 DEF TasksOf
  <2> QED
    BY <2>1, <2>2
<1> QED
  BY <1>1, <1>2

LEMMA TasksGrow ==
  ASSUME NEW tasks, NEW m \in Nat, NEW n \in Nat, m <= n,
         NEW store \in Seq(TasksOf(tasks.ids \cup 1..m, tasks))
  PROVE  store \in Seq(TasksOf(tasks.ids \cup 1..n, tasks))
<1>1. tasks.ids \cup 1..m \subseteq tasks.ids \cup 1..n
  OBVIOUS
<1>2. TasksOf(tasks.ids \cup 1..m, tasks) \subseteq TasksOf(tasks.ids \cup 1..n, tasks)
  BY <1>1 DEF TasksOf
<1> DEFINE A == TasksOf(tasks.ids \cup 1..m, tasks)
           B == TasksOf(tasks.ids \cup 1..n, tasks)
<1>3. A \subseteq B /\ store \in Seq(A)
  BY <1>2
<1> HIDE DEF A, B
<1>4. store \in Seq(B)
  BY <1>3
<1> QED
  BY <1>4 DEF B

\* One item is written.
WriteOne(acc, item, merge) ==
  LET known == Planned!Identify(item, acc[2])
  IN <<IF merge THEN Planned!Put(acc[1], known[1]) ELSE Append(acc[1], known[1]), known[2]>>

\* A list of any length whose generated identifiers have been counted.
TodoLists(tasks) ==
  {acc \in Seq(TasksOf(Nat, tasks)) \X Nat : acc[1] \in Seq(TasksOf(tasks.ids \cup 1..acc[2], tasks))}

LEMMA WriteOneIsTyped ==
  ASSUME NEW tasks, TodoConstants(tasks), NEW acc \in TodoLists(tasks), NEW merge \in BOOLEAN,
         NEW item \in TasksOf(tasks.ids \cup {0}, tasks)
  PROVE  WriteOne(acc, item, merge) \in TodoLists(tasks)
<1> DEFINE known == Planned!Identify(item, acc[2])
           after == TasksOf(tasks.ids \cup 1..known[2], tasks)
           store == IF merge THEN Planned!Put(acc[1], known[1]) ELSE Append(acc[1], known[1])
<1>1. acc[2] \in Nat /\ acc[1] \in Seq(TasksOf(tasks.ids \cup 1..acc[2], tasks))
  BY DEF TodoLists
<1>2. known[2] \in Nat /\ acc[2] <= known[2] /\ known[1] \in after
  BY <1>1, IdentifyIsTyped
<1>3. acc[1] \in Seq(after)
  BY <1>1, <1>2, TasksGrow
<1>4. store \in Seq(after)
  <2> HIDE DEF known, after
  <2> QED
    BY <1>2, <1>3, PutIsTyped
<1>5. after \subseteq TasksOf(Nat, tasks)
  <2>1. tasks.ids \cup 1..known[2] \subseteq Nat
    BY <1>2 DEF TodoConstants
  <2> HIDE DEF known
  <2> QED
    BY <2>1 DEF TasksOf
<1>6. store \in Seq(TasksOf(Nat, tasks))
  <2> HIDE DEF store, after
  <2> QED
    BY <1>4, <1>5
<1>7. WriteOne(acc, item, merge) = <<store, known[2]>>
  BY DEF WriteOne
<1> DEFINE written == <<store, known[2]>>
<1>8. /\ written \in Seq(TasksOf(Nat, tasks)) \X Nat
      /\ written[1] = store /\ written[2] = known[2]
  <2> HIDE DEF store, known
  <2> QED
    BY <1>2, <1>6
<1>9. written[1] \in Seq(TasksOf(tasks.ids \cup 1..written[2], tasks))
  BY <1>4, <1>8
<1> HIDE DEF written
<1>10. written \in TodoLists(tasks)
  BY <1>8, <1>9 DEF TodoLists
<1> QED
  BY <1>7, <1>10 DEF written

\* Written is the last of the lists that its items make, one by one.
LEMMA WrittenIsTyped ==
  ASSUME NEW tasks, TodoConstants(tasks), NEW merge \in BOOLEAN,
         NEW store, NEW counter, <<IF merge THEN store ELSE <<>>, counter>> \in TodoLists(tasks),
         NEW given \in Seq(TasksOf(tasks.ids \cup {0}, tasks))
  PROVE  Planned!Written(given, merge, store, counter) \in TodoLists(tasks)
<1> DEFINE base == <<IF merge THEN store ELSE <<>>, counter>>
           written == Planned!Written(given, merge, store, counter)
           V == TodoLists(tasks)
           E == TasksOf(tasks.ids \cup {0}, tasks)
           Equation(f) ==
             f = [s \in SUBSET DOMAIN given |->
                    IF s = {} THEN base
                    ELSE WriteOne(f[s \ {Greatest(s)}], given[Greatest(s)], merge)]
           op == [p \in V \X E |-> WriteOne(p[1], p[2], merge)]
           iter == CHOOSE f : Equation(f)
<1>0. /\ Len(given) \in Nat /\ DOMAIN given = 1..Len(given)
      /\ \A k \in 1..Len(given) : given[k] \in E
  OBVIOUS
<1>w. \A v \in V, e \in E : WriteOne(v, e, merge) \in V
  BY WriteOneIsTyped
<1>1. \E f : Equation(f)
  <2> HIDE DEF V, E
  <2>1. op \in [V \X E -> V]
    BY <1>w
  <2>2. \A v \in V, e \in E : op[<<v, e>>] = WriteOne(v, e, merge)
    OBVIOUS
  <2> HIDE DEF op, Equation, iter
  <2>3. PICK f : Iterates(f, V, op, base, given)
    <3>1. base \in V /\ given \in Seq(E)
      BY DEF V, E
    <3> QED
      BY <2>1, <3>1, IterationExists
  <2>4. ASSUME NEW s \in SUBSET (1..Len(given)), s # {}
        PROVE  op[<<f[s \ {Greatest(s)}], given[Greatest(s)]>>]
                 = WriteOne(f[s \ {Greatest(s)}], given[Greatest(s)], merge)
    <3>1. Greatest(s) \in 1..Len(given)
      BY <1>0, <2>4, GreatestIsGreatest
    <3>2. given[Greatest(s)] \in E /\ f[s \ {Greatest(s)}] \in V
      BY <1>0, <2>3, <3>1 DEF Iterates
    <3> QED
      BY <2>2, <3>2
  <2>5. Equation(f)
    BY <1>0, <2>3, <2>4 DEF Equation, Iterates
  <2> QED
    BY <2>5
<1>2. Equation(iter)
  <2> HIDE DEF Equation
  <2> QED
    BY <1>1
<1>3. written = iter[DOMAIN given]
  BY DEF Planned!Written, WriteOne, Planned!FoldLeft, Planned!MapThenFoldSet, Planned!Max, Greatest
<1> HIDE DEF iter, V, E, written
<1> DEFINE Reached == {n \in Nat : n > Len(given) \/ iter[1..n] \in V}
<1>4. 0 \in Reached
  <2>1. 1..0 = {} /\ {} \in SUBSET DOMAIN given
    OBVIOUS
  <2>2. iter[1..0] = base
    BY <1>2, <2>1
  <2> QED
    BY <2>2 DEF V
<1>5. ASSUME NEW n \in Nat, n \in Reached PROVE n + 1 \in Reached
  <2>1. CASE n + 1 > Len(given)
    BY <2>1
  <2>2. CASE n + 1 <= Len(given)
    <3>1. /\ iter[1..n] \in V /\ n + 1 \in 1..Len(given) /\ (n + 1) - 1 = n
          /\ n + 1 \in Nat /\ n + 1 # 0 /\ 1..(n + 1) \in SUBSET DOMAIN given /\ 1..(n + 1) # {}
      BY <1>0, <1>5, <2>2
    <3>2. Greatest(1..(n + 1)) = n + 1 /\ (1..(n + 1)) \ {n + 1} = 1..n
      BY <3>1, GreatestOfRange
    <3>3. iter[1..(n + 1)] = WriteOne(iter[1..n], given[n + 1], merge)
      <4> HIDE DEF Reached
      <4> QED
        BY <1>2, <3>1, <3>2
    <3> QED
      BY <1>0, <1>w, <3>1, <3>3
  <2> QED
    BY <1>0, <2>1, <2>2
<1>6. \A n \in Nat : n \in Reached
  <2> HIDE DEF Reached
  <2> QED
    BY <1>4, <1>5, NaturalSteps
<1>7. written \in V
  BY <1>0, <1>3, <1>6
<1> QED
  BY <1>7 DEF V, written

LEMMA SameWritten ==
  \A given, merge, store, counter :
    /\ Dependent!Written(given, merge, store, counter) = Planned!Written(given, merge, store, counter)
    /\ Several!Written(given, merge, store, counter) = Planned!Written(given, merge, store, counter)
BY DEF Planned!Written, Planned!FoldLeft, Planned!MapThenFoldSet, Planned!Max, Planned!Min,
       Planned!Put, Planned!SelectInSeq, Planned!Identify,
       Dependent!Written, Dependent!FoldLeft, Dependent!MapThenFoldSet, Dependent!Max, Dependent!Min,
       Dependent!Put, Dependent!SelectInSeq, Dependent!Identify,
       Several!Written, Several!FoldLeft, Several!MapThenFoldSet, Several!Max, Several!Min,
       Several!Put, Several!SelectInSeq, Several!Identify

TodoInv(tasks) ==
  /\ <<todoStore, todoCounter>> \in TodoLists(tasks)
  /\ Len(todoStore) <= tasks.items /\ todoCounter <= tasks.counter

LEMMA NoTasks == ASSUME NEW tasks, NEW n \in Nat PROVE <<<<>>, n>> \in TodoLists(tasks)
<1>1. <<>> \in Seq(TasksOf(Nat, tasks)) /\ <<>> \in Seq(TasksOf(tasks.ids \cup 1..n, tasks))
  OBVIOUS
<1> HIDE DEF TasksOf
<1> QED
  BY <1>1 DEF TodoLists

LEMMA TodoInit ==
  ASSUME Planned!Init, NEW tasks, TodoConstants(tasks) PROVE TodoInv(tasks)
<1>1. todoStore = <<>> /\ todoCounter = 0 /\ Len(todoStore) = 0
  BY DEF Planned!Init
<1>2. <<todoStore, todoCounter>> \in TodoLists(tasks)
  BY <1>1, NoTasks
<1> QED
  BY <1>1, <1>2 DEF TodoInv, TodoConstants

\* TodoWrite.Execute, of items that are given or of a mark.
LEMMA WritePreserves ==
  ASSUME NEW tasks, TodoConstants(tasks), TodoInv(tasks), NEW merge \in BOOLEAN,
         NEW given \in Seq(TasksOf(tasks.ids \cup {0}, tasks)),
         NEW written, written = Planned!Written(given, merge, todoStore, todoCounter),
         Len(written[1]) <= tasks.items, written[2] <= tasks.counter,
         todoStore' = written[1], todoCounter' = written[2]
  PROVE  TodoInv(tasks)'
<1>1. <<IF merge THEN todoStore ELSE <<>>, todoCounter>> \in TodoLists(tasks)
  <2>1. CASE merge
    BY <2>1 DEF TodoInv
  <2>2. CASE ~ merge
    <3>1. todoCounter \in Nat
      BY DEF TodoInv, TodoLists
    <3>2. <<<<>>, todoCounter>> \in TodoLists(tasks)
      BY <3>1, NoTasks
    <3> QED
      BY <2>2, <3>2
  <2> QED
    BY <2>1, <2>2
<1>2. written \in TodoLists(tasks)
  BY <1>1, WrittenIsTyped
<1>3. written = <<written[1], written[2]>>
  BY <1>2 DEF TodoLists
<1> QED
  BY <1>2, <1>3 DEF TodoInv

\* What the calls of an instance with the constants of "tasks" give is typed.
LEMMA GivenIsTyped ==
  ASSUME NEW tasks, NEW n \in Nat,
         NEW given \in [1..n -> TasksOf(tasks.ids \cup {0}, tasks)]
  PROVE  given \in Seq(TasksOf(tasks.ids \cup {0}, tasks))
<1> DEFINE E == TasksOf(tasks.ids \cup {0}, tasks)
<1>1. given \in [1..n -> E]
  OBVIOUS
<1> HIDE DEF E
<1>2. given \in Seq(E)
  BY <1>1
<1> QED
  BY <1>2 DEF E

LEMMA MarkIsTyped ==
  ASSUME NEW tasks, TodoConstants(tasks), NEW i \in tasks.ids, NEW s \in TaskStatuses
  PROVE  <<[id |-> i, status |-> s, priority |-> 0, deps |-> {}]>>
           \in Seq(TasksOf(tasks.ids \cup {0}, tasks))
<1> DEFINE mark == [id |-> i, status |-> s, priority |-> 0, deps |-> {}]
<1>1. mark \in TasksOf(tasks.ids \cup {0}, tasks)
  BY DEF TodoConstants, TasksOf
<1> HIDE DEF mark
<1>2. <<mark>> \in Seq(TasksOf(tasks.ids \cup {0}, tasks))
  BY <1>1
<1> QED
  BY <1>2 DEF mark

LEMMA DependentStep ==
  ASSUME TodoInv(DependentTasks), Dependent!Next PROVE TodoInv(DependentTasks)'
<1> DEFINE E == TasksOf(DependentTasks.ids \cup {0}, DependentTasks)
<1>1. TodoConstants(DependentTasks)
  BY TodoConstantsHold
<1>2. ASSUME NEW given \in Seq(E), NEW merge \in BOOLEAN, Dependent!Write(given, merge)
      PROVE  TodoInv(DependentTasks)'
  <2> DEFINE written == Planned!Written(given, merge, todoStore, todoCounter)
  <2>1. /\ Len(written[1]) <= DependentTasks.items /\ written[2] <= DependentTasks.counter
        /\ todoStore' = written[1] /\ todoCounter' = written[2]
    BY <1>2, SameWritten DEF Dependent!Write
  <2> HIDE DEF written
  <2> QED
    BY <1>1, <1>2, <2>1, WritePreserves DEF written
<1>3. ASSUME NEW given \in Dependent!Given PROVE given \in Seq(E)
  <2>1. PICK n \in 1..DependentTasks.given : given \in [1..n -> E]
    BY DEF Dependent!Given, Dependent!Items, Dependent!Statuses, TasksOf, TaskStatuses
  <2>2. n \in Nat
    BY <1>1, <2>1 DEF TodoConstants
  <2> QED
    BY <2>1, <2>2, GivenIsTyped
<1>4. ASSUME NEW given \in Dependent!Marks PROVE given \in Seq(E)
  <2>1. PICK i \in DependentTasks.ids, s \in TaskStatuses :
          given = <<[id |-> i, status |-> s, priority |-> 0, deps |-> {}]>>
    BY DEF Dependent!Marks, Dependent!Statuses, TaskStatuses
  <2> QED
    BY <1>1, <2>1, MarkIsTyped
<1> HIDE DEF E
<1> QED
  BY <1>2, <1>3, <1>4 DEF Dependent!Next, Dependent!Mark

LEMMA SeveralStep ==
  ASSUME TodoInv(SeveralTasks), Several!Next PROVE TodoInv(SeveralTasks)'
<1> DEFINE E == TasksOf(SeveralTasks.ids \cup {0}, SeveralTasks)
<1>1. TodoConstants(SeveralTasks)
  BY TodoConstantsHold
<1>2. ASSUME NEW given \in Seq(E), NEW merge \in BOOLEAN, Several!Write(given, merge)
      PROVE  TodoInv(SeveralTasks)'
  <2> DEFINE written == Planned!Written(given, merge, todoStore, todoCounter)
  <2>1. /\ Len(written[1]) <= SeveralTasks.items /\ written[2] <= SeveralTasks.counter
        /\ todoStore' = written[1] /\ todoCounter' = written[2]
    BY <1>2, SameWritten DEF Several!Write
  <2> HIDE DEF written
  <2> QED
    BY <1>1, <1>2, <2>1, WritePreserves DEF written
<1>3. ASSUME NEW given \in Several!Given PROVE given \in Seq(E)
  <2>1. PICK n \in 1..SeveralTasks.given : given \in [1..n -> E]
    BY DEF Several!Given, Several!Items, Several!Statuses, TasksOf, TaskStatuses
  <2>2. n \in Nat
    BY <1>1, <2>1 DEF TodoConstants
  <2> QED
    BY <2>1, <2>2, GivenIsTyped
<1>4. ASSUME NEW given \in Several!Marks PROVE given \in Seq(E)
  <2>1. PICK i \in SeveralTasks.ids, s \in TaskStatuses :
          given = <<[id |-> i, status |-> s, priority |-> 0, deps |-> {}]>>
    BY DEF Several!Marks, Several!Statuses, TaskStatuses
  <2> QED
    BY <1>1, <2>1, MarkIsTyped
<1> HIDE DEF E
<1> QED
  BY <1>2, <1>3, <1>4 DEF Several!Next, Several!Mark

LEMMA PlannedStep ==
  ASSUME TodoInv(PlannedTasks), Planned!Next PROVE TodoInv(PlannedTasks)'
<1> DEFINE E == TasksOf(PlannedTasks.ids \cup {0}, PlannedTasks)
<1>1. TodoConstants(PlannedTasks)
  BY TodoConstantsHold
<1>2. ASSUME NEW given \in Seq(E), NEW merge \in BOOLEAN, Planned!Write(given, merge)
      PROVE  TodoInv(PlannedTasks)'
  <2> DEFINE written == Planned!Written(given, merge, todoStore, todoCounter)
  <2>1. /\ Len(written[1]) <= PlannedTasks.items /\ written[2] <= PlannedTasks.counter
        /\ todoStore' = written[1] /\ todoCounter' = written[2]
    BY <1>2 DEF Planned!Write
  <2> HIDE DEF written
  <2> QED
    BY <1>1, <1>2, <2>1, WritePreserves DEF written
<1>3. ASSUME NEW given \in Planned!Given PROVE given \in Seq(E)
  <2>1. PICK n \in 1..PlannedTasks.given : given \in [1..n -> E]
    BY DEF Planned!Given, Planned!Items, Planned!Statuses, TasksOf, TaskStatuses
  <2>2. n \in Nat
    BY <1>1, <2>1 DEF TodoConstants
  <2> QED
    BY <2>1, <2>2, GivenIsTyped
<1>4. ASSUME NEW given \in Planned!Marks PROVE given \in Seq(E)
  <2>1. PICK i \in PlannedTasks.ids, s \in TaskStatuses :
          given = <<[id |-> i, status |-> s, priority |-> 0, deps |-> {}]>>
    BY DEF Planned!Marks, Planned!Statuses, TaskStatuses
  <2> QED
    BY <1>1, <2>1, MarkIsTyped
<1> HIDE DEF E
<1> QED
  BY <1>2, <1>3, <1>4 DEF Planned!Next, Planned!Mark

LEMMA TodoIsTyped ==
  /\ TodoInv(DependentTasks) => Dependent!TypeOK
  /\ TodoInv(SeveralTasks) => Several!TypeOK
  /\ TodoInv(PlannedTasks) => Planned!TypeOK
<1>1. ASSUME NEW tasks, TodoConstants(tasks), TodoInv(tasks)
      PROVE  /\ \A i \in DOMAIN todoStore : todoStore[i] \in TasksOf(tasks.ids \cup 1..tasks.counter, tasks)
             /\ Len(todoStore) <= tasks.items /\ todoCounter \in 0..tasks.counter
  <2>1. /\ todoCounter \in Nat /\ tasks.counter \in Nat /\ todoCounter <= tasks.counter
        /\ todoStore \in Seq(TasksOf(tasks.ids \cup 1..todoCounter, tasks))
    BY <1>1 DEF TodoInv, TodoLists, TodoConstants
  <2>2. todoStore \in Seq(TasksOf(tasks.ids \cup 1..tasks.counter, tasks))
    BY <2>1, TasksGrow
  <2> HIDE DEF TasksOf
  <2>3. \A i \in DOMAIN todoStore : todoStore[i] \in TasksOf(tasks.ids \cup 1..tasks.counter, tasks)
    BY <2>2
  <2>4. Len(todoStore) <= tasks.items
    BY <1>1 DEF TodoInv
  <2>5. todoCounter \in 0..tasks.counter
    BY <2>1
  <2> QED
    BY <2>3, <2>4, <2>5
<1>2. TodoInv(DependentTasks) => Dependent!TypeOK
  BY <1>1, TodoConstantsHold
     DEF Dependent!TypeOK, Dependent!Range, Dependent!Items, Dependent!Statuses, TasksOf, TaskStatuses
<1>3. TodoInv(SeveralTasks) => Several!TypeOK
  BY <1>1, TodoConstantsHold
     DEF Several!TypeOK, Several!Range, Several!Items, Several!Statuses, TasksOf, TaskStatuses
<1>4. TodoInv(PlannedTasks) => Planned!TypeOK
  BY <1>1, TodoConstantsHold
     DEF Planned!TypeOK, Planned!Range, Planned!Items, Planned!Statuses, TasksOf, TaskStatuses
<1> QED
  BY <1>2, <1>3, <1>4

-----------------------------------------------------------------------------
(***************************************************************************)
(* The plan.  Each loop of TodoExecute is a function h of the number of    *)
(* items it has seen.                                                      *)
(***************************************************************************)

ReadyStep(ready, x, store) ==
  IF x.status = "pending" /\ Planned!AllDepsMet(x, store) THEN Append(ready, x) ELSE ready

LEMMA ReadyIterates ==
  ASSUME NEW E, NEW store \in Seq(E)
  PROVE  \E h \in [0..Len(store) -> Seq(E)] :
           /\ h[0] = <<>>
           /\ \A n \in 0..(Len(store) - 1) : h[n + 1] = ReadyStep(h[n], store[n + 1], store)
           /\ Planned!Ready(store) = h[Len(store)]
<1> DEFINE V == Seq(E)
           Equation(f) ==
             f = [s \in SUBSET DOMAIN store |->
                    IF s = {} THEN <<>>
                    ELSE ReadyStep(f[s \ {Greatest(s)}], store[Greatest(s)], store)]
           op == [p \in V \X E |-> ReadyStep(p[1], p[2], store)]
           iter == CHOOSE f : Equation(f)
           h == [n \in 0..Len(store) |-> iter[1..n]]
<1>0. /\ Len(store) \in Nat /\ DOMAIN store = 1..Len(store)
      /\ \A k \in 1..Len(store) : store[k] \in E
  OBVIOUS
<1>w. \A v \in V, e \in E : ReadyStep(v, e, store) \in V
  BY DEF ReadyStep
<1>1. \E f : Equation(f) /\ f \in [SUBSET (1..Len(store)) -> V]
  <2>0. <<>> \in V
    OBVIOUS
  <2> HIDE DEF V
  <2>1. op \in [V \X E -> V]
    BY <1>w
  <2>2. \A v \in V, e \in E : op[<<v, e>>] = ReadyStep(v, e, store)
    OBVIOUS
  <2> HIDE DEF op, Equation, iter
  <2>3. PICK f : Iterates(f, V, op, <<>>, store)
    BY <2>0, <2>1, IterationExists
  <2>4. ASSUME NEW s \in SUBSET (1..Len(store)), s # {}
        PROVE  op[<<f[s \ {Greatest(s)}], store[Greatest(s)]>>]
                 = ReadyStep(f[s \ {Greatest(s)}], store[Greatest(s)], store)
    <3>1. Greatest(s) \in 1..Len(store)
      BY <1>0, <2>4, GreatestIsGreatest
    <3>2. store[Greatest(s)] \in E /\ f[s \ {Greatest(s)}] \in V
      BY <1>0, <2>3, <3>1 DEF Iterates
    <3> QED
      BY <2>2, <3>2
  <2>5. Equation(f)
    BY <1>0, <2>3, <2>4 DEF Equation, Iterates
  <2> QED
    BY <2>3, <2>5 DEF Iterates
<1>2. Equation(iter)
  <2> HIDE DEF Equation
  <2> QED
    BY <1>1
<1>3. Planned!Ready(store) = iter[DOMAIN store]
  BY DEF Planned!Ready, ReadyStep, Planned!FoldLeft, Planned!MapThenFoldSet, Planned!Max, Greatest
<1> HIDE DEF iter, V
<1>4. iter[1..0] = <<>>
  <2>1. 1..0 = {} /\ {} \in SUBSET DOMAIN store
    OBVIOUS
  <2> QED
    BY <1>2, <2>1
<1>5. ASSUME NEW n \in Nat, n + 1 <= Len(store)
      PROVE  iter[1..(n + 1)] = ReadyStep(iter[1..n], store[n + 1], store)
  <2>0. n + 1 \in 1..Len(store) /\ (n + 1) - 1 = n /\ n + 1 \in Nat /\ n + 1 # 0
    BY <1>0, <1>5
  <2>1. 1..(n + 1) \in SUBSET DOMAIN store /\ 1..(n + 1) # {}
    <3>1. n + 1 \in 1..(n + 1) /\ 1..(n + 1) \subseteq 1..Len(store)
      BY <1>0, <2>0
    <3> QED
      BY <1>0, <3>1
  <2>2. Greatest(1..(n + 1)) = n + 1 /\ (1..(n + 1)) \ {n + 1} = 1..n
    BY <2>0, GreatestOfRange
  <2> QED
    BY <1>2, <2>1, <2>2
<1> HIDE DEF Equation
<1> DEFINE Reached == {n \in Nat : n > Len(store) \/ iter[1..n] \in V}
<1>6. \A n \in Nat : n \in Reached
  <2>0. <<>> \in V
    BY DEF V
  <2>1. 0 \in Reached
    BY <1>4, <2>0
  <2>2. ASSUME NEW n \in Nat, n \in Reached PROVE n + 1 \in Reached
    <3>1. CASE n + 1 > Len(store)
      BY <3>1
    <3>2. CASE n + 1 <= Len(store)
      <4>1. n \in 0..(Len(store) - 1) /\ n + 1 \in 1..Len(store) /\ iter[1..n] \in V
        BY <1>0, <2>2, <3>2
      <4> QED
        BY <1>0, <1>5, <1>w, <4>1
    <3> QED
      BY <1>0, <3>1, <3>2
  <2> HIDE DEF Reached
  <2> QED
    BY <2>1, <2>2, NaturalSteps
<1>7. h \in [0..Len(store) -> V]
  BY <1>0, <1>6
<1>8. /\ h[0] = <<>> /\ h[Len(store)] = Planned!Ready(store)
      /\ \A n \in 0..(Len(store) - 1) :
           n \in Nat /\ n + 1 <= Len(store) /\ h[n] = iter[1..n] /\ h[n + 1] = iter[1..(n + 1)]
  BY <1>0, <1>3, <1>4
<1> HIDE DEF h
<1> QED
  BY <1>5, <1>7, <1>8 DEF V

\* How often x occurs among the first n items of s.
Occurs(s, x, n) == Cardinality({i \in 1..n : s[i] = x})

LEMMA OccursNext ==
  ASSUME NEW n \in Nat, NEW s, NEW x
  PROVE  /\ Occurs(s, x, 0) = 0 /\ Occurs(s, x, n) \in Nat
         /\ Occurs(s, x, n + 1) = Occurs(s, x, n) + IF s[n + 1] = x THEN 1 ELSE 0
<1> DEFINE S == {i \in 1..n : s[i] = x}
           T == {i \in 1..(n + 1) : s[i] = x}
<1>1. {i \in 1..0 : s[i] = x} = {}
  OBVIOUS
<1>2. IsFiniteSet(S) /\ Cardinality(S) \in Nat
  <2>1. IsFiniteSet(1..n) /\ S \subseteq 1..n
    BY FS_Interval
  <2> HIDE DEF S
  <2> QED
    BY <2>1, FS_Subset, FS_CardinalityType
<1>3. T = IF s[n + 1] = x THEN S \cup {n + 1} ELSE S
  OBVIOUS
<1>4. n + 1 \notin S
  OBVIOUS
<1> HIDE DEF S, T
<1>5. Cardinality(T) = Cardinality(S) + IF s[n + 1] = x THEN 1 ELSE 0
  BY <1>2, <1>3, <1>4, FS_AddElement
<1> QED
  BY <1>1, <1>2, <1>5, FS_EmptySet DEF Occurs, S, T

LEMMA OccursAlike ==
  ASSUME NEW n \in Nat, NEW s, NEW t, NEW x, \A i \in 1..n : s[i] = t[i]
  PROVE  Occurs(s, x, n) = Occurs(t, x, n)
BY DEF Occurs

\* Of each item that can be done, the list of those has as many as the store.
LEMMA ReadyCounts ==
  ASSUME NEW E, NEW store \in Seq(E), NEW x
  PROVE  /\ Planned!Ready(store) \in Seq(E)
         /\ Occurs(Planned!Ready(store), x, Len(Planned!Ready(store)))
              = IF x.status = "pending" /\ Planned!AllDepsMet(x, store)
                THEN Occurs(store, x, Len(store)) ELSE 0
<1> DEFINE can(y) == y.status = "pending" /\ Planned!AllDepsMet(y, store)
<1>0. Len(store) \in Nat /\ \A k \in 1..Len(store) : store[k] \in E
  OBVIOUS
<1>1. PICK h \in [0..Len(store) -> Seq(E)] :
        /\ h[0] = <<>>
        /\ \A n \in 0..(Len(store) - 1) : h[n + 1] = ReadyStep(h[n], store[n + 1], store)
        /\ Planned!Ready(store) = h[Len(store)]
  BY ReadyIterates
<1> DEFINE Kept == {n \in Nat : n <= Len(store) =>
                      Occurs(h[n], x, Len(h[n])) = IF can(x) THEN Occurs(store, x, n) ELSE 0}
<1>2. 0 \in Kept
  <2>1. Len(h[0]) = 0
    BY <1>1
  <2> QED
    BY <2>1, OccursNext
<1>3. ASSUME NEW n \in Nat, n \in Kept PROVE n + 1 \in Kept
  <2> SUFFICES ASSUME n + 1 <= Len(store) PROVE n + 1 \in Kept
    OBVIOUS
  <2> DEFINE y == store[n + 1]
  <2>1. /\ h[n] \in Seq(E) /\ y \in E /\ n <= Len(store)
        /\ h[n + 1] = IF can(y) THEN Append(h[n], y) ELSE h[n]
    BY <1>0, <1>1 DEF ReadyStep
  <2>2. /\ Occurs(h[n], x, Len(h[n])) = IF can(x) THEN Occurs(store, x, n) ELSE 0
        /\ Occurs(h[n], x, Len(h[n])) \in Nat /\ Occurs(store, x, n) \in Nat
    BY <1>3, <2>1, OccursNext
  <2>3. Occurs(store, x, n + 1) = Occurs(store, x, n) + IF y = x THEN 1 ELSE 0
    BY OccursNext
  <2>4. CASE can(y)
    <3>1. /\ h[n + 1] = Append(h[n], y) /\ Len(h[n]) \in Nat /\ Len(h[n + 1]) = Len(h[n]) + 1
          /\ h[n + 1][Len(h[n]) + 1] = y
          /\ \A i \in 1..Len(h[n]) : h[n + 1][i] = h[n][i]
      BY <2>1, <2>4
    <3>2. /\ Occurs(h[n + 1], x, Len(h[n])) = Occurs(h[n], x, Len(h[n]))
          /\ Occurs(h[n + 1], x, Len(h[n]) + 1)
               = Occurs(h[n + 1], x, Len(h[n])) + IF y = x THEN 1 ELSE 0
      <4> DEFINE m == Len(h[n])
                 t == h[n + 1]
      <4>1. /\ m \in Nat /\ t[m + 1] = y
            /\ \A i \in 1..m : t[i] = h[n][i]
        BY <3>1
      <4> HIDE DEF m, y, can, Kept, t
      <4>2. Occurs(t, x, m) = Occurs(h[n], x, m)
        BY <4>1, OccursAlike
      <4>3. Occurs(t, x, m + 1) = Occurs(t, x, m) + IF t[m + 1] = x THEN 1 ELSE 0
        BY <4>1, OccursNext
      <4> QED
        BY <4>1, <4>2, <4>3 DEF m, t
    <3>3. Occurs(h[n + 1], x, Len(h[n + 1])) = Occurs(h[n], x, Len(h[n])) + IF y = x THEN 1 ELSE 0
      BY <3>1, <3>2
    <3> HIDE DEF can
    <3>4. y = x => can(x)
      BY <2>4
    <3>5. Occurs(h[n + 1], x, Len(h[n + 1])) = IF can(x) THEN Occurs(store, x, n + 1) ELSE 0
      <4> HIDE DEF y
      <4> QED
        BY <2>2, <2>3, <3>3, <3>4
    <3> QED
      BY <3>5
  <2>5. CASE ~can(y)
    <3>1. h[n + 1] = h[n]
      BY <2>1, <2>5
    <3> HIDE DEF can
    <3>4. can(x) => y # x
      BY <2>5
    <3>5. Occurs(h[n + 1], x, Len(h[n + 1])) = IF can(x) THEN Occurs(store, x, n + 1) ELSE 0
      <4> HIDE DEF y
      <4> QED
        BY <2>2, <2>3, <3>1, <3>4
    <3> QED
      BY <3>5
  <2> QED
    BY <2>4, <2>5
<1>4. Len(store) \in Kept
  <2> HIDE DEF Kept
  <2> QED
    BY <1>0, <1>2, <1>3, NaturalSteps
<1> QED
  BY <1>0, <1>1, <1>4

InnerStep(t, i, j) == IF t[j].priority < t[i].priority THEN Planned!Swapped(t, i, j) ELSE t

InnerRun(h, V, s, i, n) ==
  /\ h \in [0..(n - i) -> V] /\ h[0] = s
  /\ \A k \in 0..(n - i - 1) : h[k + 1] = InnerStep(h[k], i, i + k + 1)
  /\ Planned!InnerLoop(s, i) = h[n - i]

LEMMA InnerLoopIterates ==
  ASSUME NEW E, NEW n \in Nat, NEW s \in [1..n -> E], NEW i \in 1..n
  PROVE  \E h : InnerRun(h, [1..n -> E], s, i, n)
<1> DEFINE V == [1..n -> E]
           J == 1..n
           behind == [k \in 1..(Len(s) - i) |-> i + k]
           Equation(f) ==
             f = [S \in SUBSET DOMAIN behind |->
                    IF S = {} THEN s
                    ELSE InnerStep(f[S \ {Greatest(S)}], i, behind[Greatest(S)])]
           op == [p \in V \X J |-> InnerStep(p[1], i, p[2])]
           iter == CHOOSE f : Equation(f)
           m == n - i
           h == [k \in 0..m |-> iter[1..k]]
<1>0. /\ m \in Nat /\ DOMAIN behind = 1..m /\ behind \in Seq(J) /\ Len(behind) = m
      /\ \A k \in 1..m : behind[k] = i + k /\ behind[k] \in J
  <2>1. Len(s) = n /\ m \in Nat
    OBVIOUS
  <2>2. \A k \in 1..m : behind[k] = i + k /\ behind[k] \in J
    BY <2>1
  <2>3. behind \in [1..m -> J] /\ DOMAIN behind = 1..m
    BY <2>1, <2>2
  <2> HIDE DEF behind, m, J
  <2> QED
    BY <2>1, <2>2, <2>3
<1>w. \A v \in V, j \in J : InnerStep(v, i, j) \in V
  BY DEF InnerStep, Planned!Swapped
<1> HIDE DEF behind, m
<1>1. \E f : Equation(f) /\ f \in [SUBSET (1..m) -> V]
  <2> HIDE DEF V, J
  <2>1. op \in [V \X J -> V]
    BY <1>w
  <2>2. \A v \in V, j \in J : op[<<v, j>>] = InnerStep(v, i, j)
    OBVIOUS
  <2> HIDE DEF op, Equation, iter
  <2>3. PICK f : Iterates(f, V, op, s, behind)
    <3>1. s \in V
      BY DEF V
    <3> QED
      BY <1>0, <2>1, <3>1, IterationExists
  <2>4. ASSUME NEW S \in SUBSET (1..m), S # {}
        PROVE  op[<<f[S \ {Greatest(S)}], behind[Greatest(S)]>>]
                 = InnerStep(f[S \ {Greatest(S)}], i, behind[Greatest(S)])
    <3>1. Greatest(S) \in 1..m
      BY <1>0, <2>4, GreatestIsGreatest
    <3>2. behind[Greatest(S)] \in J /\ f[S \ {Greatest(S)}] \in V
      BY <1>0, <2>3, <3>1 DEF Iterates
    <3> QED
      BY <2>2, <3>2
  <2>5. Equation(f)
    BY <1>0, <2>3, <2>4 DEF Equation, Iterates
  <2> QED
    BY <1>0, <2>3, <2>5 DEF Iterates
<1>2. Equation(iter)
  <2> HIDE DEF Equation
  <2> QED
    BY <1>1
<1>3. Planned!InnerLoop(s, i) = iter[DOMAIN behind]
  BY DEF Planned!InnerLoop, InnerStep, Planned!FoldLeft, Planned!MapThenFoldSet, Planned!Max, Greatest,
         behind
<1> HIDE DEF iter, V
<1>4. iter[1..0] = s
  <2>1. 1..0 = {} /\ {} \in SUBSET DOMAIN behind
    OBVIOUS
  <2> QED
    BY <1>2, <2>1
<1>5. ASSUME NEW k \in Nat, k + 1 <= m
      PROVE  iter[1..(k + 1)] = InnerStep(iter[1..k], i, i + k + 1)
  <2>0. k + 1 \in 1..m /\ (k + 1) - 1 = k /\ k + 1 \in Nat /\ k + 1 # 0
    BY <1>0, <1>5
  <2>1. 1..(k + 1) \in SUBSET DOMAIN behind /\ 1..(k + 1) # {}
    <3>1. k + 1 \in 1..(k + 1) /\ 1..(k + 1) \subseteq 1..m
      BY <1>0, <2>0
    <3> QED
      BY <1>0, <3>1
  <2>2. Greatest(1..(k + 1)) = k + 1 /\ (1..(k + 1)) \ {k + 1} = 1..k
    BY <2>0, GreatestOfRange
  <2>3. iter[1..(k + 1)] = InnerStep(iter[1..k], i, behind[k + 1])
    BY <1>2, <2>1, <2>2
  <2>4. behind[k + 1] = i + k + 1
    BY <1>0, <2>0
  <2> QED
    BY <2>3, <2>4
<1> HIDE DEF Equation
<1> DEFINE Reached == {k \in Nat : k > m \/ iter[1..k] \in V}
<1>6. \A k \in Nat : k \in Reached
  <2>0. s \in V
    BY DEF V
  <2>1. 0 \in Reached
    BY <1>4, <2>0
  <2>2. ASSUME NEW k \in Nat, k \in Reached PROVE k + 1 \in Reached
    <3>1. CASE k + 1 > m
      BY <3>1
    <3>2. CASE k + 1 <= m
      <4>1. k + 1 \in 1..m /\ iter[1..k] \in V /\ i + k + 1 \in J
        <5>1. i + (k + 1) \in J
          BY <1>0, <3>2
        <5> QED
          BY <1>0, <2>2, <3>2, <5>1
      <4> QED
        BY <1>0, <1>5, <1>w, <3>2, <4>1
    <3> QED
      BY <1>0, <3>1, <3>2
  <2> HIDE DEF Reached
  <2> QED
    BY <2>1, <2>2, NaturalSteps
<1>7. h \in [0..m -> V]
  BY <1>0, <1>6
<1>8. /\ h[0] = s /\ h[m] = Planned!InnerLoop(s, i)
      /\ \A k \in 0..(m - 1) :
           k \in Nat /\ k + 1 <= m /\ h[k] = iter[1..k] /\ h[k + 1] = iter[1..(k + 1)]
  BY <1>0, <1>3, <1>4
<1> HIDE DEF h
<1> QED
  BY <1>5, <1>7, <1>8 DEF V, m, InnerRun

LEMMA InnerLoopIsTyped ==
  ASSUME NEW E, NEW n \in Nat, NEW s \in [1..n -> E], NEW i \in 1..n
  PROVE  Planned!InnerLoop(s, i) \in [1..n -> E]
<1>1. n - i \in 0..(n - i)
  OBVIOUS
<1>2. PICK h : InnerRun(h, [1..n -> E], s, i, n)
  BY InnerLoopIterates
<1> QED
  BY <1>1, <1>2 DEF InnerRun

SortRun(h, V, s, n) ==
  /\ h \in [0..n -> V] /\ h[0] = s
  /\ \A k \in 0..(n - 1) : h[k + 1] = Planned!InnerLoop(h[k], k + 1)
  /\ Planned!SortedByPriority(s) = h[n]

LEMMA SortIterates ==
  ASSUME NEW E, NEW n \in Nat, NEW s \in [1..n -> E]
  PROVE  \E h : SortRun(h, [1..n -> E], s, n)
<1> DEFINE V == [1..n -> E]
           J == 1..n
           places == [i \in 1..Len(s) |-> i]
           Equation(f) ==
             f = [S \in SUBSET DOMAIN places |->
                    IF S = {} THEN s
                    ELSE Planned!InnerLoop(f[S \ {Greatest(S)}], places[Greatest(S)])]
           op == [p \in V \X J |-> Planned!InnerLoop(p[1], p[2])]
           iter == CHOOSE f : Equation(f)
           h == [k \in 0..n |-> iter[1..k]]
<1>0. /\ DOMAIN places = 1..n /\ places \in Seq(J) /\ Len(places) = n
      /\ \A k \in 1..n : places[k] = k
  <2>1. places \in [1..n -> J] /\ DOMAIN places = 1..n /\ \A k \in 1..n : places[k] = k
    OBVIOUS
  <2> HIDE DEF places, J
  <2> QED
    BY <2>1
<1>w. \A v \in V, j \in J : Planned!InnerLoop(v, j) \in V
  BY InnerLoopIsTyped
<1> HIDE DEF places
<1>1. \E f : Equation(f) /\ f \in [SUBSET (1..n) -> V]
  <2> HIDE DEF V, J
  <2>1. op \in [V \X J -> V]
    BY <1>w
  <2>2. \A v \in V, j \in J : op[<<v, j>>] = Planned!InnerLoop(v, j)
    OBVIOUS
  <2> HIDE DEF op, Equation, iter
  <2>3. PICK f : Iterates(f, V, op, s, places)
    <3>1. s \in V
      BY DEF V
    <3> QED
      BY <1>0, <2>1, <3>1, IterationExists
  <2>4. ASSUME NEW S \in SUBSET (1..n), S # {}
        PROVE  op[<<f[S \ {Greatest(S)}], places[Greatest(S)]>>]
                 = Planned!InnerLoop(f[S \ {Greatest(S)}], places[Greatest(S)])
    <3>1. Greatest(S) \in 1..n
      BY <1>0, <2>4, GreatestIsGreatest
    <3>2. places[Greatest(S)] \in J /\ f[S \ {Greatest(S)}] \in V
      BY <1>0, <2>3, <3>1 DEF Iterates, J
    <3> QED
      BY <2>2, <3>2
  <2>5. Equation(f)
    BY <1>0, <2>3, <2>4 DEF Equation, Iterates
  <2> QED
    BY <1>0, <2>3, <2>5 DEF Iterates
<1>2. Equation(iter)
  <2> HIDE DEF Equation
  <2> QED
    BY <1>1
<1>3. Planned!SortedByPriority(s) = iter[DOMAIN places]
  BY DEF Planned!SortedByPriority, Planned!FoldLeft, Planned!MapThenFoldSet, Planned!Max, Greatest,
         places
<1> HIDE DEF iter, V
<1>4. iter[1..0] = s
  <2>1. 1..0 = {} /\ {} \in SUBSET DOMAIN places
    OBVIOUS
  <2> QED
    BY <1>2, <2>1
<1>5. ASSUME NEW k \in Nat, k + 1 <= n
      PROVE  iter[1..(k + 1)] = Planned!InnerLoop(iter[1..k], k + 1)
  <2>0. k + 1 \in 1..n /\ (k + 1) - 1 = k /\ k + 1 \in Nat /\ k + 1 # 0
    BY <1>0, <1>5
  <2>1. 1..(k + 1) \in SUBSET DOMAIN places /\ 1..(k + 1) # {}
    <3>1. k + 1 \in 1..(k + 1) /\ 1..(k + 1) \subseteq 1..n
      BY <1>0, <2>0
    <3> QED
      BY <1>0, <3>1
  <2>2. Greatest(1..(k + 1)) = k + 1 /\ (1..(k + 1)) \ {k + 1} = 1..k
    BY <2>0, GreatestOfRange
  <2>3. iter[1..(k + 1)] = Planned!InnerLoop(iter[1..k], places[k + 1])
    BY <1>2, <2>1, <2>2
  <2> QED
    BY <1>0, <2>0, <2>3
<1> HIDE DEF Equation
<1> DEFINE Reached == {k \in Nat : k > n \/ iter[1..k] \in V}
<1>6. \A k \in Nat : k \in Reached
  <2>0. s \in V
    BY DEF V
  <2>1. 0 \in Reached
    BY <1>4, <2>0
  <2>2. ASSUME NEW k \in Nat, k \in Reached PROVE k + 1 \in Reached
    <3>1. CASE k + 1 > n
      BY <3>1
    <3>2. CASE k + 1 <= n
      <4>1. k + 1 \in J /\ iter[1..k] \in V
        BY <2>2, <3>2
      <4> QED
        BY <1>5, <1>w, <3>2, <4>1
    <3> QED
      BY <1>0, <3>1, <3>2
  <2> HIDE DEF Reached
  <2> QED
    BY <2>1, <2>2, NaturalSteps
<1>7. h \in [0..n -> V]
  BY <1>6
<1>8. /\ h[0] = s /\ h[n] = Planned!SortedByPriority(s)
      /\ \A k \in 0..(n - 1) :
           k \in Nat /\ k + 1 <= n /\ h[k] = iter[1..k] /\ h[k + 1] = iter[1..(k + 1)]
  BY <1>0, <1>3, <1>4
<1> HIDE DEF h
<1> QED
  BY <1>5, <1>7, <1>8 DEF V, SortRun

\* Two items that change their places are as often in the list as before.
LEMMA SwappedCounts ==
  ASSUME NEW E, NEW n \in Nat, NEW t \in [1..n -> E], NEW i \in 1..n, NEW j \in 1..n, NEW x
  PROVE  Occurs(Planned!Swapped(t, i, j), x, n) = Occurs(t, x, n)
<1> DEFINE u == Planned!Swapped(t, i, j)
           S == {a \in 1..n : u[a] = x}
           T == {a \in 1..n : t[a] = x}
           other(a) == IF a = i THEN j ELSE IF a = j THEN i ELSE a
           f == [a \in S |-> other(a)]
<1>1. \A a \in 1..n : other(a) \in 1..n /\ other(other(a)) = a
  OBVIOUS
<1>2. \A a \in 1..n : u[a] = t[other(a)]
  BY DEF Planned!Swapped
<1> HIDE DEF u, other
<1>3. f \in [S -> T]
  BY <1>1, <1>2
<1>4. \A a, b \in S : f[a] = f[b] => a = b
  BY <1>1
<1>5. \A c \in T : \E a \in S : f[a] = c
  <2> TAKE c \in T
  <2>1. other(c) \in S /\ f[other(c)] = c
    BY <1>1, <1>2
  <2> QED
    BY <2>1
<1>6. IsFiniteSet(S)
  <2>1. IsFiniteSet(1..n) /\ S \subseteq 1..n
    BY FS_Interval
  <2> HIDE DEF S
  <2> QED
    BY <2>1, FS_Subset
<1> HIDE DEF S, T, f
<1>7. f \in Bijection(S, T)
  BY <1>3, <1>4, <1>5 DEF Bijection, Injection, Surjection, IsInjective
<1>8. Cardinality(T) = Cardinality(S)
  BY <1>6, <1>7, FS_Bijection DEF ExistsBijection
<1> QED
  BY <1>8 DEF Occurs, S, T, u

\* The first m items of t are in order, and before the others.
Settled(t, m, n) == \A a \in 1..m, b \in 1..n : a < b => t[a].priority <= t[b].priority

\* Besides, the i-th item is before those up to the j-th.
Fronted(t, i, j, n) ==
  /\ Settled(t, i - 1, n)
  /\ \A b \in 1..n : i < b /\ b < j => t[i].priority <= t[b].priority

Prioritized(E) == \A e \in E : e.priority \in Nat

SameItems(t, s, n) == \A x : Occurs(t, x, n) = Occurs(s, x, n)

LEMMA InnerStepSettles ==
  ASSUME NEW E, Prioritized(E), NEW n \in Nat, NEW t \in [1..n -> E],
         NEW i \in 1..n, NEW j \in 1..n, i < j, Fronted(t, i, j, n)
  PROVE  /\ InnerStep(t, i, j) \in [1..n -> E]
         /\ Fronted(InnerStep(t, i, j), i, j + 1, n)
         /\ SameItems(InnerStep(t, i, j), t, n)
<1> DEFINE u == InnerStep(t, i, j)
<1>0. /\ \A a \in 1..n : t[a].priority \in Nat
      /\ Settled(t, i - 1, n)
      /\ \A b \in 1..n : i < b /\ b < j => t[i].priority <= t[b].priority
  BY DEF Prioritized, Fronted
<1>1. CASE ~(t[j].priority < t[i].priority)
  <2>1. u = t
    BY <1>1 DEF InnerStep
  <2>2. t[i].priority <= t[j].priority
    BY <1>0, <1>1
  <2>3. \A b \in 1..n : i < b /\ b < j + 1 => b < j \/ b = j
    OBVIOUS
  <2> QED
    BY <1>0, <2>1, <2>2, <2>3 DEF Fronted, SameItems
<1>2. CASE t[j].priority < t[i].priority
  <2>1. u = Planned!Swapped(t, i, j)
    BY <1>2 DEF InnerStep
  <2>2. /\ u \in [1..n -> E] /\ u[i] = t[j] /\ u[j] = t[i]
        /\ \A a \in 1..n : a # i /\ a # j => u[a] = t[a]
    BY <2>1 DEF Planned!Swapped
  <2>3. SameItems(u, t, n)
    <3>1. \A x : Occurs(Planned!Swapped(t, i, j), x, n) = Occurs(t, x, n)
      BY SwappedCounts
    <3> QED
      BY <2>1, <3>1 DEF SameItems
  <2> HIDE DEF u
  <2>4. Settled(u, i - 1, n)
    <3>1. ASSUME NEW a \in 1..(i - 1), NEW b \in 1..n, a < b PROVE u[a].priority <= u[b].priority
      <4>1. u[a] = t[a] /\ a < i /\ a < j
        BY <2>2
      <4>2. t[a].priority <= t[b].priority /\ t[a].priority <= t[i].priority
            /\ t[a].priority <= t[j].priority
        BY <1>0, <3>1, <4>1 DEF Settled
      <4>3. u[b] \in {t[b], t[i], t[j]}
        BY <2>2
      <4> QED
        BY <4>1, <4>2, <4>3
    <3> QED
      BY <3>1 DEF Settled
  <2>5. ASSUME NEW b \in 1..n, i < b, b < j + 1 PROVE u[i].priority <= u[b].priority
    <3>1. CASE b = j
      BY <1>0, <1>2, <2>2, <3>1
    <3>2. CASE b # j
      <4>1. b < j /\ u[b] = t[b] /\ t[i].priority <= t[b].priority
        BY <1>0, <2>2, <2>5, <3>2
      <4> QED
        BY <1>0, <1>2, <2>2, <4>1
    <3> QED
      BY <3>1, <3>2
  <2> QED
    BY <2>2, <2>3, <2>4, <2>5 DEF u, Fronted
<1> QED
  BY <1>1, <1>2

LEMMA InnerLoopSettles ==
  ASSUME NEW E, Prioritized(E), NEW n \in Nat, NEW s \in [1..n -> E],
         NEW i \in 1..n, Settled(s, i - 1, n)
  PROVE  /\ Planned!InnerLoop(s, i) \in [1..n -> E]
         /\ Settled(Planned!InnerLoop(s, i), i, n)
         /\ SameItems(Planned!InnerLoop(s, i), s, n)
<1> DEFINE m == n - i
<1>0. m \in Nat /\ m \in 0..m
  OBVIOUS
<1>1. PICK h : InnerRun(h, [1..n -> E], s, i, n)
  BY InnerLoopIterates
<1>2. /\ h \in [0..m -> [1..n -> E]] /\ h[0] = s
      /\ \A k \in 0..(m - 1) : h[k + 1] = InnerStep(h[k], i, i + k + 1)
      /\ Planned!InnerLoop(s, i) = h[m]
  BY <1>1 DEF InnerRun
<1> DEFINE Reached == {k \in Nat : k <= m => Fronted(h[k], i, i + k + 1, n) /\ SameItems(h[k], s, n)}
<1>3. 0 \in Reached
  <2>1. \A b \in 1..n : ~(i < b /\ b < i + 0 + 1)
    OBVIOUS
  <2> QED
    BY <1>2, <2>1 DEF Fronted, SameItems
<1>4. ASSUME NEW k \in Nat, k \in Reached PROVE k + 1 \in Reached
  <2> SUFFICES ASSUME k + 1 <= m PROVE k + 1 \in Reached
    OBVIOUS
  <2> DEFINE j == i + k + 1
  <2>1. /\ k \in 0..m /\ k \in 0..(m - 1) /\ j \in 1..n /\ i < j /\ i + (k + 1) + 1 = j + 1
    BY <1>0
  <2>2. h[k] \in [1..n -> E] /\ h[k + 1] = InnerStep(h[k], i, j)
    BY <1>2, <2>1
  <2>3. Fronted(h[k], i, j, n) /\ SameItems(h[k], s, n)
    BY <1>4, <2>1
  <2> HIDE DEF j, m, Reached
  <2>4. Fronted(h[k + 1], i, j + 1, n) /\ SameItems(h[k + 1], h[k], n)
    BY <2>1, <2>2, <2>3, InnerStepSettles
  <2> QED
    BY <2>1, <2>3, <2>4 DEF Reached, SameItems
<1>5. m \in Reached
  <2> HIDE DEF Reached, m
  <2> QED
    BY <1>0, <1>3, <1>4, NaturalSteps
<1> DEFINE t == h[m]
<1>6. Fronted(t, i, i + m + 1, n) /\ SameItems(t, s, n) /\ t \in [1..n -> E]
  BY <1>0, <1>2, <1>5
<1>7. Settled(t, i, n)
  <2> HIDE DEF t
  <2>1. \A a \in 1..i : a \in 1..(i - 1) \/ a = i
    OBVIOUS
  <2>2. \A b \in 1..n : b < i + m + 1
    OBVIOUS
  <2> QED
    BY <1>6, <2>1, <2>2 DEF Settled, Fronted
<1> QED
  BY <1>2, <1>6, <1>7

\* What the two loops leave is in order and has what they were given.
LEMMA SortedIsInOrder ==
  ASSUME NEW E, Prioritized(E), NEW n \in Nat, NEW s \in [1..n -> E]
  PROVE  /\ Planned!SortedByPriority(s) \in [1..n -> E]
         /\ Settled(Planned!SortedByPriority(s), n, n)
         /\ SameItems(Planned!SortedByPriority(s), s, n)
<1>1. PICK h : SortRun(h, [1..n -> E], s, n)
  BY SortIterates
<1>2. /\ h \in [0..n -> [1..n -> E]] /\ h[0] = s
      /\ \A k \in 0..(n - 1) : h[k + 1] = Planned!InnerLoop(h[k], k + 1)
      /\ Planned!SortedByPriority(s) = h[n]
  BY <1>1 DEF SortRun
<1> DEFINE Reached == {k \in Nat : k <= n => Settled(h[k], k, n) /\ SameItems(h[k], s, n)}
<1>3. 0 \in Reached
  BY <1>2 DEF Settled, SameItems
<1>4. ASSUME NEW k \in Nat, k \in Reached PROVE k + 1 \in Reached
  <2> SUFFICES ASSUME k + 1 <= n PROVE k + 1 \in Reached
    OBVIOUS
  <2>1. k \in 0..n /\ k \in 0..(n - 1) /\ k + 1 \in 1..n /\ (k + 1) - 1 = k /\ k <= n
    OBVIOUS
  <2>2. h[k] \in [1..n -> E] /\ h[k + 1] = Planned!InnerLoop(h[k], k + 1)
    BY <1>2, <2>1
  <2>3. Settled(h[k], (k + 1) - 1, n) /\ SameItems(h[k], s, n)
    BY <1>4, <2>1
  <2> HIDE DEF Reached
  <2>4. Settled(h[k + 1], k + 1, n) /\ SameItems(h[k + 1], h[k], n)
    <3> DEFINE i == k + 1
    <3>1. i \in 1..n /\ Settled(h[k], i - 1, n)
      BY <2>1, <2>3
    <3> HIDE DEF i
    <3>2. Settled(Planned!InnerLoop(h[k], i), i, n) /\ SameItems(Planned!InnerLoop(h[k], i), h[k], n)
      BY <2>2, <3>1, InnerLoopSettles
    <3> QED
      BY <2>2, <3>2 DEF i
  <2> QED
    BY <2>3, <2>4 DEF Reached, SameItems
<1>5. n \in Reached
  <2> HIDE DEF Reached
  <2> QED
    BY <1>3, <1>4, NaturalSteps
<1> QED
  BY <1>2, <1>5

Can(x, store) == x.status = "pending" /\ Planned!AllDepsMet(x, store)

LEMMA PlanOfStore ==
  ASSUME NEW E, Prioritized(E), NEW store \in Seq(E)
  PROVE  LET p == Planned!Plan(store)
         IN  /\ p \in Seq(E) /\ Settled(p, Len(p), Len(p))
             /\ \A x : Occurs(p, x, Len(p)) = IF Can(x, store) THEN Occurs(store, x, Len(store)) ELSE 0
<1> DEFINE ready == Planned!Ready(store)
           p == Planned!Plan(store)
           n == Len(ready)
<1>1. ready \in Seq(E) /\ n \in Nat /\ ready \in [1..n -> E]
  <2>1. ready \in Seq(E)
    BY ReadyCounts
  <2> HIDE DEF ready
  <2> QED
    BY <2>1
<1>2. p = Planned!SortedByPriority(ready)
  BY DEF Planned!Plan
<1> HIDE DEF ready, p, n
<1>3. p \in [1..n -> E] /\ Settled(p, n, n) /\ SameItems(p, ready, n)
  BY <1>1, <1>2, SortedIsInOrder
<1>4. p \in Seq(E) /\ Len(p) = n
  BY <1>1, <1>3
<1>5. ASSUME NEW x
      PROVE  Occurs(p, x, n) = IF Can(x, store) THEN Occurs(store, x, Len(store)) ELSE 0
  <2>1. Occurs(p, x, n) = Occurs(ready, x, n)
    BY <1>3 DEF SameItems
  <2>2. Occurs(ready, x, Len(ready))
          = IF x.status = "pending" /\ Planned!AllDepsMet(x, store)
            THEN Occurs(store, x, Len(store)) ELSE 0
    BY ReadyCounts DEF ready
  <2> QED
    BY <2>1, <2>2 DEF Can, n
<1> QED
  BY <1>3, <1>4, <1>5 DEF p

LEMMA SamePlan ==
  \A store : Dependent!Plan(store) = Planned!Plan(store) /\ Several!Plan(store) = Planned!Plan(store)
BY DEF Planned!Plan, Planned!SortedByPriority, Planned!InnerLoop, Planned!Swapped, Planned!Ready,
       Planned!AllDepsMet, Planned!completedSet, Planned!Range,
       Planned!FoldLeft, Planned!MapThenFoldSet, Planned!Max,
       Dependent!Plan, Dependent!SortedByPriority, Dependent!InnerLoop, Dependent!Swapped,
       Dependent!Ready, Dependent!AllDepsMet, Dependent!completedSet, Dependent!Range,
       Dependent!FoldLeft, Dependent!MapThenFoldSet, Dependent!Max,
       Several!Plan, Several!SortedByPriority, Several!InnerLoop, Several!Swapped, Several!Ready,
       Several!AllDepsMet, Several!completedSet, Several!Range,
       Several!FoldLeft, Several!MapThenFoldSet, Several!Max

\* The list that TodoInv describes, as the theorems about plans take it.
LEMMA StoreOfTasks ==
  ASSUME NEW tasks, TodoConstants(tasks), TodoInv(tasks)
  PROVE  /\ todoStore \in Seq(TasksOf(Nat, tasks)) /\ Prioritized(TasksOf(Nat, tasks))
         /\ \A i \in DOMAIN todoStore : todoStore[i].status \in TaskStatuses
<1>1. todoStore \in Seq(TasksOf(Nat, tasks))
  BY DEF TodoInv, TodoLists
<1>2. Prioritized(TasksOf(Nat, tasks))
  BY DEF Prioritized, TasksOf, TodoConstants
<1>3. \A e \in TasksOf(Nat, tasks) : e.status \in TaskStatuses
  BY DEF TasksOf
<1> DEFINE E == TasksOf(Nat, tasks)
<1>4. todoStore \in Seq(E) /\ \A e \in E : e.status \in TaskStatuses
  BY <1>1, <1>3
<1> HIDE DEF E
<1>5. \A i \in DOMAIN todoStore : todoStore[i].status \in TaskStatuses
  BY <1>4
<1> QED
  BY <1>1, <1>2, <1>5

LEMMA SamePlannedCardinality == \A S : Planned!Cardinality(S) = Cardinality(S)
BY Zenon DEF Cardinality, Planned!Cardinality

LEMMA PlanIsInOrder == ASSUME TodoInv(PlannedTasks) PROVE Planned!PlanIsInPriorityOrder
<1> DEFINE E == TasksOf(Nat, PlannedTasks)
           p == Planned!Plan(todoStore)
<1>1. todoStore \in Seq(E) /\ Prioritized(E)
  BY TodoConstantsHold, StoreOfTasks
<1> HIDE DEF E
<1>2. /\ p \in Seq(E) /\ Settled(p, Len(p), Len(p))
      /\ \A x : Occurs(p, x, Len(p))
                  = IF Can(x, todoStore) THEN Occurs(todoStore, x, Len(todoStore)) ELSE 0
  BY <1>1, PlanOfStore
<1> HIDE DEF p
<1>3. /\ DOMAIN p = 1..Len(p) /\ DOMAIN todoStore = 1..Len(todoStore)
  BY <1>1, <1>2
<1>4. \A i, j \in DOMAIN p : i < j => p[i].priority <= p[j].priority
  BY <1>2, <1>3 DEF Settled
<1>5. ASSUME NEW x \in Planned!Range(todoStore)
      PROVE  Planned!Cardinality({i \in DOMAIN p : p[i] = x})
               = IF x.status = "pending"
                    /\ \A d \in x.deps : \E y \in Planned!Range(todoStore) : y.id = d /\ y.status = "completed"
                 THEN Planned!Cardinality({i \in DOMAIN todoStore : todoStore[i] = x}) ELSE 0
  <2>1. /\ Planned!Cardinality({i \in DOMAIN p : p[i] = x}) = Occurs(p, x, Len(p))
        /\ Planned!Cardinality({i \in DOMAIN todoStore : todoStore[i] = x})
             = Occurs(todoStore, x, Len(todoStore))
    BY <1>3, SamePlannedCardinality DEF Occurs
  <2>2. Can(x, todoStore) <=>
          x.status = "pending"
          /\ \A d \in x.deps : \E y \in Planned!Range(todoStore) : y.id = d /\ y.status = "completed"
    BY DEF Can, Planned!AllDepsMet, Planned!completedSet
  <2>3. Occurs(p, x, Len(p)) = IF Can(x, todoStore) THEN Occurs(todoStore, x, Len(todoStore)) ELSE 0
    BY <1>2
  <2> QED
    BY <2>1, <2>2, <2>3
<1> QED
  BY <1>4, <1>5 DEF Planned!PlanIsInPriorityOrder, p

\* An item that can be done is in the plan.
LEMMA PlanIsNotEmpty ==
  ASSUME NEW tasks, TodoConstants(tasks), TodoInv(tasks),
         NEW i \in DOMAIN todoStore, Can(todoStore[i], todoStore)
  PROVE  Planned!Plan(todoStore) # <<>>
<1> DEFINE E == TasksOf(Nat, tasks)
           p == Planned!Plan(todoStore)
           x == todoStore[i]
           S == {k \in 1..Len(todoStore) : todoStore[k] = x}
<1>1. todoStore \in Seq(E) /\ Prioritized(E)
  BY StoreOfTasks
<1> HIDE DEF E
<1>2. \A y : Occurs(p, y, Len(p))
               = IF Can(y, todoStore) THEN Occurs(todoStore, y, Len(todoStore)) ELSE 0
  BY <1>1, PlanOfStore
<1>3. Occurs(p, x, Len(p)) = Occurs(todoStore, x, Len(todoStore))
  BY <1>2
<1>4. Len(todoStore) \in Nat /\ i \in S
  BY <1>1
<1>5. IsFiniteSet(S)
  <2>1. IsFiniteSet(1..Len(todoStore)) /\ S \subseteq 1..Len(todoStore)
    BY <1>4, FS_Interval
  <2> HIDE DEF S
  <2> QED
    BY <2>1, FS_Subset
<1>6. Cardinality(S) # 0
  <2> HIDE DEF S
  <2> QED
    BY <1>4, <1>5, FS_EmptySet
<1>7. Occurs(p, x, Len(p)) # 0
  BY <1>3, <1>6 DEF Occurs
<1> HIDE DEF x
<1>8. ASSUME p = <<>> PROVE FALSE
  <2>1. Len(p) = 0
    BY <1>8
  <2>2. Occurs(p, x, 0) = 0
    BY OccursNext, 0 \in Nat
  <2> QED
    BY <1>7, <2>1, <2>2
<1> QED
  BY <1>8

\* What StuckForAReason says of a list.
MayStop(plan) ==
  LET all == {todoStore[i] : i \in DOMAIN todoStore}
      pending == {x \in all : x.status = "pending"}
      settled(d) == \E y \in all : y.id = d /\ y.status # "cancelled"
  IN /\ pending # {}
     /\ \A x \in all : x.status # "in_progress"
     /\ \A S \in SUBSET pending : ~(S # {} /\ \A x \in S : \E d \in x.deps, y \in S : y.id = d)
     /\ \A x \in pending : \A d \in x.deps : settled(d)
     => plan # <<>>

LEMMA StopsForAReason ==
  ASSUME NEW tasks, TodoConstants(tasks), TodoInv(tasks)
  PROVE  MayStop(Planned!Plan(todoStore))
<1> DEFINE all == {todoStore[i] : i \in DOMAIN todoStore}
           pending == {x \in all : x.status = "pending"}
<1> SUFFICES ASSUME pending # {},
                    \A x \in all : x.status # "in_progress",
                    ~(\A x \in pending : \E d \in x.deps, y \in pending : y.id = d),
                    \A x \in pending : \A d \in x.deps :
                      \E y \in all : y.id = d /\ y.status # "cancelled"
             PROVE  Planned!Plan(todoStore) # <<>>
  BY DEF MayStop
<1>1. PICK x \in pending : \A d \in x.deps, y \in pending : y.id # d
  OBVIOUS
<1>2. \A y \in all : y.status \in TaskStatuses
  BY StoreOfTasks
<1>3. ASSUME NEW d \in x.deps PROVE \E y \in all : y.id = d /\ y.status = "completed"
  <2>1. PICK y \in all : y.id = d /\ y.status # "cancelled"
    OBVIOUS
  <2>2. y.status # "pending" /\ y.status # "in_progress"
    BY <1>1, <2>1
  <2> QED
    BY <1>2, <2>1, <2>2 DEF TaskStatuses
<1>4. Can(x, todoStore)
  BY <1>1, <1>3 DEF Can, Planned!AllDepsMet, Planned!completedSet, Planned!Range
<1>5. PICK i \in DOMAIN todoStore : x = todoStore[i]
  OBVIOUS
<1> QED
  BY <1>4, <1>5, PlanIsNotEmpty

LEMMA DependentStops == ASSUME TodoInv(DependentTasks) PROVE Dependent!StuckForAReason
<1>1. MayStop(Dependent!Plan(todoStore))
  BY TodoConstantsHold, StopsForAReason, SamePlan
<1> QED
  BY <1>1 DEF MayStop, Dependent!StuckForAReason, Dependent!WaitForEachOther, Dependent!Range

LEMMA SeveralStops == ASSUME TodoInv(SeveralTasks) PROVE Several!StuckForAReason
<1>1. MayStop(Several!Plan(todoStore))
  BY TodoConstantsHold, StopsForAReason, SamePlan
<1> QED
  BY <1>1 DEF MayStop, Several!StuckForAReason, Several!WaitForEachOther, Several!Range

TodoOfScope ==
  /\ scope = "dependent" => TodoInv(DependentTasks)
  /\ scope = "several" => TodoInv(SeveralTasks)
  /\ scope = "planned" => TodoInv(PlannedTasks)

LEMMA TodoStays ==
  ASSUME UNCHANGED todoVars, NEW tasks, TodoInv(tasks) PROVE TodoInv(tasks)'
BY DEF todoVars, TodoInv

LEMMA TodoOfScopeStep == ASSUME TodoOfScope, [MCNext]_allVars PROVE TodoOfScope'
<1>1. scope' = scope
  BY DEF MCNext, allVars
<1>2. ASSUME scope = "dependent" PROVE TodoInv(DependentTasks)'
  <2>1. TodoInv(DependentTasks)
    BY <1>2 DEF TodoOfScope
  <2>2. Dependent!Next \/ UNCHANGED todoVars
    BY <1>2 DEF MCNext, allVars, otherVars
  <2> QED
    BY <2>1, <2>2, DependentStep, TodoStays
<1>3. ASSUME scope = "several" PROVE TodoInv(SeveralTasks)'
  <2>1. TodoInv(SeveralTasks)
    BY <1>3 DEF TodoOfScope
  <2>2. Several!Next \/ UNCHANGED todoVars
    BY <1>3 DEF MCNext, allVars, otherVars
  <2> QED
    BY <2>1, <2>2, SeveralStep, TodoStays
<1>4. ASSUME scope = "planned" PROVE TodoInv(PlannedTasks)'
  <2>1. TodoInv(PlannedTasks)
    BY <1>4 DEF TodoOfScope
  <2>2. Planned!Next \/ UNCHANGED todoVars
    BY <1>4 DEF MCNext, allVars, otherVars
  <2> QED
    BY <2>1, <2>2, PlannedStep, TodoStays
<1> QED
  BY <1>1, <1>2, <1>3, <1>4 DEF TodoOfScope

\* For any identifiers, priorities and numbers of items: a plan has each item
\* that can be done as often as the list, in the order of its priorities, and is
\* empty only if the items that are left wait for each other, or for one that
\* is cancelled or not there.
THEOREM PlansAreKeptSound == MCSpec => []PlansAreSound
<1>1. MCInit => TodoOfScope
  BY TodoInit, TodoConstantsHold DEF MCInit, TodoOfScope
<1>2. TodoOfScope /\ [MCNext]_allVars => TodoOfScope'
  BY TodoOfScopeStep
<1>3. TodoOfScope => PlansAreSound
  BY TodoIsTyped, DependentStops, SeveralStops, PlanIsInOrder DEF TodoOfScope, PlansAreSound
<1> QED
  BY <1>1, <1>2, <1>3, PTL DEF MCSpec

=============================================================================
