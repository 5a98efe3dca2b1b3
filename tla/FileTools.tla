------------------------------ MODULE FileTools ------------------------------
(***************************************************************************)
(* FileEdit of tools/edit.go and Write of tools/write.go on one file, used *)
(* by calls of several agents, a disk on which calls may fail, and a       *)
(* process that may end at any moment.                                     *)
(*                                                                         *)
(* A file is a sequence of words and old_string is one of them.  os.Stat,  *)
(* os.ReadFile and the two halves of os.WriteFile, the open that truncates *)
(* and the write from the start, are steps of their own; nothing locks.    *)
(* Every change has a later modification time than the one before; two     *)
(* units of time are the second that RFC 3339 without a fraction counts.   *)
(***************************************************************************)
EXTENDS SequencesExt, Integers

CONSTANTS
  Callers,  \* goroutines that call the tools
  Edits,    \* old_string, new_string and the most places to replace (-1: all)
  Texts,    \* contents that are written or appended
  First,    \* what the file contains at first
  MaxTime   \* bound: no call begins later

FilesAssumption ==
  /\ Edits \subseteq [old : STRING, new : STRING, limit : {-1} \cup (Nat \ {0})]
  /\ Edits # {}
  /\ First \in Seq(STRING) /\ Texts \subseteq Seq(STRING)
  /\ MaxTime \in Nat

VARIABLES
  file,      \* the content of the file
  modified,  \* its modification time
  at,        \* where each caller is
  doing,     \* the edit it makes, and whether last_read_time is given
  held,      \* the content it has read, or is to write
  looked,    \* the content and the time of the file when its agent last looked
  expected,  \* history variable: the content had each call been alone, and its write
             \*   got as far as it did, until two calls overlap
  disturbed  \* history variable: two calls overlapped

callVars == <<at, doing, held, looked>>
vars == <<file, modified, callVars, expected, disturbed>>

NoEdit == [edit |-> CHOOSE e \in Edits : TRUE, stamped |-> FALSE, rewrites |-> FALSE]

Init ==
  /\ file = First /\ expected = First
  /\ modified = 0
  /\ at = [c \in Callers |-> "idle"]
  /\ doing = [c \in Callers |-> NoEdit]
  /\ held = [c \in Callers |-> <<>>]
  /\ looked = [c \in Callers |-> [content |-> First, time |-> 0]]
  /\ disturbed = FALSE

-----------------------------------------------------------------------------

\* Mutation: strings.ReplaceAll whatever the limit.
Replaced_All(content, edit) ==
  [i \in DOMAIN content |-> IF content[i] = edit.old THEN edit.new ELSE content[i]]

Places(content, word, i) == {k \in 1..i : content[k] = word}

\* strings.Replace and ReplaceAll: the first places, up to the limit.
Replaced(content, edit) ==
  [i \in DOMAIN content |->
     IF content[i] = edit.old
        /\ (edit.limit = -1 \/ Cardinality(Places(content, edit.old, i)) <= edit.limit)
     THEN edit.new ELSE content[i]]

\* What the call is to leave in a file that contains this.
Outcome(c, content) ==
  IF doing[c].rewrites THEN held[c] ELSE Replaced(content, doing[c].edit)

Disturbs == \E c, d \in Callers : c # d /\ at'[c] # "idle" /\ at'[d] # "idle"

\* A write begins at the start of the file, over what others left there.
Overwritten(text) == text \o SubSeq(file, Len(text) + 1, Len(file))

Touch == \E passed \in {1, 2} : modified' = modified + passed

\* What a call holds goes with it.
Return(c) ==
  /\ at' = [at EXCEPT ![c] = "idle"]
  /\ doing' = [doing EXCEPT ![c] = NoEdit]
  /\ held' = [held EXCEPT ![c] = <<>>]

Expect(content) == expected' = IF disturbed THEN expected ELSE content

\* External: the agent reads the file and asks a shell for its time; Read does
\* not tell it, and what Ls tells does not parse.
Look(c) ==
  /\ at[c] = "idle"
  /\ looked' = [looked EXCEPT ![c] = [content |-> file, time |-> modified]]
  /\ UNCHANGED <<file, modified, at, doing, held, expected, disturbed>>

\* Mutation: whole seconds are compared.
IsStale_Seconds(c) == modified \div 2 > looked[c].time \div 2

\* ModTime().After(lastReadTime), which has lost its fraction.
IsStale(c) == modified > 2 * (looked[c].time \div 2)

\* The staleness check, if there is a time to compare with.
Check(c) ==
  /\ at[c] = "idle" /\ modified < MaxTime
  /\ \E edit \in Edits, stamped \in BOOLEAN :
       /\ stamped => ~IsStale(c)
       /\ doing' = [doing EXCEPT ![c] = [edit |-> edit, stamped |-> stamped, rewrites |-> FALSE]]
  /\ at' = [at EXCEPT ![c] = "checked"]
  /\ disturbed' = (disturbed \/ Disturbs)
  /\ UNCHANGED <<file, modified, held, looked, expected>>

\* An old_string that is not in the file is an error.
ReadFile(c) ==
  /\ at[c] = "checked"
  /\ IF Contains(file, doing[c].edit.old)
     THEN /\ held' = [held EXCEPT ![c] = file]
          /\ at' = [at EXCEPT ![c] = "write"]
          /\ UNCHANGED doing
     ELSE Return(c)
  /\ UNCHANGED <<file, modified, looked, expected, disturbed>>

\* Write without append: os.Create and WriteString are the steps of WriteFile.
Write(c) ==
  /\ at[c] = "idle" /\ modified < MaxTime
  /\ \E text \in Texts : held' = [held EXCEPT ![c] = text]
  /\ doing' = [doing EXCEPT ![c] = [NoEdit EXCEPT !.rewrites = TRUE]]
  /\ at' = [at EXCEPT ![c] = "write"]
  /\ disturbed' = (disturbed \/ Disturbs)
  /\ UNCHANGED <<file, modified, looked, expected>>

\* Mutation: the file is opened without O_TRUNC.
Truncate_Keeps(c) ==
  /\ at[c] = "write"
  /\ Touch
  /\ at' = [at EXCEPT ![c] = "fill"]
  /\ UNCHANGED <<file, doing, held, looked, expected, disturbed>>

Truncate(c) ==
  /\ at[c] = "write"
  /\ file' = <<>> /\ Touch
  /\ at' = [at EXCEPT ![c] = "fill"]
  /\ UNCHANGED <<doing, held, looked, expected, disturbed>>

\* The file cannot be opened for writing.
OpenFails(c) ==
  /\ at[c] = "write" /\ Return(c)
  /\ UNCHANGED <<file, modified, looked, expected, disturbed>>

Fill(c) ==
  /\ at[c] = "fill"
  /\ file' = Overwritten(Outcome(c, held[c])) /\ Touch
  /\ Expect(Outcome(c, expected)) /\ Return(c)
  /\ UNCHANGED <<looked, disturbed>>

\* Mutation: the call tries again from where it stopped.
Break_Doubles(c) ==
  /\ at[c] = "fill"
  /\ \E n \in 0..Len(Outcome(c, held[c])) :
       /\ file' = SubSeq(Outcome(c, held[c]), 1, n) \o Outcome(c, held[c]) /\ Touch
       /\ Expect(SubSeq(Outcome(c, expected), 1, n))

\* A write ends before its end; only what it has written touches the file.
Break(c) ==
  /\ at[c] = "fill"
  /\ \E n \in 0..Len(Outcome(c, held[c])) :
       /\ file' = Overwritten(SubSeq(Outcome(c, held[c]), 1, n))
       /\ IF n = 0 THEN UNCHANGED modified ELSE Touch
       /\ Expect(SubSeq(Outcome(c, expected), 1, n))

FillFails(c) ==
  /\ Break(c) /\ Return(c)
  /\ UNCHANGED <<looked, disturbed>>

\* Write with append: O_APPEND, so the end is looked up as it is written; a
\* beginning of the text if that fails.
WriteAppend(c, text) ==
  /\ at[c] = "idle" /\ modified < MaxTime
  /\ \E n \in 1..Len(text) :
       file' = file \o SubSeq(text, 1, n) /\ Expect(expected \o SubSeq(text, 1, n))
  /\ Touch
  /\ disturbed' = (disturbed \/ \E d \in Callers : at[d] # "idle")
  /\ UNCHANGED callVars

\* External: the process ends and is started again.
Crash ==
  /\ \E c \in Callers : at[c] # "idle"
  /\ at' = [c \in Callers |-> "idle"]
  /\ doing' = [c \in Callers |-> NoEdit]
  /\ held' = [c \in Callers |-> <<>>]
  /\ IF \A c \in Callers : at[c] # "fill" THEN UNCHANGED <<file, modified, expected>>
     ELSE \E c \in Callers : Break(c)
  /\ UNCHANGED <<looked, disturbed>>

Next == \/ \E c \in Callers : \/ Look(c) \/ Check(c) \/ ReadFile(c) \/ Write(c)
                              \/ Truncate(c) \/ OpenFails(c) \/ Fill(c) \/ FillFails(c)
                              \/ \E text \in Texts : WriteAppend(c, text)
        \/ Crash

-----------------------------------------------------------------------------

TypeOK ==
  /\ file \in Seq(STRING) /\ expected \in Seq(STRING)
  /\ modified \in Nat
  /\ at \in [Callers -> {"idle", "checked", "write", "fill"}]
  /\ doing \in [Callers -> [edit : Edits, stamped : BOOLEAN, rewrites : BOOLEAN]]
  /\ held \in [Callers -> Seq(STRING)]
  /\ looked \in [Callers -> [content : Seq(STRING), time : Nat]]
  /\ disturbed \in BOOLEAN

\* Calls that follow each other lose nothing of each other's work, and leave the
\* file alone when they fail or the process ends before they write.  A write that
\* fails, or in which the process ends, leaves a beginning of the new content,
\* and no word of the old.
ChangesAddUp == ~disturbed /\ (\A c \in Callers : at[c] = "idle") => file = expected

\* An edit that passes the staleness check works on the very content its agent
\* looked at, however many changes fall into one second.
CheckedEditsAreOfWhatWasSeen ==
  ~disturbed =>
    \A c \in Callers : at[c] = "write" /\ doing[c].stamped => held[c] = looked[c].content

\* An edit that changes a word replaces the first places, as many as its limit
\* allows, and touches nothing else.
EditsKeepToTheirLimit ==
  \A c \in Callers :
    at[c] = "write" /\ ~doing[c].rewrites /\ doing[c].edit.old # doing[c].edit.new =>
    LET edit    == doing[c].edit
        result  == Outcome(c, held[c])
        changed == {i \in DOMAIN result : result[i] # held[c][i]}
        left    == {i \in DOMAIN result : held[c][i] = edit.old} \ changed
    IN /\ \A i \in changed : held[c][i] = edit.old /\ result[i] = edit.new
       /\ \A i \in changed, k \in left : i < k
       /\ left = {} \/ Cardinality(changed) = edit.limit
       /\ edit.limit # -1 => Cardinality(changed) <= edit.limit

=============================================================================
