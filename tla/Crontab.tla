------------------------------- MODULE Crontab -------------------------------
(***************************************************************************)
(* The Crontab tool of tools/crontab.go: list, add and remove on the       *)
(* user's table of scheduled jobs.                                         *)
(*                                                                         *)
(* The table is the crontab program's; the tool reads it with `crontab -l` *)
(* and replaces it with `crontab -`.  A table is a sequence of lines.      *)
(* Agents call the tool, each on its own; a model removes by the numbers   *)
(* the last list gave it.                                                  *)
(***************************************************************************)
EXTENDS Naturals, Sequences, FiniteSets

CONSTANTS
  Agents,    \* callers of the tool
  Jobs,      \* lines that schedule something
  Comment,   \* a line that begins with #
  Blank,     \* an empty line
  Tables,    \* what the table may be when the program starts
  MayAdd,    \* TRUE: agents also add
  MaxLines,  \* bound: the longest table, at least what Add writes
  None

CrontabAssumption ==
  /\ MayAdd \in BOOLEAN /\ MaxLines \in Nat /\ MaxLines >= 2
  /\ {Comment, Blank, None} \cap Jobs = {}
  /\ Cardinality({Comment, Blank, None}) = 3

Lines == Jobs \cup {Comment, Blank}

TablesAssumption == \A table \in Tables : table \in Seq(Lines) /\ Len(table) <= MaxLines

VARIABLES
  table,  \* the lines of the crontab
  agent   \* what each caller knows and is doing

vars == <<table, agent>>

\* seen: the numbered jobs of the last list.  of: the table it was made from.
\* line: the number to remove, 0 for none.  read: what remove has read.
\* asked: the job the model means to remove.  gone: jobs it was told are removed.
NewAgent == [seen |-> {}, of |-> None, line |-> 0, read |-> None, asked |-> None, gone |-> {}]

Init ==
  /\ table \in Tables
  /\ agent = [a \in Agents |-> NewAgent]

-----------------------------------------------------------------------------

\* Mutation: jobs are numbered among themselves.
Numbered_JobsOnly(lines) ==
  LET jobs == SelectSeq(lines, LAMBDA l : l \in Jobs)
  IN {[line |-> i, job |-> jobs[i]] : i \in DOMAIN jobs}

\* The numbered lines of the output without the white space around it.
Numbered(lines) ==
  LET blanks == {i \in 0..Len(lines) : \A j \in 1..i : lines[j] = Blank}
      first  == CHOOSE i \in blanks : \A j \in blanks : j <= i
  IN {[line |-> i - first, job |-> lines[i]] : i \in {j \in DOMAIN lines : lines[j] \in Jobs}}

List(a) ==
  /\ agent[a].line = 0
  /\ agent' = [agent EXCEPT ![a].seen = Numbered(table), ![a].of = table]
  /\ UNCHANGED table

\* The entry, with or without a comment, is all that `crontab -` is given.
Add(a, job, comment) ==
  /\ MayAdd /\ agent[a].line = 0
  /\ table' = (IF comment THEN <<Comment, job>> ELSE <<job>>)
  /\ UNCHANGED agent

\* The model takes a number from the last list.
CallRemove(a, entry) ==
  /\ agent[a].line = 0
  /\ entry \in agent[a].seen
  /\ agent' = [agent EXCEPT ![a].line = entry.line, ![a].asked = entry.job]
  /\ UNCHANGED table

\* remove, `crontab -l`.  A number beyond the table is an error: the split of
\* its output has one element more than it has lines.
ReadTable(a) ==
  /\ agent[a].line > 0 /\ agent[a].read = None
  /\ agent' = [agent EXCEPT ![a] = IF @.line > Len(table) + 1
                                   THEN [@ EXCEPT !.line = 0, !.asked = None]
                                   ELSE [@ EXCEPT !.read = table]]
  /\ UNCHANGED table

Without(lines, n) == SubSeq(lines, 1, n - 1) \o SubSeq(lines, n + 1, Len(lines))

\* Mutation: the line after it goes too.
Removed_Two(lines, n) ==
  IF n > Len(lines) THEN lines ELSE SubSeq(lines, 1, n - 1) \o SubSeq(lines, n + 2, Len(lines))

\* Mutation: the element after the last line is written as a line.
Removed_Padded(lines, n) == IF n > Len(lines) THEN Append(lines, None) ELSE Append(Without(lines, n), None)

\* Mutation: numbers from 0.
Removed_Next(lines, n) == IF n + 1 > Len(lines) THEN lines ELSE Without(lines, n + 1)

\* remove, `crontab -`.  The crontab program refuses a table whose last line
\* does not end, which is what is left when the last element is removed.
Removed(lines, n) == IF n > Len(lines) THEN lines ELSE Without(lines, n)

WriteTable(a) ==
  LET me == agent[a] IN
    /\ me.line > 0 /\ me.read # None
    /\ table' = Removed(me.read, me.line)
    /\ agent' = [agent EXCEPT ![a] =
         [@ EXCEPT !.line = 0, !.read = None, !.asked = None,
                   !.gone = IF me.line > Len(me.read) THEN me.gone ELSE me.gone \cup {me.read[me.line]}]]

Next ==
  \E a \in Agents :
    \/ List(a) \/ ReadTable(a) \/ WriteTable(a)
    \/ \E job \in Jobs, comment \in BOOLEAN : Add(a, job, comment)
    \/ \E entry \in agent[a].seen : CallRemove(a, entry)

Spec == Init /\ [][Next]_vars

-----------------------------------------------------------------------------

TypeOK ==
  /\ table \in Seq(Lines)
  /\ \A a \in Agents :
       /\ agent[a].seen \subseteq [line : 1..MaxLines, job : Jobs]
       /\ agent[a].of = None \/ agent[a].of \in Seq(Lines)
       /\ agent[a].read = None \/ agent[a].read \in Seq(Lines)
       /\ agent[a].line \in 0..MaxLines
       /\ agent[a].asked \in Jobs \cup {None}
       /\ agent[a].gone \subseteq Lines

\* The parameter of remove: "Line number in crontab to remove (1-based, from
\* 'list' output)".  While the table is as it was listed, the line that is about
\* to be removed is the one that the list showed under that number.
ListedIsRemoved ==
  \A a \in Agents : agent[a].read # None /\ agent[a].read = agent[a].of =>
    /\ agent[a].line <= Len(agent[a].read)
    /\ agent[a].read[agent[a].line] = agent[a].asked

InTable(lines) == {lines[i] : i \in DOMAIN lines} \cap Jobs

\* One call takes at most one line out of the table; what else was scheduled
\* stays scheduled.
TakesOneLine == Len(table') >= Len(table) - 1

\* A removed job stays removed as long as nobody adds.
RemovedStaysRemoved ==
  \A a \in Agents : InTable(table) \cap agent[a].gone = {}
=============================================================================
