------------------------------ MODULE PagedRead ------------------------------
(***************************************************************************)
(* Read of tools/read.go by an agent that reads a file page by page: it    *)
(* passes next_offset back as long as has_more is set.  A line is its      *)
(* number.  A page over the token budget is cut behind some line, or in    *)
(* the middle of the next, and a note at its end says so.                  *)
(***************************************************************************)
EXTENDS Integers

CONSTANTS MaxLines, MaxLimit  \* bounds: lines of a file, lines of a page

PagesAssumption == MaxLines \in Nat \ {0} /\ MaxLimit \in Nat \ {0}

VARIABLES
  totalLines,  \* lines of the file; an empty one has one
  limit,       \* the parameter of every call
  offset,      \* the parameter of the next call, 0 when there is none
  shown,       \* history variable: how often each line was shown whole
  noted        \* history variable: first lines of the pages that were cut

vars == <<totalLines, limit, offset, shown, noted>>

Init ==
  /\ totalLines \in 1..MaxLines
  /\ limit \in 1..MaxLimit
  /\ offset = 1
  /\ shown = [line \in 1..totalLines |-> 0]
  /\ noted = {}

\* Mutation: a full page is taken for the last one.
HasMore_NotFull(endLine) == endLine > totalLines

\* The loop over the lines ends at the first line behind the page, and has_more
\* asks for lines behind that one.
HasMore(endLine) == endLine + 1 < totalLines

\* Mutation: the next page begins with the last line of this one.
NextOffset_Overlaps(endLine) == endLine

NextOffset(endLine) == endLine + 1

Read ==
  /\ offset > 0
  /\ LET endLine == offset + limit - 1 IN
       /\ \E lastWhole \in (offset - 1)..endLine :
            /\ shown' = [line \in 1..totalLines |->
                           IF line \in offset..lastWhole THEN shown[line] + 1 ELSE shown[line]]
            /\ noted' = IF lastWhole < endLine /\ lastWhole < totalLines
                        THEN noted \cup {offset} ELSE noted
       /\ offset' = IF HasMore(endLine) THEN NextOffset(endLine) ELSE 0
  /\ UNCHANGED <<totalLines, limit>>

-----------------------------------------------------------------------------

\* The first line of the page that a line is on.
FirstOfPage(line) == line - ((line - 1) % limit)

\* No line is shown twice, and in the end every line has been shown, but for
\* those of a page whose end says that it is cut, and for a last line that would
\* be alone on its page, which total_lines alone gives away.
LinesAreShown ==
  /\ \A line \in 1..totalLines : shown[line] \in {0, 1}
  /\ offset = 0 =>
       \A line \in 1..totalLines : shown[line] = 0 =>
         \/ FirstOfPage(line) \in noted
         \/ line = totalLines /\ line > limit /\ FirstOfPage(line) = line

=============================================================================
