------------------------------ MODULE WebFetch ------------------------------
(***************************************************************************)
(* WebFetch of tools/web_search.go: the text of a page, behind a cache     *)
(* that several calls share.                                               *)
(*                                                                         *)
(* A page is a sequence of the parts that stripTag, blockToNewline and     *)
(* stripAllTags tell apart; script stands for the six tags whose blocks    *)
(* go, "p " for block tags with attributes.  A part counts as one place,   *)
(* for stripTag looks for tags in a page in lower case, and the places it  *)
(* finds are those of the page only if that has as many.  Entities, blank  *)
(* lines, the 50000 characters a text is cut at, validateURL and the line  *)
(* with the status are left out.                                           *)
(***************************************************************************)
EXTENDS SequencesExt, Integers

CONSTANTS
  Fetchers,  \* WebFetch calls, each made once
  Address,   \* of each: the scheme and the rest of its URL
  Sites,     \* the pages there may be: functions from URLs without scheme
  TTL,       \* cacheTTL
  MaxTime,   \* bound: the time of the last step
  None

FetchAssumption == TTL \in Nat \ {0} /\ MaxTime \in Nat

VARIABLES
  at,      \* where each call is; "panicked" in one the process has ended
  cache,   \* WebFetchTool.cache: what was fetched, and when
  now,     \* the time
  site,    \* the pages there are
  begun,   \* history variable: when each call looked into the cache
  answer   \* what each call returns

vars == <<at, cache, now, site, begun, answer>>

-----------------------------------------------------------------------------
\* htmlToText.

\* External: what authors of pages write; an unclosed script ends the page.  Some
\* letters, and bytes that are no letter, are longer in lower case, some shorter.
Markup ==
  [text      |-> <<"text">>,
   bold      |-> <<"<", "b", "attribute", ">">>,
   script    |-> <<"<", "script", "attribute", ">", "text", "<", "/script", ">">>,
   paragraph |-> <<"<", "p ", "attribute", ">">>,
   unclosed  |-> <<"<", "script", ">", "text">>,
   growing   |-> <<"byte", "byte", "byte">>,
   shrinking |-> <<"lead", "tail">>]

\* The parts of a page, each with its element and the place of that.
Parts(page) ==
  FlattenSeq([i \in DOMAIN page |->
    [k \in DOMAIN Markup[page[i]] |-> [kind |-> Markup[page[i]][k], of |-> page[i], place |-> i]]])

\* strings.Index: the first place of these kinds, 0 if there is none.
Index(kinds, parts) ==
  LET found == {i \in 1..(Len(parts) - Len(kinds) + 1) :
                  \A k \in DOMAIN kinds : parts[i + k - 1].kind = kinds[k]}
  IN IF found = {} THEN 0 ELSE Min(found)

KeepPlaces(parts, places) ==
  FoldLeftDomain(LAMBDA kept, i : IF i \in places THEN Append(kept, parts[i]) ELSE kept, <<>>, parts)

From(parts, i) == SubSeq(parts, i, Len(parts))

\* Both parts of a letter, or one that a cut has left.
IsLetter(parts, i) ==
  \/ parts[i].kind = "lead" /\ i < Len(parts) /\ parts[i + 1].kind = "tail"
  \/ parts[i].kind = "tail" /\ i > 1 /\ parts[i - 1].kind = "lead"

\* strings.ToLower: a letter that shrinks has one place, a byte that is none two.
ToLower(parts) ==
  FlattenSeq([i \in DOMAIN parts |->
    IF parts[i].kind \notin {"byte", "lead", "tail"} THEN <<parts[i]>>
    ELSE IF ~IsLetter(parts, i) THEN <<parts[i], parts[i]>>
    ELSE IF parts[i].kind = "lead" THEN <<parts[i]>> ELSE <<>>])

\* Mutation: only the tag that starts a block goes.
StripBlock_StartOnly(parts) ==
  LET start == Index(<<"<", "script">>, ToLower(parts))
      rest  == From(parts, start)
      end   == Index(<<">">>, rest)
  IN IF start = 0 \/ end = 0 THEN parts ELSE SubSeq(parts, 1, start - 1) \o From(rest, end + 1)

\* One turn of stripTag: the first block goes, and all that is in it; of a block
\* that does not end only the tag that starts it.  A slice from behind the end of
\* the page panics.
StripBlock(parts) ==
  LET start     == Index(<<"<", "script">>, ToLower(parts))
      rest      == From(parts, start)
      end       == Index(<<">">>, rest)
      closeIdx  == Index(<<"<", "/script">>, ToLower(rest))
      closeRest == From(rest, closeIdx)
      closeEnd  == Index(<<">">>, closeRest)
  IN IF start = 0 THEN parts
     ELSE IF start > Len(parts) + 1 THEN None
     ELSE IF end = 0 THEN parts
     ELSE IF closeIdx > Len(rest) + 1 THEN None
     ELSE SubSeq(parts, 1, start - 1)
            \o IF closeIdx = 0 \/ closeEnd = 0 THEN From(rest, end + 1) ELSE From(closeRest, closeEnd + 1)

\* stripTag: until there is no block; every turn takes at least a part away.
StripTag(parts) ==
  FoldLeft(LAMBDA rest, turn : IF rest = None THEN None ELSE StripBlock(rest), parts, parts)

\* blockToNewline: of a tag with attributes only the name goes.
BlockToNewline(parts) ==
  LET starts == {i \in 1..(Len(parts) - 1) : parts[i].kind = "<" /\ parts[i + 1].kind = "p "}
  IN KeepPlaces(parts, DOMAIN parts \ (starts \cup {i + 1 : i \in starts}))

\* stripAllTags: what is between "<" and the next ">".
StripAllTags(parts) ==
  LET inTag(i) == \E k \in 1..i : parts[k].kind = "<" /\ \A j \in k..i : parts[j].kind # ">"
  IN KeepPlaces(parts, {i \in DOMAIN parts : parts[i].kind # ">" /\ ~inTag(i)})

\* None if there is a panic.
HtmlToText(page) ==
  LET rest == StripTag(Parts(page)) IN
    IF rest = None THEN None ELSE StripAllTags(BlockToNewline(rest))

-----------------------------------------------------------------------------

\* Normalized: http becomes https, as does no scheme.
Key(c) == <<"https", Address[c].rest>>

Init ==
  /\ at = [c \in Fetchers |-> "idle"]
  /\ cache = [k \in {Key(c) : c \in Fetchers} |-> None]
  /\ now = 0
  /\ site \in Sites
  /\ begun = [c \in Fetchers |-> 0]
  /\ answer = [c \in Fetchers |-> None]

\* Mutation: an entry is served whatever its age.
Lookup_NoTTL(c) ==
  /\ at[c] = "idle"
  /\ begun' = [begun EXCEPT ![c] = now]
  /\ IF cache[Key(c)] = None
     THEN at' = [at EXCEPT ![c] = "fetch"] /\ UNCHANGED answer
     ELSE at' = [at EXCEPT ![c] = "done"] /\ answer' = [answer EXCEPT ![c] = cache[Key(c)]]
  /\ UNCHANGED <<cache, now, site>>

Lookup(c) ==
  /\ at[c] = "idle"
  /\ begun' = [begun EXCEPT ![c] = now]
  /\ LET entry == cache[Key(c)] IN
       IF entry # None /\ now - entry.time < TTL
       THEN at' = [at EXCEPT ![c] = "done"] /\ answer' = [answer EXCEPT ![c] = entry]
       ELSE /\ at' = [at EXCEPT ![c] = IF entry = None THEN "fetch" ELSE "delete"]
            /\ UNCHANGED answer
  /\ UNCHANGED <<cache, now, site>>

\* Whatever is stored by now is deleted.
Delete(c) ==
  /\ at[c] = "delete"
  /\ cache' = [cache EXCEPT ![Key(c)] = None]
  /\ at' = [at EXCEPT ![c] = "fetch"]
  /\ UNCHANGED <<now, site, begun, answer>>

\* The request may fail; a page is taken whatever the status of its response.
Fetch(c) ==
  /\ at[c] = "fetch"
  /\ at' \in {[at EXCEPT ![c] = "failed"], [at EXCEPT ![c] = "store"]}
  /\ UNCHANGED <<cache, now, site, begun, answer>>

Store(c) ==
  /\ at[c] = "store"
  /\ LET entry == [content |-> HtmlToText(site[Address[c].rest]), time |-> now] IN
       /\ entry.content # None
       /\ cache' = [cache EXCEPT ![Key(c)] = entry]
       /\ answer' = [answer EXCEPT ![c] = entry]
  /\ at' = [at EXCEPT ![c] = "done"]
  /\ UNCHANGED <<now, site, begun>>

\* Nobody recovers: the process ends.
Panic(c) ==
  /\ at[c] = "store"
  /\ HtmlToText(site[Address[c].rest]) = None
  /\ at' = [at EXCEPT ![c] = "panicked"]
  /\ UNCHANGED <<cache, now, site, begun, answer>>

Tick == now < MaxTime /\ now' = now + 1 /\ UNCHANGED <<at, cache, site, begun, answer>>

Next ==
  /\ \A c \in Fetchers : at[c] # "panicked"
  /\ Tick \/ \E c \in Fetchers : Lookup(c) \/ Delete(c) \/ Fetch(c) \/ Store(c) \/ Panic(c)

-----------------------------------------------------------------------------

TextKinds == {"text", "growing", "shrinking"}
Texts(parts) == SelectSeq(parts, LAMBDA part : part.of \in TextKinds)

\* Letters that change their length come before a script, or in one.
IsShifted(page) ==
  \E i, k \in DOMAIN page : i < k /\ page[i] \in {"growing", "shrinking"}
                                /\ page[k] \in {"script", "unclosed"}

\* What is returned for a URL is the text of its page: all of what is outside
\* of tags, in order, and nothing of a script that ends.  The attributes of
\* block tags, and a script that does not end, do get through.  No more is said
\* of a page with letters before a script that change their length: text may be
\* missing and scripts be left, and the process may end with a panic.
TextIsOfThePage ==
  \A c \in Fetchers : LET page == site[Address[c].rest] IN
    /\ at[c] = "panicked" => IsShifted(page)
    /\ answer[c] # None /\ ~IsShifted(page) =>
         /\ Texts(answer[c].content) = Texts(Parts(page))
         /\ \A i \in DOMAIN answer[c].content :
              LET part == answer[c].content[i] IN
                \/ part.of \in TextKinds
                \/ part.of = "paragraph" /\ part.kind = "attribute"
                \/ part.of = "unclosed"  /\ part.kind = "text"

\* No text is older than the cache keeps it, whatever other calls store and
\* delete between the steps of a call.
TextIsFresh ==
  \A c \in Fetchers : at[c] = "done" => answer[c].time + TTL > begun[c]

=============================================================================
