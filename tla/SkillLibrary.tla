---------------------------- MODULE SkillLibrary ----------------------------
(***************************************************************************)
(* Skills on disk: SkillCreate and SkillList of tools/skill.go write and   *)
(* list them, core/skill_loader.go loads them into the registry of a       *)
(* reactor when it is built.                                               *)
(*                                                                         *)
(* One directory, which is the first of the creating tool and the one the  *)
(* reactor loads.  Creating is several calls of the file system, with      *)
(* those of other agents and loads in between; a load is one step.  A name *)
(* is a sequence of characters, a description is its length: it has one    *)
(* line and no quotes at its ends, which the loader would take off.        *)
(***************************************************************************)
EXTENDS Sequences, Integers

CONSTANTS
  Creators,        \* SkillCreate calls, each made once
  Request,         \* the name and the description of each
  Letters, Digits, \* characters; the others are "-" and bad ones
  MaxName,         \* 64 in the code
  MaxDescription,  \* 1024 in the code
  Selected,        \* WithSkills: names to load; none for all
  None

SkillAssumption ==
  /\ MaxName \in Nat /\ MaxDescription \in Nat
  /\ \A c \in Creators : Request[c].description > 0
  /\ {"absent", "broken", None} \cap Creators = {}

VARIABLES
  at,         \* where each call is
  files,      \* the SKILL.md of each name: absent, broken or the call that wrote it
  registry,   \* the skills of the newest reactor, by name
  overlapped, \* history variable: calls that overlapped another for their name
  built       \* history variable: what there was when that reactor was built

vars == <<at, files, registry, overlapped, built>>

NameOf(c) == Request[c].name
Names == {NameOf(c) : c \in Creators}
Absent == "absent"
CutShort == "broken"  \* empty, or ends before its front matter does

Init ==
  /\ at = [c \in Creators |-> "idle"]
  /\ files = [n \in Names |-> Absent]
  /\ registry = [n \in Names |-> None]
  /\ overlapped = {}
  /\ built = [due |-> {}, spoilers |-> {}, present |-> {}]

-----------------------------------------------------------------------------
\* What is a name, to the tool and to the loader.

NameChars == Letters \cup Digits \cup {"-"}

\* isValidSkillName.
ToolAccepts(name) ==
  /\ Len(name) \in 1..MaxName
  /\ Head(name) \in Letters
  /\ name \in Seq(NameChars)

\* ValidateSkillName and ValidateSkillDescription.
LoaderAccepts(request) ==
  LET name == request.name IN
    /\ Len(name) \in 1..MaxName
    /\ Head(name) # "-" /\ name[Len(name)] # "-"
    /\ \A i \in 1..(Len(name) - 1) : name[i] # "-" \/ name[i + 1] # "-"
    /\ name \in Seq(NameChars)
    /\ request.description \in 1..MaxDescription

\* A SKILL.md that parseSkillMd makes a skill of.
WellFormed(n) == files[n] \in Creators /\ LoaderAccepts(Request[files[n]])

-----------------------------------------------------------------------------
\* SkillCreate

InCreation(c) == at[c] \in {"open", "write"}

Overlapping(c) == {d \in Creators : InCreation(d) /\ NameOf(d) = NameOf(c)}

Started(c) ==
  /\ at' = [at EXCEPT ![c] = "open"]
  /\ overlapped' = IF Overlapping(c) = {} THEN overlapped
                   ELSE overlapped \cup Overlapping(c) \cup {c}

Refused(c) == at' = [at EXCEPT ![c] = "failed"] /\ UNCHANGED overlapped

\* Mutation: the tool does not look for a SKILL.md.
Check_NoStat(c) ==
  /\ at[c] = "idle"
  /\ IF ToolAccepts(NameOf(c)) THEN Started(c) ELSE Refused(c)
  /\ UNCHANGED <<files, registry, built>>

\* Name, directory and a look for an existing SKILL.md ...
Check(c) ==
  /\ at[c] = "idle"
  /\ IF ToolAccepts(NameOf(c)) /\ files[NameOf(c)] = Absent THEN Started(c) ELSE Refused(c)
  /\ UNCHANGED <<files, registry, built>>

\* ... the file is created, or emptied if there is one by now ...
Open(c) ==
  /\ at[c] = "open"
  /\ at' = [at EXCEPT ![c] = "write"]
  /\ files' = [files EXCEPT ![NameOf(c)] = CutShort]
  /\ UNCHANGED <<registry, overlapped, built>>

\* ... and written; if another call has written a longer text, its end remains.
Write(c) ==
  /\ at[c] = "write"
  /\ at' = [at EXCEPT ![c] = "created"]
  /\ files' = [files EXCEPT ![NameOf(c)] = c]
  /\ UNCHANGED <<registry, overlapped, built>>

\* The file cannot be created ...
OpenFails(c) ==
  /\ at[c] = "open"
  /\ Refused(c)
  /\ UNCHANGED <<files, registry, built>>

\* ... or writing fails, or the process ends: what was written remains.  That may
\* be a skill, with a part of its instructions.
WriteFails(c) ==
  /\ at[c] = "write"
  /\ at' = [at EXCEPT ![c] = "cut"]
  /\ \E left \in {files[NameOf(c)], CutShort, c} : files' = [files EXCEPT ![NameOf(c)] = left]
  /\ UNCHANGED <<registry, overlapped, built>>

-----------------------------------------------------------------------------
\* Loading

Wanted(n) == Selected = {} \/ n \in Selected

\* Load: every skill of the directory, or none at all.
LoadedSkills ==
  IF \E n \in Names : files[n] # Absent /\ ~WellFormed(n) THEN {}
  ELSE {n \in Names : WellFormed(n)}

\* What there is when a reactor is built: skills that were created without another
\* call for their name at the time, and calls that have left, or are about to
\* write, a file that the loader may not accept.
Found ==
  [due      |-> {c \in Creators : at[c] = "created" /\ c \notin overlapped},
   spoilers |-> {c \in Creators : \/ at[c] \in {"write", "cut"}
                                  \/ at[c] = "created" /\ ~LoaderAccepts(Request[c])},
   present  |-> {n \in Names : files[n] # Absent}]

\* Mutation: the directory is read for the first reactor only.
NewReactor_LoadsOnce ==
  /\ registry' = IF built.due = {}
       THEN [n \in Names |-> IF n \in LoadedSkills /\ Wanted(n) THEN files[n] ELSE None]
       ELSE registry
  /\ built' = Found
  /\ UNCHANGED <<at, files, overlapped>>

\* Mutation: what is read is not validated.
NewReactor_NoValidation ==
  /\ registry' = [n \in Names |-> IF files[n] # Absent /\ Wanted(n) THEN files[n] ELSE None]
  /\ built' = Found
  /\ UNCHANGED <<at, files, overlapped>>

\* A reactor is built: discoverAndLoadSkills.  The registry is never reloaded.
NewReactor ==
  /\ registry' = [n \in Names |-> IF n \in LoadedSkills /\ Wanted(n) THEN files[n] ELSE None]
  /\ built' = Found
  /\ UNCHANGED <<at, files, overlapped>>

Next ==
  \/ \E c \in Creators : Check(c) \/ Open(c) \/ Write(c) \/ OpenFails(c) \/ WriteFails(c)
  \/ NewReactor

Spec == Init /\ [][Next]_vars

-----------------------------------------------------------------------------

TypeOK ==
  /\ at \in [Creators -> {"idle", "open", "write", "created", "cut", "failed"}]
  /\ files \in [Names -> {Absent, CutShort} \cup Creators]
  /\ DOMAIN registry = Names
  /\ overlapped \subseteq Creators
  /\ built \in [due : SUBSET Creators, spoilers : SUBSET Creators, present : SUBSET Names]

\* A skill that was created keeps its content: another create of its name
\* fails, whatever comes in between.  Of calls that overlap on one name either
\* may be the one that is kept.
CreatedStays ==
  \A c \in Creators : at[c] = "created" /\ c \notin overlapped => files[NameOf(c)] = c

\* SkillCreate's result: the skill is available once the registry is loaded
\* anew, with the content that was given.  That holds if nothing else in the
\* directory was spoilt when it was: by a skill that the tool creates and the
\* loader rejects, one whose writing failed, or one that was being written.
CreatedAreAvailable ==
  built.spoilers = {} => \A c \in built.due : Wanted(NameOf(c)) => registry[NameOf(c)] = c

\* A reactor has all the skills there were, or none at all, and each is one that
\* the loader accepts, under its own name.
LoadedAreSound ==
  /\ {n \in Names : registry[n] # None} \in {{}, {n \in built.present : Wanted(n)}}
  /\ \A n \in Names : registry[n] # None =>
       /\ registry[n] \in Creators
       /\ NameOf(registry[n]) = n /\ LoaderAccepts(Request[registry[n]])

=============================================================================
