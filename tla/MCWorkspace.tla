---------------------------- MODULE MCWorkspace ----------------------------
(***************************************************************************)
(* What tools keep for the calls that follow: searches and pages in caches *)
(* (WebSearch, WebFetch), jobs in the user's crontab (Crontab, with        *)
(* CronExpression for the text of one), skills on disk (SkillLibrary) and  *)
(* their Python environments (SkillEnvironment), definitions of agents and *)
(* the agents known at run time (AgentDirectory, AgentRanking).  They      *)
(* share nothing, so a behaviour is of one of them, in one of the          *)
(* instances below.                                                        *)
(***************************************************************************)
EXTENDS WebSearch, TLC

CONSTANTS
  Fetchers, Address, Sites, AllSites, FetchTTL, FetchTime,              \* of WebFetch
  Owner, Jobs, Comment, Blank, AddedTables, RemovedTables, MaxLines,    \* of Crontab
  CronFields, MaxFields,                                                \* of CronExpression
  Creators, SkillRequest, Letters, Digits, MaxName, MaxDescription,     \* of SkillLibrary
  Scripts, Roots, RootOf, DirOf, MaxEdits, MaxRestarts,                 \* of SkillEnvironment
  DefinitionFiles, lower, SomeSpellings, SomeCallers, SomeScores, MaxRanked, MaxRanks,
  SomeStates, SharedStates, Described, Broken                           \* of AgentDirectory

CONSTANTS c1, c2, c3, c4, c5, h1, h2, d1, d2, r1, r2, q, j1, j2, j3  \* values for those above

VARIABLES scope, table, agent, expression, verdict,
  created, files, registry, overlapped, built,
  running, once, venv, required, installed, asked, restarts,
  fetching, pages, clock, site, since, text,
  definitions, agents, directory, caller

cronVars    == <<table, agent>>
exprVars    == <<expression, verdict>>
libraryVars == <<created, files, registry, overlapped, built>>
envVars     == <<running, once, venv, required, installed, asked, restarts>>
fetchVars   == <<fetching, pages, clock, site, since, text>>
toolVars    == <<vars, cronVars, exprVars, libraryVars, envVars, fetchVars>>
dirVars     == <<definitions, agents, directory, caller>>
allVars     == <<scope, toolVars, dirVars>>

-----------------------------------------------------------------------------
\* Values of the constants for TLC.

\* One query, two of the three with the same wishes for hosts.
HostRequests ==
  [c \in {c1, c2, c3} |->
     [query |-> q, max |-> 0, allowed |-> IF c = c2 THEN {h1} ELSE {}, blocked |-> {}]]

\* The first adapter finds nothing.
TwoAdapters == <<q :> <<>>, q :> <<h1, h1, h2>>>>

\* Two calls for one URL and one for another.
Addresses ==
  c1 :> [scheme |-> "http", rest |-> h1] @@ c2 :> [scheme |-> "https", rest |-> h1]
    @@ c3 :> [scheme |-> "https", rest |-> h2]

\* Pages of up to three elements, some with letters that change their length, and
\* two pages for calls that overlap.
PagesUpTo(n) == UNION {[1..k -> {"text", "bold", "script", "paragraph"}] : k \in 0..n}
SomePages ==
  PagesUpTo(3) \cup {Append(p, "unclosed") : p \in PagesUpTo(2)}
    \cup {<<"unclosed", "growing", "script">>, <<"growing", "growing", "unclosed">>}
    \cup {<<x, y, z>> : x \in {"growing", "shrinking", "script"},
                        y \in {"growing", "shrinking", "script", "unclosed"}, z \in {"text", "bold"}}
SitesOf(somePages) == {h1 :> page @@ h2 :> <<"text">> : page \in somePages}
SingleSites == SitesOf(SomePages)
SomeSites   == SitesOf({<<"text", "script">>, <<"growing", "script", "text">>})

\* Tables of up to five lines in which a job occurs once.
TablesOf(lines) ==
  {t \in UNION {[1..n -> lines] : n \in 0..5} :
     \A i, k \in DOMAIN t : t[i] = t[k] /\ t[i] \in Jobs => i = k}
TablesToAdd    == TablesOf(Jobs \cup {Comment})
TablesToRemove == TablesOf(Jobs \cup {Comment, Blank})

\* A star with and without a step, a number in and out of range, ranges of two
\* and three ends, and a list.
Part(ends, step, within) == [ends |-> ends, step |-> step, within |-> within]
SomeFields ==
  {<<Part(0, FALSE, TRUE)>>, <<Part(0, TRUE, TRUE)>>, <<Part(1, FALSE, TRUE)>>,
   <<Part(1, FALSE, FALSE)>>, <<Part(2, TRUE, TRUE)>>, <<Part(3, FALSE, TRUE)>>,
   <<Part(1, FALSE, TRUE), Part(2, FALSE, FALSE)>>}

\* Good names, one of them twice, one that the tool takes and the loader rejects,
\* and one that neither takes.
Skills ==
  c1 :> [name |-> <<"a">>, description |-> 1] @@ c2 :> [name |-> <<"a">>, description |-> 2] @@
  c3 :> [name |-> <<"a", "0">>, description |-> 2] @@ c4 :> [name |-> <<"a", "-">>, description |-> 1] @@
  c5 :> [name |-> <<"0">>, description |-> 1]

\* Three scripts, two of one skill.
RootOfScript == c1 :> r1 @@ c2 :> r1 @@ c3 :> r2
DirOfRoot    == r1 :> d1 @@ r2 :> d2

\* Each description contains a word of its own and one that all have.
Descriptions == [n \in DefinitionFiles \X SomeSpellings |-> {n, q}]

-----------------------------------------------------------------------------
\* The instances.

\* Calls that overlap, and one alone.
Fetch == INSTANCE WebFetch WITH
  TTL <- FetchTTL, MaxTime <- FetchTime,
  at <- fetching, cache <- pages, now <- clock, begun <- since, answer <- text

Single == INSTANCE WebFetch WITH
  Fetchers <- {Owner}, Sites <- AllSites, TTL <- FetchTTL, MaxTime <- 0,
  at <- fetching, cache <- pages, now <- clock, begun <- since, answer <- text

\* One agent that adds to and removes from a table without empty lines; one that
\* only removes from any.
Added == INSTANCE Crontab WITH
  Agents <- {Owner}, Tables <- AddedTables, MayAdd <- TRUE

Removing == INSTANCE Crontab WITH
  Agents <- {Owner}, Tables <- RemovedTables, MayAdd <- FALSE

Cron == INSTANCE CronExpression WITH Fields <- CronFields

Library == INSTANCE SkillLibrary WITH
  Request <- SkillRequest, Selected <- {}, at <- created

\* Set-ups that work, or fail.
Working == INSTANCE SkillEnvironment WITH
  MayFail <- FALSE, MaxEdits <- 0, MaxRestarts <- 0, at <- running

Faulty == INSTANCE SkillEnvironment WITH MayFail <- TRUE, at <- running

\* One creator, a disk that fails and a process that ends anywhere.
Restarted == INSTANCE AgentDirectory WITH
  Files <- DefinitionFiles, Spellings <- {lower}, Callers <- {Owner}, Scores <- SomeScores,
  MaxSize <- 0, DiskFails <- TRUE, Restarts <- TRUE, Admin <- TRUE, Description <- Described,
  files <- definitions

\* Creators of names that may differ in case only.
Shared == INSTANCE AgentDirectory WITH
  Files <- DefinitionFiles, Spellings <- SomeSpellings, Callers <- SomeCallers, Scores <- {},
  SomeStates <- SharedStates, MaxSize <- 0, DiskFails <- TRUE, Restarts <- FALSE, Admin <- FALSE,
  Description <- Described, files <- definitions

\* Agents that are ranked, as many as the directory holds.
Ranked == INSTANCE AgentDirectory WITH
  Files <- DefinitionFiles, Spellings <- SomeSpellings, Callers <- {Owner}, Scores <- SomeScores,
  MaxSize <- MaxRanked, DiskFails <- FALSE, Restarts <- FALSE, Admin <- FALSE,
  Description <- Described, files <- definitions

Ranking == INSTANCE AgentRanking WITH AgentNames <- Ranked!AgentNames

ASSUME MCAssumption ==
  /\ Fetch!FetchAssumption
  /\ Added!CrontabAssumption /\ Added!TablesAssumption /\ Removing!TablesAssumption
  /\ Cron!FieldsAssumption /\ Cron!PartsAssumption
  /\ Library!SkillAssumption
  /\ Working!EnvironmentAssumption /\ Faulty!EnvironmentAssumption
  /\ Restarted!DirectoryAssumption /\ Shared!DirectoryAssumption /\ Ranked!DirectoryAssumption

\* What the scopes are about: tables without empty lines, tables with each job
\* once, and one path to each directory.
ASSUME ScopeAssumption ==
  /\ \A t \in AddedTables : t \in Seq(Jobs \cup {Comment})
  /\ \A t \in RemovedTables : \A i, k \in DOMAIN t : t[i] = t[k] /\ t[i] \in Jobs => i = k
  /\ \A r, s \in Roots : DirOf[r] = DirOf[s] => r = s

MCInit ==
  /\ scope \in {"search", "adding", "removing", "cron", "library", "working", "failing",
                "fetch", "single", "restarted", "shared", "ranked"}
  /\ IF scope = "single" THEN Single!Init
     ELSE Fetch!Init /\ (scope # "fetch" => site = CHOOSE s \in Sites : TRUE)
  /\ Init /\ Library!Init /\ Working!Init
  /\ IF scope = "adding" THEN Added!Init
     ELSE IF scope = "removing" THEN Removing!Init
     ELSE table = <<>> /\ agent = [a \in {Owner} |-> Added!NewAgent]
  /\ IF scope = "cron" THEN Cron!Init ELSE expression = <<>> /\ verdict = "none"
  /\ IF scope = "restarted" THEN Restarted!Init
     ELSE IF scope = "ranked" THEN Ranked!Init ELSE Shared!Init

MCNext ==
  /\ UNCHANGED scope
  /\ \/ /\ scope = "search" /\ Next
        /\ UNCHANGED <<cronVars, exprVars, libraryVars, envVars, fetchVars, dirVars>>
     \/ /\ \/ scope = "adding"   /\ Added!Next
           \/ scope = "removing" /\ Removing!Next
        /\ UNCHANGED <<vars, exprVars, libraryVars, envVars, fetchVars, dirVars>>
     \/ /\ scope = "cron" /\ Cron!Next
        /\ UNCHANGED <<vars, cronVars, libraryVars, envVars, fetchVars, dirVars>>
     \/ /\ scope = "library" /\ Library!Next
        /\ UNCHANGED <<vars, cronVars, exprVars, envVars, fetchVars, dirVars>>
     \/ /\ \/ scope = "working" /\ Working!Next
           \/ scope = "failing" /\ Faulty!Next
        /\ UNCHANGED <<vars, cronVars, exprVars, libraryVars, fetchVars, dirVars>>
     \/ /\ \/ scope = "fetch"  /\ Fetch!Next
           \/ scope = "single" /\ Single!Next
        /\ UNCHANGED <<vars, cronVars, exprVars, libraryVars, envVars, dirVars>>
     \/ /\ \/ scope = "restarted" /\ Restarted!Next
           \/ scope = "shared"    /\ Shared!Next
           \/ scope = "ranked"    /\ Ranked!Next
        /\ UNCHANGED toolVars

\* Fairness is that of the scripts.
MCSpec ==
  /\ MCInit /\ [][MCNext]_allVars
  /\ \A c \in Scripts : WF_envVars(scope = "failing" /\ Faulty!Step(c))

-----------------------------------------------------------------------------

\* Each component below is also well typed.

\* The answer to a search is of the hosts it wants, and neither it nor that to a
\* fetch is older than its cache keeps answers, whatever other calls found and
\* stored meanwhile.
SearchesAreAnswered ==
  /\ scope = "search" => TypeOK /\ AnswersAreOfWantedHosts /\ AnswersAreFresh
  /\ scope = "fetch" => Fetch!TextIsFresh

\* The answer to a fetch is the text of its page, if that has no letters before a
\* script that are longer or shorter in lower case.
PagesAreText ==
  /\ scope = "fetch" => Fetch!TextIsOfThePage
  /\ scope = "single" => Single!TextIsOfThePage

\* A job is removed by the number under which it was listed, alone, and for good.
\* An expression for a job is called valid if it works, and is not if it has the
\* wrong number of fields or a range of three ends.
SchedulesAreExact ==
  /\ [](scope = "adding" => Added!TypeOK /\ Added!ListedIsRemoved)
  /\ [](scope = "removing" => Removing!TypeOK /\ Removing!RemovedStaysRemoved)
  /\ [][scope = "removing" => Removing!TakesOneLine]_table
  /\ [](scope = "cron" => Cron!ValidPasses /\ Cron!MalformedFails)

\* Skills that were created keep what they were created with, and are loaded into
\* the next reactor unless another of their directory keeps them all out.
CreatedSkillsAreKept ==
  scope = "library" => /\ Library!TypeOK /\ Library!CreatedStays
                       /\ Library!CreatedAreAvailable /\ Library!LoadedAreSound

\* At most one set-up works on a directory at a time; scripts find what they
\* require once it has worked; and every script returns, whatever fails.
EnvironmentsAreSetUp ==
  /\ [](scope = "failing" => Faulty!TypeOK /\ Faulty!OneSetupAtATime)
  /\ [](scope = "working" => Working!ScriptsFindTheirRequirements)
  /\ scope = "failing" => Faulty!EveryScriptReturns

\* A process that ends anywhere and starts again knows the agents it knew, and
\* besides at most those whose creation failed and left a part of a file; an agent
\* that was created is found by FindAgent, which lists in no order; and
\* ListAvailable, which has no caller, lists those that are free by their score.
DirectoryIsSound ==
  /\ scope = "restarted" => Restarted!TypeOK /\ Restarted!RegistryIsOnDisk
  /\ scope = "shared" => Shared!TypeOK /\ Shared!CreatedCanBeFound
  /\ scope = "ranked" => Ranked!TypeOK /\ Ranking!AvailableAreInScoreOrder

=============================================================================
