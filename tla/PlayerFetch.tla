---------------------------- MODULE PlayerFetch -----------------------------
(***************************************************************************)
(* The tools that load players from Tennis Abstract, run one at a time     *)
(* over the caches they leave behind: fetchrates and getstats through the  *)
(* Redis cache of parsed statistics, fetchcareer into one file per player. *)
(* A run may be killed between any two steps; files are overwritten in     *)
(* place.                                                                  *)
(*                                                                         *)
(* Source: tennis/cmd/fetchrates, fetchcareer and getstats, and the        *)
(* lookups of tennis/tennisabstract (client.go, cache.go, career_file.go,  *)
(* fetch.go, fetch_classic.go, player_rates_file.go, name.go).  A request  *)
(* is one step here; RequestGate is its inside.                            *)
(***************************************************************************)
EXTENDS Naturals, Sequences

CONSTANTS
  Names,  \* UniquePlayerNamesFromMatchesCSV: the names of the matches file, in order
  Slug,   \* PlayerSlug of each name; two spellings may share one
  Key     \* the lower-case slug: name of the file and of the Redis key

NameSet == {Names[i] : i \in 1 .. Len(Names)}
Slugs == {Slug[n] : n \in NameSet}
Keys == {Key[s] : s \in Slugs}

ASSUME FetchAssumption ==
  /\ Names \in Seq(STRING)
  /\ Names # <<>>

VARIABLES
  tool,        \* the program of the present or last run
  flags,       \* its flags and environment
  pc,          \* where it stands
  i,           \* position in Names
  stats,       \* the local stats of the player being looked up
  rates,       \* fetchrates: the map in memory
  fetchErrs,   \* has an error been counted?
  exit,        \* exit code of the last run, NoCode while it runs or when it was killed
  cache,       \* Redis: PlayerCacheKey to parsed statistics
  careerFile,  \* the career files
  ratesFile,   \* the output of fetchrates
  before       \* ghost: the entries fetchrates found in it

disk == <<careerFile, ratesFile>>
runVars == <<flags, before>>
vars == <<tool, flags, pc, i, stats, rates, fetchErrs, exit, cache, careerFile,
          ratesFile, before>>

\* What the statistics of a player give as a baseline: no row for the year, a
\* dominance ratio of zero or above, or no number (two seasons without matches).
Baselines == {"noSeason", "noDR", "full", "nan"}
Entries == {"absent", "noDR", "full", "nan"}
NoStats == "none"
Tools == {"none", "fetchrates", "fetchcareer", "getstats"}
NoCode == 9
NoFlags == [merge |-> FALSE, fillDR |-> FALSE, caching |-> FALSE]
NoEntries == [s \in Slugs |-> "absent"]
Files == [state : {"missing", "torn", "whole"}, entries : [Slugs -> Entries]]

Places == {"idle", "open", "next", "get", "fetch", "set", "baseline", "classic",
           "more", "create", "writing"}

slug == Slug[Names[i]]
key == Key[slug]

TypeOK ==
  /\ tool \in Tools
  /\ flags \in [merge : BOOLEAN, fillDR : BOOLEAN, caching : BOOLEAN]
  /\ pc \in Places
  /\ i \in 1 .. Len(Names) + 1
  /\ stats \in Baselines \cup {NoStats}
  /\ rates \in [Slugs -> Entries]
  /\ fetchErrs \in BOOLEAN
  /\ exit \in {0, 1, NoCode}
  /\ cache \in [Keys -> {"empty", "stats", "undecodable"}]
  /\ careerFile \in [Keys -> {"missing", "torn", "whole"}]
  /\ ratesFile \in Files
  /\ before \in [Slugs -> Entries]

\* A value in Redis may have been left by a version that parsed otherwise.
Init ==
  /\ tool = "none"
  /\ flags = NoFlags
  /\ pc = "idle"
  /\ i = 1
  /\ stats = NoStats
  /\ rates = NoEntries
  /\ fetchErrs = FALSE
  /\ exit = NoCode
  /\ cache \in [Keys -> {"empty", "undecodable"}]
  /\ careerFile = [k \in Keys |-> "missing"]
  /\ ratesFile = [state |-> "missing", entries |-> NoEntries]
  /\ before = NoEntries

-----------------------------------------------------------------------------
(* A run begins, ends, or is killed.                                        *)

Run(t, f, at) ==
  /\ pc = "idle"
  /\ tool' = t
  /\ flags' = f
  /\ pc' = at
  /\ i' \in IF t = "getstats" THEN 1 .. Len(Names) ELSE {1}
  /\ stats' = NoStats
  /\ rates' = NoEntries
  /\ fetchErrs' = FALSE
  /\ exit' = NoCode
  /\ before' = NoEntries
  /\ UNCHANGED <<cache, disk>>

Start ==
  \E merge, fillDR, caching \in BOOLEAN :
    LET f == [merge |-> merge, fillDR |-> fillDR, caching |-> caching]
    IN  \/ Run("fetchrates", f, "open")
        \/ ~caching /\ ~fillDR /\ Run("fetchcareer", f, "next")
        \/ ~merge /\ ~fillDR /\ Run("getstats", f, "get")

\* The locals of a run that is over are of no more use.
Stop ==
  /\ pc' = "idle"
  /\ i' = 1
  /\ stats' = NoStats
  /\ rates' = NoEntries
  /\ fetchErrs' = FALSE
  /\ flags' = NoFlags
  /\ before' = NoEntries

Return(code) == Stop /\ exit' = code

\* An interrupt, a crash, a full machine: memory is lost, files stay.
Kill ==
  /\ pc # "idle"
  /\ Stop
  /\ UNCHANGED <<tool, exit, cache, disk>>

\* Where a tool goes with a player done, and with one that failed.
NextName ==
  /\ i' = i + 1
  /\ stats' = NoStats
  /\ pc' = "next"
  /\ UNCHANGED runVars

Failed ==
  IF tool = "getstats"
  THEN Return(1)
  ELSE NextName /\ fetchErrs' = TRUE /\ UNCHANGED <<rates, exit>>

-----------------------------------------------------------------------------
(* GetPlayerStats: cache, page, parse, cache.                               *)

\* Which statistics Redis holds is left open: a hit may give any.  A read of
\* Redis that fails and a value that does not decode fail the
\* player; without a cache every read is a miss.
CacheFails ==
  /\ pc = "get"
  /\ flags.caching
  /\ Failed
  /\ UNCHANGED <<tool, cache, disk>>

CacheHit ==
  /\ pc = "get"
  /\ flags.caching
  /\ cache[key] = "stats"
  /\ stats' \in Baselines
  /\ pc' = "baseline"
  /\ UNCHANGED <<tool, flags, i, rates, fetchErrs, exit, cache, disk, before>>

CacheMiss ==
  /\ pc = "get"
  /\ ~flags.caching \/ cache[key] = "empty"
  /\ pc' = "fetch"
  /\ UNCHANGED <<tool, flags, i, stats, rates, fetchErrs, exit, cache, disk, before>>

\* fetchPlayerHTML and ParsePlayerHTML.
PageLoaded ==
  /\ pc = "fetch"
  /\ stats' \in Baselines
  /\ pc' = "set"
  /\ UNCHANGED <<tool, flags, i, rates, fetchErrs, exit, cache, disk, before>>

PageFails ==
  /\ pc = "fetch"
  /\ Failed
  /\ UNCHANGED <<tool, cache, disk>>

Store ==
  /\ pc = "set"
  /\ cache' = IF flags.caching THEN [cache EXCEPT ![key] = "stats"] ELSE cache
  /\ pc' = "baseline"
  /\ UNCHANGED <<tool, flags, i, stats, rates, fetchErrs, exit, disk, before>>

\* What was fetched is dropped when Redis cannot take it.
StoreFails ==
  /\ pc = "set"
  /\ flags.caching
  /\ Failed
  /\ UNCHANGED <<tool, cache, disk>>

Expire(k) ==
  /\ cache[k] # "empty"
  /\ cache' = [cache EXCEPT ![k] = "empty"]
  /\ UNCHANGED <<tool, flags, pc, i, stats, rates, fetchErrs, exit, disk, before>>

-----------------------------------------------------------------------------
(* getstats: one player's adjusted rates.  The encoder takes no NaN.        *)

PrintStats ==
  /\ pc = "baseline"
  /\ tool = "getstats"
  /\ Return(IF stats \in {"noSeason", "nan"} THEN 1 ELSE 0)
  /\ UNCHANGED <<tool, cache, disk>>

-----------------------------------------------------------------------------
(* fetchrates: one map, written when the loop is over.                      *)

\* With -merge a missing file is an empty one; one that does not decode ends
\* the run.
OpenRates ==
  /\ pc = "open"
  /\ IF flags.merge /\ ratesFile.state = "torn"
     THEN Return(1)
     ELSE LET existing == IF flags.merge THEN ratesFile.entries ELSE NoEntries
          IN  /\ rates' = existing
              /\ before' = existing
              /\ pc' = "next"
              /\ UNCHANGED <<flags, i, stats, fetchErrs, exit>>
  /\ UNCHANGED <<tool, cache, disk>>

\* An entry stays unless -fill-dr asks for the players without a ratio.
Keeps(entry) == entry # "absent" /\ (~flags.fillDR \/ entry = "full")

\* Fault: the entry to be refreshed is given up before its lookup.
NextRatesDropping ==
  /\ pc = "next"
  /\ tool = "fetchrates"
  /\ i <= Len(Names)
  /\ IF Keeps(rates[slug])
     THEN NextName /\ UNCHANGED rates
     ELSE pc' = "get" /\ rates' = [rates EXCEPT ![slug] = "absent"] /\ UNCHANGED <<i, stats, runVars>>
  /\ UNCHANGED <<tool, fetchErrs, exit, cache, disk>>
NextRates ==
  /\ pc = "next"
  /\ tool = "fetchrates"
  /\ i <= Len(Names)
  /\ IF Keeps(rates[slug]) THEN NextName ELSE pc' = "get" /\ UNCHANGED <<i, stats, runVars>>
  /\ UNCHANGED <<tool, rates, fetchErrs, exit, cache, disk>>

\* Fault: a player without a season is passed over.
SetRatesQuietly ==
  /\ pc = "baseline"
  /\ tool = "fetchrates"
  /\ NextName
  /\ rates' = IF stats = "noSeason" THEN rates ELSE [rates EXCEPT ![slug] = stats]
  /\ UNCHANGED <<tool, fetchErrs, exit, cache, disk>>
SetRates ==
  /\ pc = "baseline"
  /\ tool = "fetchrates"
  /\ IF stats = "noSeason"
     THEN Failed
     ELSE /\ rates' = [rates EXCEPT ![slug] = stats]
          /\ NextName
          /\ UNCHANGED <<fetchErrs, exit>>
  /\ UNCHANGED <<tool, cache, disk>>

\* The encoder refuses a NaN of any player, and the file may not open: the
\* file is as it was and the run has nothing to show.
WriteRatesFails ==
  /\ pc = "next"
  /\ tool = "fetchrates"
  /\ i > Len(Names)
  /\ Return(1)
  /\ UNCHANGED <<tool, cache, disk>>

TruncateRates ==
  /\ pc = "next"
  /\ tool = "fetchrates"
  /\ i > Len(Names)
  /\ \A s \in Slugs : rates[s] # "nan"
  /\ ratesFile' = [state |-> "torn", entries |-> NoEntries]
  /\ pc' = "writing"
  /\ UNCHANGED <<tool, flags, i, stats, rates, fetchErrs, exit, cache, careerFile, before>>

WriteRates ==
  /\ pc = "writing"
  /\ tool = "fetchrates"
  /\ \/ /\ ratesFile' = [state |-> "whole", entries |-> rates]
        /\ Return(IF fetchErrs THEN 1 ELSE 0)
     \/ Return(1) /\ UNCHANGED ratesFile  \* the disk is full
  /\ UNCHANGED <<tool, cache, careerFile>>

-----------------------------------------------------------------------------
(* fetchcareer: one file per player, written as soon as it is fetched.      *)

\* With -merge a whole file is skipped, a torn one ends the run.
\* Fault: the file that is skipped is looked at again.
NextCareerAgain ==
  /\ pc = "next"
  /\ tool = "fetchcareer"
  /\ i <= Len(Names)
  /\ IF flags.merge /\ careerFile[key] = "torn"
     THEN Return(1)
     ELSE /\ UNCHANGED <<i, stats, rates, fetchErrs, exit, runVars>>
          /\ pc' = IF flags.merge /\ careerFile[key] = "whole" THEN "next" ELSE "classic"
  /\ UNCHANGED <<tool, cache, disk>>
NextCareer ==
  /\ pc = "next"
  /\ tool = "fetchcareer"
  /\ i <= Len(Names)
  /\ IF flags.merge /\ careerFile[key] = "torn"
     THEN Return(1)
     ELSE /\ UNCHANGED <<rates, fetchErrs, exit>>
          /\ IF flags.merge /\ careerFile[key] = "whole"
             THEN NextName
             ELSE pc' = "classic" /\ UNCHANGED <<i, stats, runVars>>
  /\ UNCHANGED <<tool, cache, disk>>

\* The classic page with its matchmx, then Career.js: a 404 there means the
\* player has no older rows.
ClassicPage ==
  /\ pc = "classic"
  /\ \/ pc' = "more" /\ UNCHANGED <<i, stats, rates, fetchErrs, exit, runVars>>
     \/ Failed
  /\ UNCHANGED <<tool, cache, disk>>

CareerJS ==
  /\ pc = "more"
  /\ \/ pc' = "create" /\ UNCHANGED <<i, stats, rates, fetchErrs, exit, runVars>>
     \/ Failed
  /\ UNCHANGED <<tool, cache, disk>>

CreateFails ==
  /\ pc = "create"
  /\ Failed
  /\ UNCHANGED <<tool, cache, disk>>

TruncateCareer ==
  /\ pc = "create"
  /\ careerFile' = [careerFile EXCEPT ![key] = "torn"]
  /\ pc' = "writing"
  /\ UNCHANGED <<tool, flags, i, stats, rates, fetchErrs, exit, cache, ratesFile, before>>

WriteCareer ==
  /\ pc = "writing"
  /\ tool = "fetchcareer"
  /\ \/ /\ careerFile' = [careerFile EXCEPT ![key] = "whole"]
        /\ NextName
        /\ UNCHANGED <<rates, fetchErrs, exit>>
     \/ Failed /\ UNCHANGED careerFile
  /\ UNCHANGED <<tool, cache, ratesFile>>

EndCareer ==
  /\ pc = "next"
  /\ tool = "fetchcareer"
  /\ i > Len(Names)
  /\ Return(IF fetchErrs THEN 1 ELSE 0)
  /\ UNCHANGED <<tool, cache, disk>>

-----------------------------------------------------------------------------
Step ==
  \/ CacheFails \/ CacheHit \/ CacheMiss \/ PageLoaded \/ PageFails \/ Store \/ StoreFails
  \/ PrintStats
  \/ OpenRates \/ NextRates \/ SetRates \/ WriteRatesFails \/ TruncateRates \/ WriteRates
  \/ NextCareer \/ ClassicPage \/ CareerJS \/ CreateFails \/ TruncateCareer \/ WriteCareer
  \/ EndCareer

Next == Start \/ Step \/ Kill \/ \E k \in Keys : Expire(k)

\* Requests and Redis commands time out; that a tool goes on is assumed where
\* the commands are put together (TennisCommands).
Spec == Init /\ [][Next]_vars

-----------------------------------------------------------------------------
(* Properties.                                                              *)

\* Exit code 0 vouches for the disk, after any kills and full disks of
\* earlier runs: every player of the matches file has an entry in a rates
\* file that decodes, or a career file that decodes (exitRun of fetchrates
\* and fetchcareer).
ExitZeroIsComplete ==
  exit = 0 =>
    /\ tool = "fetchrates" =>
         ratesFile.state = "whole" /\ \A s \in Slugs : ratesFile.entries[s] # "absent"
    /\ tool = "fetchcareer" => \A k \in Keys : careerFile[k] = "whole"

\* What a run with -merge writes gives up no player it found and takes no
\* ratio away, whatever failed on the way, and a file that did not decode is
\* never taken for an empty one (fetchrates).
MergeStep ==
  flags.merge =>
    /\ ratesFile.state = "torn" => pc = "writing"
    /\ ratesFile'.state = "whole" =>
         \A s \in Slugs :
           /\ before[s] # "absent" => ratesFile'.entries[s] # "absent"
           /\ before[s] = "full" => ratesFile'.entries[s] = "full"

MergeKeepsEntries == [][MergeStep]_ratesFile
=============================================================================
