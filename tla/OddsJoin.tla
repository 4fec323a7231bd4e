------------------------------ MODULE OddsJoin ------------------------------
(***************************************************************************)
(* joinmatchodds: every row of the matches file is written with the odds   *)
(* of the nearest odds row of the same pairing on the same surface.  The   *)
(* players of the two files meet under a key built from their names.  What *)
(* the loaders make of the rows, with and without the odds, is here too.   *)
(*                                                                         *)
(* Source: tennis/tennisabstract (odds_join.go, player_key.go,             *)
(* matches_csv.go, matches_odds_csv.go) and tennis/cmd/joinmatchodds.  A   *)
(* word is its lower-case letters; dates are day numbers; odds that do not *)
(* parse are 0.                                                            *)
(***************************************************************************)
EXTENDS Integers, Sequences, FiniteSets, SequencesExt, FiniteSetsExt

CONSTANTS
  MatchTables,  \* the contents the matches file may have
  OddsTables,   \* and the odds file
  InitialOf,    \* first letter of each word
  Compound,     \* names with a surname of several words and no particle
  RatedSlugs,   \* players of the rates file
  SlugOf        \* PlayerSlug of a name, a sequence of words

ASSUME TablesAssumption ==
  /\ \A table \in MatchTables : /\ table \in Seq({table[p] : p \in DOMAIN table})
                                /\ \A p \in DOMAIN table : table[p].date \in Nat
  /\ \A table \in OddsTables : /\ table \in Seq({table[p] : p \in DOMAIN table})
                               /\ \A p \in DOMAIN table : table[p].date \in Nat

VARIABLES
  matches,    \* rows of the matches file
  odds,       \* rows of the odds file
  nextRow,    \* the row read next
  out,        \* rows of the output, each with avgW and avgL
  joinStats,  \* JoinMatchesOddsResult
  joinExit    \* exit code; Joining while it runs, NotJoined when it was not started

joinVars == <<matches, odds, nextRow, out, joinStats, joinExit>>

Joining == 9
NotJoined == 8
NoName == <<>>
NoDate == 0
NoOdds == 0

-----------------------------------------------------------------------------
(* The keys under which a player is known in the two files.                 *)

surnameParticles ==
  {"de", "del", "della", "da", "dos", "du", "van", "von", "le", "la", "st"}

\* normalizePlayerKeyPart of several words: their letters, in one.
Letters(words) == FoldLeft(LAMBDA letters, word : letters \o word, "", words)

\* "Juan Martin del Potro": the surname starts at the first particle that is
\* not the first word, else it is the last word.
playerKeyFromSackmannName(name) ==
  LET particles == {p \in 2 .. Len(name) : name[p] \in surnameParticles}
      from == IF particles = {} THEN Len(name) ELSE Min(particles)
  IN  CASE Len(name) = 0 -> [last |-> "", initial |-> ""]
        [] Len(name) = 1 -> [last |-> name[1], initial |-> ""]
        [] OTHER -> [last |-> Letters(SubSeq(name, from, Len(name))),
                     initial |-> InitialOf[name[1]]]

\* "Del Potro J.M.": what stands before the dotted word; without one, the
\* first word and the initial of the second.
playerKeyFromOddsName(name) ==
  CASE name.dotted ->
         [last |-> Letters(Front(name.words)), initial |-> InitialOf[Last(name.words)]]
    [] ~name.dotted /\ Len(name.words) > 1 ->
         [last |-> name.words[1], initial |-> InitialOf[name.words[2]]]
    [] OTHER ->
         [last |-> name.words[1], initial |-> ""]

-----------------------------------------------------------------------------
(* The join of one row.                                                     *)

MatchJoinMaxDateDiff == 21
daysApart(a, b) == IF a < b THEN b - a ELSE a - b

\* Rows without both odds, or of a match that was not completed, are left out.
Indexed(o) == o.avgW # NoOdds /\ o.avgL # NoOdds /\ o.comment \in {"", "Completed"}

oddsMatchKey(o) ==
  [winner |-> playerKeyFromOddsName(o.winner), loser |-> playerKeyFromOddsName(o.loser),
   surface |-> o.surface]

matchKey(m) ==
  [winner |-> playerKeyFromSackmannName(m.winner),
   loser |-> playerKeyFromSackmannName(m.loser), surface |-> m.surface]

\* The bucket of a match: positions in the odds file, in order.
Bucket(rows, m) ==
  {p \in 1 .. Len(rows) : Indexed(rows[p]) /\ oddsMatchKey(rows[p]) = matchKey(m)}

Joinable(m) ==
  m.date # NoDate /\ m.winner # NoName /\ m.loser # NoName /\ m.surface # ""

\* The first of the nearest rows; 0 when none is near enough.
\* Fault: the last row that is near enough, whatever the distance.
findBestOddsMatchLast(rows, m) ==
  LET near == {p \in Bucket(rows, m) : daysApart(m.date, rows[p].date) <= MatchJoinMaxDateDiff}
  IN  IF near = {} THEN 0 ELSE Max(near)
findBestOddsMatch(rows, m) ==
  LET near == {p \in Bucket(rows, m) : daysApart(m.date, rows[p].date) <= MatchJoinMaxDateDiff}
      nearest == {p \in near : \A q \in near :
                    daysApart(m.date, rows[p].date) <= daysApart(m.date, rows[q].date)}
  IN  IF near = {} THEN 0 ELSE Min(nearest)

WithOdds(m, avgW, avgL) ==
  [winner |-> m.winner, loser |-> m.loser, surface |-> m.surface, score |-> m.score,
   bestOf |-> m.bestOf, date |-> m.date, num |-> m.num, avgW |-> avgW, avgL |-> avgL]

Joined(rows, m) ==
  LET best == IF Joinable(m) THEN findBestOddsMatch(rows, m) ELSE 0
  IN  IF best = 0 THEN WithOdds(m, NoOdds, NoOdds)
      ELSE WithOdds(m, rows[best].avgW, rows[best].avgL)

-----------------------------------------------------------------------------
(* The loaders.                                                             *)

Surfaces == {"Hard", "Clay", "Grass"}

\* matchFormatForBestOf: three sets or five.
KnownFormat(bestOf) == bestOf \in {3, 5}
scoreIsIncomplete(score) == score \in {"RET", "W/O", "DEF"}

\* The rows a loader keeps, in the order of the file.
Nth(positions, k) ==
  CHOOSE p \in positions : Cardinality({q \in positions : q <= p}) = k
RowsAt(rows, positions) == [k \in 1 .. Cardinality(positions) |-> rows[Nth(positions, k)]]

\* What both loaders ask of a row.
Loadable(m) ==
  /\ m.surface \in Surfaces
  /\ KnownFormat(m.bestOf)
  /\ m.winner # NoName
  /\ m.loser # NoName
  /\ m.date # NoDate

\* parseCalibrationRow: an incomplete score is counted as such even when the
\* row is invalid as well.
skipReason(m) ==
  CASE scoreIsIncomplete(m.score) -> "incomplete"
    [] ~scoreIsIncomplete(m.score) /\ ~Loadable(m) -> "invalid"
    [] OTHER -> "none"

LoadCalibrationMatches(rows) ==
  LET With(reason) == {p \in 1 .. Len(rows) : skipReason(rows[p]) = reason}
  IN  [matches |-> RowsAt(rows, With("none")),
       SkippedIncomplete |-> Cardinality(With("incomplete")),
       SkippedInvalid |-> Cardinality(With("invalid"))]

\* parseMatchWithOddsRow does not look at the score.
LoadMatchesWithOdds(rows) ==
  RowsAt(rows, {p \in 1 .. Len(rows) : Loadable(rows[p]) /\ rows[p].num >= 0})

HasRates(m) == SlugOf[m.winner] \in RatedSlugs /\ SlugOf[m.loser] \in RatedSlugs

\* Fault: a retirement counts as a result.
backtestMatchEligibleRetired(m) == HasRates(m) /\ m.avgW > 0 /\ m.avgL > 0
backtestMatchEligible(m) ==
  ~scoreIsIncomplete(m.score) /\ HasRates(m) /\ m.avgW > 0 /\ m.avgL > 0

FilterBacktestMatches(rows) ==
  RowsAt(rows, {p \in 1 .. Len(rows) : backtestMatchEligible(rows[p])})

\* The names fetchrates and fetchcareer ask for, one per spelling.
UniquePlayerNames(rows) ==
  (UNION {{rows[p].winner, rows[p].loser} : p \in 1 .. Len(rows)}) \ {NoName}

-----------------------------------------------------------------------------
(* The program.                                                             *)

NoJoinStats == [written |-> 0, matched |-> 0, unmatched |-> 0]

JoinIdle ==
  /\ matches = <<>>
  /\ odds = <<>>
  /\ nextRow = 1
  /\ out = <<>>
  /\ joinStats = NoJoinStats
  /\ joinExit = NotJoined

JoinInit ==
  /\ matches \in MatchTables
  /\ odds \in OddsTables
  /\ nextRow = 1
  /\ out = <<>>
  /\ joinStats = NoJoinStats
  /\ joinExit = Joining

JoinRow ==
  /\ joinExit = Joining
  /\ nextRow <= Len(matches)
  /\ LET row == Joined(odds, matches[nextRow])
         priced == row.avgW # NoOdds /\ row.avgL # NoOdds
     IN  /\ out' = Append(out, row)
         /\ joinStats' = [joinStats EXCEPT !.written = @ + 1,
                                   !.matched = IF priced THEN @ + 1 ELSE @,
                                   !.unmatched = IF priced THEN @ ELSE @ + 1]
  /\ nextRow' = nextRow + 1
  /\ UNCHANGED <<matches, odds, joinExit>>

\* The rows may end early: the file does not parse on, or the disk is full.
\* The writer has then flushed as many rows as its buffer let through.
JoinFails ==
  /\ joinExit = Joining
  /\ \E flushed \in 0 .. Len(out) : out' = SubSeq(out, 1, flushed)
  /\ joinExit' = 1
  /\ UNCHANGED <<matches, odds, nextRow, joinStats>>

JoinEnds ==
  /\ joinExit = Joining
  /\ nextRow > Len(matches)
  /\ joinExit' = 0
  /\ UNCHANGED <<matches, odds, nextRow, out, joinStats>>

JoinNext == JoinRow \/ JoinFails \/ JoinEnds

-----------------------------------------------------------------------------
(* Properties.                                                              *)

\* The files are such that their keys tell the players apart: rows with one key
\* are of the same two players, and rows of the same two players have one key
\* unless a surname is compound, which the two files write differently.
ToldApart(m, o) ==
  Indexed(o) =>
    /\ Joinable(m) /\ oddsMatchKey(o) = matchKey(m) => o.of = <<m.winner, m.loser>>
    /\ o.of = <<m.winner, m.loser>> /\ o.surface = m.surface
         => /\ m.winner # NoName /\ m.loser # NoName /\ m.surface # ""
            /\ oddsMatchKey(o) = matchKey(m) <=> {m.winner, m.loser} \cap Compound = {}
KeysTellApart ==
  \A table \in MatchTables, rows \in OddsTables :
    \A p \in DOMAIN table, q \in DOMAIN rows : ToldApart(table[p], rows[q])

\* The odds of a row are those of the nearest meeting of the same two players
\* on its surface, whatever way the two files spell their names, and none
\* where there is no such meeting; only a compound surname without a particle
\* goes without them (findBestOddsMatch, player_key.go).  The odds rows of the
\* model carry the players they are about.
OddsAreOfTheMeeting ==
  \A p \in 1 .. Len(out) :
    LET m == matches[p]
        Meets(o) == /\ Indexed(o)
                    /\ o.of = <<m.winner, m.loser>>
                    /\ o.surface = m.surface
                    /\ daysApart(m.date, o.date) <= MatchJoinMaxDateDiff
        meetings == {q \in 1 .. Len(odds) : m.date # NoDate /\ Meets(odds[q])}
        Nearest(q) == \A r \in meetings :
                        daysApart(m.date, odds[q].date) <= daysApart(m.date, odds[r].date)
    IN  IF out[p].avgW = NoOdds \/ out[p].avgL = NoOdds
        THEN {m.winner, m.loser} \cap Compound = {} => meetings = {}
        ELSE \E q \in meetings :
               Nearest(q) /\ out[p].avgW = odds[q].avgW /\ out[p].avgL = odds[q].avgL

\* The two paths from the matches file agree: what a bet is placed on, after
\* the join and its loader, is what the calibration was scored on, less the
\* matches without odds; and the counters of the join and of the loader
\* account for every row (JoinMatchesWithAvgOddsCSV, the two loaders).
PoolsAgree ==
  joinExit = 0 =>
    LET load == LoadCalibrationMatches(matches)
        Rated(m) == HasRates(m)
        Priced(m) == m.avgW > 0 /\ m.avgL > 0 /\ m.num >= 0
        Plain(m) == WithOdds(m, NoOdds, NoOdds)
        bets == FilterBacktestMatches(LoadMatchesWithOdds(out))
        pool == LoadCalibrationMatches(out).matches
        Bet(m) == Rated(m) /\ Priced(m)
    IN  /\ bets = RowsAt(pool, {k \in 1 .. Len(pool) : Bet(pool[k])})
        /\ [p \in 1 .. Len(pool) |-> Plain(pool[p])]
             = [p \in 1 .. Len(load.matches) |-> Plain(load.matches[p])]
        /\ Len(load.matches) + load.SkippedIncomplete + load.SkippedInvalid = joinStats.written
        /\ joinStats.matched + joinStats.unmatched = Len(matches)
        /\ {m.winner : m \in Range(bets)} \subseteq UniquePlayerNames(matches)
=============================================================================
