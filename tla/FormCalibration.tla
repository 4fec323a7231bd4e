--------------------------- MODULE FormCalibration --------------------------
(***************************************************************************)
(* The grid searches.  calibrateform preloads the recent results of every  *)
(* eligible match of a surface, then scores the points of the form grid on *)
(* them, in goroutines bounded by a semaphore, and takes the best;         *)
(* calibratealpha scores one alpha after the other and asks for the recent *)
(* results again each time.  One surface after the other.                  *)
(*                                                                         *)
(* Source: tennis/cmd/calibrateform, tennis/cmd/calibratealpha and         *)
(* tennis/tennisabstract (backtest_preload.go, form_grid.go).  What the    *)
(* simulations of a point give is drawn for each random stream; a lookup   *)
(* of a career may fail at any time.                                       *)
(***************************************************************************)
EXTENDS FormRates

CONSTANTS
  Pools,        \* the matches of each surface, in the order of the surfaces
  RateSlugs,    \* players of the rates file
  Careers,      \* of each player: career results
  Bounds,       \* FormGridBounds
  GridPoints,   \* number of points it gives
  RecentLimit,  \* RecentMatchLimit of withDefaults
  Workers,      \* calibrationWorkers
  AlphaRanges,  \* -alpha-min and -alpha-max
  SearchEnv,    \* the TENNISABSTRACT_FORM_* variables
  Scores        \* metrics a point may reach: [accuracy, hitRate]

VARIABLES
  search,    \* "form" or "alpha"; "none" while neither tool runs
  useForm,   \* the -use-recent-form flag of calibratealpha
  alphas,    \* its range
  combos,    \* the points of the form grid
  score,     \* the metrics each random stream leads to
  surface,   \* position in Pools
  phase,     \* what the main goroutine does
  recentOf,  \* the preload cache: PlayerRecentKey to results
  perMatch,  \* CalibrationRecentPreload
  launched,  \* grid points, or alphas, begun
  task,      \* of each grid point: its goroutine
  stopped,   \* the errgroup has recorded an error and cancelled its context
  grid,      \* the metrics, in the order of the grid until they are sorted
  report,    \* the sorted grids of the surfaces done
  searchExit

inputs == <<search, useForm, alphas, combos, score>>
preloadVars == <<recentOf, perMatch>>
gridVars == <<launched, task, stopped, grid>>
calibrationVars == <<inputs, surface, phase, preloadVars, gridVars, report, searchExit>>

Searching == 9
NotSearched == 8

-----------------------------------------------------------------------------
(* The grid.                                                                *)

\* FloatGrid: from start to stop, inclusive.
FloatGrid(start, stop, step) ==
  IF step <= 0 \/ start > stop THEN <<>>
  ELSE [k \in 1 .. (stop - start) \div step + 1 |-> start + (k - 1) * step]

\* Nested loops, the ratio's ceiling innermost.
FormGridCombos(b) ==
  LET Each(seq, Inner(_)) == FlattenSeq([k \in 1 .. Len(seq) |-> Inner(seq[k])])
      Point(h, w, lo, hi) ==
        [halfLife |-> h, weightMax |-> w, ratioMin |-> lo, ratioMax |-> hi]
      Highs(h, w, lo) ==
        LET Above(hi) == lo < hi
            highs == SelectSeq(FloatGrid(b.ratioMax[1], b.ratioMax[2], b.ratioMax[3]), Above)
        IN  [k \in 1 .. Len(highs) |-> Point(h, w, lo, highs[k])]
      Lows(h, w) == Each(FloatGrid(b.ratioMin[1], b.ratioMin[2], b.ratioMin[3]),
                         LAMBDA lo : Highs(h, w, lo))
      Weights(h) == Each(FloatGrid(b.weightMax[1], b.weightMax[2], b.weightMax[3]),
                         LAMBDA w : Lows(h, w))
  IN  Each(FloatGrid(b.halfLife[1], b.halfLife[2], b.halfLife[3]), LAMBDA h : Weights(h))

Points == 1 .. GridPoints

\* The flags of the grid are as positive as their defaults are: the code takes
\* a grid that starts at 0, but then scores those points with the defaults.
ASSUME GridPointsAssumption ==
  /\ GridPoints \in Nat /\ GridPoints = Len(FormGridCombos(Bounds))
  /\ \A p \in Points : LET point == FormGridCombos(Bounds)[p]
                       IN  /\ \A f \in Tuned : point[f] \in Nat
                           /\ \A f \in Tuned \ {"weightMax"} : point[f] > 0

ASSUME SearchAssumption ==
  /\ Len(Pools) \in Nat \ {0}
  /\ Tuned \subseteq DOMAIN Defaults
  /\ \A metrics \in Scores : metrics.accuracy \in Nat
  /\ \A range \in AlphaRanges : range[1] \in Int /\ range[2] \in Int

\* gridSeed: every grid index has a stream of its own.
\* Fault: the goroutines draw from one stream.
gridSeedShared(i) == 1 + Cardinality({p \in Points : task[p] = "ended"})
gridSeed(i) == i

-----------------------------------------------------------------------------
(* One surface.                                                             *)

HasBothRates(m) == m.a \in RateSlugs /\ m.b \in RateSlugs
eligibleOf(s) == SelectSeq(Pools[s], HasBothRates)
eligible == eligibleOf(surface)

NoMatch == [a |-> <<>>, b |-> <<>>, ok |-> FALSE]
NoScore == [accuracy |-> 0, hitRate |-> 0]
NoTasks == [p \in Points |-> "none"]
NoGrid == [p \in Points |-> [at |-> p, with |-> Unset, scoredOn |-> {},
                            accuracy |-> 0, hitRate |-> 0]]

FirstPhase == IF search = "form" THEN "preload" ELSE "alpha"

\* A surface begins without anything of the one before it.
Begin ==
  /\ recentOf' = <<>>
  /\ perMatch' = <<>>
  /\ launched' = 0
  /\ task' = NoTasks
  /\ stopped' = FALSE
  /\ grid' = IF search = "form" THEN NoGrid ELSE <<>>

SurfaceDone(sorted) ==
  /\ report' = Append(report, sorted)
  /\ surface' = surface + 1
  /\ Begin
  /\ phase' = IF surface = Len(Pools) THEN "write" ELSE FirstPhase

Exit(code) == phase' = "exited" /\ searchExit' = code

calibrationIdle ==
  /\ search = "none" /\ useForm = FALSE /\ alphas = <<0, 0>>
  /\ combos = <<>> /\ score = [p \in Points |-> NoScore]
  /\ surface = 1 /\ phase = "load"
  /\ recentOf = <<>> /\ perMatch = <<>>
  /\ launched = 0 /\ task = NoTasks /\ stopped = FALSE /\ grid = <<>>
  /\ report = <<>> /\ searchExit = NotSearched

calibrationInit ==
  /\ search \in {"form", "alpha"}
  /\ useForm \in {search = "form", TRUE}
  /\ alphas \in IF search = "form" THEN {<<0, 0>>} ELSE AlphaRanges
  /\ combos = IF search = "form" THEN FormGridCombos(Bounds) ELSE <<>>
  /\ score \in [Points -> Scores]
  /\ surface = 1 /\ phase = "load"
  /\ recentOf = <<>> /\ perMatch = <<>>
  /\ launched = 0 /\ task = NoTasks /\ stopped = FALSE
  /\ grid = IF search = "form" THEN NoGrid ELSE <<>>
  /\ report = <<>> /\ searchExit = Searching

\* The files are read, the flags looked at: an empty grid and an alpha that is
\* not positive, as the default of -alpha-min, end the run.
Load ==
  /\ phase = "load" /\ searchExit = Searching
  /\ \/ Exit(1)
     \/ /\ IF search = "form" THEN combos # <<>>
           ELSE 0 < alphas[1] /\ alphas[1] <= alphas[2]
        /\ phase' = FirstPhase
        /\ UNCHANGED searchExit
  /\ UNCHANGED <<inputs, surface, preloadVars, gridVars, report>>

-----------------------------------------------------------------------------
(* calibrateform: the preload.                                              *)

\* Both players of a match, one lookup per player and date; a lookup that
\* fails is made again for the next match.  A match with a player missing is
\* left out at every point of the grid.
\* Fault: one lookup per player.
PreloadPerPlayer ==
  /\ phase = "preload" /\ Len(perMatch) < Len(eligible)
  /\ \E foundA, foundB \in BOOLEAN :
       LET m == eligible[Len(perMatch) + 1]
           Looked(cache, player, found) ==
             IF player \in DOMAIN cache \/ ~found THEN cache
             ELSE [p \in DOMAIN cache \cup {player} |->
                     IF p \in DOMAIN cache THEN cache[p]
                     ELSE RecentResultsBefore(Careers[player], m.date, RecentLimit)]
           both == Looked(Looked(recentOf, m.a, foundA), m.b, foundB)
           Of(player) == IF player \in DOMAIN both THEN both[player] ELSE <<>>
       IN  /\ recentOf' = both
           /\ perMatch' = Append(perMatch, [a |-> Of(m.a), b |-> Of(m.b),
                                            ok |-> {m.a, m.b} \subseteq DOMAIN both])
  /\ UNCHANGED <<inputs, surface, phase, gridVars, report, searchExit>>
Preload ==
  /\ phase = "preload" /\ Len(perMatch) < Len(eligible)
  /\ \E foundA, foundB \in BOOLEAN :
       LET m == eligible[Len(perMatch) + 1]
           PlayerDay(player) == <<player, m.date>>
           Looked(cache, player, found) ==
             IF PlayerDay(player) \in DOMAIN cache \/ ~found THEN cache
             ELSE [k \in DOMAIN cache \cup {PlayerDay(player)} |->
                     IF k \in DOMAIN cache THEN cache[k]
                     ELSE RecentResultsBefore(Careers[player], m.date, RecentLimit)]
           both == Looked(Looked(recentOf, m.a, foundA), m.b, foundB)
           Of(player) == IF PlayerDay(player) \in DOMAIN both THEN both[PlayerDay(player)] ELSE <<>>
       IN  /\ recentOf' = both
           /\ perMatch' = Append(perMatch, [a |-> Of(m.a), b |-> Of(m.b),
                                            ok |-> {PlayerDay(m.a), PlayerDay(m.b)} \subseteq DOMAIN both])
  /\ UNCHANGED <<inputs, surface, phase, gridVars, report, searchExit>>

PreloadEnds ==
  /\ phase = "preload" /\ Len(perMatch) = Len(eligible)
  /\ phase' = "grid"
  /\ UNCHANGED <<inputs, surface, preloadVars, gridVars, report, searchExit>>

-----------------------------------------------------------------------------
(* calibrateform: the grid.                                                 *)

Running == {p \in Points : task[p] = "running"}
evaluable == {k \in 1 .. Len(perMatch) : perMatch[k].ok}

\* The main goroutine waits for a place of the semaphore, unless the context
\* is done; it then leaves without waiting for the goroutines.
Launch ==
  /\ phase = "grid" /\ launched < Len(combos)
  /\ ~stopped /\ Cardinality(Running) < Workers
  /\ launched' = launched + 1
  /\ task' = [task EXCEPT ![launched + 1] = "running"]
  /\ UNCHANGED <<inputs, surface, phase, preloadVars, stopped, grid, report, searchExit>>

AcquireFails ==
  /\ phase = "grid" /\ launched < Len(combos)
  /\ stopped
  /\ Exit(1)
  /\ UNCHANGED <<inputs, surface, preloadVars, gridVars, report>>

Metrics(at, with, metrics, matches) ==
  [at |-> at, with |-> with, scoredOn |-> matches,
   accuracy |-> IF matches = {} THEN 0 ELSE metrics.accuracy,
   hitRate |-> IF matches = {} THEN 0 ELSE metrics.hitRate]

\* The options of a point set the four tuned fields; the others are looked up
\* on the way (MatchPlayerRatesFromPreload).
PointOptions(p) ==
  withDefaults([f \in DOMAIN Defaults |-> IF f \in Tuned THEN combos[p][f] ELSE 0], SearchEnv)

FormMetrics(p) == Metrics(p, PointOptions(p), score[gridSeed(p)], evaluable)

Evaluate(p) ==
  /\ phase = "grid" /\ task[p] = "running"
  /\ grid' = [grid EXCEPT ![p] = FormMetrics(p)]
  /\ task' = [task EXCEPT ![p] = "ended"]
  /\ UNCHANGED <<inputs, surface, phase, preloadVars, launched, stopped, report, searchExit>>

\* The place is free before the error is recorded.
EvaluateFails(p) ==
  /\ phase = "grid" /\ task[p] = "running"
  /\ task' = [task EXCEPT ![p] = "failed"]
  /\ UNCHANGED <<inputs, surface, phase, preloadVars, launched, stopped, grid, report, searchExit>>

RecordError(p) ==
  /\ phase = "grid" /\ task[p] = "failed"
  /\ task' = [task EXCEPT ![p] = "ended"]
  /\ stopped' = TRUE
  /\ UNCHANGED <<inputs, surface, phase, preloadVars, launched, grid, report, searchExit>>

\* Ascending in the first place that differs.
Lexical(s, t) ==
  \E k \in 1 .. Len(s) : s[k] < t[k] /\ \A j \in 1 .. k - 1 : s[j] = t[j]

\* sort.Slice: rows that compare equal come in any order.
Rearranged(rows) ==
  {[k \in DOMAIN rows |-> rows[perm[k]]] : perm \in Bijection(DOMAIN rows, DOMAIN rows)}

\* Rows that differ in the ceiling alone are equal.
FormOrder(row) ==
  LET c == combos[row.at]
  IN  <<-row.accuracy, -row.hitRate, c.halfLife, -c.weightMax, c.ratioMin>>
FormLess(r, s) == Lexical(FormOrder(r), FormOrder(s))
sortFormMetrics(rows) ==
  {sorted \in Rearranged(rows) :
     \A j, k \in DOMAIN rows : j < k => ~FormLess(sorted[k], sorted[j])}

Wait ==
  /\ phase = "grid" /\ launched = Len(combos)
  /\ \A p \in Points : task[p] = "ended"
  /\ IF stopped
     THEN Exit(1) /\ UNCHANGED <<surface, preloadVars, gridVars, report>>
     ELSE (\E sorted \in sortFormMetrics(grid) : SurfaceDone(sorted)) /\ UNCHANGED searchExit
  /\ UNCHANGED inputs

-----------------------------------------------------------------------------
(* calibratealpha.                                                          *)

AlphaCount == alphas[2] - alphas[1] + 1

\* With form the careers of both players are asked for at every alpha; a match
\* they cannot be had for is left out of this alpha.  The simulation refuses
\* rates that are not shares.
AlphaMatch ==
  /\ phase = "alpha" /\ Len(grid) < AlphaCount /\ Len(perMatch) < Len(eligible)
  /\ \/ \E found \in {TRUE, ~useForm} :
          /\ perMatch' = Append(perMatch, [NoMatch EXCEPT !.ok = found])
          /\ UNCHANGED <<phase, searchExit>>
     \/ Exit(1) /\ UNCHANGED perMatch
  /\ UNCHANGED <<inputs, surface, recentOf, gridVars, report>>

AlphaDone ==
  /\ phase = "alpha" /\ Len(grid) < AlphaCount /\ Len(perMatch) = Len(eligible)
  /\ \E metrics \in Scores :
       LET with == IF useForm THEN FormOptionsFromEnv(Unset, SearchEnv) ELSE Unset
       IN  grid' = Append(grid, Metrics(alphas[1] + Len(grid), with, metrics, evaluable))
  /\ perMatch' = <<>>
  /\ UNCHANGED <<inputs, surface, phase, recentOf, launched, task, stopped, report, searchExit>>

AlphaLess(r, s) == Lexical(<<-r.accuracy, -r.at>>, <<-s.accuracy, -s.at>>)
sortAlphas(rows) ==
  {sorted \in Rearranged(rows) :
     \A j, k \in DOMAIN rows : j < k => ~AlphaLess(sorted[k], sorted[j])}
SortAlphas ==
  /\ phase = "alpha" /\ Len(grid) = AlphaCount
  /\ \E sorted \in sortAlphas(grid) : SurfaceDone(sorted)
  /\ UNCHANGED <<inputs, searchExit>>

-----------------------------------------------------------------------------
\* The summary is printed, and written when -json-out names a file.
WriteReport ==
  /\ phase = "write"
  /\ \E code \in {0, 1} : Exit(code)
  /\ UNCHANGED <<inputs, surface, preloadVars, gridVars, report>>

calibrationMain ==
  \/ Load
  \/ Preload \/ PreloadEnds \/ Launch \/ AcquireFails \/ Wait
  \/ AlphaMatch \/ AlphaDone \/ SortAlphas
  \/ WriteReport

calibrationTask(p) == Evaluate(p) \/ EvaluateFails(p) \/ RecordError(p)

calibrationNext == calibrationMain \/ \E p \in Points : calibrationTask(p)

-----------------------------------------------------------------------------
(* Properties.                                                              *)

\* What is preloaded for a match is what was known before its day, although
\* one lookup serves every match of a player on that day (preloadPlayerRecent).
PreloadedIsAsOf ==
  search = "form" =>
    \A k \in 1 .. Len(perMatch) :
      LET m == eligible[k]
          Known(player) == RecentResultsBefore(Careers[player], m.date, RecentLimit)
      IN  perMatch[k].ok => perMatch[k].a = Known(m.a) /\ perMatch[k].b = Known(m.b)

\* A search that reports success has a row for every point on every surface,
\* each scored on the same matches, with the tuning of the point itself (a
\* weight of zero included, whatever the environment says) and from the stream
\* of its own index, whatever the goroutines did, and none of them beats the
\* one it calls the best (calibrateSurfacePreloaded; main.go of calibrateform:
\* "results are reproducible per grid index").  Without form the alphas share
\* their matches too (evaluateAlpha).
ReportIsReproducible ==
  searchExit = 0 =>
    /\ Len(report) = Len(Pools)
    /\ \A s \in 1 .. Len(report) :
         LET rows == report[s]
             OnSamePool == \A k \in DOMAIN rows : rows[k].scoredOn = rows[1].scoredOn
             Own(row) == /\ \A f \in Tuned : row.with[f] = combos[row.at][f]
                         /\ row = Metrics(row.at, row.with, score[row.at], row.scoredOn)
         IN  /\ \A k \in DOMAIN rows : rows[1].accuracy >= rows[k].accuracy
             /\ search = "form" =>
                  /\ OnSamePool
                  /\ {rows[k].at : k \in DOMAIN rows} = Points
                  /\ \A k \in DOMAIN rows : Own(rows[k])
             /\ search = "alpha" =>
                  /\ ~useForm => OnSamePool
                  /\ {rows[k].at : k \in DOMAIN rows} = alphas[1] .. alphas[2]
=============================================================================
