------------------------------ MODULE FormRates -----------------------------
(***************************************************************************)
(* The hold and break rates of a player: the season baseline, scaled by    *)
(* the dominance ratios of the recent matches.  One formula serves live    *)
(* projections (runSimCmd, getstats), the backtest and the calibration.    *)
(*                                                                         *)
(* Source: tennis/tennisabstract (form.go, form_env.go, recent_filter.go,  *)
(* backtest_form.go, backtest_rates.go).  Numbers are exact fractions      *)
(* where the code has float64.  Tuning fields are tenths; 0 is unset, and  *)
(* an environment variable that does not hold a positive number is 0.      *)
(***************************************************************************)
EXTENDS Integers, Sequences, FiniteSets, SequencesExt, FiniteSetsExt

CONSTANTS
  Profiles,  \* players with the question asked of them (see adjustInit)
  Defaults,  \* the default tuning of form.go
  Decay      \* of a half-life: weights of the newest, the next, ... valid result

ASSUME ProfilesAssumption ==
  \A p \in Profiles : p.kind = "historical" =>
    p.stats.recent \in Seq([date : Int, dr : [n : Int, d : Int]])

VARIABLES
  profile,   \* the player, the date, the options and the environment
  adjusted   \* AdjustedRates

formVars == <<profile, adjusted>>

-----------------------------------------------------------------------------
(* Fractions.                                                               *)

gcd[p \in Nat \X Nat] == IF p[2] = 0 THEN p[1] ELSE gcd[<<p[2], p[1] % p[2]>>]
Lowest(n, d, g) == [n |-> n \div g, d |-> d \div g]
Frac(n, d) == Lowest(n, d, gcd[<<n, d>>])
Fractions == {f \in [n : Nat, d : Nat \ {0}] : f.n = 0 => f.d = 1}
One == Frac(1, 1)
Zero == Frac(0, 1)
Tenths(x) == Frac(x, 10)
Leq(p, q) == p.n * q.d <= q.n * p.d
Cross(p, q) == [n |-> p.n * q.n, d |-> p.d * q.d]
Times(p, q) == Cross(Frac(p.n, q.d), Frac(q.n, p.d))
Plus(p, q) == Frac(p.n * q.d + q.n * p.d, p.d * q.d)
Over(p, q) == Times(p, [n |-> q.d, d |-> q.n])
\* w * p + (1 - w) * q
Mix(w, p, q) == Plus(Times(w, p), Times(Frac(w.d - w.n, w.d), q))

-----------------------------------------------------------------------------
(* The season baseline.                                                     *)

NoSeason == [year |-> 0, career |-> FALSE, matches |-> 0,
             hold |-> Zero, brk |-> Zero, dr |-> Zero]

findSeason(seasons, year) ==
  LET at == {p \in 1 .. Len(seasons) : ~seasons[p].career /\ seasons[p].year = year}
  IN  IF at = {} THEN NoSeason ELSE seasons[Min(at)]

mostRecentChallengerYear(seasons) ==
  Max({0} \cup {seasons[p].year : p \in {q \in 1 .. Len(seasons) : ~seasons[q].career}})

scaleChallengerSeason(s, weight) ==
  [s EXCEPT !.hold = Times(@, weight), !.brk = Times(@, weight), !.dr = Times(@, weight)]

\* Two seasons weighted by their matches; the first gives the year.
Weighted(w, s, t) ==
  [s EXCEPT !.hold = Mix(w, @, t.hold), !.brk = Mix(w, @, t.brk), !.dr = Mix(w, @, t.dr)]
Blended(s, t) == Weighted(Frac(s.matches, s.matches + t.matches), s, t)

\* A full tour year stands alone; challenger matches help out only in their
\* latest year.  Its matches count with the blend.
buildEffectiveCurrentSeason(tour, challenger, year, minMatches, chalWeight) ==
  LET Effective(tourRow, chal, useChal) ==
        CASE tourRow # NoSeason /\ (tourRow.matches >= minMatches \/ ~useChal) -> tourRow
          [] tourRow # NoSeason /\ tourRow.matches < minMatches /\ useChal ->
               [Blended(tourRow, chal) EXCEPT !.matches = @ + chal.matches]
          [] tourRow = NoSeason /\ useChal -> chal
          [] OTHER -> NoSeason
      Helped(row) ==
        Effective(findSeason(tour, year), scaleChallengerSeason(row, chalWeight),
                  mostRecentChallengerYear(challenger) = year /\ row # NoSeason)
  IN  Helped(findSeason(challenger, year))

-----------------------------------------------------------------------------
(* Tuning.                                                                  *)

\* positiveIntFromEnv and positiveFloatFromEnv behind a field that may be set.
FirstSet(own, fromEnv, fallback) ==
  CASE own > 0 -> own
    [] own <= 0 /\ fromEnv > 0 -> fromEnv
    [] OTHER -> fallback

\* The half-life has its default by the time the zero weight is looked at.
formWeightMaxExplicitZero(o, halfLife) ==
  o.weightMax = 0 /\ halfLife > 0 /\ o.ratioMin > 0 /\ o.ratioMax > 0

withDefaults(o, env) ==
  LET Own(f) == FirstSet(o[f], env[f], Defaults[f])
      halfLife == Own("halfLife")
  IN  [f \in DOMAIN Defaults |->
         IF f = "weightMax" /\ formWeightMaxExplicitZero(o, halfLife) THEN 0 ELSE Own(f)]

Tuned == {"halfLife", "weightMax", "ratioMin", "ratioMax"}
Unset == [f \in DOMAIN Defaults |-> 0]

\* floatFormEnv: the variable of the surface, the global one, the default.
FormOptionsFromEnv(surfaceEnv, env) ==
  withDefaults([f \in DOMAIN Defaults |->
                  IF f \in Tuned THEN FirstSet(surfaceEnv[f], env[f], Defaults[f]) ELSE 0], env)

-----------------------------------------------------------------------------
(* Recent results.                                                          *)

NoDR == [n |-> -1, d |-> 1]

\* Some of the results sorted by date, newest first; sort.SliceStable before a
\* match, sort.Slice live, where results of one day keep their order up to a
\* dozen of them.
Newer(results, p, q) ==
  results[p].date > results[q].date \/ (results[p].date = results[q].date /\ p <= q)
NewestOf(results, positions) ==
  LET Rank(p) == Cardinality({q \in positions : Newer(results, q, p)})
  IN  [k \in 1 .. Cardinality(positions) |-> results[CHOOSE p \in positions : Rank(p) = k]]

UpTo(limit, seq) == SubSeq(seq, 1, Min({limit, Len(seq)}))

\* Fault: the day itself is let in.
RecentResultsBeforeOrOn(results, asOf, limit) ==
  UpTo(limit, NewestOf(results, {p \in 1 .. Len(results) : results[p].date <= asOf}))
RecentResultsBefore(results, asOf, limit) ==
  UpTo(limit, NewestOf(results, {p \in 1 .. Len(results) : results[p].date < asOf}))

SumOf(terms, n) ==
  LET sum[k \in 0 .. n] == IF k = 0 THEN Zero ELSE Plus(sum[k - 1], terms[k])
  IN  sum[n]

\* The weighted mean of the newest results that have a dominance ratio, and
\* their number; those without are skipped, sorted or not.
recentDRForm(recent, limit, halfLife) ==
  LET valid == UpTo(limit, NewestOf(recent, {p \in 1 .. Len(recent) : recent[p].dr # NoDR}))
      n == Len(valid)
      Weight(k) == Frac(Decay[halfLife][k], 1)
      sumW == SumOf([k \in 1 .. n |-> Weight(k)], n)
      sumDR == SumOf([k \in 1 .. n |-> Times(Weight(k), valid[k].dr)], n)
  IN  [mean |-> IF n = 0 THEN Zero ELSE Over(sumDR, sumW), nValid |-> n]

clampUnitInterval(x) == IF Leq(One, x) THEN One ELSE x

-----------------------------------------------------------------------------
(* Adjusted rates.                                                          *)

ErrNoSeasonData == [err |-> TRUE]
YearOf(date) == date \div 10

\* SeasonBaseline: what fetchrates stores, without form.
SeasonBaseline(stats, year, env) ==
  LET Rates(base) == [err |-> FALSE, hold |-> base.hold, brk |-> base.brk, dr |-> base.dr]
      Stored(curr, prev, o) ==
        CASE curr = NoSeason -> ErrNoSeasonData
          [] curr # NoSeason /\ curr.matches < o.minSeason /\ prev # NoSeason ->
               Rates(Blended(curr, prev))
          [] OTHER -> Rates(curr)
      Of(o) == Stored(buildEffectiveCurrentSeason(stats.tour, stats.challenger, year,
                                                  o.minSeason, Tenths(o.chalWeight)),
                      findSeason(stats.tour, year - 1), o)
  IN  Of(withDefaults(Unset, env))

\* DR_form over DR_season between its bounds, floor first; 1 without results.
Between(lo, hi, x) ==
  LET Below(y) == IF Leq(hi, y) THEN hi ELSE y
  IN  Below(IF Leq(x, lo) THEN lo ELSE x)
FormRatio(form, dr0, opts) ==
  IF form.nValid = 0 THEN One
  ELSE Between(Tenths(opts.ratioMin), Tenths(opts.ratioMax),
               IF dr0 = Zero THEN form.mean ELSE Over(form.mean, dr0))

\* gamma: the full weight only with a full set of results.
FormWeight(form, opts) ==
  Times(Tenths(opts.weightMax), Frac(form.nValid, opts.limit))

\* The rates of a baseline with a weight and a ratio.
Scaled(base, gamma, ratio, matches) ==
  LET Rate(rate) == clampUnitInterval(Mix(gamma, Times(rate, ratio), rate))
  IN  [err |-> FALSE, hold |-> Rate(base.hold), brk |-> Rate(base.brk),
       seasonHold |-> base.hold, seasonBreak |-> base.brk, drSeason |-> base.dr,
       ratio |-> ratio, weight |-> gamma, seasonMatches |-> matches]

\* The season and the one before it when it is short, then the recent form.
AdjustedSeason(curr, prev, recent, opts) ==
  LET blend == curr.matches < opts.minSeason /\ prev # NoSeason
      Formed(base, form) ==
        Scaled(base, FormWeight(form, opts), FormRatio(form, base.dr, opts),
               IF blend THEN curr.matches + prev.matches ELSE curr.matches)
  IN  IF curr = NoSeason THEN ErrNoSeasonData
      ELSE Formed(IF blend THEN Blended(curr, prev) ELSE curr,
                  recentDRForm(recent, opts.limit, opts.halfLife))

\* Fault: the prior season of the challengers is taken.
AdjustedHoldBreakOtherPrior(stats, date, o, env) ==
  LET Of(opts) ==
        AdjustedSeason(buildEffectiveCurrentSeason(stats.tour, stats.challenger, YearOf(date),
                                                   opts.minSeason, Tenths(opts.chalWeight)),
                       findSeason(stats.challenger, YearOf(date) - 1), stats.recent, opts)
  IN  Of(withDefaults(o, env))
AdjustedHoldBreak(stats, date, o, env) ==
  LET Of(opts) ==
        AdjustedSeason(buildEffectiveCurrentSeason(stats.tour, stats.challenger, YearOf(date),
                                                   opts.minSeason, Tenths(opts.chalWeight)),
                       findSeason(stats.tour, YearOf(date) - 1), stats.recent, opts)
  IN  Of(withDefaults(o, env))

\* backtestSeasonMatchCount
SeasonMatchCount == 100
PlayerStatsForBacktestForm(date, rates) ==
  [tour |-> <<[year |-> YearOf(date), career |-> FALSE, matches |-> SeasonMatchCount,
               hold |-> rates.hold, brk |-> rates.brk, dr |-> rates.dr]>>,
   challenger |-> <<>>, recent |-> <<>>]

AdjustedHoldBreakAsOf(stats, career, date, o, env) ==
  LET Of(opts) ==
        AdjustedHoldBreak([stats EXCEPT !.recent = RecentResultsBefore(career, date, opts.limit)],
                          date, opts, env)
  IN  Of(withDefaults(o, env))

\* playerRatesWithForm and playerRatesWithPreloadedRecent: the entry of the
\* rates file and the career list cut off at the match.
playerRatesWithForm(rates, career, date, o, env) ==
  LET Of(opts) ==
        AdjustedHoldBreakAsOf(PlayerStatsForBacktestForm(date, rates),
                              RecentResultsBefore(career, date, opts.limit), date, opts, env)
  IN  Of(withDefaults(o, env))

\* The seasons and the results of a page, and what an environment holds.  A
\* page has a season for its matches; two without any would blend as 0 / 0.
SeasonRows ==
  [year : Nat, career : BOOLEAN, matches : Nat \ {0},
   hold : Fractions, brk : Fractions, dr : Fractions]
PageResults == [date : Int, dr : {NoDR} \cup Fractions]
ASSUME PagesAssumption ==
  \A p \in Profiles :
    /\ p.kind \in {"live", "historical"} /\ p.date \in Nat
    /\ p.stats \in [tour : Seq(SeasonRows), challenger : Seq(SeasonRows), recent : Seq(PageResults)]
    /\ p.env \in [DOMAIN Defaults -> Nat] /\ p.surfaceEnv \in [DOMAIN Defaults -> Nat]

\* The weight is at most 1 and the bounds of the ratio are in order, as in the
\* defaults; withDefaults takes any positive number from the environment.
ASSUME TuningAssumption ==
  /\ Defaults \in [Tuned \cup {"minSeason", "limit", "chalWeight"} -> Nat \ {0}]
  /\ \A p \in Profiles :
       LET Sound(opts) ==
             /\ opts.weightMax <= 10
             /\ opts.ratioMin <= opts.ratioMax
             /\ \A k \in 1 .. opts.limit : Decay[opts.halfLife][k] \in Nat \ {0}
       IN  Sound(FormOptionsFromEnv(p.surfaceEnv, p.env))

-----------------------------------------------------------------------------
(* One player is adjusted: from his page, with the options of the surface   *)
(* (live), or from an entry of the rates file made of the season before     *)
(* (historical).                                                            *)

NoRates == [err |-> FALSE]
NoProfile == [kind |-> "none"]

adjustIdle == profile = NoProfile /\ adjusted = NoRates
adjustInit == profile \in Profiles /\ adjusted = NoRates

AdjustLive ==
  /\ profile.kind = "live" /\ adjusted = NoRates
  /\ adjusted' = AdjustedHoldBreak(profile.stats, profile.date,
                                   FormOptionsFromEnv(profile.surfaceEnv, profile.env),
                                   profile.env)
  /\ UNCHANGED profile

AdjustAsOf ==
  /\ profile.kind = "historical" /\ adjusted = NoRates
  /\ LET FromFile(rates) ==
           IF rates.err THEN ErrNoSeasonData
           ELSE playerRatesWithForm(rates, profile.stats.recent, profile.date,
                  FormOptionsFromEnv(profile.surfaceEnv, profile.env), profile.env)
     IN  adjusted' = FromFile(SeasonBaseline(profile.stats, YearOf(profile.date) - 1, profile.env))
  /\ UNCHANGED profile

AdjustNext == AdjustLive \/ AdjustAsOf

-----------------------------------------------------------------------------
(* Properties.                                                              *)

Adjusted == adjusted # NoRates /\ ~adjusted.err

\* A match is judged by what was known before its day: the results of that
\* day, its own among them, and of later days change nothing, wherever they
\* stand in the career list and whichever of them are struck from it
\* (RecentResultsBefore, applied twice on the way).
NoLookAhead ==
  Adjusted /\ profile.kind = "historical" =>
    LET recent == profile.stats.recent
        rates == SeasonBaseline(profile.stats, YearOf(profile.date) - 1, profile.env)
        AllKnown(kept) == \A p \in 1 .. Len(recent) : recent[p].date < profile.date => p \in kept
        Increasing(g) == \A j, k \in DOMAIN g : j < k => g[j] < g[k]
        Redone(g) ==
          playerRatesWithForm(rates, [k \in DOMAIN g |-> recent[g[k]]], profile.date,
            FormOptionsFromEnv(profile.surfaceEnv, profile.env), profile.env)
    IN  \A kept \in SUBSET (1 .. Len(recent)) : AllKnown(kept) =>
          \A g \in [1 .. Cardinality(kept) -> kept] : Increasing(g) => adjusted = Redone(g)

\* Form scales the baseline and does not replace it: the baseline under the
\* adjusted rates is the one fetchrates stores, though AdjustedHoldBreak
\* computes it on its own; hold and break move by one factor, no further than
\* the bounds of the ratio and the weight allow; and a better recent match
\* never lowers them (AdjustedHoldBreak, SeasonBaseline).
FormScalesBaseline ==
  LET live == profile.kind = "live"
      recent == profile.stats.recent
      Within(rate, base) ==
        rate = clampUnitInterval(Mix(adjusted.weight, Times(base, adjusted.ratio), base))
      Improved(p) == [profile.stats EXCEPT !.recent[p].dr = Plus(@, One)]
      NotAbove(redone) == Leq(adjusted.hold, redone.hold) /\ Leq(adjusted.brk, redone.brk)
      Redone(stats, stored, opts) ==
        IF live THEN AdjustedHoldBreak(stats, profile.date, opts, profile.env)
        ELSE playerRatesWithForm(stored, stats.recent, profile.date, opts, profile.env)
      Scales(stored, opts) ==
        /\ <<adjusted.seasonHold, adjusted.seasonBreak>> = <<stored.hold, stored.brk>>
        /\ Within(adjusted.hold, stored.hold)
        /\ Within(adjusted.brk, stored.brk)
        /\ Leq(adjusted.weight, Tenths(opts.weightMax))
        /\ Leq(adjusted.ratio, Tenths(opts.ratioMax)) \/ adjusted.weight = Zero
        /\ Leq(Tenths(opts.ratioMin), adjusted.ratio) \/ adjusted.weight = Zero
        /\ \A p \in 1 .. Len(recent) :
             recent[p].dr # NoDR => NotAbove(Redone(Improved(p), stored, opts))
  IN  Adjusted =>
        Scales(SeasonBaseline(profile.stats, YearOf(profile.date) - (IF live THEN 0 ELSE 1), profile.env),
               FormOptionsFromEnv(profile.surfaceEnv, profile.env))
=============================================================================
