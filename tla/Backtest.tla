------------------------------ MODULE Backtest ------------------------------
(***************************************************************************)
(* The walk of cmd/backtestbets over the eligible matches, which bets on   *)
(* three tracks: the simulation on season rates, the one on recent form,   *)
(* and the favourite.  Singles walk the list once for all tracks; parlays  *)
(* walk it once for each, and bet on windows of consecutive matches.       *)
(*                                                                         *)
(* Source: tennis/cmd/backtestbets (backtest.go, parlay.go, bet_log.go)    *)
(* and tennis/tennisabstract (backtest_bet.go, backtest_rates.go).  Money  *)
(* and decimal odds are whole numbers here, probabilities counts of        *)
(* simulations won: sums that are exact where the code rounds floats.      *)
(***************************************************************************)
EXTENDS Integers, Sequences, FiniteSets

CONSTANTS
  Kinds,      \* what a match of the list may be
  Configs,    \* the BacktestConfigs of interest
  MaxMatches, \* length of the list
  Sims,       \* cfg.Sims
  WinCounts,  \* the simulations player A may win
  FixedStake, \* cfg.Stake
  Initial,    \* InitialBalance of the money manager
  PctNum,     \* MaxPctBalance is PctNum / PctDen
  PctDen,
  MaxOrder,   \* MaxOrderUSDC, 0 for no cap
  MinSize     \* MinShareSize, in the unit of money

Sides == {"A", "B"}
Surfaces == {"hard", "clay", "grass"}
Strategies == {"sim", "favorite", "simForm"}

\* rates: "none" if a player has no season rates (the file is read again after
\* the filter), "bad" if they are no probabilities (nobody has checked yet),
\* "web" if a career list must be fetched, "file" if both are on disk.  w and l
\* are AvgW and AvgL; player A won.
Matches ==
  [surface : Surfaces, w : Nat \ {0}, l : Nat \ {0},
   rates : {"none", "bad", "web", "file"}]

\* minPick is in units of 1/Sims.
BacktestConfigs ==
  [mode : {"singles", "parlay"}, minPick : 1 .. Sims, minOdds : Nat,
   ev : BOOLEAN, managed : BOOLEAN, maxLegs : Nat \ {0}]

ASSUME BacktestAssumption ==
  /\ Kinds \subseteq Matches
  /\ Configs \subseteq BacktestConfigs
  /\ MaxMatches \in Nat
  /\ Sims \in Nat \ {0}
  /\ WinCounts \subseteq 0 .. Sims
  /\ FixedStake \in Nat \ {0}
  /\ Initial \in Nat \ {0}
  /\ PctNum \in Nat \ {0} /\ PctDen \in Nat \ {0} /\ PctNum <= PctDen
  /\ MaxOrder \in Nat
  /\ MinSize \in Nat \ {0}

VARIABLES
  cfg,
  eligible, \* the matches in chronological order
  strategy, \* the track being walked, "all" in singles, "done" or "failed" at the end
  pos,      \* the match or anchor the walk has reached
  k,        \* the number of legs selectParlayWindow is trying
  window,   \* what it has combined of them
  cache,    \* parlayEvalDeps.cache
  tracks    \* the BacktestStats and the bet log of each strategy

vars == <<cfg, eligible, strategy, pos, k, window, cache, tracks>>

Index == 1 .. MaxMatches
Lower(a, b) == IF a < b THEN a ELSE b
Positive(n) == IF n < 0 THEN 0 ELSE n

\* A leg: its odds, the simulations its side won, and whether the pick is right.
Legs == [odds : Nat \ {0}, prob : 0 .. Sims, won : BOOLEAN]
NoLeg == [odds |-> 0, prob |-> 0, won |-> FALSE]

Windows == [size : 0 .. MaxMatches, odds : Nat \ {0}, prob : Nat, scale : Nat,
            won : BOOLEAN]
EmptyWindow == [size |-> 0, odds |-> 1, prob |-> 1, scale |-> 1, won |-> TRUE]

Reasons == {"none", "MINPICK", "NEG_EV", "MIN_ODDS", "ALLOC", "NO_RATES", "NO_VALID_PARLAY"}
Rows == [match : Index, kind : Reasons \cup {"bet", "start", "leg", "end"},
         before : Int, after : Int]
Row(i, kind) == [match |-> i, kind |-> kind, before |-> 0, after |-> 0]

Counts == [wins : Nat, bets : Nat]
Tracks ==
  [final : Int, profit : Nat, loss : Nat, wagered : Nat,
   bets : Nat, wins : Nat, losses : Nat, skipped : Nat, legs : Nat,
   surf : [Surfaces -> Counts], log : Seq(Rows)]
NewTrack ==
  [final |-> 0, profit |-> 0, loss |-> 0, wagered |-> 0,
   bets |-> 0, wins |-> 0, losses |-> 0, skipped |-> 0, legs |-> 0,
   surf |-> [s \in Surfaces |-> [wins |-> 0, bets |-> 0]], log |-> << >>]

TypeOK ==
  /\ cfg \in Configs
  /\ eligible \in [Index -> Kinds]
  /\ strategy \in Strategies \cup {"all", "done", "failed"}
  /\ pos \in 1 .. MaxMatches + 1
  /\ k \in 0 .. MaxMatches
  /\ window \in Windows
  /\ cache \in [Index -> Legs \cup {NoLeg}]
  /\ tracks \in [Strategies -> Tracks]

-----------------------------------------------------------------------------
(* Stakes, settlement, statistics and log of one track.                     *)

\* simBalance and Allocate: the share of the bankroll, within the cap, or 0
\* when the shares it buys are too few.
Available(t) == Positive(Initial + t.final)
Share(b) ==
  LET share == (b * PctNum) \div PctDen
  IN IF MaxOrder > 0 THEN Lower(share, MaxOrder) ELSE share
Stake(t, odds) ==
  IF ~cfg.managed THEN FixedStake
  ELSE IF Share(Available(t)) * odds < MinSize THEN 0 ELSE Share(Available(t))

Pnl(won, odds, stake) == IF won THEN stake * (odds - 1) ELSE -stake

\* notionalBankroll: without a money manager the log starts from 0.
Bankroll(t) == Positive((IF cfg.managed THEN Initial ELSE 0) + t.final)

\* applyBet and applyParlay: a right pick at odds of 1 wins nothing and is
\* counted as a loss.
Settle(t, surface, won, odds, stake) ==
  LET pnl == Pnl(won, odds, stake)
      win == IF pnl > 0 THEN 1 ELSE 0
  IN [final |-> t.final + pnl, wagered |-> t.wagered + stake,
      profit |-> t.profit + Positive(pnl), loss |-> t.loss + Positive(-pnl),
      bets |-> t.bets + 1, wins |-> t.wins + win, losses |-> t.losses + (1 - win),
      surf |-> [t.surf EXCEPT ![surface] = [wins |-> @.wins + win, bets |-> @.bets + 1]],
      skipped |-> t.skipped, legs |-> t.legs, log |-> t.log]

Skip(t, i, reason) ==
  [t EXCEPT !.skipped = @ + 1, !.log = Append(@, Row(i, reason))]

\* The row with the balances before and after, from the stats before the bet.
BalanceRow(t, i, kind, won, odds, stake) ==
  [match |-> i, kind |-> kind, before |-> Bankroll(t),
   after |-> Bankroll(t) + Pnl(won, odds, stake)]

\* applyBetWithLog and applyParlayWithLog: the log comes first.
Bet(t, rows, legs, surface, won, odds, stake) ==
  Settle([t EXCEPT !.log = @ \o rows, !.legs = @ + legs],
         surface, won, odds, stake)

-----------------------------------------------------------------------------
(* Singles.                                                                 *)

OddsOf(i, side) == IF side = "A" THEN eligible[i].w ELSE eligible[i].l
ProbOf(wins, side) == IF side = "A" THEN wins ELSE Sims - wins

\* DecideBet: the sides whose win rate exceeds min-pick.  A comes first.
Picks(wins) == {side \in Sides : ProbOf(wins, side) > cfg.minPick}
SimSide(wins) == IF "A" \in Picks(wins) THEN "A" ELSE "B"

\* DecideFavoriteBet: ties are A's.
FavoriteSide(i) == IF eligible[i].l < eligible[i].w THEN "B" ELSE "A"

\* expected value above 0, for a probability of prob / scale
EVAllowed(prob, scale, odds) == cfg.ev => prob * odds > scale
OddsAllowed(odds) == cfg.minOdds > 0 => odds >= cfg.minOdds

\* placeBet
Place(t, i, side, odds) ==
  LET stake == Stake(t, odds)
      won == side = "A"
  IN IF stake = 0 THEN Skip(t, i, "ALLOC")
     ELSE Bet(t, <<BalanceRow(t, i, "bet", won, odds, stake)>>, 0,
              eligible[i].surface, won, odds, stake)

\* What tryPlaceSimBet and tryPlaceFavoriteBet do with a side that was picked.
TryPlace(t, i, side, wins) ==
  IF ~EVAllowed(ProbOf(wins, side), Sims, OddsOf(i, side)) THEN Skip(t, i, "NEG_EV")
  ELSE IF ~OddsAllowed(OddsOf(i, side)) THEN Skip(t, i, "MIN_ODDS")
  ELSE Place(t, i, side, OddsOf(i, side))

TrySimBet(t, i, wins) ==
  IF Picks(wins) = {} THEN Skip(t, i, "MINPICK") ELSE TryPlace(t, i, SimSide(wins), wins)

\* The favourite bets on the matches the simulation picks.
TryFavoriteBet(t, i, wins) ==
  IF Picks(wins) = {} THEN Skip(t, i, "MINPICK") ELSE TryPlace(t, i, FavoriteSide(i), wins)

\* Whether a strategy may get rates for a match, and may not: a career list
\* that is not on disk is fetched, and the fetch may fail.
RatesOutcomes(i, s) ==
  CASE eligible[i].rates = "none" -> {FALSE}
    [] eligible[i].rates = "bad" -> {}
    [] eligible[i].rates = "web" /\ s = "simForm" -> BOOLEAN
    [] OTHER -> {TRUE}

\* Fault: a match without rates for the recent form is passed over in silence.
FormOutcomesSilent(t, i) ==
  {TrySimBet(t, i, wins) : wins \in WinCounts}
    \cup IF FALSE \in RatesOutcomes(i, "simForm") THEN {t} ELSE {}

\* What may become of the recent-form track at a match with season rates.
FormOutcomes(t, i) ==
  (IF TRUE \in RatesOutcomes(i, "simForm")
   THEN {TrySimBet(t, i, wins) : wins \in WinCounts} ELSE {})
    \cup IF FALSE \in RatesOutcomes(i, "simForm") THEN {Skip(t, i, "none")} ELSE {}

\* One iteration of walkBacktestsSingles.
WalkMatch ==
  /\ strategy = "all"
  /\ pos <= MaxMatches
  /\ \/ /\ eligible[pos].rates = "none"
        /\ tracks' = [s \in Strategies |-> Skip(tracks[s], pos, "none")]
     \/ /\ eligible[pos].rates \notin {"none", "bad"}
        /\ \E wins \in WinCounts, form \in FormOutcomes(tracks["simForm"], pos) :
             tracks' = [tracks EXCEPT !["sim"] = TrySimBet(@, pos, wins),
                                      !["favorite"] = TryFavoriteBet(@, pos, wins),
                                      !["simForm"] = form]
  /\ pos' = pos + 1
  /\ UNCHANGED <<cfg, eligible, strategy, k, window, cache>>

-----------------------------------------------------------------------------
(* Parlays.                                                                 *)

\* The side a parlay backs: DecideSimFavoredSide or DecideFavoriteBet.
LegSide(i, wins) ==
  IF strategy = "favorite" THEN FavoriteSide(i)
  ELSE IF Sims - wins > wins THEN "B" ELSE "A"

\* What buildLeg returns when the simulation gives A these wins.
Leg(i, wins) ==
  LET side == LegSide(i, wins)
  IN [odds |-> OddsOf(i, side), prob |-> ProbOf(wins, side), won |-> side = "A"]

\* Fault: the last match of the list is never a leg but of a window of its own.
MostLegsShort(p) == Lower(cfg.maxLegs, MaxMatches - p)

MostLegs(p) == Lower(cfg.maxLegs, MaxMatches - p + 1)

Trying == strategy \in Strategies /\ pos <= MaxMatches /\ k > 0
NextLeg == pos + window.size

\* One turn of combinedParlayProbOdds.
Combine(leg) ==
  [size |-> window.size + 1, odds |-> window.odds * leg.odds,
   prob |-> window.prob * leg.prob, scale |-> window.scale * Sims,
   won |-> window.won /\ leg.won]

\* evalLeg finds the next leg in its cache, or builds it and stores it.
AddLeg ==
  /\ Trying
  /\ window.size < k
  /\ \/ /\ cache[NextLeg] # NoLeg
        /\ UNCHANGED cache
     \/ /\ cache[NextLeg] = NoLeg
        /\ TRUE \in RatesOutcomes(NextLeg, strategy)
        /\ \E wins \in WinCounts :
             cache' = [cache EXCEPT ![NextLeg] = Leg(NextLeg, wins)]
  /\ window' = Combine(cache'[NextLeg])
  /\ UNCHANGED <<cfg, eligible, strategy, pos, k, tracks>>

TryShorter ==
  /\ k' = k - 1
  /\ window' = EmptyWindow
  /\ UNCHANGED <<cfg, eligible, strategy, pos, cache, tracks>>

\* evalLeg fails; that is not stored.
NoRates ==
  /\ Trying
  /\ window.size < k
  /\ cache[NextLeg] = NoLeg
  /\ FALSE \in RatesOutcomes(NextLeg, strategy)
  /\ TryShorter

\* Fault: a window without value is tried again.
NoValueAgain ==
  /\ Trying
  /\ window.size = k
  /\ ~EVAllowed(window.prob, window.scale, window.odds)
  /\ window' = EmptyWindow
  /\ UNCHANGED <<cfg, eligible, strategy, pos, k, cache, tracks>>

NoValue ==
  /\ Trying
  /\ window.size = k
  /\ ~EVAllowed(window.prob, window.scale, window.odds)
  /\ TryShorter

Advance(n) ==
  /\ pos' = pos + n
  /\ k' = MostLegs(pos + n)
  /\ window' = EmptyWindow

\* recordParlayBet: START, a row for each leg, END.
ParlayRows(t, stake) ==
  <<Row(pos, "start")>> \o [j \in 1 .. k |-> Row(pos + j - 1, "leg")]
    \o <<BalanceRow(t, pos, "end", window.won, window.odds, stake)>>

\* placeParlay: the surface is that of the first leg.
Parlay(t) ==
  LET stake == Stake(t, window.odds)
  IN IF stake = 0 THEN Skip(t, pos, "ALLOC")
     ELSE Bet(t, ParlayRows(t, stake), k, eligible[pos].surface, window.won,
              window.odds, stake)

\* Fault: the next anchor is the match after this one.
PlaceParlayOverlapping ==
  /\ Trying
  /\ window.size = k
  /\ EVAllowed(window.prob, window.scale, window.odds)
  /\ tracks' = [tracks EXCEPT ![strategy] = Parlay(@)]
  /\ Advance(1)
  /\ UNCHANGED <<cfg, eligible, strategy, cache>>

\* The walk goes on behind the window, even if the stake was refused.
PlaceParlay ==
  /\ Trying
  /\ window.size = k
  /\ EVAllowed(window.prob, window.scale, window.odds)
  /\ tracks' = [tracks EXCEPT ![strategy] = Parlay(@)]
  /\ Advance(k)
  /\ UNCHANGED <<cfg, eligible, strategy, cache>>

\* No window at this anchor; evalLeg is asked once more for the reason.
SkipAnchor ==
  /\ strategy \in Strategies
  /\ pos <= MaxMatches
  /\ k = 0
  /\ \/ /\ cache[pos] # NoLeg
        /\ tracks' = [tracks EXCEPT ![strategy] = Skip(@, pos, "NO_VALID_PARLAY")]
        /\ UNCHANGED cache
     \/ /\ cache[pos] = NoLeg
        /\ TRUE \in RatesOutcomes(pos, strategy)
        /\ \E wins \in WinCounts : cache' = [cache EXCEPT ![pos] = Leg(pos, wins)]
        /\ tracks' = [tracks EXCEPT ![strategy] = Skip(@, pos, "NO_VALID_PARLAY")]
     \/ /\ cache[pos] = NoLeg
        /\ FALSE \in RatesOutcomes(pos, strategy)
        /\ tracks' = [tracks EXCEPT ![strategy] = Skip(@, pos, "NO_RATES")]
        /\ UNCHANGED cache
  /\ Advance(1)
  /\ UNCHANGED <<cfg, eligible, strategy>>

\* The next track starts with a cache of its own.
NextTrack ==
  /\ pos = MaxMatches + 1
  /\ strategy \notin {"done", "failed"}
  /\ strategy' = CASE strategy = "sim" -> "favorite"
                   [] strategy = "favorite" -> "simForm"
                   [] OTHER -> "done"
  /\ IF strategy' = "done" THEN UNCHANGED <<pos, k>>
     ELSE pos' = 1 /\ k' = MostLegs(1)
  /\ window' = EmptyWindow
  /\ cache' = [i \in Index |-> NoLeg]
  /\ UNCHANGED <<cfg, eligible, tracks>>

\* SimulateFresh refuses the rates: the whole run returns an error.
Abort ==
  /\ pos <= MaxMatches
  /\ strategy = "all" \/ (Trying /\ window.size < k)
  /\ eligible[NextLeg].rates = "bad"
  /\ strategy' = "failed"
  /\ UNCHANGED <<cfg, eligible, pos, k, window, cache, tracks>>

-----------------------------------------------------------------------------

Init ==
  /\ cfg \in Configs
  /\ eligible \in [Index -> Kinds]
  /\ strategy = IF cfg.mode = "parlay" THEN "sim" ELSE "all"
  /\ pos = 1
  /\ k = IF cfg.mode = "parlay" THEN MostLegs(1) ELSE 0
  /\ window = EmptyWindow
  /\ cache = [i \in Index |-> NoLeg]
  /\ tracks = [s \in Strategies |-> NewTrack]

Ended == strategy \in {"done", "failed"} /\ UNCHANGED vars

Walk ==
  WalkMatch \/ AddLeg \/ NoRates \/ NoValue \/ PlaceParlay \/ SkipAnchor \/ NextTrack
    \/ Abort

Next == Walk \/ Ended

\* One goroutine; a fetch ends, with a timeout if need be, and so does a
\* simulation (TennisMatch).
Spec == Init /\ [][Next]_vars /\ WF_vars(Walk)

-----------------------------------------------------------------------------
(* Properties.                                                              *)

\* The matches a track has passed.
Walked(s) ==
  CASE strategy = "done" -> MaxMatches
    [] strategy \in {"all", s} -> pos - 1
    [] strategy = "favorite" /\ s = "sim" -> MaxMatches
    [] strategy = "simForm" /\ s # "simForm" -> MaxMatches
    [] OTHER -> 0

SurfaceTotal(t, f) == t.surf["hard"][f] + t.surf["clay"][f] + t.surf["grass"][f]

Balanced(t) ==
  /\ t.wins + t.losses = t.bets
  /\ t.profit - t.loss = t.final
  /\ t.loss <= t.wagered
  /\ SurfaceTotal(t, "bets") = t.bets
  /\ SurfaceTotal(t, "wins") = t.wins

\* What the tests assert of single runs (wins+losses = bets, gross profit -
\* gross loss = final balance), and that the surfaces add up: at every step of
\* every track in every mode.  What was lost had been wagered.
Ledger == \A s \in Strategies : Balanced(tracks[s])

\* "Bets+Skipped equals MatchesWalk when every match is either bet or skipped":
\* in singles, at each point of the walk; and in parlays every match passed is
\* a leg or a skipped anchor, unless the money manager refused its window.
EveryMatchCounted == strategy # "failed" =>
  \A s \in Strategies : LET t == tracks[s] IN
    IF cfg.mode = "singles" THEN t.bets + t.skipped = Walked(s)
    ELSE /\ t.legs + t.skipped <= Walked(s)
         /\ ~cfg.managed => t.legs + t.skipped = Walked(s)

\* "records one CSV row per match walked": in singles the n-th row is the n-th
\* match; in parlays the rows of legs and of skipped anchors name each match
\* once at most, in the order of the walk ("non-overlapping windows").
WalkRows(log) == {i \in 1 .. Len(log) : log[i].kind \notin {"start", "end"}}

RowsFollowWalk == strategy # "failed" =>
  \A s \in Strategies : LET log == tracks[s].log IN
    /\ \A i, j \in WalkRows(log) : i < j => log[i].match < log[j].match
    /\ cfg.mode = "singles" =>
         /\ Len(log) = Walked(s)
         /\ WalkRows(log) = 1 .. Len(log)
         /\ \A i \in 1 .. Len(log) : log[i].match = i

\* "Favorite uses the same bet/no-bet decisions as Sim (min-pick)": the two
\* tracks refuse the same matches for want of a pick, and without any other
\* filter bet on the same.
FavoriteMirrorsSim ==
  cfg.mode = "singles" =>
    LET NoPick(s) == {i \in 1 .. Len(tracks[s].log) : tracks[s].log[i].kind = "MINPICK"}
    IN /\ NoPick("sim") = NoPick("favorite")
       /\ ~cfg.ev /\ cfg.minOdds = 0 /\ ~cfg.managed
            => tracks["sim"].bets = tracks["favorite"].bets

\* With a money manager the log is an account: each bet starts from the balance
\* the one before left, the first from the initial one, the last leaves what
\* the statistics say, and the balance is never overdrawn.
BetRows(log) == {i \in 1 .. Len(log) : log[i].kind \in {"bet", "end"}}
NextBet(log, i, j) == i < j /\ \A l \in BetRows(log) : l <= i \/ j <= l

Accounted(t) ==
  LET bets == BetRows(t.log)
      First(i) == \A j \in bets : i <= j
      Latest(i) == \A j \in bets : j <= i
  IN  /\ Cardinality(bets) = t.bets
      /\ \A i \in bets :
           /\ First(i) => t.log[i].before = Initial
           /\ \A j \in bets : NextBet(t.log, i, j) => t.log[j].before = t.log[i].after
           /\ t.log[i].after >= 0
           /\ Latest(i) => t.log[i].after = Initial + t.final

LogIsAnAccount == cfg.managed => \A s \in Strategies : Accounted(tracks[s])

\* The statistics of a track agree with each other and with the walk.
Books == Ledger /\ EveryMatchCounted

\* The log of a track tells the walk: its matches, its money, and the picks
\* that the favourite shares with the simulation.
LogTellsTheWalk == RowsFollowWalk /\ LogIsAnAccount /\ FavoriteMirrorsSim

\* A match that will certainly be a leg when asked for.
Evaluable(i) == cache[i] # NoLeg \/ RatesOutcomes(i, strategy) = {TRUE}

\* The product of f over n matches from i on.
Product(f, i, n) ==
  LET product[j \in Nat] == IF j = 0 THEN 1 ELSE product[j - 1] * f[i + j - 1]
  IN  product[n]

\* The value of the n matches at the anchor by its definition: the products of
\* their probabilities and odds.
HasValue(n) ==
  LET Of(field) == Product([i \in Index |-> cache[i][field]], pos, n)
  IN  cfg.ev => Of("prob") * Of("odds") > Product([i \in Index |-> Sims], pos, n)

\* The window placed is of legs with value, and no longer one would have done.
Span(n) == pos .. pos + n - 1
AllLegs(n) == \A i \in Span(n) : cache[i] # NoLeg

Longest ==
  /\ AllLegs(window.size) /\ HasValue(window.size)
  /\ \A n \in window.size + 1 .. Lower(cfg.maxLegs, MaxMatches - pos + 1) :
       (\A i \in Span(n) : Evaluable(i)) => AllLegs(n) /\ ~HasValue(n)

Placing == strategy \in Strategies /\ window.size > 0 /\ pos' = pos + window.size

\* "greedily picks the largest k <= maxParlay where every leg is evaluable and
\* combined EV passes when required", on the tracks that need no career list.
LargestSeasonWindow == [][Placing /\ strategy # "simForm" => Longest]_vars

\* The walk comes to its end, whatever the windows.
WalkEnds == <>(strategy \in {"done", "failed"})
=============================================================================
