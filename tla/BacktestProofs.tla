--------------------------- MODULE BacktestProofs ---------------------------
(***************************************************************************)
(* Type correctness, the accounting, the logs and the windows of Backtest, *)
(* for every list of matches, every configuration and every outcome.       *)
(***************************************************************************)
EXTENDS Backtest, FiniteSetTheorems, NaturalsInduction, WellFoundedInduction, TLAPS

Sound(t) == t \in Tracks /\ Balanced(t)

\* What a window may be, and which strategies walk in which mode.
Shape ==
  /\ strategy \in Strategies => cfg.mode = "parlay"
  /\ strategy = "all" => cfg.mode = "singles"
  /\ strategy \in Strategies => k <= MaxMatches + 1 - pos
  /\ window.size <= k

BacktestInv == TypeOK /\ Ledger /\ EveryMatchCounted /\ Shape

\* A product of naturals is a natural.
LEMMA ProductNat == \A a, b \in Nat : a * b \in Nat
  OBVIOUS

LEMMA ProductPos == \A a, b \in Nat \ {0} : a * b \in Nat \ {0}
  OBVIOUS

\* The result of a bet is an integer, and not below the stake's loss.
LEMMA PnlBounded ==
  ASSUME NEW won \in BOOLEAN, NEW odds \in Nat \ {0}, NEW stake \in Nat
  PROVE  Pnl(won, odds, stake) \in Int /\ Pnl(won, odds, stake) >= -stake
<1>1. stake * (odds - 1) \in Nat
  BY ProductNat
<1> QED
  BY <1>1 DEF Pnl

\* Settling a bet keeps the books of a track.
LEMMA SettleSound ==
  ASSUME NEW t, Sound(t), NEW surface \in Surfaces, NEW won \in BOOLEAN,
         NEW odds \in Nat \ {0}, NEW stake \in Nat
  PROVE  LET u == Settle(t, surface, won, odds, stake) IN
         /\ Sound(u)
         /\ u.bets = t.bets + 1
         /\ u.skipped = t.skipped
         /\ u.legs = t.legs
<1> DEFINE pnl == Pnl(won, odds, stake)
           win == IF pnl > 0 THEN 1 ELSE 0
           gain == Positive(pnl)
           lost == Positive(-pnl)
           u == Settle(t, surface, won, odds, stake)
           c == [wins |-> t.surf[surface].wins + win, bets |-> t.surf[surface].bets + 1]
<1>1. pnl \in Int /\ pnl >= -stake
  BY PnlBounded
<1>2. win \in 0 .. 1 /\ gain \in Nat /\ lost \in Nat
      /\ gain - lost = pnl /\ lost <= stake
  BY <1>1 DEF Positive
<1>3. t \in Tracks
  BY DEF Sound
<1>4. t.surf \in [Surfaces -> Counts] /\ c \in Counts
  <2>1. t.surf \in [Surfaces -> Counts]
    BY <1>3 DEF Tracks
  <2>2. t.surf[surface].wins \in Nat /\ t.surf[surface].bets \in Nat
    BY <2>1 DEF Counts
  <2>3. t.surf[surface].wins + win \in Nat /\ t.surf[surface].bets + 1 \in Nat
    BY <1>2, <2>2
  <2> QED
    BY <2>1, <2>3 DEF Counts
<1>5. u = [final |-> t.final + pnl, wagered |-> t.wagered + stake,
           profit |-> t.profit + gain, loss |-> t.loss + lost,
           bets |-> t.bets + 1, wins |-> t.wins + win,
           losses |-> t.losses + (1 - win),
           surf |-> [t.surf EXCEPT ![surface] = c],
           skipped |-> t.skipped, legs |-> t.legs, log |-> t.log]
  BY DEF Settle
<1> HIDE DEF pnl, win, gain, lost, c, u
<1>6. /\ u.bets = t.bets + 1 /\ u.wagered = t.wagered + stake
      /\ u.final = t.final + pnl /\ u.wins = t.wins + win
      /\ u.losses = t.losses + (1 - win)
      /\ u.profit = t.profit + gain /\ u.loss = t.loss + lost
      /\ u.surf = [t.surf EXCEPT ![surface] = c]
      /\ u.skipped = t.skipped /\ u.legs = t.legs /\ u.log = t.log
  BY <1>5
<1>7. u \in Tracks
  <2>1. /\ t.final \in Int /\ t.profit \in Nat /\ t.loss \in Nat /\ t.wagered \in Nat
        /\ t.bets \in Nat /\ t.wins \in Nat /\ t.losses \in Nat
        /\ t.skipped \in Nat /\ t.legs \in Nat /\ t.log \in Seq(Rows)
    BY <1>3 DEF Tracks
  <2>2. t.final + pnl \in Int /\ t.bets + 1 \in Nat
    BY <1>1, <2>1
  <2>3. t.wagered + stake \in Nat
    BY <2>1
  <2>4. t.profit + gain \in Nat /\ t.loss + lost \in Nat
    BY <1>2, <2>1, SMTT(60)
  <2>5. t.wins + win \in Nat /\ t.losses + (1 - win) \in Nat
    BY <1>2, <2>1
  <2>6. [t.surf EXCEPT ![surface] = c] \in [Surfaces -> Counts]
    BY <1>4
  <2> QED
    BY <1>5, <2>1, <2>2, <2>3, <2>4, <2>5, <2>6 DEF Tracks
<1>8. SurfaceTotal(u, "bets") = SurfaceTotal(t, "bets") + 1
      /\ SurfaceTotal(u, "wins") = SurfaceTotal(t, "wins") + win
  BY <1>2, <1>4, <1>6 DEF SurfaceTotal, Surfaces, Counts, c
<1>9. Balanced(u)
  <2>1. /\ t.final \in Int /\ t.profit \in Nat /\ t.loss \in Nat /\ t.wagered \in Nat
        /\ t.bets \in Nat /\ t.wins \in Nat /\ t.losses \in Nat
    BY <1>3 DEF Tracks
  <2>2. Balanced(t)
    BY DEF Sound
  <2>3. /\ u.wins + u.losses = u.bets
        /\ u.profit - u.loss = u.final
        /\ u.loss <= u.wagered
    BY <1>1, <1>2, <1>6, <2>1, <2>2 DEF Balanced
  <2> QED
    BY <1>6, <1>8, <2>2, <2>3 DEF Balanced
<1> QED
  BY <1>6, <1>7, <1>9 DEF Sound, u

\* Skipping a match counts it and keeps the books.
LEMMA SkipSound ==
  ASSUME NEW t, Sound(t), NEW i \in Index, NEW reason \in Reasons
  PROVE  LET u == Skip(t, i, reason) IN
         /\ Sound(u)
         /\ u.bets = t.bets
         /\ u.skipped = t.skipped + 1
         /\ u.legs = t.legs
<1> DEFINE u == Skip(t, i, reason)
           log == Append(t.log, Row(i, reason))
<1>1. t \in Tracks /\ t.log \in Seq(Rows) /\ t.skipped \in Nat
  BY DEF Sound, Tracks
<1>2. Row(i, reason) \in Rows
  BY DEF Row, Rows
<1>3. log \in Seq(Rows)
  BY <1>1, <1>2
<1>4. u = [[t EXCEPT !.skipped = t.skipped + 1] EXCEPT !.log = log]
  BY <1>1 DEF Skip, Tracks
<1> HIDE DEF log, u
<1>5. t.skipped + 1 \in Nat
  BY <1>1
<1>6. u \in Tracks
  BY <1>1, <1>3, <1>4, <1>5 DEF Tracks
<1>7. /\ u.bets = t.bets /\ u.skipped = t.skipped + 1 /\ u.legs = t.legs
      /\ u.wins = t.wins /\ u.losses = t.losses /\ u.profit = t.profit
      /\ u.loss = t.loss /\ u.final = t.final /\ u.wagered = t.wagered
      /\ u.surf = t.surf
  BY <1>1, <1>4 DEF Tracks
<1>8. Balanced(u)
  BY <1>7 DEF Sound, Balanced, SurfaceTotal
<1> QED
  BY <1>6, <1>7, <1>8 DEF Sound, u

\* A stake is a natural number, and 0 only if the money manager refuses.
LEMMA StakeNat ==
  ASSUME NEW t, Sound(t), NEW odds \in Nat \ {0}
  PROVE  /\ Stake(t, odds) \in Nat
         /\ ~cfg.managed => Stake(t, odds) # 0
<1>1. Available(t) \in Nat
  <2>1. t.final \in Int /\ Initial \in Nat
    BY BacktestAssumption DEF Sound, Tracks
  <2> QED
    BY <2>1 DEF Available, Positive
<1>2. Share(Available(t)) \in Nat
  <2>1. /\ Available(t) * PctNum \in Nat /\ PctDen \in Nat \ {0} /\ MaxOrder \in Nat
    BY <1>1, BacktestAssumption, ProductNat
  <2>2. (Available(t) * PctNum) \div PctDen \in Nat
    BY <2>1
  <2> QED
    BY <2>1, <2>2 DEF Share, Lower
<1> QED
  BY <1>2, BacktestAssumption DEF Stake

\* A bet with its row in the log keeps the books, or the match is skipped.
LEMMA BetSound ==
  ASSUME NEW t, Sound(t), NEW rows \in Seq(Rows), NEW n \in Nat,
         NEW surface \in Surfaces, NEW won \in BOOLEAN,
         NEW odds \in Nat \ {0}, NEW stake \in Nat
  PROVE  LET u == Bet(t, rows, n, surface, won, odds, stake) IN
         /\ Sound(u)
         /\ u.bets = t.bets + 1
         /\ u.skipped = t.skipped
         /\ u.legs = t.legs + n
<1> DEFINE v == [t EXCEPT !.log = @ \o rows, !.legs = @ + n]
           log == t.log \o rows
<1>1. t \in Tracks /\ t.log \in Seq(Rows) /\ t.legs \in Nat
  BY DEF Sound, Tracks
<1>2. log \in Seq(Rows) /\ t.legs + n \in Nat
  BY <1>1
<1>3. v = [[t EXCEPT !.log = log] EXCEPT !.legs = t.legs + n]
  BY <1>1 DEF Tracks
<1> HIDE DEF log, v
<1>4. v \in Tracks
  BY <1>1, <1>2, <1>3 DEF Tracks
<1>5. /\ v.bets = t.bets /\ v.skipped = t.skipped /\ v.legs = t.legs + n
      /\ v.wins = t.wins /\ v.losses = t.losses /\ v.profit = t.profit
      /\ v.loss = t.loss /\ v.final = t.final /\ v.wagered = t.wagered
      /\ v.surf = t.surf
  BY <1>1, <1>3 DEF Tracks
<1>6. Sound(v)
  BY <1>4, <1>5 DEF Sound, Balanced, SurfaceTotal
<1>7. LET u == Settle(v, surface, won, odds, stake) IN
      /\ Sound(u) /\ u.bets = v.bets + 1 /\ u.skipped = v.skipped /\ u.legs = v.legs
  BY <1>6, SettleSound
<1> QED
  BY <1>5, <1>7 DEF v, Bet

LEMMA BalanceRowType ==
  ASSUME NEW t, Sound(t), NEW i \in Index, NEW kind \in {"bet", "end"},
         NEW won \in BOOLEAN, NEW odds \in Nat \ {0}, NEW stake \in Nat
  PROVE  BalanceRow(t, i, kind, won, odds, stake) \in Rows
<1>1. t.final \in Int /\ Initial \in Nat
  BY BacktestAssumption DEF Sound, Tracks
<1>2. Bankroll(t) \in Int
  BY <1>1 DEF Bankroll, Positive
<1>3. Pnl(won, odds, stake) \in Int
  BY PnlBounded
<1>4. Bankroll(t) + Pnl(won, odds, stake) \in Int
  BY <1>2, <1>3
<1> QED
  BY <1>2, <1>4 DEF BalanceRow, Rows

\* Counted(t, u): one more match of singles, bet on or skipped.
Counted(t, u) == Sound(u) /\ u.bets + u.skipped = t.bets + t.skipped + 1

LEMMA SkipCounted ==
  ASSUME NEW t, Sound(t), NEW i \in Index, NEW reason \in Reasons
  PROVE  Counted(t, Skip(t, i, reason))
<1>1. t.bets \in Nat /\ t.skipped \in Nat
  BY DEF Sound, Tracks
<1> QED
  BY <1>1, SkipSound DEF Counted

LEMMA TryPlaceCounted ==
  ASSUME TypeOK, NEW t, Sound(t), NEW i \in Index, NEW side \in Sides, NEW wins
  PROVE  Counted(t, TryPlace(t, i, side, wins))
<1> DEFINE odds == OddsOf(i, side)
           won == side = "A"
           stake == Stake(t, odds)
           row == BalanceRow(t, i, "bet", won, odds, stake)
<1>1. eligible[i] \in Matches
  BY BacktestAssumption DEF TypeOK
<1>2. odds \in Nat \ {0} /\ eligible[i].surface \in Surfaces
  BY <1>1 DEF OddsOf, Matches
<1>3. stake \in Nat
  BY <1>2, StakeNat
<1>4. row \in Rows
  BY <1>2, <1>3, BalanceRowType
<1>5. t.bets \in Nat /\ t.skipped \in Nat /\ t.legs \in Nat
  BY DEF Sound, Tracks
<1> HIDE DEF odds, stake, row, won
<1>6. won \in BOOLEAN /\ <<row>> \in Seq(Rows)
  BY <1>4 DEF won
<1>7. Counted(t, Bet(t, <<row>>, 0, eligible[i].surface, won, odds, stake))
  <2> DEFINE rows == <<row>>
             surface == eligible[i].surface
             n == 0
             u == Bet(t, rows, n, surface, won, odds, stake)
  <2>1. n \in Nat /\ rows \in Seq(Rows) /\ surface \in Surfaces
    BY <1>2, <1>6
  <2> HIDE DEF rows, surface, n
  <2>2. Sound(u) /\ u.bets = t.bets + 1 /\ u.skipped = t.skipped
    BY <1>2, <1>3, <1>6, <2>1, BetSound
  <2>3. Counted(t, u)
    <3> HIDE DEF u
    <3> QED
      BY <1>5, <2>2 DEF Counted
  <2> QED
    BY <2>3 DEF rows, surface, n
<1>8. \A reason \in Reasons : Counted(t, Skip(t, i, reason))
  BY SkipCounted
<1>9. Counted(t, Place(t, i, side, odds))
  BY <1>7, <1>8 DEF Place, Reasons, odds, stake, row, won
<1> QED
  BY <1>8, <1>9 DEF TryPlace, Reasons, odds

LEMMA TrySimCounted ==
  ASSUME TypeOK, NEW t, Sound(t), NEW i \in Index, NEW wins
  PROVE  Counted(t, TrySimBet(t, i, wins))
BY TryPlaceCounted, SkipCounted DEF TrySimBet, SimSide, Sides, Reasons

LEMMA TryFavoriteCounted ==
  ASSUME TypeOK, NEW t, Sound(t), NEW i \in Index, NEW wins
  PROVE  Counted(t, TryFavoriteBet(t, i, wins))
BY TryPlaceCounted, SkipCounted DEF TryFavoriteBet, FavoriteSide, Sides, Reasons

\* The rows of a parlay name matches of the list.
LEMMA ParlayRowsType ==
  ASSUME TypeOK, pos + k - 1 <= MaxMatches, pos <= MaxMatches, NEW t, Sound(t),
         NEW stake \in Nat
  PROVE  ParlayRows(t, stake) \in Seq(Rows)
<1>1. pos \in Index /\ k \in Nat /\ MaxMatches \in Nat
  BY BacktestAssumption DEF TypeOK, Index
<1>2. \A j \in 1 .. k : pos + j - 1 \in Index
  BY <1>1 DEF Index
<1>3. Row(pos, "start") \in Rows /\ \A j \in 1 .. k : Row(pos + j - 1, "leg") \in Rows
  BY <1>1, <1>2 DEF Row, Rows
<1>4. window.won \in BOOLEAN /\ window.odds \in Nat \ {0}
  BY DEF TypeOK, Windows
<1>5. BalanceRow(t, pos, "end", window.won, window.odds, stake) \in Rows
  BY <1>1, <1>4, BalanceRowType
<1> DEFINE legs == [j \in 1 .. k |-> Row(pos + j - 1, "leg")]
           first == <<Row(pos, "start")>>
           last == <<BalanceRow(t, pos, "end", window.won, window.odds, stake)>>
<1>6. legs \in Seq(Rows)
  BY <1>1, <1>3
<1>7. first \in Seq(Rows) /\ last \in Seq(Rows)
  BY <1>3, <1>5
<1> HIDE DEF legs, first, last
<1>8. first \o legs \o last \in Seq(Rows)
  BY <1>6, <1>7
<1> QED
  BY <1>8 DEF ParlayRows, legs, first, last

\* A parlay counts its legs, unless the money manager refuses it.
LEMMA ParlaySound ==
  ASSUME TypeOK, pos + k - 1 <= MaxMatches, pos <= MaxMatches, NEW t, Sound(t)
  PROVE  /\ Sound(Parlay(t))
         /\ \/ Parlay(t).legs + Parlay(t).skipped = t.legs + t.skipped + k
            \/ /\ cfg.managed
               /\ Parlay(t).legs + Parlay(t).skipped = t.legs + t.skipped + 1
<1> DEFINE stake == Stake(t, window.odds)
           rows == ParlayRows(t, stake)
           surface == eligible[pos].surface
<1>1. pos \in Index /\ k \in Nat
  BY BacktestAssumption DEF TypeOK, Index
<1>2. window.won \in BOOLEAN /\ window.odds \in Nat \ {0}
  BY DEF TypeOK, Windows
<1>3. surface \in Surfaces
  <2>1. eligible[pos] \in Matches
    BY <1>1, BacktestAssumption DEF TypeOK
  <2> QED
    BY <2>1 DEF Matches
<1>4. stake \in Nat /\ (~cfg.managed => stake # 0)
  BY <1>2, StakeNat
<1>5. rows \in Seq(Rows)
  BY <1>4, ParlayRowsType
<1>6. t.legs \in Nat /\ t.skipped \in Nat
  BY DEF Sound, Tracks
<1> HIDE DEF stake, rows, surface
<1>7. CASE stake = 0
  <2> DEFINE u == Skip(t, pos, "ALLOC")
  <2>1. Sound(u) /\ u.skipped = t.skipped + 1 /\ u.legs = t.legs
    BY <1>1, SkipSound DEF Reasons
  <2>2. Parlay(t) = u
    BY <1>7 DEF Parlay, stake
  <2> HIDE DEF u
  <2> QED
    BY <1>4, <1>6, <1>7, <2>1, <2>2
<1>8. CASE stake # 0
  <2> DEFINE u == Bet(t, rows, k, surface, window.won, window.odds, stake)
  <2>1. Sound(u) /\ u.skipped = t.skipped /\ u.legs = t.legs + k
    BY <1>1, <1>2, <1>3, <1>4, <1>5, BetSound
  <2>2. Parlay(t) = u
    BY <1>8 DEF Parlay, stake, rows, surface
  <2> HIDE DEF u
  <2> QED
    BY <1>1, <1>6, <2>1, <2>2
<1> QED
  BY <1>7, <1>8

-----------------------------------------------------------------------------

LEMMA EmptyWindowType == EmptyWindow \in Windows /\ EmptyWindow.size = 0
<1>1. MaxMatches \in Nat
  BY BacktestAssumption
<1> QED
  BY <1>1 DEF EmptyWindow, Windows

LEMMA MostLegsType ==
  ASSUME cfg \in Configs, NEW p \in 1 .. MaxMatches + 1
  PROVE  MostLegs(p) \in 0 .. MaxMatches /\ MostLegs(p) <= MaxMatches + 1 - p
<1>1. cfg.maxLegs \in Nat \ {0} /\ MaxMatches \in Nat
  BY BacktestAssumption DEF BacktestConfigs
<1> QED
  BY <1>1 DEF MostLegs, Lower

LEMMA NewTrackSound == Sound(NewTrack) /\ NewTrack.bets = 0 /\ NewTrack.skipped = 0
                       /\ NewTrack.legs = 0
<1>1. [s \in Surfaces |-> [wins |-> 0, bets |-> 0]] \in [Surfaces -> Counts]
  BY DEF Counts
<1>2. << >> \in Seq(Rows)
  OBVIOUS
<1>3. NewTrack \in Tracks
  BY <1>1, <1>2 DEF NewTrack, Tracks
<1>4. Balanced(NewTrack)
  BY DEF NewTrack, Balanced, SurfaceTotal, Surfaces
<1> QED
  BY <1>3, <1>4 DEF Sound, NewTrack

LEMMA InitInv == Init => BacktestInv
<1> SUFFICES ASSUME Init PROVE BacktestInv
  OBVIOUS
<1>1. MaxMatches \in Nat /\ cfg \in BacktestConfigs
  BY BacktestAssumption DEF Init
<1>2. cfg.mode \in {"singles", "parlay"}
  BY <1>1 DEF BacktestConfigs
<1>3. 1 \in 1 .. MaxMatches + 1 /\ 0 \in 0 .. MaxMatches
  BY <1>1
<1>4. k \in 0 .. MaxMatches /\ k <= MaxMatches
  BY <1>1, <1>3, MostLegsType DEF Init
<1>5. tracks \in [Strategies -> Tracks]
  BY NewTrackSound DEF Init, Sound
<1>6. TypeOK
  BY <1>2, <1>3, <1>4, <1>5, EmptyWindowType DEF Init, TypeOK, Strategies
<1>7. Ledger
  BY NewTrackSound DEF Init, Ledger, Sound
<1>8. \A s \in Strategies : Walked(s) = 0
  BY <1>2 DEF Init, Walked, Strategies
<1>9. EveryMatchCounted
  BY <1>8, NewTrackSound DEF Init, EveryMatchCounted
<1>10. Shape
  BY <1>1, <1>2, <1>4, EmptyWindowType DEF Init, Shape, Strategies
<1> QED
  BY <1>6, <1>7, <1>9, <1>10 DEF BacktestInv

LEMMA WalkMatchInv ==
  ASSUME BacktestInv, WalkMatch
  PROVE  BacktestInv'
<1> USE DEF BacktestInv
<1>1. /\ strategy = "all" /\ pos \in Index /\ pos + 1 \in 1 .. MaxMatches + 1
      /\ pos' = pos + 1 /\ MaxMatches \in Nat
      /\ UNCHANGED <<cfg, eligible, strategy, k, window, cache>>
  BY BacktestAssumption DEF WalkMatch, TypeOK, Index
<1>2. \A s \in Strategies : Sound(tracks[s])
  BY DEF TypeOK, Ledger, Sound
<1>3. \A s \in Strategies : Counted(tracks[s], tracks'[s])
  <2>1. CASE tracks' = [s \in Strategies |-> Skip(tracks[s], pos, "none")]
    BY <1>1, <1>2, <2>1, SkipCounted DEF Reasons
  <2>2. CASE \E wins \in WinCounts, form \in FormOutcomes(tracks["simForm"], pos) :
               tracks' = [tracks EXCEPT !["sim"] = TrySimBet(@, pos, wins),
                                        !["favorite"] = TryFavoriteBet(@, pos, wins),
                                        !["simForm"] = form]
    <3>1. PICK wins \in WinCounts, form \in FormOutcomes(tracks["simForm"], pos) :
            tracks' = [tracks EXCEPT !["sim"] = TrySimBet(@, pos, wins),
                                     !["favorite"] = TryFavoriteBet(@, pos, wins),
                                     !["simForm"] = form]
      BY <2>2
    <3>2. Counted(tracks["sim"], TrySimBet(tracks["sim"], pos, wins))
      BY <1>1, <1>2, TrySimCounted DEF Strategies
    <3>3. Counted(tracks["favorite"], TryFavoriteBet(tracks["favorite"], pos, wins))
      BY <1>1, <1>2, TryFavoriteCounted DEF Strategies
    <3>4. Counted(tracks["simForm"], form)
      <4>1. \A w \in WinCounts :
              Counted(tracks["simForm"], TrySimBet(tracks["simForm"], pos, w))
        BY <1>1, <1>2, TrySimCounted DEF Strategies
      <4>2. Counted(tracks["simForm"], Skip(tracks["simForm"], pos, "none"))
        BY <1>1, <1>2, SkipCounted DEF Strategies, Reasons
      <4> QED
        BY <4>1, <4>2 DEF FormOutcomes
    <3>5. /\ tracks'["sim"] = TrySimBet(tracks["sim"], pos, wins)
          /\ tracks'["favorite"] = TryFavoriteBet(tracks["favorite"], pos, wins)
          /\ tracks'["simForm"] = form
      BY <3>1 DEF TypeOK, Strategies
    <3> QED
      BY <3>2, <3>3, <3>4, <3>5 DEF Strategies
  <2> QED
    BY <2>1, <2>2 DEF WalkMatch
<1>4. /\ tracks' = [s \in Strategies |-> tracks'[s]]
      /\ \A s \in Strategies : Sound(tracks'[s])
  BY <1>3 DEF WalkMatch, TypeOK, Counted
<1>5. TypeOK' /\ Ledger'
  BY <1>1, <1>4 DEF TypeOK, Ledger, Sound
<1>6. EveryMatchCounted'
  <2> SUFFICES ASSUME NEW s \in Strategies
               PROVE  tracks'[s].bets + tracks'[s].skipped = Walked(s)'
    BY <1>1 DEF EveryMatchCounted, Shape
  <2>1. tracks[s].bets + tracks[s].skipped = Walked(s)
    BY <1>1 DEF EveryMatchCounted, Shape
  <2>2. Walked(s) = pos - 1 /\ Walked(s)' = pos
    BY <1>1 DEF Walked, Index
  <2>3. tracks'[s].bets + tracks'[s].skipped = tracks[s].bets + tracks[s].skipped + 1
    BY <1>3 DEF Counted
  <2> QED
    BY <1>1, <2>1, <2>2, <2>3 DEF Index
<1>7. Shape'
  BY <1>1 DEF Shape, Strategies
<1> QED
  BY <1>5, <1>6, <1>7

\* What is built for a leg is a leg.
LEMMA LegType ==
  ASSUME TypeOK, NEW i \in Index, NEW wins \in WinCounts
  PROVE  Leg(i, wins) \in Legs
<1>1. eligible[i] \in Matches
  BY BacktestAssumption DEF TypeOK
<1>2. \A side \in Sides : OddsOf(i, side) \in Nat \ {0}
  BY <1>1 DEF OddsOf, Matches
<1>3. \A side \in Sides : ProbOf(wins, side) \in 0 .. Sims
  <2>1. wins \in 0 .. Sims /\ Sims \in Nat
    BY BacktestAssumption
  <2> QED
    BY <2>1 DEF ProbOf
<1>4. LegSide(i, wins) \in Sides
  BY DEF LegSide, FavoriteSide, Sides
<1> QED
  BY <1>2, <1>3, <1>4 DEF Leg, Legs

\* The steps that evaluate legs leave the tracks alone.
LEMMA LegInv ==
  ASSUME BacktestInv, AddLeg \/ NoRates \/ NoValue \/ Abort
  PROVE  BacktestInv'
<1> USE DEF BacktestInv
<1>1. /\ UNCHANGED <<cfg, eligible, pos, tracks>>
      /\ strategy' = strategy \/ strategy' = "failed"
  BY DEF AddLeg, NoRates, NoValue, Abort, TryShorter
<1>2. /\ MaxMatches \in Nat /\ Sims \in Nat \ {0} /\ k \in 0 .. MaxMatches
      /\ window \in Windows /\ window.size <= k /\ pos \in 1 .. MaxMatches + 1
  BY BacktestAssumption DEF TypeOK, Shape
<1>3. /\ window' \in Windows /\ k' \in 0 .. MaxMatches
      /\ window'.size <= k' /\ k' <= k
      /\ cache' \in [Index -> Legs \cup {NoLeg}]
  <2>1. CASE AddLeg
    <3>1. /\ strategy \in Strategies /\ k' = k /\ window.size < k
          /\ pos <= MaxMatches /\ k <= MaxMatches + 1 - pos
      BY <2>1 DEF AddLeg, Trying, Shape
    <3>2. window.size \in Nat
      BY <1>2 DEF Windows
    <3>3. NextLeg \in Index
      BY <1>2, <3>1, <3>2 DEF NextLeg, Index
    <3>4. \A wins \in WinCounts : Leg(NextLeg, wins) \in Legs
      BY <3>3, LegType
    <3>5. cache' \in [Index -> Legs \cup {NoLeg}] /\ cache'[NextLeg] \in Legs
      BY <2>1, <3>3, <3>4 DEF AddLeg, TypeOK
    <3>6. window' = Combine(cache'[NextLeg])
      BY <2>1 DEF AddLeg
    <3>7. Combine(cache'[NextLeg]) \in Windows
             /\ Combine(cache'[NextLeg]).size = window.size + 1
      <4> DEFINE leg == cache'[NextLeg]
      <4>1. /\ window.odds \in Nat \ {0} /\ window.prob \in Nat
            /\ window.scale \in Nat /\ window.won \in BOOLEAN
        BY <1>2 DEF Windows
      <4>2. leg.odds \in Nat \ {0} /\ leg.prob \in Nat /\ leg.won \in BOOLEAN
        BY <1>2, <3>5 DEF Legs
      <4> HIDE DEF leg
      <4>3. window.odds * leg.odds \in Nat \ {0}
        BY <4>1, <4>2, ProductPos
      <4>4. window.prob * leg.prob \in Nat /\ window.scale * Sims \in Nat
        BY <1>2, <4>1, <4>2, ProductNat
      <4>5. window.size + 1 \in 0 .. MaxMatches
        BY <1>2, <3>1, <3>2
      <4> QED
        BY <4>1, <4>2, <4>3, <4>4, <4>5 DEF Combine, Windows, leg
    <3> QED
      BY <1>2, <3>1, <3>2, <3>5, <3>6, <3>7
  <2>2. CASE NoRates \/ NoValue
    <3>1. k > 0 /\ k' = k - 1 /\ window' = EmptyWindow /\ cache' = cache
      BY <2>2 DEF NoRates, NoValue, Trying, TryShorter
    <3>2. EmptyWindow \in Windows /\ EmptyWindow.size = 0
      BY EmptyWindowType DEF EmptyWindow
    <3> QED
      BY <1>2, <3>1, <3>2 DEF TypeOK
  <2>3. CASE Abort
    BY <1>2, <2>3 DEF Abort, TypeOK
  <2> QED
    BY <2>1, <2>2, <2>3
<1>4. TypeOK'
  BY <1>1, <1>3 DEF TypeOK
<1>5. Ledger'
  BY <1>1 DEF Ledger
<1>6. EveryMatchCounted'
  <2>1. CASE strategy' = strategy
    BY <1>1, <2>1 DEF EveryMatchCounted, Walked
  <2>2. CASE strategy' = "failed"
    BY <2>2 DEF EveryMatchCounted
  <2> QED
    BY <1>1, <2>1, <2>2
<1>7. Shape'
  BY <1>1, <1>2, <1>3 DEF Shape, Strategies
<1> QED
  BY <1>4, <1>5, <1>6, <1>7

\* The next anchor: a window of the length that may be tried there.
LEMMA AdvanceShape ==
  ASSUME BacktestInv, NEW n \in Nat \ {0}, n <= MaxMatches + 1 - pos, Advance(n),
         UNCHANGED cfg
  PROVE  /\ pos' = pos + n /\ pos' \in 1 .. MaxMatches + 1
         /\ k' \in 0 .. MaxMatches /\ k' <= MaxMatches + 1 - pos'
         /\ window' \in Windows /\ window'.size = 0
<1>1. pos' = pos + n /\ k' = MostLegs(pos + n) /\ window' = EmptyWindow
  BY DEF Advance
<1>2. pos \in 1 .. MaxMatches + 1 /\ MaxMatches \in Nat /\ cfg \in Configs
  BY BacktestAssumption DEF BacktestInv, TypeOK
<1>3. pos + n \in 1 .. MaxMatches + 1
  BY <1>2
<1> DEFINE p == pos + n
<1>4. p \in 1 .. MaxMatches + 1
  BY <1>3
<1> HIDE DEF p
<1>5. MostLegs(p) \in 0 .. MaxMatches /\ MostLegs(p) <= MaxMatches + 1 - p
  BY <1>2, <1>4, MostLegsType
<1> QED
  BY <1>1, <1>4, <1>5, EmptyWindowType DEF p

\* The matches the walked track has passed are those before its anchor.
LEMMA WalkedBy ==
  ASSUME strategy \in Strategies, UNCHANGED strategy, NEW s \in Strategies
  PROVE  IF s = strategy THEN Walked(s) = pos - 1 /\ Walked(s)' = pos' - 1
         ELSE Walked(s)' = Walked(s)
<1>1. CASE s = strategy
  BY <1>1 DEF Walked, Strategies
<1>2. CASE s # strategy
  <2>1. CASE strategy = "sim"
    BY <1>2, <2>1 DEF Walked, Strategies
  <2>2. CASE strategy = "favorite"
    BY <1>2, <2>2 DEF Walked, Strategies
  <2>3. CASE strategy = "simForm"
    BY <1>2, <2>3 DEF Walked, Strategies
  <2> QED
    BY <2>1, <2>2, <2>3 DEF Strategies
<1> QED
  BY <1>1, <1>2

LEMMA PlaceParlayInv ==
  ASSUME BacktestInv, PlaceParlay
  PROVE  BacktestInv'
<1> USE DEF BacktestInv
<1> DEFINE u == Parlay(tracks[strategy])
<1>1. /\ strategy \in Strategies /\ pos <= MaxMatches /\ Advance(k)
      /\ tracks' = [tracks EXCEPT ![strategy] = u]
      /\ UNCHANGED <<cfg, eligible, strategy, cache>>
  BY DEF PlaceParlay, Trying
<1>2. /\ MaxMatches \in Nat /\ k \in Nat \ {0} /\ k <= MaxMatches + 1 - pos
      /\ pos \in 1 .. MaxMatches + 1 /\ pos + k - 1 <= MaxMatches
  BY <1>1, BacktestAssumption DEF PlaceParlay, Trying, TypeOK, Shape
<1>3. /\ pos' = pos + k /\ pos' \in 1 .. MaxMatches + 1
      /\ k' \in 0 .. MaxMatches /\ k' <= MaxMatches + 1 - pos'
      /\ window' \in Windows /\ window'.size = 0
  BY <1>1, <1>2, AdvanceShape
<1>4. \A s \in Strategies : Sound(tracks[s])
  BY DEF TypeOK, Ledger, Sound
<1>5. /\ Sound(u)
      /\ \/ u.legs + u.skipped = tracks[strategy].legs + tracks[strategy].skipped + k
         \/ /\ cfg.managed
            /\ u.legs + u.skipped = tracks[strategy].legs + tracks[strategy].skipped + 1
  BY <1>1, <1>2, <1>4, ParlaySound
<1> HIDE DEF u
<1>6. \A s \in Strategies : tracks'[s] = IF s = strategy THEN u ELSE tracks[s]
  BY <1>1 DEF TypeOK
<1>7. tracks' \in [Strategies -> Tracks]
  BY <1>1, <1>5 DEF TypeOK, Sound
<1>8. TypeOK'
  BY <1>1, <1>3, <1>7 DEF TypeOK
<1>9. Ledger'
  BY <1>4, <1>5, <1>6 DEF Ledger, Sound
<1>10. EveryMatchCounted'
  <2>1. cfg.mode = "parlay"
    BY <1>1 DEF Shape
  <2> SUFFICES ASSUME NEW s \in Strategies
               PROVE  /\ tracks'[s].legs + tracks'[s].skipped <= Walked(s)'
                      /\ ~cfg.managed => tracks'[s].legs + tracks'[s].skipped = Walked(s)'
    BY <1>1, <2>1 DEF EveryMatchCounted
  <2>2. /\ tracks[s].legs + tracks[s].skipped <= Walked(s)
        /\ ~cfg.managed => tracks[s].legs + tracks[s].skipped = Walked(s)
    BY <1>1, <2>1 DEF EveryMatchCounted, Strategies
  <2>3. CASE s = strategy
    <3>1. Walked(s) = pos - 1 /\ Walked(s)' = pos + k - 1
      BY <1>1, <1>2, <1>3, <2>3, WalkedBy
    <3>2. tracks[s].legs \in Nat /\ tracks[s].skipped \in Nat
      BY DEF TypeOK, Tracks
    <3>3. tracks'[s] = u
      BY <1>6, <2>3
    <3>4. u.legs \in Nat /\ u.skipped \in Nat
      BY <1>5 DEF Sound, Tracks
    <3> QED
      BY <1>2, <1>5, <2>2, <2>3, <3>1, <3>2, <3>3, <3>4
  <2>4. CASE s # strategy
    BY <1>1, <1>6, <2>2, <2>4, WalkedBy
  <2> QED
    BY <2>3, <2>4
<1>11. Shape'
  BY <1>1, <1>3 DEF Shape, Strategies
<1> QED
  BY <1>8, <1>9, <1>10, <1>11

LEMMA SkipAnchorInv ==
  ASSUME BacktestInv, SkipAnchor
  PROVE  BacktestInv'
<1> USE DEF BacktestInv
<1> DEFINE t == tracks[strategy]
<1>1. /\ strategy \in Strategies /\ pos <= MaxMatches /\ Advance(1)
      /\ UNCHANGED <<cfg, eligible, strategy>>
  BY DEF SkipAnchor
<1>2. MaxMatches \in Nat /\ pos \in 1 .. MaxMatches + 1 /\ pos \in Index
  BY <1>1, BacktestAssumption DEF TypeOK, Index
<1>3. /\ pos' = pos + 1 /\ pos' \in 1 .. MaxMatches + 1
      /\ k' \in 0 .. MaxMatches /\ k' <= MaxMatches + 1 - pos'
      /\ window' \in Windows /\ window'.size = 0
  BY <1>1, <1>2, AdvanceShape
<1>4. cache' \in [Index -> Legs \cup {NoLeg}]
  <2>1. \A wins \in WinCounts : Leg(pos, wins) \in Legs
    BY <1>2, LegType
  <2> QED
    BY <1>2, <2>1 DEF SkipAnchor, TypeOK
<1>5. PICK reason \in Reasons :
        tracks' = [tracks EXCEPT ![strategy] = Skip(t, pos, reason)]
  BY DEF SkipAnchor, Reasons
<1>6. \A s \in Strategies : Sound(tracks[s])
  BY DEF TypeOK, Ledger, Sound
<1> DEFINE u == Skip(t, pos, reason)
<1>7. Sound(u) /\ u.legs = t.legs /\ u.skipped = t.skipped + 1
  BY <1>1, <1>2, <1>6, SkipSound
<1>8. tracks' = [tracks EXCEPT ![strategy] = u]
  BY <1>5
<1> HIDE DEF u
<1>9. \A s \in Strategies : tracks'[s] = IF s = strategy THEN u ELSE tracks[s]
  BY <1>1, <1>8 DEF TypeOK
<1>10. tracks' \in [Strategies -> Tracks]
  BY <1>1, <1>7, <1>8 DEF TypeOK, Sound
<1>11. TypeOK'
  BY <1>1, <1>3, <1>4, <1>10 DEF TypeOK
<1>12. Ledger'
  BY <1>6, <1>7, <1>9 DEF Ledger, Sound
<1>13. EveryMatchCounted'
  <2>1. cfg.mode = "parlay"
    BY <1>1 DEF Shape
  <2> SUFFICES ASSUME NEW s \in Strategies
               PROVE  /\ tracks'[s].legs + tracks'[s].skipped <= Walked(s)'
                      /\ ~cfg.managed => tracks'[s].legs + tracks'[s].skipped = Walked(s)'
    BY <1>1, <2>1 DEF EveryMatchCounted
  <2>2. /\ tracks[s].legs + tracks[s].skipped <= Walked(s)
        /\ ~cfg.managed => tracks[s].legs + tracks[s].skipped = Walked(s)
    BY <1>1, <2>1 DEF EveryMatchCounted, Strategies
  <2>3. CASE s = strategy
    <3>1. Walked(s) = pos - 1 /\ Walked(s)' = pos
      BY <1>1, <1>2, <1>3, <2>3, WalkedBy
    <3>2. tracks[s].legs \in Nat /\ tracks[s].skipped \in Nat
      BY DEF TypeOK, Tracks
    <3>3. tracks'[s] = u
      BY <1>9, <2>3
    <3> QED
      BY <1>2, <1>7, <2>2, <2>3, <3>1, <3>2, <3>3
  <2>4. CASE s # strategy
    BY <1>1, <1>9, <2>2, <2>4, WalkedBy
  <2> QED
    BY <2>3, <2>4
<1>14. Shape'
  BY <1>1, <1>3 DEF Shape, Strategies
<1> QED
  BY <1>11, <1>12, <1>13, <1>14

\* The next track is walked from the start; what the others have passed stays.
LEMMA NextTrackWalked ==
  ASSUME BacktestInv, NextTrack, NEW s \in Strategies
  PROVE  Walked(s)' = Walked(s)
<1>1. pos = MaxMatches + 1 /\ strategy \in Strategies \cup {"all"} /\ MaxMatches \in Nat
  BY BacktestAssumption DEF NextTrack, BacktestInv, TypeOK, Strategies
<1>2. CASE strategy \in {"all", "simForm"}
  <2>1. strategy' = "done"
    BY <1>2 DEF NextTrack
  <2>2. Walked(s)' = MaxMatches
    BY <2>1 DEF Walked, Strategies
  <2>3. Walked(s) = MaxMatches
    BY <1>1, <1>2 DEF Walked, Strategies
  <2> QED
    BY <2>2, <2>3
<1>3. CASE strategy = "sim"
  <2>1. strategy' = "favorite" /\ pos' = 1
    BY <1>3 DEF NextTrack
  <2>2. Walked(s)' = IF s = "sim" THEN MaxMatches ELSE 0
    BY <2>1 DEF Walked, Strategies
  <2>3. Walked(s) = IF s = "sim" THEN MaxMatches ELSE 0
    BY <1>1, <1>3 DEF Walked, Strategies
  <2> QED
    BY <2>2, <2>3
<1>4. CASE strategy = "favorite"
  <2>1. strategy' = "simForm" /\ pos' = 1
    BY <1>4 DEF NextTrack
  <2>2. Walked(s)' = IF s = "simForm" THEN 0 ELSE MaxMatches
    BY <2>1 DEF Walked, Strategies
  <2>3. Walked(s) = IF s = "simForm" THEN 0 ELSE MaxMatches
    BY <1>1, <1>4 DEF Walked, Strategies
  <2> QED
    BY <2>2, <2>3
<1> QED
  BY <1>1, <1>2, <1>3, <1>4 DEF Strategies

LEMMA NextTrackInv ==
  ASSUME BacktestInv, NextTrack
  PROVE  BacktestInv'
<1> USE DEF BacktestInv
<1>1. /\ pos = MaxMatches + 1 /\ strategy \in Strategies \cup {"all"}
      /\ strategy' \in {"favorite", "simForm", "done"}
      /\ strategy' # "done" => strategy \in Strategies
      /\ UNCHANGED <<cfg, eligible, tracks>>
      /\ window' = EmptyWindow /\ cache' = [i \in Index |-> NoLeg]
  BY DEF NextTrack, TypeOK, Strategies
<1>2. MaxMatches \in Nat /\ cfg \in Configs /\ 1 \in 1 .. MaxMatches + 1
  BY BacktestAssumption DEF TypeOK
<1>3. MostLegs(1) \in 0 .. MaxMatches /\ MostLegs(1) <= MaxMatches
  BY <1>2, MostLegsType
<1>4. /\ pos' \in 1 .. MaxMatches + 1 /\ k' \in 0 .. MaxMatches
      /\ strategy' \in Strategies => k' <= MaxMatches + 1 - pos'
  BY <1>1, <1>2, <1>3 DEF NextTrack, TypeOK, Strategies
<1>5. TypeOK'
  BY <1>1, <1>4, EmptyWindowType DEF TypeOK, Strategies
<1>6. Ledger'
  BY <1>1 DEF Ledger
<1>7. \A s \in Strategies : Walked(s)' = Walked(s)
  BY NextTrackWalked
<1>8. EveryMatchCounted'
  BY <1>1, <1>7 DEF EveryMatchCounted, Strategies
<1>9. Shape'
  BY <1>1, <1>4, EmptyWindowType DEF Shape, TypeOK, Strategies
<1> QED
  BY <1>5, <1>6, <1>8, <1>9

LEMMA NextInv == BacktestInv /\ [Next]_vars => BacktestInv'
<1> SUFFICES ASSUME BacktestInv, [Next]_vars PROVE BacktestInv'
  OBVIOUS
<1>1. CASE WalkMatch
  BY <1>1, WalkMatchInv
<1>2. CASE AddLeg \/ NoRates \/ NoValue \/ Abort
  BY <1>2, LegInv
<1>3. CASE PlaceParlay
  BY <1>3, PlaceParlayInv
<1>4. CASE SkipAnchor
  BY <1>4, SkipAnchorInv
<1>5. CASE NextTrack
  BY <1>5, NextTrackInv
<1>6. CASE UNCHANGED vars
  BY <1>6 DEF vars, BacktestInv, TypeOK, Ledger, EveryMatchCounted, Walked, Shape
<1> QED
  BY <1>1, <1>2, <1>3, <1>4, <1>5, <1>6 DEF Next, Walk, Ended

\* Types, books, counts and the shape of the window hold throughout the walk.
THEOREM BacktestInvariant == Spec => []BacktestInv
BY InitInv, NextInv, PTL DEF Spec

\* The walk never leaves the list, a window never its length, and no statistic
\* but the balance is ever negative.
THEOREM BacktestTypeCorrect == Spec => []TypeOK
<1>1. BacktestInv => TypeOK
  BY DEF BacktestInv
<1> QED
  BY <1>1, BacktestInvariant, PTL

\* The statistics are books: however many matches are bet on, alone or in
\* parlays, at whatever odds and stakes, wins and losses make up the bets,
\* profits and losses the balance and the surfaces the whole, in every track;
\* and every match the walk has passed was bet on or skipped, in singles, and
\* was a leg or a skipped anchor, in parlays without a money manager.
THEOREM BooksAreKept == Spec => []Books
<1>1. BacktestInv => Books
  BY DEF BacktestInv, Books
<1> QED
  BY <1>1, BacktestInvariant, PTL

-----------------------------------------------------------------------------
(* What the logs say.                                                       *)

\* A log that has grown by some rows.
Grown(log, rows, new) ==
  /\ log \in Seq(Rows) /\ rows \in Seq(Rows) /\ new \in Seq(Rows)
  /\ Len(new) = Len(log) + Len(rows)
  /\ \A i \in 1 .. Len(log) : new[i] = log[i]
  /\ \A i \in 1 .. Len(rows) : new[Len(log) + i] = rows[i]

\* Rows are added at the end.
LEMMA ConcatGrows ==
  ASSUME NEW log \in Seq(Rows), NEW rows \in Seq(Rows)
  PROVE  Grown(log, rows, log \o rows)
<1> DEFINE new == log \o rows
<1>1. new \in Seq(Rows) /\ Len(new) = Len(log) + Len(rows)
  OBVIOUS
<1>2. \A i \in 1 .. Len(log) : new[i] = log[i]
  OBVIOUS
<1>3. \A i \in 1 .. Len(rows) : new[Len(log) + i] = rows[i]
  OBVIOUS
<1> QED BY <1>1, <1>2, <1>3 DEF Grown

LEMMA AppendGrows ==
  ASSUME NEW log \in Seq(Rows), NEW r \in Rows
  PROVE  Grown(log, <<r>>, Append(log, r))
<1> DEFINE new == Append(log, r)
           rows == <<r>>
<1>1. new \in Seq(Rows) /\ Len(new) = Len(log) + 1
  OBVIOUS
<1>2. \A i \in 1 .. Len(log) : new[i] = log[i]
  OBVIOUS
<1>3. rows \in Seq(Rows) /\ Len(rows) = 1 /\ rows[1] = r
  OBVIOUS
<1>4. new[Len(log) + 1] = r
  OBVIOUS
<1>5. \A i \in 1 .. Len(rows) : new[Len(log) + i] = rows[i]
  BY <1>3, <1>4
<1> HIDE DEF new, rows
<1>6. Grown(log, rows, new)
  BY <1>1, <1>2, <1>3, <1>5 DEF Grown
<1> QED BY <1>6 DEF new, rows

\* The rows a position of the grown log is of.
LEMMA GrownParts ==
  ASSUME NEW log, NEW rows, NEW new, Grown(log, rows, new)
  PROVE  /\ Len(log) \in Nat /\ Len(rows) \in Nat
         /\ \A i \in 1 .. Len(new) :
              IF i <= Len(log) THEN i \in 1 .. Len(log) /\ new[i] = log[i]
              ELSE i - Len(log) \in 1 .. Len(rows) /\ new[i] = rows[i - Len(log)]
<1> USE DEF Grown
<1>1. Len(log) \in Nat /\ Len(rows) \in Nat
  OBVIOUS
<1>2. ASSUME NEW i \in 1 .. Len(new), i > Len(log)
      PROVE  i - Len(log) \in 1 .. Len(rows) /\ new[i] = rows[i - Len(log)]
  <2>1. i - Len(log) \in 1 .. Len(rows)
    BY <1>1, <1>2
  <2>2. new[Len(log) + (i - Len(log))] = rows[i - Len(log)]
    BY <2>1
  <2>3. Len(log) + (i - Len(log)) = i
    BY <1>1
  <2> QED BY <2>1, <2>2, <2>3
<1>3. \A i \in 1 .. Len(new) : i <= Len(log) => i \in 1 .. Len(log) /\ new[i] = log[i]
  BY <1>1
<1> QED BY <1>1, <1>2, <1>3

-----------------------------------------------------------------------------
(* The account.  A stake is never more than what is there, so that the     *)
(* balance in the log is the one of the statistics, not cut off at 0.       *)

\* What is left is not negative, and without a bet it is what there was.
AccountInv(t) ==
  /\ Initial + t.final >= 0
  /\ Accounted(t)
  /\ BetRows(t.log) = {} => t.final = 0

\* A share is no more than the whole.
LEMMA ShareBounded == ASSUME NEW b \in Nat PROVE Share(b) <= b
<1>1. PctNum \in Nat /\ PctDen \in Nat \ {0} /\ PctNum <= PctDen /\ MaxOrder \in Nat
  BY BacktestAssumption
<1> DEFINE x == b * PctNum
           q == x \div PctDen
<1>2. x \in Nat
  BY <1>1, ProductNat
<1>3. x <= b * PctDen
  BY <1>1, SMTT(30)
<1>4. q \in Nat /\ q * PctDen <= x
  <2> HIDE DEF x
  <2> QED BY <1>1, <1>2, SMTT(30)
<1> HIDE DEF x, q
<1>5. q * PctDen <= b * PctDen
  <2>1. q * PctDen \in Nat /\ b * PctDen \in Nat
    BY <1>1, <1>4, ProductNat
  <2> QED BY <1>2, <1>3, <1>4, <2>1
<1>6. q <= b
  BY <1>1, <1>4, <1>5, SMTT(30)
<1> QED BY <1>1, <1>4, <1>6 DEF Share, Lower, q, x

\* What the money manager stakes is there.
LEMMA StakeCovered ==
  ASSUME cfg.managed, NEW t, Sound(t), Initial + t.final >= 0,
         NEW odds \in Nat \ {0}, NEW won \in BOOLEAN
  PROVE  /\ Bankroll(t) = Initial + t.final
         /\ Initial + t.final + Pnl(won, odds, Stake(t, odds)) >= 0
<1>1. t.final \in Int /\ Initial \in Nat
  BY BacktestAssumption DEF Sound, Tracks
<1>2. Available(t) = Initial + t.final /\ Bankroll(t) = Initial + t.final /\ Available(t) \in Nat
  BY <1>1 DEF Available, Bankroll, Positive
<1> DEFINE stake == Stake(t, odds)
<1>3. stake \in Nat
  BY StakeNat
<1>4. stake <= Available(t)
  BY <1>2, ShareBounded DEF Stake
<1> HIDE DEF stake
<1>5. Pnl(won, odds, stake) \in Int /\ Pnl(won, odds, stake) >= -stake
  BY <1>3, PnlBounded
<1> QED BY <1>1, <1>2, <1>3, <1>4, <1>5 DEF stake

\* Rows without a balance leave the account as it is.
LEMMA AccountKept ==
  ASSUME NEW t, NEW u, NEW rows, Grown(t.log, rows, u.log), AccountInv(t),
         BetRows(rows) = {}, u.final = t.final, u.bets = t.bets
  PROVE  AccountInv(u)
<1>1. BetRows(u.log) = BetRows(t.log)
  <2>1. ASSUME NEW i \in BetRows(u.log)
        PROVE  i \in BetRows(t.log)
    <3>1. i \in 1 .. Len(u.log) /\ u.log[i].kind \in {"bet", "end"}
      BY DEF BetRows
    <3>2. \A j \in 1 .. Len(rows) : rows[j].kind \notin {"bet", "end"}
      BY DEF BetRows
    <3>3. i \in 1 .. Len(t.log) /\ u.log[i] = t.log[i]
      BY <3>1, <3>2, GrownParts
    <3> QED BY <3>1, <3>3 DEF BetRows
  <2>2. \A i \in BetRows(t.log) : i \in BetRows(u.log)
    BY GrownParts DEF BetRows, Grown
  <2> QED BY <2>1, <2>2
<1>2. \A i \in BetRows(t.log) : u.log[i] = t.log[i]
  BY DEF BetRows, Grown
<1>3. \A i, j : NextBet(u.log, i, j) <=> NextBet(t.log, i, j)
  BY <1>1 DEF NextBet
<1> QED BY <1>1, <1>2, <1>3 DEF AccountInv, Accounted

\* A bet opens with the balance before it and closes with the one after.
LEMMA AccountPaid ==
  ASSUME NEW t, NEW u, NEW rows, Grown(t.log, rows, u.log), AccountInv(t),
         Sound(t), BetRows(rows) = {Len(rows)}, Len(rows) > 0,
         rows[Len(rows)].before = Initial + t.final, rows[Len(rows)].after = Initial + u.final,
         Initial + u.final >= 0, u.bets = t.bets + 1
  PROVE  AccountInv(u)
<1> DEFINE m == Len(t.log)
           n == Len(u.log)
           old == BetRows(t.log)
<1>1. m \in Nat /\ n \in Nat /\ n > m /\ n = m + Len(rows)
  BY DEF Grown
<1>2. u.log[n] = rows[Len(rows)]
  BY <1>1 DEF Grown
<1>3. \A i \in old : i \in 1 .. m /\ u.log[i] = t.log[i]
  BY DEF BetRows, Grown
<1>4. BetRows(u.log) = old \cup {n}
  <2>1. \A i \in 1 .. Len(rows) : i \in BetRows(rows) <=> i = Len(rows)
    OBVIOUS
  <2>2. ASSUME NEW i \in BetRows(u.log)
        PROVE  i \in old \cup {n}
    <3>1. i \in 1 .. n /\ u.log[i].kind \in {"bet", "end"}
      BY DEF BetRows
    <3>2. CASE i <= m
      BY <3>1, <3>2, GrownParts DEF BetRows
    <3>3. CASE i > m
      <4>1. i - m \in 1 .. Len(rows) /\ u.log[i] = rows[i - m]
        <5>1. i \in 1 .. Len(u.log) /\ ~(i <= Len(t.log))
          BY <1>1, <3>1, <3>3
        <5>2. \A j \in 1 .. Len(u.log) : ~(j <= Len(t.log)) =>
                j - Len(t.log) \in 1 .. Len(rows) /\ u.log[j] = rows[j - Len(t.log)]
          BY GrownParts
        <5> QED BY <5>1, <5>2
      <4>2. i - m = Len(rows)
        BY <2>1, <3>1, <4>1 DEF BetRows
      <4> QED BY <1>1, <3>1, <4>2
    <3> QED BY <1>1, <3>1, <3>2, <3>3
  <2>3. n \in BetRows(u.log)
    <3>1. Len(rows) \in BetRows(rows)
      OBVIOUS
    <3> QED BY <1>1, <1>2, <3>1 DEF BetRows
  <2>4. \A i \in old : i \in BetRows(u.log)
    BY <1>1, <1>3 DEF BetRows
  <2> QED BY <2>2, <2>3, <2>4
<1>5. n \notin old /\ \A i \in old : i < n
  BY <1>1, <1>3
<1>6. Cardinality(old \cup {n}) = Cardinality(old) + 1
  <2>1. IsFiniteSet(1 .. m)
    BY <1>1, FS_Interval
  <2>2. IsFiniteSet(old)
    BY <1>3, <2>1, FS_Subset
  <2> QED BY <1>5, <2>2, FS_AddElement
<1>7. Accounted(t)
  BY DEF AccountInv
<1> HIDE DEF m, n, old
<1>8. \A i \in old : i \in Nat
  BY <1>1, <1>3
<1>9. ASSUME NEW i \in old, NEW j \in old, NextBet(u.log, i, j)
      PROVE  u.log[j].before = u.log[i].after
  <2>1. NextBet(t.log, i, j)
    BY <1>4, <1>9 DEF NextBet, old
  <2> QED BY <1>3, <1>7, <2>1 DEF Accounted, old
<1>10. ASSUME NEW i \in old, NextBet(u.log, i, n)
       PROVE  u.log[n].before = u.log[i].after
  <2>1. \A j \in old : j <= i
    BY <1>4, <1>5, <1>8, <1>1, <1>10 DEF NextBet
  <2>2. t.log[i].after = Initial + t.final
    BY <1>7, <2>1 DEF Accounted, old
  <2> QED BY <1>2, <1>3, <2>2
<1>11. ~ \E j \in old \cup {n} : NextBet(u.log, n, j)
  BY <1>1, <1>5, <1>8 DEF NextBet
<1>12. (\A j \in old \cup {n} : n <= j) => u.log[n].before = Initial
  <2> SUFFICES ASSUME \A j \in old \cup {n} : n <= j
               PROVE  u.log[n].before = Initial
    OBVIOUS
  <2>1. old = {}
    BY <1>1, <1>5, <1>8
  <2>2. t.final = 0
    BY <2>1 DEF AccountInv, old
  <2> QED BY <1>2, <2>2, BacktestAssumption
<1>13. ASSUME NEW i \in old, \A j \in old \cup {n} : i <= j
       PROVE  u.log[i].before = Initial
  BY <1>3, <1>7, <1>13 DEF Accounted, old
<1>14. \A i \in old : u.log[i].after >= 0 /\ ~ \A j \in old \cup {n} : j <= i
  BY <1>1, <1>3, <1>5, <1>7, <1>8 DEF Accounted, old
<1>15. u.log[n].after = Initial + u.final
  BY <1>2
<1>16. Accounted(u)
  BY <1>4, <1>6, <1>7, <1>9, <1>10, <1>11, <1>12, <1>13, <1>14, <1>15 DEF Accounted, old
<1> QED BY <1>4, <1>16 DEF AccountInv

-----------------------------------------------------------------------------
(* Singles.  Every match is one row of each log.                            *)

\* One match of singles: a row without a balance, or one with it.
Skipped(t, u, i, reason) ==
  /\ u.log = Append(t.log, Row(i, reason))
  /\ u.final = t.final /\ u.bets = t.bets

Paid(t, u, i) ==
  \E odds \in Nat \ {0}, won \in BOOLEAN :
    LET stake == Stake(t, odds) IN
    /\ stake # 0
    /\ u.log = Append(t.log, BalanceRow(t, i, "bet", won, odds, stake))
    /\ u.final = t.final + Pnl(won, odds, stake)
    /\ u.bets = t.bets + 1

\* Skipping writes its reason and moves no money.
LEMMA SkipSkips ==
  ASSUME NEW t, Sound(t), NEW i, NEW reason
  PROVE  Skipped(t, Skip(t, i, reason), i, reason)
<1> DEFINE log == Append(t.log, Row(i, reason))
<1>1. t \in Tracks
  BY DEF Sound
<1>2. Skip(t, i, reason) = [[t EXCEPT !.skipped = t.skipped + 1] EXCEPT !.log = log]
  BY <1>1 DEF Skip, Tracks
<1> HIDE DEF log
<1>3. /\ Skip(t, i, reason).log = log /\ Skip(t, i, reason).final = t.final
      /\ Skip(t, i, reason).bets = t.bets
  BY <1>1, <1>2 DEF Tracks
<1> QED BY <1>3 DEF Skipped, log

\* A bet writes its rows and moves the balance by its result.
LEMMA BetPays ==
  ASSUME NEW t, Sound(t), NEW rows, NEW legs, NEW surface, NEW won, NEW odds, NEW stake
  PROVE  LET u == Bet(t, rows, legs, surface, won, odds, stake) IN
         /\ u.log = t.log \o rows
         /\ u.final = t.final + Pnl(won, odds, stake)
         /\ u.bets = t.bets + 1
<1> DEFINE log == t.log \o rows
           all == t.legs + legs
           v == [t EXCEPT !.log = @ \o rows, !.legs = @ + legs]
<1>1. t \in Tracks
  BY DEF Sound
<1>2. v = [[t EXCEPT !.log = log] EXCEPT !.legs = all]
  BY <1>1 DEF Tracks
<1> HIDE DEF log, all, v
<1>3. v.log = log /\ v.final = t.final /\ v.bets = t.bets
  BY <1>1, <1>2 DEF Tracks
<1>4. Bet(t, rows, legs, surface, won, odds, stake) = Settle(v, surface, won, odds, stake)
  BY DEF Bet, v
<1> QED BY <1>3, <1>4 DEF Settle, log

\* What becomes of a track at a match with a pick.
LEMMA TryPlaceRow ==
  ASSUME TypeOK, NEW t, Sound(t), NEW i \in Index, NEW side \in Sides, NEW wins
  PROVE  LET u == TryPlace(t, i, side, wins) IN
         /\ \/ \E reason \in Reasons \ {"MINPICK"} : Skipped(t, u, i, reason)
            \/ Paid(t, u, i)
         /\ ~cfg.ev /\ cfg.minOdds = 0 /\ ~cfg.managed => u.bets = t.bets + 1
<1> DEFINE odds == OddsOf(i, side)
           won == side = "A"
           stake == Stake(t, odds)
           row == BalanceRow(t, i, "bet", won, odds, stake)
           u == TryPlace(t, i, side, wins)
           bet == Bet(t, <<row>>, 0, eligible[i].surface, won, odds, stake)
<1>1. odds \in Nat \ {0} /\ won \in BOOLEAN
  <2>1. eligible[i] \in Matches
    BY BacktestAssumption DEF TypeOK
  <2> QED BY <2>1 DEF OddsOf, Matches
<1>2. stake \in Nat /\ (~cfg.managed => stake # 0)
  BY <1>1, StakeNat
<1>3. row \in Rows /\ t.log \in Seq(Rows)
  BY <1>1, <1>2, BalanceRowType DEF Sound, Tracks
<1>4. \A reason \in Reasons : Skipped(t, Skip(t, i, reason), i, reason)
  BY SkipSkips
<1>5. \/ u = Skip(t, i, "NEG_EV") /\ cfg.ev
      \/ u = Skip(t, i, "MIN_ODDS") /\ cfg.minOdds > 0
      \/ u = Skip(t, i, "ALLOC") /\ stake = 0
      \/ u = bet /\ stake # 0
  BY DEF TryPlace, Place, EVAllowed, OddsAllowed
<1>6. /\ bet.log = t.log \o <<row>> /\ bet.bets = t.bets + 1
      /\ bet.final = t.final + Pnl(won, odds, stake)
  <2> DEFINE rows == <<row>>
             surface == eligible[i].surface
             legs == 0
  <2> HIDE DEF rows, surface, legs, stake, odds, won
  <2>1. LET b == Bet(t, rows, legs, surface, won, odds, stake) IN
        /\ b.log = t.log \o rows /\ b.bets = t.bets + 1
        /\ b.final = t.final + Pnl(won, odds, stake)
    BY BetPays
  <2> QED BY <2>1 DEF rows, surface, legs
<1>7. t.log \o <<row>> = Append(t.log, row)
  BY <1>3
<1> HIDE DEF u, bet, stake, odds, won
<1>8. CASE u = bet /\ stake # 0
  <2>1. Paid(t, u, i)
    BY <1>1, <1>6, <1>7, <1>8 DEF Paid, stake
  <2> QED BY <1>6, <1>8, <2>1 DEF u
<1>9. CASE \/ u = Skip(t, i, "NEG_EV") /\ cfg.ev
           \/ u = Skip(t, i, "MIN_ODDS") /\ cfg.minOdds > 0
           \/ u = Skip(t, i, "ALLOC") /\ stake = 0
  BY <1>2, <1>4, <1>9 DEF Reasons, u
<1> QED BY <1>5, <1>8, <1>9

\* One row for the match, whatever becomes of it.
OneRow(t, u, i) == (\E reason \in Reasons : Skipped(t, u, i, reason)) \/ Paid(t, u, i)

\* The row is of the match, and shows whether there was a pick.
LEMMA OneRowGrows ==
  ASSUME NEW t, Sound(t), NEW u, NEW i \in Index, OneRow(t, u, i)
  PROVE  \E r \in Rows :
           /\ Grown(t.log, <<r>>, u.log)
           /\ r.match = i /\ r.kind \notin {"start", "end"}
           /\ r.kind = "MINPICK" <=> Skipped(t, u, i, "MINPICK")
<1>1. t.log \in Seq(Rows)
  BY DEF Sound, Tracks
<1>2. ASSUME NEW reason \in Reasons, Skipped(t, u, i, reason)
      PROVE  \E r \in Rows :
           /\ Grown(t.log, <<r>>, u.log)
           /\ r.match = i /\ r.kind = reason
  <2>1. Row(i, reason) \in Rows /\ Row(i, reason).match = i /\ Row(i, reason).kind = reason
    BY DEF Row, Rows
  <2> QED BY <1>1, <1>2, <2>1, AppendGrows DEF Skipped
<1>3. ASSUME Paid(t, u, i)
      PROVE  \E r \in Rows :
           /\ Grown(t.log, <<r>>, u.log)
           /\ r.match = i /\ r.kind = "bet"
  <2>1. PICK odds \in Nat \ {0}, won \in BOOLEAN :
          u.log = Append(t.log, BalanceRow(t, i, "bet", won, odds, Stake(t, odds)))
    BY <1>3 DEF Paid
  <2> DEFINE r == BalanceRow(t, i, "bet", won, odds, Stake(t, odds))
  <2>2. r \in Rows
    BY StakeNat, BalanceRowType
  <2>3. r.match = i /\ r.kind = "bet"
    BY DEF BalanceRow
  <2> HIDE DEF r
  <2>4. Grown(t.log, <<r>>, u.log)
    BY <1>1, <2>1, <2>2, AppendGrows DEF r
  <2> QED BY <2>2, <2>3, <2>4
<1>4. \A r, q \in Rows : Grown(t.log, <<r>>, u.log) /\ Grown(t.log, <<q>>, u.log) => r = q
  <2> SUFFICES ASSUME NEW r \in Rows, NEW q \in Rows,
                      Grown(t.log, <<r>>, u.log), Grown(t.log, <<q>>, u.log)
               PROVE  r = q
    OBVIOUS
  <2> DEFINE R == <<r>>
             Q == <<q>>
  <2>1. 1 \in 1 .. Len(R) /\ 1 \in 1 .. Len(Q) /\ R[1] = r /\ Q[1] = q
    OBVIOUS
  <2> HIDE DEF R, Q
  <2>2. u.log[Len(t.log) + 1] = R[1] /\ u.log[Len(t.log) + 1] = Q[1]
    <3>1. Grown(t.log, R, u.log) /\ Grown(t.log, Q, u.log)
      BY DEF R, Q
    <3> QED BY <2>1, <3>1 DEF Grown
  <2> QED BY <2>1, <2>2
<1>5. ASSUME NEW r \in Rows, Grown(t.log, <<r>>, u.log), Skipped(t, u, i, "MINPICK")
      PROVE  r.kind = "MINPICK"
  BY <1>2, <1>4, <1>5 DEF Reasons
<1>6. CASE Paid(t, u, i)
  BY <1>3, <1>5, <1>6
<1>7. CASE \E reason \in Reasons : Skipped(t, u, i, reason)
  <2>1. PICK reason \in Reasons : Skipped(t, u, i, reason)
    BY <1>7
  <2>2. PICK r \in Rows : Grown(t.log, <<r>>, u.log) /\ r.match = i /\ r.kind = reason
    BY <1>2, <2>1
  <2> QED BY <1>5, <2>1, <2>2 DEF Reasons
<1> QED BY <1>6, <1>7 DEF OneRow

-----------------------------------------------------------------------------

\* One row keeps the account of a managed track.
LEMMA OneRowAccount ==
  ASSUME cfg.managed, NEW t, Sound(t), NEW u, NEW i \in Index, OneRow(t, u, i), AccountInv(t)
  PROVE  AccountInv(u)
<1>1. t.log \in Seq(Rows)
  BY DEF Sound, Tracks
<1>2. ASSUME NEW reason \in Reasons, Skipped(t, u, i, reason)
      PROVE  AccountInv(u)
  <2> DEFINE r == Row(i, reason)
             rows == <<r>>
  <2>1. r \in Rows /\ r.kind \notin {"bet", "end"}
    BY DEF Row, Rows, Reasons
  <2> HIDE DEF r
  <2>2. Grown(t.log, rows, u.log)
    BY <1>1, <1>2, <2>1, AppendGrows DEF Skipped, r
  <2>3. BetRows(rows) = {}
    BY <2>1 DEF BetRows
  <2> HIDE DEF rows
  <2> QED BY <1>2, <2>2, <2>3, AccountKept DEF Skipped
<1>3. ASSUME Paid(t, u, i)
      PROVE  AccountInv(u)
  <2>1. PICK odds \in Nat \ {0}, won \in BOOLEAN :
          LET stake == Stake(t, odds) IN
          /\ u.log = Append(t.log, BalanceRow(t, i, "bet", won, odds, stake))
          /\ u.final = t.final + Pnl(won, odds, stake)
          /\ u.bets = t.bets + 1
    BY <1>3 DEF Paid
  <2> DEFINE stake == Stake(t, odds)
             r == BalanceRow(t, i, "bet", won, odds, stake)
             rows == <<r>>
  <2>2. /\ Bankroll(t) = Initial + t.final
        /\ Initial + t.final + Pnl(won, odds, stake) >= 0
    BY StakeCovered DEF AccountInv
  <2>3. stake \in Nat
    BY StakeNat
  <2>4. r \in Rows
    BY <2>3, BalanceRowType
  <2>5. Pnl(won, odds, stake) \in Int /\ t.final \in Int /\ Initial \in Nat
    BY <2>3, PnlBounded, BacktestAssumption DEF Sound, Tracks
  <2>6. r.kind = "bet" /\ r.before = Initial + t.final /\ r.after = Initial + u.final
    BY <2>1, <2>2, <2>5 DEF BalanceRow
  <2>7. Initial + u.final >= 0
    BY <2>1, <2>2, <2>5
  <2> HIDE DEF r, stake
  <2>8. Grown(t.log, rows, u.log)
    BY <1>1, <2>1, <2>4, AppendGrows DEF r, stake
  <2>9. BetRows(rows) = {1} /\ Len(rows) = 1 /\ rows[1] = r
    BY <2>6 DEF BetRows
  <2> HIDE DEF rows
  <2>10. BetRows(rows) = {Len(rows)} /\ Len(rows) > 0 /\ rows[Len(rows)] = r
    BY <2>9
  <2> QED BY <2>1, <2>6, <2>7, <2>8, <2>10, AccountPaid
<1> QED BY <1>2, <1>3 DEF OneRow

\* The n-th row is the n-th match.
OnePerMatch(log, n) ==
  Len(log) = n /\ \A i \in 1 .. n : log[i].match = i /\ log[i].kind \notin {"start", "end"}

\* The matches of the legs and of the skipped anchors come one after the other.
InOrder(log, n) ==
  \A i \in WalkRows(log) :
    log[i].match <= n /\ \A j \in WalkRows(log) : i < j => log[i].match < log[j].match

\* The row of the next match continues the log.
LEMMA OneRowPerMatch ==
  ASSUME NEW n \in Nat, n + 1 \in Index, NEW t, Sound(t), NEW u, OneRow(t, u, n + 1),
         OnePerMatch(t.log, n)
  PROVE  OnePerMatch(u.log, n + 1)
<1>1. PICK r \in Rows : /\ Grown(t.log, <<r>>, u.log)
                        /\ r.match = n + 1 /\ r.kind \notin {"start", "end"}
  BY OneRowGrows
<1> DEFINE rows == <<r>>
<1>2. rows[1] = r /\ Len(rows) = 1
  OBVIOUS
<1> HIDE DEF rows
<1>3. Grown(t.log, rows, u.log)
  BY <1>1 DEF rows
<1>4. Len(u.log) = n + 1
  BY <1>2, <1>3 DEF Grown, OnePerMatch
<1>5. \A i \in 1 .. n : u.log[i] = t.log[i]
  BY <1>3 DEF Grown, OnePerMatch
<1>6. u.log[n + 1] = r
  BY <1>2, <1>3 DEF Grown, OnePerMatch
<1>7. \A i \in 1 .. n + 1 : i \in 1 .. n \/ i = n + 1
  OBVIOUS
<1> QED BY <1>1, <1>4, <1>5, <1>6, <1>7 DEF OnePerMatch

\* The two tracks refuse the same matches, and bet on as many.
NoPicks(t) == {i \in 1 .. Len(t.log) : t.log[i].kind = "MINPICK"}
Mirrored(t, u) ==
  /\ Len(t.log) = Len(u.log)
  /\ NoPicks(t) = NoPicks(u)
  /\ ~cfg.ev /\ cfg.minOdds = 0 /\ ~cfg.managed => t.bets = u.bets

\* A match without a pick is one more of them.
LEMMA NoPicksGrow ==
  ASSUME NEW t, Sound(t), NEW u, NEW i \in Index, OneRow(t, u, i)
  PROVE  /\ Len(u.log) = Len(t.log) + 1
         /\ NoPicks(u) = NoPicks(t) \cup
              IF Skipped(t, u, i, "MINPICK") THEN {Len(t.log) + 1} ELSE {}
<1>1. PICK r \in Rows : /\ Grown(t.log, <<r>>, u.log)
                        /\ r.kind = "MINPICK" <=> Skipped(t, u, i, "MINPICK")
  BY OneRowGrows
<1> DEFINE rows == <<r>>
<1>2. rows[1] = r /\ Len(rows) = 1
  OBVIOUS
<1> HIDE DEF rows
<1>3. Grown(t.log, rows, u.log)
  BY <1>1 DEF rows
<1>4. Len(u.log) = Len(t.log) + 1 /\ Len(t.log) \in Nat
  BY <1>2, <1>3 DEF Grown
<1>5. \A j \in 1 .. Len(t.log) : u.log[j] = t.log[j]
  BY <1>3 DEF Grown
<1>6. u.log[Len(t.log) + 1] = r
  BY <1>2, <1>3 DEF Grown
<1> HIDE DEF Skipped
<1>7. \A j \in 1 .. Len(u.log) : j \in 1 .. Len(t.log) \/ j = Len(t.log) + 1
  BY <1>4
<1>8. \A j \in 1 .. Len(t.log) : j \in 1 .. Len(u.log) /\ j # Len(t.log) + 1
  BY <1>4
<1> QED BY <1>1, <1>4, <1>5, <1>6, <1>7, <1>8 DEF NoPicks

\* A row tells whether there was a pick.
LEMMA OneKind ==
  ASSUME NEW t, Sound(t), NEW u, NEW i \in Index,
         (\E reason \in Reasons \ {"MINPICK"} : Skipped(t, u, i, reason)) \/ Paid(t, u, i)
  PROVE  ~Skipped(t, u, i, "MINPICK")
<1>1. t.log \in Seq(Rows)
  BY DEF Sound, Tracks
<1>2. \A r : Append(t.log, r)[Len(t.log) + 1] = r
  BY <1>1
<1>3. \A reason : Skipped(t, u, i, reason) => u.log[Len(t.log) + 1].kind = reason
  BY <1>2 DEF Skipped, Row
<1>4. Paid(t, u, i) => u.log[Len(t.log) + 1].kind = "bet"
  BY <1>2 DEF Paid, BalanceRow
<1> HIDE DEF Skipped, Paid
<1> QED BY <1>3, <1>4

\* A track that asks for a pick first.
Picky(t, u, i, wins) ==
  /\ OneRow(t, u, i)
  /\ Skipped(t, u, i, "MINPICK") <=> Picks(wins) = {}
  /\ ~cfg.ev /\ cfg.minOdds = 0 /\ ~cfg.managed =>
       u.bets = t.bets + (IF Picks(wins) = {} THEN 0 ELSE 1)

\* The simulation and the favourite ask for the same pick.
LEMMA TryIsPicky ==
  ASSUME TypeOK, NEW t, Sound(t), NEW i \in Index, NEW side \in Sides, NEW wins,
         NEW u, u = IF Picks(wins) = {} THEN Skip(t, i, "MINPICK") ELSE TryPlace(t, i, side, wins)
  PROVE  Picky(t, u, i, wins)
<1>1. CASE Picks(wins) = {}
  <2>1. Skipped(t, u, i, "MINPICK")
    BY <1>1, SkipSkips
  <2>2. u.bets = t.bets + 0
    <3>1. t.bets \in Nat
      BY DEF Sound, Tracks
    <3> QED BY <2>1, <3>1 DEF Skipped
  <2> QED BY <1>1, <2>1, <2>2 DEF Picky, OneRow, Reasons
<1>2. CASE Picks(wins) # {}
  <2>1. /\ \/ \E reason \in Reasons \ {"MINPICK"} : Skipped(t, u, i, reason)
           \/ Paid(t, u, i)
        /\ ~cfg.ev /\ cfg.minOdds = 0 /\ ~cfg.managed => u.bets = t.bets + 1
    BY <1>2, TryPlaceRow
  <2>2. ~Skipped(t, u, i, "MINPICK")
    BY <2>1, OneKind
  <2> QED BY <1>2, <2>1, <2>2 DEF Picky, OneRow
<1> QED BY <1>1, <1>2

\* Tracks that ask for the same pick go on mirroring each other.
LEMMA SinglesMirror ==
  ASSUME NEW t, NEW u, NEW t1, NEW u1, Sound(t), Sound(u), Mirrored(t, u),
         NEW i \in Index, NEW wins, Picky(t, t1, i, wins), Picky(u, u1, i, wins)
  PROVE  Mirrored(t1, u1)
<1>1. OneRow(t, t1, i) /\ OneRow(u, u1, i)
  BY DEF Picky
<1>2. /\ Len(t1.log) = Len(t.log) + 1
      /\ NoPicks(t1) = NoPicks(t) \cup
              IF Skipped(t, t1, i, "MINPICK") THEN {Len(t.log) + 1} ELSE {}
  BY <1>1, NoPicksGrow
<1>3. /\ Len(u1.log) = Len(u.log) + 1
      /\ NoPicks(u1) = NoPicks(u) \cup
              IF Skipped(u, u1, i, "MINPICK") THEN {Len(u.log) + 1} ELSE {}
  BY <1>1, NoPicksGrow
<1> QED BY <1>2, <1>3 DEF Mirrored, Picky

-----------------------------------------------------------------------------
(* The invariant of the logs, and the steps of singles.                     *)

\* What the logs tell: the account, the matches and the picks.
Told(log, n) == IF cfg.mode = "singles" THEN OnePerMatch(log, n) ELSE InOrder(log, n)

LogInv ==
  /\ cfg.managed => \A s \in Strategies : AccountInv(tracks[s])
  /\ strategy # "failed" => \A s \in Strategies : Told(tracks[s].log, Walked(s))
  /\ cfg.mode = "singles" => Mirrored(tracks["sim"], tracks["favorite"])

\* The account of a track after a step is one after the step.
LEMMA AccountPrimed == \A s \in Strategies : AccountInv(tracks'[s]) <=> AccountInv(tracks[s])'
BY DEF AccountInv, Accounted, BetRows, NextBet

\* Empty logs tell of nothing.
LEMMA InitLog == ASSUME Init PROVE LogInv
<1>1. NewTrack.log = << >> /\ NewTrack.final = 0 /\ NewTrack.bets = 0 /\ Len(<< >>) = 0
  BY DEF NewTrack
<1>2. BetRows(<< >>) = {} /\ WalkRows(<< >>) = {}
  BY DEF BetRows, WalkRows
<1>3. AccountInv(NewTrack)
  <2>1. Cardinality({}) = 0
    BY FS_EmptySet
  <2>2. Initial >= 0
    BY BacktestAssumption
  <2>3. Accounted(NewTrack)
    BY <1>1, <1>2, <2>1 DEF Accounted
  <2> QED BY <1>1, <2>2, <2>3, BacktestAssumption DEF AccountInv
<1>4. OnePerMatch(<< >>, 0) /\ InOrder(<< >>, 0)
  BY <1>2 DEF OnePerMatch, InOrder
<1>5. \A s \in Strategies : tracks[s] = NewTrack
  BY DEF Init
<1>6. \A s \in Strategies : Walked(s) = 0
  <2>1. cfg.mode \in {"singles", "parlay"}
    BY BacktestAssumption DEF Init, BacktestConfigs
  <2> QED BY <2>1 DEF Init, Walked, Strategies
<1> QED BY <1>1, <1>3, <1>4, <1>5, <1>6 DEF LogInv, Told, Mirrored, Strategies

\* A match of singles adds its row to all three logs.
LEMMA WalkMatchLog ==
  ASSUME BacktestInv, LogInv, WalkMatch
  PROVE  LogInv'
<1>1. /\ strategy = "all" /\ pos \in Index /\ pos' = pos + 1 /\ MaxMatches \in Nat
      /\ cfg.mode = "singles" /\ TypeOK
      /\ UNCHANGED <<cfg, eligible, strategy, k, window, cache>>
  BY BacktestAssumption DEF WalkMatch, BacktestInv, TypeOK, Index, Shape
<1>2. \A s \in Strategies : Sound(tracks[s])
  BY DEF BacktestInv, TypeOK, Ledger, Sound
<1>3. /\ \A s \in Strategies : OneRow(tracks[s], tracks'[s], pos)
      /\ Mirrored(tracks'["sim"], tracks'["favorite"])
  <2>1. CASE tracks' = [s \in Strategies |-> Skip(tracks[s], pos, "none")]
    <3>1. \A s \in Strategies : Skipped(tracks[s], tracks'[s], pos, "none")
      BY <1>2, <2>1, SkipSkips
    <3>2. \A s \in Strategies : OneRow(tracks[s], tracks'[s], pos)
      BY <3>1 DEF OneRow, Reasons
    <3>3. \A s \in Strategies : ~Skipped(tracks[s], tracks'[s], pos, "MINPICK")
      BY <1>1, <1>2, <3>1, OneKind DEF Reasons
    <3>4. \A s \in Strategies :
            /\ Len(tracks'[s].log) = Len(tracks[s].log) + 1
            /\ NoPicks(tracks'[s]) = NoPicks(tracks[s])
            /\ tracks'[s].bets = tracks[s].bets
      <4> SUFFICES ASSUME NEW s \in Strategies
                   PROVE  /\ Len(tracks'[s].log) = Len(tracks[s].log) + 1
                          /\ NoPicks(tracks'[s]) = NoPicks(tracks[s])
                          /\ tracks'[s].bets = tracks[s].bets
        OBVIOUS
      <4>1. tracks'[s].bets = tracks[s].bets
        BY <3>1 DEF Skipped
      <4> HIDE DEF Skipped
      <4>2. Sound(tracks[s]) /\ OneRow(tracks[s], tracks'[s], pos)
            /\ ~Skipped(tracks[s], tracks'[s], pos, "MINPICK")
        BY <1>2, <3>2, <3>3
      <4>3. /\ Len(tracks'[s].log) = Len(tracks[s].log) + 1
            /\ NoPicks(tracks'[s]) = NoPicks(tracks[s]) \cup {}
        BY <1>1, <4>2, NoPicksGrow
      <4> QED BY <4>1, <4>3
    <3> QED BY <1>1, <3>2, <3>4 DEF Mirrored, LogInv, Strategies
  <2>2. CASE \E wins \in WinCounts, form \in FormOutcomes(tracks["simForm"], pos) :
               tracks' = [tracks EXCEPT !["sim"] = TrySimBet(@, pos, wins),
                                        !["favorite"] = TryFavoriteBet(@, pos, wins),
                                        !["simForm"] = form]
    <3>1. PICK wins \in WinCounts, form \in FormOutcomes(tracks["simForm"], pos) :
            tracks' = [tracks EXCEPT !["sim"] = TrySimBet(@, pos, wins),
                                     !["favorite"] = TryFavoriteBet(@, pos, wins),
                                     !["simForm"] = form]
      BY <2>2
    <3>2. /\ tracks'["sim"] = TrySimBet(tracks["sim"], pos, wins)
          /\ tracks'["favorite"] = TryFavoriteBet(tracks["favorite"], pos, wins)
          /\ tracks'["simForm"] = form
      BY <1>1, <3>1 DEF TypeOK, Strategies
    <3>3. \A w : SimSide(w) \in Sides /\ FavoriteSide(pos) \in Sides
      BY DEF SimSide, FavoriteSide, Sides
    <3>4. \A s \in Strategies : \A w :
            Picky(tracks[s], TrySimBet(tracks[s], pos, w), pos, w)
      BY <1>1, <1>2, <3>3, TryIsPicky DEF TrySimBet
    <3>5. Picky(tracks["favorite"], tracks'["favorite"], pos, wins)
      BY <1>1, <1>2, <3>2, <3>3, TryIsPicky DEF TryFavoriteBet, Strategies
    <3>6. Picky(tracks["sim"], tracks'["sim"], pos, wins)
      BY <3>2, <3>4 DEF Strategies
    <3>7. OneRow(tracks["simForm"], tracks'["simForm"], pos)
      <4>1. CASE form = Skip(tracks["simForm"], pos, "none")
        BY <1>2, <3>2, <4>1, SkipSkips DEF OneRow, Reasons, Strategies
      <4>2. CASE \E w \in WinCounts : form = TrySimBet(tracks["simForm"], pos, w)
        BY <3>2, <3>4, <4>2 DEF Picky, Strategies
      <4> QED BY <4>1, <4>2 DEF FormOutcomes
    <3>8. Mirrored(tracks'["sim"], tracks'["favorite"])
      BY <1>1, <1>2, <3>5, <3>6, SinglesMirror DEF LogInv, Strategies
    <3> QED BY <3>5, <3>6, <3>7, <3>8 DEF Picky, Strategies
  <2> QED BY <2>1, <2>2 DEF WalkMatch
<1>4. ASSUME NEW s \in Strategies
      PROVE  Told(tracks[s].log, Walked(s))'
  <2>1. Walked(s) = pos - 1 /\ Walked(s)' = pos
    BY <1>1 DEF Walked, Index
  <2>2. OnePerMatch(tracks[s].log, pos - 1)
    BY <1>1, <2>1 DEF LogInv, Told
  <2> DEFINE n == pos - 1
  <2>3. n \in Nat /\ n + 1 = pos
    BY <1>1 DEF Index
  <2> HIDE DEF n
  <2>4. OnePerMatch(tracks'[s].log, n + 1)
    BY <1>1, <1>2, <1>3, <2>2, <2>3, OneRowPerMatch DEF n
  <2> QED BY <1>1, <2>1, <2>3, <2>4 DEF Told
<1>5. cfg.managed => \A s \in Strategies : AccountInv(tracks'[s])
  BY <1>1, <1>2, <1>3, OneRowAccount DEF LogInv
<1>6. Mirrored(tracks["sim"], tracks["favorite"])'
  BY <1>1, <1>3 DEF Mirrored, NoPicks
<1> QED BY <1>1, <1>4, <1>5, <1>6, AccountPrimed DEF LogInv

-----------------------------------------------------------------------------
(* Parlays.  The rows of a window are of matches behind those before.       *)

\* Rows of later matches follow in order.
LEMMA InOrderGrows ==
  ASSUME NEW log, NEW rows, NEW new, Grown(log, rows, new), NEW m \in Nat, NEW n \in Nat, m <= n,
         InOrder(log, m), InOrder(rows, n), \A i \in WalkRows(rows) : m < rows[i].match
  PROVE  InOrder(new, n)
<1>1. Len(log) \in Nat /\ Len(rows) \in Nat
  BY GrownParts
<1>10. \A r \in Rows : r.match \in Int
  BY DEF Rows, Index
<1>2. \A i \in 1 .. Len(log) : log[i].match \in Int
  <2>1. \A i \in 1 .. Len(log) : log[i] \in Rows
    BY DEF Grown
  <2> QED BY <1>10, <2>1
<1>3. \A i \in 1 .. Len(rows) : rows[i].match \in Int
  <2>1. \A i \in 1 .. Len(rows) : rows[i] \in Rows
    BY DEF Grown
  <2> QED BY <1>10, <2>1
<1>4. ASSUME NEW i \in WalkRows(new)
      PROVE  IF i <= Len(log) THEN i \in WalkRows(log) /\ new[i] = log[i]
             ELSE i - Len(log) \in WalkRows(rows) /\ new[i] = rows[i - Len(log)]
  BY GrownParts DEF WalkRows
<1>5. \A i \in WalkRows(new) : i \in Int
  BY DEF WalkRows
<1>6. \A i \in WalkRows(log) : log[i].match \in Int /\ log[i].match <= m
  BY <1>2 DEF InOrder, WalkRows
<1>7. \A i \in WalkRows(rows) : rows[i].match \in Int /\ m < rows[i].match /\ rows[i].match <= n
  BY <1>3 DEF InOrder, WalkRows
<1>8. \A i \in WalkRows(new) : new[i].match <= n
  BY <1>4, <1>6, <1>7
<1>9. ASSUME NEW i \in WalkRows(new), NEW j \in WalkRows(new), i < j
      PROVE  new[i].match < new[j].match
  <2>1. CASE j <= Len(log)
    <3>1. i \in WalkRows(log) /\ j \in WalkRows(log) /\ new[i] = log[i] /\ new[j] = log[j]
      BY <1>1, <1>4, <1>5, <1>9, <2>1
    <3> QED BY <1>9, <3>1 DEF InOrder
  <2>2. CASE i <= Len(log) /\ j > Len(log)
    <3>1. i \in WalkRows(log) /\ new[i] = log[i]
      BY <1>4, <2>2
    <3>2. j - Len(log) \in WalkRows(rows) /\ new[j] = rows[j - Len(log)]
      BY <1>1, <1>4, <1>5, <2>2
    <3> QED BY <1>6, <1>7, <3>1, <3>2
  <2>3. CASE i > Len(log)
    <3>1. i - Len(log) \in WalkRows(rows) /\ new[i] = rows[i - Len(log)]
      BY <1>1, <1>4, <1>5, <2>3
    <3>2. j - Len(log) \in WalkRows(rows) /\ new[j] = rows[j - Len(log)]
      BY <1>1, <1>4, <1>5, <1>9, <2>3
    <3>3. i - Len(log) < j - Len(log)
      BY <1>1, <1>5, <1>9
    <3> QED BY <3>1, <3>2, <3>3 DEF InOrder
  <2> QED BY <1>1, <1>5, <2>1, <2>2, <2>3
<1> QED BY <1>8, <1>9 DEF InOrder

\* A skipped match, which the walk passes, alone or with those behind it.
LEMMA SkippedInOrder ==
  ASSUME NEW t, Sound(t), NEW u, NEW i \in Index, NEW reason \in Reasons, Skipped(t, u, i, reason),
         InOrder(t.log, i - 1), NEW n \in Nat, i <= n
  PROVE  InOrder(u.log, n)
<1> DEFINE r == Row(i, reason)
           rows == <<r>>
           m == i - 1
<1>1. r \in Rows /\ r.match = i
  BY DEF Row, Rows
<1>2. rows[1] = r /\ Len(rows) = 1
  OBVIOUS
<1>3. Grown(t.log, rows, u.log)
  <2> HIDE DEF r
  <2>1. t.log \in Seq(Rows)
    BY DEF Sound, Tracks
  <2> QED BY <1>1, <2>1, AppendGrows DEF Skipped, r
<1>4. m \in Nat /\ m < i /\ m <= n /\ i \in Nat
  BY DEF Index
<1> HIDE DEF r, rows, m
<1>5. \A j \in WalkRows(rows) : j = 1 /\ rows[j].match = i
  BY <1>1, <1>2 DEF WalkRows
<1>6. InOrder(rows, n) /\ \A j \in WalkRows(rows) : m < rows[j].match
  BY <1>4, <1>5 DEF InOrder
<1> QED BY <1>3, <1>4, <1>6, InOrderGrows DEF m

\* The rows of a parlay: its legs in order, and one row with a balance.
LEMMA ParlayRowsRead ==
  ASSUME TypeOK, pos + k - 1 <= MaxMatches, pos <= MaxMatches, NEW t, Sound(t),
         NEW stake \in Nat
  PROVE  LET rows == ParlayRows(t, stake)
             n == Len(rows)
         IN  /\ rows \in Seq(Rows)
             /\ n \in Nat \ {0}
             /\ rows[n] = BalanceRow(t, pos, "end", window.won, window.odds, stake)
             /\ BetRows(rows) = {n}
             /\ \A i \in WalkRows(rows) : i \in 2 .. k + 1 /\ rows[i].match = pos + i - 2
<1> DEFINE rows == ParlayRows(t, stake)
           end == BalanceRow(t, pos, "end", window.won, window.odds, stake)
           start == Row(pos, "start")
           legs == [j \in 1 .. k |-> Row(pos + j - 1, "leg")]
<1>1. rows \in Seq(Rows)
  BY ParlayRowsType
<1>2. pos \in Nat /\ k \in Nat /\ MaxMatches \in Nat /\ pos \in Index
  BY BacktestAssumption DEF TypeOK, Index
<1>3. start \in Rows /\ start.kind = "start"
  BY <1>2 DEF Row, Rows
<1>4. end \in Rows /\ end.kind = "end"
  <2>1. window.won \in BOOLEAN /\ window.odds \in Nat \ {0}
    BY DEF TypeOK, Windows
  <2> QED BY <1>2, <2>1, BalanceRowType DEF BalanceRow
<1>5. \A j \in 1 .. k : Row(pos + j - 1, "leg") \in Rows
  <2>1. \A j \in 1 .. k : pos + j - 1 \in Index
    BY <1>2 DEF Index
  <2> QED BY <2>1 DEF Row, Rows
<1>6. legs \in Seq(Rows) /\ Len(legs) = k
  BY <1>2, <1>5
<1>7. \A j \in 1 .. k : legs[j].kind = "leg" /\ legs[j].match = pos + j - 1
  BY DEF Row
<1>8. rows = <<start>> \o legs \o <<end>>
  BY DEF ParlayRows
<1> HIDE DEF start, legs, end, rows
<1> DEFINE head == <<start>> \o legs
<1>9. head \in Seq(Rows) /\ Len(head) = k + 1 /\ head[1] = start
      /\ \A j \in 1 .. k : head[1 + j] = legs[j]
  <2> DEFINE one == <<start>>
  <2>1. one \in Seq(Rows) /\ Len(one) = 1 /\ one[1] = start
    BY <1>3
  <2> HIDE DEF one
  <2>2. Grown(one, legs, one \o legs)
    BY <1>6, <2>1, ConcatGrows
  <2>3. 1 \in 1 .. Len(one)
    BY <2>1
  <2> QED BY <1>2, <1>6, <2>1, <2>2, <2>3 DEF Grown, one
<1>10. Len(rows) = k + 2 /\ rows[k + 2] = end /\ rows[1] = start
      /\ \A j \in 1 .. k : rows[1 + j] = legs[j]
  <2> DEFINE one == <<end>>
  <2>1. one \in Seq(Rows) /\ Len(one) = 1 /\ one[1] = end
    BY <1>4
  <2> HIDE DEF one, head
  <2>2. Grown(head, one, rows)
    <3>1. rows = head \o one
      BY <1>8 DEF head, one
    <3> QED BY <1>9, <2>1, <3>1, ConcatGrows
  <2>3. 1 \in 1 .. Len(one) /\ 1 \in 1 .. Len(head) /\ \A j \in 1 .. k : 1 + j \in 1 .. Len(head)
    BY <1>2, <1>9, <2>1
  <2>4. Len(rows) = k + 1 + 1 /\ rows[k + 1 + 1] = end
    BY <1>9, <2>1, <2>2, <2>3 DEF Grown
  <2>5. k + 1 + 1 = k + 2
    BY <1>2
  <2>6. rows[1] = start /\ \A j \in 1 .. k : rows[1 + j] = legs[j]
    BY <1>9, <2>2, <2>3 DEF Grown
  <2> QED BY <2>4, <2>5, <2>6
<1>11. \A i \in 1 .. k + 2 : i = 1 \/ i = k + 2 \/ (i - 1 \in 1 .. k /\ rows[i] = legs[i - 1] /\ i \in 2 .. k + 1)
  <2> SUFFICES ASSUME NEW i \in 1 .. k + 2, i # 1, i # k + 2
               PROVE  i - 1 \in 1 .. k /\ rows[i] = legs[i - 1] /\ i \in 2 .. k + 1
    OBVIOUS
  <2>1. i - 1 \in 1 .. k /\ 1 + (i - 1) = i /\ i \in 2 .. k + 1
    BY <1>2
  <2>2. rows[1 + (i - 1)] = legs[i - 1]
    BY <1>10, <2>1
  <2> QED BY <2>1, <2>2
<1>12. BetRows(rows) = {k + 2}
  <2>1. k + 2 \in 1 .. k + 2
    BY <1>2
  <2>2. \A i \in 1 .. k + 2 : rows[i].kind \in {"bet", "end"} <=> i = k + 2
    BY <1>2, <1>3, <1>4, <1>7, <1>10, <1>11
  <2> QED BY <1>10, <2>1, <2>2 DEF BetRows
<1>13. \A i \in WalkRows(rows) : i \in 2 .. k + 1 /\ rows[i].match = pos + i - 2
  <2> SUFFICES ASSUME NEW i \in WalkRows(rows)
               PROVE  i \in 2 .. k + 1 /\ rows[i].match = pos + i - 2
    OBVIOUS
  <2>1. i \in 1 .. k + 2 /\ i # 1 /\ i # k + 2
    BY <1>3, <1>4, <1>10 DEF WalkRows
  <2>2. i - 1 \in 1 .. k /\ rows[i] = legs[i - 1] /\ i \in 2 .. k + 1
    BY <1>11, <2>1
  <2>3. rows[i].match = pos + (i - 1) - 1
    BY <1>7, <2>2
  <2> QED BY <1>2, <2>2, <2>3
<1> QED BY <1>1, <1>2, <1>10, <1>12, <1>13 DEF rows, end

\* A window that is placed: a row with a balance and its legs in order, or a
\* refused stake.
LEMMA ParlayLog ==
  ASSUME TypeOK, pos + k - 1 <= MaxMatches, pos <= MaxMatches, k > 0, NEW t, Sound(t),
         InOrder(t.log, pos - 1), cfg.managed => AccountInv(t)
  PROVE  /\ InOrder(Parlay(t).log, pos + k - 1)
         /\ cfg.managed => AccountInv(Parlay(t))
<1> DEFINE stake == Stake(t, window.odds)
           rows == ParlayRows(t, stake)
           u == Parlay(t)
           n == Len(rows)
<1>1. /\ pos \in Index /\ pos \in Nat \ {0} /\ k \in Nat \ {0} /\ MaxMatches \in Nat
      /\ window.won \in BOOLEAN /\ window.odds \in Nat \ {0}
  BY BacktestAssumption DEF TypeOK, Index, Windows
<1>2. stake \in Nat
  BY <1>1, StakeNat
<1>3. t.log \in Seq(Rows) /\ t.final \in Int
  BY DEF Sound, Tracks
<1>4. CASE stake = 0
  <2>1. u = Skip(t, pos, "ALLOC")
    BY <1>4 DEF Parlay
  <2> HIDE DEF u
  <2>2. Skipped(t, u, pos, "ALLOC") /\ "ALLOC" \in Reasons
    BY <2>1, SkipSkips DEF Reasons
  <2> DEFINE last == pos + k - 1
  <2>3. last \in Nat /\ pos <= last
    BY <1>1
  <2> HIDE DEF last, Skipped
  <2>4. InOrder(u.log, last)
    BY <1>1, <2>2, <2>3, SkippedInOrder
  <2>5. cfg.managed => AccountInv(u)
    BY <1>1, <2>2, OneRowAccount DEF OneRow
  <2> QED BY <2>4, <2>5 DEF last, u
<1>5. CASE stake # 0
  <2>1. u = Bet(t, rows, k, eligible[pos].surface, window.won, window.odds, stake)
    BY <1>5 DEF Parlay
  <2> HIDE DEF u, rows, stake
  <2>2. /\ u.log = t.log \o rows
        /\ u.final = t.final + Pnl(window.won, window.odds, stake)
        /\ u.bets = t.bets + 1
    BY <2>1, BetPays
  <2>3. /\ rows \in Seq(Rows) /\ n \in Nat \ {0}
        /\ rows[n] = BalanceRow(t, pos, "end", window.won, window.odds, stake)
        /\ BetRows(rows) = {n}
        /\ \A i \in WalkRows(rows) : i \in 2 .. k + 1 /\ rows[i].match = pos + i - 2
    BY <1>2, ParlayRowsRead DEF rows
  <2>4. Grown(t.log, rows, u.log)
    BY <1>3, <2>2, <2>3, ConcatGrows
  <2> HIDE DEF n
  <2>5. InOrder(u.log, pos + k - 1)
    <3> DEFINE first == pos - 1
               last == pos + k - 1
    <3>1. first \in Nat /\ last \in Nat /\ first <= last
      BY <1>1
    <3>2. \A i \in WalkRows(rows) : first < rows[i].match /\ rows[i].match <= last
      BY <1>1, <2>3
    <3>3. \A i, j \in WalkRows(rows) : i < j => rows[i].match < rows[j].match
      BY <1>1, <2>3
    <3> HIDE DEF first, last
    <3>4. InOrder(rows, last)
      BY <3>2, <3>3 DEF InOrder
    <3>5. InOrder(t.log, first)
      BY DEF first
    <3>6. InOrder(u.log, last)
      BY <2>4, <3>1, <3>2, <3>4, <3>5, InOrderGrows
    <3> QED BY <3>6 DEF last
  <2>6. ASSUME cfg.managed
        PROVE  AccountInv(u)
    <3>1. /\ Bankroll(t) = Initial + t.final
          /\ Initial + t.final + Pnl(window.won, window.odds, stake) >= 0
      BY <1>1, <2>6, StakeCovered DEF AccountInv, stake
    <3>2. Pnl(window.won, window.odds, stake) \in Int /\ Initial \in Nat
      BY <1>1, <1>2, PnlBounded, BacktestAssumption
    <3>3. rows[n].before = Initial + t.final /\ rows[n].after = Initial + u.final
          /\ Initial + u.final >= 0
      BY <1>3, <2>2, <2>3, <3>1, <3>2 DEF BalanceRow
    <3>4. BetRows(rows) = {Len(rows)} /\ Len(rows) > 0
      BY <2>3 DEF n
    <3> QED BY <2>2, <2>4, <2>6, <3>3, <3>4, AccountPaid DEF n
  <2> QED BY <2>5, <2>6 DEF u
<1> QED BY <1>4, <1>5

\* A window adds its rows to the log of its track.
LEMMA PlaceParlayLog ==
  ASSUME BacktestInv, LogInv, PlaceParlay
  PROVE  LogInv'
<1> DEFINE t == tracks[strategy]
           u == Parlay(t)
<1>1. /\ strategy \in Strategies /\ pos <= MaxMatches /\ pos' = pos + k
      /\ tracks' = [tracks EXCEPT ![strategy] = u]
      /\ UNCHANGED <<cfg, eligible, strategy, cache>>
  BY DEF PlaceParlay, Trying, Advance
<1>2. /\ TypeOK /\ cfg.mode = "parlay" /\ MaxMatches \in Nat /\ k \in Nat /\ k > 0
      /\ pos \in 1 .. MaxMatches + 1 /\ pos + k - 1 <= MaxMatches
  BY <1>1, BacktestAssumption DEF PlaceParlay, Trying, BacktestInv, TypeOK, Shape
<1>3. Sound(t)
  BY <1>1 DEF BacktestInv, TypeOK, Ledger, Sound
<1>4. \A s \in Strategies : InOrder(tracks[s].log, Walked(s))
  BY <1>1, <1>2 DEF LogInv, Told, Strategies
<1>5. \A s \in Strategies : s = strategy => Walked(s) = pos - 1 /\ Walked(s)' = pos + k - 1
  <2>1. \A s \in Strategies : s = strategy => Walked(s) = pos - 1 /\ Walked(s)' = pos' - 1
    BY <1>1, WalkedBy
  <2> QED BY <1>1, <1>2, <2>1
<1>6. \A s \in Strategies \ {strategy} : Walked(s)' = Walked(s)
  BY <1>1, WalkedBy
<1>7. InOrder(t.log, pos - 1) /\ (cfg.managed => AccountInv(t))
  BY <1>1, <1>4, <1>5 DEF LogInv
<1>8. InOrder(u.log, pos + k - 1) /\ (cfg.managed => AccountInv(u))
  BY <1>1, <1>2, <1>3, <1>7, ParlayLog
<1> HIDE DEF u
<1>9. \A s \in Strategies : tracks'[s] = IF s = strategy THEN u ELSE tracks[s]
  BY <1>1, <1>2 DEF TypeOK
<1>10. \A s \in Strategies : InOrder(tracks'[s].log, Walked(s)')
  <2> SUFFICES ASSUME NEW s \in Strategies
               PROVE  InOrder(tracks'[s].log, Walked(s)')
    OBVIOUS
  <2>1. CASE s = strategy
    BY <1>5, <1>8, <1>9, <2>1
  <2>2. CASE s # strategy
    <3>1. tracks'[s] = tracks[s] /\ Walked(s)' = Walked(s)
      BY <1>6, <1>9, <2>2
    <3> QED BY <1>4, <3>1
  <2> QED BY <2>1, <2>2
<1>11. cfg.managed => \A s \in Strategies : AccountInv(tracks'[s])
  BY <1>8, <1>9 DEF LogInv
<1> QED BY <1>1, <1>2, <1>10, <1>11, AccountPrimed DEF LogInv, Told

\* So does an anchor without a window.
LEMMA SkipAnchorLog ==
  ASSUME BacktestInv, LogInv, SkipAnchor
  PROVE  LogInv'
<1> DEFINE t == tracks[strategy]
<1>1. /\ strategy \in Strategies /\ pos <= MaxMatches /\ pos' = pos + 1
      /\ UNCHANGED <<cfg, eligible, strategy>>
  BY DEF SkipAnchor, Advance
<1>2. /\ TypeOK /\ cfg.mode = "parlay" /\ MaxMatches \in Nat /\ pos \in Index /\ pos \in Nat
  BY <1>1, BacktestAssumption DEF BacktestInv, TypeOK, Shape, Index
<1>3. Sound(t)
  BY <1>1 DEF BacktestInv, TypeOK, Ledger, Sound
<1>4. PICK reason \in Reasons : tracks' = [tracks EXCEPT ![strategy] = Skip(t, pos, reason)]
  BY DEF SkipAnchor, Reasons
<1> DEFINE u == Skip(t, pos, reason)
<1>5. Skipped(t, u, pos, reason)
  BY <1>3, SkipSkips
<1>6. \A s \in Strategies : InOrder(tracks[s].log, Walked(s))
  BY <1>1, <1>2 DEF LogInv, Told, Strategies
<1>7. \A s \in Strategies : s = strategy => Walked(s) = pos - 1 /\ Walked(s)' = pos
  <2>1. \A s \in Strategies : s = strategy => Walked(s) = pos - 1 /\ Walked(s)' = pos' - 1
    BY <1>1, WalkedBy
  <2> QED BY <1>1, <1>2, <2>1
<1> HIDE DEF u
<1>8. InOrder(u.log, pos)
  <2>1. InOrder(t.log, pos - 1)
    BY <1>1, <1>6, <1>7
  <2> QED BY <1>2, <1>3, <1>5, <2>1, SkippedInOrder
<1>9. cfg.managed => AccountInv(u)
  <2> HIDE DEF Skipped
  <2>1. OneRow(t, u, pos)
    BY <1>5 DEF OneRow
  <2> QED BY <1>1, <1>2, <1>3, <2>1, OneRowAccount DEF LogInv
<1>10. \A s \in Strategies : tracks'[s] = IF s = strategy THEN u ELSE tracks[s]
  BY <1>1, <1>2, <1>4 DEF TypeOK, u
<1>11. \A s \in Strategies \ {strategy} : Walked(s)' = Walked(s)
  BY <1>1, WalkedBy
<1>12. \A s \in Strategies : InOrder(tracks'[s].log, Walked(s)')
  <2> SUFFICES ASSUME NEW s \in Strategies
               PROVE  InOrder(tracks'[s].log, Walked(s)')
    OBVIOUS
  <2>1. CASE s = strategy
    BY <1>7, <1>8, <1>10, <2>1
  <2>2. CASE s # strategy
    <3>1. tracks'[s] = tracks[s] /\ Walked(s)' = Walked(s)
      BY <1>10, <1>11, <2>2
    <3> QED BY <1>6, <3>1
  <2> QED BY <2>1, <2>2
<1>13. cfg.managed => \A s \in Strategies : AccountInv(tracks'[s])
  BY <1>9, <1>10 DEF LogInv
<1> QED BY <1>1, <1>2, <1>12, <1>13, AccountPrimed DEF LogInv, Told

\* The steps between two bets leave the logs as they are.
LEMMA LegLog ==
  ASSUME LogInv, AddLeg \/ NoRates \/ NoValue \/ Abort \/ UNCHANGED vars
  PROVE  LogInv'
<1>1. /\ UNCHANGED <<cfg, eligible, pos, tracks>>
      /\ strategy' = strategy \/ strategy' = "failed"
  BY DEF AddLeg, NoRates, NoValue, Abort, TryShorter, vars
<1>2. strategy' # "failed" => strategy # "failed" /\ \A s \in Strategies : Walked(s)' = Walked(s)
  BY <1>1 DEF Walked
<1> QED BY <1>1, <1>2, AccountPrimed DEF LogInv, Told, Mirrored, NoPicks

LEMMA NextTrackLog ==
  ASSUME BacktestInv, LogInv, NextTrack
  PROVE  LogInv'
<1>1. UNCHANGED <<cfg, eligible, tracks>> /\ strategy # "failed"
  BY DEF NextTrack
<1>2. \A s \in Strategies : Walked(s)' = Walked(s)
  BY NextTrackWalked
<1> QED BY <1>1, <1>2, AccountPrimed DEF LogInv, Told, Mirrored, NoPicks

\* The log of every track tells the walk, in every configuration: its rows
\* name the matches in order, in singles each of them; with a money manager
\* each bet starts from what the one before left, and nothing is overdrawn;
\* and the favourite passes over the matches the simulation passes over.
THEOREM LogsTellTheWalk == Spec => []LogTellsTheWalk
<1>1. ASSUME BacktestInv, LogInv, [Next]_vars
      PROVE  LogInv'
  BY <1>1, WalkMatchLog, PlaceParlayLog, SkipAnchorLog, LegLog, NextTrackLog DEF Next, Walk, Ended
<1>2. ASSUME BacktestInv, LogInv
      PROVE  LogTellsTheWalk
  <2>1. RowsFollowWalk
    <3> SUFFICES ASSUME strategy # "failed", NEW s \in Strategies
                 PROVE  LET log == tracks[s].log IN
                        /\ \A i, j \in WalkRows(log) : i < j => log[i].match < log[j].match
                        /\ cfg.mode = "singles" =>
                             /\ Len(log) = Walked(s)
                             /\ WalkRows(log) = 1 .. Len(log)
                             /\ \A i \in 1 .. Len(log) : log[i].match = i
      BY DEF RowsFollowWalk
    <3> DEFINE log == tracks[s].log
    <3>1. Told(log, Walked(s))
      BY <1>2 DEF LogInv
    <3> HIDE DEF log
    <3>2. CASE cfg.mode = "singles"
      BY <3>1, <3>2 DEF Told, OnePerMatch, WalkRows, log
    <3>3. CASE cfg.mode # "singles"
      BY <3>1, <3>3 DEF Told, InOrder, log
    <3> QED BY <3>2, <3>3
  <2>2. LogIsAnAccount
    BY <1>2 DEF LogInv, LogIsAnAccount, AccountInv
  <2>3. FavoriteMirrorsSim
    BY <1>2 DEF LogInv, FavoriteMirrorsSim, Mirrored, NoPicks
  <2> QED BY <2>1, <2>2, <2>3 DEF LogTellsTheWalk
<1>3. Init => LogInv
  BY InitLog
<1> QED
  BY <1>1, <1>2, <1>3, BacktestInvariant, PTL DEF Spec

-----------------------------------------------------------------------------
(* Products, and the windows of the parlays.                                *)

Less == {pair \in Nat \X Nat : pair[1] < pair[2]}

LEMMA LessIsWellFounded == IsWellFoundedOn(Less, Nat)
  BY NatLessThanWellFounded DEF OpToRel, Less

\* Induction over a set of naturals.
LEMMA AllNaturals ==
  ASSUME NEW S, 0 \in S, \A n \in S \cap Nat : n + 1 \in S
  PROVE  Nat \subseteq S
<1> SUFFICES ASSUME Nat \ S # {} PROVE FALSE
  OBVIOUS
<1>1. PICK n \in Nat \ S : \A m \in Nat \ S : <<m, n>> \notin Less
  <2>1. Nat \ S \in SUBSET Nat
    OBVIOUS
  <2> QED BY <2>1, LessIsWellFounded, WFMin, Zenon
<1>2. n # 0 /\ n - 1 \in Nat /\ (n - 1) + 1 = n
  BY <1>1
<1>3. n - 1 \notin S
  BY <1>1, <1>2
<1>4. <<n - 1, n>> \in Nat \X Nat /\ <<n - 1, n>>[1] = n - 1 /\ <<n - 1, n>>[2] = n
  BY <1>1, <1>2
<1>5. <<n - 1, n>> \in Less
  BY <1>2, <1>4 DEF Less
<1> QED BY <1>1, <1>2, <1>3, <1>5

\* A turn of the loop that multiplies, and the loop as far as n.
Turn(f, i, j, v) == IF j = 0 THEN 1 ELSE v * f[i + j - 1]
Turns(g, f, i, n) == g = [j \in 0 .. n |-> Turn(f, i, j, g[j - 1])]

LEMMA TurnsAgree ==
  ASSUME NEW f, NEW i, NEW n \in Nat, NEW m \in Nat, NEW g, NEW h,
         Turns(g, f, i, n), Turns(h, f, i, m)
  PROVE  \A j \in 0 .. n : j <= m => g[j] = h[j]
<1> DEFINE S == {j \in Nat : j <= n /\ j <= m => g[j] = h[j]}
<1>1. /\ \A j \in 0 .. n : g[j] = Turn(f, i, j, g[j - 1])
      /\ \A j \in 0 .. m : h[j] = Turn(f, i, j, h[j - 1])
  BY Zenon DEF Turns
<1>2. 0 \in S
  <2>1. 0 \in 0 .. n /\ 0 \in 0 .. m
    OBVIOUS
  <2>2. \A v : Turn(f, i, 0, v) = 1
    BY DEF Turn
  <2>3. g[0] = h[0]
    BY <1>1, <2>1, <2>2
  <2> QED BY <2>3
<1>3. ASSUME NEW j \in S \cap Nat PROVE j + 1 \in S
  <2> SUFFICES ASSUME j + 1 <= n, j + 1 <= m PROVE g[j + 1] = h[j + 1]
    OBVIOUS
  <2>1. j + 1 \in 0 .. n /\ j + 1 \in 0 .. m /\ (j + 1) - 1 = j
    OBVIOUS
  <2>2. g[j] = h[j]
    OBVIOUS
  <2> QED BY <1>1, <2>1, <2>2
<1>4. Nat \subseteq S
  <2> HIDE DEF S
  <2> QED BY <1>2, <1>3, AllNaturals
<1> QED BY <1>4

LEMMA TurnsExist ==
  ASSUME NEW f, NEW i, NEW n \in Nat
  PROVE  \E g : Turns(g, f, i, n)
<1> DEFINE S == {m \in Nat : \E g : Turns(g, f, i, m)}
<1>1. 0 \in S
  <2> DEFINE g == [j \in 0 .. 0 |-> Turn(f, i, j, 1)]
  <2>1. \A j \in 0 .. 0 : Turn(f, i, j, 1) = Turn(f, i, j, g[j - 1])
    BY DEF Turn
  <2>2. g = [j \in 0 .. 0 |-> Turn(f, i, j, g[j - 1])]
    BY <2>1
  <2> HIDE DEF g
  <2>3. Turns(g, f, i, 0)
    BY <2>2 DEF Turns
  <2> QED BY <2>3
<1>2. ASSUME NEW m \in S \cap Nat PROVE m + 1 \in S
  <2>1. PICK g : Turns(g, f, i, m)
    OBVIOUS
  <2> DEFINE h == [j \in 0 .. m + 1 |-> Turn(f, i, j, IF j = 0 THEN 1 ELSE g[j - 1])]
  <2>2. ASSUME NEW j \in 0 .. m PROVE h[j] = g[j]
    <3>1. g[j] = Turn(f, i, j, g[j - 1])
      BY <2>1, Zenon DEF Turns
    <3>2. h[j] = Turn(f, i, j, IF j = 0 THEN 1 ELSE g[j - 1])
      BY j \in 0 .. m + 1
    <3> QED BY <3>1, <3>2 DEF Turn
  <2>3. ASSUME NEW j \in 0 .. m + 1 PROVE h[j] = Turn(f, i, j, h[j - 1])
    <3>1. h[j] = Turn(f, i, j, IF j = 0 THEN 1 ELSE g[j - 1])
      OBVIOUS
    <3>2. CASE j = 0
      BY <3>1, <3>2 DEF Turn
    <3>3. CASE j # 0
      <4>1. j - 1 \in 0 .. m
        BY <3>3
      <4>2. h[j - 1] = g[j - 1]
        BY <2>2, <4>1
      <4> QED BY <3>1, <3>3, <4>2
    <3> QED BY <3>2, <3>3
  <2>4. h = [j \in 0 .. m + 1 |-> Turn(f, i, j, h[j - 1])]
    <3>1. h \in [0 .. m + 1 -> {h[j] : j \in 0 .. m + 1}]
      OBVIOUS
    <3> HIDE DEF h
    <3> QED BY <2>3, <3>1
  <2> HIDE DEF h
  <2>5. Turns(h, f, i, m + 1)
    BY <2>4 DEF Turns
  <2> QED BY <2>5
<1>3. Nat \subseteq S
  <2> HIDE DEF S
  <2> QED BY <1>1, <1>2, AllNaturals
<1> QED BY <1>3

\* The recursion of Product.
LEMMA ProductTurns ==
  ASSUME NEW f, NEW i \in Int
  PROVE  /\ Product(f, i, 0) = 1
         /\ \A n \in Nat : Product(f, i, n + 1) = Product(f, i, n) * f[i + n]
<1> DEFINE G(n) == CHOOSE g : Turns(g, f, i, n)
           all == [n \in Nat |-> G(n)[n]]
<1>1. \A n \in Nat : Turns(G(n), f, i, n)
  BY TurnsExist, Zenon
<1>2. ASSUME NEW n \in Nat PROVE all[n] = Turn(f, i, n, all[n - 1])
  <2>1. all[n] = G(n)[n]
    OBVIOUS
  <2>2. G(n)[n] = Turn(f, i, n, G(n)[n - 1])
    <3>1. n \in 0 .. n
      OBVIOUS
    <3>2. Turns(G(n), f, i, n)
      BY <1>1
    <3> HIDE DEF G
    <3> QED BY <3>1, <3>2, Zenon DEF Turns
  <2>3. CASE n = 0
    BY <2>1, <2>2, <2>3 DEF Turn
  <2>4. CASE n # 0
    <3>1. n - 1 \in Nat /\ n - 1 <= n /\ n - 1 \in 0 .. n - 1
      BY <2>4
    <3>2. Turns(G(n), f, i, n) /\ Turns(G(n - 1), f, i, n - 1)
      BY <1>1, <3>1
    <3> HIDE DEF G
    <3>3. G(n - 1)[n - 1] = G(n)[n - 1]
      BY <3>1, <3>2, TurnsAgree
    <3>4. all[n - 1] = G(n - 1)[n - 1]
      BY <3>1
    <3> QED BY <2>1, <2>2, <3>3, <3>4
  <2> QED BY <2>3, <2>4
<1> DEFINE Rec(g) == g = [j \in Nat |-> IF j = 0 THEN 1 ELSE g[j - 1] * f[i + j - 1]]
           product == CHOOSE g : Rec(g)
<1>3. Rec(all)
  <2>1. all = [n \in Nat |-> all[n]]
    OBVIOUS
  <2> HIDE DEF all
  <2>2. \A n \in Nat : all[n] = IF n = 0 THEN 1 ELSE all[n - 1] * f[i + n - 1]
    BY <1>2 DEF Turn
  <2> QED BY <2>1, <2>2, Zenon
<1>4. Rec(product)
  <2> HIDE DEF Rec, all
  <2> QED BY <1>3, Zenon
<1>5. \A n \in Nat : Product(f, i, n) = product[n]
  BY DEF Product
<1> HIDE DEF product
<1>6. \A j \in Nat : product[j] = IF j = 0 THEN 1 ELSE product[j - 1] * f[i + j - 1]
  BY <1>4, Zenon
<1>7. product[0] = 1
  BY <1>6
<1>8. ASSUME NEW n \in Nat PROVE product[n + 1] = product[n] * f[i + n]
  <2>1. n + 1 \in Nat /\ n + 1 # 0 /\ (n + 1) - 1 = n
    OBVIOUS
  <2>2. product[n + 1] = product[(n + 1) - 1] * f[i + (n + 1) - 1]
    BY <1>6, <2>1, Zenon
  <2>3. i + (n + 1) - 1 = i + n
    OBVIOUS
  <2> QED BY <2>1, <2>2, <2>3
<1> QED BY <1>5, <1>7, <1>8

\* A product depends on its factors only.
LEMMA SameProduct ==
  ASSUME NEW f, NEW g, NEW i \in Int, NEW n \in Nat,
         \A j \in i .. i + n - 1 : f[j] = g[j]
  PROVE  Product(f, i, n) = Product(g, i, n)
<1> DEFINE S == {m \in Nat : m <= n => Product(f, i, m) = Product(g, i, m)}
<1>1. 0 \in S
  BY ProductTurns
<1>2. ASSUME NEW m \in S \cap Nat PROVE m + 1 \in S
  <2> SUFFICES ASSUME m + 1 <= n PROVE Product(f, i, m + 1) = Product(g, i, m + 1)
    OBVIOUS
  <2>1. i + m \in i .. i + n - 1 /\ m \in Nat /\ m <= n
    BY <1>2
  <2>2. f[i + m] = g[i + m] /\ Product(f, i, m) = Product(g, i, m)
    BY <1>2, <2>1
  <2>3. /\ Product(f, i, m + 1) = Product(f, i, m) * f[i + m]
        /\ Product(g, i, m + 1) = Product(g, i, m) * g[i + m]
    BY <2>1, ProductTurns
  <2> QED BY <2>2, <2>3
<1>3. Nat \subseteq S
  <2> HIDE DEF S
  <2> QED BY <1>1, <1>2, AllNaturals
<1> QED BY <1>3

\* A field of the matches looked at so far.
Field(field) == [i \in Index |-> cache[i][field]]
Scales == [i \in Index |-> Sims]

\* The window is the product of the legs at the anchor, and the windows that
\* were given up for a shorter one would not have done.
GivenUp(n) == (\A i \in Span(n) : Evaluable(i)) => AllLegs(n) /\ ~HasValue(n)

WindowInv ==
  /\ AllLegs(window.size)
  /\ window.prob = Product(Field("prob"), pos, window.size)
  /\ window.odds = Product(Field("odds"), pos, window.size)
  /\ window.scale = Product(Scales, pos, window.size)
  /\ k <= MostLegs(pos)
  /\ strategy # "simForm" => \A n \in k + 1 .. MostLegs(pos) : GivenUp(n)

Walking == strategy \in Strategies /\ pos <= MaxMatches

LEMMA ValueOfProducts ==
  ASSUME NEW n
  PROVE  HasValue(n) <=>
           EVAllowed(Product(Field("prob"), pos, n), Product(Scales, pos, n),
                     Product(Field("odds"), pos, n))
BY DEF HasValue, EVAllowed, Field, Scales

\* At a new anchor nothing has been combined and no window given up.
LEMMA FreshWindow ==
  ASSUME TypeOK', window' = EmptyWindow, k' = MostLegs(pos)'
  PROVE  WindowInv'
<1>1. pos' \in Int /\ EmptyWindow.size = 0 /\ EmptyWindow.prob = 1 /\ EmptyWindow.odds = 1
      /\ EmptyWindow.scale = 1
  BY BacktestAssumption DEF TypeOK, EmptyWindow
<1>2. \A f : Product(f, pos', 0) = 1
  BY <1>1, ProductTurns
<1>3. AllLegs(window.size)'
  <2>1. window'.size = 0
    BY <1>1
  <2> DEFINE p == pos'
  <2>2. p \in Int
    BY <1>1
  <2> HIDE DEF p
  <2>3. \A i \in p .. p + 0 - 1 : FALSE
    BY <2>2
  <2> QED BY <2>1, <2>3 DEF AllLegs, Span, p
<1>4. k' \in Int
  BY BacktestAssumption DEF TypeOK
<1>5. (k <= MostLegs(pos))' /\ (\A n \in k + 1 .. MostLegs(pos) : GivenUp(n))'
  BY <1>4
<1> QED BY <1>1, <1>2, <1>3, <1>5 DEF WindowInv

LEMMA AddLegWindow ==
  ASSUME BacktestInv, WindowInv, AddLeg
  PROVE  WindowInv'
<1>1. /\ strategy \in Strategies /\ pos <= MaxMatches /\ window.size < k
      /\ window' = Combine(cache'[NextLeg])
      /\ UNCHANGED <<cfg, eligible, strategy, pos, k>>
  BY DEF AddLeg, Trying
<1>2. /\ pos \in Nat \ {0} /\ MaxMatches \in Nat /\ k \in Nat /\ k <= MaxMatches + 1 - pos
      /\ window.size \in Nat /\ cache \in [Index -> Legs \cup {NoLeg}]
      /\ NextLeg = pos + window.size /\ NextLeg \in Index
  <2>1. /\ pos \in Nat \ {0} /\ MaxMatches \in Nat /\ k \in Nat /\ window.size \in Nat
        /\ k <= MaxMatches + 1 - pos /\ cache \in [Index -> Legs \cup {NoLeg}]
    BY <1>1, BacktestAssumption DEF BacktestInv, TypeOK, Shape, Windows
  <2> QED BY <1>1, <2>1 DEF NextLeg, Index
\* The cache keeps what it holds, and has the leg that was added.
<1>3. /\ \A i \in Index : cache[i] # NoLeg => cache'[i] = cache[i]
      /\ \A i \in Index \ {NextLeg} : cache'[i] = cache[i]
      /\ cache'[NextLeg] # NoLeg
      /\ cache[NextLeg] = NoLeg => TRUE \in RatesOutcomes(NextLeg, strategy)
  <2>1. CASE cache[NextLeg] # NoLeg /\ UNCHANGED cache
    BY <2>1
  <2>2. CASE /\ cache[NextLeg] = NoLeg
             /\ TRUE \in RatesOutcomes(NextLeg, strategy)
             /\ \E wins \in WinCounts :
                  cache' = [cache EXCEPT ![NextLeg] = Leg(NextLeg, wins)]
    <3>1. PICK wins \in WinCounts : cache' = [cache EXCEPT ![NextLeg] = Leg(NextLeg, wins)]
      BY <2>2
    <3>2. Leg(NextLeg, wins) \in Legs
      BY <1>2, LegType DEF BacktestInv
    <3>3. NoLeg \notin Legs
      BY DEF NoLeg, Legs
    <3> HIDE DEF Leg
    <3> QED BY <1>2, <2>2, <3>1, <3>2, <3>3
  <2> QED BY <2>1, <2>2 DEF AddLeg
<1> DEFINE n == window.size
           leg == cache'[NextLeg]
<1>4. /\ window'.size = n + 1 /\ window'.odds = window.odds * leg.odds
      /\ window'.prob = window.prob * leg.prob /\ window'.scale = window.scale * Sims
  BY <1>1 DEF Combine
<1>5. Span(n) \subseteq Index /\ Span(n + 1) = Span(n) \cup {NextLeg}
  <2>1. pos \in Nat \ {0} /\ n \in Nat /\ NextLeg = pos + n /\ pos + n <= MaxMatches
    BY <1>1, <1>2
  <2> HIDE DEF n
  <2>2. ASSUME NEW i \in Span(n + 1) PROVE i \in Span(n) \cup {NextLeg}
    BY <2>1 DEF Span
  <2>3. ASSUME NEW i \in Span(n) PROVE i \in Span(n + 1) /\ i \in Index
    BY <1>2, <2>1 DEF Span, Index
  <2>4. NextLeg \in Span(n + 1)
    BY <2>1 DEF Span
  <2> QED BY <2>2, <2>3, <2>4
<1>6. \A i \in Span(n) : cache[i] # NoLeg /\ cache'[i] = cache[i]
  BY <1>3, <1>5 DEF WindowInv, AllLegs
<1>7. AllLegs(window.size)'
  <2>1. \A i \in Span(n + 1) : cache'[i] # NoLeg
    BY <1>3, <1>5, <1>6
  <2> QED BY <1>1, <1>4, <2>1 DEF AllLegs, Span
<1>8. ASSUME NEW field \in {"prob", "odds"}
      PROVE  Product(Field(field)', pos, n + 1) = Product(Field(field), pos, n) * leg[field]
  <2>1. \A j \in pos .. pos + n - 1 : Field(field)'[j] = Field(field)[j]
    BY <1>5, <1>6 DEF Field, Span
  <2>2. Product(Field(field)', pos, n) = Product(Field(field), pos, n)
    BY <1>2, <2>1, SameProduct
  <2>3. Field(field)'[pos + n] = leg[field]
    BY <1>2 DEF Field
  <2> HIDE DEF leg
  <2>4. Product(Field(field)', pos, n + 1) = Product(Field(field)', pos, n) * Field(field)'[pos + n]
    <3>1. n \in Nat /\ pos \in Int
      BY <1>2
    <3> HIDE DEF n
    <3> QED BY <3>1, ProductTurns, Zenon
  <2> QED BY <2>2, <2>3, <2>4
<1>9. Product(Scales, pos, n + 1) = Product(Scales, pos, n) * Sims
  <2>1. Scales[pos + n] = Sims
    BY <1>2 DEF Scales
  <2>2. Product(Scales, pos, n + 1) = Product(Scales, pos, n) * Scales[pos + n]
    <3>1. n \in Nat /\ pos \in Int
      BY <1>2
    <3> HIDE DEF n
    <3> QED BY <3>1, ProductTurns, Zenon
  <2> QED BY <2>1, <2>2
<1>10. /\ window'.prob = Product(Field("prob")', pos', window'.size)
       /\ window'.odds = Product(Field("odds")', pos', window'.size)
       /\ window'.scale = Product(Scales, pos', window'.size)
  <2> HIDE DEF n, leg
  <2>1. /\ window.prob = Product(Field("prob"), pos, n)
        /\ window.odds = Product(Field("odds"), pos, n)
        /\ window.scale = Product(Scales, pos, n)
    BY DEF WindowInv, n
  <2> QED BY <1>1, <1>4, <1>8, <1>9, <2>1
\* A window that was given up has all its legs, or one that cannot be had.
<1>11. ASSUME strategy # "simForm", NEW m \in k + 1 .. MostLegs(pos)
       PROVE  GivenUp(m)'
  <2>1. GivenUp(m)
    BY <1>11 DEF WindowInv
  <2>2. m \in Nat /\ Span(m) \subseteq Index /\ Span(m)' = Span(m)
    <3>1. cfg \in Configs /\ pos \in 1 .. MaxMatches + 1
      BY DEF BacktestInv, TypeOK
    <3>2. MostLegs(pos) \in 0 .. MaxMatches /\ MostLegs(pos) <= MaxMatches + 1 - pos
      BY <3>1, MostLegsType
    <3> HIDE DEF MostLegs
    <3> QED BY <1>1, <1>2, <3>2 DEF Span, Index
  <2>3. ASSUME \A i \in Span(m) : Evaluable(i)'
        PROVE  \A i \in Span(m) : Evaluable(i)
    <3>1. ASSUME NEW i \in Span(m) PROVE Evaluable(i)
      <4>1. RatesOutcomes(i, strategy)' = RatesOutcomes(i, strategy)
        BY <1>1 DEF RatesOutcomes
      <4>2. CASE i # NextLeg \/ cache[NextLeg] # NoLeg
        BY <1>1, <1>2, <1>3, <2>2, <2>3, <4>1, <4>2 DEF Evaluable
      <4>3. CASE i = NextLeg /\ cache[NextLeg] = NoLeg
        BY <1>3, <1>11, <4>3 DEF Evaluable, RatesOutcomes
      <4> QED BY <4>2, <4>3
    <3> QED BY <3>1
  <2>4. ASSUME \A i \in Span(m) : Evaluable(i)'
        PROVE  AllLegs(m)' /\ ~HasValue(m)'
    <3>1. AllLegs(m) /\ ~HasValue(m)
      BY <2>1, <2>3, <2>4 DEF GivenUp
    <3>2. \A i \in Span(m) : cache'[i] = cache[i] /\ cache'[i] # NoLeg
      BY <1>3, <2>2, <3>1 DEF AllLegs
    <3>3. ASSUME NEW field
          PROVE  Product(Field(field)', pos, m) = Product(Field(field), pos, m)
      <4>1. \A j \in pos .. pos + m - 1 : Field(field)'[j] = Field(field)[j]
        BY <2>2, <3>2 DEF Field, Span
      <4> QED BY <1>2, <2>2, <4>1, SameProduct
    <3>4. /\ HasValue(m) <=> EVAllowed(Product(Field("prob"), pos, m), Product(Scales, pos, m),
                                       Product(Field("odds"), pos, m))
          /\ HasValue(m)' <=> EVAllowed(Product(Field("prob"), pos, m), Product(Scales, pos, m),
                                        Product(Field("odds"), pos, m))'
      BY DEF HasValue, EVAllowed, Field, Scales
    <3>5. HasValue(m)' <=> HasValue(m)
      BY <1>1, <3>3, <3>4 DEF EVAllowed
    <3> QED BY <2>2, <3>1, <3>2, <3>5 DEF AllLegs
  <2> QED BY <2>2, <2>4 DEF GivenUp
<1>12. k' <= MostLegs(pos)' /\ (strategy' # "simForm" => \A m \in k' + 1 .. MostLegs(pos)' : GivenUp(m)')
  <2>1. MostLegs(pos)' = MostLegs(pos)
    BY <1>1 DEF MostLegs
  <2> QED BY <1>1, <1>11, <2>1 DEF WindowInv
<1> QED BY <1>7, <1>10, <1>12 DEF WindowInv, Scales

\* Giving a window up for the next shorter one.
LEMMA ShorterWindow ==
  ASSUME BacktestInv, WindowInv, NoRates \/ NoValue
  PROVE  WindowInv'
<1>1. /\ k > 0 /\ k' = k - 1 /\ window' = EmptyWindow
      /\ UNCHANGED <<cfg, eligible, strategy, pos, cache>>
  BY DEF NoRates, NoValue, Trying, TryShorter
<1>2. /\ pos \in Nat \ {0} /\ pos \in Int /\ k \in Nat
      /\ window.size \in Nat /\ window.size <= k
  BY BacktestAssumption DEF BacktestInv, TypeOK, Shape, Windows
<1>3. cfg \in Configs /\ pos \in 1 .. MaxMatches + 1
  BY DEF BacktestInv, TypeOK
<1>4. MostLegs(pos) \in Nat
  BY <1>3, MostLegsType
<1>5. GivenUp(k)
  <2>1. CASE NoRates
    <3>1. /\ window.size < k /\ cache[NextLeg] = NoLeg
          /\ FALSE \in RatesOutcomes(NextLeg, strategy)
      BY <2>1 DEF NoRates
    <3>2. NextLeg \in Span(k)
      BY <1>2, <3>1 DEF NextLeg, Span
    <3>3. ~Evaluable(NextLeg)
      BY <3>1 DEF Evaluable
    <3> QED BY <3>2, <3>3 DEF GivenUp
  <2>2. CASE NoValue
    <3>1. window.size = k /\ ~EVAllowed(window.prob, window.scale, window.odds)
      BY <2>2 DEF NoValue
    <3>2. AllLegs(k) /\ ~HasValue(k)
      BY <3>1, ValueOfProducts DEF WindowInv
    <3> QED BY <3>2 DEF GivenUp
  <2> QED BY <2>1, <2>2
<1>6. \A n : GivenUp(n)' <=> GivenUp(n)
  BY <1>1 DEF GivenUp, AllLegs, Span, Evaluable, HasValue, RatesOutcomes
<1>7. MostLegs(pos)' = MostLegs(pos)
  BY <1>1 DEF MostLegs
<1>8. k' <= MostLegs(pos)' /\ (strategy' # "simForm" => \A n \in k' + 1 .. MostLegs(pos)' : GivenUp(n)')
  <2>1. k <= MostLegs(pos)
    BY DEF WindowInv
  <2>2. ASSUME strategy # "simForm", NEW n \in k .. MostLegs(pos) PROVE GivenUp(n)
    <3>1. n = k \/ n \in k + 1 .. MostLegs(pos)
      BY <1>2, <1>4
    <3> QED BY <1>5, <2>2, <3>1 DEF WindowInv
  <2>3. k' + 1 = k /\ k' <= MostLegs(pos)
    BY <1>1, <1>2, <1>4, <2>1
  <2> QED BY <1>1, <1>6, <1>7, <2>2, <2>3
<1>9. /\ window'.size = 0 /\ window'.prob = 1 /\ window'.odds = 1 /\ window'.scale = 1
  BY <1>1 DEF EmptyWindow
<1>10. \A f : Product(f, pos, 0) = 1
  BY <1>2, ProductTurns, Zenon
<1>11. AllLegs(window.size)'
  <2>1. \A i \in Int : ~(pos <= i /\ i <= pos + 0 - 1)
    BY <1>2
  <2> QED BY <1>1, <1>2, <1>9, <2>1 DEF AllLegs, Span
<1> QED BY <1>1, <1>8, <1>9, <1>10, <1>11 DEF WindowInv

\* Holds while a parlay walk is under way.
ParlayInv == strategy \in Strategies => WindowInv

LEMMA ParlayStart == ASSUME Init PROVE ParlayInv
<1>1. strategy \in Strategies => k = MostLegs(1)
  BY DEF Init, Strategies
<1>2. /\ pos = 1 /\ window = EmptyWindow
  BY DEF Init
<1>3. /\ EmptyWindow.size = 0 /\ EmptyWindow.prob = 1 /\ EmptyWindow.odds = 1
      /\ EmptyWindow.scale = 1
  BY DEF EmptyWindow
<1>4. \A f : Product(f, 1, 0) = 1
  BY ProductTurns
<1>5. AllLegs(0)
  BY <1>2 DEF AllLegs, Span
<1>6. BacktestInv
  BY InitInv
<1>7. k \in Nat /\ k <= k
  BY <1>6, BacktestAssumption DEF BacktestInv, TypeOK
<1>8. ASSUME k = MostLegs(1) PROVE k <= MostLegs(1) /\ \A n \in k + 1 .. MostLegs(1) : GivenUp(n)
  BY <1>7, <1>8
<1> QED BY <1>1, <1>2, <1>3, <1>4, <1>5, <1>8 DEF ParlayInv, WindowInv

LEMMA ParlayStep ==
  ASSUME BacktestInv, ParlayInv, [Next]_vars
  PROVE  ParlayInv'
<1>1. BacktestInv'
  BY NextInv
<1>2. CASE WalkMatch
  BY <1>2 DEF WalkMatch, ParlayInv, Strategies
<1>3. CASE AddLeg
  BY <1>3, AddLegWindow DEF AddLeg, Trying, ParlayInv
<1>4. CASE NoRates \/ NoValue
  BY <1>4, ShorterWindow DEF NoRates, NoValue, Trying, ParlayInv
<1>5. CASE PlaceParlay \/ SkipAnchor
  <2>1. window' = EmptyWindow /\ k' = MostLegs(pos') /\ UNCHANGED cfg
    BY <1>5 DEF PlaceParlay, SkipAnchor, Advance
  <2>2. k' = MostLegs(pos)'
    BY <2>1 DEF MostLegs
  <2> QED BY <1>1, <2>1, <2>2, FreshWindow DEF ParlayInv, BacktestInv
<1>6. CASE NextTrack
  <2>1. CASE strategy' = "done"
    BY <2>1 DEF ParlayInv, Strategies
  <2>2. CASE strategy' # "done"
    <3>1. window' = EmptyWindow /\ k' = MostLegs(1) /\ pos' = 1 /\ UNCHANGED cfg
      BY <1>6, <2>2 DEF NextTrack
    <3>2. k' = MostLegs(pos)'
      BY <3>1 DEF MostLegs
    <3> QED BY <1>1, <3>1, <3>2, FreshWindow DEF ParlayInv, BacktestInv
  <2> QED BY <2>1, <2>2
<1>7. CASE Abort
  BY <1>7 DEF Abort, ParlayInv, Strategies
<1>8. CASE UNCHANGED vars
  BY <1>8 DEF vars, ParlayInv, WindowInv, GivenUp, AllLegs, Span, Evaluable, HasValue,
              RatesOutcomes, MostLegs, Field, Scales
<1> QED
  BY <1>2, <1>3, <1>4, <1>5, <1>6, <1>7, <1>8 DEF Next, Walk, Ended

\* A step that places a window is PlaceParlay's.
LEMMA OnlyPlaced ==
  ASSUME BacktestInv, [Next]_vars, Placing
  PROVE  PlaceParlay
<1>1. /\ strategy \in Strategies /\ window.size > 0 /\ pos' = pos + window.size
      /\ window.size \in Nat /\ window.size <= k /\ pos \in Nat \ {0}
      /\ pos' # pos
  BY BacktestAssumption DEF Placing, BacktestInv, TypeOK, Shape, Windows
<1>2. ~WalkMatch
  BY <1>1 DEF WalkMatch, Strategies
<1>3. ~(AddLeg \/ NoRates \/ NoValue \/ Abort \/ Ended \/ UNCHANGED vars)
  BY <1>1 DEF AddLeg, NoRates, NoValue, TryShorter, Abort, Ended, vars
<1>4. ~SkipAnchor
  <2>1. k # 0
    BY <1>1, BacktestAssumption DEF BacktestInv, TypeOK
  <2> QED BY <2>1 DEF SkipAnchor
<1>5. ~NextTrack
  <2>1. ASSUME NextTrack PROVE FALSE
    <3>1. pos' = 1 \/ pos' = pos
      BY <2>1 DEF NextTrack
    <3> QED BY <1>1, <3>1
  <2> QED BY <2>1
<1> QED BY <1>2, <1>3, <1>4, <1>5 DEF Next, Walk

\* Outside the recent-form track, whatever the matches, the limits and the
\* outcomes of the simulations: the window that is placed has value, by the
\* products over its legs, and no longer window of evaluable legs had.
THEOREM LargestWindowIsPlaced == Spec => LargestSeasonWindow
<1>1. ASSUME BacktestInv, ParlayInv, [Next]_vars, Placing, strategy # "simForm"
      PROVE  Longest
  <2>1. PlaceParlay
    BY <1>1, OnlyPlaced
  <2>2. /\ strategy \in Strategies /\ window.size = k
        /\ EVAllowed(window.prob, window.scale, window.odds)
    BY <2>1 DEF PlaceParlay, Trying
  <2>3. WindowInv
    BY <1>1, <2>2 DEF ParlayInv
  <2>4. AllLegs(window.size) /\ HasValue(window.size)
    BY <2>2, <2>3, ValueOfProducts DEF WindowInv
  <2>5. \A n \in window.size + 1 .. MostLegs(pos) : GivenUp(n)
    BY <1>1, <2>2, <2>3 DEF WindowInv
  <2> QED BY <2>4, <2>5 DEF Longest, GivenUp, MostLegs
<1>2. ASSUME BacktestInv, ParlayInv, [Next]_vars
      PROVE  [Placing /\ strategy # "simForm" => Longest]_vars
  BY <1>1, <1>2
<1> QED
  BY <1>2, ParlayStart, ParlayStep, BacktestInvariant, PTL DEF Spec, LargestSeasonWindow
=============================================================================
