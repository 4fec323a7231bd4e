--------------------------- MODULE ScoreHydration ---------------------------
(***************************************************************************)
(* tennis/tennis/score.go: which scores are accepted, and the match that   *)
(* MatchFromScore rebuilds from one by replaying its games and points in a *)
(* canonical order.  A score is a sequence of set tokens as ParseScore     *)
(* yields them: the games, and <<>> or the two tallies of a tiebreak.      *)
(* A result carries "none" or the kind of the first error.                 *)
(***************************************************************************)
EXTENDS TennisRules, FiniteSets

NoTiebreak == <<>>

\* ParseScore: a token may show tiebreak points at equal games only.
Parsable(s) == s.tb # NoTiebreak => s.games["A"] = s.games["B"]

\* nil means 0-0.
TiebreakPoints(s) ==
  IF s.tb = NoTiebreak THEN Zero
  ELSE [p \in Players |-> IF p = "A" THEN s.tb[1] ELSE s.tb[2]]

-----------------------------------------------------------------------------
(* Validation.                                                              *)

\* Equal games are never impossible, however many.
ImpossibleGameScore(games) ==
  \E w \in Players :
    LET hi == games[w]
        lo == games[Opponent(w)]
    IN /\ hi > lo
       /\ \/ hi > TiebreakAtGamesEach + 1
          \/ /\ hi = TiebreakAtGamesEach + 1
             /\ lo \notin {TiebreakAtGamesEach - 1, TiebreakAtGamesEach}

ValidGameTotals(s) ==
  /\ ~ImpossibleGameScore(s.games)
  /\ s.tb # NoTiebreak => BothAtTiebreak(s.games)

TiebreakComplete(points, setsWon) ==
  \E w \in Players : WinsTiebreak(points, w, TiebreakTarget(setsWon))

\* classifySet: the set is complete and won by w.
CompletedBy(games, w) ==
  \/ /\ games[w] = TiebreakAtGamesEach + 1
     /\ games[Opponent(w)] = TiebreakAtGamesEach
  \/ WinsSet(games, w)

Completed(s) == \E w \in Players : CompletedBy(s.games, w)

\* classifySet and validateInProgressSet: a tiebreak still shown at the
\* threshold is not over, and no other set shows one.
ClassifyFails(s, setsWon) ==
  IF BothAtTiebreak(s.games)
  THEN TiebreakComplete(TiebreakPoints(s), setsWon)
  ELSE s.tb # NoTiebreak

\* The sets won in the first n tokens.
WonIn(sets, n) ==
  [p \in Players |->
     Cardinality({j \in 1 .. n : CompletedBy(sets[j].games, p)})]

SomeoneWon(setsWon) == \E p \in Players : setsWon[p] >= SetsToWin

\* One turn of the loop of ValidateScoreSequence.
SetError(sets, i) ==
  LET s == sets[i]
  IN IF ~ValidGameTotals(s) \/ ClassifyFails(s, WonIn(sets, i - 1))
     THEN "invalidSet"
     ELSE IF i < Len(sets) THEN
       IF ~Completed(s) THEN "invalidSet"
       ELSE IF SomeoneWon(WonIn(sets, i)) THEN "matchComplete" ELSE "none"
     ELSE IF ~Completed(s) /\ SomeoneWon(WonIn(sets, i - 1))
          THEN "matchComplete" ELSE "none"

ValidateScoreSequence(sets) ==
  LET bad == {i \in DOMAIN sets : SetError(sets, i) # "none"}
  IN IF sets = <<>> THEN "empty"
     ELSE IF Len(sets) > 2 * SetsToWin - 1 THEN "tooManySets"
     ELSE IF bad = {} THEN "none"
     ELSE SetError(sets, CHOOSE i \in bad : \A j \in bad : i <= j)

-----------------------------------------------------------------------------
(* Replaying.                                                               *)

Replayed(m) == [err |-> "none", match |-> m]
Failed(kind, m) == [err |-> kind, match |-> m]

CanonicalGameWinner(now) == IF now["B"] < now["A"] THEN "B" ELSE "A"

\* pickNeededGameWinner and pickNeededTiebreakWinner.
PickNeeded(now, target) ==
  LET need == {p \in Players : now[p] < target[p]}
  IN IF Cardinality(need) = 1 THEN CHOOSE p \in need : TRUE
     ELSE CanonicalGameWinner(now)

Passed(now, target) == \E p \in Players : now[p] > target[p]

-----------------------------------------------------------------------------
(* The loops of the replay: a turn goes on with the match after one more    *)
(* game or point, or ends the loop.                                         *)

Replaying(m) == [err |-> "replaying", match |-> m]

\* replayRegularGamesTo.
RegularGamesTurn(m, goal) ==
  LET games == m.current.games
  IN IF games = goal.target THEN Replayed(m)
     ELSE IF m.current.phase = "tiebreak" \/ Passed(games, goal.target)
     THEN Failed("hydration", m)
     ELSE IF ~CanWinGame(m) THEN Failed("done", m)
     ELSE Replaying(WinGame(m, PickNeeded(games, goal.target)))

\* The set completed last must have the target's games.
LastSetIs(m, target) ==
  IF m.completed[Len(m.completed)] = target THEN Replayed(m)
  ELSE Failed("hydration", m)

\* replayRegularGamesUntilSetComplete.
CompleteSetTurn(m, goal) ==
  IF Len(m.completed) # goal.before THEN LastSetIs(m, goal.target)
  ELSE IF m.current.phase = "tiebreak" THEN Failed("hydration", m)
  ELSE IF ~CanWinGame(m) THEN Failed("done", m)
  ELSE Replaying(WinGame(m, PickNeeded(m.current.games, goal.target)))

\* replayTiebreakPointsTo.
TiebreakPointsTurn(m, goal) ==
  LET points == m.current.points
  IN IF m.current.phase # "tiebreak" \/ Len(m.completed) # goal.before
     THEN Failed("hydration", m)
     ELSE IF points = goal.target THEN Replayed(m)
     ELSE IF Passed(points, goal.target) THEN Failed("hydration", m)
     ELSE Replaying(WinTiebreakPoint(m, PickNeeded(points, goal.target)))

\* Whoever wins the set of the target with the next point.
TiebreakClinchers(m, target) ==
  {p \in Players :
     /\ WinsTiebreak([m.current.points EXCEPT ![p] = @ + 1], p,
                     TiebreakTarget(m.setsWon))
     /\ target = [q \in Players |-> TiebreakAtGamesEach + IF q = p THEN 1 ELSE 0]}

PickTiebreakProgressWinner(m, target) ==
  LET points    == m.current.points
      clinchers == TiebreakClinchers(m, target)
  IN IF clinchers # {} THEN CHOOSE p \in clinchers : TRUE
     ELSE IF points["A"] # points["B"] THEN CanonicalGameWinner(points)
     ELSE IF target["B"] > target["A"] THEN "B" ELSE "A"

\* replayTiebreakUntilSetComplete.
CompleteTiebreakTurn(m, goal) ==
  IF Len(m.completed) # goal.before THEN LastSetIs(m, goal.target)
  ELSE IF m.current.phase # "tiebreak" THEN Failed("hydration", m)
  ELSE Replaying(WinTiebreakPoint(m, PickTiebreakProgressWinner(m, goal.target)))

ReplayTurn(r, goal) ==
  CASE r.err # "replaying" -> r
    [] r.err = "replaying" /\ goal.loop = "games" -> RegularGamesTurn(r.match, goal)
    [] r.err = "replaying" /\ goal.loop = "set" -> CompleteSetTurn(r.match, goal)
    [] r.err = "replaying" /\ goal.loop = "points" -> TiebreakPointsTurn(r.match, goal)
    [] OTHER -> CompleteTiebreakTurn(r.match, goal)

\* More turns than any loop takes to end: a game or a point each, and one to
\* see the end.
MostTurns(target) ==
  target["A"] + target["B"] + 2 * (TiebreakPointsToWin + FinalSetTiebreakPointsToWin) + 3

Replay(m, loop, target) ==
  LET goal == [loop |-> loop, target |-> target, before |-> Len(m.completed)]
      replay[n \in Nat] ==
        IF n = 0 THEN Replaying(m) ELSE ReplayTurn(replay[n - 1], goal)
  IN  replay[MostTurns(target)]

-----------------------------------------------------------------------------
(* The match of a score.                                                    *)

\* scoreNeedsTiebreakHydration; a set at the threshold is never complete.
NeedsTiebreak(games) ==
  \/ BothAtTiebreak(games)
  \/ {games[p] : p \in Players} = {TiebreakAtGamesEach, TiebreakAtGamesEach + 1}

HydrateFromTiebreak(r, s) ==
  IF r.err # "none" THEN r
  ELSE IF Completed(s) THEN Replay(r.match, "tiebreak", s.games)
  ELSE Replay(r.match, "points", TiebreakPoints(s))

HydrateSet(m, s) ==
  IF Done(m) THEN Failed("done", m)
  ELSE IF NeedsTiebreak(s.games) THEN
    HydrateFromTiebreak(Replay(m, "games", [p \in Players |-> TiebreakAtGamesEach]), s)
  ELSE IF Completed(s) THEN Replay(m, "set", s.games)
  ELSE Replay(m, "games", s.games)

\* assertInProgressSet.
InProgressAs(m, s) ==
  /\ m.current.games = s.games
  /\ IF BothAtTiebreak(s.games)
     THEN m.current.phase = "tiebreak" /\ m.current.points = TiebreakPoints(s)
     ELSE m.current.phase = "regular" /\ s.tb = NoTiebreak

AssertInProgress(r, s) ==
  IF r.err = "none" /\ ~Completed(s) /\ ~InProgressAs(r.match, s)
  THEN Failed("hydration", r.match)
  ELSE r

\* One turn of the loop of MatchFromScore.
HydrateTurn(r, s) ==
  IF r.err # "none" THEN r ELSE AssertInProgress(HydrateSet(r.match, s), s)

Hydrated(start, sets) ==
  LET hydrated[i \in Nat] ==
        IF i = 0 THEN Replayed(start) ELSE HydrateTurn(hydrated[i - 1], sets[i])
  IN  hydrated[Len(sets)]

\* Fault: a finished match is not refused.
HydrateFinished(start, sets) == Hydrated(start, sets)

RefuseFinished(r) ==
  IF r.err = "none" /\ Done(r.match) THEN Failed("matchComplete", r.match) ELSE r
HydrateFrom(start, sets) == RefuseFinished(Hydrated(start, sets))

MatchFromScore(first, sets) ==
  LET err == ValidateScoreSequence(sets)
  IN IF err # "none" THEN Failed(err, NewMatch(first))
     ELSE HydrateFrom(NewMatch(first), sets)
=============================================================================
