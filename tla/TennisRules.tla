---------------------------- MODULE TennisRules -----------------------------
(***************************************************************************)
(* The rules engine of tennis/tennis: format.go, state.go and rules.go.    *)
(* A Match is a record; WinGame and WinTiebreakPoint yield the match after *)
(* a game or a tiebreak point.                                             *)
(***************************************************************************)
EXTENDS Integers, Sequences

CONSTANTS   \* the fields of MatchFormat
  SetsToWin,
  GamesPerSet,
  GameMargin,
  TiebreakAtGamesEach,
  TiebreakPointsToWin,
  TiebreakPointMargin,
  FinalSetTiebreakPointsToWin

\* What the three formats of format.go have in common: the tiebreak comes
\* when both have the games of a set, which is won by two.
ASSUME FormatAssumption ==
  /\ SetsToWin \in Nat \ {0}
  /\ GamesPerSet \in Nat \ {0}
  /\ GameMargin = 2
  /\ TiebreakAtGamesEach = GamesPerSet
  /\ TiebreakPointsToWin \in Nat \ {0}
  /\ TiebreakPointMargin = 2
  /\ FinalSetTiebreakPointsToWin \in Nat

Players == {"A", "B"}
NoPlayer == "none"
Opponent(p) == IF p = "A" THEN "B" ELSE "A"

Zero == [p \in Players |-> 0]

\* A Set in progress, and resetCurrentSet.
NewSet ==
  [games |-> Zero, phase |-> "regular", points |-> Zero, played |-> 0,
   tbFirst |-> "A"]

NewMatch(first) ==
  [setsWon |-> Zero, completed |-> <<>>, current |-> NewSet,
   server |-> first, winner |-> NoPlayer]

Done(m) == m.winner # NoPlayer

\* Neither operation reports ErrMatchComplete or ErrWrongPhase.
CanWinGame(m) == ~Done(m) /\ m.current.phase = "regular"
CanWinTiebreakPoint(m) == ~Done(m) /\ m.current.phase = "tiebreak"

\* Fault: the server stays when a set ends.
CompleteSetKeepServer(m, set, server, w) ==
  LET won  == [m.setsWon EXCEPT ![w] = @ + 1]
      over == won[w] >= SetsToWin
  IN [setsWon   |-> won,
      completed |-> Append(m.completed, set.games),
      current   |-> IF over THEN set ELSE NewSet,
      server    |-> server,
      winner    |-> IF over THEN w ELSE NoPlayer]

\* completeSet, for the match m whose current set and server are the given.
CompleteSet(m, set, server, w) ==
  LET won  == [m.setsWon EXCEPT ![w] = @ + 1]
      over == won[w] >= SetsToWin
  IN [setsWon   |-> won,
      completed |-> Append(m.completed, set.games),
      current   |-> IF over THEN set ELSE NewSet,
      server    |-> IF over THEN server ELSE Opponent(server),
      winner    |-> IF over THEN w ELSE NoPlayer]

\* enterTiebreak, the server being the one of the next regular game.
TiebreakSet(games, server) ==
  [games |-> games, phase |-> "tiebreak", points |-> Zero, played |-> 0,
   tbFirst |-> server]

BothAtTiebreak(games) == \A p \in Players : games[p] = TiebreakAtGamesEach

WinsSet(games, w) ==
  /\ games[w] >= GamesPerSet
  /\ games[w] - games[Opponent(w)] >= GameMargin

\* Fault: the set is won before the tiebreak is considered.
WinGameNoTiebreak(m, w) ==
  LET games == [m.current.games EXCEPT ![w] = @ + 1]
  IN IF WinsSet(games, w) THEN
       CompleteSet(m, [m.current EXCEPT !.games = games], m.server, w)
     ELSE [m EXCEPT !.current = [m.current EXCEPT !.games = games],
                    !.server = Opponent(m.server)]

WinGame(m, w) ==
  LET games == [m.current.games EXCEPT ![w] = @ + 1]
  IN IF BothAtTiebreak(games) THEN
       [m EXCEPT !.current = TiebreakSet(games, Opponent(m.server)),
                 !.server = Opponent(m.server)]
     ELSE IF WinsSet(games, w) THEN
       CompleteSet(m, [m.current EXCEPT !.games = games], m.server, w)
     ELSE [m EXCEPT !.current = [m.current EXCEPT !.games = games],
                    !.server = Opponent(m.server)]

IsDecidingSet(setsWon) == \A p \in Players : setsWon[p] = SetsToWin - 1

\* tiebreakPointsToWin.
TiebreakTarget(setsWon) ==
  IF FinalSetTiebreakPointsToWin > 0 /\ IsDecidingSet(setsWon)
  THEN FinalSetTiebreakPointsToWin ELSE TiebreakPointsToWin

WinsTiebreak(points, w, target) ==
  /\ points[w] >= target
  /\ points[w] - points[Opponent(w)] >= TiebreakPointMargin

\* Fault: the server changes after every two points from the start.
ServeInPairs(n, first) ==
  IF (n \div 2) % 2 = 0 THEN first ELSE Opponent(first)

\* Who serves point n + 1 of a tiebreak.
ServerForTBPoint(n, first) ==
  IF n = 0 THEN first
  ELSE IF ((n - 1) \div 2) % 2 = 0 THEN Opponent(first) ELSE first

WinTiebreakPoint(m, w) ==
  LET points == [m.current.points EXCEPT ![w] = @ + 1]
      played == m.current.played + 1
      first  == m.current.tbFirst
      games  == [p \in Players |-> TiebreakAtGamesEach + IF p = w THEN 1 ELSE 0]
  IN IF WinsTiebreak(points, w, TiebreakTarget(m.setsWon)) THEN
       CompleteSet(m, [m.current EXCEPT !.games = games, !.points = points,
                                        !.played = played], first, w)
     ELSE [m EXCEPT !.current = [m.current EXCEPT !.points = points,
                                                  !.played = played],
                    !.server = ServerForTBPoint(played, first)]
=============================================================================
