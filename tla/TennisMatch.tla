---------------------------- MODULE TennisMatch -----------------------------
(***************************************************************************)
(* One simulated match: runOnce of tennis/tennis/simulate.go plays games   *)
(* and tiebreak points, drawn from the players' rates, until the match is  *)
(* done.                                                                   *)
(*                                                                         *)
(* A tiebreak has no last point.  At n-n beyond the target its future does *)
(* not depend on n but on the order of service, which repeats every four   *)
(* points, so Fold takes two points from each side: no bound is needed.    *)
(***************************************************************************)
EXTENDS TennisRules, FiniteSets

CONSTANTS
  Hold,    \* per player, the hold percentage (HoldPct)
  Break    \* per player, the break percentage (BreakPct)

ASSUME RatesAssumption ==
  /\ Hold \in [Players -> 0 .. 100]
  /\ Break \in [Players -> 0 .. 100]

VARIABLES
  match,
  first,   \* FirstServer
  total    \* history: games played in the match, a tiebreak being one game

vars == <<match, first, total>>

\* FirstServerCoinToss and NewMatch.
Init ==
  /\ first \in Players
  /\ match = NewMatch(first)
  /\ total = 0

\* Fault: the better rate wins, whatever is drawn.
BetterRateWins(server) ==
  {w \in Players : (w = server) = (Hold[server] >= Break[Opponent(server)])}

\* Who can win against the random number: GameWinProb is 1 when the server
\* always holds and the receiver never breaks, and 0 in the opposite case.
PossibleWinners(server) ==
  {w \in Players :
     IF w = server THEN ~(Hold[server] = 0 /\ Break[Opponent(server)] = 100)
     ELSE ~(Hold[server] = 100 /\ Break[Opponent(server)] = 0)}

PlayGame(w) ==
  /\ CanWinGame(match)
  /\ w \in PossibleWinners(match.server)
  /\ match' = WinGame(match, w)
  /\ total' = total + 1
  /\ UNCHANGED first

Fold(m) ==
  LET points == m.current.points
  IN IF /\ m.current.phase = "tiebreak"
        /\ points["A"] = points["B"]
        /\ points["A"] > TiebreakTarget(m.setsWon)
     THEN [m EXCEPT !.current =
             [m.current EXCEPT !.points = [p \in Players |-> points[p] - 2],
                               !.played = @ - 4]]
     ELSE m

PlayTiebreakPoint(w) ==
  /\ CanWinTiebreakPoint(match)
  /\ w \in PossibleWinners(match.server)
  /\ LET next == WinTiebreakPoint(match, w)
     IN /\ match' = IF Done(next) THEN next ELSE Fold(next)
        /\ total' = IF Len(next.completed) > Len(match.completed) THEN total + 1
                    ELSE total
  /\ UNCHANGED first

Over ==
  /\ Done(match)
  /\ UNCHANGED vars

Next ==
  \/ \E w \in Players : PlayGame(w) \/ PlayTiebreakPoint(w)
  \/ Over

Spec == Init /\ [][Next]_vars

\* The draws are independent: a winner that is possible at some difference of
\* tiebreak points is drawn there, if it comes back for ever.
Lead == match.current.points["A"] - match.current.points["B"]

Fairness ==
  /\ WF_vars(\E w \in Players : PlayGame(w) \/ PlayTiebreakPoint(w))
  /\ \A w \in Players, d \in -1 .. 1 : SF_vars(Lead = d /\ PlayTiebreakPoint(w))

FairSpec == Spec /\ Fairness

-----------------------------------------------------------------------------
(* Properties.                                                              *)

Games == [Players -> 0 .. GamesPerSet + 1]

Sets ==
  [games : Games, phase : {"regular", "tiebreak"}, points : [Players -> Nat],
   played : Nat, tbFirst : Players]

Matches ==
  [setsWon : [Players -> 0 .. SetsToWin], completed : Seq(Games),
   current : Sets, server : Players, winner : Players \cup {NoPlayer}]

TypeOK == match \in Matches /\ first \in Players /\ total \in Nat

\* The player whose turn it is after n games.
Turn(n) == IF n % 2 = 0 THEN first ELSE Opponent(first)

\* Service alternates from game to game across tiebreaks and sets: whoever
\* began the match serves every other game, a tiebreak counting as the game
\* of the player who serves its first point.
ServerAlternates ==
  ~Done(match) =>
    IF match.current.phase = "regular" THEN match.server = Turn(total)
    ELSE match.current.tbFirst = Turn(total)

\* A completed set has a score tennis knows: won with the games of a set by
\* two, one game later at 7-5, or by the tiebreak 7-6.
LegalSet(games) ==
  \E w \in Players :
    LET hi == games[w]
        lo == games[Opponent(w)]
    IN \/ hi = GamesPerSet /\ lo <= GamesPerSet - 2
       \/ hi = GamesPerSet + 1 /\ lo \in {GamesPerSet - 1, GamesPerSet}

LegalSets == \A i \in DOMAIN match.completed : LegalSet(match.completed[i])

\* During a tiebreak neither player has served two points more than the other.
Served(p, n) ==
  Cardinality({k \in 0 .. n - 1 :
                 ServerForTBPoint(k, match.current.tbFirst) = p})

TiebreakServesFair ==
  match.current.phase = "tiebreak" =>
    LET n == match.current.played
    IN Served("A", n) - Served("B", n) \in -1 .. 1

\* "plays to completion": every simulated match ends.
MatchEnds == <>Done(match)
=============================================================================
