------------------------------ MODULE MCTennis ------------------------------
(* Instances of TennisScores for TLC.                                       *)
EXTENDS TennisScores

\* Rates: both outcomes possible, and the extreme ones.
Even   == [p \in Players |-> 60]
Always == [p \in Players |-> 100]
Never  == [p \in Players |-> 0]

\* Up to two games more than a set can have, and tiebreaks up to ten points.
MCTokens ==
  LET Typed == [Players -> 0 .. GamesPerSet + 2]
      Tallies == {0, 1, TiebreakPointsToWin - 1, TiebreakPointsToWin,
                  TiebreakPointsToWin + 1, FinalSetTiebreakPointsToWin}
  IN {s \in [games : Typed, tb : {NoTiebreak} \cup (Tallies \X Tallies)] :
        Parsable(s)}
=============================================================================
