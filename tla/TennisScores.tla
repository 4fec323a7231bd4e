---------------------------- MODULE TennisScores ----------------------------
(***************************************************************************)
(* The rules engine and the hydration of scores together: a live score is  *)
(* what the engine shows of a match, and MatchFromScore has to rebuild the *)
(* match from it, as the TUI and simmatch do before they simulate the rest.*)
(***************************************************************************)
EXTENDS TennisMatch, ScoreHydration

CONSTANT Tokens     \* set tokens a user may type

ASSUME TokensAssumption ==
  Tokens \subseteq [games : [Players -> Nat], tb : {NoTiebreak} \cup (Nat \X Nat)]

Played == [i \in DOMAIN match.completed |->
             [games |-> match.completed[i], tb |-> NoTiebreak]]

\* The token of the set in progress.
CurrentToken ==
  [games |-> match.current.games,
   tb    |-> IF match.current.phase = "regular" THEN NoTiebreak
             ELSE <<match.current.points["A"], match.current.points["B"]>>]

AtSetStart == ~Done(match) /\ match.current = NewSet

\* Every match the engine can reach is rebuilt from its score exactly, the
\* server and the tiebreak included, although the replay plays the games in
\* another order; a tiebreak at 0-0 may be left out.  A finished match is
\* refused, as finished.
RoundTrip ==
  IF Done(match) THEN
    /\ ValidateScoreSequence(Played) = "none"
    /\ MatchFromScore(first, Played).err = "matchComplete"
  ELSE
    /\ MatchFromScore(first, Append(Played, CurrentToken)) = Replayed(match)
    /\ CurrentToken.tb = <<0, 0>> =>
         MatchFromScore(first, Append(Played, [CurrentToken EXCEPT !.tb = NoTiebreak]))
           = Replayed(match)

\* The match m is b, at the start of a set, with what the token shows.
ShowsToken(m, b, t) ==
  /\ ~Done(m)
  /\ IF Completed(t)
     THEN /\ m.completed = Append(b.completed, t.games)
          /\ m.current = NewSet
          /\ LegalSet(t.games)
     ELSE /\ m.completed = b.completed
          /\ m.current.games = t.games
          /\ m.current.points = TiebreakPoints(t)
          /\ ~BothAtTiebreak(t.games) => ~LegalSet(t.games)

\* Whatever token follows a legal score: if the score is accepted, the match
\* shows that score, its sets are legal and nobody has won it yet.
AcceptedIsFaithful ==
  AtSetStart =>
    \A t \in Tokens :
      LET r == MatchFromScore(first, Append(Played, t))
      IN  r.err = "none" => ShowsToken(r.match, match, t)

\* What may be typed and what may be shown agree: the scores of all matches
\* lead back to the match, and no other score leads to a match that differs.
HydrationFaithful == RoundTrip /\ AcceptedIsFaithful
=============================================================================
