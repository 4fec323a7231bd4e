-------------------------- MODULE TennisMatchProofs --------------------------
(***************************************************************************)
(* Proofs about TennisMatch for every format of the kind FormatAssumption  *)
(* describes and all rates: the type invariant, the order of service, and  *)
(* the scores that completed sets can have.  And about TennisScores: the   *)
(* score of every match leads MatchFromScore back to that match, and no    *)
(* other score is taken for one.                                           *)
(***************************************************************************)
EXTENDS TennisScores, FiniteSetTheorems, NaturalsInduction,
        WellFoundedInduction, TLAPS

\* The games of a set that is still open and not at the tiebreak: nobody has
\* more than the games of a set, they are not both there, and nobody is ahead
\* by two with them.
OpenGames(games) ==
  /\ \A p \in Players : games[p] <= GamesPerSet
  /\ ~BothAtTiebreak(games)
  /\ \A p \in Players : ~WinsSet(games, p)

\* What holds of the set in progress.
SetInv(set) ==
  IF set.phase = "regular" THEN OpenGames(set.games)
  ELSE /\ BothAtTiebreak(set.games)
       /\ set.played = set.points["A"] + set.points["B"]

\* What holds of an unfinished match.
OpenMatch(m) ==
  ~Done(m) => /\ SetInv(m.current)
              /\ \A p \in Players : m.setsWon[p] < SetsToWin

\* LegalSets of any match.
LegalRecord(m) == \A i \in DOMAIN m.completed : LegalSet(m.completed[i])

\* The inductive invariant.
MatchInv == TypeOK /\ OpenMatch(match) /\ LegalSets /\ ServerAlternates

-----------------------------------------------------------------------------

LEMMA Opponents ==
  \A p \in Players : /\ Opponent(p) \in Players
                     /\ Opponent(p) # p
                     /\ Opponent(Opponent(p)) = p
                     /\ \A q \in Players : q = p \/ q = Opponent(p)
BY DEF Players, Opponent

\* A new match is well typed and open.
LEMMA NewSetFacts == NewSet \in Sets /\ SetInv(NewSet)
<1>1. Zero \in Games /\ Zero \in [Players -> Nat]
  BY FormatAssumption DEF Zero, Games
<1>2. NewSet \in Sets
  BY <1>1 DEF NewSet, Sets, Players
<1>3. OpenGames(Zero)
  BY FormatAssumption, Opponents
     DEF OpenGames, Zero, BothAtTiebreak, WinsSet, Players
<1> QED BY <1>2, <1>3 DEF SetInv, NewSet

\* The turn passes with every game.
LEMMA TurnPasses ==
  ASSUME first \in Players, total \in Nat
  PROVE  Turn(total + 1) = Opponent(Turn(total)) /\ Turn(total) \in Players
<1>1. (total + 1) % 2 = IF total % 2 = 0 THEN 1 ELSE 0
  OBVIOUS
<1> QED BY <1>1, Opponents DEF Turn

\* completeSet: the record grows by the games of the set, and an unfinished
\* match starts a new set with the other server.
LEMMA CompleteSetFacts ==
  ASSUME NEW m \in Matches, NEW set \in Sets, NEW server \in Players,
         NEW w \in Players,
         \A p \in Players : m.setsWon[p] < SetsToWin,
         LegalSet(set.games), LegalRecord(m)
  PROVE  LET n == CompleteSet(m, set, server, w)
         IN /\ n \in Matches
            /\ OpenMatch(n)
            /\ LegalRecord(n)
            /\ Len(n.completed) > Len(m.completed)
            /\ ~Done(n) => n.current = NewSet /\ n.server = Opponent(server)
<1> DEFINE n    == CompleteSet(m, set, server, w)
           won  == [m.setsWon EXCEPT ![w] = @ + 1]
           over == won[w] >= SetsToWin
<1>1. won \in [Players -> 0 .. SetsToWin]
  BY FormatAssumption DEF Matches
<1>2. set.games \in Games /\ m.completed \in Seq(Games)
  BY DEF Sets, Matches
<1>3. /\ n.setsWon = won
      /\ n.completed = Append(m.completed, set.games)
      /\ n.current = IF over THEN set ELSE NewSet
      /\ n.server = IF over THEN server ELSE Opponent(server)
      /\ n.winner = IF over THEN w ELSE NoPlayer
  BY DEF CompleteSet
<1>4. n \in Matches
  BY <1>1, <1>2, NewSetFacts, Opponents DEF CompleteSet, Matches
<1>5. ~Done(n) => ~over
  BY <1>3 DEF Done, Players, NoPlayer
<1>6. OpenMatch(n)
  <2> SUFFICES ASSUME ~Done(n)
               PROVE  SetInv(n.current) /\ \A p \in Players : n.setsWon[p] < SetsToWin
    BY DEF OpenMatch
  <2>1. SetInv(n.current)
    BY <1>3, <1>5, NewSetFacts
  <2>2. ASSUME NEW p \in Players PROVE won[p] < SetsToWin
    <3>1. CASE p = w
      BY <3>1, <1>1, <1>5, FormatAssumption
    <3>2. CASE p # w
      BY <3>2 DEF Matches
    <3> QED BY <3>1, <3>2
  <2> QED BY <2>1, <2>2, <1>3
<1>7. LegalRecord(n)
  <2> SUFFICES ASSUME NEW i \in DOMAIN n.completed
               PROVE  LegalSet(n.completed[i])
    BY DEF LegalRecord
  <2>1. CASE i \in DOMAIN m.completed
    BY <2>1, <1>2, <1>3 DEF LegalRecord
  <2>2. CASE i = Len(m.completed) + 1
    BY <2>2, <1>2, <1>3
  <2> QED BY <2>1, <2>2, <1>2, <1>3
<1>8. Len(n.completed) > Len(m.completed)
  BY <1>2, <1>3
<1> HIDE DEF n
<1> QED
  <2>1. ~Done(n) => n.current = NewSet /\ n.server = Opponent(server)
    BY <1>3, <1>5
  <2> QED BY <2>1, <1>4, <1>6, <1>7, <1>8 DEF n

-----------------------------------------------------------------------------

\* A set won by the games has a legal score.
LEMMA WonByGames ==
  ASSUME NEW games \in Games, NEW w \in Players, OpenGames(games),
         WinsSet([games EXCEPT ![w] = @ + 1], w)
  PROVE  LegalSet([games EXCEPT ![w] = @ + 1])
<1> DEFINE new == [games EXCEPT ![w] = @ + 1]
           o   == Opponent(w)
<1>1. o \in Players /\ o # w
  BY Opponents
<1>2. games[w] \in Nat /\ games[o] \in Nat /\ new[w] = games[w] + 1 /\ new[o] = games[o]
  BY <1>1 DEF Games
<1>3. games[w] <= GamesPerSet /\ ~WinsSet(games, w)
  BY DEF OpenGames
<1>4. new[w] >= GamesPerSet /\ new[w] - new[o] >= 2
  BY FormatAssumption DEF WinsSet
<1>5. new[w] = GamesPerSet \/ new[w] = GamesPerSet + 1
  BY <1>2, <1>3, <1>4, FormatAssumption
<1>6. new[w] = GamesPerSet + 1 => new[o] = GamesPerSet - 1
  BY <1>2, <1>3, <1>4, FormatAssumption DEF WinsSet
<1>7. \/ new[w] = GamesPerSet /\ new[o] <= GamesPerSet - 2
      \/ new[w] = GamesPerSet + 1 /\ new[o] \in {GamesPerSet - 1, GamesPerSet}
  BY <1>2, <1>4, <1>5, <1>6, FormatAssumption
<1> HIDE DEF new
<1> QED BY <1>7 DEF LegalSet, new

\* WinGame keeps a match well formed, and passes the service unless the match
\* is over.
LEMMA WinGameFacts ==
  ASSUME NEW m \in Matches, NEW w \in Players,
         CanWinGame(m), OpenMatch(m), LegalRecord(m)
  PROVE  LET n == WinGame(m, w)
         IN /\ n \in Matches
            /\ OpenMatch(n)
            /\ LegalRecord(n)
            /\ ~Done(n) =>
                 IF n.current.phase = "regular"
                 THEN n.server = Opponent(m.server)
                 ELSE n.current.tbFirst = Opponent(m.server)
<1> DEFINE games == [m.current.games EXCEPT ![w] = @ + 1]
           n     == WinGame(m, w)
           o     == Opponent(w)
<1>1. /\ m.current \in Sets /\ m.server \in Players /\ m.current.games \in Games
      /\ m.current.phase = "regular"
      /\ OpenGames(m.current.games)
      /\ \A p \in Players : m.setsWon[p] < SetsToWin
  BY DEF Matches, Sets, CanWinGame, OpenMatch, SetInv
<1>2. o \in Players /\ o # w /\ \A p \in Players : p = w \/ p = o
  BY Opponents
<1>3. games \in Games /\ games[w] = m.current.games[w] + 1 /\ games[o] = m.current.games[o]
  BY <1>1, <1>2, FormatAssumption DEF Games, OpenGames
<1>4. Opponent(m.server) \in Players
  BY <1>1, Opponents
<1>5. CASE BothAtTiebreak(games)
  <2>1. n = [m EXCEPT !.current = TiebreakSet(games, Opponent(m.server)),
                      !.server = Opponent(m.server)]
    BY <1>5 DEF WinGame
  <2>2. Zero \in [Players -> Nat] /\ Zero["A"] = 0 /\ Zero["B"] = 0
    BY DEF Zero, Players
  <2>3. TiebreakSet(games, Opponent(m.server)) \in Sets
    BY <1>3, <1>4, <2>2 DEF TiebreakSet, Sets
  <2>4. SetInv(TiebreakSet(games, Opponent(m.server)))
    BY <1>5, <2>2 DEF TiebreakSet, SetInv
  <2>5. n \in Matches
    BY <2>1, <2>3, <1>4 DEF Matches
  <2>6. /\ n.current = TiebreakSet(games, Opponent(m.server))
        /\ n.setsWon = m.setsWon /\ n.completed = m.completed
    BY <2>1 DEF Matches
  <2>7. OpenMatch(n)
    BY <2>4, <2>6, <1>1 DEF OpenMatch
  <2>8. LegalRecord(n)
    BY <2>6 DEF LegalRecord
  <2>9. n.current.phase = "tiebreak" /\ n.current.tbFirst = Opponent(m.server)
    BY <2>6 DEF TiebreakSet
  <2> QED BY <2>5, <2>7, <2>8, <2>9
<1>6. CASE ~BothAtTiebreak(games) /\ WinsSet(games, w)
  <2> DEFINE set == [m.current EXCEPT !.games = games]
  <2>1. n = CompleteSet(m, set, m.server, w)
    BY <1>6 DEF WinGame
  <2>2. set \in Sets /\ set.games = games
    BY <1>1, <1>3 DEF Sets
  <2>3. LegalSet(games)
    BY <1>1, <1>6, WonByGames
  <2> HIDE DEF set, games, n
  <2>4. /\ n \in Matches /\ OpenMatch(n) /\ LegalRecord(n)
        /\ ~Done(n) => n.current = NewSet /\ n.server = Opponent(m.server)
    BY <1>1, <2>1, <2>2, <2>3, CompleteSetFacts
  <2>5. NewSet.phase = "regular"
    BY DEF NewSet
  <2> QED BY <2>4, <2>5 DEF n
<1>7. CASE ~BothAtTiebreak(games) /\ ~WinsSet(games, w)
  <2>1. n = [m EXCEPT !.current = [m.current EXCEPT !.games = games],
                      !.server = Opponent(m.server)]
    BY <1>7 DEF WinGame
  <2>2. [m.current EXCEPT !.games = games] \in Sets
    BY <1>1, <1>3 DEF Sets
  <2>3. n \in Matches
    BY <2>1, <2>2, <1>4 DEF Matches
  <2>4. /\ n.current = [m.current EXCEPT !.games = games]
        /\ n.current.games = games /\ n.current.phase = "regular"
        /\ n.setsWon = m.setsWon /\ n.completed = m.completed
        /\ n.server = Opponent(m.server)
    BY <2>1, <1>1, SMTT(60) DEF Matches, Sets
  <2>5. games[w] <= GamesPerSet
    BY <1>1, <1>2, <1>3, <1>7, FormatAssumption
       DEF OpenGames, WinsSet, BothAtTiebreak, Games
  <2>6. ~WinsSet(games, o)
    BY <1>1, <1>2, <1>3, Opponents, FormatAssumption DEF OpenGames, WinsSet, Games
  <2>7. OpenGames(games)
    BY <1>1, <1>2, <1>3, <1>7, <2>5, <2>6 DEF OpenGames
  <2>8. OpenMatch(n)
    BY <1>1, <2>4, <2>7 DEF OpenMatch, SetInv
  <2>9. LegalRecord(n)
    BY <2>4 DEF LegalRecord
  <2> QED BY <2>3, <2>4, <2>8, <2>9
<1> QED BY <1>5, <1>6, <1>7

-----------------------------------------------------------------------------

LEMMA ServerForTBPointType ==
  ASSUME NEW n \in Nat, NEW p \in Players
  PROVE  ServerForTBPoint(n, p) \in Players
BY Opponents DEF ServerForTBPoint

\* WinTiebreakPoint keeps a match well formed: either the tiebreak goes on,
\* or the set is complete and its first server does not serve next.
LEMMA WinTiebreakPointFacts ==
  ASSUME NEW m \in Matches, NEW w \in Players,
         CanWinTiebreakPoint(m), OpenMatch(m), LegalRecord(m)
  PROVE  LET n == WinTiebreakPoint(m, w)
         IN /\ n \in Matches
            /\ OpenMatch(n)
            /\ LegalRecord(n)
            /\ \/ /\ Len(n.completed) = Len(m.completed)
                  /\ n.current.phase = "tiebreak"
                  /\ n.current.tbFirst = m.current.tbFirst
               \/ /\ Len(n.completed) > Len(m.completed)
                  /\ ~Done(n) => /\ n.current = NewSet
                                 /\ n.server = Opponent(m.current.tbFirst)
<1> DEFINE points == [m.current.points EXCEPT ![w] = @ + 1]
           played == m.current.played + 1
           tbf    == m.current.tbFirst
           games  == [p \in Players |-> TiebreakAtGamesEach + IF p = w THEN 1 ELSE 0]
           n      == WinTiebreakPoint(m, w)
           o      == Opponent(w)
           won    == WinsTiebreak(points, w, TiebreakTarget(m.setsWon))
<1>1. /\ m.current \in Sets /\ m.current.phase = "tiebreak" /\ tbf \in Players
      /\ m.current.points \in [Players -> Nat] /\ m.current.played \in Nat
      /\ BothAtTiebreak(m.current.games)
      /\ m.current.played = m.current.points["A"] + m.current.points["B"]
      /\ \A p \in Players : m.setsWon[p] < SetsToWin
  BY DEF Matches, Sets, CanWinTiebreakPoint, OpenMatch, SetInv
<1>2. o \in Players /\ o # w
  BY Opponents
<1>3. /\ points \in [Players -> Nat] /\ played \in Nat
      /\ played = points["A"] + points["B"]
  BY <1>1 DEF Players
<1>4. CASE won
  <2> DEFINE set == [m.current EXCEPT !.games = games, !.points = points,
                                      !.played = played]
  <2>1. games \in Games /\ games[w] = GamesPerSet + 1 /\ games[o] = GamesPerSet
    BY <1>2, FormatAssumption DEF Games
  <2>2. LegalSet(games)
    BY <2>1 DEF LegalSet
  <2>3. set \in Sets /\ set.games = games
    BY <1>1, <1>3, <2>1 DEF Sets
  <2>4. n = CompleteSet(m, set, tbf, w)
    BY <1>4 DEF WinTiebreakPoint
  <2> HIDE DEF set, games, n, tbf
  <2>5. /\ n \in Matches /\ OpenMatch(n) /\ LegalRecord(n)
        /\ Len(n.completed) > Len(m.completed)
        /\ ~Done(n) => n.current = NewSet /\ n.server = Opponent(tbf)
    BY <1>1, <2>2, <2>3, <2>4, CompleteSetFacts
  <2> QED BY <2>5 DEF n, tbf
<1>5. CASE ~won
  <2> DEFINE set == [m.current EXCEPT !.points = points, !.played = played]
  <2>1. n = [m EXCEPT !.current = set, !.server = ServerForTBPoint(played, tbf)]
    BY <1>5 DEF WinTiebreakPoint
  <2>2. set \in Sets
    BY <1>1, <1>3 DEF Sets
  <2>3. /\ set.games = m.current.games /\ set.phase = "tiebreak"
        /\ set.points = points /\ set.played = played /\ set.tbFirst = tbf
    BY <1>1 DEF Sets
  <2>4. ServerForTBPoint(played, tbf) \in Players
    BY <1>1, <1>3, ServerForTBPointType
  <2> HIDE DEF set, points, played, tbf
  <2>5. n \in Matches
    BY <2>1, <2>2, <2>4 DEF Matches
  <2>6. /\ n.current = set /\ n.setsWon = m.setsWon
        /\ n.completed = m.completed
    BY <2>1 DEF Matches
  <2>7. OpenMatch(n)
    BY <1>1, <1>3, <2>3, <2>6 DEF OpenMatch, SetInv
  <2>8. LegalRecord(n)
    BY <2>6 DEF LegalRecord
  <2> QED BY <2>3, <2>5, <2>6, <2>7, <2>8 DEF tbf
<1> QED BY <1>4, <1>5

\* Folding a tiebreak changes nothing but its tallies.
LEMMA FoldFacts ==
  ASSUME NEW m \in Matches, OpenMatch(m), ~Done(m)
  PROVE  /\ Fold(m) \in Matches
         /\ OpenMatch(Fold(m))
         /\ Fold(m).completed = m.completed
         /\ Fold(m).server = m.server
         /\ Fold(m).winner = m.winner
         /\ Fold(m).current.phase = m.current.phase
         /\ Fold(m).current.tbFirst = m.current.tbFirst
<1> DEFINE points == m.current.points
           folds  == /\ m.current.phase = "tiebreak"
                     /\ points["A"] = points["B"]
                     /\ points["A"] > TiebreakTarget(m.setsWon)
<1>1. CASE ~folds
  BY <1>1 DEF Fold
<1>2. CASE folds
  <2> DEFINE new == [p \in Players |-> points[p] - 2]
             set == [m.current EXCEPT !.points = new, !.played = @ - 4]
  <2>1. /\ m.current \in Sets /\ points \in [Players -> Nat]
        /\ m.current.played \in Nat
        /\ BothAtTiebreak(m.current.games)
        /\ m.current.played = points["A"] + points["B"]
        /\ \A p \in Players : m.setsWon[p] < SetsToWin
    BY <1>2 DEF Matches, Sets, OpenMatch, SetInv
  <2>2. TiebreakTarget(m.setsWon) \in Nat \ {0}
    BY FormatAssumption DEF TiebreakTarget
  <2>3. points["A"] \in Nat /\ points["B"] \in Nat
    BY <2>1 DEF Players
  <2>4. points["A"] >= 2 /\ points["B"] >= 2
    BY <1>2, <2>2, <2>3
  <2>5. new \in [Players -> Nat] /\ new["A"] = points["A"] - 2 /\ new["B"] = points["B"] - 2
    BY <2>3, <2>4 DEF Players
  <2>6. /\ m.current.played - 4 \in Nat
        /\ m.current.played - 4 = new["A"] + new["B"]
    BY <2>1, <2>3, <2>4, <2>5
  <2>7. set \in Sets
    BY <2>1, <2>5, <2>6 DEF Sets
  <2>8. /\ set.games = m.current.games /\ set.phase = "tiebreak"
        /\ set.points = new /\ set.played = m.current.played - 4
        /\ set.tbFirst = m.current.tbFirst
    BY <1>2, <2>1 DEF Sets
  <2>9. Fold(m) = [m EXCEPT !.current = set]
    BY <1>2 DEF Fold
  <2> HIDE DEF set, new
  <2>10. Fold(m) \in Matches
    BY <2>7, <2>9 DEF Matches
  <2>11. /\ Fold(m).current = set /\ Fold(m).setsWon = m.setsWon
         /\ Fold(m).completed = m.completed /\ Fold(m).server = m.server
         /\ Fold(m).winner = m.winner
    BY <2>9 DEF Matches
  <2>12. SetInv(set)
    BY <2>1, <2>6, <2>8 DEF SetInv
  <2>13. OpenMatch(Fold(m))
    BY <2>1, <2>11, <2>12 DEF OpenMatch
  <2> QED BY <1>2, <2>8, <2>10, <2>11, <2>13
<1> QED BY <1>1, <1>2

-----------------------------------------------------------------------------
(* The invariant.                                                           *)

LEMMA MatchInit == Init => MatchInv
<1> SUFFICES ASSUME Init PROVE MatchInv
  OBVIOUS
<1>1. NewMatch(first) \in Matches /\ NewMatch(first).completed = <<>>
  BY NewSetFacts, FormatAssumption DEF Init, NewMatch, Matches, Zero, Games
<1>2. OpenMatch(NewMatch(first))
  BY NewSetFacts, FormatAssumption DEF OpenMatch, NewMatch, Zero
<1>3. ServerAlternates
  BY DEF Init, ServerAlternates, Turn, NewMatch, NewSet
<1>4. LegalSets
  BY <1>1 DEF Init, LegalSets
<1> QED BY <1>1, <1>2, <1>3, <1>4 DEF Init, MatchInv, TypeOK

LEMMA MatchNext == MatchInv /\ [Next]_vars => MatchInv'
<1> SUFFICES ASSUME MatchInv, [Next]_vars PROVE MatchInv'
  OBVIOUS
<1>1. /\ match \in Matches /\ first \in Players /\ total \in Nat
      /\ OpenMatch(match) /\ LegalRecord(match) /\ ServerAlternates
  BY DEF MatchInv, TypeOK, LegalSets, LegalRecord
<1>2. /\ Turn(total + 1) = Opponent(Turn(total))
      /\ Turn(total) \in Players
  BY <1>1, TurnPasses
<1>3. ASSUME NEW w \in Players, PlayGame(w) PROVE MatchInv'
  <2>1. /\ match' = WinGame(match, w) /\ total' = total + 1 /\ first' = first
        /\ CanWinGame(match)
    BY <1>3 DEF PlayGame
  <2>2. /\ match' \in Matches /\ OpenMatch(match') /\ LegalRecord(match')
        /\ ~Done(match') =>
             IF match'.current.phase = "regular"
             THEN match'.server = Opponent(match.server)
             ELSE match'.current.tbFirst = Opponent(match.server)
    BY <1>1, <2>1, WinGameFacts
  <2>3. match.server = Turn(total)
    BY <1>1, <2>1 DEF ServerAlternates, CanWinGame
  <2>4. ServerAlternates'
    BY <1>2, <2>1, <2>2, <2>3 DEF ServerAlternates, Turn
  <2> QED BY <1>1, <2>1, <2>2, <2>4
          DEF MatchInv, TypeOK, LegalSets, LegalRecord
<1>4. ASSUME NEW w \in Players, PlayTiebreakPoint(w) PROVE MatchInv'
  <2> DEFINE next == WinTiebreakPoint(match, w)
  <2>1. /\ CanWinTiebreakPoint(match) /\ first' = first
        /\ match' = IF Done(next) THEN next ELSE Fold(next)
        /\ total' = IF Len(next.completed) > Len(match.completed)
                    THEN total + 1 ELSE total
    BY <1>4 DEF PlayTiebreakPoint
  <2>2. /\ next \in Matches /\ OpenMatch(next) /\ LegalRecord(next)
        /\ \/ /\ Len(next.completed) = Len(match.completed)
              /\ next.current.phase = "tiebreak"
              /\ next.current.tbFirst = match.current.tbFirst
           \/ /\ Len(next.completed) > Len(match.completed)
              /\ ~Done(next) => /\ next.current = NewSet
                                /\ next.server = Opponent(match.current.tbFirst)
    BY <1>1, <2>1, WinTiebreakPointFacts
  <2>3. match.current.tbFirst = Turn(total)
    BY <1>1, <2>1 DEF ServerAlternates, CanWinTiebreakPoint
  <2> HIDE DEF next
  <2>4. /\ match' \in Matches /\ OpenMatch(match')
        /\ match'.completed = next.completed
        /\ Done(match') <=> Done(next)
        /\ ~Done(next) => /\ match'.server = next.server
                          /\ match'.current.phase = next.current.phase
                          /\ match'.current.tbFirst = next.current.tbFirst
    BY <2>1, <2>2, FoldFacts DEF Done
  <2>5. LegalRecord(match')
    BY <2>2, <2>4 DEF LegalRecord
  <2>6. total' \in Nat
    BY <1>1, <2>1
  <2>7. ServerAlternates'
    <3> SUFFICES ASSUME ~Done(match')
                 PROVE  IF match'.current.phase = "regular"
                        THEN match'.server = Turn(total)'
                        ELSE match'.current.tbFirst = Turn(total)'
      BY DEF ServerAlternates
    <3>1. CASE Len(next.completed) > Len(match.completed)
      <4>1. total' = total + 1
        BY <3>1, <2>1
      <4>2. Turn(total)' = Opponent(Turn(total))
        BY <1>2, <2>1, <4>1 DEF Turn
      <4>3. Len(next.completed) # Len(match.completed)
        BY <1>1, <2>2, <3>1 DEF Matches
      <4>4. next.current = NewSet /\ next.server = Opponent(match.current.tbFirst)
        BY <2>2, <2>4, <4>3
      <4> QED BY <2>3, <2>4, <4>2, <4>4 DEF NewSet
    <3>2. CASE ~(Len(next.completed) > Len(match.completed))
      <4>1. total' = total
        BY <3>2, <2>1
      <4>2. Turn(total)' = Turn(total)
        BY <2>1, <4>1 DEF Turn
      <4> QED BY <2>2, <2>3, <2>4, <3>2, <4>2
    <3> QED BY <3>1, <3>2
  <2> QED BY <1>1, <2>1, <2>4, <2>5, <2>6, <2>7
          DEF MatchInv, TypeOK, LegalSets, LegalRecord
<1>5. CASE Over \/ UNCHANGED vars
  <2>1. UNCHANGED <<match, first, total>>
    BY <1>5 DEF Over, vars
  <2> QED BY <1>1, <2>1 DEF MatchInv, TypeOK, LegalSets, LegalRecord,
                            ServerAlternates, Turn
<1> QED BY <1>3, <1>4, <1>5 DEF Next

\* The invariant holds of every simulated match.
THEOREM MatchInvariant == Spec => []MatchInv
BY MatchInit, MatchNext, PTL DEF Spec

\* Type correctness: no set goes beyond one game more than a set has, nobody
\* beyond the sets of a match.
THEOREM MatchTypeCorrect == Spec => []TypeOK
<1>1. MatchInv => TypeOK
  BY DEF MatchInv
<1> QED BY <1>1, MatchInvariant, PTL

\* Service alternates from game to game, across tiebreaks and sets.
THEOREM ServiceAlternates == Spec => []ServerAlternates
<1>1. MatchInv => ServerAlternates
  BY DEF MatchInv
<1> QED BY <1>1, MatchInvariant, PTL

\* Every completed set has a legal score.
THEOREM SetsAreLegal == Spec => []LegalSets
<1>1. MatchInv => LegalSets
  BY DEF MatchInv
<1> QED BY <1>1, MatchInvariant, PTL

-----------------------------------------------------------------------------
(* The points of a tiebreak.                                                *)

\* Every number is a multiple of four and a rest.
LEMMA FourAndRest == \A k \in Nat : \E i \in Nat, v \in 0 .. 3 : k = 4 * i + v /\ k % 4 = v
<1> SUFFICES ASSUME NEW k \in Nat
             PROVE  \E i \in Nat, v \in 0 .. 3 : k = 4 * i + v /\ k % 4 = v
  OBVIOUS
<1>1. PICK i \in Nat : i = k \div 4
  OBVIOUS
<1>2. PICK v \in 0 .. 3 : v = k % 4
  OBVIOUS
<1>3. k = 4 * i + v
  BY <1>1, <1>2
<1> QED BY <1>2, <1>3

\* A set that g enumerates without repetition from 1 to m has m elements.
LEMMA CountBy ==
  ASSUME NEW m \in Nat, NEW S, NEW g \in [1 .. m -> S],
         \A i, j \in 1 .. m : g[i] = g[j] => i = j,
         \A k \in S : \E j \in 1 .. m : g[j] = k
  PROVE  IsFiniteSet(S) /\ Cardinality(S) = m
<1>1. g \in Bijection(1 .. m, S)
  BY DEF Bijection, Injection, Surjection, IsInjective
<1>2. ExistsBijection(1 .. m, S)
  BY <1>1 DEF ExistsBijection
<1> QED BY <1>2, FS_Interval, FS_Bijection

\* The points before the n-th whose number leaves the rest v.
Class(n, v) == {k \in 0 .. n - 1 : k % 4 = v}

\* Every rest comes once in four.
LEMMA ClassSize ==
  ASSUME NEW q \in Nat, NEW r \in 0 .. 3, NEW v \in 0 .. 3
  PROVE  /\ IsFiniteSet(Class(4 * q + r, v))
         /\ Cardinality(Class(4 * q + r, v)) = IF v < r THEN q + 1 ELSE q
<1> DEFINE m == IF v < r THEN q + 1 ELSE q
           C == Class(4 * q + r, v)
           g == [j \in 1 .. m |-> 4 * (j - 1) + v]
<1>1. m \in Nat
  OBVIOUS
<1>2. ASSUME NEW j \in 1 .. m
      PROVE  g[j] \in C
  <2>1. PICK i \in Nat : i = j - 1
    OBVIOUS
  <2>2. (4 * i + v) % 4 = v
    OBVIOUS
  <2>3. i <= q /\ (v < r \/ i < q)
    BY <2>1
  <2>4. 4 * i + v \in 0 .. 4 * q + r - 1
    BY <2>3
  <2> QED BY <2>1, <2>2, <2>4 DEF Class
<1>3. ASSUME NEW k \in C
      PROVE  \E j \in 1 .. m : g[j] = k
  <2>1. PICK i \in Nat, w \in 0 .. 3 : k = 4 * i + w /\ k % 4 = w
    BY FourAndRest DEF Class
  <2>2. w = v /\ 4 * i + v < 4 * q + r
    BY <2>1 DEF Class
  <2>3. i + 1 \in 1 .. m
    BY <2>2
  <2>4. g[i + 1] = k
    BY <2>1, <2>2, <2>3
  <2> QED BY <2>3, <2>4
<1>4. \A i, j \in 1 .. m : g[i] = g[j] => i = j
  OBVIOUS
<1> HIDE DEF m, C
<1>5. g \in [1 .. m -> C]
  BY <1>2
<1> HIDE DEF g
<1>6. IsFiniteSet(C) /\ Cardinality(C) = m
  BY <1>1, <1>3, <1>4, <1>5, CountBy
<1> QED BY <1>6 DEF m, C

\* Who serves first in a tiebreak serves the first and the last of every four
\* points, the opponent the two between.
LEMMA TurnsOfFour ==
  ASSUME NEW f \in Players, NEW k \in Nat
  PROVE  /\ ServerForTBPoint(k, f) = f <=> k % 4 \in {0, 3}
         /\ ServerForTBPoint(k, f) = Opponent(f) <=> k % 4 \in {1, 2}
<1>1. Opponent(f) # f
  BY DEF Players, Opponent
<1>2. CASE k = 0
  BY <1>1, <1>2 DEF ServerForTBPoint
<1>3. CASE k # 0
  <2>1. ((k - 1) \div 2) % 2 = 0 <=> k % 4 \in {1, 2}
    BY <1>3
  <2>2. k % 4 \in {0, 1, 2, 3}
    OBVIOUS
  <2> QED BY <1>1, <1>3, <2>1, <2>2 DEF ServerForTBPoint
<1> QED BY <1>2, <1>3

\* Two classes have no point in common.
LEMMA TwoClasses ==
  ASSUME NEW q \in Nat, NEW r \in 0 .. 3, NEW v \in 0 .. 3, NEW w \in 0 .. 3, v # w
  PROVE  Cardinality(Class(4 * q + r, v) \cup Class(4 * q + r, w))
           = (IF v < r THEN q + 1 ELSE q) + (IF w < r THEN q + 1 ELSE q)
<1> DEFINE V == Class(4 * q + r, v)
           W == Class(4 * q + r, w)
<1>1. V \cap W = {}
  BY DEF Class
<1>2. /\ IsFiniteSet(V) /\ Cardinality(V) = IF v < r THEN q + 1 ELSE q
      /\ IsFiniteSet(W) /\ Cardinality(W) = IF w < r THEN q + 1 ELSE q
  BY ClassSize
<1> HIDE DEF V, W
<1>3. Cardinality(V \cup W) = Cardinality(V) + Cardinality(W) - 0
  BY <1>1, <1>2, FS_Union, FS_EmptySet
<1>4. Cardinality(V \cup W) = (IF v < r THEN q + 1 ELSE q) + (IF w < r THEN q + 1 ELSE q)
  BY <1>2, <1>3
<1> QED BY <1>4 DEF V, W

\* Nobody serves two points of a tiebreak more than the other, however many
\* are played.
LEMMA PointsServed ==
  ASSUME NEW f \in Players, NEW n \in Nat
  PROVE  LET By(p) == Cardinality({k \in 0 .. n - 1 : ServerForTBPoint(k, f) = p})
         IN  By(f) - By(Opponent(f)) \in -1 .. 1 /\ By(Opponent(f)) - By(f) \in -1 .. 1
<1>1. PICK q \in Nat, r \in 0 .. 3 : n = 4 * q + r
  BY FourAndRest
<1>2. {k \in 0 .. n - 1 : ServerForTBPoint(k, f) = f} = Class(n, 0) \cup Class(n, 3)
  BY TurnsOfFour DEF Class
<1>3. {k \in 0 .. n - 1 : ServerForTBPoint(k, f) = Opponent(f)} = Class(n, 1) \cup Class(n, 2)
  BY TurnsOfFour DEF Class
<1> DEFINE Own == Cardinality(Class(n, 0) \cup Class(n, 3))
           His == Cardinality(Class(n, 1) \cup Class(n, 2))
<1>4. Own = (IF 0 < r THEN q + 1 ELSE q) + (IF 3 < r THEN q + 1 ELSE q)
  <2>1. 0 \in 0 .. 3 /\ 3 \in 0 .. 3 /\ 0 # 3
    OBVIOUS
  <2>2. Cardinality(Class(4 * q + r, 0) \cup Class(4 * q + r, 3))
          = (IF 0 < r THEN q + 1 ELSE q) + (IF 3 < r THEN q + 1 ELSE q)
    BY ONLY <2>1, q \in Nat, r \in 0 .. 3, TwoClasses, ZenonT(60)
  <2> QED BY <1>1, <2>2
<1>5. His = (IF 1 < r THEN q + 1 ELSE q) + (IF 2 < r THEN q + 1 ELSE q)
  <2>1. 1 \in 0 .. 3 /\ 2 \in 0 .. 3 /\ 1 # 2
    OBVIOUS
  <2>2. Cardinality(Class(4 * q + r, 1) \cup Class(4 * q + r, 2))
          = (IF 1 < r THEN q + 1 ELSE q) + (IF 2 < r THEN q + 1 ELSE q)
    BY ONLY <2>1, q \in Nat, r \in 0 .. 3, TwoClasses
  <2> QED BY <1>1, <2>2
<1> HIDE DEF Own, His
<1>6. Own - His \in -1 .. 1 /\ His - Own \in -1 .. 1
  BY <1>4, <1>5
<1> QED BY <1>2, <1>3, <1>6 DEF Own, His

\* Nobody serves two points of a tiebreak more than the other.
THEOREM TiebreaksAreFair == Spec => []TiebreakServesFair
<1>1. ASSUME TypeOK
      PROVE  TiebreakServesFair
  <2> DEFINE f == match.current.tbFirst
             n == match.current.played
  <2>1. n \in Nat /\ f \in Players
    BY <1>1 DEF TypeOK, Matches, Sets
  <2>2. /\ Served(f, n) - Served(Opponent(f), n) \in -1 .. 1
        /\ Served(Opponent(f), n) - Served(f, n) \in -1 .. 1
    BY <2>1, PointsServed DEF Served
  <2>3. Served("A", n) - Served("B", n) \in -1 .. 1
    <3>1. CASE f = "A"
      BY <2>2, <3>1 DEF Opponent
    <3>2. CASE f = "B"
      BY <2>2, <3>2 DEF Opponent
    <3> QED BY <2>1, <3>1, <3>2 DEF Players
  <2> QED BY <2>3 DEF TiebreakServesFair
<1> QED BY <1>1, MatchTypeCorrect, PTL

-----------------------------------------------------------------------------
(* Induction, and the loops of the replay.                                  *)

Less == {pair \in Nat \X Nat : pair[1] < pair[2]}

LEMMA LessIsWellFounded == IsWellFoundedOn(Less, Nat)
  BY NatLessThanWellFounded DEF OpToRel, Less

\* Induction over a set of naturals.
LEMMA AllNaturals ==
  ASSUME NEW S, 0 \in S, \A n \in S \cap Nat : n + 1 \in S
  PROVE  Nat \subseteq S
<1> SUFFICES ASSUME Nat \ S # {} PROVE FALSE
  OBVIOUS
<1>1. PICK n \in Nat \ S : \A m \in Nat \ S : <<m, n>> \notin Less
  <2>1. Nat \ S \in SUBSET Nat
    OBVIOUS
  <2> QED BY <2>1, LessIsWellFounded, WFMin, Zenon
<1>2. n # 0 /\ n - 1 \in Nat /\ (n - 1) + 1 = n
  BY <1>1
<1>3. n - 1 \notin S
  BY <1>1, <1>2
<1>4. <<n - 1, n>> \in Nat \X Nat /\ <<n - 1, n>>[1] = n - 1 /\ <<n - 1, n>>[2] = n
  BY <1>1, <1>2
<1>5. <<n - 1, n>> \in Less
  BY <1>2, <1>4 DEF Less
<1> QED BY <1>1, <1>2, <1>3, <1>5

\* A turn of either loop that is written as a recursion: of a replay towards a
\* goal, or of the hydration of a list of tokens.
AnyTurn(x, start, j, v) ==
  IF j = 0 THEN start
  ELSE IF x.loop = "tokens" THEN HydrateTurn(v, x.sets[j]) ELSE ReplayTurn(v, x)
Turns(g, x, start, n) == g = [j \in 0 .. n |-> AnyTurn(x, start, j, g[j - 1])]

LEMMA TurnsAgree ==
  ASSUME NEW x, NEW start, NEW n \in Nat, NEW m \in Nat, NEW g, NEW h,
         Turns(g, x, start, n), Turns(h, x, start, m)
  PROVE  \A j \in 0 .. n : j <= m => g[j] = h[j]
<1> DEFINE S == {j \in Nat : j <= n /\ j <= m => g[j] = h[j]}
<1>1. /\ \A j \in 0 .. n : g[j] = AnyTurn(x, start, j, g[j - 1])
      /\ \A j \in 0 .. m : h[j] = AnyTurn(x, start, j, h[j - 1])
  BY Zenon DEF Turns
<1>2. 0 \in S
  <2>1. 0 \in 0 .. n /\ 0 \in 0 .. m
    OBVIOUS
  <2>2. \A v : AnyTurn(x, start, 0, v) = start
    BY DEF AnyTurn
  <2>3. g[0] = h[0]
    BY <1>1, <2>1, <2>2
  <2> QED BY <2>3
<1>3. ASSUME NEW j \in S \cap Nat PROVE j + 1 \in S
  <2> SUFFICES ASSUME j + 1 <= n, j + 1 <= m PROVE g[j + 1] = h[j + 1]
    OBVIOUS
  <2>1. j + 1 \in 0 .. n /\ j + 1 \in 0 .. m /\ (j + 1) - 1 = j
    OBVIOUS
  <2>2. g[j] = h[j]
    OBVIOUS
  <2> QED BY <1>1, <2>1, <2>2
<1>4. Nat \subseteq S
  <2> HIDE DEF S
  <2> QED BY <1>2, <1>3, AllNaturals
<1> QED BY <1>4

LEMMA TurnsExist ==
  ASSUME NEW x, NEW start, NEW n \in Nat
  PROVE  \E g : Turns(g, x, start, n)
<1> DEFINE S == {m \in Nat : \E g : Turns(g, x, start, m)}
<1>1. 0 \in S
  <2> DEFINE g == [j \in 0 .. 0 |-> AnyTurn(x, start, j, start)]
  <2>1. \A j \in 0 .. 0 : AnyTurn(x, start, j, start) = AnyTurn(x, start, j, g[j - 1])
    BY DEF AnyTurn
  <2>2. g = [j \in 0 .. 0 |-> AnyTurn(x, start, j, g[j - 1])]
    BY <2>1
  <2> HIDE DEF g
  <2>3. Turns(g, x, start, 0)
    BY <2>2 DEF Turns
  <2> QED BY <2>3
<1>2. ASSUME NEW m \in S \cap Nat PROVE m + 1 \in S
  <2>1. PICK g : Turns(g, x, start, m)
    OBVIOUS
  <2> DEFINE h == [j \in 0 .. m + 1 |-> AnyTurn(x, start, j, IF j = 0 THEN start ELSE g[j - 1])]
  <2>2. ASSUME NEW j \in 0 .. m PROVE h[j] = g[j]
    <3>1. g[j] = AnyTurn(x, start, j, g[j - 1])
      BY <2>1, Zenon DEF Turns
    <3>2. h[j] = AnyTurn(x, start, j, IF j = 0 THEN start ELSE g[j - 1])
      BY j \in 0 .. m + 1
    <3> QED BY <3>1, <3>2 DEF AnyTurn
  <2>3. ASSUME NEW j \in 0 .. m + 1 PROVE h[j] = AnyTurn(x, start, j, h[j - 1])
    <3>1. h[j] = AnyTurn(x, start, j, IF j = 0 THEN start ELSE g[j - 1])
      OBVIOUS
    <3>2. CASE j = 0
      BY <3>1, <3>2 DEF AnyTurn
    <3>3. CASE j # 0
      <4>1. j - 1 \in 0 .. m
        BY <3>3
      <4>2. h[j - 1] = g[j - 1]
        BY <2>2, <4>1
      <4> QED BY <3>1, <3>3, <4>2
    <3> QED BY <3>2, <3>3
  <2>4. h = [j \in 0 .. m + 1 |-> AnyTurn(x, start, j, h[j - 1])]
    <3>1. h \in [0 .. m + 1 -> {h[j] : j \in 0 .. m + 1}]
      OBVIOUS
    <3> HIDE DEF h
    <3> QED BY <2>3, <3>1
  <2> HIDE DEF h
  <2>5. Turns(h, x, start, m + 1)
    BY <2>4 DEF Turns
  <2> QED BY <2>5
<1>3. Nat \subseteq S
  <2> HIDE DEF S
  <2> QED BY <1>1, <1>2, AllNaturals
<1> QED BY <1>3

Recursion(g, x, start) == g = [n \in Nat |-> AnyTurn(x, start, n, g[n - 1])]

LEMMA RecursionExists ==
  ASSUME NEW x, NEW start
  PROVE  \E g : Recursion(g, x, start)
<1> DEFINE G(n) == CHOOSE g : Turns(g, x, start, n)
           all == [n \in Nat |-> G(n)[n]]
<1>1. \A n \in Nat : Turns(G(n), x, start, n)
  BY TurnsExist, Zenon
<1>2. ASSUME NEW n \in Nat PROVE all[n] = AnyTurn(x, start, n, all[n - 1])
  <2>1. all[n] = G(n)[n]
    OBVIOUS
  <2>2. G(n)[n] = AnyTurn(x, start, n, G(n)[n - 1])
    <3>1. n \in 0 .. n
      OBVIOUS
    <3>2. Turns(G(n), x, start, n)
      BY <1>1
    <3> HIDE DEF G
    <3> QED BY <3>1, <3>2, Zenon DEF Turns
  <2>3. CASE n = 0
    BY <2>1, <2>2, <2>3 DEF AnyTurn
  <2>4. CASE n # 0
    <3>1. n - 1 \in Nat /\ n - 1 <= n /\ n - 1 \in 0 .. n - 1
      BY <2>4
    <3>2. Turns(G(n), x, start, n) /\ Turns(G(n - 1), x, start, n - 1)
      BY <1>1, <3>1
    <3> HIDE DEF G
    <3>3. G(n - 1)[n - 1] = G(n)[n - 1]
      BY <3>1, <3>2, TurnsAgree
    <3>4. all[n - 1] = G(n - 1)[n - 1]
      BY <3>1
    <3> QED BY <2>1, <2>2, <3>3, <3>4
  <2> QED BY <2>3, <2>4
<1>3. all = [n \in Nat |-> all[n]]
  OBVIOUS
<1> HIDE DEF all
<1>4. Recursion(all, x, start)
  BY <1>2, <1>3, Zenon DEF Recursion
<1> QED BY <1>4

\* The state of a replay after n turns.
Goal(m, loop, target) == [loop |-> loop, target |-> target, before |-> Len(m.completed)]
ReplayRun(m, loop, target) == CHOOSE g : Recursion(g, Goal(m, loop, target), Replaying(m))
After(m, loop, target, n) == ReplayRun(m, loop, target)[n]

LEMMA ReplayTurns ==
  ASSUME NEW m, NEW loop, loop # "tokens", NEW target
  PROVE  /\ After(m, loop, target, 0) = Replaying(m)
         /\ \A n \in Nat : After(m, loop, target, n + 1)
                             = ReplayTurn(After(m, loop, target, n), Goal(m, loop, target))
         /\ Replay(m, loop, target) = After(m, loop, target, MostTurns(target))
<1> DEFINE goal == Goal(m, loop, target)
           run == ReplayRun(m, loop, target)
           Rec(g) == g = [n \in Nat |-> IF n = 0 THEN Replaying(m) ELSE ReplayTurn(g[n - 1], goal)]
<1>1. goal.loop # "tokens"
  BY DEF Goal
<1>2. \A g : Recursion(g, goal, Replaying(m)) <=> Rec(g)
  <2> HIDE DEF goal
  <2>1. \A n, v : AnyTurn(goal, Replaying(m), n, v)
                    = IF n = 0 THEN Replaying(m) ELSE ReplayTurn(v, goal)
    BY <1>1 DEF AnyTurn
  <2> QED BY <2>1, Zenon DEF Recursion
<1>3. Rec(run)
  <2>1. Recursion(run, goal, Replaying(m))
    BY RecursionExists, Zenon DEF ReplayRun
  <2> HIDE DEF run, goal, Rec
  <2> QED BY <1>2, <2>1
<1>4. run = CHOOSE g : Rec(g)
  <2> HIDE DEF Rec, goal
  <2> QED BY <1>2, Zenon DEF ReplayRun, goal
<1>5. Replay(m, loop, target) = run[MostTurns(target)]
  <2> HIDE DEF run
  <2> QED BY <1>4, Zenon DEF Replay, Goal
<1> HIDE DEF run, goal
<1>6. \A n \in Nat : run[n] = IF n = 0 THEN Replaying(m) ELSE ReplayTurn(run[n - 1], goal)
  BY <1>3, Zenon
<1>7. ASSUME NEW n \in Nat PROVE run[n + 1] = ReplayTurn(run[n], goal)
  <2>1. n + 1 \in Nat /\ n + 1 # 0 /\ (n + 1) - 1 = n
    OBVIOUS
  <2> QED BY <1>6, <2>1
<1> QED BY <1>5, <1>6, <1>7 DEF After, run, goal

Tallies == [Players -> Nat]
Plus(g, w) == [g EXCEPT ![w] = @ + 1]

LEMMA TallyPlus ==
  ASSUME NEW g \in Tallies, NEW w \in Players
  PROVE  /\ Plus(g, w) \in Tallies
         /\ Plus(g, w)[w] = g[w] + 1
         /\ Plus(g, w)[Opponent(w)] = g[Opponent(w)]
         /\ g[w] \in Nat /\ g[Opponent(w)] \in Nat
         /\ g[w] + g[Opponent(w)] = g["A"] + g["B"]
         /\ Plus(g, w)["A"] + Plus(g, w)["B"] = g["A"] + g["B"] + 1
BY DEF Tallies, Plus, Players, Opponent

\* A loop that goes from tally to tally comes to one of its ends.
LEMMA TallyReaches ==
  ASSUME NEW m, NEW loop, loop # "tokens", NEW target, MostTurns(target) \in Nat,
         NEW I \in SUBSET Tallies, NEW f, NEW Ends, NEW limit \in Nat,
         limit < MostTurns(target),
         \A r \in Ends : r.err # "replaying",
         Zero \in I, f[Zero] = m,
         \A g \in I :
           LET r == ReplayTurn(Replaying(f[g]), Goal(m, loop, target))
           IN  \/ r \in Ends
               \/ /\ g["A"] + g["B"] < limit
                  /\ \E w \in Players : Plus(g, w) \in I /\ r = Replaying(f[Plus(g, w)])
  PROVE  Replay(m, loop, target) \in Ends
<1> DEFINE goal == Goal(m, loop, target)
           r(n) == After(m, loop, target, n)
           At(n) == \E g \in I : g["A"] + g["B"] = n /\ n <= limit /\ r(n) = Replaying(f[g])
           S == {n \in Nat : r(n) \in Ends \/ At(n)}
<1>1. /\ r(0) = Replaying(m)
      /\ \A n \in Nat : r(n + 1) = ReplayTurn(r(n), goal)
      /\ Replay(m, loop, target) = r(MostTurns(target))
  BY ReplayTurns
<1> HIDE DEF r, goal
<1>2. 0 \in S
  <2>1. Zero["A"] + Zero["B"] = 0
    BY DEF Zero, Players
  <2> QED BY <1>1, <2>1
<1>3. ASSUME NEW n \in S \cap Nat PROVE n + 1 \in S
  <2>1. CASE r(n) \in Ends
    <3>1. ReplayTurn(r(n), goal) = r(n)
      BY <2>1 DEF ReplayTurn
    <3> QED BY <1>1, <2>1, <3>1
  <2>2. CASE At(n)
    <3>1. PICK g \in I : g["A"] + g["B"] = n /\ n <= limit /\ r(n) = Replaying(f[g])
      BY <2>2
    <3> DEFINE x == ReplayTurn(Replaying(f[g]), goal)
    <3>2. r(n + 1) = x
      BY <1>1, <3>1
    <3>3. \/ x \in Ends
          \/ /\ g["A"] + g["B"] < limit
             /\ \E w \in Players : Plus(g, w) \in I /\ x = Replaying(f[Plus(g, w)])
      BY DEF goal
    <3> HIDE DEF x
    <3>4. CASE x \in Ends
      BY <3>2, <3>4
    <3>5. ASSUME g["A"] + g["B"] < limit, NEW w \in Players, Plus(g, w) \in I,
                 x = Replaying(f[Plus(g, w)])
          PROVE  At(n + 1)
      <4>1. Plus(g, w)["A"] + Plus(g, w)["B"] = n + 1 /\ n + 1 <= limit
        BY <3>1, <3>5, TallyPlus
      <4> QED BY <3>2, <3>5, <4>1
    <3> QED BY <3>3, <3>4, <3>5
  <2> QED BY <2>1, <2>2
<1>4. Nat \subseteq S
  <2> HIDE DEF S
  <2> QED BY <1>2, <1>3, AllNaturals
<1>5. ~At(MostTurns(target))
  OBVIOUS
<1> QED BY <1>1, <1>4, <1>5

-----------------------------------------------------------------------------
(* The order in which the games and points of a target are won.             *)

\* Below the target, and nobody two ahead of one who still needs some.
Path(g, t) ==
  /\ g \in Tallies
  /\ \A p \in Players :
       /\ g[p] <= t[p]
       /\ g[p] > g[Opponent(p)] + 1 => g[Opponent(p)] = t[Opponent(p)]

LEMMA PathStart == ASSUME NEW t \in Tallies PROVE Path(Zero, t)
BY DEF Path, Zero, Tallies, Players, Opponent

LEMMA PathNeeds ==
  ASSUME NEW t \in Tallies, NEW g, Path(g, t), g # t
  PROVE  /\ ~Passed(g, t)
         /\ PickNeeded(g, t) \in Players
         /\ Path(Plus(g, PickNeeded(g, t)), t)
<1> DEFINE need == {p \in Players : g[p] < t[p]}
           w == PickNeeded(g, t)
<1>1. /\ g \in Tallies
      /\ \A p \in Players : g[p] \in Nat /\ t[p] \in Nat /\ g[p] <= t[p]
  BY DEF Path, Tallies
<1>2. ~Passed(g, t)
  BY <1>1 DEF Passed
<1>3. PICK q \in Players : g[q] # t[q]
  BY <1>1 DEF Tallies
<1>4. g[q] < t[q]
  BY <1>1, <1>3
<1>5. w \in Players /\ g[w] < t[w] /\ (g[Opponent(w)] < t[Opponent(w)] => g[w] <= g[Opponent(w)])
  <2>1. CASE g[Opponent(q)] < t[Opponent(q)]
    <3>1. need = {"A", "B"}
      BY <1>3, <1>4, <2>1 DEF Players, Opponent
    <3>2. Cardinality(need) = 2
      <4>1. IsFiniteSet({"A"}) /\ Cardinality({"A"}) = 1
        BY FS_Singleton
      <4>2. Cardinality({"A"} \cup {"B"}) = 1 + 1
        <5>1. "B" \notin {"A"}
          OBVIOUS
        <5> QED BY <4>1, <5>1, FS_AddElement
      <4>3. {"A"} \cup {"B"} = {"A", "B"}
        OBVIOUS
      <4> QED BY <3>1, <4>2, <4>3
    <3>3. w = CanonicalGameWinner(g)
      BY <3>2 DEF PickNeeded
    <3> QED BY <1>1, <3>1, <3>3 DEF CanonicalGameWinner, Players, Opponent
  <2>2. CASE ~(g[Opponent(q)] < t[Opponent(q)])
    <3>1. need = {q}
      BY <1>3, <1>4, <2>2 DEF Players, Opponent
    <3>2. Cardinality(need) = 1
      BY <3>1, FS_Singleton
    <3>3. w = CHOOSE p \in need : TRUE
      BY <3>2 DEF PickNeeded
    <3>4. w = q
      BY <3>1, <3>3
    <3> QED BY <1>3, <1>4, <2>2, <3>4
  <2> QED BY <2>1, <2>2
<1> HIDE DEF w
<1>6. Path(Plus(g, w), t)
  <2>1. /\ Plus(g, w) \in Tallies /\ Plus(g, w)[w] = g[w] + 1
        /\ Plus(g, w)[Opponent(w)] = g[Opponent(w)]
    BY <1>1, <1>5, TallyPlus
  <2>2. \A p \in Players : p = w \/ p = Opponent(w)
    BY <1>5, Opponents
  <2>3. Opponent(w) \in Players /\ Opponent(Opponent(w)) = w
    BY <1>5, Opponents
  <2>4. /\ g[w] > g[Opponent(w)] + 1 => g[Opponent(w)] = t[Opponent(w)]
        /\ g[Opponent(w)] > g[w] + 1 => g[w] = t[w]
    BY <1>5, <2>3 DEF Path
  <2> QED BY <1>1, <1>5, <2>1, <2>2, <2>3, <2>4 DEF Path
<1> QED BY <1>2, <1>5, <1>6 DEF w

\* Who is two ahead on the way is as far ahead at the end.
LEMMA PathWins ==
  ASSUME NEW t \in Tallies, NEW g, Path(g, t), NEW w \in Players,
         g[w] - g[Opponent(w)] >= 2
  PROVE  t[w] >= g[w] /\ t[Opponent(w)] = g[Opponent(w)]
<1>1. Opponent(w) \in Players
  BY Opponents
<1>2. /\ g[w] \in Nat /\ t[w] \in Nat /\ g[Opponent(w)] \in Nat /\ t[Opponent(w)] \in Nat
  BY <1>1 DEF Path, Tallies
<1> QED BY <1>1, <1>2 DEF Path

-----------------------------------------------------------------------------
(* A match in terms of the start of its set.                                *)

\* Between two sets, nobody having won the match.
SetStart(b) ==
  /\ b \in Matches /\ ~Done(b) /\ b.current = NewSet
  /\ \A p \in Players : b.setsWon[p] < SetsToWin

\* The server of the next game when n have been played in the set.
ServerAfter(b, n) == IF n % 2 = 0 THEN b.server ELSE Opponent(b.server)

InSet(b, g) ==
  [b EXCEPT !.current = [NewSet EXCEPT !.games = g],
            !.server = ServerAfter(b, g["A"] + g["B"])]

\* The games when the tiebreak begins, and when w has won it.
AtThreshold == [p \in Players |-> TiebreakAtGamesEach]
TiebreakGames(w) == [p \in Players |-> TiebreakAtGamesEach + IF p = w THEN 1 ELSE 0]

TiebreakAt(b, g) ==
  [games |-> AtThreshold, phase |-> "tiebreak", points |-> g,
   played |-> g["A"] + g["B"], tbFirst |-> b.server]

InTiebreak(b, g) ==
  [b EXCEPT !.current = TiebreakAt(b, g),
            !.server = ServerForTBPoint(g["A"] + g["B"], b.server)]

EndOfSet(b, g, w) ==
  CompleteSet(b, [NewSet EXCEPT !.games = g], Opponent(ServerAfter(b, g["A"] + g["B"])), w)

EndOfTiebreak(b, g, w) ==
  CompleteSet(b, [TiebreakAt(b, g) EXCEPT !.games = TiebreakGames(w)], b.server, w)

LEMMA InSetFacts ==
  ASSUME NEW b, SetStart(b), NEW g
  PROVE  LET m == InSet(b, g)
         IN  /\ m.setsWon = b.setsWon /\ m.completed = b.completed /\ m.winner = b.winner
             /\ m.current = [NewSet EXCEPT !.games = g]
             /\ m.current.games = g /\ m.current.phase = "regular"
             /\ m.server = ServerAfter(b, g["A"] + g["B"])
             /\ CanWinGame(m)
BY DEF InSet, SetStart, Matches, NewSet, CanWinGame, Done

LEMMA InSetShows ==
  ASSUME NEW b, SetStart(b), NEW g
  PROVE  LET m == InSet(b, g)
         IN  /\ m.current.games = g /\ m.current.phase = "regular" /\ CanWinGame(m)
             /\ m.setsWon = b.setsWon /\ m.completed = b.completed
BY DEF InSet, SetStart, Matches, NewSet, CanWinGame, Done

LEMMA InTiebreakFacts ==
  ASSUME NEW b, SetStart(b), NEW g
  PROVE  LET m == InTiebreak(b, g)
         IN  /\ m.setsWon = b.setsWon /\ m.completed = b.completed /\ m.winner = b.winner
             /\ m.current = TiebreakAt(b, g)
             /\ m.current.games = AtThreshold /\ m.current.phase = "tiebreak"
             /\ m.current.points = g /\ m.current.played = g["A"] + g["B"]
             /\ m.current.tbFirst = b.server
             /\ m.server = ServerForTBPoint(g["A"] + g["B"], b.server)
             /\ CanWinTiebreakPoint(m)
BY DEF InTiebreak, SetStart, Matches, TiebreakAt, TiebreakSet, CanWinTiebreakPoint, Done

LEMMA ServerTurns ==
  ASSUME NEW b, SetStart(b), NEW n \in Nat
  PROVE  /\ ServerAfter(b, n) \in Players
         /\ ServerAfter(b, n + 1) = Opponent(ServerAfter(b, n))
         /\ Opponent(ServerAfter(b, n + 1)) = ServerAfter(b, n)
<1>1. b.server \in Players
  BY DEF SetStart, Matches
<1>2. (n + 1) % 2 = IF n % 2 = 0 THEN 1 ELSE 0
  OBVIOUS
<1> QED BY <1>1, <1>2, Opponents DEF ServerAfter

LEMMA GameFromStart ==
  ASSUME NEW b, SetStart(b), NEW g \in Tallies, NEW w \in Players
  PROVE  WinGame(InSet(b, g), w)
           = IF BothAtTiebreak(Plus(g, w)) THEN InTiebreak(b, Zero)
             ELSE IF WinsSet(Plus(g, w), w) THEN EndOfSet(b, Plus(g, w), w)
             ELSE InSet(b, Plus(g, w))
<1> DEFINE m == InSet(b, g)
           h == Plus(g, w)
           n == g["A"] + g["B"]
           next == Opponent(ServerAfter(b, n))
<1>1. /\ m.setsWon = b.setsWon /\ m.completed = b.completed /\ m.winner = b.winner
      /\ m.current = [NewSet EXCEPT !.games = g] /\ m.current.games = g
      /\ m.server = ServerAfter(b, n)
  BY InSetFacts
<1>2. /\ h \in Tallies /\ h["A"] + h["B"] = n + 1 /\ n \in Nat
  <2>1. n \in Nat
    BY DEF Tallies, Players
  <2> QED BY <2>1, TallyPlus
<1>3. ServerAfter(b, n + 1) = next /\ Opponent(ServerAfter(b, n + 1)) = ServerAfter(b, n)
  BY <1>2, ServerTurns
<1>4. h = [g EXCEPT ![w] = @ + 1]
  BY DEF Plus
<1>5. [m.current EXCEPT !.games = h] = [NewSet EXCEPT !.games = h]
  <2> HIDE DEF m, h
  <2> QED BY <1>1 DEF NewSet
<1>6. /\ \A x, y : [m EXCEPT !.current = x, !.server = y] = [b EXCEPT !.current = x, !.server = y]
      /\ \A x, y : CompleteSet(m, x, y, w) = CompleteSet(b, x, y, w)
  <2>1. b \in Matches
    BY DEF SetStart
  <2>2. \A x, y : [m EXCEPT !.current = x, !.server = y] = [b EXCEPT !.current = x, !.server = y]
    BY <2>1 DEF InSet, Matches
  <2> HIDE DEF m
  <2>3. \A x, y : CompleteSet(m, x, y, w) = CompleteSet(b, x, y, w)
    BY <1>1 DEF CompleteSet
  <2> QED BY <2>2, <2>3
<1>7. WinGame(m, w)
        = IF BothAtTiebreak(h) THEN [b EXCEPT !.current = TiebreakSet(h, next), !.server = next]
          ELSE IF WinsSet(h, w) THEN CompleteSet(b, [NewSet EXCEPT !.games = h], ServerAfter(b, n), w)
          ELSE [b EXCEPT !.current = [NewSet EXCEPT !.games = h], !.server = next]
  <2>1. WinGame(m, w)
          = IF BothAtTiebreak(h) THEN [m EXCEPT !.current = TiebreakSet(h, next), !.server = next]
            ELSE IF WinsSet(h, w) THEN CompleteSet(m, [m.current EXCEPT !.games = h], m.server, w)
            ELSE [m EXCEPT !.current = [m.current EXCEPT !.games = h], !.server = next]
    <3> HIDE DEF m, h
    <3> QED BY <1>1, <1>4, Zenon DEF WinGame
  <2> HIDE DEF m, h
  <2> QED BY <1>1, <1>5, <1>6, <2>1, Zenon
<1>8. ASSUME BothAtTiebreak(h)
      PROVE  [b EXCEPT !.current = TiebreakSet(h, next), !.server = next] = InTiebreak(b, Zero)
  <2>1. h = AtThreshold /\ n + 1 = 2 * TiebreakAtGamesEach
    BY <1>2, <1>8, FormatAssumption DEF BothAtTiebreak, AtThreshold, Tallies, Players
  <2>2. next = b.server
    <3>1. ServerAfter(b, n + 1) = b.server
      BY <2>1, FormatAssumption DEF ServerAfter
    <3> QED BY <1>3, <3>1
  <2>3. Zero["A"] + Zero["B"] = 0
    BY DEF Zero, Players
  <2>4. ServerForTBPoint(0, b.server) = b.server
    BY DEF ServerForTBPoint
  <2>5. TiebreakSet(AtThreshold, b.server) = TiebreakAt(b, Zero)
    BY <2>3, Zenon DEF TiebreakSet, TiebreakAt
  <2> HIDE DEF h, n, next
  <2> QED BY <2>1, <2>2, <2>3, <2>4, <2>5, Zenon DEF InTiebreak
<1>9. [b EXCEPT !.current = [NewSet EXCEPT !.games = h], !.server = next] = InSet(b, h)
  <2> HIDE DEF h, n, next
  <2> QED BY <1>2, <1>3, Zenon DEF InSet
<1>10. CompleteSet(b, [NewSet EXCEPT !.games = h], ServerAfter(b, n), w) = EndOfSet(b, h, w)
  <2> HIDE DEF h, n, next
  <2> QED BY <1>2, <1>3, Zenon DEF EndOfSet
<1> HIDE DEF m, h, n, next
<1>11. WinGame(m, w) = IF BothAtTiebreak(h) THEN InTiebreak(b, Zero)
                       ELSE IF WinsSet(h, w) THEN EndOfSet(b, h, w) ELSE InSet(b, h)
  BY <1>7, <1>8, <1>9, <1>10, Zenon
<1> QED BY <1>11 DEF m, h

\* The updates of a point, and of the last point.
Counted(set, h, n) == [set EXCEPT !.points = h, !.played = n]
CountedLast(set, games, h, n) ==
  [set EXCEPT !.games = games, !.points = h, !.played = n]
WithGames(set, games) == [set EXCEPT !.games = games]

LEMMA PointCounted ==
  ASSUME NEW b, NEW g, NEW h, NEW games, NEW n, n = h["A"] + h["B"]
  PROVE  /\ Counted(TiebreakAt(b, g), h, n) = TiebreakAt(b, h)
         /\ CountedLast(TiebreakAt(b, g), games, h, n) = WithGames(TiebreakAt(b, h), games)
<1> DEFINE R(x, y, z) == [games |-> x, phase |-> "tiebreak", points |-> y, played |-> z,
                          tbFirst |-> b.server]
           k == g["A"] + g["B"]
<1> HIDE DEF k
<1>1. /\ \A x, y, z, v : [R(x, y, z) EXCEPT !.games = v] = R(v, y, z)
      /\ \A x, y, z, v : [R(x, y, z) EXCEPT !.points = v] = R(x, v, z)
      /\ \A x, y, z, v : [R(x, y, z) EXCEPT !.played = v] = R(x, y, v)
  OBVIOUS
<1>2. TiebreakAt(b, g) = R(AtThreshold, g, k) /\ TiebreakAt(b, h) = R(AtThreshold, h, n)
  BY Zenon DEF TiebreakAt, k
<1> HIDE DEF R
<1>3. /\ [R(AtThreshold, g, k) EXCEPT !.points = h] = R(AtThreshold, h, k)
      /\ [R(AtThreshold, g, k) EXCEPT !.games = games] = R(games, g, k)
      /\ [R(games, g, k) EXCEPT !.points = h] = R(games, h, k)
      /\ [R(AtThreshold, h, k) EXCEPT !.played = n] = R(AtThreshold, h, n)
      /\ [R(games, h, k) EXCEPT !.played = n] = R(games, h, n)
      /\ [R(AtThreshold, h, n) EXCEPT !.games = games] = R(games, h, n)
  BY <1>1
<1>4. [[R(AtThreshold, g, k) EXCEPT !.points = h] EXCEPT !.played = n] = R(AtThreshold, h, n)
  BY <1>3, Zenon
<1>5. [[[R(AtThreshold, g, k) EXCEPT !.games = games] EXCEPT !.points = h] EXCEPT !.played = n]
        = R(games, h, n)
  BY <1>3, Zenon
<1> QED BY <1>2, <1>3, <1>4, <1>5, Zenon DEF Counted, CountedLast, WithGames

LEMMA PointFromStart ==
  ASSUME NEW b, SetStart(b), NEW g \in Tallies, NEW w \in Players
  PROVE  WinTiebreakPoint(InTiebreak(b, g), w)
           = IF WinsTiebreak(Plus(g, w), w, TiebreakTarget(b.setsWon))
             THEN EndOfTiebreak(b, Plus(g, w), w)
             ELSE InTiebreak(b, Plus(g, w))
<1> DEFINE m == InTiebreak(b, g)
           h == Plus(g, w)
           n == g["A"] + g["B"]
<1>1. /\ m.setsWon = b.setsWon /\ m.completed = b.completed /\ m.winner = b.winner
      /\ m.current = TiebreakAt(b, g) /\ m.current.points = g /\ m.current.played = n
      /\ m.current.tbFirst = b.server
  BY InTiebreakFacts
<1>2. h \in Tallies /\ h["A"] + h["B"] = n + 1
  BY TallyPlus
<1>3. h = [g EXCEPT ![w] = @ + 1]
  BY DEF Plus
<1>4. /\ [m.current EXCEPT !.points = h, !.played = n + 1] = TiebreakAt(b, h)
      /\ [m.current EXCEPT !.games = TiebreakGames(w), !.points = h, !.played = n + 1]
           = [TiebreakAt(b, h) EXCEPT !.games = TiebreakGames(w)]
  <2> HIDE DEF m, h, n
  <2>1. n + 1 = h["A"] + h["B"]
    BY <1>2
  <2> DEFINE k == n + 1
  <2> HIDE DEF k
  <2>2. k = h["A"] + h["B"]
    BY <2>1 DEF k
  <2>3. /\ Counted(TiebreakAt(b, g), h, k) = TiebreakAt(b, h)
        /\ CountedLast(TiebreakAt(b, g), TiebreakGames(w), h, k)
             = WithGames(TiebreakAt(b, h), TiebreakGames(w))
    BY <2>2, PointCounted
  <2> QED BY <1>1, <2>3, Zenon DEF k, Counted, CountedLast, WithGames
<1>5. /\ \A x, y : [m EXCEPT !.current = x, !.server = y] = [b EXCEPT !.current = x, !.server = y]
      /\ \A x, y : CompleteSet(m, x, y, w) = CompleteSet(b, x, y, w)
  <2>1. b \in Matches
    BY DEF SetStart
  <2>2. \A x, y : [m EXCEPT !.current = x, !.server = y] = [b EXCEPT !.current = x, !.server = y]
    BY <2>1 DEF InTiebreak, Matches
  <2> HIDE DEF m
  <2>3. \A x, y : CompleteSet(m, x, y, w) = CompleteSet(b, x, y, w)
    BY <1>1 DEF CompleteSet
  <2> QED BY <2>2, <2>3
<1>6. WinTiebreakPoint(m, w)
        = IF WinsTiebreak(h, w, TiebreakTarget(m.setsWon))
          THEN CompleteSet(m, [m.current EXCEPT !.games = TiebreakGames(w), !.points = h,
                                                !.played = n + 1], b.server, w)
          ELSE [m EXCEPT !.current = [m.current EXCEPT !.points = h, !.played = n + 1],
                         !.server = ServerForTBPoint(n + 1, b.server)]
  <2> HIDE DEF m, h, n
  <2> QED BY <1>1, <1>3, Zenon DEF WinTiebreakPoint, TiebreakGames
<1>7. [b EXCEPT !.current = TiebreakAt(b, h), !.server = ServerForTBPoint(n + 1, b.server)]
        = InTiebreak(b, h)
  <2> HIDE DEF h, n
  <2> QED BY <1>2, Zenon DEF InTiebreak
<1> HIDE DEF m, h, n
<1>8. WinTiebreakPoint(m, w)
        = IF WinsTiebreak(h, w, TiebreakTarget(b.setsWon)) THEN EndOfTiebreak(b, h, w)
          ELSE InTiebreak(b, h)
  BY <1>1, <1>4, <1>5, <1>6, <1>7, Zenon DEF EndOfTiebreak
<1> QED BY <1>8 DEF m, h

-----------------------------------------------------------------------------
(* What the loops of the replay end with.                                   *)

\* The match e that a set with these games leaves, won by w: every game passes
\* the service on, and the tiebreak is one.
EndsSet(e, b, games, w) ==
  /\ e = [setsWon |-> e.setsWon, completed |-> e.completed, current |-> e.current,
          server |-> e.server, winner |-> e.winner]
  /\ e.setsWon = Plus(b.setsWon, w)
  /\ e.completed = Append(b.completed, games)
  /\ Done(e) <=> b.setsWon[w] + 1 >= SetsToWin
  /\ ~Done(e) => /\ e.current = NewSet /\ e.winner = NoPlayer
                 /\ e.server = ServerAfter(b, games["A"] + games["B"])
  /\ Done(e) => e.winner = w
  /\ LastSetIs(e, games) = Replayed(e)
  /\ Len(e.completed) # Len(b.completed)

LEMMA EndFacts ==
  ASSUME NEW b, SetStart(b), NEW set, NEW server \in Players, NEW w \in Players,
         NEW games, set.games = games,
         Opponent(server) = ServerAfter(b, games["A"] + games["B"])
  PROVE  EndsSet(CompleteSet(b, set, server, w), b, games, w)
<1> DEFINE e == CompleteSet(b, set, server, w)
           won == [b.setsWon EXCEPT ![w] = @ + 1]
<1>1. b.setsWon \in [Players -> 0 .. SetsToWin] /\ b.completed \in Seq(Games)
  BY DEF SetStart, Matches
<1>2. won[w] = b.setsWon[w] + 1
  BY <1>1
<1>3. w # NoPlayer
  BY DEF Players, NoPlayer
<1> HIDE DEF won
<1>4. /\ e.setsWon = won
      /\ e.completed = Append(b.completed, set.games)
      /\ e.winner = IF won[w] >= SetsToWin THEN w ELSE NoPlayer
      /\ ~(won[w] >= SetsToWin) => e.current = NewSet /\ e.server = Opponent(server)
  BY DEF CompleteSet, won
<1> HIDE DEF e
<1>5. /\ Len(b.completed) \in Nat
      /\ Len(e.completed) = Len(b.completed) + 1
      /\ e.completed[Len(e.completed)] = set.games
  BY <1>1, <1>4
<1>6. e.setsWon = Plus(b.setsWon, w)
  BY <1>4 DEF won, Plus
<1>7. /\ Done(e) <=> b.setsWon[w] + 1 >= SetsToWin
      /\ ~Done(e) => /\ e.current = NewSet /\ e.server = Opponent(server)
                     /\ e.winner = NoPlayer
      /\ Done(e) => e.winner = w
  BY <1>2, <1>3, <1>4 DEF Done
<1>8. LastSetIs(e, set.games) = Replayed(e)
  BY <1>5 DEF LastSetIs
<1>9. Len(e.completed) # Len(b.completed)
  BY <1>5
<1>10. e.completed = Append(b.completed, set.games)
  BY <1>4
<1>11. e = [setsWon |-> e.setsWon, completed |-> e.completed, current |-> e.current,
            server |-> e.server, winner |-> e.winner]
  BY Zenon DEF e, CompleteSet
<1> HIDE DEF e
<1>12. EndsSet(e, b, games, w)
  BY <1>6, <1>7, <1>8, <1>9, <1>10, <1>11 DEF EndsSet
<1> QED BY <1>12 DEF e

LEMMA EndOfSetFacts ==
  ASSUME NEW b, SetStart(b), NEW t \in Tallies, NEW w \in Players
  PROVE  EndsSet(EndOfSet(b, t, w), b, t, w)
<1> DEFINE set == [NewSet EXCEPT !.games = t]
           server == Opponent(ServerAfter(b, t["A"] + t["B"]))
<1>1. EndOfSet(b, t, w) = CompleteSet(b, set, server, w)
  BY DEF EndOfSet
<1>2. set.games = t
  BY DEF NewSet
<1>3. server \in Players /\ Opponent(server) = ServerAfter(b, t["A"] + t["B"])
  <2>1. t["A"] + t["B"] \in Nat
    BY DEF Tallies, Players
  <2> QED BY <2>1, ServerTurns, Opponents
<1> HIDE DEF set, server
<1> QED BY <1>1, <1>2, <1>3, EndFacts

LEMMA EndOfTiebreakFacts ==
  ASSUME NEW b, SetStart(b), NEW g, NEW w \in Players
  PROVE  EndsSet(EndOfTiebreak(b, g, w), b, TiebreakGames(w), w)
<1> DEFINE set == [TiebreakAt(b, g) EXCEPT !.games = TiebreakGames(w)]
           games == TiebreakGames(w)
           server == b.server
<1>1. EndOfTiebreak(b, g, w) = CompleteSet(b, set, server, w)
  BY DEF EndOfTiebreak
<1>2. set.games = games
  BY DEF TiebreakAt
<1>3. server \in Players
  BY DEF SetStart, Matches
<1>4. Opponent(server) = ServerAfter(b, games["A"] + games["B"])
  <2>1. games["A"] + games["B"] = 2 * TiebreakAtGamesEach + 1
    BY FormatAssumption DEF TiebreakGames, Players
  <2>2. (2 * TiebreakAtGamesEach + 1) % 2 = 1
    BY FormatAssumption
  <2> QED BY <2>1, <2>2 DEF ServerAfter
<1> HIDE DEF set, games, server
<1>5. EndsSet(CompleteSet(b, set, server, w), b, games, w)
  BY <1>2, <1>3, <1>4, EndFacts
<1> QED BY <1>1, <1>5 DEF games

LEMMA TurnsOfLoops ==
  ASSUME NEW m, NEW x, NEW t
  PROVE  /\ ReplayTurn(Replaying(x), Goal(m, "games", t)) = RegularGamesTurn(x, Goal(m, "games", t))
         /\ ReplayTurn(Replaying(x), Goal(m, "set", t)) = CompleteSetTurn(x, Goal(m, "set", t))
         /\ ReplayTurn(Replaying(x), Goal(m, "points", t)) = TiebreakPointsTurn(x, Goal(m, "points", t))
         /\ ReplayTurn(Replaying(x), Goal(m, "tiebreak", t))
              = CompleteTiebreakTurn(x, Goal(m, "tiebreak", t))
         /\ \A loop : Goal(m, loop, t).target = t /\ Goal(m, loop, t).before = Len(m.completed)
<1>1. /\ Replaying(x).err = "replaying" /\ Replaying(x).match = x
      /\ \A loop : /\ Goal(m, loop, t).loop = loop /\ Goal(m, loop, t).target = t
                   /\ Goal(m, loop, t).before = Len(m.completed)
  BY DEF Replaying, Goal
<1> QED BY <1>1 DEF ReplayTurn

\* There are turns enough.
LEMMA TurnsEnough ==
  ASSUME NEW t \in Tallies
  PROVE  /\ MostTurns(t) \in Nat /\ t["A"] + t["B"] \in Nat
         /\ t["A"] + t["B"] < MostTurns(t)
         /\ 2 * TiebreakPointsToWin < MostTurns(t)
         /\ 2 * FinalSetTiebreakPointsToWin < MostTurns(t)
<1>1. t["A"] \in Nat /\ t["B"] \in Nat
  BY DEF Tallies, Players
<1> QED BY <1>1, FormatAssumption DEF MostTurns

LEMMA PathBelow ==
  ASSUME NEW t \in Tallies, NEW g, Path(g, t)
  PROVE  g["A"] + g["B"] <= t["A"] + t["B"]
BY DEF Path, Tallies, Players

LEMMA StartsAtZero ==
  ASSUME NEW b, SetStart(b)
  PROVE  InSet(b, Zero) = b
<1>1. ServerAfter(b, Zero["A"] + Zero["B"]) = b.server
  BY DEF ServerAfter, Zero, Players
<1>2. [NewSet EXCEPT !.games = Zero] = NewSet
  BY DEF NewSet
<1>3. [b EXCEPT !.current = NewSet, !.server = b.server] = b
  <2>1. /\ b = [setsWon |-> b.setsWon, completed |-> b.completed, current |-> b.current,
                server |-> b.server, winner |-> b.winner]
        /\ b.current = NewSet
    BY Zenon DEF SetStart, Matches
  <2> QED BY <2>1
<1> QED BY <1>1, <1>2, <1>3, Zenon DEF InSet

\* Nothing on the way to an open score ends the set or enters the tiebreak.
LEMMA PathOpen ==
  ASSUME NEW t \in Tallies, OpenGames(t), NEW g, Path(g, t)
  PROVE  OpenGames(g)
<1>1. \A p \in Players : /\ g[p] \in Nat /\ t[p] \in Nat /\ g[p] <= t[p]
                         /\ t[p] <= GamesPerSet /\ Opponent(p) \in Players
  BY Opponents DEF Path, Tallies, OpenGames
<1>2. ~BothAtTiebreak(g)
  BY <1>1, FormatAssumption DEF BothAtTiebreak, OpenGames
<1>3. ASSUME NEW p \in Players PROVE ~WinsSet(g, p)
  <2> SUFFICES ASSUME WinsSet(g, p) PROVE FALSE
    OBVIOUS
  <2>1. g[p] >= GamesPerSet /\ g[p] - g[Opponent(p)] >= 2
    BY FormatAssumption DEF WinsSet
  <2>2. t[p] >= g[p] /\ t[Opponent(p)] = g[Opponent(p)]
    BY <2>1, PathWins
  <2>3. WinsSet(t, p)
    BY <1>1, <2>1, <2>2, FormatAssumption DEF WinsSet
  <2> QED BY <2>3 DEF OpenGames
<1> QED BY <1>1, <1>2, <1>3, FormatAssumption DEF OpenGames

\* A set in progress.
LEMMA GamesReplayed ==
  ASSUME NEW b, SetStart(b), NEW t \in Tallies, OpenGames(t)
  PROVE  Replay(b, "games", t) = Replayed(InSet(b, t))
<1> DEFINE I == {g \in Tallies : Path(g, t)}
           f == [g \in Tallies |-> InSet(b, g)]
           Ends == {Replayed(InSet(b, t))}
           goal == Goal(b, "games", t)
           limit == t["A"] + t["B"]
<1>1. \A r \in Ends : r.err # "replaying"
  BY DEF Replayed
<1>2. Zero \in Tallies /\ Zero \in I /\ f[Zero] = b
  BY PathStart, StartsAtZero DEF Path
<1>3. ASSUME NEW g \in I
      PROVE  LET r == ReplayTurn(Replaying(f[g]), goal)
             IN  \/ r \in Ends
                 \/ /\ g["A"] + g["B"] < limit
                    /\ \E w \in Players : Plus(g, w) \in I /\ r = Replaying(f[Plus(g, w)])
  <2> DEFINE m == InSet(b, g)
             w == PickNeeded(g, t)
             r == ReplayTurn(Replaying(f[g]), goal)
  <2>1. g \in Tallies /\ Path(g, t) /\ f[g] = m
    OBVIOUS
  <2>2. m.current.games = g /\ m.current.phase = "regular" /\ CanWinGame(m)
    BY InSetShows
  <2>3. r = RegularGamesTurn(m, goal) /\ goal.target = t
    BY <2>1, TurnsOfLoops
  <2> HIDE DEF r, m, goal, w
  <2>4. r = IF g = t THEN Replayed(m)
            ELSE IF Passed(g, t) THEN Failed("hydration", m)
            ELSE Replaying(WinGame(m, PickNeeded(g, t)))
    BY <2>2, <2>3 DEF RegularGamesTurn
  <2>5. CASE g = t
    BY <2>4, <2>5 DEF m, r
  <2>6. CASE g # t
    <3>1. ~Passed(g, t) /\ w \in Players /\ Path(Plus(g, w), t)
      BY <2>1, <2>6, PathNeeds DEF w
    <3>2. r = Replaying(WinGame(m, w))
      BY <2>4, <2>6, <3>1 DEF w
    <3>3. OpenGames(Plus(g, w)) /\ Plus(g, w) \in Tallies
      BY <3>1, PathOpen DEF Path
    <3>4. WinGame(m, w) = InSet(b, Plus(g, w))
      BY <2>1, <3>1, <3>3, GameFromStart DEF m, OpenGames
    <3>5. Plus(g, w)["A"] + Plus(g, w)["B"] <= limit
      BY <3>1, PathBelow
    <3>6. g["A"] + g["B"] < limit
      <4>1. Plus(g, w)["A"] + Plus(g, w)["B"] = g["A"] + g["B"] + 1
        BY <2>1, <3>1, TallyPlus
      <4>2. g["A"] \in Nat /\ g["B"] \in Nat /\ t["A"] \in Nat /\ t["B"] \in Nat
        BY <2>1 DEF Tallies, Players
      <4> QED BY <3>5, <4>1, <4>2
    <3>7. Plus(g, w) \in I /\ f[Plus(g, w)] = InSet(b, Plus(g, w))
      BY <3>1, <3>3
    <3> QED BY <3>1, <3>2, <3>4, <3>6, <3>7 DEF r
  <2> QED BY <2>5, <2>6
<1>4. MostTurns(t) \in Nat /\ limit \in Nat /\ limit < MostTurns(t)
  BY TurnsEnough
<1>5. I \in SUBSET Tallies
  OBVIOUS
<1> HIDE DEF I, f, Ends, limit, goal
<1>6. Replay(b, "games", t) \in Ends
  BY <1>1, <1>2, <1>3, <1>4, <1>5, TallyReaches DEF goal
<1> QED BY <1>6 DEF Ends

\* To the tiebreak, and no further.
LEMMA ThresholdReplayed ==
  ASSUME NEW b, SetStart(b), NEW x \in Nat, x >= TiebreakAtGamesEach,
         NEW t, t = [p \in Players |-> x]
  PROVE  Replay(b, "games", t)
           = IF x = TiebreakAtGamesEach THEN Replayed(InTiebreak(b, Zero))
             ELSE Failed("hydration", InTiebreak(b, Zero))
<1> DEFINE I == {g \in Tallies : Path(g, t) /\ \A p \in Players : g[p] <= GamesPerSet}
           f == [g \in Tallies |-> IF BothAtTiebreak(g) THEN InTiebreak(b, Zero) ELSE InSet(b, g)]
           End == IF x = TiebreakAtGamesEach THEN Replayed(InTiebreak(b, Zero))
                  ELSE Failed("hydration", InTiebreak(b, Zero))
           Ends == {End}
           goal == Goal(b, "games", t)
           limit == GamesPerSet + GamesPerSet
<1>1. \A r \in Ends : r.err # "replaying"
  BY DEF Replayed, Failed
<1>2. t \in Tallies /\ \A p \in Players : t[p] = x
  BY DEF Tallies
<1>3. Zero \in Tallies /\ Zero \in I /\ f[Zero] = b
  <2>1. Path(Zero, t)
    BY <1>2, PathStart
  <2>2. Zero \in Tallies /\ \A p \in Players : Zero[p] = 0
    BY DEF Zero, Tallies
  <2>3. ~BothAtTiebreak(Zero)
    BY <2>2, FormatAssumption DEF BothAtTiebreak, Players
  <2> QED BY <2>1, <2>2, <2>3, StartsAtZero, FormatAssumption
<1>4. ASSUME NEW g \in I
      PROVE  LET r == ReplayTurn(Replaying(f[g]), goal)
             IN  \/ r \in Ends
                 \/ /\ g["A"] + g["B"] < limit
                    /\ \E w \in Players : Plus(g, w) \in I /\ r = Replaying(f[Plus(g, w)])
  <2> DEFINE r == ReplayTurn(Replaying(f[g]), goal)
  <2>1. /\ g \in Tallies /\ Path(g, t)
        /\ \A p \in Players : g[p] \in Nat /\ g[p] <= GamesPerSet
    BY DEF Tallies
  <2>2. CASE BothAtTiebreak(g)
    <3> DEFINE m == InTiebreak(b, Zero)
    <3>1. m.current.games = AtThreshold /\ m.current.phase = "tiebreak"
      BY InTiebreakFacts
    <3>2. r = RegularGamesTurn(m, goal) /\ goal.target = t
      BY <2>1, <2>2, TurnsOfLoops
    <3>3. AtThreshold = t <=> x = TiebreakAtGamesEach
      <4>1. AtThreshold["A"] = TiebreakAtGamesEach /\ t["A"] = x
        BY <1>2 DEF AtThreshold, Players
      <4> QED BY <4>1 DEF AtThreshold
    <3> HIDE DEF r, m, goal
    <3>4. r = IF AtThreshold = t THEN Replayed(m) ELSE Failed("hydration", m)
      BY <3>1, <3>2 DEF RegularGamesTurn
    <3> QED BY <3>3, <3>4 DEF r, m
  <2>3. CASE ~BothAtTiebreak(g)
    <3> DEFINE m == InSet(b, g)
               w == PickNeeded(g, t)
    <3>1. m.current.games = g /\ m.current.phase = "regular" /\ CanWinGame(m)
      BY InSetShows
    <3>2. r = RegularGamesTurn(m, goal) /\ goal.target = t
      BY <2>1, <2>3, TurnsOfLoops
    <3>3. g # t
      <4>1. PICK p \in Players : g[p] # TiebreakAtGamesEach
        BY <2>3 DEF BothAtTiebreak
      <4>2. g[p] < x
        BY <2>1, <4>1, FormatAssumption
      <4> QED BY <1>2, <4>2
    <3> HIDE DEF r, m, goal, w
    <3>4. r = IF g = t THEN Replayed(m)
              ELSE IF Passed(g, t) THEN Failed("hydration", m)
              ELSE Replaying(WinGame(m, PickNeeded(g, t)))
      BY <3>1, <3>2 DEF RegularGamesTurn
    <3> DEFINE h == Plus(g, w)
    <3>5. ~Passed(g, t) /\ w \in Players /\ Path(h, t)
      BY <1>2, <2>1, <3>3, PathNeeds DEF w
    <3>6. r = Replaying(WinGame(m, w))
      BY <3>3, <3>4, <3>5 DEF w
    <3>7. /\ h \in Tallies /\ h[w] = g[w] + 1 /\ h[Opponent(w)] = g[Opponent(w)]
          /\ g[w] + g[Opponent(w)] = g["A"] + g["B"]
      BY <2>1, <3>5, TallyPlus
    <3>8. /\ Opponent(w) \in Players /\ Opponent(Opponent(w)) = w
          /\ \A p \in Players : p = w \/ p = Opponent(w)
      BY <3>5, Opponents
    <3>9. g[w] \in Nat /\ g[Opponent(w)] \in Nat /\ g[w] <= GamesPerSet /\ g[Opponent(w)] <= GamesPerSet
      BY <2>1, <3>5, <3>8
    <3>10. g[w] < GamesPerSet \/ g[Opponent(w)] < GamesPerSet
      <4>1. ~(g[w] = TiebreakAtGamesEach /\ g[Opponent(w)] = TiebreakAtGamesEach)
        BY <2>3, <3>8 DEF BothAtTiebreak
      <4> QED BY <3>9, <4>1, FormatAssumption
    <3> HIDE DEF h
    <3>11. /\ h[w] > h[Opponent(w)] + 1 => h[Opponent(w)] = x
           /\ h[Opponent(w)] > h[w] + 1 => h[w] = x
      BY <1>2, <3>5, <3>8 DEF Path
    <3>12. h[w] <= GamesPerSet
      BY <3>7, <3>9, <3>10, <3>11, FormatAssumption
    <3>13. /\ ~(h[w] - h[Opponent(w)] >= 2) /\ ~(h[Opponent(w)] - h[w] >= 2)
      BY <3>7, <3>9, <3>11, <3>12, FormatAssumption
    <3>14. ~WinsSet(h, w)
      BY <3>13, FormatAssumption DEF WinsSet
    <3>15. h \in I
      <4>1. \A p \in Players : h[p] <= GamesPerSet
        BY <3>7, <3>8, <3>9, <3>12
      <4> QED BY <3>5, <3>7, <4>1
    <3>16. g["A"] + g["B"] < limit
      BY <3>7, <3>9, <3>10, FormatAssumption
    <3>17. WinGame(m, w) = IF BothAtTiebreak(h) THEN InTiebreak(b, Zero) ELSE InSet(b, h)
      BY <2>1, <3>5, <3>14, GameFromStart DEF m, h
    <3>18. f[h] = WinGame(m, w)
      BY <3>7, <3>17
    <3> QED BY <3>5, <3>6, <3>15, <3>16, <3>18 DEF r, h
  <2> QED BY <2>2, <2>3
<1>5. MostTurns(t) \in Nat /\ limit \in Nat /\ limit < MostTurns(t)
  <2>1. t["A"] = x /\ t["B"] = x
    BY DEF Players
  <2> QED BY <1>2, <2>1, FormatAssumption, TurnsEnough
<1>6. I \in SUBSET Tallies
  OBVIOUS
<1> HIDE DEF I, f, Ends, limit, goal
<1>7. Replay(b, "games", t) \in Ends
  BY <1>1, <1>3, <1>4, <1>5, <1>6, TallyReaches DEF goal
<1> QED BY <1>7 DEF Ends

\* A set won without a tiebreak.
LEMMA SetReplayed ==
  ASSUME NEW b, SetStart(b), NEW t \in Tallies, LegalSet(t),
         NEW w \in Players, WinsSet(t, w)
  PROVE  Replay(b, "set", t) = Replayed(EndOfSet(b, t, w))
<1> DEFINE I == {g \in Tallies : Path(g, t)}
           f == [g \in Tallies |-> IF g = t THEN EndOfSet(b, t, w) ELSE InSet(b, g)]
           Ends == {Replayed(EndOfSet(b, t, w))}
           goal == Goal(b, "set", t)
           limit == t["A"] + t["B"]
           o == Opponent(w)
<1>1. \A r \in Ends : r.err # "replaying"
  BY DEF Replayed
<1>2. /\ o \in Players /\ Opponent(o) = w /\ o # w
      /\ \A p \in Players : p = w \/ p = o
      /\ t[w] \in Nat /\ t[o] \in Nat
  BY Opponents DEF Tallies
<1>3. /\ t[o] <= GamesPerSet - 1 /\ t[w] >= GamesPerSet /\ t[w] - t[o] >= 2
      /\ t[w] = GamesPerSet \/ (t[w] = GamesPerSet + 1 /\ t[o] = GamesPerSet - 1)
  <2>1. t[w] >= GamesPerSet /\ t[w] - t[o] >= 2
    BY FormatAssumption DEF WinsSet
  <2> QED BY <1>2, <2>1, FormatAssumption DEF LegalSet
<1>4. Zero \in Tallies /\ Zero \in I /\ f[Zero] = b
  <2>1. Path(Zero, t) /\ Zero \in Tallies
    BY PathStart DEF Path
  <2>2. Zero # t
    <3>1. Zero[w] = 0
      BY DEF Zero
    <3> QED BY <1>3, <3>1, FormatAssumption
  <2> QED BY <2>1, <2>2, StartsAtZero
<1>5. ASSUME NEW g \in I
      PROVE  LET r == ReplayTurn(Replaying(f[g]), goal)
             IN  \/ r \in Ends
                 \/ /\ g["A"] + g["B"] < limit
                    /\ \E v \in Players : Plus(g, v) \in I /\ r = Replaying(f[Plus(g, v)])
  <2> DEFINE r == ReplayTurn(Replaying(f[g]), goal)
  <2>1. g \in Tallies /\ Path(g, t)
    OBVIOUS
  <2>2. CASE g = t
    <3> DEFINE m == EndOfSet(b, t, w)
    <3>1. LastSetIs(m, t) = Replayed(m) /\ Len(m.completed) # Len(b.completed)
      BY EndOfSetFacts DEF EndsSet
    <3>2. r = CompleteSetTurn(m, goal) /\ goal.target = t /\ goal.before = Len(b.completed)
      BY <2>1, <2>2, TurnsOfLoops
    <3> HIDE DEF r, m, goal
    <3>3. r = Replayed(m)
      BY <3>1, <3>2 DEF CompleteSetTurn
    <3> QED BY <3>3 DEF r, m
  <2>3. CASE g # t
    <3> DEFINE m == InSet(b, g)
               v == PickNeeded(g, t)
    <3>1. /\ m.current.games = g /\ m.current.phase = "regular" /\ CanWinGame(m)
          /\ m.completed = b.completed
      BY InSetShows
    <3>2. r = CompleteSetTurn(m, goal) /\ goal.target = t /\ goal.before = Len(b.completed)
      BY <2>1, <2>3, TurnsOfLoops
    <3> HIDE DEF r, m, goal, v
    <3>3. r = Replaying(WinGame(m, v))
      BY <3>1, <3>2 DEF CompleteSetTurn, v
    <3> DEFINE h == Plus(g, v)
    <3>4. v \in Players /\ Path(h, t)
      BY <2>1, <2>3, PathNeeds DEF v
    <3>5. /\ h \in Tallies /\ h[v] = g[v] + 1 /\ h[Opponent(v)] = g[Opponent(v)]
          /\ h["A"] + h["B"] = g["A"] + g["B"] + 1
      BY <2>1, <3>4, TallyPlus
    <3>6. h[w] \in Nat /\ h[o] \in Nat /\ g[w] \in Nat /\ g[o] \in Nat
      BY <1>2, <2>1, <3>5 DEF Tallies
    <3>7. h["A"] + h["B"] <= limit /\ g["A"] + g["B"] < limit
      <4>1. h["A"] + h["B"] <= limit
        BY <3>4, PathBelow
      <4>2. g["A"] \in Nat /\ g["B"] \in Nat /\ t["A"] \in Nat /\ t["B"] \in Nat
        BY <2>1 DEF Tallies, Players
      <4> QED BY <3>5, <4>1, <4>2
    <3>8. WinGame(m, v) = IF BothAtTiebreak(h) THEN InTiebreak(b, Zero)
                          ELSE IF WinsSet(h, v) THEN EndOfSet(b, h, v) ELSE InSet(b, h)
      BY <2>1, <3>4, GameFromStart DEF m
    <3> HIDE DEF h
    <3>9. h[o] <= t[o] /\ h[w] <= t[w]
      BY <1>2, <3>4 DEF Path
    <3>10. ~BothAtTiebreak(h)
      BY <1>2, <1>3, <3>6, <3>9, FormatAssumption DEF BothAtTiebreak
    <3>11. CASE h = t
      <4>1. v = w
        <5> SUFFICES ASSUME v = o PROVE FALSE
          BY <1>2, <3>4
        <5>1. g[w] = t[w] /\ t[o] = g[o] + 1
          BY <1>2, <3>5, <3>11
        <5>2. g[w] > g[o] + 1
          BY <1>3, <3>6, <5>1
        <5>3. g[o] = t[o]
          BY <2>1, <5>2 DEF Path
        <5> QED BY <3>6, <5>1, <5>3
      <4>2. WinGame(m, v) = EndOfSet(b, t, w)
        BY <3>8, <3>10, <3>11, <4>1
      <4>3. f[h] = EndOfSet(b, t, w)
        BY <3>5, <3>11
      <4> QED BY <3>3, <3>4, <3>5, <3>7, <4>2, <4>3 DEF r, h
    <3>12. CASE h # t
      <4>1. ~WinsSet(h, v)
        <5> SUFFICES ASSUME WinsSet(h, v) PROVE FALSE
          OBVIOUS
        <5>1. h[v] >= GamesPerSet /\ h[v] - h[Opponent(v)] >= 2
          BY FormatAssumption DEF WinsSet
        <5>2. v = w
          BY <1>2, <1>3, <3>4, <3>6, <3>9, <5>1, FormatAssumption
        <5>3. t[w] >= h[w] /\ t[o] = h[o]
          BY <3>4, <5>1, <5>2, PathWins
        <5>4. t[w] # h[w]
          <6> SUFFICES ASSUME t[w] = h[w] PROVE FALSE
            OBVIOUS
          <6>1. \A p \in Players : h[p] = t[p]
            BY <1>2, <5>3
          <6> QED BY <3>5, <3>12, <6>1 DEF Tallies
        <5> QED BY <1>2, <1>3, <3>6, <5>1, <5>2, <5>3, <5>4, FormatAssumption
      <4>2. WinGame(m, v) = InSet(b, h)
        BY <3>8, <3>10, <4>1
      <4>3. f[h] = InSet(b, h)
        BY <3>5, <3>12
      <4> QED BY <3>3, <3>4, <3>5, <3>7, <4>2, <4>3 DEF r, h
    <3> QED BY <3>11, <3>12
  <2> QED BY <2>2, <2>3
<1>6. MostTurns(t) \in Nat /\ limit \in Nat /\ limit < MostTurns(t)
  BY TurnsEnough
<1>7. I \in SUBSET Tallies
  OBVIOUS
<1> HIDE DEF I, f, Ends, limit, goal
<1>8. Replay(b, "set", t) \in Ends
  BY <1>1, <1>4, <1>5, <1>6, <1>7, TallyReaches DEF goal
<1> QED BY <1>8 DEF Ends

\* A tiebreak in progress.
LEMMA PointsReplayed ==
  ASSUME NEW b, SetStart(b), NEW t \in Tallies,
         \A w \in Players : ~WinsTiebreak(t, w, TiebreakTarget(b.setsWon))
  PROVE  Replay(InTiebreak(b, Zero), "points", t) = Replayed(InTiebreak(b, t))
<1> DEFINE I == {g \in Tallies : Path(g, t)}
           f == [g \in Tallies |-> InTiebreak(b, g)]
           Ends == {Replayed(InTiebreak(b, t))}
           start == InTiebreak(b, Zero)
           goal == Goal(start, "points", t)
           limit == t["A"] + t["B"]
           T == TiebreakTarget(b.setsWon)
<1>1. \A r \in Ends : r.err # "replaying"
  BY DEF Replayed
<1>2. Zero \in Tallies /\ Zero \in I /\ f[Zero] = start
  BY PathStart DEF Path
<1>3. T \in Nat
  BY FormatAssumption DEF TiebreakTarget
<1>4. ASSUME NEW g \in I
      PROVE  LET r == ReplayTurn(Replaying(f[g]), goal)
             IN  \/ r \in Ends
                 \/ /\ g["A"] + g["B"] < limit
                    /\ \E w \in Players : Plus(g, w) \in I /\ r = Replaying(f[Plus(g, w)])
  <2> DEFINE m == InTiebreak(b, g)
             w == PickNeeded(g, t)
             r == ReplayTurn(Replaying(f[g]), goal)
  <2>1. g \in Tallies /\ Path(g, t) /\ f[g] = m
    OBVIOUS
  <2>2. m.current.points = g /\ m.current.phase = "tiebreak" /\ m.completed = b.completed
    BY InTiebreakFacts
  <2>3. start.completed = b.completed
    BY InTiebreakFacts
  <2>4. r = TiebreakPointsTurn(m, goal) /\ goal.target = t /\ goal.before = Len(b.completed)
    <3> HIDE DEF m, start, f
    <3>1. r = TiebreakPointsTurn(m, goal)
      BY <2>1, TurnsOfLoops
    <3>2. goal.target = t /\ goal.before = Len(start.completed)
      BY TurnsOfLoops
    <3> QED BY <2>3, <3>1, <3>2
  <2> HIDE DEF r, m, goal, w, T
  <2>5. r = IF g = t THEN Replayed(m)
            ELSE IF Passed(g, t) THEN Failed("hydration", m)
            ELSE Replaying(WinTiebreakPoint(m, PickNeeded(g, t)))
    BY <2>2, <2>4 DEF TiebreakPointsTurn
  <2>6. CASE g = t
    BY <2>5, <2>6 DEF m, r
  <2>7. CASE g # t
    <3> DEFINE h == Plus(g, w)
    <3>1. ~Passed(g, t) /\ w \in Players /\ Path(h, t)
      BY <2>1, <2>7, PathNeeds DEF w
    <3>2. r = Replaying(WinTiebreakPoint(m, w))
      BY <2>5, <2>7, <3>1 DEF w
    <3>3. h \in Tallies /\ h["A"] + h["B"] = g["A"] + g["B"] + 1
      BY <2>1, <3>1, TallyPlus
    <3>4. g["A"] + g["B"] < limit
      <4>1. h["A"] + h["B"] <= limit
        BY <3>1, PathBelow
      <4>2. g["A"] \in Nat /\ g["B"] \in Nat /\ t["A"] \in Nat /\ t["B"] \in Nat
        BY <2>1 DEF Tallies, Players
      <4> QED BY <3>3, <4>1, <4>2
    <3>5. WinTiebreakPoint(m, w) = IF WinsTiebreak(h, w, T) THEN EndOfTiebreak(b, h, w)
                                   ELSE InTiebreak(b, h)
      BY <2>1, <3>1, PointFromStart DEF m, T
    <3> HIDE DEF h
    <3>6. ~WinsTiebreak(h, w, T)
      <4> SUFFICES ASSUME WinsTiebreak(h, w, T) PROVE FALSE
        OBVIOUS
      <4>1. h[w] >= T /\ h[w] - h[Opponent(w)] >= 2
        BY FormatAssumption DEF WinsTiebreak
      <4>2. t[w] >= h[w] /\ t[Opponent(w)] = h[Opponent(w)]
        BY <3>1, <4>1, PathWins
      <4>3. /\ h[w] \in Nat /\ h[Opponent(w)] \in Nat /\ t[w] \in Nat
        BY <3>1, <3>3, Opponents DEF Tallies
      <4>4. WinsTiebreak(t, w, T)
        BY <1>3, <4>1, <4>2, <4>3, FormatAssumption DEF WinsTiebreak
      <4> QED BY <3>1, <4>4 DEF T
    <3>7. h \in I /\ f[h] = InTiebreak(b, h)
      BY <3>1, <3>3
    <3> QED BY <3>1, <3>2, <3>4, <3>5, <3>6, <3>7 DEF r, h
  <2> QED BY <2>6, <2>7
<1>5. MostTurns(t) \in Nat /\ limit \in Nat /\ limit < MostTurns(t)
  BY TurnsEnough
<1>6. I \in SUBSET Tallies
  OBVIOUS
<1> HIDE DEF I, f, Ends, limit, goal, start
<1>7. Replay(start, "points", t) \in Ends
  BY <1>1, <1>2, <1>4, <1>5, <1>6, TallyReaches DEF goal
<1> QED BY <1>7 DEF Ends, start

\* A tiebreak won: the winner stays a point ahead until the next one is the
\* last.
LEMMA TiebreakReplayed ==
  ASSUME NEW b, SetStart(b), NEW w \in Players
  PROVE  \E g \in Tallies :
           Replay(InTiebreak(b, Zero), "tiebreak", TiebreakGames(w))
             = Replayed(EndOfTiebreak(b, g, w))
<1> DEFINE t == TiebreakGames(w)
           o == Opponent(w)
           T == TiebreakTarget(b.setsWon)
           Level(g) == g[w] = g[o] /\ g[o] < T
           Ahead(g) == g[w] = g[o] + 1 /\ g[o] < T
           Clinched(g) == WinsTiebreak(g, w, T)
           I == {g \in Tallies : Level(g) \/ Ahead(g) \/ Clinched(g)}
           f == [g \in Tallies |-> IF Clinched(g) THEN EndOfTiebreak(b, g, w) ELSE InTiebreak(b, g)]
           Ends == {Replayed(EndOfTiebreak(b, g, w)) : g \in Tallies}
           start == InTiebreak(b, Zero)
           goal == Goal(start, "tiebreak", t)
           limit == T + T
<1>1. \A r \in Ends : r.err # "replaying"
  BY DEF Replayed
<1>2. T \in Nat /\ T > 0
  BY FormatAssumption DEF TiebreakTarget
<1>3. o \in Players /\ Opponent(o) = w /\ o # w /\ \A p \in Players : p = w \/ p = o
  BY Opponents
<1>4. Zero \in Tallies /\ Zero \in I /\ f[Zero] = start
  <2>1. Zero \in Tallies /\ Zero[w] = 0 /\ Zero[o] = 0
    BY <1>3 DEF Zero, Tallies
  <2>2. ~Clinched(Zero)
    BY <1>2, <2>1, FormatAssumption DEF WinsTiebreak
  <2> QED BY <1>2, <2>1, <2>2
<1>5. /\ t \in Tallies
      /\ t[w] = TiebreakAtGamesEach + 1 /\ t[o] = TiebreakAtGamesEach
  BY <1>3, FormatAssumption DEF TiebreakGames, Tallies
<1>6. start.completed = b.completed
  BY InTiebreakFacts
<1>7. ASSUME NEW g \in I
      PROVE  LET r == ReplayTurn(Replaying(f[g]), goal)
             IN  \/ r \in Ends
                 \/ /\ g["A"] + g["B"] < limit
                    /\ \E v \in Players : Plus(g, v) \in I /\ r = Replaying(f[Plus(g, v)])
  <2> DEFINE r == ReplayTurn(Replaying(f[g]), goal)
  <2>1. /\ g \in Tallies /\ (Level(g) \/ Ahead(g) \/ Clinched(g))
        /\ g[w] \in Nat /\ g[o] \in Nat
    BY <1>3 DEF Tallies
  <2>2. CASE Clinched(g)
    <3> DEFINE m == EndOfTiebreak(b, g, w)
    <3>1. LastSetIs(m, t) = Replayed(m) /\ Len(m.completed) # Len(b.completed)
      BY EndOfTiebreakFacts DEF EndsSet
    <3>2. r = CompleteTiebreakTurn(m, goal) /\ goal.target = t /\ goal.before = Len(b.completed)
      <4>1. f[g] = m
        BY <2>1, <2>2
      <4> HIDE DEF m, start, f, t
      <4>2. r = CompleteTiebreakTurn(m, goal)
        BY <4>1, TurnsOfLoops
      <4>3. goal.target = t /\ goal.before = Len(start.completed)
        BY TurnsOfLoops
      <4> QED BY <1>6, <4>2, <4>3
    <3> HIDE DEF r, m, goal, t, T
    <3>3. r = Replayed(m)
      BY <3>1, <3>2 DEF CompleteTiebreakTurn
    <3> QED BY <2>1, <3>3 DEF r, m
  <2>3. CASE ~Clinched(g)
    <3> DEFINE m == InTiebreak(b, g)
               v == PickTiebreakProgressWinner(m, t)
               h == Plus(g, v)
    <3>1. /\ m.current.points = g /\ m.current.phase = "tiebreak" /\ m.completed = b.completed
          /\ m.setsWon = b.setsWon
      BY InTiebreakFacts
    <3>2. r = CompleteTiebreakTurn(m, goal) /\ goal.target = t /\ goal.before = Len(b.completed)
      <4>1. f[g] = m
        BY <2>1, <2>3
      <4> HIDE DEF m, start, f, t
      <4>2. r = CompleteTiebreakTurn(m, goal)
        BY <4>1, TurnsOfLoops
      <4>3. goal.target = t /\ goal.before = Len(start.completed)
        BY TurnsOfLoops
      <4> QED BY <1>6, <4>2, <4>3
    <3>3. r = Replaying(WinTiebreakPoint(m, v))
      <4> HIDE DEF r, m, goal, t
      <4> QED BY <3>1, <3>2 DEF CompleteTiebreakTurn, v
    <3>4. \A p \in Players : p \in TiebreakClinchers(m, t) <=> p = w /\ WinsTiebreak(Plus(g, w), w, T)
      <4>1. TiebreakClinchers(m, t)
              = {p \in Players : WinsTiebreak(Plus(g, p), p, T) /\ t = TiebreakGames(p)}
        <5> HIDE DEF m, t
        <5> QED BY <3>1, Zenon DEF TiebreakClinchers, Plus, TiebreakGames
      <4>2. \A p \in Players : t = TiebreakGames(p) <=> p = w
        <5>1. ASSUME NEW p \in Players, p # w PROVE TiebreakGames(p)[w] = TiebreakAtGamesEach
          BY <5>1, FormatAssumption DEF TiebreakGames
        <5> QED BY <1>5, <5>1, FormatAssumption
      <4> HIDE DEF m, t, T
      <4> QED BY <4>1, <4>2
    <3>5. v = IF WinsTiebreak(Plus(g, w), w, T) THEN w
              ELSE IF g["A"] # g["B"] THEN CanonicalGameWinner(g)
              ELSE IF t["B"] > t["A"] THEN "B" ELSE "A"
      <4>1. CASE WinsTiebreak(Plus(g, w), w, T)
        <5>1. TiebreakClinchers(m, t) = {w}
          <6> HIDE DEF m, t, T
          <6> QED BY <3>4, <4>1 DEF TiebreakClinchers
        <5> HIDE DEF m, t, T
        <5> QED BY <4>1, <5>1 DEF PickTiebreakProgressWinner, v
      <4>2. CASE ~WinsTiebreak(Plus(g, w), w, T)
        <5>1. TiebreakClinchers(m, t) = {}
          <6> HIDE DEF m, t, T
          <6> QED BY <3>4, <4>2 DEF TiebreakClinchers
        <5> HIDE DEF m, t, T
        <5> QED BY <3>1, <4>2, <5>1 DEF PickTiebreakProgressWinner, v
      <4> QED BY <4>1, <4>2
    <3>6. v = IF WinsTiebreak(Plus(g, w), w, T) \/ Level(g) THEN w ELSE o
      <4>1. g["A"] = g["B"] <=> Level(g)
        BY <1>3, <2>1, <2>3 DEF Players, Opponent
      <4>2. (IF t["B"] > t["A"] THEN "B" ELSE "A") = w
        <5> HIDE DEF t
        <5> QED BY <1>5, FormatAssumption DEF Players, Opponent
      <4>3. Ahead(g) => CanonicalGameWinner(g) = o
        BY <2>1 DEF CanonicalGameWinner, Players, Opponent
      <4> HIDE DEF t, T, v
      <4> QED BY <2>1, <2>3, <3>5, <4>1, <4>2, <4>3
    <3>7. v \in Players
      BY <1>3, <3>6
    <3>8. /\ h \in Tallies /\ h[v] = g[v] + 1 /\ h[Opponent(v)] = g[Opponent(v)]
          /\ g[v] + g[Opponent(v)] = g["A"] + g["B"]
      <4> HIDE DEF v
      <4> QED BY <2>1, <3>7, TallyPlus
    <3> HIDE DEF v
    <3>9. WinTiebreakPoint(m, v) = IF WinsTiebreak(h, v, T) THEN EndOfTiebreak(b, h, v)
                                   ELSE InTiebreak(b, h)
      BY <2>1, <3>7, PointFromStart
    <3> HIDE DEF m, h, t, T, r
    <3>10. g["A"] + g["B"] < limit
      <4>1. g[w] + g[o] < limit
        BY <1>2, <2>1, <2>3
      <4> QED BY <1>3, <2>1, <3>7, <3>8, <4>1
    <3>11. CASE v = w
      <4>1. h[w] = g[w] + 1 /\ h[o] = g[o]
        BY <3>8, <3>11
      <4>2. WinTiebreakPoint(m, v) = f[h]
        BY <3>8, <3>9, <3>11
      <4>3. Level(g) => Ahead(h)
        BY <4>1
      <4>4. ~Level(g) => Clinched(h)
        BY <1>3, <3>6, <3>11 DEF h
      <4>5. h \in I
        BY <3>8, <4>3, <4>4
      <4> QED BY <3>3, <3>7, <3>10, <4>2, <4>5 DEF h, r
    <3>12. CASE v = o
      <4>1. h[o] = g[o] + 1 /\ h[w] = g[w]
        BY <1>3, <3>8, <3>12
      <4>2. Ahead(g) /\ ~WinsTiebreak(Plus(g, w), w, T)
        BY <1>3, <2>1, <2>3, <3>6, <3>12
      <4>3. g[o] + 2 < T
        <5>1. Plus(g, w)[w] = g[w] + 1 /\ Plus(g, w)[o] = g[o]
          BY <2>1, TallyPlus
        <5> QED BY <1>2, <2>1, <4>2, <5>1, FormatAssumption DEF WinsTiebreak
      <4>4. Level(h)
        BY <1>2, <2>1, <4>1, <4>2, <4>3
      <4>5. ~WinsTiebreak(h, o, T) /\ ~Clinched(h)
        BY <1>3, <2>1, <4>1, <4>4, FormatAssumption DEF WinsTiebreak
      <4>6. WinTiebreakPoint(m, v) = f[h]
        BY <3>8, <3>9, <3>12, <4>5
      <4>7. h \in I
        BY <3>8, <4>4
      <4> QED BY <3>3, <3>7, <3>10, <4>6, <4>7 DEF h, r
    <3> QED BY <1>3, <3>7, <3>11, <3>12 DEF r
  <2> QED BY <2>2, <2>3
<1>8. MostTurns(t) \in Nat /\ limit \in Nat /\ limit < MostTurns(t)
  <2>1. T = TiebreakPointsToWin \/ T = FinalSetTiebreakPointsToWin
    BY DEF TiebreakTarget
  <2> HIDE DEF t, T
  <2> QED BY <1>2, <1>5, <2>1, TurnsEnough
<1>9. I \in SUBSET Tallies
  OBVIOUS
<1> HIDE DEF I, f, Ends, limit, goal, start, t
<1>10. Replay(start, "tiebreak", t) \in Ends
  BY <1>1, <1>4, <1>7, <1>8, <1>9, TallyReaches DEF goal
<1> QED BY <1>10 DEF Ends, start, t

-----------------------------------------------------------------------------
(* One more token.                                                          *)

TokenOK(s) == s.games \in Tallies /\ (s.tb = NoTiebreak \/ s.tb \in Nat \X Nat)

LEMMA PointsOfToken == ASSUME NEW s, TokenOK(s) PROVE TiebreakPoints(s) \in Tallies
BY DEF TokenOK, TiebreakPoints, Tallies, Players, Zero

LEMMA ReplayedFacts ==
  ASSUME NEW m
  PROVE  /\ Replayed(m).err = "none" /\ Replayed(m).match = m
         /\ \A kind : Failed(kind, m).err = kind /\ Failed(kind, m).match = m
BY DEF Replayed, Failed

\* A turn from a set's start.
LEMMA TurnFromStart ==
  ASSUME NEW b, SetStart(b), NEW s
  PROVE  HydrateTurn(Replayed(b), s)
           = IF HydrateSet(b, s).err = "none" /\ ~Completed(s) /\ ~InProgressAs(HydrateSet(b, s).match, s)
             THEN Failed("hydration", HydrateSet(b, s).match) ELSE HydrateSet(b, s)
BY ReplayedFacts DEF HydrateTurn, AssertInProgress

LEMMA SetFromStart ==
  ASSUME NEW b, SetStart(b), NEW s
  PROVE  HydrateSet(b, s)
           = IF NeedsTiebreak(s.games) THEN
               IF Completed(s) THEN Replay(InTiebreak(b, Zero), "tiebreak", s.games)
               ELSE Replay(InTiebreak(b, Zero), "points", TiebreakPoints(s))
             ELSE IF Completed(s) THEN Replay(b, "set", s.games)
             ELSE Replay(b, "games", s.games)
<1> DEFINE toTiebreak == Replay(b, "games", AtThreshold)
<1>1. toTiebreak = Replayed(InTiebreak(b, Zero))
  <2>1. TiebreakAtGamesEach \in Nat /\ TiebreakAtGamesEach >= TiebreakAtGamesEach
    BY FormatAssumption
  <2> QED BY <2>1, ThresholdReplayed DEF AtThreshold
<1>2. toTiebreak.err = "none" /\ toTiebreak.match = InTiebreak(b, Zero)
  BY <1>1, ReplayedFacts
<1>3. ~Done(b)
  BY DEF SetStart
<1> HIDE DEF toTiebreak
<1>4. HydrateSet(b, s)
        = IF Done(b) THEN Failed("done", b)
          ELSE IF NeedsTiebreak(s.games) THEN
            IF toTiebreak.err # "none" THEN toTiebreak
            ELSE IF Completed(s) THEN Replay(toTiebreak.match, "tiebreak", s.games)
            ELSE Replay(toTiebreak.match, "points", TiebreakPoints(s))
          ELSE IF Completed(s) THEN Replay(b, "set", s.games)
          ELSE Replay(b, "games", s.games)
  BY Zenon DEF HydrateSet, HydrateFromTiebreak, toTiebreak, AtThreshold
<1> QED BY <1>2, <1>3, <1>4

\* The scores that ask for the tiebreak: both at it, or one game further.
LEMMA NeedsTiebreakGames ==
  ASSUME NEW g \in Tallies
  PROVE  NeedsTiebreak(g) <=>
           \/ BothAtTiebreak(g)
           \/ \E w \in Players : /\ g[w] = TiebreakAtGamesEach + 1
                                 /\ g[Opponent(w)] = TiebreakAtGamesEach
<1>1. {g[p] : p \in Players} = {g["A"], g["B"]}
  BY DEF Players
<1>2. {g["A"], g["B"]} = {TiebreakAtGamesEach, TiebreakAtGamesEach + 1}
        <=> \/ g["A"] = TiebreakAtGamesEach /\ g["B"] = TiebreakAtGamesEach + 1
            \/ g["B"] = TiebreakAtGamesEach /\ g["A"] = TiebreakAtGamesEach + 1
  <2>1. TiebreakAtGamesEach # TiebreakAtGamesEach + 1
    BY FormatAssumption
  <2> QED BY <2>1
<1> QED BY <1>1, <1>2 DEF NeedsTiebreak, Players, Opponent

LEMMA HydrateOpen ==
  ASSUME NEW b, SetStart(b), NEW s, TokenOK(s), OpenGames(s.games), s.tb = NoTiebreak
  PROVE  ~Completed(s) /\ HydrateTurn(Replayed(b), s) = Replayed(InSet(b, s.games))
<1> DEFINE g == s.games
           m == InSet(b, g)
<1>1. /\ g \in Tallies
      /\ \A p \in Players : g[p] \in Nat /\ g[p] <= GamesPerSet /\ ~WinsSet(g, p)
      /\ ~BothAtTiebreak(g)
  BY DEF TokenOK, Tallies, OpenGames
<1>2. ~Completed(s)
  <2> HIDE DEF g
  <2> QED BY <1>1, FormatAssumption DEF Completed, CompletedBy, g
<1>3. ~NeedsTiebreak(g)
  <2> HIDE DEF g
  <2> QED BY <1>1, NeedsTiebreakGames, FormatAssumption
<1>4. HydrateSet(b, s) = Replayed(m)
  <2>1. Replay(b, "games", g) = Replayed(m)
    BY <1>1, GamesReplayed
  <2> QED BY <1>2, <1>3, <2>1, SetFromStart
<1>5. m.current.games = g /\ m.current.phase = "regular"
  BY InSetShows
<1>6. InProgressAs(m, s)
  <2> HIDE DEF m
  <2> QED BY <1>1, <1>5 DEF InProgressAs
<1> HIDE DEF m, g
<1> QED BY <1>2, <1>4, <1>6, TurnFromStart, ReplayedFacts DEF m, g

LEMMA HydrateTiebreak ==
  ASSUME NEW b, SetStart(b), NEW s, TokenOK(s), BothAtTiebreak(s.games),
         ~TiebreakComplete(TiebreakPoints(s), b.setsWon)
  PROVE  /\ ~Completed(s)
         /\ HydrateTurn(Replayed(b), s) = Replayed(InTiebreak(b, TiebreakPoints(s)))
<1> DEFINE g == s.games
           t == TiebreakPoints(s)
           m == InTiebreak(b, t)
<1>1. /\ g \in Tallies /\ g = AtThreshold
      /\ \A p \in Players : g[p] = TiebreakAtGamesEach
  BY DEF TokenOK, Tallies, BothAtTiebreak, AtThreshold
<1>2. ~Completed(s)
  <2> HIDE DEF g
  <2> QED BY <1>1, FormatAssumption, Opponents DEF Completed, CompletedBy, WinsSet, g
<1>3. NeedsTiebreak(g)
  BY DEF NeedsTiebreak
<1>4. HydrateSet(b, s) = Replayed(m)
  <2>1. t \in Tallies /\ \A w \in Players : ~WinsTiebreak(t, w, TiebreakTarget(b.setsWon))
    BY PointsOfToken DEF TiebreakComplete
  <2>2. Replay(InTiebreak(b, Zero), "points", t) = Replayed(m)
    BY <2>1, PointsReplayed
  <2> QED BY <1>2, <1>3, <2>2, SetFromStart
<1>5. m.current.games = AtThreshold /\ m.current.phase = "tiebreak" /\ m.current.points = t
  BY InTiebreakFacts
<1>6. InProgressAs(m, s)
  <2> HIDE DEF m, t
  <2> QED BY <1>1, <1>5 DEF InProgressAs, t
<1> HIDE DEF m, t
<1> QED BY <1>2, <1>4, <1>6, TurnFromStart, ReplayedFacts DEF m, t

LEMMA HydrateWon ==
  ASSUME NEW b, SetStart(b), NEW s, TokenOK(s), LegalSet(s.games),
         NEW w \in Players, CompletedBy(s.games, w)
  PROVE  \E e : /\ HydrateTurn(Replayed(b), s) = Replayed(e)
                /\ EndsSet(e, b, s.games, w)
<1> DEFINE g == s.games
           o == Opponent(w)
<1>1. Completed(s)
  BY DEF Completed
<1>2. HydrateTurn(Replayed(b), s) = HydrateSet(b, s)
  BY <1>1, TurnFromStart
<1>3. /\ g \in Tallies /\ g[w] \in Nat /\ g[o] \in Nat
      /\ o \in Players /\ o # w /\ Opponent(o) = w /\ \A p \in Players : p = w \/ p = o
  BY Opponents DEF TokenOK, Tallies
<1>4. CASE g[w] = TiebreakAtGamesEach + 1 /\ g[o] = TiebreakAtGamesEach
  <2>1. NeedsTiebreak(g)
    BY <1>3, <1>4, NeedsTiebreakGames
  <2>2. g = TiebreakGames(w)
    <3> HIDE DEF g
    <3>1. \A p \in Players : g[p] = TiebreakAtGamesEach + IF p = w THEN 1 ELSE 0
      BY <1>3, <1>4, FormatAssumption
    <3> QED BY <1>3, <3>1 DEF TiebreakGames, Tallies
  <2>3. PICK points \in Tallies :
          Replay(InTiebreak(b, Zero), "tiebreak", TiebreakGames(w))
            = Replayed(EndOfTiebreak(b, points, w))
    BY TiebreakReplayed
  <2> DEFINE e == EndOfTiebreak(b, points, w)
  <2>4. EndsSet(e, b, g, w)
    BY <2>2, EndOfTiebreakFacts
  <2>5. HydrateSet(b, s) = Replayed(e)
    BY <1>1, <2>1, <2>2, <2>3, SetFromStart
  <2> HIDE DEF e
  <2> QED BY <1>2, <2>4, <2>5
<1>5. CASE ~(g[w] = TiebreakAtGamesEach + 1 /\ g[o] = TiebreakAtGamesEach)
  <2>1. WinsSet(g, w)
    BY <1>5 DEF CompletedBy
  <2>2. g[w] >= GamesPerSet /\ g[w] - g[o] >= 2
    BY <2>1, FormatAssumption DEF WinsSet
  <2>3. ~NeedsTiebreak(g)
    <3> HIDE DEF g
    <3> QED BY <1>3, <2>2, NeedsTiebreakGames, FormatAssumption DEF BothAtTiebreak
  <2> DEFINE e == EndOfSet(b, g, w)
  <2>4. Replay(b, "set", g) = Replayed(e)
    BY <1>3, <2>1, SetReplayed
  <2>5. EndsSet(e, b, g, w)
    BY <1>3, EndOfSetFacts
  <2>6. HydrateSet(b, s) = Replayed(e)
    BY <1>1, <2>3, <2>4, SetFromStart
  <2> HIDE DEF e
  <2> QED BY <1>2, <2>5, <2>6
<1> QED BY <1>4, <1>5

\* Equal games beyond the tiebreak are refused.
LEMMA HydrateBeyond ==
  ASSUME NEW b, SetStart(b), NEW s, NEW x \in Nat, x > TiebreakAtGamesEach,
         s.games = [p \in Players |-> x]
  PROVE  HydrateTurn(Replayed(b), s).err # "none"
<1> DEFINE g == s.games
<1>1. g \in Tallies /\ \A p \in Players : g[p] = x
  BY DEF Tallies
<1>2. ~Completed(s)
  <2> HIDE DEF g
  <2> QED BY <1>1, FormatAssumption, Opponents DEF Completed, CompletedBy, WinsSet, g
<1>3. ~NeedsTiebreak(g)
  <2> HIDE DEF g
  <2> QED BY <1>1, NeedsTiebreakGames, FormatAssumption, Opponents DEF BothAtTiebreak, Players
<1>4. Replay(b, "games", g) = Failed("hydration", InTiebreak(b, Zero))
  <2>1. x >= TiebreakAtGamesEach /\ x # TiebreakAtGamesEach
    BY FormatAssumption
  <2> QED BY <2>1, ThresholdReplayed
<1>5. HydrateSet(b, s).err = "hydration"
  BY <1>2, <1>3, <1>4, SetFromStart, ReplayedFacts
<1> QED BY <1>5, TurnFromStart

-----------------------------------------------------------------------------
(* All tokens: the loop of MatchFromScore, and the validation.              *)

Score(sets) == [loop |-> "tokens", sets |-> sets]
HydrateRun(start, sets) == CHOOSE g : Recursion(g, Score(sets), Replayed(start))
AfterTokens(start, sets, n) == HydrateRun(start, sets)[n]

LEMMA HydrateTurns ==
  ASSUME NEW start, NEW sets
  PROVE  /\ AfterTokens(start, sets, 0) = Replayed(start)
         /\ \A n \in Nat : AfterTokens(start, sets, n + 1)
                             = HydrateTurn(AfterTokens(start, sets, n), sets[n + 1])
         /\ Hydrated(start, sets) = AfterTokens(start, sets, Len(sets))
<1> DEFINE score == Score(sets)
           run == HydrateRun(start, sets)
           Rec(g) == g = [i \in Nat |-> IF i = 0 THEN Replayed(start)
                                         ELSE HydrateTurn(g[i - 1], sets[i])]
<1>1. score.loop = "tokens" /\ score.sets = sets
  BY DEF Score
<1>2. \A g : Recursion(g, score, Replayed(start)) <=> Rec(g)
  <2> HIDE DEF score
  <2>1. \A n, v : AnyTurn(score, Replayed(start), n, v)
                    = IF n = 0 THEN Replayed(start) ELSE HydrateTurn(v, sets[n])
    BY <1>1 DEF AnyTurn
  <2> QED BY <2>1, Zenon DEF Recursion
<1>3. Rec(run)
  <2>1. Recursion(run, score, Replayed(start))
    BY RecursionExists, Zenon DEF HydrateRun
  <2> HIDE DEF run, score, Rec
  <2> QED BY <1>2, <2>1
<1>4. run = CHOOSE g : Rec(g)
  <2> HIDE DEF Rec, score
  <2> QED BY <1>2, Zenon DEF HydrateRun, score
<1>5. Hydrated(start, sets) = run[Len(sets)]
  <2> HIDE DEF run
  <2> QED BY <1>4, Zenon DEF Hydrated
<1> HIDE DEF run, score
<1>6. \A n \in Nat : run[n] = IF n = 0 THEN Replayed(start) ELSE HydrateTurn(run[n - 1], sets[n])
  BY <1>3, Zenon
<1>7. ASSUME NEW n \in Nat PROVE run[n + 1] = HydrateTurn(run[n], sets[n + 1])
  <2>1. n + 1 \in Nat /\ n + 1 # 0 /\ (n + 1) - 1 = n
    OBVIOUS
  <2> QED BY <1>6, <2>1
<1> QED BY <1>5, <1>6, <1>7 DEF AfterTokens, run

LEMMA HydratedNext ==
  ASSUME NEW start, NEW sets, NEW more, NEW n \in Nat, Len(sets) = n, Len(more) = n + 1,
         \A j \in 1 .. n : more[j] = sets[j]
  PROVE  Hydrated(start, more) = HydrateTurn(Hydrated(start, sets), more[n + 1])
<1> DEFINE r(j) == AfterTokens(start, sets, j)
           q(j) == AfterTokens(start, more, j)
           S == {j \in Nat : j <= n => q(j) = r(j)}
<1>1. /\ r(0) = Replayed(start) /\ q(0) = Replayed(start)
      /\ \A j \in Nat : r(j + 1) = HydrateTurn(r(j), sets[j + 1])
      /\ \A j \in Nat : q(j + 1) = HydrateTurn(q(j), more[j + 1])
  BY HydrateTurns, Zenon
<1>2. Hydrated(start, sets) = r(n) /\ Hydrated(start, more) = q(n + 1)
  <2>1. Hydrated(start, sets) = r(Len(sets)) /\ Hydrated(start, more) = q(Len(more))
    BY HydrateTurns, Zenon
  <2> QED BY <2>1
<1> HIDE DEF r, q
<1>3. 0 \in S
  BY <1>1
<1>4. ASSUME NEW j \in S \cap Nat PROVE j + 1 \in S
  <2> SUFFICES ASSUME j + 1 <= n PROVE q(j + 1) = r(j + 1)
    OBVIOUS
  <2>1. j + 1 \in 1 .. n /\ q(j) = r(j)
    OBVIOUS
  <2> QED BY <1>1, <2>1
<1>5. Nat \subseteq S
  <2> HIDE DEF S
  <2> QED BY <1>3, <1>4, AllNaturals
<1>6. q(n) = r(n)
  BY <1>5
<1> QED BY <1>1, <1>2, <1>6

\* The tokens of the completed sets of m.
PlayedOf(m) ==
  [i \in DOMAIN m.completed |-> [games |-> m.completed[i], tb |-> NoTiebreak]]

\* The sets won are those of the tokens.
SetsCounted(m) ==
  /\ \A p \in Players : WonIn(PlayedOf(m), Len(m.completed))[p] = m.setsWon[p]
  /\ Len(m.completed) = m.setsWon["A"] + m.setsWon["B"]

LEMMA LegalWinner ==
  ASSUME NEW g \in Tallies, LegalSet(g)
  PROVE  /\ \E w \in Players : CompletedBy(g, w)
         /\ \A v, w \in Players : CompletedBy(g, v) /\ CompletedBy(g, w) => v = w
         /\ ~BothAtTiebreak(g) /\ ~ImpossibleGameScore(g)
<1>1. PICK w \in Players :
        \/ g[w] = GamesPerSet /\ g[Opponent(w)] <= GamesPerSet - 2
        \/ g[w] = GamesPerSet + 1 /\ g[Opponent(w)] \in {GamesPerSet - 1, GamesPerSet}
  BY DEF LegalSet
<1> DEFINE o == Opponent(w)
<1>2. /\ o \in Players /\ Opponent(o) = w /\ \A p \in Players : p = w \/ p = o
      /\ g[w] \in Nat /\ g[o] \in Nat
  BY Opponents DEF Tallies
<1>3. CompletedBy(g, w)
  BY <1>1, <1>2, FormatAssumption DEF CompletedBy, WinsSet
<1>4. ~CompletedBy(g, o)
  BY <1>1, <1>2, FormatAssumption DEF CompletedBy, WinsSet
<1>5. ~BothAtTiebreak(g)
  BY <1>1, <1>2, FormatAssumption DEF BothAtTiebreak
<1>6. ~ImpossibleGameScore(g)
  BY <1>1, <1>2, FormatAssumption DEF ImpossibleGameScore
<1> HIDE DEF o
<1> QED BY <1>2, <1>3, <1>4, <1>5, <1>6

SetsOf(sets, n, p) == {j \in 1 .. n : CompletedBy(sets[j].games, p)}

LEMMA WonInTypes ==
  ASSUME NEW sets, NEW n \in Nat, NEW p \in Players
  PROVE  /\ IsFiniteSet(SetsOf(sets, n, p))
         /\ WonIn(sets, n)[p] = Cardinality(SetsOf(sets, n, p))
         /\ WonIn(sets, n)[p] \in Nat
<1>1. IsFiniteSet(1 .. n) /\ SetsOf(sets, n, p) \subseteq 1 .. n
  BY FS_Interval DEF SetsOf
<1>2. IsFiniteSet(SetsOf(sets, n, p))
  BY <1>1, FS_Subset
<1>3. WonIn(sets, n)[p] = Cardinality(SetsOf(sets, n, p))
  BY DEF WonIn, SetsOf
<1>4. Cardinality(SetsOf(sets, n, p)) \in Nat
  BY <1>2, FS_CardinalityType
<1> QED BY <1>2, <1>3, <1>4

LEMMA WonInGrows ==
  ASSUME NEW sets, NEW n \in Nat, NEW k \in Nat, k <= n, NEW p \in Players
  PROVE  WonIn(sets, k)[p] <= WonIn(sets, n)[p]
<1>1. SetsOf(sets, k, p) \subseteq SetsOf(sets, n, p)
  BY DEF SetsOf
<1>2. Cardinality(SetsOf(sets, k, p)) <= Cardinality(SetsOf(sets, n, p))
  BY <1>1, WonInTypes, FS_Subset
<1> QED BY <1>2, WonInTypes

LEMMA WonInSame ==
  ASSUME NEW sets, NEW more, NEW n \in Nat, \A j \in 1 .. n : more[j] = sets[j],
         NEW p \in Players
  PROVE  WonIn(more, n)[p] = WonIn(sets, n)[p]
<1>1. {j \in 1 .. n : CompletedBy(more[j].games, p)}
        = {j \in 1 .. n : CompletedBy(sets[j].games, p)}
  OBVIOUS
<1> QED BY <1>1 DEF WonIn

LEMMA WonInNext ==
  ASSUME NEW sets, NEW n \in Nat, NEW p \in Players
  PROVE  WonIn(sets, n + 1)[p]
           = WonIn(sets, n)[p] + IF CompletedBy(sets[n + 1].games, p) THEN 1 ELSE 0
<1> DEFINE W(m) == SetsOf(sets, m, p)
           won == CompletedBy(sets[n + 1].games, p)
<1>1. /\ IsFiniteSet(W(n)) /\ WonIn(sets, n)[p] = Cardinality(W(n))
      /\ WonIn(sets, n + 1)[p] = Cardinality(W(n + 1)) /\ Cardinality(W(n)) \in Nat
  <2>1. n + 1 \in Nat
    OBVIOUS
  <2> QED BY <2>1, WonInTypes
<1>2. n + 1 \notin W(n)
  BY DEF SetsOf
<1>3. W(n + 1) = IF won THEN W(n) \cup {n + 1} ELSE W(n)
  <2>1. 1 .. n + 1 = (1 .. n) \cup {n + 1}
    OBVIOUS
  <2> QED BY <2>1 DEF SetsOf
<1> HIDE DEF W, won
<1>4. Cardinality(W(n) \cup {n + 1}) = Cardinality(W(n)) + 1
  BY <1>1, <1>2, FS_AddElement
<1> QED BY <1>1, <1>3, <1>4 DEF won

\* The tokens of b and one more.
Extended(sets, b, t, n) ==
  /\ n \in Nat /\ Len(PlayedOf(b)) = n /\ Len(sets) = n + 1 /\ sets # <<>>
  /\ DOMAIN sets = 1 .. n + 1 /\ sets[n + 1] = t
  /\ \A j \in 1 .. n : /\ sets[j] = PlayedOf(b)[j]
                       /\ sets[j].games = b.completed[j]
                       /\ sets[j].tb = NoTiebreak

LEMMA PlayedTokens ==
  ASSUME NEW b, SetStart(b), NEW t
  PROVE  Extended(Append(PlayedOf(b), t), b, t, Len(b.completed))
<1> DEFINE n == Len(b.completed)
           token(i) == [games |-> b.completed[i], tb |-> NoTiebreak]
           S == {token(i) : i \in 1 .. n}
           played == PlayedOf(b)
           sets == Append(played, t)
<1>1. b.completed \in Seq(Games) /\ n \in Nat /\ DOMAIN b.completed = 1 .. n
  BY DEF SetStart, Matches
<1>2. played = [i \in 1 .. n |-> token(i)]
  BY <1>1 DEF PlayedOf
<1>3. \A i \in 1 .. n : token(i) \in S
  OBVIOUS
<1> HIDE DEF S
<1>4. played \in Seq(S) /\ Len(played) = n
  <2>1. played \in [1 .. n -> S]
    <3> HIDE DEF token, played, n
    <3> QED BY <1>2, <1>3
  <2> HIDE DEF played
  <2> QED BY <1>1, <2>1
<1>5. \A j \in 1 .. n : played[j] = token(j)
  BY <1>2
<1>6. \A j : token(j).games = b.completed[j] /\ token(j).tb = NoTiebreak
  OBVIOUS
<1> HIDE DEF played, n, token
<1>7. /\ Len(sets) = n + 1 /\ DOMAIN sets = 1 .. n + 1 /\ sets[n + 1] = t
      /\ \A j \in 1 .. n : sets[j] = played[j]
  <2>1. played \in Seq(S \cup {t}) /\ t \in S \cup {t}
    BY <1>4
  <2> QED BY <1>1, <1>4, <2>1
<1>8. sets # <<>>
  <2> HIDE DEF sets
  <2> QED BY <1>1, <1>7
<1> HIDE DEF sets
<1>9. Extended(sets, b, t, n)
  BY <1>1, <1>4, <1>5, <1>6, <1>7, <1>8 DEF Extended, played
<1> QED BY <1>9 DEF played, n, sets

\* What is asked of a token that follows legal sets.
LEMMA ScoreValid ==
  ASSUME NEW b, SetStart(b), LegalRecord(b), SetsCounted(b), NEW t
  PROVE  ValidateScoreSequence(Append(PlayedOf(b), t)) = "none"
           <=> ValidGameTotals(t) /\ ~ClassifyFails(t, b.setsWon)
<1> DEFINE n == Len(b.completed)
           sets == Append(PlayedOf(b), t)
           bad == {i \in DOMAIN sets : SetError(sets, i) # "none"}
           valid == ValidGameTotals(t) /\ ~ClassifyFails(t, b.setsWon)
<1>1. /\ n \in Nat /\ Len(PlayedOf(b)) = n /\ Len(sets) = n + 1 /\ sets # <<>>
      /\ DOMAIN sets = 1 .. n + 1 /\ sets[n + 1] = t
      /\ \A j \in 1 .. n : /\ sets[j] = PlayedOf(b)[j]
                           /\ sets[j].games = b.completed[j]
                           /\ sets[j].tb = NoTiebreak
  <2>1. Extended(sets, b, t, n)
    BY PlayedTokens
  <2> HIDE DEF sets, n
  <2> QED BY <2>1 DEF Extended
<1>2. /\ \A p \in Players : b.setsWon[p] \in Nat /\ b.setsWon[p] < SetsToWin
      /\ b.setsWon \in [Players -> 0 .. SetsToWin]
      /\ b.completed \in Seq(Games)
  BY FormatAssumption DEF SetStart, Matches
<1> HIDE DEF sets, n
<1>3. \A p \in Players : WonIn(sets, n)[p] = b.setsWon[p]
  <2>1. \A p \in Players : WonIn(PlayedOf(b), n)[p] = b.setsWon[p]
    BY DEF SetsCounted, n
  <2> QED BY <1>1, <2>1, WonInSame
<1>4. WonIn(sets, n) = b.setsWon
  <2>1. WonIn(sets, n) = [p \in Players |-> WonIn(sets, n)[p]]
    BY DEF WonIn
  <2> QED BY <1>2, <1>3, <2>1
<1>5. ASSUME NEW k \in 1 .. n PROVE SetError(sets, k) = "none"
  <2>1. sets[k].games = b.completed[k] /\ sets[k].tb = NoTiebreak
    BY <1>1
  <2>2. b.completed[k] \in Games /\ LegalSet(b.completed[k])
    BY <1>2 DEF LegalRecord, n
  <2>3. b.completed[k] \in Tallies
    BY <2>2, FormatAssumption DEF Games, Tallies
  <2>4. /\ \E w \in Players : CompletedBy(b.completed[k], w)
        /\ ~BothAtTiebreak(b.completed[k]) /\ ~ImpossibleGameScore(b.completed[k])
    BY <2>2, <2>3, LegalWinner
  <2>5. /\ ValidGameTotals(sets[k]) /\ Completed(sets[k])
        /\ \A won : ~ClassifyFails(sets[k], won)
    BY <2>1, <2>4 DEF ValidGameTotals, Completed, ClassifyFails
  <2>6. ~SomeoneWon(WonIn(sets, k))
    <3>1. ASSUME NEW p \in Players PROVE WonIn(sets, k)[p] < SetsToWin
      <4>1. WonIn(sets, k)[p] <= WonIn(sets, n)[p] /\ WonIn(sets, k)[p] \in Nat
        BY <1>1, WonInGrows, WonInTypes
      <4> QED BY <1>2, <1>3, <4>1, FormatAssumption
    <3>2. \A p \in Players : WonIn(sets, k)[p] \in Nat
      BY <1>1, WonInTypes
    <3> QED BY <3>1, <3>2, FormatAssumption DEF SomeoneWon
  <2>7. k < Len(sets)
    BY <1>1
  <2> QED BY <2>5, <2>6, <2>7 DEF SetError
<1>6. SetError(sets, n + 1) = IF valid THEN "none" ELSE "invalidSet"
  <2>1. (n + 1) - 1 = n /\ ~(n + 1 < Len(sets))
    BY <1>1
  <2>2. ~SomeoneWon(b.setsWon)
    BY <1>2, FormatAssumption DEF SomeoneWon
  <2> QED BY <1>1, <1>4, <2>1, <2>2 DEF SetError
<1>7. bad = IF valid THEN {} ELSE {n + 1}
  <2>1. 1 .. n + 1 = (1 .. n) \cup {n + 1}
    BY <1>1
  <2> HIDE DEF valid
  <2> QED BY <1>1, <1>5, <1>6, <2>1
<1>8. ~(Len(sets) > 2 * SetsToWin - 1)
  <2>1. n = b.setsWon["A"] + b.setsWon["B"]
    BY DEF SetsCounted, n
  <2>2. /\ b.setsWon["A"] \in Nat /\ b.setsWon["A"] < SetsToWin
        /\ b.setsWon["B"] \in Nat /\ b.setsWon["B"] < SetsToWin
    BY <1>2 DEF Players
  <2> QED BY <1>1, <2>1, <2>2, FormatAssumption
<1>9. ValidateScoreSequence(sets)
        = IF bad = {} THEN "none" ELSE SetError(sets, CHOOSE i \in bad : \A j \in bad : i <= j)
  <2> HIDE DEF valid
  <2> QED BY <1>1, <1>8, Zenon DEF ValidateScoreSequence
<1> HIDE DEF bad, valid
<1>10. ASSUME ~valid PROVE SetError(sets, CHOOSE i \in bad : \A j \in bad : i <= j) = "invalidSet"
  <2>1. \E i \in bad : \A j \in bad : i <= j
    BY <1>1, <1>7, <1>10
  <2>2. (CHOOSE i \in bad : \A j \in bad : i <= j) \in bad
    BY <2>1, Zenon
  <2>3. (CHOOSE i \in bad : \A j \in bad : i <= j) = n + 1
    BY <1>7, <1>10, <2>2
  <2> QED BY <1>6, <1>10, <2>3
<1>11. ValidateScoreSequence(sets) = "none" <=> valid
  BY <1>7, <1>9, <1>10
<1> QED BY <1>11 DEF sets, valid

-----------------------------------------------------------------------------
(* What every match of the engine is rebuilt from.                          *)

\* b is between two sets, and the tokens of its sets lead to it.
Rebuilt(f, b) ==
  /\ SetStart(b) /\ LegalRecord(b) /\ SetsCounted(b)
  /\ Hydrated(NewMatch(f), PlayedOf(b)) = Replayed(b)

\* The match of a rebuilt one and a token.
LEMMA ScoreTurn ==
  ASSUME NEW f, NEW b, Rebuilt(f, b), NEW t
  PROVE  MatchFromScore(f, Append(PlayedOf(b), t))
           = IF ValidGameTotals(t) /\ ~ClassifyFails(t, b.setsWon)
             THEN LET r == HydrateTurn(Replayed(b), t)
                  IN  IF r.err = "none" /\ Done(r.match) THEN Failed("matchComplete", r.match)
                      ELSE r
             ELSE Failed(ValidateScoreSequence(Append(PlayedOf(b), t)), NewMatch(f))
<1> DEFINE sets == Append(PlayedOf(b), t)
           n == Len(b.completed)
           valid == ValidGameTotals(t) /\ ~ClassifyFails(t, b.setsWon)
<1>1. SetStart(b)
  BY DEF Rebuilt
<1>2. Extended(sets, b, t, n)
  BY <1>1, PlayedTokens
<1>3. ValidateScoreSequence(sets) = "none" <=> valid
  BY ScoreValid DEF Rebuilt
<1> HIDE DEF sets, n, valid
<1>4. Hydrated(NewMatch(f), sets) = HydrateTurn(Hydrated(NewMatch(f), PlayedOf(b)), sets[n + 1])
  BY <1>2, HydratedNext DEF Extended
<1>5. Hydrated(NewMatch(f), sets) = HydrateTurn(Replayed(b), t)
  BY <1>2, <1>4 DEF Extended, Rebuilt
<1> DEFINE r == HydrateTurn(Replayed(b), t)
<1>6. HydrateFrom(NewMatch(f), sets)
        = IF r.err = "none" /\ Done(r.match) THEN Failed("matchComplete", r.match) ELSE r
  BY <1>5, Zenon DEF HydrateFrom, RefuseFinished
<1> HIDE DEF r
<1>7. MatchFromScore(f, sets)
        = IF valid THEN IF r.err = "none" /\ Done(r.match) THEN Failed("matchComplete", r.match)
                        ELSE r
          ELSE Failed(ValidateScoreSequence(sets), NewMatch(f))
  BY <1>3, <1>6 DEF MatchFromScore
<1> QED BY <1>7, Zenon DEF sets, valid, r

LEMMA RebuiltFirst ==
  ASSUME NEW f \in Players
  PROVE  Rebuilt(f, NewMatch(f))
<1> DEFINE b == NewMatch(f)
<1>1. /\ b.setsWon = Zero /\ b.completed = <<>> /\ b.current = NewSet /\ b.winner = NoPlayer
  BY DEF NewMatch
<1>2. b \in Matches
  BY NewSetFacts, FormatAssumption DEF NewMatch, Matches, Zero, Games
<1>3. SetStart(b)
  BY <1>1, <1>2, FormatAssumption DEF SetStart, Done, Zero
<1> HIDE DEF b
<1>4. PlayedOf(b) = <<>> /\ Len(b.completed) = 0
  BY <1>1 DEF PlayedOf
<1>5. LegalRecord(b)
  BY <1>1 DEF LegalRecord
<1>6. SetsCounted(b)
  <2>1. \A p \in Players : WonIn(PlayedOf(b), 0)[p] = 0
    <3>1. ASSUME NEW p \in Players PROVE SetsOf(PlayedOf(b), 0, p) = {}
      BY DEF SetsOf
    <3> QED BY <3>1, WonInTypes, FS_EmptySet
  <2>2. Zero["A"] = 0 /\ Zero["B"] = 0 /\ \A p \in Players : Zero[p] = 0
    BY DEF Zero, Players
  <2> QED BY <1>1, <1>4, <2>1, <2>2 DEF SetsCounted
<1>7. Hydrated(b, PlayedOf(b)) = Replayed(b)
  <2>1. Len(PlayedOf(b)) = 0
    BY <1>4
  <2> QED BY <2>1, HydrateTurns
<1> QED BY <1>3, <1>5, <1>6, <1>7 DEF Rebuilt, b

LEMMA LegalGames ==
  ASSUME NEW t \in Tallies, LegalSet(t)
  PROVE  t \in Games
<1>1. PICK w \in Players :
        \/ t[w] = GamesPerSet /\ t[Opponent(w)] <= GamesPerSet - 2
        \/ t[w] = GamesPerSet + 1 /\ t[Opponent(w)] \in {GamesPerSet - 1, GamesPerSet}
  BY DEF LegalSet
<1>2. \A p \in Players : t[p] \in 0 .. GamesPerSet + 1
  <2>1. Opponent(w) \in Players /\ \A p \in Players : p = w \/ p = Opponent(w)
    BY Opponents
  <2>2. t[w] \in Nat /\ t[Opponent(w)] \in Nat
    BY <2>1 DEF Tallies
  <2>3. t[w] \in 0 .. GamesPerSet + 1 /\ t[Opponent(w)] \in 0 .. GamesPerSet + 1
    BY <1>1, <2>2, FormatAssumption
  <2> QED BY <2>1, <2>3
<1> QED BY <1>2 DEF Games, Tallies

\* Two matches that the same set leaves, the match not being over.
LEMMA EndsSame ==
  ASSUME NEW b, NEW t, NEW w, NEW e, EndsSet(e, b, t, w), ~Done(e),
         NEW d, EndsSet(d, b, t, w)
  PROVE  d = e
<1>1. ~Done(d)
  BY DEF EndsSet
<1>2. /\ d.setsWon = e.setsWon /\ d.completed = e.completed /\ d.current = e.current
      /\ d.server = e.server /\ d.winner = e.winner
  BY <1>1 DEF EndsSet
<1>3. /\ d = [setsWon |-> d.setsWon, completed |-> d.completed, current |-> d.current,
              server |-> d.server, winner |-> d.winner]
      /\ e = [setsWon |-> e.setsWon, completed |-> e.completed, current |-> e.current,
              server |-> e.server, winner |-> e.winner]
  BY DEF EndsSet
<1> QED BY <1>2, <1>3, Zenon

\* What a set leaves is rebuilt from one token more.
LEMMA RebuiltNext ==
  ASSUME NEW f, NEW b, Rebuilt(f, b), NEW t \in Tallies, LegalSet(t),
         NEW w \in Players, CompletedBy(t, w), NEW e, EndsSet(e, b, t, w), ~Done(e)
  PROVE  Rebuilt(f, e)
<1> DEFINE n == Len(b.completed)
           token == [games |-> t, tb |-> NoTiebreak]
<1>1. /\ b \in Matches /\ SetStart(b) /\ b.completed \in Seq(Games) /\ n \in Nat
      /\ b.setsWon \in [Players -> 0 .. SetsToWin]
      /\ \A p \in Players : b.setsWon[p] < SetsToWin
  BY DEF Rebuilt, SetStart, Matches
<1>2. /\ e.setsWon = Plus(b.setsWon, w) /\ e.completed = Append(b.completed, t)
      /\ e.current = NewSet /\ e.winner = NoPlayer
      /\ e.server = ServerAfter(b, t["A"] + t["B"])
      /\ ~(b.setsWon[w] + 1 >= SetsToWin)
  BY DEF EndsSet
<1>3. /\ Len(e.completed) = n + 1 /\ e.completed \in Seq(Games)
      /\ e.completed[n + 1] = t
      /\ \A j \in 1 .. n : e.completed[j] = b.completed[j]
      /\ DOMAIN e.completed = 1 .. n + 1
  <2>1. t \in Games
    BY LegalGames
  <2> QED BY <1>1, <1>2, <2>1
<1>4. /\ \A p \in Players : e.setsWon[p] = b.setsWon[p] + IF p = w THEN 1 ELSE 0
      /\ \A p \in Players : e.setsWon[p] < SetsToWin
      /\ e.setsWon \in [Players -> 0 .. SetsToWin]
  <2>1. \A p \in Players : e.setsWon[p] = b.setsWon[p] + IF p = w THEN 1 ELSE 0
    BY <1>1, <1>2 DEF Plus
  <2>2. \A p \in Players : b.setsWon[p] \in Nat
    BY <1>1
  <2>3. \A p \in Players : e.setsWon[p] \in Nat /\ e.setsWon[p] < SetsToWin
    BY <1>1, <1>2, <2>1, <2>2, FormatAssumption
  <2>4. e.setsWon = [p \in Players |-> e.setsWon[p]]
    BY <1>1, <1>2 DEF Plus
  <2>5. \A p \in Players : e.setsWon[p] \in 0 .. SetsToWin
    BY <2>3, FormatAssumption
  <2> QED BY <2>1, <2>3, <2>4, <2>5
<1>5. SetStart(e)
  <2>1. e.server \in Players
    <3>1. t["A"] + t["B"] \in Nat
      BY DEF Tallies, Players
    <3> QED BY <1>1, <1>2, <3>1, ServerTurns
  <2>2. e = [setsWon |-> e.setsWon, completed |-> e.completed, current |-> e.current,
             server |-> e.server, winner |-> e.winner]
    BY DEF EndsSet
  <2>3. e \in Matches
    BY <1>2, <1>3, <1>4, <2>1, <2>2, NewSetFacts DEF Matches
  <2> QED BY <1>2, <1>4, <2>3 DEF SetStart
<1>6. LegalRecord(e)
  <2>1. \A j \in 1 .. n : LegalSet(b.completed[j])
    BY <1>1 DEF Rebuilt, LegalRecord
  <2> QED BY <1>1, <1>3, <2>1 DEF LegalRecord
<1>7. /\ Len(PlayedOf(b)) = n /\ Len(PlayedOf(e)) = n + 1 /\ PlayedOf(e)[n + 1] = token
      /\ \A j \in 1 .. n : PlayedOf(e)[j] = PlayedOf(b)[j]
  <2>1. PlayedOf(b) = [i \in 1 .. n |-> [games |-> b.completed[i], tb |-> NoTiebreak]]
    BY <1>1 DEF PlayedOf
  <2>2. PlayedOf(e) = [i \in 1 .. n + 1 |-> [games |-> e.completed[i], tb |-> NoTiebreak]]
    BY <1>3 DEF PlayedOf
  <2>3. Extended(Append(PlayedOf(b), token), b, token, n)
    BY <1>1, PlayedTokens
  <2>4. Extended(Append(PlayedOf(e), token), e, token, n + 1)
    <3>1. Extended(Append(PlayedOf(e), token), e, token, Len(e.completed))
      BY <1>5, PlayedTokens
    <3> QED BY <1>3, <3>1
  <2>5. PlayedOf(e)[n + 1] = token
    BY <1>1, <1>3, <2>2
  <2>6. ASSUME NEW j \in 1 .. n PROVE PlayedOf(e)[j] = PlayedOf(b)[j]
    BY <1>3, <2>1, <2>2, <2>6
  <2> HIDE DEF token
  <2> QED BY <2>3, <2>4, <2>5, <2>6 DEF Extended
<1>8. TokenOK(token) /\ token.games = t
  BY DEF TokenOK
<1> HIDE DEF token, n
<1>9. SetsCounted(e)
  <2>1. /\ \A p \in Players : WonIn(PlayedOf(b), n)[p] = b.setsWon[p]
        /\ n = b.setsWon["A"] + b.setsWon["B"]
    BY DEF Rebuilt, SetsCounted, n
  <2>2. ASSUME NEW p \in Players PROVE WonIn(PlayedOf(e), n + 1)[p] = e.setsWon[p]
    <3>1. WonIn(PlayedOf(e), n)[p] = WonIn(PlayedOf(b), n)[p]
      BY <1>1, <1>7, WonInSame
    <3>2. CompletedBy(t, p) <=> p = w
      BY LegalWinner
    <3>3. WonIn(PlayedOf(e), n + 1)[p]
            = WonIn(PlayedOf(e), n)[p] + IF CompletedBy(t, p) THEN 1 ELSE 0
      BY <1>1, <1>7, <1>8, WonInNext
    <3> QED BY <1>4, <2>1, <3>1, <3>2, <3>3
  <2>3. n + 1 = e.setsWon["A"] + e.setsWon["B"]
    <3>1. b.setsWon["A"] \in Nat /\ b.setsWon["B"] \in Nat
      BY <1>1 DEF Players
    <3> QED BY <1>4, <2>1, <3>1 DEF Players
  <2> QED BY <1>3, <2>2, <2>3 DEF SetsCounted
<1>10. Hydrated(NewMatch(f), PlayedOf(e)) = Replayed(e)
  <2>1. Hydrated(NewMatch(f), PlayedOf(e)) = HydrateTurn(Replayed(b), token)
    BY <1>1, <1>7, HydratedNext DEF Rebuilt
  <2>2. PICK d : HydrateTurn(Replayed(b), token) = Replayed(d) /\ EndsSet(d, b, t, w)
    BY <1>1, <1>8, HydrateWon
  <2>3. d = e
    BY <2>2, EndsSame
  <2> QED BY <2>1, <2>2, <2>3
<1> QED BY <1>5, <1>6, <1>9, <1>10 DEF Rebuilt

-----------------------------------------------------------------------------
(* The engine and the hydration together.                                   *)

NobodyWins(b, g) == \A p \in Players : ~WinsTiebreak(g, p, TiebreakTarget(b.setsWon))

\* Where a match stands that was at the start of its set as b.
SetOpen(m, b) == \E g \in Tallies : OpenGames(g) /\ m = InSet(b, g)
TiebreakOpen(m, b) == \E g \in Tallies : NobodyWins(b, g) /\ m = InTiebreak(b, g)
SetWonBy(m, b, t, w) == LegalSet(t) /\ CompletedBy(t, w) /\ EndsSet(m, b, t, w)
Finished(m, b) == Done(m) /\ \E t \in Tallies, w \in Players : SetWonBy(m, b, t, w)

Standing(m, b) == SetOpen(m, b) \/ TiebreakOpen(m, b) \/ Finished(m, b)

\* The inductive invariant of the round trip.
ScoreInv == \E b : Rebuilt(first, b) /\ Standing(match, b)

LEMMA ZeroIsOpen ==
  /\ Zero \in Tallies /\ OpenGames(Zero)
  /\ \A b : NobodyWins(b, Zero)
<1>1. Zero \in Tallies /\ \A p \in Players : Zero[p] = 0
  BY DEF Zero, Tallies
<1>2. OpenGames(Zero)
  BY <1>1, FormatAssumption, Opponents DEF OpenGames, BothAtTiebreak, WinsSet, Players
<1>3. \A b : NobodyWins(b, Zero)
  BY <1>1, FormatAssumption, Opponents DEF NobodyWins, WinsTiebreak
<1> QED BY <1>1, <1>2, <1>3

LEMMA AtStartStands == ASSUME NEW b, SetStart(b) PROVE Standing(b, b)
BY ZeroIsOpen, StartsAtZero DEF Standing, SetOpen

LEMMA ScoreInit == ASSUME Init PROVE ScoreInv
<1>1. first \in Players /\ match = NewMatch(first)
  BY DEF Init
<1>2. Rebuilt(first, NewMatch(first))
  BY <1>1, RebuiltFirst
<1>3. Standing(match, NewMatch(first))
  BY <1>1, <1>2, AtStartStands DEF Rebuilt
<1> QED BY <1>2, <1>3 DEF ScoreInv

\* A set that ends leaves a match that stands, with the same first server.
LEMMA SetEnds ==
  ASSUME NEW f, NEW b, Rebuilt(f, b), NEW t \in Tallies, NEW w \in Players, NEW e,
         SetWonBy(e, b, t, w)
  PROVE  \E c : Rebuilt(f, c) /\ Standing(e, c)
<1>1. CASE Done(e)
  BY <1>1 DEF Standing, Finished
<1>2. CASE ~Done(e)
  <2>1. Rebuilt(f, e)
    BY <1>2, RebuiltNext DEF SetWonBy
  <2>2. Standing(e, e)
    BY <2>1, AtStartStands DEF Rebuilt
  <2> QED BY <2>1, <2>2
<1> QED BY <1>1, <1>2

\* Who is not two ahead is not after a game or point of the other.
LEMMA OtherDoesNotWin ==
  ASSUME NEW g \in Tallies, NEW w \in Players, NEW n \in Nat
  PROVE  /\ ~WinsSet(g, Opponent(w)) => ~WinsSet(Plus(g, w), Opponent(w))
         /\ ~WinsTiebreak(g, Opponent(w), n) => ~WinsTiebreak(Plus(g, w), Opponent(w), n)
<1>1. /\ Opponent(w) \in Players /\ Opponent(Opponent(w)) = w
      /\ Plus(g, w)[w] = g[w] + 1 /\ Plus(g, w)[Opponent(w)] = g[Opponent(w)]
      /\ g[w] \in Nat /\ g[Opponent(w)] \in Nat
  BY Opponents, TallyPlus
<1> QED BY <1>1, FormatAssumption DEF WinsSet, WinsTiebreak

LEMMA GameStands ==
  ASSUME NEW f, NEW b, Rebuilt(f, b), NEW g \in Tallies, OpenGames(g), NEW w \in Players
  PROVE  \E c : Rebuilt(f, c) /\ Standing(WinGame(InSet(b, g), w), c)
<1> DEFINE h == Plus(g, w)
           o == Opponent(w)
           next == WinGame(InSet(b, g), w)
<1>1. SetStart(b) /\ h \in Tallies
  BY TallyPlus DEF Rebuilt
<1>2. next = IF BothAtTiebreak(h) THEN InTiebreak(b, Zero)
             ELSE IF WinsSet(h, w) THEN EndOfSet(b, h, w) ELSE InSet(b, h)
  BY <1>1, GameFromStart
<1>3. /\ o \in Players /\ o # w /\ Opponent(o) = w /\ \A p \in Players : p = w \/ p = o
      /\ h[w] = g[w] + 1 /\ h[o] = g[o] /\ g[w] \in Nat /\ g[o] \in Nat
  BY Opponents, TallyPlus
<1>4. /\ g[w] <= GamesPerSet /\ g[o] <= GamesPerSet /\ ~WinsSet(g, w) /\ ~WinsSet(g, o)
      /\ ~(g[w] = TiebreakAtGamesEach /\ g[o] = TiebreakAtGamesEach)
  BY <1>3 DEF OpenGames, BothAtTiebreak
<1>5. ~WinsSet(h, o)
  BY <1>4, OtherDoesNotWin, FormatAssumption
<1> HIDE DEF h, o, next
<1>6. CASE BothAtTiebreak(h)
  <2>1. TiebreakOpen(next, b)
    BY <1>2, <1>6, ZeroIsOpen DEF TiebreakOpen
  <2> QED BY <2>1 DEF Standing, next
<1>7. CASE ~BothAtTiebreak(h) /\ WinsSet(h, w)
  <2>1. LegalSet(h)
    <3>1. h[w] >= GamesPerSet /\ h[w] - h[o] >= 2
      BY <1>7, FormatAssumption DEF WinsSet, o
    <3>2. ~(g[w] >= GamesPerSet /\ g[w] - g[o] >= 2)
      BY <1>4, FormatAssumption DEF WinsSet, o
    <3>3. \/ h[w] = GamesPerSet /\ h[o] <= GamesPerSet - 2
          \/ h[w] = GamesPerSet + 1 /\ h[o] = GamesPerSet - 1
      BY <1>3, <1>4, <3>1, <3>2, FormatAssumption
    <3> QED BY <3>3 DEF LegalSet, o
  <2>2. next = EndOfSet(b, h, w)
    BY <1>2, <1>7
  <2>3. EndsSet(next, b, h, w)
    BY <1>1, <2>2, EndOfSetFacts
  <2>4. SetWonBy(next, b, h, w)
    BY <1>7, <2>1, <2>3 DEF SetWonBy, CompletedBy
  <2> QED BY <1>1, <2>4, SetEnds DEF next
<1>8. CASE ~BothAtTiebreak(h) /\ ~WinsSet(h, w)
  <2>1. h[w] <= GamesPerSet
    <3>1. ~(h[w] >= GamesPerSet /\ h[w] - h[o] >= 2)
      BY <1>8, FormatAssumption DEF WinsSet, o
    <3> QED BY <1>3, <1>4, <3>1, FormatAssumption
  <2>2. OpenGames(h)
    BY <1>3, <1>4, <1>5, <1>8, <2>1 DEF OpenGames
  <2>3. SetOpen(next, b)
    BY <1>1, <1>2, <1>8, <2>2 DEF SetOpen
  <2> QED BY <2>3 DEF Standing, next
<1> QED BY <1>6, <1>7, <1>8

\* Two points taken from each side change nothing that is seen.
LEMMA FoldStands ==
  ASSUME NEW b, SetStart(b), NEW h \in Tallies, NobodyWins(b, h)
  PROVE  TiebreakOpen(Fold(InTiebreak(b, h)), b)
<1> DEFINE m == InTiebreak(b, h)
           T == TiebreakTarget(b.setsWon)
           level == h["A"] = h["B"] /\ h["A"] > T
           q == [p \in Players |-> h[p] - 2]
           n == h["A"] + h["B"]
<1>1. /\ m.current.phase = "tiebreak" /\ m.current.points = h /\ m.current.played = n
      /\ m.setsWon = b.setsWon /\ m.current = TiebreakAt(b, h)
      /\ m.server = ServerForTBPoint(n, b.server)
  BY InTiebreakFacts
<1>2. h["A"] \in Nat /\ h["B"] \in Nat /\ T \in Nat /\ T > 0
  BY FormatAssumption DEF Tallies, Players, TiebreakTarget
<1>3. Fold(m) = IF level THEN [m EXCEPT !.current = [m.current EXCEPT !.points = q,
                                                                      !.played = n - 4]]
                ELSE m
  <2>1. m.current.played - 4 = n - 4
    BY <1>1
  <2>2. Fold(m) = IF m.current.phase = "tiebreak" /\ m.current.points["A"] = m.current.points["B"]
                     /\ m.current.points["A"] > TiebreakTarget(m.setsWon)
                  THEN [m EXCEPT !.current =
                          [m.current EXCEPT !.points = [p \in Players |-> m.current.points[p] - 2],
                                            !.played = m.current.played - 4]]
                  ELSE m
    BY Zenon DEF Fold
  <2> HIDE DEF m, n
  <2> QED BY <1>1, <2>1, <2>2, Zenon
<1>4. CASE ~level
  BY <1>3, <1>4 DEF TiebreakOpen
<1>5. CASE level
  <2>1. /\ q \in Tallies /\ q["A"] = h["A"] - 2 /\ q["B"] = h["B"] - 2
        /\ h["A"] = h["B"] /\ h["A"] >= 2
    <3>1. h["A"] = h["B"] /\ h["A"] >= 2
      BY <1>2, <1>5
    <3>2. \A p \in Players : h[p] - 2 \in Nat
      BY <1>2, <3>1 DEF Players
    <3> QED BY <3>1, <3>2 DEF Tallies, Players
  <2>2. n - 4 = q["A"] + q["B"] /\ n - 4 \in Nat /\ n \in Nat
    BY <1>2, <2>1
  <2>3. ServerForTBPoint(n, b.server) = ServerForTBPoint(n - 4, b.server)
    <3>1. b.server \in Players
      BY DEF SetStart, Matches
    <3>2. n % 4 = (n - 4) % 4
      BY <2>2
    <3> DEFINE k == n - 4
    <3>3. k \in Nat
      BY <2>2
    <3> HIDE DEF n, k
    <3>4. n \in Nat /\ n % 4 = k % 4
      BY <2>2, <3>2 DEF k
    <3>5. /\ ServerForTBPoint(n, b.server) \in Players /\ ServerForTBPoint(k, b.server) \in Players
          /\ ServerForTBPoint(n, b.server) = b.server <=> n % 4 \in {0, 3}
          /\ ServerForTBPoint(k, b.server) = b.server <=> k % 4 \in {0, 3}
      BY <3>1, <3>3, <3>4, TurnsOfFour, ServerForTBPointType
    <3>6. ServerForTBPoint(n, b.server) = ServerForTBPoint(k, b.server)
      BY <3>1, <3>4, <3>5, Opponents
    <3> QED BY <3>6 DEF k
  <2> DEFINE k == n - 4
  <2> HIDE DEF k
  <2>4. k = q["A"] + q["B"] /\ m.server = ServerForTBPoint(q["A"] + q["B"], b.server)
    BY <1>1, <2>2, <2>3 DEF k
  <2>5. Counted(TiebreakAt(b, h), q, k) = TiebreakAt(b, q)
    <3> HIDE DEF q
    <3> QED BY <2>4, PointCounted
  <2>6. Fold(m) = [m EXCEPT !.current = TiebreakAt(b, q)]
    <3> HIDE DEF m, q, n, level
    <3>1. Fold(m) = [m EXCEPT !.current = [m.current EXCEPT !.points = q, !.played = k]]
      BY <1>3, <1>5, Zenon DEF k
    <3> QED BY <1>1, <2>5, <3>1, Zenon DEF Counted
  <2>7. [m EXCEPT !.current = TiebreakAt(b, q)] = InTiebreak(b, q)
    <3> DEFINE x == TiebreakAt(b, q)
               y == TiebreakAt(b, h)
               server == m.server
    <3>1. m = [b EXCEPT !.current = y, !.server = server]
      BY <1>1, Zenon DEF InTiebreak
    <3>2. InTiebreak(b, q) = [b EXCEPT !.current = x, !.server = server]
      BY <2>4, Zenon DEF InTiebreak
    <3>3. b \in Matches
      BY DEF SetStart
    <3> HIDE DEF x, y, server, m
    <3>4. [[b EXCEPT !.current = y, !.server = server] EXCEPT !.current = x]
            = [b EXCEPT !.current = x, !.server = server]
      BY <3>3 DEF Matches
    <3> QED BY <3>1, <3>2, <3>4 DEF x
  <2>8. NobodyWins(b, q)
    <3>1. \A p \in Players : ~(q[p] - q[Opponent(p)] >= 2)
      BY <1>2, <2>1 DEF Players, Opponent
    <3> HIDE DEF q
    <3> QED BY <3>1, FormatAssumption DEF NobodyWins, WinsTiebreak
  <2> HIDE DEF q, m
  <2> QED BY <2>1, <2>6, <2>7, <2>8 DEF TiebreakOpen, m
<1> QED BY <1>4, <1>5

LEMMA PointStands ==
  ASSUME NEW f, NEW b, Rebuilt(f, b), NEW g \in Tallies, NobodyWins(b, g), NEW w \in Players
  PROVE  LET next == WinTiebreakPoint(InTiebreak(b, g), w)
         IN  \E c : Rebuilt(f, c) /\ Standing(IF Done(next) THEN next ELSE Fold(next), c)
<1> DEFINE h == Plus(g, w)
           T == TiebreakTarget(b.setsWon)
           next == WinTiebreakPoint(InTiebreak(b, g), w)
           after == IF Done(next) THEN next ELSE Fold(next)
<1>1. SetStart(b) /\ h \in Tallies
  BY TallyPlus DEF Rebuilt
<1>2. next = IF WinsTiebreak(h, w, T) THEN EndOfTiebreak(b, h, w) ELSE InTiebreak(b, h)
  BY <1>1, PointFromStart
<1>3. T \in Nat
  BY FormatAssumption DEF TiebreakTarget
<1> HIDE DEF h, T, next
<1>4. CASE WinsTiebreak(h, w, T)
  <2> DEFINE t == TiebreakGames(w)
  <2>1. t \in Tallies /\ t[w] = GamesPerSet + 1 /\ t[Opponent(w)] = GamesPerSet
    BY FormatAssumption, Opponents DEF TiebreakGames, Tallies
  <2>2. next = EndOfTiebreak(b, h, w)
    BY <1>2, <1>4
  <2>3. EndsSet(next, b, t, w)
    BY <1>1, <2>2, EndOfTiebreakFacts
  <2> HIDE DEF t
  <2>4. SetWonBy(next, b, t, w)
    BY <2>1, <2>3, FormatAssumption DEF SetWonBy, LegalSet, CompletedBy
  <2>5. \E c : Rebuilt(f, c) /\ Standing(next, c)
    BY <2>1, <2>4, SetEnds
  <2>6. after = next
    <3>1. CASE Done(next)
      BY <3>1
    <3>2. CASE ~Done(next)
      <4>1. next.current.phase = "regular"
        BY <2>3, <3>2 DEF EndsSet, NewSet
      <4> QED BY <3>2, <4>1, Zenon DEF Fold
    <3> QED BY <3>1, <3>2
  <2> QED BY <2>5, <2>6 DEF next
<1>5. CASE ~WinsTiebreak(h, w, T)
  <2>1. next = InTiebreak(b, h)
    BY <1>2, <1>5
  <2>2. ~Done(next)
    BY <1>1, <2>1, InTiebreakFacts DEF CanWinTiebreakPoint
  <2>3. NobodyWins(b, h)
    <3>1. \A p \in Players : p = w \/ p = Opponent(w)
      BY Opponents
    <3>2. ~WinsTiebreak(h, Opponent(w), T)
      <4>1. ~WinsTiebreak(g, Opponent(w), T)
        BY Opponents DEF NobodyWins, T
      <4> QED BY <1>3, <4>1, OtherDoesNotWin DEF h
    <3> QED BY <1>5, <3>1, <3>2 DEF NobodyWins, T
  <2>4. TiebreakOpen(after, b)
    BY <1>1, <2>1, <2>2, <2>3, FoldStands
  <2> HIDE DEF after
  <2>5. Standing(after, b)
    BY <2>4 DEF Standing
  <2> QED BY <2>5 DEF after, next
<1> QED BY <1>4, <1>5

LEMMA ScoreNext == ASSUME ScoreInv, [Next]_vars PROVE ScoreInv'
<1>1. PICK b : Rebuilt(first, b) /\ Standing(match, b)
  BY DEF ScoreInv
<1>2. SetStart(b)
  BY <1>1 DEF Rebuilt
<1>3. ASSUME \E c : Rebuilt(first, c) /\ Standing(match', c), first' = first
      PROVE  ScoreInv'
  <2>1. PICK c : Rebuilt(first, c) /\ Standing(match', c)
    BY <1>3
  <2>2. Rebuilt(first', c) /\ Standing(match', c)
    BY <1>3, <2>1
  <2> QED BY <2>2 DEF ScoreInv
<1>4. ASSUME NEW w \in Players, PlayGame(w) PROVE ScoreInv'
  <2>1. CanWinGame(match) /\ match' = WinGame(match, w) /\ first' = first
    BY <1>4 DEF PlayGame
  <2>2. ~TiebreakOpen(match, b) /\ ~Finished(match, b)
    BY <1>2, <2>1, InTiebreakFacts DEF CanWinGame, TiebreakOpen, Finished
  <2>3. PICK g \in Tallies : OpenGames(g) /\ match = InSet(b, g)
    BY <1>1, <2>2 DEF Standing, SetOpen
  <2>4. \E c : Rebuilt(first, c) /\ Standing(match', c)
    BY <1>1, <2>1, <2>3, GameStands
  <2> QED BY <1>3, <2>1, <2>4
<1>5. ASSUME NEW w \in Players, PlayTiebreakPoint(w) PROVE ScoreInv'
  <2> DEFINE next == WinTiebreakPoint(match, w)
  <2>1. /\ CanWinTiebreakPoint(match) /\ first' = first
        /\ match' = IF Done(next) THEN next ELSE Fold(next)
    BY <1>5 DEF PlayTiebreakPoint
  <2>2. ~SetOpen(match, b) /\ ~Finished(match, b)
    BY <1>2, <2>1, InSetShows DEF CanWinTiebreakPoint, SetOpen, Finished
  <2>3. PICK g \in Tallies : NobodyWins(b, g) /\ match = InTiebreak(b, g)
    BY <1>1, <2>2 DEF Standing, TiebreakOpen
  <2>4. \E c : Rebuilt(first, c) /\ Standing(match', c)
    BY <1>1, <2>1, <2>3, PointStands
  <2> QED BY <1>3, <2>1, <2>4
<1>6. ASSUME UNCHANGED vars PROVE ScoreInv'
  BY <1>1, <1>3, <1>6 DEF vars
<1> QED BY <1>4, <1>5, <1>6 DEF Next, Over

-----------------------------------------------------------------------------
(* What the scores of a match lead to.                                      *)

LEMMA PlayedSame ==
  ASSUME NEW b, match.completed = b.completed
  PROVE  Played = PlayedOf(b)
BY DEF Played, PlayedOf

\* Whatever a valid token leads to, the match not being over.
LEMMA ScoreShown ==
  ASSUME NEW f, NEW b, Rebuilt(f, b), NEW t,
         ValidGameTotals(t), ~ClassifyFails(t, b.setsWon),
         NEW m, HydrateTurn(Replayed(b), t) = Replayed(m), ~Done(m)
  PROVE  MatchFromScore(f, Append(PlayedOf(b), t)) = Replayed(m)
<1>1. Replayed(m).err = "none" /\ Replayed(m).match = m
  BY ReplayedFacts
<1> QED BY <1>1, ScoreTurn

\* The score of a set in progress.
LEMMA OpenIsShown ==
  ASSUME NEW f, NEW b, Rebuilt(f, b), NEW s, TokenOK(s), OpenGames(s.games),
         s.tb = NoTiebreak
  PROVE  MatchFromScore(f, Append(PlayedOf(b), s)) = Replayed(InSet(b, s.games))
<1> DEFINE g == s.games
           m == InSet(b, g)
<1>1. /\ SetStart(b)
      /\ \A p \in Players : g[p] \in Nat /\ g[p] <= GamesPerSet
      /\ ~BothAtTiebreak(g)
  BY DEF Rebuilt, TokenOK, Tallies, OpenGames
<1>2. ~ImpossibleGameScore(g)
  <2> HIDE DEF g
  <2> QED BY <1>1, FormatAssumption DEF ImpossibleGameScore
<1>3. ValidGameTotals(s) /\ ~ClassifyFails(s, b.setsWon)
  BY <1>1, <1>2 DEF ValidGameTotals, ClassifyFails
<1>4. HydrateTurn(Replayed(b), s) = Replayed(m)
  BY <1>1, HydrateOpen
<1>5. ~Done(m)
  BY <1>1, InSetShows DEF CanWinGame
<1> HIDE DEF m
<1> QED BY <1>3, <1>4, <1>5, ScoreShown DEF m

\* The score of a tiebreak in progress.
LEMMA TiebreakIsShown ==
  ASSUME NEW f, NEW b, Rebuilt(f, b), NEW s, TokenOK(s), BothAtTiebreak(s.games),
         NobodyWins(b, TiebreakPoints(s))
  PROVE  MatchFromScore(f, Append(PlayedOf(b), s)) = Replayed(InTiebreak(b, TiebreakPoints(s)))
<1> DEFINE g == s.games
           m == InTiebreak(b, TiebreakPoints(s))
<1>1. /\ SetStart(b)
      /\ \A p \in Players : g[p] = TiebreakAtGamesEach
  BY DEF Rebuilt, BothAtTiebreak
<1>2. ~ImpossibleGameScore(g)
  <2> HIDE DEF g
  <2> QED BY <1>1, Opponents, FormatAssumption DEF ImpossibleGameScore
<1>3. ~TiebreakComplete(TiebreakPoints(s), b.setsWon)
  BY DEF NobodyWins, TiebreakComplete
<1>4. ValidGameTotals(s) /\ ~ClassifyFails(s, b.setsWon)
  BY <1>2, <1>3 DEF ValidGameTotals, ClassifyFails
<1>5. HydrateTurn(Replayed(b), s) = Replayed(m)
  BY <1>1, <1>3, HydrateTiebreak
<1>6. ~Done(m)
  BY <1>1, InTiebreakFacts DEF CanWinTiebreakPoint
<1> HIDE DEF m
<1> QED BY <1>4, <1>5, <1>6, ScoreShown DEF m

\* A legal set is accepted; what it leads to is what the set leaves, and the
\* end of the match is seen.
LEMMA WonIsShown ==
  ASSUME NEW f, NEW b, Rebuilt(f, b), NEW s, TokenOK(s), LegalSet(s.games),
         s.tb = NoTiebreak, NEW w \in Players, CompletedBy(s.games, w)
  PROVE  /\ ValidateScoreSequence(Append(PlayedOf(b), s)) = "none"
         /\ b.setsWon[w] + 1 >= SetsToWin =>
              MatchFromScore(f, Append(PlayedOf(b), s)).err = "matchComplete"
<1>1. SetStart(b) /\ LegalRecord(b) /\ SetsCounted(b) /\ s.games \in Tallies
  BY DEF Rebuilt, TokenOK
<1>2. ValidGameTotals(s) /\ ~ClassifyFails(s, b.setsWon)
  <2>1. ~BothAtTiebreak(s.games) /\ ~ImpossibleGameScore(s.games)
    BY <1>1, LegalWinner
  <2> QED BY <2>1 DEF ValidGameTotals, ClassifyFails
<1>3. ValidateScoreSequence(Append(PlayedOf(b), s)) = "none"
  BY <1>1, <1>2, ScoreValid
<1>4. ASSUME b.setsWon[w] + 1 >= SetsToWin
      PROVE  MatchFromScore(f, Append(PlayedOf(b), s)).err = "matchComplete"
  <2>1. PICK e : /\ HydrateTurn(Replayed(b), s) = Replayed(e)
                 /\ EndsSet(e, b, s.games, w)
    BY <1>1, HydrateWon
  <2>2. Done(e)
    BY <1>4, <2>1 DEF EndsSet
  <2>3. MatchFromScore(f, Append(PlayedOf(b), s)) = Failed("matchComplete", e)
    <3>1. Replayed(e).err = "none" /\ Replayed(e).match = e
      BY ReplayedFacts
    <3> QED BY <1>2, <2>1, <2>2, <3>1, ScoreTurn
  <2> QED BY <2>3, ReplayedFacts
<1> QED BY <1>3, <1>4

LEMMA ScoreInvShows == ASSUME ScoreInv PROVE RoundTrip
<1>1. PICK b : Rebuilt(first, b) /\ Standing(match, b)
  BY DEF ScoreInv
<1>2. SetStart(b)
  BY <1>1 DEF Rebuilt
<1>3. CASE SetOpen(match, b)
  <2>1. PICK g \in Tallies : OpenGames(g) /\ match = InSet(b, g)
    BY <1>3 DEF SetOpen
  <2>2. /\ match.current.games = g /\ match.current.phase = "regular"
        /\ match.completed = b.completed /\ ~Done(match)
    BY <1>2, <2>1, InSetShows DEF CanWinGame
  <2>3. Played = PlayedOf(b)
    BY <2>2, PlayedSame
  <2> DEFINE s == CurrentToken
  <2>4. s = [games |-> g, tb |-> NoTiebreak]
    BY <2>2 DEF CurrentToken
  <2>5. s.games = g /\ s.tb = NoTiebreak /\ TokenOK(s)
    BY <2>4 DEF TokenOK
  <2> HIDE DEF s
  <2>6. MatchFromScore(first, Append(PlayedOf(b), s)) = Replayed(match)
    BY <1>1, <2>1, <2>5, OpenIsShown
  <2>7. s.tb # <<0, 0>>
    BY <2>5 DEF NoTiebreak
  <2> QED BY <2>2, <2>3, <2>6, <2>7 DEF RoundTrip, s
<1>4. CASE TiebreakOpen(match, b)
  <2>1. PICK g \in Tallies : NobodyWins(b, g) /\ match = InTiebreak(b, g)
    BY <1>4 DEF TiebreakOpen
  <2>2. /\ match.current.games = AtThreshold /\ match.current.phase = "tiebreak"
        /\ match.current.points = g
        /\ match.completed = b.completed /\ ~Done(match)
    BY <1>2, <2>1, InTiebreakFacts DEF CanWinTiebreakPoint
  <2>3. Played = PlayedOf(b)
    BY <2>2, PlayedSame
  <2> DEFINE s == CurrentToken
             bare == [s EXCEPT !.tb = NoTiebreak]
  <2>4. s = [games |-> AtThreshold, tb |-> <<g["A"], g["B"]>>]
    BY <2>2 DEF CurrentToken
  <2>5. /\ AtThreshold \in Tallies /\ BothAtTiebreak(AtThreshold)
        /\ g["A"] \in Nat /\ g["B"] \in Nat
    BY FormatAssumption DEF AtThreshold, Tallies, BothAtTiebreak, Players
  <2>6. s.games = AtThreshold /\ s.tb = <<g["A"], g["B"]>> /\ TokenOK(s)
    BY <2>4, <2>5 DEF TokenOK
  <2>7. bare.games = AtThreshold /\ bare.tb = NoTiebreak /\ TokenOK(bare)
    BY <2>4, <2>5 DEF TokenOK
  <2> HIDE DEF s, bare
  <2>8. TiebreakPoints(s) = g
    <3>1. s.tb # NoTiebreak /\ s.tb[1] = g["A"] /\ s.tb[2] = g["B"]
      BY <2>6 DEF NoTiebreak
    <3>2. TiebreakPoints(s) = [p \in Players |-> IF p = "A" THEN g["A"] ELSE g["B"]]
      BY <3>1 DEF TiebreakPoints
    <3> QED BY <3>2 DEF Tallies, Players
  <2>9. MatchFromScore(first, Append(PlayedOf(b), s)) = Replayed(match)
    BY <1>1, <2>1, <2>5, <2>6, <2>8, TiebreakIsShown
  <2>10. ASSUME s.tb = <<0, 0>>
         PROVE  MatchFromScore(first, Append(PlayedOf(b), bare)) = Replayed(match)
    <3>1. g["A"] = 0 /\ g["B"] = 0
      BY <2>6, <2>10
    <3>2. TiebreakPoints(bare) = g
      BY <2>7, <3>1 DEF TiebreakPoints, Zero, Tallies, Players
    <3> QED BY <1>1, <2>1, <2>5, <2>7, <3>2, TiebreakIsShown
  <2> QED BY <2>2, <2>3, <2>9, <2>10 DEF RoundTrip, s, bare
<1>5. CASE Finished(match, b)
  <2>1. PICK t \in Tallies, w \in Players : SetWonBy(match, b, t, w)
    BY <1>5 DEF Finished
  <2>2. /\ Done(match) /\ LegalSet(t) /\ CompletedBy(t, w)
        /\ match.completed = Append(b.completed, t)
        /\ b.setsWon[w] + 1 >= SetsToWin
    BY <1>5, <2>1 DEF Finished, SetWonBy, EndsSet
  <2> DEFINE s == [games |-> t, tb |-> NoTiebreak]
  <2>3. s.games = t /\ s.tb = NoTiebreak /\ TokenOK(s)
    BY DEF TokenOK
  <2>4. Played = Append(PlayedOf(b), s)
    <3>1. b.completed \in Seq(Games)
      BY <1>2 DEF SetStart, Matches
    <3>2. PlayedOf(b) = [i \in 1 .. Len(b.completed) |->
                           [games |-> b.completed[i], tb |-> NoTiebreak]]
      BY <3>1 DEF PlayedOf
    <3>3. Played = [i \in 1 .. Len(b.completed) + 1 |->
                      [games |-> Append(b.completed, t)[i], tb |-> NoTiebreak]]
      BY <2>2, <3>1 DEF Played
    <3> DEFINE n == Len(b.completed)
               q == Append(PlayedOf(b), s)
    <3>4. Extended(q, b, s, n)
      BY <1>2, PlayedTokens
    <3>5. n \in Nat /\ DOMAIN q = 1 .. n + 1 /\ q[n + 1] = s
      BY <3>4 DEF Extended
    <3>6. q = [i \in 1 .. n + 1 |-> q[i]]
      <4>1. PlayedOf(b) \in Seq({[games |-> g, tb |-> NoTiebreak] : g \in Games})
        BY <3>1, <3>2
      <4> QED BY <3>5, <4>1
    <3>7. ASSUME NEW i \in 1 .. n PROVE q[i] = Played[i]
      <4>1. q[i] = PlayedOf(b)[i]
        BY <3>4 DEF Extended
      <4> QED BY <3>1, <3>2, <3>3, <4>1
    <3>8. q[n + 1] = Played[n + 1]
      BY <3>1, <3>3, <3>5
    <3> HIDE DEF q, n
    <3>9. \A i \in 1 .. n + 1 : q[i] = Played[i]
      BY <3>5, <3>7, <3>8
    <3> QED BY <3>3, <3>6, <3>9 DEF q, n
  <2> HIDE DEF s
  <2>5. /\ ValidateScoreSequence(Played) = "none"
        /\ MatchFromScore(first, Played).err = "matchComplete"
    BY <1>1, <2>2, <2>3, <2>4, WonIsShown
  <2> QED BY <2>2, <2>5 DEF RoundTrip
<1> QED BY <1>1, <1>3, <1>4, <1>5 DEF Standing

\* A completed set that can be is a legal one; one that is not completed, not
\* at the tiebreak and not open has the same games on both sides.
LEMMA PossibleGames ==
  ASSUME NEW g \in Tallies, ~ImpossibleGameScore(g)
  PROVE  /\ \A w \in Players : CompletedBy(g, w) => LegalSet(g)
         /\ \/ \E w \in Players : CompletedBy(g, w)
            \/ BothAtTiebreak(g) \/ OpenGames(g)
            \/ \E x \in Nat : x > TiebreakAtGamesEach /\ g = [p \in Players |-> x]
<1>1. ASSUME NEW w \in Players
      PROVE  /\ Opponent(w) \in Players /\ Opponent(Opponent(w)) = w
             /\ \A p \in Players : p = w \/ p = Opponent(w)
             /\ g[w] \in Nat /\ g[Opponent(w)] \in Nat
             /\ g[w] > g[Opponent(w)] =>
                  /\ g[w] <= GamesPerSet + 1
                  /\ g[w] = GamesPerSet + 1 => g[Opponent(w)] \in {GamesPerSet - 1, GamesPerSet}
  <2>1. /\ Opponent(w) \in Players /\ Opponent(Opponent(w)) = w
        /\ \A p \in Players : p = w \/ p = Opponent(w)
    BY Opponents
  <2>2. g[w] \in Nat /\ g[Opponent(w)] \in Nat
    BY <2>1 DEF Tallies
  <2> QED BY <2>1, <2>2, FormatAssumption DEF ImpossibleGameScore
<1>2. ASSUME NEW w \in Players, CompletedBy(g, w) PROVE LegalSet(g)
  BY <1>1, <1>2, FormatAssumption DEF CompletedBy, WinsSet, LegalSet
<1>3. ASSUME \A w \in Players : ~CompletedBy(g, w), ~BothAtTiebreak(g), ~OpenGames(g)
      PROVE  \E x \in Nat : x > TiebreakAtGamesEach /\ g = [p \in Players |-> x]
  <2>1. \A p \in Players : ~WinsSet(g, p)
    BY <1>3 DEF CompletedBy
  <2>2. PICK w \in Players : ~(g[w] <= GamesPerSet)
    BY <1>3, <2>1 DEF OpenGames
  <2> DEFINE o == Opponent(w)
  <2>3. ~(g[w] > g[o])
    <3>1. /\ g[w] > g[o] /\ g[o] = GamesPerSet - 1 => WinsSet(g, w)
          /\ g[w] > g[o] /\ g[o] = GamesPerSet => CompletedBy(g, w)
      BY <1>1, <2>2, FormatAssumption DEF WinsSet, CompletedBy
    <3> QED BY <1>1, <1>3, <2>1, <2>2, <3>1, FormatAssumption
  <2>4. ~(g[o] > g[w])
    <3>1. o \in Players /\ Opponent(o) = w /\ g[w] \in Nat /\ g[o] \in Nat
      BY <1>1
    <3>2. g[o] > g[w] => g[o] <= GamesPerSet + 1
      BY <1>1, <3>1
    <3> QED BY <2>2, <3>1, <3>2, FormatAssumption
  <2>5. g[o] = g[w] /\ g[w] \in Nat /\ \A p \in Players : p = w \/ p = o
    BY <1>1, <2>3, <2>4
  <2>6. g = [p \in Players |-> g[w]]
    <3> HIDE DEF o
    <3> QED BY <2>5 DEF Tallies
  <2>7. g[w] > TiebreakAtGamesEach
    BY <2>2, <2>5, FormatAssumption
  <2> QED BY <2>5, <2>6, <2>7
<1> QED BY <1>2, <1>3

LEMMA TokenIsShown ==
  ASSUME NEW f, NEW b, Rebuilt(f, b), NEW t, TokenOK(t),
         MatchFromScore(f, Append(PlayedOf(b), t)).err = "none"
  PROVE  ShowsToken(MatchFromScore(f, Append(PlayedOf(b), t)).match, b, t)
<1> DEFINE g == t.games
           valid == ValidGameTotals(t) /\ ~ClassifyFails(t, b.setsWon)
           h == HydrateTurn(Replayed(b), t)
           r == MatchFromScore(f, Append(PlayedOf(b), t))
           m == r.match
<1>1. SetStart(b) /\ LegalRecord(b) /\ SetsCounted(b) /\ g \in Tallies
  BY DEF Rebuilt, TokenOK
<1>2. valid
  <2> SUFFICES ASSUME ~valid PROVE FALSE
    OBVIOUS
  <2>1. r = Failed(ValidateScoreSequence(Append(PlayedOf(b), t)), NewMatch(f))
    BY ScoreTurn
  <2>2. ValidateScoreSequence(Append(PlayedOf(b), t)) # "none"
    BY <1>1, ScoreValid
  <2>3. r.err = ValidateScoreSequence(Append(PlayedOf(b), t))
    <3> DEFINE V == ValidateScoreSequence(Append(PlayedOf(b), t))
    <3>1. Failed(V, NewMatch(f)).err = V
      <4> HIDE DEF V
      <4> QED BY ReplayedFacts
    <3> HIDE DEF r, V
    <3>2. r = Failed(V, NewMatch(f))
      BY <2>1 DEF V
    <3>3. r.err = V
      BY <3>1, <3>2
    <3> QED BY <3>3 DEF V
  <2> QED BY <2>2, <2>3
<1>3. h.err = "none" /\ r = h /\ ~Done(m)
  <2>1. r = IF h.err = "none" /\ Done(h.match) THEN Failed("matchComplete", h.match) ELSE h
    BY <1>2, ScoreTurn
  <2>2. Failed("matchComplete", h.match).err # "none"
    BY ReplayedFacts
  <2> HIDE DEF h
  <2> QED BY <2>1, <2>2
<1>4. /\ ~ImpossibleGameScore(g)
      /\ ~BothAtTiebreak(g) => t.tb = NoTiebreak
      /\ BothAtTiebreak(g) => ~TiebreakComplete(TiebreakPoints(t), b.setsWon)
  BY <1>2 DEF ValidGameTotals, ClassifyFails
<1>5. ASSUME NEW n, h = Replayed(n) PROVE m = n
  BY <1>3, <1>5, ReplayedFacts
<1> HIDE DEF r, m, h, g
<1>6. CASE Completed(t)
  <2>1. PICK w \in Players : CompletedBy(g, w)
    BY <1>6 DEF Completed, g
  <2>2. LegalSet(g)
    BY <1>1, <1>4, <2>1, PossibleGames
  <2>3. PICK e : h = Replayed(e) /\ EndsSet(e, b, g, w)
    BY <1>1, <2>1, <2>2, HydrateWon DEF h, g
  <2>4. m.completed = Append(b.completed, g) /\ m.current = NewSet
    BY <1>3, <1>5, <2>3 DEF EndsSet
  <2>5. ShowsToken(m, b, t)
    BY <1>3, <1>6, <2>2, <2>4 DEF ShowsToken, g
  <2> QED BY <2>5 DEF m, r
<1>7. CASE ~Completed(t) /\ BothAtTiebreak(g)
  <2>1. h = Replayed(InTiebreak(b, TiebreakPoints(t)))
    BY <1>1, <1>4, <1>7, HydrateTiebreak DEF h, g
  <2>2. m = InTiebreak(b, TiebreakPoints(t))
    BY <1>5, <2>1
  <2>3. m.completed = b.completed /\ m.current.games = AtThreshold
        /\ m.current.points = TiebreakPoints(t)
    BY <1>1, <2>2, InTiebreakFacts
  <2>4. g = AtThreshold
    BY <1>1, <1>7 DEF Tallies, BothAtTiebreak, AtThreshold
  <2>5. ShowsToken(m, b, t)
    BY <1>3, <1>7, <2>3, <2>4 DEF ShowsToken, g
  <2> QED BY <2>5 DEF m, r
<1>8. CASE ~Completed(t) /\ ~BothAtTiebreak(g)
  <2>1. t.tb = NoTiebreak /\ TiebreakPoints(t) = Zero
    BY <1>4, <1>8 DEF TiebreakPoints
  <2>2. ~\E w \in Players : CompletedBy(g, w)
    BY <1>8 DEF Completed, g
  <2>3. ~LegalSet(g)
    BY <1>1, <2>2, LegalWinner
  <2>4. CASE OpenGames(g)
    <3>1. h = Replayed(InSet(b, g))
      BY <1>1, <2>1, <2>4, HydrateOpen DEF h, g
    <3>2. m = InSet(b, g)
      BY <1>5, <3>1
    <3>3. m.completed = b.completed /\ m.current.games = g /\ m.current.points = Zero
      <4>1. m.completed = b.completed /\ m.current = [NewSet EXCEPT !.games = g]
        BY <1>1, <3>2, InSetFacts
      <4>2. m.current.games = g /\ m.current.points = Zero
        BY <4>1 DEF NewSet
      <4> QED BY <4>1, <4>2
    <3>4. ShowsToken(m, b, t)
      BY <1>3, <1>8, <2>1, <2>3, <3>3 DEF ShowsToken, g
    <3> QED BY <3>4 DEF m, r
  <2>5. CASE ~OpenGames(g)
    <3>1. PICK x \in Nat : x > TiebreakAtGamesEach /\ g = [p \in Players |-> x]
      BY <1>1, <1>4, <1>8, <2>2, <2>5, PossibleGames
    <3>2. h.err # "none"
      BY <1>1, <3>1, HydrateBeyond DEF h, g
    <3> QED BY <1>3, <3>2
  <2> QED BY <2>4, <2>5
<1> QED BY <1>6, <1>7, <1>8

\* A match at the start of a set is its own beginning.
LEMMA AtStartIsRebuilt ==
  ASSUME ScoreInv, AtSetStart
  PROVE  Rebuilt(first, match)
<1>1. PICK b : Rebuilt(first, b) /\ Standing(match, b)
  BY DEF ScoreInv
<1>2. SetStart(b)
  BY <1>1 DEF Rebuilt
<1>3. ~Done(match) /\ match.current = NewSet
  BY DEF AtSetStart
<1>4. NewSet.games = Zero /\ NewSet.phase = "regular"
  BY DEF NewSet
<1>5. ~TiebreakOpen(match, b)
  BY <1>2, <1>3, <1>4, InTiebreakFacts DEF TiebreakOpen
<1>6. PICK g \in Tallies : OpenGames(g) /\ match = InSet(b, g)
  BY <1>1, <1>3, <1>5 DEF Standing, SetOpen, Finished
<1>7. g = Zero
  BY <1>2, <1>3, <1>4, <1>6, InSetShows
<1> QED BY <1>1, <1>2, <1>6, <1>7, StartsAtZero

LEMMA ScoreInvAccepts == ASSUME ScoreInv PROVE AcceptedIsFaithful
<1> SUFFICES ASSUME AtSetStart, NEW t \in Tokens,
                    MatchFromScore(first, Append(Played, t)).err = "none"
             PROVE  ShowsToken(MatchFromScore(first, Append(Played, t)).match, match, t)
  BY DEF AcceptedIsFaithful, ShowsToken
<1>1. Rebuilt(first, match)
  BY AtStartIsRebuilt
<1>2. Played = PlayedOf(match)
  BY DEF Played, PlayedOf
<1>3. TokenOK(t)
  <2>1. t \in [games : [Players -> Nat], tb : {NoTiebreak} \cup (Nat \X Nat)]
    BY TokensAssumption
  <2> QED BY <2>1 DEF TokenOK, Tallies
<1> QED BY <1>1, <1>2, <1>3, TokenIsShown

\* Scores and matches agree, for every format and whatever is typed: the score
\* of any match the engine reaches leads MatchFromScore back to that match,
\* and no accepted score leads to a match that does not show it.
THEOREM ScoresAreFaithful == Spec => []HydrationFaithful
<1>1. Init => ScoreInv
  BY ScoreInit
<1>2. ScoreInv /\ [Next]_vars => ScoreInv'
  BY ScoreNext
<1>3. ScoreInv => HydrationFaithful
  BY ScoreInvShows, ScoreInvAccepts DEF HydrationFaithful
<1> QED BY <1>1, <1>2, <1>3, PTL DEF Spec
=============================================================================
