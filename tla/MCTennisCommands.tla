-------------------------- MODULE MCTennisCommands --------------------------
(* Small files for every command.                                           *)
EXTENDS TennisCommands

-----------------------------------------------------------------------------
(* The fetchers: two spellings of one player, who share a slug, and another *)
(* player.                                                                  *)

MCNames == <<"Alex de Minaur", "Alex De Minaur", "Jannik Sinner">>
MCSlug == [n \in {MCNames[x] : x \in 1 .. 3} |->
             IF n = "Jannik Sinner" THEN "JannikSinner" ELSE "AlexDeMinaur"]
MCKey == [s \in {"JannikSinner", "AlexDeMinaur"} |->
            IF s = "JannikSinner" THEN "janniksinner" ELSE "alexdeminaur"]

-----------------------------------------------------------------------------
(* The join: a surname with a particle, one without, one of two words; two  *)
(* rows on each side, around the limit of 21 days.                          *)

delPotro == <<"juan", "martin", "del", "potro">>
medvedev == <<"daniil", "medvedev">>
carrenoBusta == <<"pablo", "carreno", "busta">>

MCInitialOf ==
  [w \in {"juan", "jm", "j", "daniil", "d", "pablo", "p"} |->
     CASE w \in {"juan", "jm", "j"} -> "j" [] w \in {"daniil", "d"} -> "d"
       [] w \in {"pablo", "p"} -> "p"]
MCSlugOf == [n \in {delPotro, medvedev, carrenoBusta} |->
               CASE n = delPotro -> "DelPotro" [] n = medvedev -> "Medvedev"
                 [] n = carrenoBusta -> "CarrenoBusta"]

MCCompound == {carrenoBusta}
MCRatedSlugs == {"DelPotro", "Medvedev"}

Row(w, l, court, score1, best, day, num) ==
  [winner |-> w, loser |-> l, surface |-> court, score |-> score1, bestOf |-> best,
   date |-> day, num |-> num]
MatchRows ==
  {Row(w, medvedev, "Hard", "full", 3, 100, 1) : w \in {delPotro, carrenoBusta, NoName}}
    \cup {Row(medvedev, delPotro, "Hard", sc, best, 100, 2) : sc \in {"full", "RET"}, best \in {1, 5}}
    \cup {Row(delPotro, medvedev, court, "full", 3, day, num) :
            court \in {"Clay", "Carpet", ""}, day \in {0, 100}, num \in {-1, 3}}
\* The second row of a table is always the same one.
MCMatchTables ==
  {<<>>} \cup {<<a, Row(delPotro, medvedev, "Hard", "full", 5, 100, 4)>> : a \in MatchRows}

OddsName(words, dotted) == [words |-> words, dotted |-> dotted]
Odds(w, wname, l, lname, court, day, comment, avgW) ==
  [of |-> <<w, l>>, winner |-> wname, loser |-> lname, surface |-> court, date |-> day,
   comment |-> comment, avgW |-> avgW, avgL |-> 5]
potroJM == OddsName(<<"del", "potro", "jm">>, TRUE)
medvedevD == OddsName(<<"medvedev", "d">>, TRUE)
OddsRows ==
  {Odds(delPotro, potroJM, medvedev, name, "Hard", day, "Completed", day) :
     day \in {79, 95, 104, 121, 122}, name \in {medvedevD, OddsName(<<"medvedev", "daniil">>, FALSE)}}
    \cup {Odds(delPotro, potroJM, medvedev, medvedevD, "Hard", 101, comment, odd) :
            comment \in {"Retired", ""}, odd \in {0, 7}}
    \cup {Odds(medvedev, medvedevD, delPotro, potroJM, "Hard", 100, "", 9),
          Odds(delPotro, potroJM, medvedev, medvedevD, "Clay", 103, "", 8),
          Odds(carrenoBusta, OddsName(<<"carreno", "busta", "p">>, TRUE), medvedev, medvedevD,
               "Hard", 102, "", 6)}
MCOddsTables == {<<a, b>> : a \in OddsRows, b \in {o \in OddsRows : o.date \in {95, 100, 104}}}

\* No two players of the instance share a key.
ASSUME KeysAreToldApart == KeysTellApart

-----------------------------------------------------------------------------
(* The searches: a surface with three matches, of which two can be judged   *)
(* and have the same players on two days, and one with one match; the       *)
(* career of a holds a result of the day itself and one of a later day.     *)

Judged(a, b, day) == [a |-> a, b |-> b, date |-> day]
MCPools == <<<<Judged("a", "b", 41), Judged("a", "x", 41), Judged("b", "a", 43)>>,
             <<Judged("b", "a", 41)>>>>
Result(day, dr) == [date |-> day, dr |-> dr]
MCCareers == [p \in {"a", "b"} |->
                IF p = "a" THEN <<Result(41, One), Result(42, One), Result(38, One)>>
                ELSE <<Result(40, One)>>]
MCBounds == [halfLife |-> <<1, 1, 2>>, weightMax |-> <<0, 0, 1>>,
             ratioMin |-> <<8, 10, 2>>, ratioMax |-> <<10, 12, 2>>]
MCScores == {[accuracy |-> 2, hitRate |-> 0], [accuracy |-> 1, hitRate |-> 1]}
MCRateSlugs == {"a", "b"}
\* Surface-independent tuning that must not reach the grid.
MCSearchEnv == [Unset EXCEPT !.weightMax = 7, !.halfLife = 2]
MCAlphaRanges == {<<0, 2>>, <<1, 2>>}

-----------------------------------------------------------------------------
(* The adjustment: years 2 and 3, a minimum of 4 matches, two recent        *)
(* results at most.                                                         *)

MCDefaults == [minSeason |-> 4, limit |-> 2, halfLife |-> 1, weightMax |-> 3,
               ratioMin |-> 9, ratioMax |-> 12, chalWeight |-> 5]
MCDecay == [h \in 1 .. 2 |-> IF h = 1 THEN <<4, 2, 1>> ELSE <<1, 1, 1>>]

Season(y, m, hold10, dr2) ==
  [year |-> y, career |-> FALSE, matches |-> m, hold |-> Tenths(hold10), brk |-> Tenths(2),
   dr |-> Frac(dr2, 2)]
CareerRow == [Season(3, 9, 9, 2) EXCEPT !.career = TRUE]
Tours ==
  {<<>>, <<CareerRow, Season(3, 2, 8, 2)>>, <<Season(3, 2, 8, 2), Season(2, 3, 6, 4)>>,
   <<Season(3, 5, 10, 2), Season(2, 3, 6, 4)>>, <<Season(2, 2, 8, 0), Season(1, 2, 6, 2)>>}
Challengers ==
  {<<>>, <<Season(3, 2, 6, 4)>>, <<Season(2, 2, 6, 4)>>, <<Season(3, 2, 6, 4), Season(2, 2, 10, 2)>>}
Recents ==
  LET rows == {Result(day, dr) : day \in {34, 35, 36}, dr \in {NoDR, Frac(1, 2), Frac(2, 1)}}
  IN  {<<>>} \cup {<<r, s>> : r, s \in rows} \cup {<<r, s, Result(33, One)>> : r, s \in rows}
\* Historical adjustments take the tuning of the defaults.
MCProfiles ==
  {[kind |-> kind, date |-> 35, env |-> env, surfaceEnv |-> surfaceEnv,
    stats |-> [tour |-> tour, challenger |-> chal, recent |-> recent]] :
     kind \in {"live", "historical"}, tour \in Tours, chal \in Challengers, recent \in Recents,
     env \in {Unset, [Unset EXCEPT !.weightMax = 10, !.halfLife = 2, !.minSeason = 3]},
     surfaceEnv \in {Unset, [Unset EXCEPT !.weightMax = 5, !.ratioMax = 11]}}
=============================================================================
