----------------------------- MODULE MCBacktest -----------------------------
(***************************************************************************)
(* Two configurations of singles and two of parlays, with and without      *)
(* filters and money manager; matches with each kind of rates, the         *)
(* favourite on either side, and odds of 1.                                *)
(***************************************************************************)
EXTENDS Backtest

Config(mode, pick, odds, ev, managed, legs) ==
  [mode |-> mode, minPick |-> pick, minOdds |-> odds, ev |-> ev,
   managed |-> managed, maxLegs |-> legs]
ConfigsDef ==
  {Config("singles", 2, 0, FALSE, FALSE, 1), Config("singles", 1, 2, TRUE, TRUE, 1),
   Config("parlay", 1, 0, FALSE, TRUE, 2), Config("parlay", 1, 0, TRUE, FALSE, 3)}

Kind(surface, w, l, rates) == [surface |-> surface, w |-> w, l |-> l, rates |-> rates]
KindsDef ==
  {Kind("hard", 2, 3, "file"), Kind("clay", 1, 4, "web"),
   Kind("grass", 3, 1, "none"), Kind("hard", 3, 2, "web"),
   Kind("grass", 2, 3, "bad")}
=============================================================================
