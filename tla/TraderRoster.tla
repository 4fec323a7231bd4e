---------------------------- MODULE TraderRoster ----------------------------
(***************************************************************************)
(* What the discovery of markets promises: however often and however       *)
(* concurrently a market is announced, a trader is started for it only     *)
(* under a claim, at most one start succeeds, and a claim that produced a  *)
(* trader is never given back.                                             *)
(***************************************************************************)
EXTENDS Naturals

CONSTANT Markets     \* condition identifiers

VARIABLES
  claimed,  \* markets somebody starts, or has started, a trader for
  starts    \* per market, the traders started

vars == <<claimed, starts>>

Init ==
  /\ claimed = {}
  /\ starts = [m \in Markets |-> 0]

\* The markets found when the program starts are started and claimed at once.
Seed(ms) ==
  /\ claimed = {}
  /\ claimed' = ms
  /\ starts' = [m \in Markets |-> IF m \in ms THEN 1 ELSE 0]

Claim(m) ==
  /\ m \notin claimed
  /\ claimed' = claimed \cup {m}
  /\ UNCHANGED starts

Start(m) ==
  /\ m \in claimed
  /\ starts[m] = 0
  /\ starts' = [starts EXCEPT ![m] = 1]
  /\ UNCHANGED claimed

\* Only a claim without a trader is released.
Release(m) ==
  /\ m \in claimed
  /\ starts[m] = 0
  /\ claimed' = claimed \ {m}
  /\ UNCHANGED starts

Next ==
  \/ \E ms \in SUBSET Markets : Seed(ms)
  \/ \E m \in Markets : Claim(m) \/ Start(m) \/ Release(m)

Spec == Init /\ [][Next]_vars
=============================================================================
