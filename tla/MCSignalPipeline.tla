-------------------------- MODULE MCSignalPipeline --------------------------
(***************************************************************************)
(* A small instance of SignalPipeline: a favourable signal, one that must  *)
(* be refused, one malformed; a balance whose share is below the cap, and  *)
(* one whose share is above it.                                            *)
(***************************************************************************)
EXTENDS SignalPipeline

CONSTANTS t1, t2

KindsDef == {[side |-> "BUY", price |-> 33, prob |-> 60],
             [side |-> "BUY", price |-> 110, prob |-> 100],
             [side |-> "none", price |-> 33, prob |-> 60]}
BalancesDef == {3001, 9999}
=============================================================================
