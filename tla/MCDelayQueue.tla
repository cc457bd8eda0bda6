---------------------------- MODULE MCDelayQueue ----------------------------
(* Small instances of DelayQueue for TLC.                                  *)
EXTENDS DelayQueue, TLC

CONSTANTS a, b, j1, j2

AllCarried == [s \in Subs |-> {}]
\* The envelope of b, deployed after a's, refuses j1.
OneRefused == (a :> {}) @@ (b :> {j1})
=============================================================================
