--------------------------- MODULE MCStreamGroup ---------------------------
(* Small instances of StreamGroup for TLC.                                 *)
EXTENDS StreamGroup, TLC

CONSTANTS a, b, m1, m2

FreshPair     == (a :> "fresh") @@ (b :> "fresh")
FreshReclaim  == (a :> "fresh") @@ (b :> "reclaim")
FreshClaiming == (a :> "fresh") @@ (b :> "claiming")
FreshOne      == (a :> "fresh")
=============================================================================
