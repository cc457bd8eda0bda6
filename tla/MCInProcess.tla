----------------------------- MODULE MCInProcess -----------------------------
(* Small instances of InProcess for TLC.                                   *)
EXTENDS InProcess, TLC

CONSTANTS a, b

With(mode, delays, n, deletes, positions, drops) ==
    [mode |-> mode, delays |-> delays, entries |-> n, deletes |-> deletes,
     positions |-> positions, drops |-> drops]

Alone     == a :> "fresh"
Two       == (a :> "fresh") @@ (b :> "fresh")
Claiming  == (a :> "fresh") @@ (b :> "claiming")
Reclaim   == (a :> "fresh") @@ (b :> "reclaim")

Tails   == {With(Two, FALSE, 2, TRUE, {"end"}, "idle")}
Delayed == {With(Alone, TRUE, 3, FALSE, {}, "idle")}
Racing  == {With(Two, TRUE, 2, FALSE, {}, "never")}
Idles   == {With(m, FALSE, 2, FALSE, {}, "idle") : m \in {Claiming, Reclaim}}
Small   == Tails \cup Delayed \cup Racing \cup Idles

\* Each of these lets one more thing happen.
Deleted  == {With(Claiming, FALSE, 1, TRUE, {}, "never")}
Replayed == {With(Two, FALSE, 1, FALSE, {"beginning"}, "never")}
Dropped  == {With(Two, FALSE, 2, FALSE, {}, "any")}
Shared   == {With(Two, TRUE, 3, FALSE, {}, "never")}
=============================================================================
