--------------------------- MODULE MCReliableList ---------------------------
(* Small instances of ReliableList for TLC.                                *)
EXTENDS ReliableList

CONSTANTS a, b, x

Under(direct, pipelined, ps, rs, cs, fs, ttl) ==
    [direct |-> direct, pipelined |-> pipelined, count |-> 2, pushes |-> ps,
     retries |-> rs, claims |-> cs, faults |-> fs, expires |-> ttl,
     ids |-> TRUE]

\* Containers: the process of every subscription has the same id.
Shared(ld) == [ld EXCEPT !.ids = FALSE]

\* Late verdicts, and retries that make equal bytes, of two subscriptions; a
\* retry and a second entry under a fault; a crash beside another reader; a
\* pipeline of two pops, a window's retry, and a direct and a pipelined
\* subscription of one list.
LateVerdict == {Under({a, b}, {}, 1, 0, 1, 0, FALSE)}
LateRetry   == {Under({a, b}, {}, 1, 1, 1, 0, FALSE)}
OneRetry    == {Under({a}, {}, 2, 1, 1, 1, TRUE)}
TwoReaders  == {Under({a, b}, {}, 1, 0, 0, 1, FALSE)}
TwoAtOnce   == {Under({}, {a}, 3, 0, 1, 1, FALSE)}
OneAtOnce   == {Under({}, {a}, 1, 1, 1, 1, TRUE)}
Mixed       == {Under({b}, {a}, 1, 0, 0, 1, FALSE)}

\* Two faults of one reader; one restart and a second process with the id of
\* the first.
TwoFaults   == {Under({a}, {}, 1, 0, 1, 2, FALSE)}
SameId      == {Shared(Under({a}, {}, 2, 0, 1, 1, FALSE)),
                Shared(Under({a, b}, {}, 2, 0, 1, 0, FALSE))}

Small == LateVerdict \cup LateRetry \cup OneRetry \cup TwoReaders
             \cup TwoAtOnce \cup OneAtOnce \cup Mixed
=============================================================================
