------------------------------ MODULE MCWindow ------------------------------
(* Small instances of Window for TLC.                                      *)
EXTENDS Window

One(isAtomic, n) ==
    [batch |-> 1, capacity |-> 2, workers |-> 2, atomic |-> isAtomic, reads |-> n]
Two(isAtomic, n) ==
    [batch |-> 2, capacity |-> 2, workers |-> 1, atomic |-> isAtomic, reads |-> n]

\* Single deliveries on two workers, and batches of two one after the other.
EveryMount == {One(b, 2) : b \in BOOLEAN} \cup {Two(b, 3) : b \in BOOLEAN}
Single     == {One(FALSE, 2)}
=============================================================================
