----------------------------- MODULE MCPublisher -----------------------------
(* Small instances of Publisher for TLC.                                   *)
EXTENDS Publisher, TLC

CONSTANTS t1, t2, d1, d2

\* Two transactions without a round, or two deliveries beside a transaction.
EveryLoad ==
    {[messages |-> 3, transactions |-> 2, deliveries |-> {}],
     [messages |-> 2, transactions |-> 1, deliveries |-> {d1, d2}]}
TwoTasks == {t1, t2}
Sym      == Permutations(TwoTasks) \cup Permutations({d1, d2})
=============================================================================
