------------------------------ MODULE MCBroker ------------------------------
(* Small instances of Broker for TLC.                                      *)
EXTENDS Broker, TLC

CONSTANTS s1, s2, s3, a, b

D(form, as, name, dead) ==
    [form |-> form, as |-> as, name |-> name, dead |-> dead]

\* Subscriptions that share a name or a dead letter, agree on it or do not,
\* beside one that writes the other name.
Shared   == (s1 :> D("stream", "own", a, b)) @@ (s2 :> D("channel", "own", b, NoName))
            @@ (s3 :> D("stream", "own", a, NoName))
Framed   == (s1 :> D("channel", "own", a, b)) @@ (s2 :> D("channel", "own", b, a))
            @@ (s3 :> D("list", "other", a, a))
OwnDead  == (s1 :> D("list", "own", a, a)) @@ (s2 :> D("list", "own", a, b))
            @@ (s3 :> D("stream", "other", b, NoName))
Readers  == (s1 :> D("stream", "own", a, NoName)) @@ (s2 :> D("list", "own", b, NoName))
            @@ (s3 :> D("pattern", "own", a, NoName))
EveryMount == {Shared, Framed, OwnDead, Readers}
=============================================================================
