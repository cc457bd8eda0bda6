----------------------------- MODULE AtLeastOnce -----------------------------
(***************************************************************************)
(* What a consumer group promises about the messages published to it, with  *)
(* no stream, cursor or pending list: a message is owed to the handlers     *)
(* from its publication until a handler settles it, and it leaves that set  *)
(* in no other way than by being given up on purpose.                       *)
(***************************************************************************)
CONSTANT Msgs

VARIABLES
    sent,    \* published
    owed,    \* the group still has it for a handler
    held,    \* a handler has it in its hands
    done,    \* a handler settled it for good
    waived   \* given up: passed over by a cursor, or lost with the server

vars == <<sent, owed, held, done, waived>>

Init == sent = {} /\ owed = {} /\ held = {} /\ done = {} /\ waived = {}

Send(m) ==
    /\ m \notin sent
    /\ sent' = sent \cup {m}
    /\ owed' = owed \cup {m}
    /\ UNCHANGED <<held, done, waived>>

\* Deliveries reach handlers; a message may be delivered again, even settled.
Hand(S) ==
    /\ S \subseteq sent
    /\ held' = held \cup S
    /\ UNCHANGED <<sent, owed, done, waived>>

\* Handlers go away without a verdict.
LetGo(S) ==
    /\ S \subseteq held
    /\ held' = held \ S
    /\ UNCHANGED <<sent, owed, done, waived>>

\* A verdict needs a handler; another copy may keep the message owed, and
\* another handler may still hold it.
Settle(m) ==
    /\ m \in held
    /\ done' = done \cup {m}
    /\ owed' \in {owed, owed \ {m}}
    /\ held' \in {held, held \ {m}}
    /\ UNCHANGED <<sent, waived>>

\* The group moves: some messages are given up, some are owed again.
Move(given, again) ==
    /\ given \subseteq sent /\ again \subseteq sent
    /\ waived' = waived \cup given
    /\ owed' = (owed \cup again) \ (given \ again)
    /\ UNCHANGED <<sent, held, done>>

\* A leftover copy of a settled or waived message goes away.
Clear(m) ==
    /\ m \in done \cup waived
    /\ owed' = owed \ {m}
    /\ held' \in {held, held \ {m}}
    /\ UNCHANGED <<sent, done, waived>>

Next ==
    \/ \E m \in Msgs : Send(m) \/ Settle(m) \/ Clear(m)
    \/ \E S \in SUBSET Msgs : Hand(S) \/ LetGo(S)
    \/ \E given, again \in SUBSET Msgs : Move(given, again)

Spec == Init /\ [][Next]_vars

-----------------------------------------------------------------------------
(* The promise: nothing published is forgotten.                            *)
Kept == sent \subseteq owed \cup done \cup waived
=============================================================================
