-------------------------------- MODULE Broker --------------------------------
(***************************************************************************)
(* A connected broker and what its subscriptions share: the routes their     *)
(* openings record (route.rs), which say how the default publisher writes a  *)
(* name; the connections streams and lists read on, which a drop closes      *)
(* (connection.rs); and the shutdown, which waits for those closes           *)
(* (broker.rs).                                                              *)
(*                                                                           *)
(* Openings of several subscriptions run at once.  Each records its routes,  *)
(* connects, and keeps them, or fails and forgets them.  The shutdown        *)
(* consumes the broker, so no opening runs beside it; subscriptions outlive  *)
(* it.  A read is sent, blocks at the server, and is answered: with a        *)
(* message, at its timeout, or by CLIENT UNBLOCK, which a side connection    *)
(* carries past the read that QUIT queues behind.                            *)
(***************************************************************************)
EXTENDS Naturals, FiniteSets

CONSTANTS
    Subscriptions,
    Names,        \* keys and channels
    NoName,       \* in place of a dead letter there is not
    Mounts,       \* the definitions the subscriptions may have
    ListsFail,    \* the read connection of a list may fail to open
    Forever,      \* reads block without a timeout: block(0)
    MaxMessages   \* bound on the messages readers find

\* How a name is written: its family, and the framing (and mode) within it.
Route == [family: {"stream", "list", "channel"}, as: {"own", "other"}]
STREAM == [family |-> "stream", as |-> "own"]

\* A pattern records no route and reads as a channel.
Definition == [form: {"stream", "list", "channel", "pattern"},
               as: {"own", "other"}, name: Names, dead: Names \cup {NoName}]

ASSUME BrokerAssumption ==
    /\ NoName \notin Names
    /\ Mounts \subseteq [Subscriptions -> Definition]
    /\ {ListsFail, Forever} \subseteq BOOLEAN
    /\ MaxMessages \in Nat

VARIABLES
    def,        \* the definition of each subscription
    table,      \* the routes: name -> route and holders, for names recorded
    foreign,    \* some route recorded was not STREAM
    stage,      \* how far each subscription is
    read,       \* the read connection of each: what its server sees of it
    close,      \* the close its drop spawned
    closing,    \* closes the broker tracks
    broker,     \* the broker and its shutdown
    awaits,     \* closes the shutdown waits for
    early,      \* subscriptions dropped before the shutdown
    messages    \* messages waiting for a reader

routes == <<table, foreign>>
reads  == <<read, close, closing>>
ending == <<broker, awaits, early>>
vars   == <<def, routes, stage, reads, ending, messages>>

-----------------------------------------------------------------------------
Routes(s) == def[s].form # "pattern"
Writes(s) == [family |-> def[s].form, as |-> def[s].as]
Writing(s) == {def[s].name, def[s].dead} \ {NoName}
\* A name that is its own dead letter is held twice.
Times(s, n) == IF def[s].name = n /\ def[s].dead = n THEN 2 ELSE 1
Reads(s)  == def[s].form \in {"stream", "list"}

(* Faulty variants, each a bug this code could have.                       *)

\* An opening that checks its name and not its dead letter.
NameAgrees(s) ==
    LET n == def[s].name IN n \in DOMAIN table => table[n].route = Writes(s)
\* A failed opening that forgets nothing.
KeptAll(s) == table
\* A close tracked in place of the ones before it.
OnlyLast(s) == {s}
\* A shutdown that waits for the subscriptions that were not dropped too.
EveryReader == \A s \in Subscriptions : read[s] \in {"none", "over"}

-----------------------------------------------------------------------------
Init ==
    /\ def \in Mounts
    /\ table = [n \in {} |-> STREAM] /\ foreign = FALSE
    /\ stage = [s \in Subscriptions |-> "new"]
    /\ read = [s \in Subscriptions |-> "none"]
    /\ close = [s \in Subscriptions |-> "none"]
    /\ closing = {} /\ awaits = {} /\ early = {}
    /\ broker = "up"
    /\ messages = 0

-----------------------------------------------------------------------------
(* Routes.                                                                 *)

\* What is written to a name: Routes::route, which skips the table while no
\* route in it differs from the default.
RouteOf(n) ==
    IF foreign /\ n \in DOMAIN table THEN table[n].route ELSE STREAM

\* record_subscription: no name of it is recorded as something else.
Agrees(s) == \A n \in Writing(s) \cap DOMAIN table : table[n].route = Writes(s)

\* The first holder's route stays.
Recorded(s) ==
    [n \in DOMAIN table \cup Writing(s) |->
        CASE n \notin DOMAIN table ->
                 [route |-> Writes(s), holders |-> Times(s, n)]
          [] n \in DOMAIN table \cap Writing(s) ->
                 [table[n] EXCEPT !.holders = @ + Times(s, n)]
          [] OTHER -> table[n]]

\* A route other than the default enters the table.
Differs(s) == Writes(s) # STREAM /\ ~(Writing(s) \subseteq DOMAIN table)

\* forget: a name goes when the last of its holders does.
Forgotten(s) ==
    [n \in {m \in DOMAIN table :
                \/ m \notin Writing(s)
                \/ table[m].holders > Times(s, m)} |->
        IF n \in Writing(s)
        THEN [table[n] EXCEPT !.holders = @ - Times(s, n)]
        ELSE table[n]]

-----------------------------------------------------------------------------
(* Openings.  What is checked before the routes are recorded (options, the  *)
(* server's version, hash slots) fails without a trace and is no step.      *)

\* A conflicting opening is refused and records nothing.  A list keeps its
\* routes at once.
Record(s) ==
    /\ broker = "up" /\ stage[s] \in {"new", "failed"} /\ Routes(s)
    /\ IF Agrees(s)
       THEN /\ table' = Recorded(s)
            /\ foreign' = (foreign \/ Differs(s))
            /\ stage' = [stage EXCEPT ![s] = "recorded"]
       ELSE /\ stage' = [stage EXCEPT ![s] = "failed"]
            /\ UNCHANGED routes
    /\ UNCHANGED <<def, reads, ending, messages>>

\* The awaits that follow: the group, the connection, the subscribe.  Routes
\* are kept as soon as the last of them succeeds.
Connect(s) ==
    /\ broker = "up"
    /\ stage[s] = "recorded" \/ (stage[s] \in {"new", "failed"} /\ ~Routes(s))
    /\ stage' = [stage EXCEPT ![s] = "open"]
    /\ read' = [read EXCEPT ![s] = IF Reads(s) THEN "idle" ELSE "none"]
    /\ UNCHANGED <<def, routes, close, closing, ending, messages>>

\* One of them fails, or the opening is cancelled: the routes are forgotten,
\* unless they were kept.
Fail(s) ==
    /\ broker = "up" /\ stage[s] = "recorded"
    /\ def[s].form = "list" => ListsFail
    /\ stage' = [stage EXCEPT ![s] = "failed"]
    /\ table' = IF def[s].form = "list" THEN table ELSE Forgotten(s)
    /\ UNCHANGED <<def, foreign, reads, ending, messages>>

-----------------------------------------------------------------------------
(* Read connections.                                                       *)

\* A subscription asks whether the broker is open before it sends a read.
Read(s) ==
    /\ stage[s] = "open" /\ read[s] = "idle" /\ broker = "up"
    /\ read' = [read EXCEPT ![s] = "sent"]
    /\ UNCHANGED <<def, routes, stage, close, closing, ending, messages>>

Arrive(s) ==
    /\ read[s] = "sent"
    /\ read' = [read EXCEPT ![s] = "blocked"]
    /\ UNCHANGED <<def, routes, stage, close, closing, ending, messages>>

Produce ==
    /\ messages < MaxMessages
    /\ messages' = messages + 1
    /\ UNCHANGED <<def, routes, stage, reads, ending>>

TakeMessage(s) ==
    /\ read[s] = "blocked" /\ messages > 0
    /\ read' = [read EXCEPT ![s] = "idle"]
    /\ messages' = messages - 1
    /\ UNCHANGED <<def, routes, stage, close, closing, ending>>

TimeOut(s) ==
    /\ read[s] = "blocked" /\ ~Forever
    /\ read' = [read EXCEPT ![s] = "idle"]
    /\ UNCHANGED <<def, routes, stage, close, closing, ending, messages>>

\* Closing::track forgets the closes that are done.
Tracked(s) == {r \in closing : close[r] # "done"} \cup {s}

\* The subscription is dropped; its connection is closed on the broker's
\* runtime.
Drop(s) ==
    /\ stage[s] = "open"
    /\ stage' = [stage EXCEPT ![s] = "dropped"]
    /\ IF Reads(s)
       THEN /\ close' = [close EXCEPT ![s] = "unblock"]
            /\ closing' = Tracked(s)
       ELSE UNCHANGED <<close, closing>>
    /\ UNCHANGED <<def, routes, read, ending, messages>>

\* CLIENT UNBLOCK finds the read blocked, or finds nothing.
Unblocked(s) == IF read[s] = "blocked" THEN "idle" ELSE read[s]
Unblock(s) ==
    /\ close[s] = "unblock"
    /\ read' = [read EXCEPT ![s] = Unblocked(s)]
    /\ close' = [close EXCEPT ![s] = "quit"]
    /\ UNCHANGED <<def, routes, stage, closing, ending, messages>>

\* QUIT waits on the connection for the read before it.
Quit(s) ==
    /\ close[s] = "quit" /\ read[s] = "idle"
    /\ read' = [read EXCEPT ![s] = "over"]
    /\ close' = [close EXCEPT ![s] = "done"]
    /\ UNCHANGED <<def, routes, stage, closing, ending, messages>>

-----------------------------------------------------------------------------
(* The shutdown.                                                           *)

\* It marks the connection closed and takes the closes tracked so far.
Shutdown ==
    /\ broker = "up" /\ \A s \in Subscriptions : stage[s] # "recorded"
    /\ broker' = "finishing"
    /\ awaits' = closing /\ closing' = {}
    /\ early' = {s \in Subscriptions : stage[s] = "dropped"}
    /\ UNCHANGED <<def, routes, stage, read, close, messages>>

Finished == \A s \in awaits : close[s] = "done"

\* Then the pool quits.
Finish ==
    /\ broker = "finishing" /\ Finished
    /\ broker' = "down"
    /\ awaits' = {}
    /\ UNCHANGED <<def, routes, stage, reads, early, messages>>

Next ==
    \/ \E s \in Subscriptions :
          \/ Record(s) \/ Connect(s) \/ Fail(s)
          \/ Read(s) \/ Arrive(s) \/ TakeMessage(s) \/ TimeOut(s)
          \/ Drop(s) \/ Unblock(s) \/ Quit(s)
    \/ Produce
    \/ Shutdown \/ Finish

Spec == Init /\ [][Next]_vars

\* The server answers what it is sent and a read ends at its timeout, a close
\* runs on the broker's runtime, and the shutdown is polled.
FairSpec ==
    /\ Spec
    /\ \A s \in Subscriptions : /\ WF_vars(Arrive(s)) /\ WF_vars(TimeOut(s))
                                /\ WF_vars(Unblock(s)) /\ WF_vars(Quit(s))
    /\ WF_vars(Finish)

-----------------------------------------------------------------------------
(* Types.                                                                  *)

TypeOK ==
    /\ def \in Mounts
    /\ DOMAIN table \subseteq Names
    /\ \A n \in DOMAIN table : table[n] \in [route: Route, holders: Nat \ {0}]
    /\ foreign \in BOOLEAN
    /\ stage \in [Subscriptions -> {"new", "recorded", "failed", "open",
                                    "dropped"}]
    /\ read \in [Subscriptions -> {"none", "idle", "sent", "blocked", "over"}]
    /\ close \in [Subscriptions -> {"none", "unblock", "quit", "done"}]
    /\ closing \in SUBSET Subscriptions /\ awaits \in SUBSET Subscriptions
    /\ broker \in {"up", "finishing", "down"}
    /\ early \in SUBSET Subscriptions
    /\ messages \in 0..MaxMessages

-----------------------------------------------------------------------------
(* Properties.                                                             *)

\* What is written to the name of an open subscription, or to its dead letter,
\* is written the way the subscription reads it, whatever other openings did
\* beside it or after it, and for as long as the broker is up.
WrittenAsRead ==
    \A s \in Subscriptions : stage[s] \in {"open", "dropped"} /\ Routes(s) =>
        \A n \in Writing(s) : RouteOf(n) = Writes(s)

\* A subscription that fails to open leaves nothing behind: a name is recorded
\* while a subscription that names it is opening or has opened.
OnlyOpenedHold ==
    \A n \in DOMAIN table : \E s \in Subscriptions :
        stage[s] \in {"recorded", "open", "dropped"} /\ Routes(s)
        /\ n \in Writing(s)

\* Once the shutdown returned, no read of a subscription dropped before it is
\* left to take a message, and its connection is closed.
ShutdownEndsReads ==
    broker = "down" => \A s \in early : Reads(s) => read[s] = "over"

\* Once the server was told to unblock it, no read of a dropped subscription
\* waits there: connection.rs drops a read it "would take the next message for
\* a subscription nobody reads any more".
NoReadIsLeft ==
    \A s \in Subscriptions : close[s] = "quit" => read[s] # "blocked"

\* The shutdown returns: no close waits for a read that nothing ends.
ShutdownReturns == broker = "finishing" ~> broker = "down"
=============================================================================
