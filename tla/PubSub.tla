-------------------------------- MODULE PubSub --------------------------------
(***************************************************************************)
(* One Pub/Sub subscription with a window (open_pubsub in broker.rs,         *)
(* pubsub.rs, PubSubForm): its dedicated connection, which it subscribes     *)
(* when it opens and again after every reconnect; the bounded buffer its     *)
(* messages arrive in, which loses the oldest when it is full; the batches   *)
(* it yields; and the window those deliveries settle into, which carries     *)
(* what their handlers queued.  With batches of one it is the stream.        *)
(*                                                                           *)
(* The server sends a message to whoever is subscribed when it is published  *)
(* and keeps none.  A message is its number in the order of publishing.  The *)
(* commands a round queued are named by the round, its first message.  The   *)
(* window is the one of Window, which has the steps of a settle one by one   *)
(* and the pipelines that handlers keep: here a settle is one step.          *)
(***************************************************************************)
EXTENDS Naturals, Sequences, FiniteSets

CONSTANTS
    Modes,        \* SUBSCRIBE or SSUBSCRIBE
    Sizes,        \* how many messages a batch holds; 1 is a stream
    Prefetch,     \* deliveries that fill the window of a stream
    Capacities,   \* of the buffer
    Workers,      \* deliveries or batches handled at once
    Atomic,       \* rounds leave as MULTI / EXEC blocks
    Stops,        \* the subscription may be dropped
    MaxMessages,  \* bound on the messages published
    MaxBreaks,    \* bound on the times the connection breaks
    MaxRefusals   \* bound on the requests the server refuses

ASSUME PubSubAssumption ==
    /\ Modes \subseteq {"classic", "sharded"}
    /\ Sizes \subseteq Nat \ {0}
    /\ Capacities \subseteq Nat \ {0}
    /\ Prefetch \in Nat \ {0} /\ Workers \in Nat \ {0}
    /\ Atomic \in BOOLEAN /\ Stops \in BOOLEAN
    /\ MaxMessages \in Nat /\ MaxBreaks \in Nat /\ MaxRefusals \in Nat

VARIABLES
    mode, size, capacity,   \* of this subscription
    \* the connection
    link,         \* it is up
    subscribed,   \* the server sends it the channel's messages
    asking,       \* a subscribe on its way to the server
    wire,         \* messages on their way
    breaks, refusals,
    \* the subscription
    stage,        \* of its opening and its end
    notices,      \* reconnects its task was not told of yet
    refused,      \* the last subscribe of its task was refused
    \* the messages
    sent,         \* published so far; they are 1..sent
    arrived,      \* how many reached the client
    buffer,       \* those of them the receiver may still take
    lag,          \* how many it lost since it last took one
    reported,     \* how many losses were reported
    hand,         \* the batch being taken
    got,          \* the messages yielded, in order
    \* the window
    round,        \* the round of each message yielded
    verdict,      \* what its handler decided
    outstanding, settled, waiting,
    committed,    \* rounds to send
    flushed,      \* rounds sent
    lost          \* rounds whose block could not be closed

connection   == <<link, subscribed, asking, wire, breaks, refusals>>
settings     == <<mode, size, capacity>>
subscription == <<settings, stage, notices, refused>>
received     == <<arrived, buffer, lag, reported, hand, got>>
window       == <<round, verdict, outstanding, settled, waiting, committed,
                  flushed, lost>>
vars == <<connection, subscription, sent, received, window>>

Messages == 1..MaxMessages
Stages   == {"new", "listening", "asked", "open", "failed", "dropped", "gone"}
Elems(seq) == {seq[k] : k \in DOMAIN seq}

Held     == {m \in Messages : round[m] # 0 /\ verdict[m] = "none"}
Handled  == {round[m] : m \in Held}
Fill     == IF size = 1 THEN Prefetch ELSE size   \* settles in a full window
Members(r) == {m \in Messages : round[m] = r}

-----------------------------------------------------------------------------
(* Faulty variants, each a bug this code could have.                       *)

\* Receivers made once the subscription is confirmed.
LateListens == stage = "open"
\* A reader that takes the newest message.
Newest == buffer[Len(buffer)]
\* A lag that is skipped without a word.
Unsaid(n) == reported
\* A window that counts what waits and never looks again.
NeverDue(n, left) == settled + 1 >= Fill + Fill

-----------------------------------------------------------------------------
Init ==
    /\ mode \in Modes /\ size \in Sizes /\ capacity \in Capacities
    /\ link = TRUE /\ subscribed = FALSE /\ asking = FALSE /\ wire = <<>>
    /\ breaks = 0 /\ refusals = 0
    /\ stage = "new" /\ notices = 0 /\ refused = FALSE
    /\ sent = 0 /\ arrived = 0
    /\ buffer = <<>> /\ lag = 0 /\ reported = 0 /\ hand = <<>> /\ got = <<>>
    /\ round = [m \in Messages |-> 0]
    /\ verdict = [m \in Messages |-> "none"]
    /\ outstanding = 0 /\ settled = 0 /\ waiting = 0
    /\ committed = {} /\ flushed = {} /\ lost = {}

-----------------------------------------------------------------------------
(* The connection and the server.                                          *)

Publish ==
    /\ sent < MaxMessages
    /\ sent' = sent + 1
    /\ wire' = IF link /\ subscribed THEN Append(wire, sent + 1) ELSE wire
    /\ UNCHANGED <<link, subscribed, asking, breaks, refusals, subscription,
                   received, window>>

\* The receivers of messages and of reconnects exist.
Listens == stage \in {"listening", "asked", "open"}

Pushed(m) ==
    Append(IF Len(buffer) = capacity THEN Tail(buffer) ELSE buffer, m)

\* A message reaches the client, which pushes out the oldest of a full buffer.
Arrive ==
    /\ wire # <<>>
    /\ wire' = Tail(wire)
    /\ IF Listens
       THEN /\ arrived' = arrived + 1
            /\ buffer' = Pushed(Head(wire))
            /\ lag' = IF Len(buffer) = capacity THEN lag + 1 ELSE lag
       ELSE UNCHANGED <<arrived, buffer, lag>>
    /\ UNCHANGED <<link, subscribed, asking, breaks, refusals, subscription,
                   sent, reported, hand, got, window>>

\* A subscribe that was written may be lost with the connection; one that was
\* not, or that is awaited, is sent again.
Break ==
    /\ link /\ breaks < MaxBreaks /\ stage # "gone"
    /\ link' = FALSE /\ subscribed' = FALSE /\ wire' = <<>>
    /\ breaks' = breaks + 1
    /\ asking' \in (IF mode = "sharded" /\ stage = "asked" THEN {asking}
                    ELSE {asking, FALSE})
    /\ UNCHANGED <<refusals, subscription, sent, received, window>>

\* The client reconnects, and says so to whoever listens.
Reconnect ==
    /\ ~link /\ stage # "gone"
    /\ link' = TRUE
    /\ notices' = IF Listens THEN notices + 1 ELSE notices
    /\ UNCHANGED <<subscribed, asking, wire, breaks, refusals, settings,
                   stage, refused, sent, received, window>>

Serve ==
    /\ asking /\ link
    /\ asking' = FALSE /\ subscribed' = TRUE
    /\ UNCHANGED <<link, wire, breaks, refusals, subscription, sent, received,
                   window>>

-----------------------------------------------------------------------------
(* Opening: the receivers first, then the subscribe, then what confirms it. *)

Listen ==
    /\ stage = "new"
    /\ stage' = "listening"
    /\ UNCHANGED <<connection, settings, notices, refused, sent, received,
                   window>>

Ask ==
    /\ stage = "listening"
    /\ stage' = "asked" /\ asking' = TRUE
    /\ UNCHANGED <<link, subscribed, wire, breaks, refusals, settings,
                   notices, refused, sent, received, window>>

\* The answer of a PING that follows the SUBSCRIBE, or of the SSUBSCRIBE.
Confirmed == link /\ ~asking
Open ==
    /\ stage = "asked" /\ Confirmed
    /\ stage' = "open"
    /\ UNCHANGED <<connection, settings, notices, refused, sent, received,
                   window>>

OpenFails ==
    /\ stage \in {"listening", "asked"} /\ refusals < MaxRefusals
    /\ stage' = "failed" /\ refusals' = refusals + 1
    /\ asking' = FALSE /\ subscribed' = FALSE
    /\ UNCHANGED <<link, wire, breaks, settings, notices, refused, sent,
                   received, window>>

\* The task of Resubscribing: told of a reconnect, it subscribes again; a
\* refusal is logged and waits for the next reconnect.
Resubscribe ==
    /\ stage = "open" /\ notices > 0
    /\ notices' = notices - 1
    /\ \/ asking' = TRUE /\ refused' = FALSE /\ UNCHANGED refusals
       \/ /\ refusals < MaxRefusals
          /\ refusals' = refusals + 1 /\ refused' = TRUE /\ UNCHANGED asking
    /\ UNCHANGED <<link, subscribed, wire, breaks, settings, stage, sent,
                   received, window>>

-----------------------------------------------------------------------------
(* Reading: round_stream and round_batches.                                *)

Said(n) == reported + n

\* The receiver fell behind: the gap is reported and skipped.
SkipLag ==
    /\ stage = "open" /\ lag > 0
    /\ Cardinality(Handled) < Workers
    /\ reported' = Said(lag) /\ lag' = 0
    /\ UNCHANGED <<connection, subscription, sent, arrived, buffer, hand, got,
                   window>>

\* The first message of a batch is waited for, the others are those there.
Oldest == Head(buffer)
Receive ==
    /\ stage = "open" /\ lag = 0 /\ buffer # <<>>
    /\ Cardinality(Handled) < Workers /\ Len(hand) < size
    /\ hand' = Append(hand, Oldest)
    /\ buffer' = Tail(buffer)
    /\ UNCHANGED <<connection, subscription, sent, arrived, lag, reported,
                   got, window>>

\* The batch is one round, every member counted, with what waits behind it;
\* more may have arrived since it found nothing to take.
Yield ==
    /\ hand # <<>>
    /\ got' = got \o hand
    /\ hand' = <<>>
    /\ round' = [m \in Messages |-> IF m \in Elems(hand) THEN Head(hand)
                                    ELSE round[m]]
    /\ outstanding' = outstanding + Len(hand)
    /\ waiting' = Len(buffer) + lag
    /\ UNCHANGED <<connection, subscription, sent, arrived, buffer, lag,
                   reported, verdict, settled, committed, flushed, lost>>

-----------------------------------------------------------------------------
(* Settling.                                                               *)

\* A settle flushes when nothing is outstanding and nothing waits to be
\* yielded, or when the window is full.
Due(n, left) == (left = 0 /\ waiting = 0) \/ n >= Fill

\* A round's commands are kept when its last member settles and all were acked.
Clean(r) == \A m \in Members(r) : verdict'[m] = "ack"

\* Member m decides v; a drop settles nothing and flushes only what others left.
\* A round whose block cannot be closed is not kept: the last ack reports that.
Settle(m, v, kept) ==
    LET r      == round[m]
        closes == Members(r) \cap Held = {m} /\ Clean(r)
        left   == outstanding - 1
        owed   == IF closes /\ kept THEN committed \cup {r} ELSE committed
        count  == IF v = "leave" THEN settled ELSE settled + 1
        due    == IF v = "leave" THEN owed # {} /\ left = 0 /\ waiting = 0
                  ELSE Due(count, left)
    IN /\ m \in Held
       /\ verdict' = [verdict EXCEPT ![m] = v]
       /\ kept \/ (Atomic /\ closes)
       /\ outstanding' = left
       /\ settled' = IF due THEN 0 ELSE count
       /\ committed' = IF due THEN {} ELSE owed
       /\ flushed' = IF due THEN flushed \cup owed ELSE flushed
       /\ lost' = IF kept THEN lost ELSE lost \cup {r}
       /\ UNCHANGED <<connection, subscription, sent, received, round,
                      waiting>>
Settles(m, v) == \E kept \in BOOLEAN : Settle(m, v, kept)

\* The subscription is dropped: its task is aborted, what it did not read goes
\* with it, and the window is drained.
Drop ==
    /\ Stops /\ stage = "open"
    /\ stage' = "dropped"
    /\ buffer' = <<>> /\ lag' = 0 /\ hand' = <<>>
    /\ flushed' = flushed \cup committed /\ committed' = {} /\ settled' = 0
    /\ UNCHANGED <<connection, settings, notices, refused, sent, arrived,
                   reported, got, round, verdict, outstanding, waiting,
                   lost>>

Quit ==
    /\ stage = "dropped"
    /\ stage' = "gone"
    /\ link' = FALSE /\ subscribed' = FALSE /\ asking' = FALSE /\ wire' = <<>>
    /\ UNCHANGED <<breaks, refusals, settings, notices, refused, sent,
                   received, window>>

Next ==
    \/ Publish \/ Arrive \/ Break \/ Reconnect \/ Serve
    \/ Listen \/ Ask \/ Open \/ OpenFails \/ Resubscribe
    \/ SkipLag \/ Receive \/ Yield
    \/ \E m \in Messages, v \in {"ack", "nack", "leave"} : Settles(m, v)
    \/ Drop \/ Quit

Spec == Init /\ [][Next]_vars

\* The client reconnects and carries what it has, the task runs, the runtime
\* polls the subscription whenever it has a worker, and handlers return.
FairSpec ==
    /\ Spec
    /\ WF_vars(Arrive) /\ WF_vars(Reconnect) /\ WF_vars(Serve)
    /\ WF_vars(Resubscribe)
    /\ WF_vars(SkipLag) /\ WF_vars(Receive) /\ WF_vars(Yield)
    /\ \A m \in Messages :
          WF_vars(\E v \in {"ack", "nack", "leave"} : Settles(m, v))

-----------------------------------------------------------------------------
(* Types.                                                                  *)

TypeOK ==
    /\ mode \in Modes /\ size \in Sizes /\ capacity \in Capacities
    /\ {link, subscribed, asking, refused} \subseteq BOOLEAN
    /\ wire \in Seq(Messages) /\ buffer \in Seq(Messages)
    /\ hand \in Seq(Messages) /\ got \in Seq(Messages)
    /\ Len(buffer) <= capacity /\ Len(hand) <= size
    /\ breaks \in 0..MaxBreaks /\ refusals \in 0..MaxRefusals
    /\ notices \in 0..breaks
    /\ stage \in Stages
    /\ {sent, arrived, lag, reported} \subseteq 0..MaxMessages
    /\ round \in [Messages -> 0..MaxMessages]
    /\ verdict \in [Messages -> {"none", "ack", "nack", "leave"}]
    /\ outstanding = Cardinality(Held)
    /\ settled \in 0..Fill /\ waiting \in 0..MaxMessages
    /\ {committed, flushed, lost} \subseteq SUBSET Messages

-----------------------------------------------------------------------------
(* Properties.                                                             *)

\* What the subscription yields is in the order it was published, each message
\* at most once, across lags, batches and reconnects.
YieldedInOrder ==
    LET all == got \o hand \o buffer
    IN \A j, k \in DOMAIN all : j < k => all[j] < all[k]

\* A message that reached the subscription is yielded, or waits to be, or its
\* loss is reported or will be with the next read: a buffer that overflows
\* between two messages of a batch hides none.
LossIsReported ==
    stage = "open" =>
        Len(got) + Len(hand) + Len(buffer) + lag + reported = arrived

\* An open subscription with a connection is subscribed, or about to be, unless
\* the server refused it since it last reconnected.  A connection that breaks
\* while the subscription opens is no exception.
SubscribedOrTold ==
    stage = "open" /\ link =>
        subscribed \/ asking \/ notices > 0 \/ refused

\* What the handlers of a round queued is sent in the end when every delivery of
\* it was acknowledged, unless its ack reported that its block could not be
\* closed, and also when messages were lost or stop coming.  A subscription
\* dropped with unread messages behind a delivery in hand is the exception,
\* without which this is EveryRoundIsSent.
Acked(r) == Members(r) # {} /\ \A m \in Members(r) : verdict[m] = "ack"
EveryRoundIsSent ==
    \A r \in Messages : Acked(r) ~> r \in flushed \cup lost
RoundsOfReadersAreSent ==
    \A r \in Messages :
        Acked(r) ~> \/ r \in flushed \cup lost
                    \/ stage \in {"dropped", "gone"} /\ waiting > 0

=============================================================================
