------------------------------ MODULE InProcess ------------------------------
(***************************************************************************)
(* The in-process server of the test harness (in_process/): one stream with *)
(* one group and its delay queue, and the subscriptions registered with it.  *)
(*                                                                           *)
(* A read cannot block there, so a subscription first waits until it is      *)
(* readable.  And the harness must know when a test may go on: the server    *)
(* and the deliveries count what is in flight, from the moment a handler is  *)
(* certain to get it until the delivery is dropped.  What is counted moves   *)
(* from the server (owed, held by a link, held for a sweep) to a read, a     *)
(* buffer and a delivery, and none of these knows of the others.             *)
(*                                                                           *)
(* A command is one step, run under the server's lock.  The clock is the     *)
(* test's; min_idle of every subscription and every delay are one tick.      *)
(* COUNT is larger than what the stream holds, and the ttl of the queue      *)
(* longer than the test.                                                     *)
(***************************************************************************)
EXTENDS Integers, Sequences, FiniteSets, Bags, SequencesExt

CONSTANTS
    Readers,     \* subscriptions of the stream, each a consumer of its own
    Loads,       \* how a behaviour is set up, and its bounds
    MaxEntries,  \* bound on the entries appended under any of them
    MaxTime      \* bound on the clock

\* The modes of the subscriptions there are; whether they have a delay queue;
\* entries appended; whether entries are deleted; the positions of a seek; and
\* when a subscription may be dropped.
Load == [mode: UNION {[R -> {"fresh", "claiming", "reclaim"}] :
                         R \in SUBSET Readers},
         delays: BOOLEAN, entries: 0..MaxEntries, deletes: BOOLEAN,
         positions: SUBSET {"beginning", "end"},
         drops: {"never", "idle", "any"}]

ASSUME InProcessAssumption ==
    /\ MaxEntries \in Nat /\ MaxTime \in Nat
    /\ Loads \subseteq Load

VARIABLES
    load,
    now,
    \* the stream and its group
    last,      \* entries appended so far; they are 1..last
    live,      \* those of them not deleted
    cursor,    \* the group's
    pending,   \* id -> when it was last delivered
    \* the delay queue
    score,     \* member (the entry it is a copy of) -> when it is due
    \* what the server tracks beside the keys
    attached,  \* registered subscriptions, the earliest first
    owed,      \* entries counted and not handed out
    claimDue,  \* pending entries a claiming reader may take
    linkDue,   \* members whose wait is over
    linkHeld,  \* those of them counted
    readds,    \* counted members a sweep took off and did not add back
    timers,    \* armed: [of, id, at]
    \* the subscriptions
    pc,        \* where in fetch each is
    todo,      \* members its sweep listed
    buffer,    \* entries it read and did not yield
    moved,     \* a seek came after its buffer was selected
    seek,      \* how far a seek through it is
    hands,     \* deliveries in handlers
    count      \* what the harness counts in flight

stream == <<last, live, cursor, pending>>
tracked == <<owed, claimDue, linkDue, linkHeld, readds, timers>>
reading == <<pc, todo, buffer, moved>>
vars == <<load, now, stream, score, attached, tracked, reading, seek, hands,
          count>>

Ids      == 1..MaxEntries
Times    == 0..(MaxTime + 1)
Timer    == [of: {"claim", "link"}, id: Ids, at: Times]
Delivery == [id: Ids, stage: {"held", "copied"}]
Stages   == {"out", "wait", "list", "sweep", "readd", "read", "answered",
             "gone"}

Mounted   == DOMAIN load.mode
Claims(r) == load.mode[r] # "fresh"
Fresh(r)  == load.mode[r] # "reclaim"
Elems(seq) == {seq[k] : k \in DOMAIN seq}
Only(f, S) == [x \in S |-> f[x]]
Lone(d)    == SetToBag({d})
One(test)  == IF test THEN 1 ELSE 0
InOrder(S) == CHOOSE seq \in [1..Cardinality(S) -> S] :
                  \A j, k \in DOMAIN seq : j < k => seq[j] < seq[k]

-----------------------------------------------------------------------------
(* What the registered subscriptions read (group_readers, leader, readable). *)

AnyFresh(rs)  == \E r \in Elems(rs) : Fresh(r)
AnyClaims(rs) == \E r \in Elems(rs) : Claims(r)
Leads(r) == \E k \in DOMAIN attached :
                /\ attached[k] = r /\ Fresh(r)
                /\ \A j \in 1..(k - 1) : ~Fresh(attached[j])

New  == {i \in live : i > cursor}
Idle == {i \in DOMAIN pending : now - pending[i] >= 1}

Readable(r) ==
    \/ load.delays /\ linkDue # {}
    \/ Claims(r) /\ claimDue # {}
    \/ Leads(r) /\ New # {}

\* What recount_group brings the owed entries to.
Wanted(entries, from, due, rs) ==
    (IF AnyFresh(rs) THEN {i \in entries : i > from} ELSE {})
        \cup (IF AnyClaims(rs) THEN due ELSE {})

Recounted(wanted) ==
    /\ owed' = wanted
    /\ count' = count + Cardinality(wanted \ owed) - Cardinality(owed \ wanted)
Recount == Recounted(Wanted(live', cursor', claimDue', attached'))

-----------------------------------------------------------------------------
(* Faulty variants, each a bug this code could have.                       *)

\* A settle that leaves the entry claimable.
AckedAlone(i) == claimDue
\* A settle that leaves the entry owed.
StillOwed(i) == owed
\* A count the sweep's ZREM releases at once, before the copy is back.
ReleasedAtOnce(m) == 0
\* A hand-out that passes on no count.
NeverOwed(ids) == {}

-----------------------------------------------------------------------------
Init ==
    /\ load \in Loads
    /\ now = 0
    /\ last = 0 /\ live = {} /\ cursor = 0
    /\ pending = [i \in {} |-> 0] /\ score = [i \in {} |-> 0]
    /\ attached = <<>>
    /\ owed = {} /\ claimDue = {} /\ linkDue = {} /\ linkHeld = {}
    /\ readds = 0 /\ timers = {}
    /\ pc = [r \in Readers |-> "out"]
    /\ todo = [r \in Readers |-> {}]
    /\ buffer = [r \in Readers |-> <<>>]
    /\ moved = [r \in Readers |-> FALSE]
    /\ seek = [r \in Readers |-> "no"]
    /\ hands = EmptyBag
    /\ count = 0

\* claim_came_due: the entries still pending from the delivery their timer was
\* armed at.  link_due: the members still there with the score of theirs.
Due(of, f, wait) ==
    {t.id : t \in {u \in timers : /\ u.of = of /\ now' >= u.at + wait
                                /\ u.id \in DOMAIN f /\ f[u.id] = u.at}}

\* The test moves the clock, and the timers due fire with it.
Tick ==
    /\ now < MaxTime
    /\ now' = now + 1
    /\ LET idle == Due("claim", pending, 1)
           ripe == Due("link", score, 0)
           more == IF AnyClaims(attached) THEN idle ELSE {}
           hold == IF AnyFresh(attached) THEN ripe ELSE {}
       IN /\ claimDue' = claimDue \cup idle
          /\ owed' = owed \cup more
          /\ linkDue' = linkDue \cup ripe
          /\ linkHeld' = linkHeld \cup hold
          /\ count' = count + Cardinality(more \ owed)
                           + Cardinality(hold \ linkHeld)
    /\ timers' = {t \in timers : t.of = "claim" /\ t.at = now'}
                  \cup {t \in timers : t.of = "link" /\ t.at > now'}
    /\ UNCHANGED <<load, stream, score, attached, readds, reading, seek, hands>>

\* XADD: a reader of new entries is owed this one, and the entry may be the
\* one a sweep adds back.
Xadd ==
    /\ last' = last + 1
    /\ live' = live \cup {last + 1}
    /\ owed' = IF AnyFresh(attached) THEN owed \cup {last + 1} ELSE owed
    /\ readds' = readds - One(readds > 0)
    /\ count' = count + One(AnyFresh(attached)) - One(readds > 0)
    /\ UNCHANGED <<cursor, pending>>

\* Copies on their way have their place among the entries.
Room == last + Cardinality(DOMAIN score)
             + Cardinality({r \in Readers : pc[r] = "readd"}) < load.entries

\* The test publishes.
Publish ==
    /\ Room
    /\ Xadd
    /\ UNCHANGED <<load, now, score, attached, claimDue, linkDue, linkHeld,
                   timers, reading, seek, hands>>

\* XDEL, or a trim, by a handler's own command.
Delete(i) ==
    /\ load.deletes /\ i \in live
    /\ live' = live \ {i}
    /\ UNCHANGED <<load, now, last, cursor, pending, score, attached,
                   claimDue, linkDue, linkHeld, readds, timers, reading, seek,
                   hands>>
    /\ Recount

-----------------------------------------------------------------------------
(* Subscriptions come and go.                                              *)

\* Pending entries are timed for a subscription that claims: one that is idle
\* is due now.
Attach(r) ==
    /\ r \in Mounted /\ pc[r] = "out"
    /\ attached' = Append(attached, r)
    /\ pc' = [pc EXCEPT ![r] = "wait"]
    /\ claimDue' = IF Claims(r) THEN claimDue \cup Idle ELSE claimDue
    /\ timers' = timers \cup
          {[of |-> "claim", id |-> i, at |-> pending[i]] :
              i \in IF Claims(r) THEN DOMAIN pending \ Idle ELSE {}}
    /\ UNCHANGED <<load, now, stream, score, linkDue, linkHeld, readds, todo,
                   buffer, moved, seek, hands>>
    /\ Recount

Quiet(r) == /\ pc[r] = "wait" /\ buffer[r] = <<>>
            /\ \/ linkHeld = {}
               \/ \E q \in Elems(attached) \ {r} : Fresh(q)

\* Its tap is dropped with it; what it had read is not looked at.
Detach(r) ==
    /\ load.drops # "never"
    /\ load.drops = "idle" => Quiet(r)
    /\ \E k \in DOMAIN attached :
          attached[k] = r /\ attached' = RemoveAt(attached, k)
    /\ pc' = [pc EXCEPT ![r] = "gone"]
    /\ todo' = [todo EXCEPT ![r] = {}]
    /\ buffer' = [buffer EXCEPT ![r] = <<>>]
    /\ UNCHANGED <<load, now, stream, score, claimDue, linkDue, linkHeld,
                   readds, timers, moved, seek, hands>>
    /\ Recount

-----------------------------------------------------------------------------
(* A subscription's fetch.                                                 *)

\* The generation is loaded after the sweep, before the read.
To(r, stage) ==
    /\ pc' = [pc EXCEPT ![r] = stage]
    /\ moved' = IF stage = "read" THEN [moved EXCEPT ![r] = FALSE] ELSE moved

Wake(r) ==
    /\ pc[r] = "wait" /\ buffer[r] = <<>> /\ Readable(r)
    /\ To(r, IF load.delays THEN "list" ELSE "read")
    /\ UNCHANGED <<load, now, stream, score, attached, tracked, todo, buffer,
                   seek, hands, count>>

Swept(rest) == IF rest = {} THEN "read" ELSE "sweep"

\* sweep_due: ZRANGEBYSCORE ...
List(r) ==
    /\ pc[r] = "list"
    /\ todo' = [todo EXCEPT ![r] = {m \in DOMAIN score : score[m] <= now}]
    /\ To(r, Swept(todo'[r]))
    /\ UNCHANGED <<load, now, stream, score, attached, tracked, buffer, seek,
                   hands, count>>

\* ... ZREM of each: the count of a member waits for the XADD ...
PassedOn(m) == One(m \in linkHeld)
Claim(r, m) ==
    /\ pc[r] = "sweep" /\ m \in todo[r]
    /\ todo' = [todo EXCEPT ![r] = @ \ {m}]
    /\ IF m \in DOMAIN score
       THEN /\ score' = Only(score, DOMAIN score \ {m})
            /\ linkDue' = linkDue \ {m} /\ linkHeld' = linkHeld \ {m}
            /\ readds' = readds + PassedOn(m)
            /\ count' = count - One(m \in linkHeld) + PassedOn(m)
            /\ To(r, "readd")
       ELSE /\ To(r, Swept(todo'[r]))
            /\ UNCHANGED <<score, linkDue, linkHeld, readds, count>>
    /\ UNCHANGED <<load, now, stream, attached, owed, claimDue, timers,
                   buffer, seek, hands>>

\* ... and XADD of the copy.
Readd(r) ==
    /\ pc[r] = "readd"
    /\ Xadd
    /\ To(r, Swept(todo[r]))
    /\ UNCHANGED <<load, now, score, attached, claimDue, linkDue, linkHeld,
                   timers, todo, buffer, seek, hands>>

\* The entries handed out that were counted as owed.
WasOwed(ids) == ids \cap owed

\* XREADGROUP of a subscription, with CLAIM or without, or XAUTOCLAIM: pending
\* entries that are idle first, those deleted since dropped from the list, then
\* the new ones if it leads.  Each is timed when some subscription claims.
Read(r) ==
    LET stale   == IF Claims(r) THEN Idle ELSE {}
        claimed == stale \cap live
        new     == IF Leads(r) THEN New ELSE {}
        out     == claimed \cup new
    IN /\ pc[r] = "read"
       /\ pending' = [i \in (DOMAIN pending \ stale) \cup out |->
                         IF i \in out THEN now ELSE pending[i]]
       /\ cursor' = IF new = {} THEN cursor ELSE Max(new)
       /\ buffer' = [buffer EXCEPT ![r] = InOrder(claimed) \o InOrder(new)]
       /\ claimDue' = claimDue \ out
       /\ owed' = owed \ out
       /\ count' = count + Len(buffer'[r]) - Cardinality(WasOwed(out))
       /\ timers' = timers \cup
             {[of |-> "claim", id |-> i, at |-> now] :
                 i \in IF AnyClaims(attached) THEN out ELSE {}}
       /\ To(r, "answered")
       /\ UNCHANGED <<load, now, last, live, score, attached, linkDue,
                      linkHeld, readds, todo, seek, hands>>

\* What was selected before a seek is discarded, with its counts.
Discard(r) ==
    /\ buffer' = [buffer EXCEPT ![r] = <<>>]
    /\ count' = count - Len(buffer[r])

Accept(r) ==
    /\ pc[r] = "answered"
    /\ pc' = [pc EXCEPT ![r] = "wait"]
    /\ IF moved[r] THEN Discard(r) ELSE UNCHANGED <<buffer, count>>
    /\ UNCHANGED <<load, now, stream, score, attached, tracked, todo, moved,
                   seek, hands>>

Yield(r) ==
    /\ pc[r] = "wait" /\ buffer[r] # <<>>
    /\ IF moved[r]
       THEN Discard(r) /\ UNCHANGED hands
       ELSE /\ hands' = hands
                         (+) Lone([id |-> Head(buffer[r]), stage |-> "held"])
            /\ buffer' = [buffer EXCEPT ![r] = Tail(@)]
            /\ UNCHANGED count
    /\ UNCHANGED <<load, now, stream, score, attached, tracked, pc, todo,
                   moved, seek>>

-----------------------------------------------------------------------------
(* A seek: SETID, then the generation.                                     *)

SetId(r, position) ==
    /\ r \in Elems(attached) /\ \A q \in Readers : seek[q] = "no"
    /\ seek' = [seek EXCEPT ![r] = "set"]
    /\ cursor' = IF position = "beginning" THEN 0 ELSE last
    /\ UNCHANGED <<load, now, last, live, pending, score, attached, claimDue,
                   linkDue, linkHeld, readds, timers, reading, hands>>
    /\ Recount

Bump(r) ==
    /\ seek[r] = "set"
    /\ seek' = [seek EXCEPT ![r] = "done"]
    /\ moved' = [moved EXCEPT ![r] = TRUE]
    /\ UNCHANGED <<load, now, stream, score, attached, tracked, pc, todo,
                   buffer, hands, count>>

-----------------------------------------------------------------------------
(* Settles.  The delivery is dropped, and its count with it, when its        *)
(* commands have run.                                                        *)

Copied(d) == hands (-) Lone(d) (+) Lone([d EXCEPT !.stage = "copied"])

Unclaimable(i) == claimDue \ {i}
NotOwed(i)     == owed \ {i}

\* XACK, of the entry or of the original of a retry.
Ack(d) ==
    LET i == d.id IN
    /\ hands' = hands (-) Lone(d)
    /\ IF i \in DOMAIN pending
       THEN /\ pending' = Only(pending, DOMAIN pending \ {i})
            /\ claimDue' = Unclaimable(i)
            /\ owed' = NotOwed(i)
            /\ count' = count - 1 - One(i \in owed)
       ELSE /\ count' = count - 1
            /\ UNCHANGED <<pending, claimDue, owed>>
    /\ UNCHANGED <<load, now, last, live, cursor, score, attached, linkDue,
                   linkHeld, readds, timers, reading, seek>>

\* A retry's copy, by XADD ...
Requeue(d) ==
    /\ d.stage = "held" /\ Room
    /\ Xadd
    /\ hands' = Copied(d)
    /\ UNCHANGED <<load, now, score, attached, claimDue, linkDue, linkHeld,
                   timers, reading, seek>>

\* ... or by ZADD, which arms the wait of the member it writes.
Schedule(d) ==
    LET i == d.id  due == now + 1 IN
    /\ d.stage = "held" /\ load.delays /\ Room
    /\ score' = [m \in DOMAIN score \cup {i} |-> IF m = i THEN due ELSE score[m]]
    /\ timers' = IF i \in DOMAIN score /\ score[i] = due THEN timers
                 ELSE timers \cup {[of |-> "link", id |-> i, at |-> due]}
    /\ hands' = Copied(d)
    /\ UNCHANGED <<load, now, stream, attached, owed, claimDue, linkDue,
                   linkHeld, readds, reading, seek, count>>

\* Left pending, or dropped without a settle.
Leave(d) ==
    /\ d.stage = "held"
    /\ hands' = hands (-) Lone(d)
    /\ count' = count - 1
    /\ UNCHANGED <<load, now, stream, score, attached, tracked, reading, seek>>

Settle(d) == Ack(d) \/ Requeue(d) \/ Schedule(d) \/ Leave(d)

-----------------------------------------------------------------------------
Fetch(r) ==
    \/ Wake(r) \/ List(r) \/ Readd(r) \/ Read(r) \/ Accept(r) \/ Yield(r)
    \/ \E m \in todo[r] : Claim(r, m)

Next ==
    \/ Tick \/ Publish
    \/ \E i \in live : Delete(i)
    \/ \E r \in Readers : Attach(r) \/ Detach(r) \/ Fetch(r) \/ Bump(r)
    \/ \E r \in Readers, position \in load.positions : SetId(r, position)
    \/ \E d \in BagToSet(hands) : Settle(d)

Spec == Init /\ [][Next]_vars

\* Subscriptions are polled, handlers return and a seek ends.
\* Nothing is fair about the clock, the test, or who subscribes.
FairSpec ==
    /\ Spec
    /\ \A r \in Readers : WF_vars(Fetch(r)) /\ WF_vars(Bump(r))
    /\ WF_vars(\E d \in BagToSet(hands) : Settle(d))

-----------------------------------------------------------------------------
(* Types.                                                                  *)

TypeOK ==
    /\ load \in Loads
    /\ now \in 0..MaxTime
    /\ last \in 0..MaxEntries /\ cursor \in 0..last
    /\ live \subseteq 1..last
    /\ DOMAIN pending \subseteq 1..last /\ Elems(pending) \subseteq 0..now
    /\ DOMAIN score \subseteq 1..last /\ Elems(score) \subseteq Times
    /\ attached \in Seq(Mounted) /\ IsInjective(attached)
    /\ {owed, claimDue, linkDue, linkHeld} \subseteq SUBSET (1..last)
    /\ linkHeld \subseteq linkDue
    /\ readds \in Nat /\ timers \subseteq Timer
    /\ pc \in [Readers -> Stages]
    /\ todo \in [Readers -> SUBSET Ids]
    /\ buffer \in [Readers -> Seq(Ids)]
    /\ moved \in [Readers -> BOOLEAN]
    /\ seek \in [Readers -> {"no", "set", "done"}]
    /\ IsABag(hands) /\ BagToSet(hands) \subseteq Delivery
    /\ count \in Nat

-----------------------------------------------------------------------------
(* Properties.                                                             *)

\* The count of owed entries is kept by each command that adds, removes, hands
\* out or settles one, and they agree with counting afresh.
OwedIsWhatIsThere ==
    owed = Wanted(live, cursor, claimDue, attached)

\* "A publish through the harness returns once every handler it woke has
\* settled" (docs/components/testing/index.md:30): while nothing is counted
\* no delivery is in a handler or on its way to one, and no subscription would
\* find anything to read.
QuietIsFinished ==
    count = 0 =>
        /\ hands = EmptyBag
        /\ \A r \in Readers :
              /\ buffer[r] = <<>> /\ pc[r] # "readd"
              /\ pc[r] = "wait" => ~Readable(r)

\* It returns: what is counted is handed out, settled or released in the end.
BecomesQuiet == []<>(count = 0)

\* "Whether a read of `reader` finds something now" (mod.rs:481): one that is
\* told so is not told in vain, or it would ask again at once, for ever.
ReadsFindSomething ==
    \A r \in Readers : pc[r] = "wait" /\ Readable(r) =>
        \/ load.delays /\ \E m \in DOMAIN score : score[m] <= now
        \/ Claims(r) /\ Idle \cap live # {}
        \/ Leads(r) /\ New # {}
=============================================================================
