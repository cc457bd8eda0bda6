----------------------------- MODULE DelayQueue -----------------------------
(***************************************************************************)
(* The sorted set a delayed retry waits in (DelayConfig), and the stream it *)
(* goes back to.                                                            *)
(*                                                                          *)
(* A handler that retries with a delay adds a copy of its entry to the set, *)
(* scored by the time it is due, and then acks the entry.  Every reader of  *)
(* the stream sweeps the set before it reads: it lists what is due, claims  *)
(* each member with ZREM and appends what it claimed back onto the stream.  *)
(* A command is one step; the readers and the handlers interleave.          *)
(*                                                                          *)
(* The group that hands the entries out is StreamGroup, reduced here to     *)
(* this: an entry nobody acked may be delivered to any subscription.        *)
(***************************************************************************)
EXTENDS Naturals, Sequences, FiniteSets

CONSTANTS
    Subs,       \* subscriptions that read the stream and sweep the set
    Stays,      \* those of them that keep running
    Jobs,       \* messages published to the stream, each one once
    Refuses,    \* Refuses[s]: the jobs the envelope of s cannot carry
    Batch,      \* SWEEP_BATCH
    Delays,     \* the delays handlers ask for
    Expires,    \* the set has a ttl, and nothing refreshes it in time
    MaxTime,    \* bound on the clock and on the due times
    MaxLog,     \* bound on the entries ever appended
    MaxHeld,    \* bound on the deliveries handlers hold at once
    MaxFaults   \* bound on crashes, expiries and commands that fail

ASSUME QueueAssumption ==
    /\ Stays \subseteq Subs
    /\ Refuses \in [Subs -> SUBSET Jobs]
    /\ Batch \in Nat \ {0}
    /\ Delays \subseteq Nat
    /\ Expires \in BOOLEAN
    /\ {MaxTime, MaxLog, MaxHeld, MaxFaults} \subseteq Nat

VARIABLES
    log,      \* entries of the stream: [job, from], from the entry retried
    acked,    \* ids the group was sent an XACK for
    now,      \* the wall clock
    zset,     \* the delay queue: id of the retried entry -> time it is due
    pc,       \* what each sweeper is at
    due,      \* members it listed and has not looked at yet, in order
    hand,     \* the member it removed and has not appended yet
    holds,    \* deliveries in the hands of a handler
    settled,  \* jobs a handler acked for good
    added,    \* how often a ZADD made the entry a member that it was not
    lost,     \* how often such a member left without its copy
    faults

vars == <<log, acked, now, zset, pc, due, hand, holds, settled, added, lost,
          faults>>

Ids   == 1..Len(log)
Entry == [job: Jobs, from: Nat]
Hold  == [sub: Subs, id: Nat, stage: {"held", "scheduled"}]

Empty == [i \in {} |-> 0]
Without(i) == [j \in DOMAIN zset \ {i} |-> zset[j]]
JobsOf(ids) == {log[i].job : i \in ids}

\* How often an entry was appended back onto the stream.
Copies(i) == Cardinality({j \in Ids : log[j].from = i})
InHand(i) == Cardinality({s \in Subs : pc[s] = "append" /\ hand[s] = i})
Queued(i) == IF i \in DOMAIN zset THEN 1 ELSE 0

-----------------------------------------------------------------------------
(* Faulty variants, each a bug this code could have.                       *)

\* Every listed member is appended, whoever removed it.
RemovedByAnyone(i) == TRUE
\* The XACK is sent whether or not the ZADD ran.
AckUnscheduled(h) ==
    /\ acked' = acked \cup {h.id}
    /\ holds' = holds \ {h}
    /\ UNCHANGED <<log, now, zset, pc, due, hand, settled, added, lost, faults>>
\* LIMIT 0 n lists up to n members, not up to the index n.
OneShort ==
    {i \in DOMAIN zset :
        /\ zset[i] <= now
        /\ Cardinality({j \in DOMAIN zset :
                          \/ zset[j] < zset[i]
                          \/ zset[j] = zset[i] /\ j < i}) + 1 < Batch}

-----------------------------------------------------------------------------
Init ==
    /\ log = <<>> /\ acked = {} /\ now = 0
    /\ zset = Empty
    /\ pc = [s \in Subs |-> "read"]
    /\ due = [s \in Subs |-> <<>>]
    /\ hand = [s \in Subs |-> 0]
    /\ holds = {}
    /\ settled = {}
    /\ added = [i \in 1..MaxLog |-> 0]
    /\ lost = [i \in 1..MaxLog |-> 0]
    /\ faults = 0

\* Bounds the model: there is an id for every copy that is queued.
Room ==
    Len(log) + Cardinality(DOMAIN zset) + Cardinality({s \in Subs : hand[s] # 0})
        < MaxLog

Publish(j) ==
    /\ Room
    /\ j \notin JobsOf(Ids)
    /\ log' = Append(log, [job |-> j, from |-> 0])
    /\ UNCHANGED <<acked, now, zset, pc, due, hand, holds, settled, added,
                   lost, faults>>

Tick ==
    /\ now < MaxTime
    /\ now' = now + 1
    /\ UNCHANGED <<log, acked, zset, pc, due, hand, holds, settled, added,
                   lost, faults>>

\* The ttl passed without a ZADD.
Expire ==
    /\ Expires
    /\ DOMAIN zset # {}
    /\ faults < MaxFaults
    /\ faults' = faults + 1
    /\ lost' = [i \in DOMAIN lost |-> lost[i] + Queued(i)]
    /\ zset' = Empty
    /\ UNCHANGED <<log, acked, now, pc, due, hand, holds, settled, added>>

-----------------------------------------------------------------------------
(* Handlers.                                                               *)

\* The group hands an unacked entry out, again if somebody held it before.
Deliver(s, i) ==
    /\ i \notin acked
    /\ Cardinality(holds) < MaxHeld
    /\ \A h \in holds : ~(h.sub = s /\ h.id = i)
    /\ holds' = holds \cup {[sub |-> s, id |-> i, stage |-> "held"]}
    /\ UNCHANGED <<log, acked, now, zset, pc, due, hand, settled, added, lost,
                   faults>>

\* scheduled: the score is the moment the retry is due.
FireAt(delay) == now + delay

\* schedule: the copy is sealed, then ZADD and PEXPIRE.  A member of the same
\* entry is the same member, and the ZADD moves its due time.
Schedule(h, delay) ==
    /\ h.stage = "held"
    /\ log[h.id].job \notin Refuses[h.sub]
    /\ now + delay <= MaxTime /\ (Room \/ Queued(h.id) = 1)
    /\ zset' = [i \in DOMAIN zset \cup {h.id} |->
                   IF i = h.id THEN FireAt(delay) ELSE zset[i]]
    /\ added' = [added EXCEPT ![h.id] = @ + 1 - Queued(h.id)]
    /\ holds' = (holds \ {h}) \cup {[h EXCEPT !.stage = "scheduled"]}
    /\ UNCHANGED <<log, acked, now, pc, due, hand, settled, lost, faults>>

\* The envelope refuses the copy: the entry stays pending.
ScheduleRefused(h) ==
    /\ h.stage = "held"
    /\ log[h.id].job \in Refuses[h.sub]
    /\ holds' = holds \ {h}
    /\ UNCHANGED <<log, acked, now, zset, pc, due, hand, settled, added, lost,
                   faults>>

\* nack_after: the XACK once the copy is queued.
AckScheduled(h) ==
    /\ h.stage = "scheduled"
    /\ acked' = acked \cup {h.id}
    /\ holds' = holds \ {h}
    /\ UNCHANGED <<log, now, zset, pc, due, hand, settled, added, lost, faults>>

Ack(h) ==
    /\ h.stage = "held"
    /\ acked' = acked \cup {h.id}
    /\ settled' = settled \cup {log[h.id].job}
    /\ holds' = holds \ {h}
    /\ UNCHANGED <<log, now, zset, pc, due, hand, added, lost, faults>>

\* ZADD, PEXPIRE or XACK fails, or the handler drops the delivery.
SettleFails(h) ==
    /\ faults < MaxFaults
    /\ holds' = holds \ {h}
    /\ faults' = faults + 1
    /\ UNCHANGED <<log, acked, now, zset, pc, due, hand, settled, added, lost>>

-----------------------------------------------------------------------------
(* The sweep of a subscription's read.                                     *)

Ripe == {i \in DOMAIN zset : zset[i] <= now}

\* ZRANGEBYSCORE 0 now LIMIT 0 Batch: the longest due first, ties in id order.
Before(i, j) == zset[i] < zset[j] \/ (zset[i] = zset[j] /\ i < j)
Listed == {i \in Ripe : Cardinality({j \in Ripe : Before(j, i)}) < Batch}
Listings ==
    {q \in [1..Cardinality(Listed) -> Listed] :
        \A m, n \in DOMAIN q : m < n => Before(q[m], q[n])}

List(s) ==
    /\ pc[s] = "read"
    /\ Listed # {}
    /\ \E q \in Listings : due' = [due EXCEPT ![s] = q]
    /\ pc' = [pc EXCEPT ![s] = "claim"]
    /\ UNCHANGED <<log, acked, now, zset, hand, holds, settled, added, lost,
                   faults>>

\* The envelope of s cannot carry the copy: the member stays queued.
Skip(s) ==
    /\ pc[s] = "claim" /\ due[s] # <<>>
    /\ log[Head(due[s])].job \in Refuses[s]
    /\ due' = [due EXCEPT ![s] = Tail(@)]
    /\ UNCHANGED <<log, acked, now, zset, pc, hand, holds, settled, added,
                   lost, faults>>

\* ZREM answered 1: the member was there and this sweeper removed it.
Removed(i) == i \in DOMAIN zset

Claim(s) ==
    /\ pc[s] = "claim" /\ due[s] # <<>>
    /\ LET i == Head(due[s]) IN
       /\ log[i].job \notin Refuses[s]
       /\ zset' = Without(i)
       /\ IF Removed(i)
          THEN /\ hand' = [hand EXCEPT ![s] = i]
               /\ pc' = [pc EXCEPT ![s] = "append"]
          ELSE UNCHANGED <<hand, pc>>
    /\ due' = [due EXCEPT ![s] = Tail(@)]
    /\ UNCHANGED <<log, acked, now, holds, settled, added, lost, faults>>

\* XADD of the claimed copy, under a new id.
AppendCopy(s) ==
    /\ pc[s] = "append"
    /\ log' = Append(log, [job |-> log[hand[s]].job, from |-> hand[s]])
    /\ hand' = [hand EXCEPT ![s] = 0]
    /\ pc' = [pc EXCEPT ![s] = "claim"]
    /\ UNCHANGED <<acked, now, zset, due, holds, settled, added, lost, faults>>

\* The list is done with; the read follows and the next one sweeps again.
SweepEnds(s) ==
    /\ pc[s] = "claim" /\ due[s] = <<>>
    /\ pc' = [pc EXCEPT ![s] = "read"]
    /\ UNCHANGED <<log, acked, now, zset, due, hand, holds, settled, added,
                   lost, faults>>

\* A command of the sweep fails, and the error ends the pass.
SweepFails(s) ==
    /\ pc[s] # "read"
    /\ faults < MaxFaults
    /\ lost' = IF pc[s] = "append" THEN [lost EXCEPT ![hand[s]] = @ + 1]
                                   ELSE lost
    /\ hand' = [hand EXCEPT ![s] = 0]
    /\ due' = [due EXCEPT ![s] = <<>>]
    /\ pc' = [pc EXCEPT ![s] = "read"]
    /\ faults' = faults + 1
    /\ UNCHANGED <<log, acked, now, zset, holds, settled, added>>

\* The process ends, with the pass and the handlers it runs.
Crash(s) ==
    /\ faults < MaxFaults
    /\ lost' = IF pc[s] = "append" THEN [lost EXCEPT ![hand[s]] = @ + 1]
                                   ELSE lost
    /\ hand' = [hand EXCEPT ![s] = 0]
    /\ due' = [due EXCEPT ![s] = <<>>]
    /\ pc' = [pc EXCEPT ![s] = "read"]
    /\ holds' = {h \in holds : h.sub # s}
    /\ faults' = faults + 1
    /\ UNCHANGED <<log, acked, now, zset, settled, added>>

-----------------------------------------------------------------------------
Sweep(s) ==
    List(s) \/ Skip(s) \/ Claim(s) \/ AppendCopy(s) \/ SweepEnds(s)

Settle(h) ==
    \/ \E delay \in Delays : Schedule(h, delay)
    \/ ScheduleRefused(h) \/ AckScheduled(h) \/ Ack(h)

Next ==
    \/ \E j \in Jobs : Publish(j)
    \/ Tick \/ Expire
    \/ \E s \in Subs :
          \/ Sweep(s) \/ Crash(s) \/ SweepFails(s)
          \/ \E i \in Ids : Deliver(s, i)
    \/ \E h \in holds : Settle(h) \/ SettleFails(h)

Spec == Init /\ [][Next]_vars

\* A subscription keeps reading, so it keeps sweeping; time passes.
FairSpec == Spec /\ WF_vars(Tick) /\ \A s \in Stays : WF_vars(Sweep(s))

-----------------------------------------------------------------------------
(* Properties.                                                             *)

TypeOK ==
    /\ log \in Seq(Entry)
    /\ acked \subseteq Ids
    /\ now \in 0..MaxTime
    /\ DOMAIN zset \subseteq Ids /\ zset \in [DOMAIN zset -> 0..MaxTime]
    /\ pc \in [Subs -> {"read", "claim", "append"}]
    /\ due \in [Subs -> Seq(Ids)]
    /\ hand \in [Subs -> {0} \cup Ids]
    /\ holds \subseteq Hold
    /\ settled \subseteq Jobs
    /\ added \in [1..MaxLog -> Nat]
    /\ lost \in [1..MaxLog -> Nat]
    /\ faults \in 0..MaxFaults

\* delay.rs:295-297: only the sweeper whose ZREM removed a member appends it,
\* so each time an entry was queued it is queued still, in the hands of one
\* sweeper, appended once, or lost with the sweeper that had it.
EachQueuedOnce ==
    \A i \in Ids : added[i] = Queued(i) + InHand(i) + Copies(i) + lost[i]

\* delay.rs:255-258, message.rs:275-276: an entry is acked only once its retry
\* is queued, so nothing a handler or the group does leaves a job with no
\* entry, no member, no copy and no verdict - only the sweep can.
AckedOnlyWhenQueued ==
    \A i \in acked :
        \/ log[i].job \in settled
        \/ Queued(i) + InHand(i) + Copies(i) + lost[i] > 0

\* docs/components/acknowledgement/delayed-retry.md: "Nothing about the delay
\* lives in the service, so a restart or a crash loses no retry."
NoRetryIsLost ==
    \A i \in acked :
        \/ log[i].job \in settled
        \/ Queued(i) + InHand(i) + Copies(i) > 0

\* delay.rs:3-4: a retry is redelivered "no sooner than `delay` from now": what
\* a sweeper takes out of the set is due.
OnlyDueIsTaken ==
    [][\A i \in DOMAIN zset \ DOMAIN zset' : zset[i] <= now]_vars

\* delayed-retry.md: "Each read of the subscription sweeps the set and appends
\* the entries that are due back onto the stream": a due entry that a
\* subscription which keeps running can carry does not stay in the set.
Carried(i) == \E s \in Stays : log[i].job \notin Refuses[s]
DueIsAppended ==
    \A i \in 1..MaxLog :
        (i \in DOMAIN zset /\ zset[i] <= now /\ Carried(i))
            ~> (i \notin DOMAIN zset \/ zset[i] > now)
=============================================================================
