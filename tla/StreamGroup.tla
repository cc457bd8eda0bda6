----------------------------- MODULE StreamGroup -----------------------------
(***************************************************************************)
(* One Redis stream, one consumer group of it, and the subscriptions that   *)
(* read the group.                                                          *)
(*                                                                          *)
(* The server side is a log, the group's cursor and its pending entries     *)
(* list.  The client side is RedisSubscriber (a read loop with a local      *)
(* buffer), RedisGroupSeeker (which moves the group's cursor under the      *)
(* readers) and RedisMessage (which settles one delivery).  A subscription  *)
(* runs in a process of its own, which may crash and start again.           *)
(*                                                                          *)
(* Every Redis command is one step of the server; between two commands the  *)
(* client does what it does without an await, in one step.  A read is three *)
(* steps: the command leaves, the server answers, the answer is looked at.  *)
(* The delay queue, which a subscription sweeps before it reads, is         *)
(* DelayQueue.  Time is abstracted: an entry becomes idle at any moment.    *)
(***************************************************************************)
EXTENDS Naturals, Sequences, FiniteSets

CONSTANTS
    Subs,         \* subscriptions; each one is a consumer of its own name
    Mode,         \* Mode[s] is the read mode of s
    Msgs,         \* messages, each published once; a retry appends a copy
    Start,        \* "new" or "beginning": where a group starts when created
    Count,        \* COUNT of one read, and the size of a batch
    MaxAttempts,  \* the runtime's cap on the delivery count it is told
    SeekKinds,    \* the positions a seek may name (RedisGroupPosition)
    MaxLog,       \* bound on the entries ever appended
    MaxClaims,    \* bound on the hand-outs of an entry still in flight
    MaxSeeks,     \* bound on the seeks
    MaxFaults,    \* bound on crashes, lost replies and failed commands
    MaxLosses     \* bound on the restarts of a server that keeps no data

ReadMode == {"fresh", "reclaim", "claiming"}

ASSUME ConstantsAssumption ==
    /\ Mode \in [Subs -> ReadMode]
    /\ Start \in {"new", "beginning"}
    /\ Count \in Nat \ {0}
    /\ SeekKinds \subseteq {"beginning", "end", "after"}
    /\ {MaxAttempts, MaxLog, MaxClaims, MaxSeeks, MaxFaults, MaxLosses}
          \subseteq Nat

VARIABLES
    log,          \* the entries; an entry's id is its index
    base,         \* entries up to base went with a server restart
    grouped,      \* the consumer group exists
    cursor,       \* last id the group handed out through ">"
    pel,          \* pending entries list: id -> [owner, count, idle]
    pc,           \* where each subscription's read loop is
    reply,        \* entries the server answered with, not looked at yet
    buffer,       \* entries fetched and not yielded
    generation,   \* bumped by each seek through the subscription's seeker
    bufGen,       \* buffer_generation
    selAt,        \* the generation loaded before the read left
    rcursor,      \* XAUTOCLAIM cursor; 0 is "0-0"
    open,         \* the broker of the process was not shut down
    deliveries,   \* deliveries a handler holds
    seeks,        \* seeks whose XGROUP SETID ran and whose bump did not
    epoch,        \* number of XGROUP SETID the server ran
    seekDone,     \* last epoch a seeker of the subscription returned from
    settled,      \* messages a handler acked or dropped for good
    skipped,      \* entries a cursor was moved over, or a group began after
    yielded,      \* entries read off the tail and yielded in this epoch
    faults,
    losses

server  == <<log, base, grouped, cursor, pel>>
reader  == <<pc, reply, buffer, bufGen, selAt, rcursor>>
history == <<epoch, seekDone, settled, skipped, yielded>>
bounds  == <<faults, losses>>
vars    == <<server, reader, generation, open, deliveries, seeks, history,
             bounds>>

Ids   == 1..Len(log)
Entry == [id: Nat, told: SUBSET Nat, count: Nat, epoch: Nat]
Delivery == [sub: Subs, id: Nat, told: SUBSET Nat, count: Nat, epoch: Nat,
             stage: {"held", "copied"}]
Pending == [owner: Subs, count: Nat, idle: BOOLEAN]
NoPending == [i \in {} |-> 0]
ReadPc  == {"down", "poll", "sweep", "asked", "listing", "answered", "nogroup"}

Smaller(m, n) == IF m <= n THEN m ELSE n
Larger(m, n)  == IF m >= n THEN m ELSE n
Elems(seq)    == {seq[k] : k \in DOMAIN seq}

-----------------------------------------------------------------------------
(* Faulty variants of definitions below, each a bug this code could have.   *)
(* No action uses them; the properties are checked to notice each one.      *)

\* XACK taken for a position: what is before the entry goes with it.
CumulativeAck(list, ids) ==
    [i \in {j \in DOMAIN list : \A k \in ids : j > k} |-> list[i]]
\* XPENDING's count, with this delivery added a second time.
CountedTwice(ids, i) == IF i \in ids THEN {pel[i].count + 1} ELSE {0}
\* The reclaim cursor stays behind the last entry it took.
NeverWraps(left) ==
    IF left = {} THEN {Len(log)} ELSE {i \in left : \A j \in left : i <= j}
\* A buffer that outlives the seek that outdated it.
AnyBuffer(s) == buffer[s]
\* An off-by-one that leaves the last yielded entry in the buffer.
RestAgain(s, n) == SubSeq(buffer[s], n, Len(buffer[s]))
\* CLAIM's count, which is without this delivery, taken for the one with it.
NotThisOne(i) == {pel[i].count}
\* A retry that acks the entry without having appended its copy.
CopyForgotten(d) == log
\* The id before the first one, where there is none.
BeforeTheFirst(kind) == {base - 1}

-----------------------------------------------------------------------------
(* The server's commands, as functions of the group's state.               *)

\* The pending entries list once `ids` were handed to `s`: a claim raises an
\* entry's count, a read off the tail starts it at one.
Claimed(list, ids, s) ==
    [i \in DOMAIN list |->
        IF i \in ids THEN [owner |-> s, count |-> list[i].count + 1,
                           idle |-> FALSE]
                     ELSE list[i]]
HandedOut(list, ids, s) ==
    [i \in DOMAIN list \cup ids |->
        IF i \in ids THEN [owner |-> s, count |-> 1, idle |-> FALSE]
                     ELSE list[i]]
Acked(list, ids) == [i \in DOMAIN list \ ids |-> list[i]]

\* The entries a claim may take, in each order it may take them: all of
\* `from` when the read has room for them, Count of them otherwise.
Picks(from) ==
    {pick \in UNION {[1..n -> from] : n \in 0..Count} :
        /\ \A j, k \in DOMAIN pick : j # k => pick[j] # pick[k]
        /\ Len(pick) = Count \/ Elems(pick) = from}
InIdOrder(pick, from) ==
    /\ \A j, k \in DOMAIN pick : j < k => pick[j] < pick[k]
    /\ \A i \in from \ Elems(pick) : \A k \in DOMAIN pick : pick[k] < i

Idle == {i \in DOMAIN pel : pel[i].idle}

\* The cursor XAUTOCLAIM returns: the first entry it left, or the start.
ReclaimNext(left) ==
    IF left = {} THEN {0} ELSE {i \in left : \A j \in left : i <= j}

\* `ids` are below a new cursor without having been handed out.
Passed(from, to) == {i \in from + 1 .. to : i \notin DOMAIN pel}

Make(i, told, count) ==
    [id |-> i, told |-> told, count |-> count, epoch |-> epoch]

-----------------------------------------------------------------------------
Init ==
    /\ log = <<>> /\ base = 0 /\ grouped = FALSE /\ cursor = 0
    /\ pel = NoPending
    /\ pc = [s \in Subs |-> "down"]
    /\ reply = [s \in Subs |-> <<>>]
    /\ buffer = [s \in Subs |-> <<>>]
    /\ generation = [s \in Subs |-> 0]
    /\ bufGen = [s \in Subs |-> 0]
    /\ selAt = [s \in Subs |-> 0]
    /\ rcursor = [s \in Subs |-> 0]
    /\ open = [s \in Subs |-> TRUE]
    /\ deliveries = {}
    /\ seeks = {}
    /\ epoch = 0 /\ seekDone = [s \in Subs |-> 0]
    /\ settled = {} /\ skipped = {} /\ yielded = {}
    /\ faults = 0 /\ losses = 0

-----------------------------------------------------------------------------
(* The server.                                                             *)

\* XADD of a new message; it creates the stream, never the group.
Publish(m) ==
    /\ m \notin Elems(log)
    /\ Len(log) < MaxLog
    /\ log' = Append(log, m)
    /\ UNCHANGED <<base, grouped, cursor, pel, reader, generation, open,
                   deliveries, seeks, history, bounds>>

\* Some subscription or handler has the entry in memory.
InFlight(i) ==
    \/ \E s \in Subs : \E e \in Elems(reply[s]) \cup Elems(buffer[s]) : e.id = i
    \/ \E d \in deliveries : d.id = i

\* An entry stays with its consumer longer than min_idle.
Age(i) ==
    /\ i \in DOMAIN pel
    /\ ~pel[i].idle
    /\ (pel[i].count < MaxClaims \/ ~InFlight(i))
    /\ pel' = [pel EXCEPT ![i].idle = TRUE]
    /\ UNCHANGED <<log, base, grouped, cursor, reader, generation, open,
                   deliveries, seeks, history, bounds>>

\* A server that keeps no data restarts: the stream and its group are gone.
LoseServer ==
    /\ losses < MaxLosses
    /\ base' = Len(log)
    /\ grouped' = FALSE
    /\ cursor' = Len(log)
    /\ pel' = NoPending
    /\ losses' = losses + 1
    /\ UNCHANGED <<log, reader, generation, open, deliveries, seeks, history,
                   faults>>

-----------------------------------------------------------------------------
(* Opening a subscription, and the process it runs in.                     *)

\* ensure_group: XGROUP CREATE ... MKSTREAM, an existing group left alone.
EnsureGroup(at) ==
    IF grouped
    THEN UNCHANGED <<grouped, cursor, skipped>>
    ELSE /\ grouped' = TRUE
         /\ cursor' = at
         /\ skipped' = skipped \cup Passed(base, at)

Subscribe(s) ==
    /\ pc[s] = "down"
    /\ EnsureGroup(IF Start = "new" THEN Len(log) ELSE base)
    /\ pc' = [pc EXCEPT ![s] = "poll"]
    /\ UNCHANGED <<log, base, pel, reply, buffer, bufGen, selAt, rcursor,
                   generation, open, deliveries, seeks, epoch, seekDone,
                   settled, yielded, bounds>>

\* The process ends with everything the subscription kept in memory.
ProcessEnds(s) ==
    /\ pc[s] # "down"
    /\ pc' = [pc EXCEPT ![s] = "down"]
    /\ reply' = [reply EXCEPT ![s] = <<>>]
    /\ buffer' = [buffer EXCEPT ![s] = <<>>]
    /\ generation' = [generation EXCEPT ![s] = 0]
    /\ bufGen' = [bufGen EXCEPT ![s] = 0]
    /\ selAt' = [selAt EXCEPT ![s] = 0]
    /\ rcursor' = [rcursor EXCEPT ![s] = 0]
    /\ open' = [open EXCEPT ![s] = TRUE]
    /\ deliveries' = {d \in deliveries : d.sub # s}
    /\ seeks' = {k \in seeks : k.sub # s}
    /\ UNCHANGED <<server, history, losses>>

Crash(s) ==
    /\ faults < MaxFaults
    /\ faults' = faults + 1
    /\ ProcessEnds(s)

\* A process whose broker was shut down ends and is started again.
Exit(s) ==
    /\ ~open[s]
    /\ UNCHANGED faults
    /\ ProcessEnds(s)

\* The broker shuts down: from here every command of the process refuses.
Shutdown(s) ==
    /\ open[s]
    /\ pc[s] # "down"
    /\ faults < MaxFaults
    /\ open' = [open EXCEPT ![s] = FALSE]
    /\ faults' = faults + 1
    /\ UNCHANGED <<server, reader, generation, deliveries, seeks, history,
                   losses>>

-----------------------------------------------------------------------------
(* The read loop of a subscription.                                        *)

\* discard_stale: what a seek left in the buffer is not yielded.
Current(s) == IF bufGen[s] = generation[s] THEN buffer[s] ELSE <<>>

Deliver(s, e) ==
    [sub |-> s, id |-> e.id, told |-> e.told, count |-> e.count,
     epoch |-> e.epoch, stage |-> "held"]

\* What the buffer keeps when n entries left it.
Rest(s, n) == SubSeq(buffer[s], n + 1, Len(buffer[s]))

\* stream yields the head of the buffer (n = 1), batches up to Count entries.
Yield(s, n) ==
    /\ pc[s] = "poll"
    /\ Current(s) # <<>>
    /\ n \in {1, Smaller(Count, Len(buffer[s]))}
    /\ LET out == Elems(SubSeq(buffer[s], 1, n))
       IN  /\ deliveries' = deliveries \cup {Deliver(s, e) : e \in out}
           /\ yielded' = yielded \cup
                 {e.id : e \in {x \in out : x.epoch = epoch /\ x.count = 1}}
    /\ buffer' = [buffer EXCEPT ![s] = Rest(s, n)]
    /\ UNCHANGED <<server, pc, reply, bufGen, selAt, rcursor, generation, open,
                   seeks, epoch, seekDone, settled, skipped, bounds>>

\* An empty buffer is filled: fetch refuses after a shutdown.
StartFetch(s) ==
    /\ pc[s] = "poll"
    /\ Current(s) = <<>>
    /\ buffer' = [buffer EXCEPT ![s] = <<>>]
    /\ bufGen' = [bufGen EXCEPT ![s] = generation[s]]
    /\ pc' = [pc EXCEPT ![s] = IF open[s] THEN "sweep" ELSE "poll"]
    /\ UNCHANGED <<server, reply, selAt, rcursor, generation, open, deliveries,
                   seeks, history, bounds>>

\* The delay queue is swept; the generation is loaded and the read leaves.
Ask(s) ==
    /\ pc[s] = "sweep"
    /\ selAt' = [selAt EXCEPT ![s] = generation[s]]
    /\ pc' = [pc EXCEPT ![s] = "asked"]
    /\ UNCHANGED <<server, reply, buffer, bufGen, rcursor, generation, open,
                   deliveries, seeks, history, bounds>>

\* Any of the three reads on a group the server lost: NOGROUP.
Refused(s) ==
    /\ pc[s] \in {"asked", "listing"}
    /\ ~grouped
    /\ pc' = [pc EXCEPT ![s] = "nogroup"]
    /\ reply' = [reply EXCEPT ![s] = <<>>]
    /\ UNCHANGED <<server, buffer, bufGen, selAt, rcursor, generation, open,
                   deliveries, seeks, history, bounds>>

\* RECREATED_GROUP_START is "0": before the first entry the server still has.
RecreatedAt == base

\* recreate_group: the group starts over, and the reclaim cursor with it.
RecreateGroup(s) ==
    /\ pc[s] = "nogroup"
    /\ EnsureGroup(RecreatedAt)
    /\ rcursor' = [rcursor EXCEPT ![s] = 0]
    /\ pc' = [pc EXCEPT ![s] = "poll"]
    /\ UNCHANGED <<log, base, pel, reply, buffer, bufGen, selAt, generation,
                   open, deliveries, seeks, epoch, seekDone, settled, yielded,
                   bounds>>

\* annotate_claimed: CLAIM reports the count before this delivery.
Annotated(i) == {pel[i].count + 1}

\* The server answers a read with the entries `claimed` (a sequence of ids)
\* and the n entries after the cursor.
Answer(s, claimed, n, next) ==
    LET old  == Elems(claimed)
        tail == cursor + 1 .. cursor + n
        told(i) == IF Mode[s] = "claiming" THEN Annotated(i) ELSE {}
        tailTold == IF Mode[s] = "claiming" THEN {1} ELSE {}
    IN  /\ pel' = HandedOut(Claimed(pel, old, s), tail, s)
        /\ cursor' = cursor + n
        /\ reply' = [reply EXCEPT ![s] =
              [k \in DOMAIN claimed |->
                  Make(claimed[k], told(claimed[k]), pel[claimed[k]].count + 1)]
              \o [k \in 1..n |-> Make(cursor + k, tailTold, 1)]]
        /\ pc' = [pc EXCEPT ![s] = next]
        /\ UNCHANGED <<log, base, grouped, buffer, bufGen, selAt, generation,
                       open, deliveries, seeks, history, bounds>>

Unread == Len(log) - cursor

\* fetch_fresh: XREADGROUP COUNT BLOCK >.
FetchFresh(s) ==
    /\ pc[s] = "asked" /\ grouped
    /\ Mode[s] = "fresh"
    /\ Answer(s, <<>>, Smaller(Count, Unread), "answered")
    /\ UNCHANGED rcursor

\* fetch_claiming: XREADGROUP CLAIM, the longest idle first, then the tail.
FetchClaiming(s) ==
    /\ pc[s] = "asked" /\ grouped
    /\ Mode[s] = "claiming"
    /\ \E pick \in Picks(Idle) :
           Answer(s, pick, Smaller(Count - Len(pick), Unread), "answered")
    /\ UNCHANGED rcursor

\* fetch_reclaim: XAUTOCLAIM from the cursor of the last pass.
FetchReclaim(s) ==
    /\ pc[s] = "asked" /\ grouped
    /\ Mode[s] = "reclaim"
    /\ LET from == {i \in Idle : i >= rcursor[s]}
       IN  \E pick \in Picks(from) :
             /\ InIdOrder(pick, from)
             /\ Answer(s, pick, 0, IF pick = <<>> THEN "answered"
                                                  ELSE "listing")
             /\ \E next \in ReclaimNext(from \ Elems(pick)) :
                    rcursor' = [rcursor EXCEPT ![s] = next]

\* XAUTOCLAIM runs and its answer is lost: the cursor stays where it was.
ClaimLost(s) ==
    /\ pc[s] = "asked" /\ grouped
    /\ Mode[s] = "reclaim"
    /\ faults < MaxFaults
    /\ LET from == {i \in Idle : i >= rcursor[s]}
       IN  \E pick \in Picks(from) :
             /\ InIdOrder(pick, from)
             /\ pel' = Claimed(pel, Elems(pick), s)
    /\ pc' = [pc EXCEPT ![s] = "poll"]
    /\ faults' = faults + 1
    /\ UNCHANGED <<log, base, grouped, cursor, reply, buffer, bufGen, selAt,
                   rcursor, generation, open, deliveries, seeks, history,
                   losses>>

\* pending_meta: the first Count entries pending for this consumer.
Listed(s) ==
    {i \in DOMAIN pel :
        /\ pel[i].owner = s
        /\ Cardinality({j \in DOMAIN pel : pel[j].owner = s /\ j < i}) < Count}

\* The count a listed entry is told; a missing row counts as zero.
ListedCount(ids, i) == IF i \in ids THEN {pel[i].count} ELSE {0}

\* enrich_reclaimed: XPENDING after the claim tells each entry its count.
Enrich(s) ==
    /\ pc[s] = "listing" /\ grouped
    /\ reply' = [reply EXCEPT ![s] =
          [k \in DOMAIN reply[s] |->
              [reply[s][k] EXCEPT
                  !.told = ListedCount(Listed(s), reply[s][k].id)]]]
    /\ pc' = [pc EXCEPT ![s] = "answered"]
    /\ UNCHANGED <<server, buffer, bufGen, selAt, rcursor, generation, open,
                   deliveries, seeks, history, bounds>>

\* fetch, after the read: a seek that overtook it drops the entries.
ReadReturns(s) ==
    /\ pc[s] = "answered"
    /\ IF selAt[s] # generation[s]
       THEN UNCHANGED <<buffer, bufGen>>
       ELSE /\ buffer' = [buffer EXCEPT ![s] = @ \o reply[s]]
            /\ bufGen' = [bufGen EXCEPT ![s] = selAt[s]]
    /\ reply' = [reply EXCEPT ![s] = <<>>]
    /\ pc' = [pc EXCEPT ![s] = "poll"]
    /\ UNCHANGED <<server, selAt, rcursor, generation, open, deliveries, seeks,
                   history, bounds>>

\* The command or its answer is lost, or the stream is dropped mid-read.
ReadLost(s) ==
    /\ pc[s] \in {"sweep", "asked", "listing", "answered", "nogroup"}
    /\ faults < MaxFaults
    /\ reply' = [reply EXCEPT ![s] = <<>>]
    /\ pc' = [pc EXCEPT ![s] = "poll"]
    /\ faults' = faults + 1
    /\ UNCHANGED <<server, buffer, bufGen, selAt, rcursor, generation, open,
                   deliveries, seeks, history, losses>>

-----------------------------------------------------------------------------
(* Settling a delivery (AckMode of RedisMessage).                          *)

Republishes(d) == Mode[d.sub] # "claiming"

Acknowledge(d) ==
    /\ pel' = Acked(pel, {d.id})
    /\ deliveries' = deliveries \ {d}
    /\ UNCHANGED <<log, base, grouped, cursor, reader, generation, open, seeks,
                   epoch, seekDone, skipped, yielded, bounds>>

\* ack, and nack(requeue = false): the XACK of a final verdict.
Ack(d) ==
    /\ d.stage = "held" /\ open[d.sub]
    /\ settled' = settled \cup {log[d.id]}
    /\ Acknowledge(d)

\* The runtime retries a delivery until its cap on the count it was told.
MayRetry(d) == d.stage = "held" /\ \A n \in d.told : n < MaxAttempts

\* republish: XADD of a copy.
Republished(d) == Append(log, log[d.id])

\* nack(requeue = true) where a retry republishes: the copy first ...
Requeue(d) ==
    /\ MayRetry(d) /\ Republishes(d) /\ open[d.sub]
    /\ Len(log) < MaxLog
    /\ log' = Republished(d)
    /\ deliveries' = (deliveries \ {d}) \cup {[d EXCEPT !.stage = "copied"]}
    /\ UNCHANGED <<base, grouped, cursor, pel, reader, generation, open, seeks,
                   history, bounds>>

\* ... then the XACK of the original.
AckCopied(d) ==
    /\ d.stage = "copied"
    /\ UNCHANGED settled
    /\ Acknowledge(d)

\* nack(requeue = true) where a retry leaves the entry pending.
LeavePending(d) ==
    /\ MayRetry(d) /\ ~Republishes(d) /\ open[d.sub]
    /\ deliveries' = deliveries \ {d}
    /\ UNCHANGED <<server, reader, generation, open, seeks, history, bounds>>

\* A settle after the shutdown refuses; the handle is gone all the same.
SettleRefused(d) ==
    /\ d.stage = "held" /\ ~open[d.sub]
    /\ deliveries' = deliveries \ {d}
    /\ UNCHANGED <<server, reader, generation, open, seeks, history, bounds>>

\* A command of the settle fails, or the handler drops the delivery.
SettleFails(d) ==
    /\ faults < MaxFaults
    /\ deliveries' = deliveries \ {d}
    /\ faults' = faults + 1
    /\ UNCHANGED <<server, reader, generation, open, seeks, history, losses>>

-----------------------------------------------------------------------------
(* A seek through the seeker of s: XGROUP SETID, then the bump.            *)

\* as_xid: the id SETID takes for a position; "$" is the last entry.
Positions(kind) ==
    CASE kind = "beginning" -> {base}
      [] kind = "end"       -> {Len(log)}
      [] kind = "after"     -> base..Len(log)

SeekSetId(s, kind, to) ==
    /\ pc[s] # "down" /\ open[s]
    /\ to \in Positions(kind)
    /\ grouped
    /\ epoch < MaxSeeks
    /\ cursor' = to
    /\ skipped' = skipped \cup Passed(cursor, to)
    /\ epoch' = epoch + 1
    /\ yielded' = {}
    /\ seeks' = seeks \cup {[sub |-> s, epoch |-> epoch + 1]}
    /\ UNCHANGED <<log, base, grouped, pel, reader, generation, open,
                   deliveries, seekDone, settled, bounds>>

SeekBump(k) ==
    /\ generation' = [generation EXCEPT ![k.sub] = @ + 1]
    /\ seekDone' = [seekDone EXCEPT ![k.sub] = Larger(@, k.epoch)]
    /\ seeks' = seeks \ {k}
    /\ UNCHANGED <<server, reader, open, deliveries, epoch, settled, skipped,
                   yielded, bounds>>

\* The answer to SETID is lost: the seek returns the error and bumps nothing.
SeekFails(k) ==
    /\ faults < MaxFaults
    /\ seeks' = seeks \ {k}
    /\ faults' = faults + 1
    /\ UNCHANGED <<server, reader, generation, open, deliveries, history,
                   losses>>

-----------------------------------------------------------------------------
Read(s) ==
    \/ StartFetch(s) \/ Ask(s)
    \/ FetchFresh(s) \/ FetchClaiming(s) \/ FetchReclaim(s) \/ Enrich(s)
    \/ ReadReturns(s)
    \/ Refused(s) \/ RecreateGroup(s)

Settle(d) == Ack(d) \/ Requeue(d) \/ AckCopied(d) \/ LeavePending(d)
                    \/ SettleRefused(d)

Next ==
    \/ \E m \in Msgs : Publish(m)
    \/ \E i \in DOMAIN pel : Age(i)
    \/ LoseServer
    \/ \E s \in Subs :
          \/ Subscribe(s) \/ Crash(s) \/ Shutdown(s) \/ Exit(s)
          \/ ReadLost(s) \/ ClaimLost(s)
          \/ Read(s)
          \/ \E n \in 1..Count : Yield(s, n)
          \/ \E kind \in SeekKinds : \E to \in Positions(kind) :
                SeekSetId(s, kind, to)
    \/ \E d \in deliveries : Settle(d) \/ SettleFails(d)
    \/ \E k \in seeks : SeekBump(k) \/ SeekFails(k)

Spec == Init /\ [][Next]_vars

-----------------------------------------------------------------------------
(* Fairness: the read loop is a task the runtime keeps polling, a handler   *)
(* settles what it was handed, a process that crashed starts again, and     *)
(* time passes.  Nothing is fair about seeks, publishes or faults.          *)

Fairness ==
    /\ \A s \in Subs :
          /\ WF_vars(Subscribe(s)) /\ WF_vars(Exit(s))
          /\ WF_vars(Read(s))
          /\ WF_vars(\E n \in 1..Count : Yield(s, n))
    /\ \A i \in 1..MaxLog :
          /\ WF_vars(Age(i))
          /\ \A s \in Subs :
                WF_vars(\E d \in deliveries :
                          d.id = i /\ d.sub = s /\ Settle(d))

FairSpec == Spec /\ Fairness

-----------------------------------------------------------------------------
(* Properties.                                                             *)

\* The types of the variables.
ServerTyped ==
    /\ log \in Seq(Msgs)
    /\ base \in Nat /\ grouped \in BOOLEAN /\ cursor \in Nat
    /\ DOMAIN pel \subseteq Nat
    /\ pel \in [DOMAIN pel -> Pending]
ReaderTyped ==
    /\ pc \in [Subs -> ReadPc]
    /\ reply \in [Subs -> Seq(Entry)]
    /\ buffer \in [Subs -> Seq(Entry)]
    /\ bufGen \in [Subs -> Nat]
    /\ selAt \in [Subs -> Nat]
    /\ rcursor \in [Subs -> Nat]
ClientTyped ==
    /\ generation \in [Subs -> Nat]
    /\ open \in [Subs -> BOOLEAN]
    /\ deliveries \subseteq Delivery
    /\ seeks \subseteq [sub: Subs, epoch: Nat]
HistoryTyped ==
    /\ epoch \in Nat
    /\ seekDone \in [Subs -> Nat]
    /\ settled \subseteq Msgs
    /\ skipped \subseteq Nat
    /\ yielded \subseteq Nat
    /\ faults \in Nat /\ losses \in Nat
TypeOK == ServerTyped /\ ReaderTyped /\ ClientTyped /\ HistoryTyped

\* The server still has the entry for a consumer of the group.
Live(i) == i > base /\ (i > cursor \/ i \in DOMAIN pel)

\* At-least-once (message.rs:235, delay of the XACK behind the copy): whatever
\* crashes, every published message was settled for good, or the group still
\* holds an entry of it, or a seek or a data-less server restart gave it up.
NothingLost ==
    \A m \in Elems(log) :
        \/ m \in settled
        \/ \E i \in Ids : log[i] = m /\ (Live(i) \/ i \in skipped \/ i <= base)

\* The same per entry, which is what each step preserves: an entry that is
\* not live was given up, settled, or superseded by a later copy.
Accounted(i) ==
    \/ Live(i) \/ i \in skipped \/ i <= base
    \/ log[i] \in settled
    \/ \E j \in Ids : j > i /\ log[j] = log[i]
EntriesAccounted == \A i \in Ids : Accounted(i)

\* discard_stale and the check after the read (subscriber.rs:200, 297): once a
\* seek through a subscription's own seeker returned, the subscription yields
\* nothing the server selected before that seek.
NoStaleDelivery ==
    [][\A d \in deliveries' \ deliveries :
          d.stage = "held" => d.epoch >= seekDone[d.sub]]_vars

\* recreate_group (subscriber.rs:311-315): what the stream holds when a reader
\* recreated the lost group was added after the loss, so "nothing published in
\* between is skipped" - unless somebody created the group before it.
RecreateSkipsNothing ==
    [][(epoch = 0 /\ faults' = faults) =>
          \A s \in Subs : (pc[s] = "nogroup" /\ pc'[s] = "poll") =>
              \A i \in skipped' : i <= base']_vars

\* seek.rs:277: "Entries selected under the old cursor are discarded rather
\* than delivered, so a seek never yields a message from the position it moved
\* away from" - and the cursor is the whole group's.
SeekHoldsForTheGroup ==
    [][\A d \in deliveries' \ deliveries :
          d.stage = "held" => \A s \in Subs : d.epoch >= seekDone[s]]_vars

\* docs/components/positions/start-at.md: "With `beginning()` the group reads
\* every retained entry again": when no seek is running, each retained entry
\* is unread, in a buffer that will be yielded, or was yielded since the seek.
ReplayIsComplete ==
    (SeekKinds = {"beginning"} /\ epoch > 0 /\ seeks = {}) =>
        \A i \in base + 1 .. Len(log) :
            \/ i > cursor
            \/ i \in yielded
            \/ \E s \in Subs :
                  \/ \E e \in Elems(Current(s)) : e.id = i
                  \/ /\ selAt[s] = generation[s]
                     /\ \E e \in Elems(reply[s]) : e.id = i

\* One group shares its tail (docs/components/streams: "each entry goes to one
\* of them", "handed out once"): between two seeks no entry is read off the
\* tail and yielded twice, by whichever subscriptions.
TailYieldedOnce ==
    [][\A d \in deliveries' \ deliveries :
          (d.stage = "held" /\ d.count = 1 /\ d.epoch = epoch)
              => d.id \notin yielded]_vars

\* What the runtime's cap reads (message.rs:211-223): a claiming delivery is
\* told exactly the server's count of hand-outs, this one included, a reclaimed
\* one that count or no count at all, so no delivery is capped early.
ToldCountIsTheServers ==
    \A s \in Subs :
        \A e \in Elems(buffer[s]) :
            /\ Mode[s] = "claiming" => e.told = {e.count}
            /\ Mode[s] = "reclaim" => e.told \subseteq {0, e.count}
            /\ Mode[s] = "fresh" => e.told = {}

\* message.rs:214-217: reclaim "reads `XPENDING` after the claim, where this
\* delivery is already counted".
ReclaimCountsThisDelivery ==
    \A s \in Subs :
        Mode[s] = "reclaim" => \A e \in Elems(buffer[s]) : e.told = {e.count}

\* Every message is settled in the end, or was given up by a seek, a group
\* that began after it, or the server's loss of its data.
EventuallySettled ==
    \A m \in Msgs :
        m \in Elems(log) ~>
            \/ m \in settled
            \/ \E i \in Ids : log[i] = m /\ (i \in skipped \/ i <= base)

-----------------------------------------------------------------------------
(* The group implements the promise of AtLeastOnce.                        *)

MsgsOf(ids) == {log[i] : i \in ids}

Promise == INSTANCE AtLeastOnce WITH
    sent   <- Elems(log),
    owed   <- MsgsOf({i \in Ids : Live(i)}),
    held   <- MsgsOf({d.id : d \in deliveries}),
    done   <- settled,
    waived <- MsgsOf({i \in Ids : i \in skipped \/ i <= base})

\* Every step of the server, the readers, the handlers and the seekers is a
\* step of the abstract group or leaves it as it is: a message stops being owed
\* only by a verdict of a handler that held it, or by being given up.
ImplementsPromise == Promise!Spec

=============================================================================
