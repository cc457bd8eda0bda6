------------------------------- MODULE Window -------------------------------
(***************************************************************************)
(* The window of one pipelined stream subscription (pipeline/window.rs and  *)
(* StreamForm): the slots its deliveries take, the commands their handlers  *)
(* queue, the settles they owe, and the flushes that send both.             *)
(*                                                                          *)
(* A settle takes the window's two locks in turn and is three steps: it     *)
(* closes its slot, it accounts for what it owes, and it counts itself and  *)
(* may flush.  The flush is sent without a lock, so flushes overlap.        *)
(*                                                                          *)
(* A round has at most one command, which stands for all of its handler's,  *)
(* and is named by the round; the settles a delivery owes, one XACK with    *)
(* the copy or the schedule before it, are named by the delivery.           *)
(***************************************************************************)
EXTENDS Naturals, Sequences, FiniteSets

CONSTANTS
    Mounts,     \* the mounts of a subscription a behaviour may be about
    Verdicts,   \* what handlers do with a delivery
    Keeps,      \* a handler may keep its pipeline past the delivery
    Seeks,      \* a seek may discard what is buffered
    Stops,      \* the subscription may be dropped before the service ends
    OneTask,    \* the members of a batch are settled by one task
    MaxRead,    \* bound on the deliveries ever read under any mount
    MaxFaults   \* bound on the commands that fail

Verdict == {"ack", "drop", "retry", "leave", "none"}

\* A mount: how many deliveries share a slot, how many settles fill the window
\* (the COUNT of a read), how many rounds handlers have at once, .atomic(); and
\* a bound on the deliveries ever read under it.
Mount == [batch: Nat \ {0}, capacity: Nat \ {0}, workers: Nat \ {0},
          atomic: BOOLEAN, reads: 0..MaxRead]

\* A batch mount has one handler at a time (docs/components/subscriptions/
\* batches.md: workers(n) is a step of single-message handlers only).
ASSUME WindowAssumption ==
    /\ Mounts \subseteq Mount
    /\ \A m \in Mounts : m.batch = 1 \/ m.workers = 1
    /\ Verdicts \subseteq Verdict
    /\ {Keeps, Seeks, Stops, OneTask} \subseteq BOOLEAN
    /\ MaxRead \in Nat /\ MaxFaults \in Nat

VARIABLES
    mount,        \* the mount of this behaviour
    read,         \* deliveries read so far; they are 1..read
    buffer,       \* those of them not yielded yet
    stage,        \* where a delivery is
    round,        \* the slot it has, and the generation of it
    verdict,      \* what was decided about it
    slots,        \* Slots: members, clean, generation and segment of each
    free,         \* slots given back
    hands,        \* what a settle carries from one lock to the next
    staged,       \* settles of batch members before the last one, by slot
    committed,    \* segments to send
    ops,          \* settles to send
    outstanding, settled,
    flushes,      \* flushes taken out of the window and not sent to the end
    failure,      \* a failed flush, not reported on the stream yet
    running,      \* the subscription was not dropped
    drained,      \* the flush of its drop was taken
    queued,       \* rounds that queued their command
    ran, refused, \* commands that ran, and that were sent and failed
    copied,       \* deliveries whose copy or schedule was written
    acked,        \* deliveries the XACK of which ran
    failed,       \* deliveries the settle of which was lost or refused
    faults

stream  == <<read, buffer, running, drained>>
segment == <<slots, free>>
owed    == <<staged, committed, ops, outstanding, settled, flushes>>
server  == <<queued, ran, refused, copied, acked, failed>>
vars    == <<mount, stream, stage, round, verdict, segment, hands, owed,
             failure, server, faults>>

Ids    == 1..MaxRead
Round  == [slot: 0..MaxRead, gen: 0..MaxRead]
Slot   == [members: 0..MaxRead, clean: BOOLEAN, gen: 0..MaxRead,
           cmds: SUBSET Round]
Hand   == [last: BOOLEAN, clean: BOOLEAN, cmds: SUBSET Round,
           ops: SUBSET Ids]
Sealed == [cmds: SUBSET Round, ops: SUBSET Ids]
Flush  == [segs: SUBSET Sealed, ops: SUBSET Ids, erred: BOOLEAN,
           at: {"segments", "writes", "acks"}]
Stage  == {"unread", "buffered", "held", "closing", "sealing", "counting",
           "settled", "gone"}

NoRound == [slot |-> 0, gen |-> 0]
Nothing == [last |-> FALSE, clean |-> FALSE, cmds |-> {}, ops |-> {}]

Smaller(m, n) == IF m <= n THEN m ELSE n
Less(m, n)    == IF m <= n THEN 0 ELSE m - n   \* saturating_sub
Elems(seq)    == {seq[k] : k \in DOMAIN seq}

Settling == {"closing", "sealing", "counting"}
Members(r) == {d \in Ids : round[d] = r}
Busy == {round[d] : d \in {e \in Ids : stage[e] \in Settling \cup {"held"}}}

-----------------------------------------------------------------------------
(* Faulty variants, each a bug this code could have.                       *)

\* Only the last verdict counts.
LastVerdict(s, v) == v = "ack"
\* Every member gives the slot back.
AnyMember(s) == TRUE
\* A retry whose write failed is acked with the rest.
AllOfThem(f, bad) == f.ops
\* A window that is sent only when it is full.
OnlyWhenFull(n) == settled + 1 >= mount.capacity

-----------------------------------------------------------------------------
Init ==
    /\ mount \in Mounts
    /\ read = 0 /\ buffer = <<>> /\ running = TRUE /\ drained = FALSE
    /\ stage = [d \in Ids |-> "unread"]
    /\ round = [d \in Ids |-> NoRound]
    /\ verdict = [d \in Ids |-> "none"]
    /\ slots = <<>> /\ free = <<>>
    /\ hands = [d \in Ids |-> Nothing]
    /\ staged = [s \in Ids |-> {}]
    /\ committed = {} /\ ops = {} /\ outstanding = 0 /\ settled = 0
    /\ flushes = {}
    /\ failure = FALSE
    /\ queued = {} /\ ran = {} /\ refused = {}
    /\ copied = {} /\ acked = {} /\ failed = {}
    /\ faults = 0

-----------------------------------------------------------------------------
(* The delivery stream: round_stream and round_batches.                    *)

\* A read of up to COUNT entries, counted as outstanding.  A flush may have
\* failed since the read left.
Fetch(n) ==
    /\ running /\ buffer = <<>>
    /\ n \in 1..mount.capacity /\ read + n <= mount.reads
    /\ buffer' = [k \in 1..n |-> read + k]
    /\ read' = read + n
    /\ stage' = [d \in Ids |-> IF d \in read + 1 .. read + n THEN "buffered"
                                                             ELSE stage[d]]
    /\ outstanding' = outstanding + n
    /\ UNCHANGED <<mount, running, drained, round, verdict, segment, hands,
                   staged, committed, ops, settled, flushes, failure, server,
                   faults>>

\* Segments::open: the slot given back last, or a new one.
NextSlot == IF free = <<>> THEN Len(slots) + 1 ELSE free[Len(free)]

\* Opening a slot for n deliveries; what is in its segment is left there.
Opened(s, n) ==
    IF s > Len(slots)
    THEN Append(slots, [members |-> n, clean |-> TRUE, gen |-> 1, cmds |-> {}])
    ELSE [slots EXCEPT ![s] = [slots[s] EXCEPT !.members = n, !.clean = TRUE,
                                               !.gen = @ + 1]]

\* One delivery, or the batch of one read, is yielded with a slot.  (An entry
\* whose id is none of a server's yields an error instead: no server sends one.)
Yield ==
    /\ running /\ ~failure /\ buffer # <<>>
    /\ Cardinality(Busy) < mount.workers
    /\ LET n   == Smaller(mount.batch, Len(buffer))
           s   == NextSlot
           out == {buffer[k] : k \in 1..n}
       IN  /\ slots' = Opened(s, n)
           /\ free' = IF free = <<>> THEN free ELSE SubSeq(free, 1, Len(free) - 1)
           /\ round' = [d \in Ids |->
                  IF d \in out THEN [slot |-> s, gen |-> slots'[s].gen]
                               ELSE round[d]]
           /\ stage' = [d \in Ids |-> IF d \in out THEN "held" ELSE stage[d]]
           /\ buffer' = SubSeq(buffer, n + 1, Len(buffer))
    /\ UNCHANGED <<mount, read, running, drained, verdict, hands, owed, failure,
                   server, faults>>

\* discarded: a seek outdated the buffer.
Discard ==
    /\ Seeks /\ running /\ ~failure /\ buffer # <<>>
    /\ outstanding' = Less(outstanding, Len(buffer))
    /\ stage' = [d \in Ids |-> IF d \in Elems(buffer) THEN "gone" ELSE stage[d]]
    /\ buffer' = <<>>
    /\ UNCHANGED <<mount, read, running, drained, round, verdict, segment,
                   hands, staged, committed, ops, settled, flushes, failure,
                   server, faults>>

\* take_failure: the failed flush is the next item of the stream.
Report ==
    /\ running /\ failure
    /\ failure' = FALSE
    /\ UNCHANGED <<mount, stream, stage, round, verdict, segment, hands, owed,
                   server, faults>>

\* The subscription is dropped, with what it has in its buffer.
Stop ==
    /\ Stops /\ running
    /\ running' = FALSE
    /\ stage' = [d \in Ids |-> IF d \in Elems(buffer) THEN "gone" ELSE stage[d]]
    /\ buffer' = <<>>
    /\ UNCHANGED <<mount, read, drained, round, verdict, segment, hands, owed,
                   failure, server, faults>>

-----------------------------------------------------------------------------
(* Handlers.                                                               *)

\* Segments::segment: a handle reaches its slot while the slot's generation is
\* the one it was opened with.
Reaches(r) == slots[r.slot].gen = r.gen

\* A handler queues a command; it creates the segment.
Queue(r) ==
    /\ r \in {round[d] : d \in Ids} \ ({NoRound} \cup queued)
    /\ Keeps \/ \E d \in Members(r) : stage[d] = "held"
    /\ Reaches(r)
    /\ slots' = [slots EXCEPT ![r.slot].cmds = @ \cup {r}]
    /\ queued' = queued \cup {r}
    /\ UNCHANGED <<mount, stream, stage, round, verdict, free, hands, owed,
                   failure, ran, refused, copied, acked, failed, faults>>

\* Segments::close, the first lock of a settle and of a dropped delivery: the
\* last member takes the segment and gives the slot back.
Kept(s, v) == slots[s].clean /\ v = "ack"
LastMember(s) == slots[s].members <= 1

Close(d, v) ==
    /\ stage[d] = "held"
    /\ OneTask => \A e \in Members(round[d]) : stage[e] \notin Settling
    /\ LET s == round[d].slot IN
       /\ slots' = [slots EXCEPT ![s] =
             [slots[s] EXCEPT !.clean = Kept(s, v), !.members = Less(@, 1),
                              !.cmds = IF LastMember(s) THEN {} ELSE @]]
       /\ free' = IF LastMember(s) THEN Append(free, s) ELSE free
       /\ hands' = [hands EXCEPT ![d] =
             [Nothing EXCEPT !.last = LastMember(s), !.clean = Kept(s, v),
                             !.cmds = IF LastMember(s) THEN slots[s].cmds
                                                       ELSE {}]]
    /\ verdict' = [verdict EXCEPT ![d] = v]
    /\ stage' = [stage EXCEPT ![d] = "closing"]
    /\ UNCHANGED <<mount, stream, round, owed, failure, server, faults>>

-----------------------------------------------------------------------------
(* What the window owes.                                                   *)

\* The settle a verdict owes: none for an entry left pending, by the mode or
\* since no copy of it can be sealed, or dropped.
Owes(d) == IF verdict[d] \in {"ack", "drop", "retry"} THEN {d} ELSE {}

\* The segment is kept: every member of the round acknowledged.
Commits(d) == hands[d].last /\ hands[d].clean /\ hands[d].cmds # {}
                            /\ verdict[d] = "ack"

(* Three more faulty variants.                                              *)

\* The staged settles are copied into the commit and not taken out of the batch.
SealCopies(d) ==
    /\ stage[d] = "closing" /\ Commits(d)
    /\ hands' = [hands EXCEPT ![d].ops = staged[round[d].slot] \cup Owes(d)]
    /\ stage' = [stage EXCEPT ![d] = "sealing"]
    /\ UNCHANGED <<mount, stream, round, verdict, segment, staged, committed,
                   ops, outstanding, settled, flushes, failure, server, faults>>
\* A settle of a batch that does not wait for the batch's segment.
AckAtOnce(d) ==
    /\ stage[d] = "closing" /\ verdict[d] # "none"
    /\ ~hands[d].last
    /\ ops' = ops \cup Owes(d)
    /\ stage' = [stage EXCEPT ![d] = "counting"]
    /\ UNCHANGED <<mount, stream, round, verdict, segment, hands, staged,
                   committed, outstanding, settled, flushes, failure, server,
                   faults>>

\* A delivery dropped unsettled that never flushes what the others settled.
DropsOnly(d) ==
    /\ stage[d] = "closing" /\ verdict[d] = "none"
    /\ ops' = ops \cup (IF hands[d].last THEN staged[round[d].slot] ELSE {})
    /\ staged' = IF hands[d].last
                 THEN [staged EXCEPT ![round[d].slot] = {}] ELSE staged
    /\ outstanding' = Less(outstanding, 1)
    /\ stage' = [stage EXCEPT ![d] = "settled"]
    /\ hands' = [hands EXCEPT ![d] = Nothing]
    /\ UNCHANGED <<mount, stream, round, verdict, segment, committed, settled,
                   flushes, failure, server, faults>>

\* A batch member before its last: its settle waits for the batch's.
StageSettle(d) ==
    /\ stage[d] = "closing" /\ verdict[d] # "none"
    /\ ~hands[d].last
    /\ staged' = [staged EXCEPT ![round[d].slot] = @ \cup Owes(d)]
    /\ stage' = [stage EXCEPT ![d] = "counting"]
    /\ UNCHANGED <<mount, stream, round, verdict, segment, hands, committed,
                   ops, outstanding, settled, flushes, failure, server, faults>>

\* The last member takes the settles staged before it, with its segment ...
Seal(d) ==
    /\ stage[d] = "closing" /\ Commits(d)
    /\ hands' = [hands EXCEPT ![d].ops = staged[round[d].slot] \cup Owes(d)]
    /\ staged' = [staged EXCEPT ![round[d].slot] = {}]
    /\ stage' = [stage EXCEPT ![d] = "sealing"]
    /\ UNCHANGED <<mount, stream, round, verdict, segment, committed, ops,
                   outstanding, settled, flushes, failure, server, faults>>

\* ... or, the segment dropped or never made, puts them with the window's.
OweSettle(d) ==
    /\ stage[d] = "closing" /\ verdict[d] # "none"
    /\ hands[d].last /\ ~Commits(d)
    /\ ops' = ops \cup staged[round[d].slot] \cup Owes(d)
    /\ staged' = [staged EXCEPT ![round[d].slot] = {}]
    /\ stage' = [stage EXCEPT ![d] = "counting"]
    /\ UNCHANGED <<mount, stream, round, verdict, segment, hands, committed,
                   outstanding, settled, flushes, failure, server, faults>>

\* What a flush has to send next: its segments, the writes of its retries if
\* it has any, its acknowledgements.
NextPart(segs, acks) ==
    IF segs # {} THEN "segments"
    ELSE IF \E d \in acks : verdict[d] = "retry" THEN "writes" ELSE "acks"

\* take: what the window owes leaves it as a flush, if `due`, else it stays.
TakeIf(due, segs, acks) ==
    IF due
    THEN /\ committed' = {} /\ ops' = {}
         /\ flushes' = IF segs = {} /\ acks = {} THEN flushes
                       ELSE flushes \cup {[segs |-> segs, ops |-> acks,
                                           erred |-> FALSE,
                                           at |-> NextPart(segs, acks)]}
    ELSE committed' = segs /\ ops' = acks /\ UNCHANGED flushes

\* The third step of a settle: it is counted, and the window is sent once it
\* is full or nothing is outstanding.
Due(n) == n = 0 \/ settled + 1 >= mount.capacity
Counted(d, segs, acks) ==
    LET n == Less(outstanding, 1) IN
    /\ outstanding' = n
    /\ settled' = IF Due(n) THEN 0 ELSE settled + 1
    /\ TakeIf(Due(n), segs, acks)
    /\ stage' = [stage EXCEPT ![d] = "settled"]
    /\ hands' = [hands EXCEPT ![d] = Nothing]
    /\ UNCHANGED <<mount, stream, round, verdict, segment, staged, failure,
                   queued, ran, refused, copied, acked>>

Count(d) ==
    /\ stage[d] = "counting"
    /\ Counted(d, committed, ops)
    /\ UNCHANGED <<failed, faults>>

\* An atomic segment has the settles before its EXEC, a plain one beside it.
Commit(d) ==
    /\ stage[d] = "sealing"
    /\ IF mount.atomic
       THEN Counted(d, committed \cup {[cmds |-> hands[d].cmds,
                                        ops |-> hands[d].ops]}, ops)
       ELSE Counted(d, committed \cup {[cmds |-> hands[d].cmds, ops |-> {}]},
                    ops \cup hands[d].ops)
    /\ UNCHANGED <<failed, faults>>

\* close_atomic fails: the segment and the settles queued into it are dropped.
CommitFails(d) ==
    /\ stage[d] = "sealing" /\ mount.atomic
    /\ faults < MaxFaults
    /\ Counted(d, committed, ops)
    /\ failed' = failed \cup hands[d].ops
    /\ faults' = faults + 1

\* abandon, after its close: the staged settles of the batch are owed now, and
\* a flush leaves only if there is something to send.
Abandon(d) ==
    /\ stage[d] = "closing" /\ verdict[d] = "none"
    /\ LET left == IF hands[d].last THEN staged[round[d].slot] ELSE {}
           acks == ops \cup left
           n    == Less(outstanding, 1)
           due  == n = 0 /\ (committed # {} \/ acks # {})
       IN  /\ staged' = IF hands[d].last
                        THEN [staged EXCEPT ![round[d].slot] = {}] ELSE staged
           /\ outstanding' = n
           /\ settled' = IF due THEN 0 ELSE settled
           /\ TakeIf(due, committed, acks)
    /\ stage' = [stage EXCEPT ![d] = "settled"]
    /\ hands' = [hands EXCEPT ![d] = Nothing]
    /\ UNCHANGED <<mount, stream, round, verdict, segment, failure, server,
                   faults>>

\* drain: the flush of a dropped subscription, on the broker's runtime.
Drain ==
    /\ ~running /\ ~drained
    /\ drained' = TRUE
    /\ settled' = 0
    /\ TakeIf(TRUE, committed, ops)
    /\ UNCHANGED <<mount, read, buffer, running, stage, round, verdict, segment,
                   hands, staged, outstanding, failure, server, faults>>

-----------------------------------------------------------------------------
(* Sending a flush.                                                        *)

\* A fault may leave the commands of `bad` unsent or refused.
Fault(bad) ==
    \/ bad = {} /\ UNCHANGED faults
    \/ bad # {} /\ faults < MaxFaults /\ faults' = faults + 1

CmdsOf(segs) == UNION {g.cmds : g \in segs}
OpsOf(segs)  == UNION {g.ops : g \in segs}

\* The flush f goes on at its next part.
Advance(f, left, at, bad) ==
    /\ flushes' = (flushes \ {f}) \cup
          {[segs |-> {}, ops |-> left, erred |-> f.erred \/ bad # {}, at |-> at]}
    /\ UNCHANGED failure

\* The segments go first; EXEC of an atomic one acks in the same step.
SendSegments(f, bad) ==
    /\ f.at = "segments"
    /\ bad \subseteq f.segs
    /\ ran' = ran \cup CmdsOf(f.segs \ bad)
    /\ refused' = refused \cup CmdsOf(bad)
    /\ acked' = acked \cup OpsOf(f.segs \ bad)
    /\ failed' = failed \cup OpsOf(bad)
    /\ Advance(f, f.ops, NextPart({}, f.ops), bad)
    /\ Fault(bad)
    /\ UNCHANGED <<mount, stream, stage, round, verdict, segment, hands, staged,
                   committed, ops, outstanding, settled, queued, copied>>

\* Writes: the copies and schedules of the retries ...
Retried(f) == {d \in f.ops : verdict[d] = "retry"}

\* ... and what may be acked once they are answered.
Released(f, bad) == f.ops \ bad

SendWrites(f, bad) ==
    /\ f.at = "writes"
    /\ bad \subseteq Retried(f)
    /\ copied' = copied \cup (Retried(f) \ bad)
    /\ failed' = failed \cup bad
    /\ Advance(f, Released(f, bad), "acks", bad)
    /\ Fault(bad)
    /\ UNCHANGED <<mount, stream, stage, round, verdict, segment, hands, staged,
                   committed, ops, outstanding, settled, queued, ran, refused,
                   acked>>

\* One XACK for all of them, and the failure of the flush, if it is the first.
SendAcks(f, bad) ==
    /\ f.at = "acks"
    /\ bad \in {{}, f.ops}
    /\ acked' = acked \cup (f.ops \ bad)
    /\ failed' = failed \cup bad
    /\ flushes' = flushes \ {f}
    /\ failure' = (failure \/ f.erred \/ bad # {})
    /\ Fault(bad)
    /\ UNCHANGED <<mount, stream, stage, round, verdict, segment, hands, staged,
                   committed, ops, outstanding, settled, queued, ran, refused,
                   copied>>

-----------------------------------------------------------------------------
Settle(d) == StageSettle(d) \/ Seal(d) \/ OweSettle(d) \/ Count(d)
                \/ Commit(d) \/ Abandon(d)

Send(f) ==
    \/ \E bad \in SUBSET f.segs : SendSegments(f, bad)
    \/ \E bad \in SUBSET f.ops : SendWrites(f, bad) \/ SendAcks(f, bad)

Next ==
    \/ \E n \in 1..MaxRead : Fetch(n)
    \/ Yield \/ Discard \/ Report \/ Stop \/ Drain
    \/ \E d \in Ids :
          \/ Queue(round[d])
          \/ \E v \in Verdicts : Close(d, v)
          \/ Settle(d) \/ CommitFails(d)
    \/ \E f \in flushes : Send(f)

Spec == Init /\ [][Next]_vars

\* The runtime polls the stream, handlers finish and the tasks of settles and
\* flushes go on.  Nothing is fair about the reads: the stream may stay quiet.
FairSpec ==
    /\ Spec
    /\ WF_vars(Yield) /\ WF_vars(Report) /\ WF_vars(Drain)
    /\ \A d \in Ids : WF_vars(\E v \in Verdicts : Close(d, v))
                      /\ WF_vars(Settle(d))
    /\ WF_vars(\E f \in flushes : Send(f))

-----------------------------------------------------------------------------
(* Properties.                                                             *)

TypeOK ==
    /\ mount \in Mounts
    /\ read \in 0..MaxRead /\ buffer \in Seq(1..read)
    /\ running \in BOOLEAN /\ drained \in BOOLEAN
    /\ stage \in [Ids -> Stage]
    /\ round \in [Ids -> Round]
    /\ verdict \in [Ids -> Verdict]
    /\ slots \in Seq(Slot) /\ Len(slots) <= mount.workers
    /\ free \in Seq(1..Len(slots))
    /\ hands \in [Ids -> Hand]
    /\ staged \in [Ids -> SUBSET Ids]
    /\ committed \subseteq Sealed /\ ops \subseteq Ids
    /\ outstanding \in 0..read /\ settled \in 0 .. mount.capacity - 1
    /\ flushes \subseteq Flush
    /\ failure \in BOOLEAN
    /\ {queued, ran, refused} \subseteq SUBSET Round
    /\ {copied, acked, failed} \subseteq SUBSET Ids
    /\ faults \in 0..MaxFaults

\* Segments (window.rs:102-136): a slot belongs to the deliveries that were
\* opened on it together until the last of them settles; it waits to be reused
\* once, and only after that.
Holders(s) == {d \in Ids : stage[d] = "held" /\ round[d].slot = s}
SlotsAreOwn ==
    /\ \A s \in DOMAIN slots :
          /\ slots[s].members = Cardinality(Holders(s))
          /\ slots[s].members = 0 <=> s \in Elems(free)
          /\ \A d \in Holders(s) : Reaches(round[d])
    /\ \A j, k \in DOMAIN free : j # k => free[j] # free[k]

\* docs/components/pipelining: "So a handler's Redis side effects never land
\* for a delivery that comes back", and "only if every entry is acknowledged".
OnlyAckedRuns ==
    \A r \in ran \cup refused : \A d \in Members(r) : verdict[d] = "ack"

\* window.rs:741-744: "every command a handler queued before its `ack` runs
\* before that `ack`", across the flushes, whatever overlaps.
CommandsBeforeAck ==
    \A d \in acked :
        (round[d] \in queued /\ \A e \in Members(round[d]) : verdict[e] = "ack")
            => round[d] \in ran \cup refused

\* forms.rs:195-198: "An entry that retries is acknowledged only once the copy
\* or the schedule carrying it forward has succeeded".
RetryAckedOnceCopied ==
    \A d \in acked : verdict[d] = "retry" => d \in copied

\* From its second step on, the settle of a delivery is in one place: staged in
\* its batch, in the hands of the last member, owed, in a flush, or over.
Places(d) ==
    Cardinality({s \in Ids : d \in staged[s]})
    + Cardinality({e \in Ids : d \in hands[e].ops})
    + Cardinality({g \in committed : d \in g.ops})
    + Cardinality({d} \cap ops)
    + Cardinality({f \in flushes : d \in f.ops \cup OpsOf(f.segs)})
    + Cardinality({d} \cap acked) + Cardinality({d} \cap failed)
EachSettleOnce ==
    \A d \in Ids :
        Places(d) =
            IF stage[d] \in {"sealing", "counting", "settled"} THEN
                Cardinality(Owes(d))
            ELSE 0

\* docs/components/pipelining/flush.md: "A window flushes when the read's
\* `COUNT` has settled, when nothing is outstanding": nothing waits in a window
\* that no delivery will settle into.
Quiet == outstanding = 0 /\ \A d \in Ids : stage[d] \notin Settling
OwesNothing == committed = {} /\ ops = {} /\ \A s \in Ids : staged[s] = {}
QuietWindowOwesNothing == Quiet => OwesNothing

\* That holds as long as what is outstanding goes away by being settled or
\* dropped, and not by being discarded or lost with the subscription's buffer.
SettledWindowOwesNothing ==
    (Quiet /\ \A d \in Ids : stage[d] # "gone") => OwesNothing

\* Every settle is sent in the end, on a stream that stays quiet too: without
\* that exception, and with it.
Sent(d) == d \in acked \cup failed
AnySettleIsSent ==
    \A d \in Ids : (stage[d] = "settled" /\ Owes(d) # {}) ~> Sent(d)
EverySettleIsSent ==
    \A d \in Ids :
        (stage[d] = "settled" /\ Owes(d) # {})
            ~> (Sent(d) \/ \E e \in Ids : stage[e] = "gone")
=============================================================================
