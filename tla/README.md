# Verification of ruststream-fred

`ruststream-fred` (`src/crates/ruststream-fred`) is a Redis broker for the
RustStream runtime, built on the `fred` client. It reads Redis Streams through
consumer groups, lists, and Pub/Sub channels; it settles deliveries, retries
them at once or after a delay, moves a group's position, pipelines reads and
settles, and publishes, alone or in transactions. This directory holds TLA+
models of it, TLC configurations that check them on small instances, and proofs
checked by TLAPS for every value of the constants.

Paths below are relative to `src/crates/ruststream-fred/src` unless they begin
with `docs/` (which is `src/docs/`).

Contents: [the system](#the-system) - [the modules](#the-modules) -
[the runs](#the-runs) - [fairness](#fairness) - [the proofs](#the-proofs) -
[what the models found](#what-the-models-found) -
[what is not modelled](#what-is-not-modelled) - [the plan](#the-plan)

## The system

A service opens a broker (`broker.rs`), which owns connections to a Redis server
(or to an in-process stand-in, `in_process/`). A *subscription* is an endless
task: it fetches deliveries, hands each to a handler of the service, and the
handler *settles* it (`ack`, `nack`, `nack_after`) through the delivery itself.
Several services, each with several subscriptions, share the same keys on the
server. They never talk to each other: everything they know of one another is
what a command returns. Between two commands anything can happen to the keys.

| Component | State it keeps | Operations | Correct when |
| --- | --- | --- | --- |
| **Stream subscription and group** `subscriber.rs`, `message.rs` | local buffer, the seek generation it was filled under, reclaim cursor; on the server: log, group cursor, pending entries list (PEL) | `fetch` in three modes (fresh tail, `CLAIM` on the tail read, `XAUTOCLAIM`), `stream`, `batches`, `recreate_group`, `ack`/`nack` | no published message is forgotten by a crash, a lost answer, a late verdict or a lost group; the attempts a handler is told are the server's; one entry of the tail goes to one reader |
| **Seek and positions** `seek.rs` | generation counter shared with the subscription | `seek` (SETID, then bump), `as_xid` | nothing selected at the old position is delivered after the seek; a replay is complete |
| **Delayed retry** `delay.rs`, `message.rs:252` | a sorted set per stream: copies by due time | `schedule`, `sweep_due` | a retry is appended once, not before it is due, and not lost |
| **Reliable list and watchdog** `list.rs`, `recovery.rs` | the queue, a processing list per subscription name, a sorted set of claims with their times | `next_entry`, `claim`, `track`, `ack`/`nack`, `record_claim`, `forget`, `sweep_orphans` | entries are conserved although they are only known by their bytes; what a dead consumer held comes back |
| **Pipelined reads and settles** `pipeline/` | per subscription: slots with generations, the commands handlers queued, the settles of the round, a flush under way | `fetched`, `yielded`, `settle`, `abandon`, `drain`, `send` | no settle is kept back for ever; a handler's commands go out with its own delivery, before its ack and only with it; a retry's original is acked only when the copy was written |
| **Publishers, transactions, rounds** `publisher.rs`, `pipeline/rounds.rs` | the buffer of an open transaction, shared by the clones of a handle; the registry that says which delivery a task has in hand | `publish`, `begin`, `commit`, `abort`, `transaction`, `bind` | all of a transaction or nothing of it; a publish that returned Ok is not lost; a round carries what its own handler published |
| **Pub/Sub** `pubsub.rs` | the receiver's bounded buffer and lag, a task that subscribes again, a window that settles nothing | `open_pubsub`, `stream`, `batches`, the reconnect | order kept, a message yielded at most once, every loss reported; an open subscription is not deaf; what handlers queued is sent |
| **Broker, routes, connections** `broker.rs`, `route.rs`, `connection.rs` | the routes openings recorded, with their holders; the closed flag; read connections and the closes under way | `subscribe`, `open_list`, `open_pubsub`, `read_connection`, its drop, `shutdown` | a name is written the way it is read; a failed opening leaves nothing; no read outlives the shutdown, and the shutdown ends |
| **In-process server** `in_process/`, `loopback.rs` | a keyspace; who is registered, what is owed, due and held; a count of what is in flight | the commands the crate sends, `readable`, `attach`, `detach`, timers | answers what Redis answers; the harness counts a delivery from the moment it is certain until it is dropped, once |
| **Envelopes, context, addresses, documents** | none that outlives a call | conversions | round trips |

How they interact. A subscription calls the delay queue's sweep before each read
and the watchdog's sweep before each pop. A seeker shares one atomic counter
with its subscription and the group cursor with every subscription of the group.
A delivery carries what it needs to settle itself and outlives the read that
made it; under pipelining its settle goes into the window its round belongs to,
and a later settle of another delivery, the end of the stream or a drop flushes
it. A publish has no delivery in hand: it finds its round by the task it runs in,
and the framing of a name by the route the subscriptions of it recorded. The
broker's closed flag is looked at by every command of its process, and its
shutdown waits for the connections that drops are closing.

What is hard about it:

* **the server's state moves between two commands**: `SETID` and the bump of
  the generation are two steps, and so are `ZREM` and `XADD` of a sweep,
  `LREM` and `LPUSH` of a recovery, the copy and the ack of a retry;
* **answers that never arrive**: a read's effect stays (the entries are pending
  for this consumer, counted once more) although nobody has them in memory;
* **late verdicts**: an idle delivery is claimed by somebody else while its
  first handler still works, and both settle it;
* **names that are not identities**: list entries are found again by their
  bytes, slots of the window by an index that is reused;
* **tasks without a handle on each other**: clones of one publisher, openings
  beside openings, a drop beside a shutdown, a reconnect beside an opening, and
  the harness, which has to know that nothing is under way anywhere;
* **limits**: `COUNT`, `SWEEP_BATCH`, the row limit of `XPENDING`, the capacity
  of a window, of a channel's buffer.

`PROJECT.json` lists these hazards at the lines where they bite, with the
properties that would notice one going wrong.

## The modules

| Module | Models | Lines it stands for |
| --- | --- | --- |
| `AtLeastOnce` | the promise of a group in five sets of messages: sent, owed, held, done, waived | an abstraction, of no code in particular |
| `StreamGroup` | a stream, its group, the subscriptions, handlers and seekers | `subscriber.rs`, `message.rs`, `seek.rs`, the group commands of `in_process/streams.rs`, group creation and shutdown of `broker.rs`/`connection.rs` |
| `DelayQueue` | the sorted set of delayed retries, handlers that fill it and subscriptions that sweep it | `delay.rs`, `message.rs:252`, sorted sets of `in_process/keyspace.rs` |
| `ReliableList` | the queue, the processing list, the watchdog's set, readers with and without a window, sweeps, verdicts | `list.rs`, `recovery.rs`, the list form of `pipeline/forms.rs`, `in_process/lists.rs` |
| `Window` | the window of one pipelined stream subscription: slots, staged settles, settles in their locked steps, flushes | `pipeline/window.rs`, `pipeline/message.rs`, the stream form of `pipeline/forms.rs`, the round streams of `subscriber.rs` |
| `Publisher` | what a publish turns into, the transactions of a handle and of values, the registry of rounds | `publisher.rs`, `pipeline/rounds.rs` |
| `Broker` | openings that run at once, their routes, read connections and their close, the shutdown | `route.rs`, `connection.rs`, the openings and the shutdown of `broker.rs` |
| `PubSub` | one channel subscription: its connection, its bounded buffer, its batches, its window | `pubsub.rs`, `open_pubsub` of `broker.rs`, the window's counting |
| `InProcess` | what the in-process server keeps beside the keys, for a stream with its group and its delay queue | `in_process/mod.rs`, `in_process/streams.rs`, `loopback.rs` |
| `MC...` | constants for TLC | |
| `StreamGroupProofs`, `DelayQueueProofs`, `ReliableListProofs`, `WindowProofs`, `BrokerProofs`, `PubSubProofs`, `PublisherProofs`, `InProcessProofs` | theorems about the module each is named after | |

**Steps.** One Redis command is one step, because the server runs one at a time;
what a client does between two awaits belongs to the step before or after it. A
blocking read is three steps: the command leaves, the server answers it, the
client looks at the answer. So each window in which a crash, a seek, another
subscription or a lost answer can fall is a state of the model.

**`StreamGroup`.** An entry's id is its index in `log`; `base` is how much of the
log went with a server that kept no data. `pel` maps a pending id to its owner,
its delivery count and whether it has been idle for `min_idle`. A subscription's
`pc` says where in `fetch` it is (`sweep`, `asked`, `listing` for the XPENDING
of a reclaim, `answered`, `nogroup`). `buffer`/`bufGen` are the local buffer and
`buffer_generation`; `selAt` is the generation loaded before the read left. A
delivery is `held` or, in the middle of a republishing `nack`, `copied`. `told`
is the delivery count an entry carries for its handler: no value (`{}`), or one.
`count` and `epoch` of an entry are history: the server's count at the time, and
how many seeks the server had run.

**`DelayQueue`.** `zset` maps the id of the entry retried to the time its copy is
due: the member's bytes are the entry's id and payload, so equal entries are the
same member and a second ZADD moves it, as in `delay.rs:252-289`. `added`
and `lost` count, per entry, how often it became a member and how often such a
member vanished without its copy: the ledger of `EachQueuedOnce`. The group that
hands the entries out is abstracted to "an entry nobody acked may be delivered".
`Refuses` are the jobs an envelope cannot carry (`ScheduleRefused`, `Skip`):
deployments of one service may differ in it.

**`ReliableList`.** `processing` and all ledgers count occurrences of a *value*,
because LREM finds bytes, not claims. A claim has a number of the model's own, and
the member of the sorted set its process made for it (`members`): the process, how
often it was started, its `counter`, and the value. `claim_member`
(`recovery.rs:81-89`) writes the process *id* and a counter that a restart begins
again, so `load.ids` says whether the processes have ids of their own, a
restarted one too. Where they share one (a container's first process is 1), equal
entries may have one member: a ZADD then refreshes it, and one ZREM forgets all
claims it stood for (`Same`, `Forgotten`). `mine` is what a read has in its
hands and is in no list (`push`) or on no record (`track`). `pushed`, `retried`,
`settled`, `taken`, `dropped`, `stranded` are the ledgers of `Conserved`. A
subscription is direct or pipelined, by the load. A pipelined one waits for the
first entry and then pops up to `count` more in one pipeline (`Pop`, `Move`,
`MoveFails`, `MovesEnd`): others may push and pop between two of its commands. It
records its claims one after the other (`TrackNext`), buffers and yields them,
and its window settles them later (`Decide`, then the steps of a settle). The
answer of either reader's blocking pop may be lost (`ReadFails`).

**`Window`.** One subscription of one process, so the steps are not commands but
the critical sections of its two locks. A settle is `Close` (lock of the slots),
then `StageSettle`, `Seal` or `OweSettle` (lock of what is owed), then `Count` or
`Commit` (the same lock again, after the await of `close_atomic`); a delivery
that is dropped is `Close` and `Abandon`. `stage` says which of them comes next
and `hands` what the settling task carries over. A flush is taken under the lock
and sent without it, in at most three parts (segments, writes of the retries,
XACK), so several overlap, and any part may fail for any subset of its commands.
`round` gives a delivery its slot and the slot's generation; a segment is the
set of rounds that queued into it, so a command in the wrong segment shows.
`mount` is fixed by `Init`: batch size, `COUNT`, workers, `.atomic()`.
`queued`, `ran`, `refused`, `copied`, `acked`, `failed` are history. The window
meets `StreamGroup` in one place: its XACKs and copies are the settles there.
Two things of the stream's loop are left out: an entry whose id does not parse ends
the read of its batch (`subscriber.rs:171-180`), and the window is not shut down;
what a refused settle leaves in the registry is in `Publisher`.

**`Publisher`.** A publish is a number; `path` says what it turned into, `answer`
what it returned, `during` which deliveries its task had in hand: history, for the
properties. `handle` is the transaction every clone of the handle shares, `owned`
the `RedisTransaction` value a task has. A task awaits one answer at a time
(`doing`), and the server may run a command whose answer is lost. `entries` is the
registry in its order, because a publish joins the *first* round that matches.
The window is one step per command here (`Carry`), since `Window` has its inside.
A command may fail wherever the server runs it. Inside EXEC it undoes none of the
others, so what runs of a block is any of its `Parts`, and `flush_block` answers Ok
only when it is all of it (`Succeeded`). In a window it is recorded for the reader
and not sent again, and a block that cannot be closed is dropped although its
delivery is acknowledged: `lost` has both. After the shutdown a settle is refused
before the round leaves the registry (`SettleRefused`): the delivery is `stuck`, and
its round open to what its task publishes next.

**`Broker`.** `table` maps a name to its route and the number of its holders,
`foreign` is the flag that lets `route` skip the table. `stage` is how far an
opening is; a list keeps its routes before its connection is there. `read` is what
the server sees of a read connection, `close` the task a drop spawns: CLIENT
UNBLOCK on a side connection, then QUIT, which waits behind the read. `awaits`
are the closes the shutdown took.

**`PubSub`.** A message is its number. `wire` is what is under way to the client,
`buffer` the bounded broadcast buffer and `lag` what it lost since the receiver
last looked. `hand` is the batch being taken, `round` and `verdict` what became of
each message. `outstanding`, `settled` and `waiting` are the window's counts. A
channel's settle has no command of its own: what is sent are the commands its
handlers queued, named by their round. A block that cannot be closed is lost with
its round counted all the same. A settle is one step here, handlers keep no
pipeline, and none settles after a shutdown: those are in `Window` and `Publisher`,
whose window is the same code.

**`InProcess`.** The four places a count can be in are four variables: `owed` (an
entry some reader is certain to get), `linkHeld` (a delayed copy that is due),
`readds` (a copy a sweep took off and has not added back) and the deliveries of
`buffer` and `hands`; `count` is what the harness sees. A command is one step
under the server's lock and changes them together. `timers` fire with the test's
clock. `Loads` says which features a behaviour has: modes of the subscriptions, a
delay queue, deletes, seeks, and when a subscription may be dropped.

**Abstractions.** Payloads, headers and names are model values. Time is a flag
(an entry is idle or not) except in `DelayQueue` and `InProcess`. Cluster
redirection, reconnection (except a channel's) and TLS belong to `fred` and are
outside. Equal handles of one delivery cannot exist: a settle takes the delivery
by value.

Operators under "Faulty variants" in the modules are used by no action. Each is
a bug the code could plausibly have, written next to the definition it would
replace; `PROJECT.json` pairs every property of every passing run with one that
breaks it, so no property holds for want of anything to notice.

## The runs

Passing runs, explored in full:

| Run | Instance | States | Shows |
| --- | --- | --- | --- |
| `group_recovery` | a tail reader and one that reclaims, 2 messages, log of 2, 1 fault | 67 k | every entry is accounted for and the group implements `AtLeastOnce` over every crash, shutdown, lost answer, late verdict and idle entry; no reader is told a count the server does not have; every message is settled in the end |
| `group_seeks` | a tail reader with `COUNT` 2 and a claiming one, log of 2, a seek of each kind, 1 fault, 1 loss of the server's data | 3.5 M | nothing selected before a seek is yielded after it; the tail is handed out once; a claiming delivery is told the server's count of it; only what a seek passed over or the server lost is given up |
| `delay_sweepers` | two sweepers, one of which may stop and one whose envelope refuses a job, 2 jobs, log of 4, batch of 2, a fault or the expiry of the set | 129 k | a queued retry is appended once; an acked entry was queued; a due retry leaves the set |
| `list` | seven loads: a late verdict, a retry that makes equal bytes, with another reader or with a second entry, a crash beside another reader, a pipeline of two pops among three pushes, a window's retry, a direct and a pipelined reader of one list; a fault or the expiry of the recovery set; restarts begin the counter of the salts again | 467 k | entries are conserved and at-least-once; a claim is on record unless its reader died before recording it; every entry is handled in the end |
| `window` | single deliveries on two workers (2 reads) and batches of two one after the other (3 reads), plain and atomic; acks, retries, deliveries left pending or dropped; a seek, the end of the subscription, 1 failed command | 452 k | a handler's commands run only if its whole round acked, and before its ack; a retry is acked once it is copied; each settle is in one place until it is sent, and it is sent; where nothing was discarded, a window with nothing outstanding owes nothing |
| `publisher` | two tasks; 3 publishes in 2 transactions, or 2 publishes in 2 deliveries beside a transaction; a shutdown with deliveries in hand, commands that fail alone, inside EXEC or in a window, blocks that cannot be closed, lost answers | 457 k | a commit that returned Ok has its transaction in the log whole and in one piece, and one that failed at most its commands that did not; a publish that returned Ok is not lost but by a failed command or block; a round carries its own handler's publishes, once, in order, and only when acknowledged; of one the shutdown kept open nothing leaves |
| `broker` | three subscriptions that share, contest or dead-letter two names, in four mixes; openings that fail; a drop beside the shutdown | 16 k | what is written to a name is what its readers read; a failed opening leaves nothing; the shutdown ends the reads of dropped subscriptions, and returns |
| `pubsub` | SUBSCRIBE and SSUBSCRIBE, single messages and batches of two, buffers of 1 and 2, 3 messages, a broken connection, a refused request, a drop | 160 k | order, no duplicate, every loss reported, a subscription that is subscribed or about to be, and the rounds of a subscription that goes on reading are sent |
| `in_process` | two tail readers with deletes and a seek; one with a delay queue; two racing sweeps; a tail reader beside a claiming or a reclaiming one | 70 k | what is owed is there to be read; the harness sees nothing in flight only when nothing is; a read that was woken finds something; the count comes down in the end |

Runs expected to fail, each against one sentence of a comment of the crate:
`window_kept`, `broker_list_fails`, `list_answers` (see
[below](#what-the-models-found)).

**Bounds.** `MaxLog`, `MaxPushes`, `MaxRetries`, `MaxEntries`, `MaxMessages`:
entries ever appended. `MaxClaims`: how often an entry that is in flight becomes
idle; an entry nobody holds in memory always may. `MaxSeeks`, `MaxLosses`,
`MaxFaults`, `MaxBreaks`, `MaxRefusals`: seeks, server restarts, and crashes,
shutdowns, failed commands or lost answers together. `MaxTime`, `MaxHeld`: a
clock, and deliveries held at once. They are small and still enough: two
subscriptions suffice for every race named under the hazards, since the server
orders commands and each race is between one command of each; a second message or
copy is what makes order and counts matter; one fault at every possible step
covers each "ended between these two commands". `COUNT` 2 lets a buffer be half
yielded when a seek arrives. `SWEEP_BATCH` is 2 with one refused member; the
configuration with 1 is a counterexample described below. What is not reached are
effects of three entries of one list value, of two faults in one run, or of three
subscriptions of one key; `StreamGroupProofs` covers those for the group.

Liveness and seeks are checked on different pairs of modes (a reclaiming and a
claiming second reader): the three modes share the group, and a run of all three
with seeks and faults is out of reach.

Several instances share a run where a module takes a `Loads` constant
(`ReliableList`, `Publisher`, `InProcess`) or a mount (`Window`, `Broker`,
`PubSub`): `Init` picks one and it never changes. So one run covers features whose
product would be too large, and each load carries its own bounds. In `Window` two
workers on single deliveries need fewer entries than a batch that must be followed
by another on its slot: two single deliveries are enough for a slot to be reopened
while the settle before it is between its locks, and for two flushes to overlap;
the third entry of a batch mount makes a short batch behind a full one. `OneTask`
says that the members of a batch are settled one after the other, as the runtime
settles a batch mount.

`InProcess` takes its loads one feature at a time for another reason: together the
features break the count, which the further configurations below show.

Symmetry is used over tasks and deliveries in `publisher`, which has no liveness
property.

Where the state may really stop (every message settled, all bounds used up) a run
does not look for deadlock. `StreamGroup` and `ReliableList` always have a step (a
read may find nothing) and are checked for it.

## Fairness

`group_recovery` (`StreamGroup!FairSpec`) assumes weak fairness of: subscribing,
restarting a process that was shut down, the steps of a read, yielding, each
entry becoming idle, and a subscription's handler settling the entry it holds.
The read loop is a task the runtime polls as long as the subscription is
mounted; a handler that never returns is a defect of the service, not of this
crate; a process manager restarts what crashed. Nothing is fair about seeks,
publishes or faults. A step that keeps being *refused* is not assumed away: a
retry takes a copy, and the bound on the log ends the retries, so that the
verdict of the last copy is an `Ack`.

`delay_sweepers` needs only the clock and the sweeps of the subscriptions in
`Stays`: handlers and other services may do nothing. `list` assumes reads,
the end of a handler, aging of records and the replacement of a closed process;
it assumes nothing about pushes, retries or faults.

`window` assumes that the stream is polled, that each handler settles or drops
its delivery, and that the tasks of settles and flushes go on. It assumes nothing
about reads: that is the point of `EverySettleIsSent`, which must hold on a
stream where nothing more arrives.

`broker` assumes that the server answers what it is sent, that a read ends at its
block timeout, that the closes run (they are spawned on the broker's runtime) and
that the shutdown is polled. It assumes no subscription is ever dropped, and that
is why `ShutdownReturns` is worth checking: the shutdown must not wait for a
reader that lives on.

`pubsub` assumes that the client reconnects and delivers what it has, that the
task of `Resubscribing` runs, that the runtime polls a subscription which has a
free worker, and that handlers return. It assumes nothing about publishes: the
commands of the last round must leave although no message follows.

`in_process` assumes that subscriptions are polled, that handlers return and that
a seek which was begun ends. The clock is the test's and is not fair; timers fire
with it.

`publisher` has no liveness property: a transaction may stay open for ever.

## The proofs

`StreamGroupProofs` proves, for any set of subscriptions in any modes, any
number of messages, seeks, faults and losses, from `ConstantsAssumption` alone
(the modes are modes, `Count` is positive, the bounds are numbers):

* `TypeCorrect`: `Spec => []TypeOK`. Not inductive as it stands: that a
  copy appended by a retry is a message, or that an answer is a sequence of
  entries, needs every id in the PEL, in a reply, in a buffer and in a handler's
  hands to be an id of the log (`IdsKnown`). `TypeInv == TypeOK /\ IdsKnown` is
  inductive (`TypeStep` and `IdsStep`, one step per action).
* `EntriesAreAccounted`: `Spec => []EntriesAccounted`: each *entry* is live,
  was given up, is of a settled message, or has a later copy. It is inductive
  with one addition, `CopiesExist`: a delivery in the middle of its retry really
  has its copy in the log, so that acking the original leaves the copy behind.
  `Accounted` is anchored by position ("a later copy"), which makes it stable.
* `NothingIsLost`: `Spec => []NothingLost`, at-least-once for *messages*. It
  follows from the former: among the entries of a message take the last one
  (`LastEntry`); nothing later supersedes it.
* `NoStaleIsYielded`: `Spec => NoStaleDelivery`. The inductive invariant
  `SeekInv` relates three things: the generation a read or a buffer was
  selected under, the epoch of its entries, and the epoch of the last seek that
  returned. A read that left under the current generation, and a buffer that
  passes `discard_stale`, hold no entry older than the last completed seek.
* `ToldCountIsTrue`: `Spec => []ToldCountIsTheServers`. `ToldInv` says of each
  entry in a reply, in a buffer or in a handler's hands what it was told. The hard
  place is a reclaim between its XCLAIM and its XPENDING (`pc = "listing"`): an
  entry its reader still owns has the count the reply has (`CountKept`), because
  another consumer's claim, which would raise the count, takes the ownership too,
  and then the enrichment finds no row and tells no count.
* `TailIsYieldedOnce`: `Spec => TailYieldedOnce`. `TailOnce` says that an entry
  read off the tail in the current epoch is in one place, a reply or a buffer of
  one reader, behind the group's cursor, and was not yielded yet. A reclaimed entry
  is told apart by its count, which takes that every row of the PEL counts at
  least one hand-out (`Counted`), and a lost group by `NoGroupAtBase`.
* `GroupImplementsPromise`: `Spec => ImplementsPromise`, that is
  `Spec => Promise!Spec`. Each action is a step of `AtLeastOnce` or a stutter: a
  publish is `Send`, a yield `Hand`, an ack `Settle`, the republish of a retry and
  everything that moves a cursor or loses the server `Move`, the end of a process
  `LetGo`. It rests on `AccountedInv`, of the state after the step as well: where
  the XACK behind a copy takes the last live entry of a message, `NothingLost`
  says that the message was settled or given up before (`Clear`). One more fact is
  needed, that only entries the log has are given up (`SkippedStep`).

`DelayQueueProofs` proves, for any number of entries, sweepers and handlers, any
delays and any refused jobs:

* `TypeCorrect`: `Spec => []TypeOK`. Three facts carry it: a sweeper has an entry
  in its hand exactly while it appends (`HandsInv`), what a handler holds is in the
  log (`HoldsKnown`), and every member of the set and every copy in a hand has room
  left in the bounded log (`RoomInv`).
* `QueuedOnce`: `Spec => []EachQueuedOnce`. The ledger is an equation between
  counts; `CountInv` keeps its terms finite, and each step moves one occurrence
  from one term to another: ZADD of a new member, ZREM (whose answer tells the
  one sweeper that took it), XADD, and the end of a process in between.
* `AckedQueued`: `Spec => []AckedOnlyWhenQueued`. `AckInv` says that what a handler
  has scheduled, and an entry that was acked, was added to the set before, unless its
  job was settled.

`ReliableListProofs` proves, from `ListAssumption`, for any subscriptions, direct
or pipelined, any entries, batch and bounds:

* `TypeCorrect`: `Spec => []TypeOK`. It needs what a read has in its hands at each
  place of its loop (`HandsInv`: exactly one entry while a sweep pushes it back, at
  least one while claims are recorded, none elsewhere but among the pops of a
  pipeline), and that the sets that are counted are finite (`FiniteInv`: a step adds
  one delivery and one sweep at a time, so they are for infinitely many
  subscriptions too).
* `NothingIsLostOrDoubled`: `Spec => []Conserved`. Each step moves one occurrence
  from one term of the equation to another; an LREM that answers 0 moves none.
  `QueuedPushed` and `QueuedPopped` count the queue through a bijection of
  positions, `ReturnBegins` and `ReturnEnds` the hands of the sweeps.
* `HandledAtLeastOnce`: `Spec => []AtLeastOnce`. `Conserved` counts what verdicts
  took off, and a verdict may take off another claim's occurrence; `RetryInv` bounds
  it by the acks, the drops and the retries that are pushed, with those between
  their LPUSH and their LREM counted on the other side: without them a retry's
  LREM would break the bound.
* `WatchdogKnowsEveryClaim`: `Spec => []ClaimsAreWatched` where `OwnIds`: every load
  gives the processes ids of their own. Where they share one the property is false
  (`MCReliableList_same_id.cfg`): one ZREM forgets two claims. With it no two
  recorded claims have one member (`Unique`), because a member names the process, its
  start and a count that was not reached yet (`SaltInv`). A record does not count as
  it stands: the LREM of a sweep or a verdict takes the occurrence, its ZREM the
  record only later, and another LREM may come between. `WatchInv` counts only the
  records nobody is about to remove (`KeptOf`, which leaves out the `Doomed`), so the
  ZREM is free and the LREM pays. It rests on `ClaimInv` (a claim is at one delivery
  or at one place of one buffer, and what it recorded, if anything, has its value)
  and `PlaceInv` (a buffer is empty from the listing to the last pop). Entries in the
  hands of readers are counted as disjoint unions over the subscriptions, and
  `PairsChange` says what such a count does when the set of one subscription changes.

`WindowProofs` proves, from `WindowAssumption`, for any mounts, verdicts and bounds:

* `TypeCorrect`, and `SlotsStayOwn`: `Spec => []SlotsAreOwn`. `StreamInv` says that
  what is read and not yielded is the end of what was read; `SegmentInv` that a
  slot's count is the number of deliveries that hold it, that a slot is free exactly
  when its count is 0 and is in the free list once, and that a round's generation is
  never ahead of its slot's. A slot is new only when no slot is free, and then
  every slot has a round at work (`SlotsAreBusy`): so there are never more slots
  than rounds at once.
* `SettlesOnce`: `Spec => []EachSettleOnce`. The sum of cardinalities becomes a sum
  of truth values (`Tally`), which takes that no settle is staged twice, carried
  twice, in two segments or in two flushes (`SpotInv`). Each step moves a settle from
  one place to another; the take of a flush empties two places at once.
* `OnlyAckedCommandsRun`: `Spec => []OnlyAckedRuns` where `Keeps = FALSE`. `KnowInv`:
  what the last member knows (`clean`) is what all of its round's members were
  decided. `KeptInv`: what is in a slot's segment is of the round that holds the slot,
  and a command on its way is of a round that is acknowledged as a whole. With
  `Keeps = TRUE` the theorem is false: the run `window_kept` is that case.
* `RetriesAreCopied`: `Spec => []RetryAckedOnceCopied` where `OneTask = TRUE`. The
  hard part is a retry that takes the short way, with a segment, where its copy
  would not be written: what the last member finds staged in its slot must be of
  its own round (`StagedRound`), which was acknowledged. That rests on who is at work
  at once (`LoneInv`), on a member before the last having another to wait for
  (`WaitInv`) and on what is staged being waited for (`StagedInv`).
* `CommandsGoFirst`: `Spec => []CommandsBeforeAck` where `Keeps = FALSE` and
  `OneTask = TRUE`. `TakeInv` follows a command from its slot to the last member,
  `OrderInv` says of each acknowledgement that waits, in the window, beside a segment
  or in a flush, that the command of its round was sent or leaves with it or
  before it. Flushes overlap freely: each carries its own order.
* `SettledWindowIsEmpty`: `Spec => []SettledWindowOwesNothing` where `OneTask = TRUE`.
  As long as nothing that was read is discarded or lost, `outstanding` is the number
  of deliveries that were read and did not settle (`CountInv`), so what the window
  owes always has a settle to come that will count it (`OwnInv`); what a batch staged
  has its last member to come (`StagedInv`). Both hypotheses are needed: when two
  tasks settle members of one batch, the last one may take the staged settles before
  the other staged its own; and `MCWindow_quiet_seek.cfg` discards.

`OneTask` is how the runtime settles a batch, member by member. That a batch mount has
one handler at a time (the second conjunct of `WindowAssumption`) was found by the
proof of `RetriesAreCopied`, which failed without it, and TLC confirms it: `close`
gives the slot back (`window.rs:133`) before the last member takes what is staged in
it under the other lock. A second handler's batch on that slot would stage its
settles with those, and a retry could leave with a segment that was acknowledged.
Nothing in `window.rs` rules this out. What does is that `workers(n)` is a step of
single-message handlers only, whose rounds have one member and stage nothing.

`BrokerProofs` proves, for any subscriptions, names and routes:

* `WritesAreRead`: `Spec => []WrittenAsRead`, and `FailedHoldNothing`:
  `Spec => []OnlyOpenedHold` where `ListsFail = FALSE`. The invariant
  (`RouteInv`) says that a name's count is the number of those that hold it,
  counted as the cardinality of a set (`HoldInv`), that all holders of a name agree
  on its route (`AgreeInv`), and that a route in the table which is not a stream's
  has raised `foreign` (`ForeignInv`), so that a look-up may skip the table without it. With lists that fail the second theorem is
  false: the run `broker_list_fails` is that case.
* `ShutdownEnds`: `Spec => []ShutdownEndsReads`. `CloseInv`: a close that is done
  leaves no read, a drop before the shutdown has a close that is tracked or done,
  and the shutdown awaits all it found.
* `TypeCorrect`.

`PubSubProofs` proves, for any sizes of the buffer and of a batch and any number of
messages, breaks and refusals:

* `OrderKept`, `LossTold`, `ReconnectTold`: the three invariants of the run
  `pubsub`. `OrderInv` chains what was yielded, the batch in hand, the
  buffer and the wire into one order; `LossInv` is an equation between what arrived
  and what was yielded, waits or is told lost; `ToldInv` says who will subscribe
  again.

`PublisherProofs` proves, for any tasks, deliveries, messages and transactions:

* `AllOrNone` (`WholeOrNothing`), `NothingLost` (`OkIsKept`), `TypeCorrect`, and, where `Keeps = FALSE`, `NoneStale`
  (`NoStaleRound`, which `MCPublisher_keeps.cfg` refutes otherwise). The invariant
  has five parts. `RegInv`: a round in the registry is of a delivery its task
  handles, which is open unless pipelines are kept, and no round is there twice.
  `TxnInv`: a transaction that is open is the handle's or one task's, and one that
  is flushing one task's, so no step touches the transaction of another. `Places`:
  what is held, queued, sealed or run took that path. `Kept` and `Carried`: what
  was made is where it went. `Whole`: what of a transaction the server ran; a step
  runs a part of the block of a transaction, or a message that took another path.
* `RoundIsOwn` (`OnlyOwnRound`) has a case of its own for a round whose settle the
  shutdown refused: it may take later publishes of its task, and nothing of it was or
  will be sent (`StuckClosed`: a round is only stuck when the broker is closed).
* `OrderOfRounds`: `Spec => []RoundsInOrder`, also where handlers keep their
  pipelines. `AckedOnly` says that what left with a round was queued by it and that
  the round is acknowledged, so an ack seals the round's commands behind none of
  them; `Ordered` speaks of the log and of the window apart, because blocks and
  single messages run in between and only move what is sealed. What the server
  refuses goes from the window to `lost` and is in neither again (`LostApart`).

`InProcessProofs` proves, from `InProcessAssumption`, for any readers, loads, number
of entries and length of a test:

* `TypeCorrect`: `Spec => []TypeOK`. What needs a proof in it is that `count` is never
  negative: the server takes one off wherever it releases something, without a look
  at what is left. `CountInv` says that the count covers all that is counted: the
  owed entries, the holds of due members, the copies a sweep has not added back,
  the entries in buffers and the deliveries in handlers. The last two are counted as
  pairs (a reader and a position, a delivery and which of its copies), because one
  entry may be in several buffers and handlers when a seek replays it. It is `>=`,
  not `=`: an `XADD` that consumes another sweep's hold leaves a count nobody
  releases (`MCInProcess_shared.cfg`).
* `OwedIsTrue`: `Spec => []OwedIsWhatIsThere` where `NoReplay`: no seek goes back to
  the beginning, in any load. The invariant adds that no pending entry is beyond the
  cursor (`OwedInv`); a command keeps the owed entries one by one, only
  a delete, `attach`, `detach` and a seek count afresh (`recount_group`), and the proof compares
  both for each id.
* `WakesFind`: `Spec => []ReadsFindSomething` where `ReadsAlone`: loads with deletes,
  or with a delay queue, have subscriptions that read new entries only, and those
  with a delay queue no seek to the beginning. `LinkInv` says that what is due in the
  queue is a member whose time has come, `ClaimInv` that what is due for a claim is
  pending, idle and there. A member that is scheduled again would stay due for its
  old time; that none is scheduled twice takes `OnceInv`: an entry is in a buffer
  once, in one handler, or in the queue.
* `QuietMeansFinished`: `Spec => []QuietIsFinished` where `NoReplay` and
  `DelaysAlone`: a delay queue has one subscription, and nobody deletes or seeks
  beside it. By `CountInv` a count of 0 leaves nothing in a buffer or in a handler
  and nothing owed; by `OwedInv` then nothing is to be read or claimed; and by
  `HeldInv` each member that is due holds a count, each other one has its timer, and a
  sweep between its `ZREM` and its `XADD` has the count or a new entry to show for it.

The hypotheses are where the code stops keeping the promise, not what the proof
needed to get through: each was dropped in turn, and TLC found a violation
(`MCInProcess_replayed.cfg`, `MCInProcess_deleted.cfg`, `MCInProcess_shared.cfg` are
the ones kept). Every load of the run `in_process` satisfies `NoReplay` and
`ReadsAlone`, and every one but `Racing` `DelaysAlone`: two readers of one delay queue
with two entries are finished when they are quiet, which TLC shows, and with three
they are not.

Two lemmas there stand in for induction, which the provers cannot instantiate: a
non-empty family of subsets of a finite set has a smallest member
(`SmallestExists`, from the well-foundedness of inclusion), and a finite set of
numbers has a largest (`LargestExists`). By them a sorted sequence of a set's
members exists, which `InOrder` chooses.

What is only model-checked: liveness, which is outside what the proof system
supports. Every safety property of a passing run is the subject of a theorem.

## What the models found

Each is a run TLC refutes with a short trace; `PROJECT.json` quotes the lines.

1. `window_kept` - **a kept pipeline handle reaches the next delivery's
   segment.** `close` gives the slot back (`pipeline/window.rs:133`) and only the
   next `open` moves its generation on. A handle used in between creates a
   segment in the free slot; `open` does not clear it, and the next delivery on
   the slot commits it with its own ack. The comment at line 143 rules this out,
   and the unit test tries the handle only after the slot was opened again.
2. `broker_list_fails` - **a list that fails to open leaves its routes behind.**
   `open_list` keeps what it recorded before it opens the read connection
   (`broker.rs:1482-1486`), while a stream and a channel keep theirs last. When the
   connection fails, nothing holds the names and yet a subscription that reads one
   of them another way is refused. `route.rs:119` says it "leaves nothing behind".
3. `list_answers` - **a pipelined claim drops answers behind an error.** `claim`
   returns at the first answer that is an error (`list.rs:791`); entries in the
   answers behind it are on the processing list and in no buffer. The comment at
   `list.rs:788` says that each entry answered has to be delivered. They were not
   recorded either, so no sweep brings them back.

Further configurations kept here state properties the code does not have, each
refuted within seconds. They explain why a property above is worded as it is, or
what a run leaves out. These go against a sentence of the documentation or of a
comment:

* `MCStreamGroup_replay.cfg` (`ReplayIsComplete`): a read is at the server when
  `SETID 0` runs; the server answers it from the *new* position, entry 1
  included; the generation is bumped; the answer is discarded as stale
  (`subscriber.rs:297`). The cursor is behind entry 1, which only comes back if
  some subscription reclaims pending entries.
  (`docs/components/positions/start-at.md`: "the group reads every retained entry
  again".)
* `MCStreamGroup_recreate.cfg` (`RecreateSkipsNothing`; new groups start at the
  end, which is the default, `stream.rs:143-144`): of two services one sees the group
  lost and recreates it from the start; if the other one *subscribes* first, the
  recreation finds its group there and what was published since the loss is skipped,
  where `subscriber.rs:311-315` says that "nothing published in between is skipped".
  Where groups start at the beginning there is nothing to check: every group that is
  created starts at the first entry there is.
* `MCStreamGroup_told.cfg` (`ReclaimCountsThisDelivery`): `pending_meta`
  (`subscriber.rs:499`) asks XPENDING for as many rows as were claimed, from the
  consumer's first pending entry. With an older entry pending for the same
  consumer the claimed one is not among the rows, and its handler is told 0
  (`message.rs:214-217`).
* `MCDelayQueue_crash.cfg` (`NoRetryIsLost`): a crash between ZREM and XADD loses
  the retry (`delay.rs:338-346`), where
  `docs/components/acknowledgement/delayed-retry.md:18` says "a restart or a crash
  loses no retry".
* `MCReliableList_sweep_crash.cfg` (`RecoveryLosesNothing`): a crash between LREM
  and LPUSH of a recovery loses the entry (`recovery.rs:198-210`), where
  `recovery.rs:18` says "Recovery is at-least-once".
* `MCReliableList_same_id.cfg` (`ClaimsAreWatched` where processes share an id): one
  process claims an entry, ends and is started again with its id (in a container it is
  the first one and has id 1), or a second container claims an equal entry. The counter
  begins at 0, the ZADD refreshes the one member, and the ack of one claim removes the
  record of both. The occurrence that is left is on the processing list and no sweep
  finds it; `EventuallyHandled` fails with it. `recovery.rs:79-80` says "The salt keeps
  two byte-identical values from collapsing into a single member", and the test
  `equal_values_get_distinct_members` tries it in one process.
* `MCWindow_quiet_seek.cfg` (`QuietWindowOwesNothing`): a seek discards the last
  outstanding entries without a flush (`pipeline/window.rs:516`), so the settles
  the window owes wait for the next delivery
  (`docs/components/pipelining/flush.md:12`: a window flushes "when nothing is
  outstanding").
* `MCPubSub_quiet_stop.cfg` (`EveryRoundIsSent`): a channel subscription dropped
  with unread messages behind a delivery in hand is drained once; the count of
  what waits stays as it was at the last yield, and the commands of that delivery
  are never sent (the same page).
* `MCPublisher_keeps.cfg` (`NoStaleRound`): a handler that binds its publisher
  with a pipeline it kept past the delivery puts the round back in the registry;
  nothing removes it again, and every later publish of the task is refused as one
  of a settled delivery (`docs/components/pipelining/bind.md:17` lets an unbound
  publish leave at once).
* `MCPublisher_after.cfg` (`RefusedAfterShutdown`): a publish into the buffer of an open
  transaction, or into the round of a delivery in hand, returns Ok after the shutdown,
  where `publisher.rs:545-548` says that every operation after it reports `ShutDown`.
  A round whose settle was refused stays in the registry (`pipeline/window.rs:557`
  returns before the round is left), and the task's later publishes join it, return Ok
  and never leave.
* `MCBroker_overtaken.cfg` (`NoReadIsLeft`): CLIENT UNBLOCK travels on a side
  connection and may reach the server before the read it is for; the read then
  blocks for its whole interval, may take a message, and QUIT waits behind it
  (`connection.rs:98-99`).
* `MCInProcess_dropped.cfg` (`BecomesQuiet` with drops at any time): a
  subscription dropped with entries in its buffer leaves their counts behind
  (`in_process/mod.rs:397`, "Removes a subscription, releasing what was counted
  for it alone").
* `MCStreamGroup_seek_group.cfg` (`SeekHoldsForTheGroup`): the buffers of the
  group's *other* subscriptions outlive a seek.
  (`seek.rs:277`: "a seek never yields a message from the position it
  moved away from".)
* `MCDelayQueue_starved.cfg` (`DueIsAppended` with a batch of one): a full batch
  of members no envelope can carry, at the head of the set, starves the rest.
  (`docs/components/acknowledgement/delayed-retry.md`: each read "appends the entries
  that are due back onto the stream".)
* `MCDelayQueue_early.cfg` (`OnlyDueIsTaken`): a member listed as due and then
  scheduled again for later is still taken by the sweep that listed it.
  (`delay.rs:3-4`: "no sooner than `delay` from now".)
* `MCReliableList_unrecorded.cfg` (`EveryClaimIsRecorded`): a reader that ends
  between BLMOVE and ZADD leaves an entry the watchdog does not know.
  (`docs/components/lists/recovery.md:14`: "the subscription records every claim".)
* `MCReliableList_stale_sweep.cfg` (`OnlyIdleIsReturned`): a sweep that stalls
  between listing a record and LREM returns the occurrence of a fresh claim of
  the same bytes.
  (`docs/components/lists/recovery.md:15`: a sweep pushes back "an entry claimed more
  than `min_idle` ago".)
* `MCInProcess_deleted.cfg` (`ReadsFindSomething`): an entry that was pending and
  is deleted stays due for its claim; a claiming subscription is woken again and
  again and finds nothing (`in_process/mod.rs:481`: "Whether a read of
  `reader` finds something now").
* `MCInProcess_replayed.cfg` (`QuietIsFinished` with a seek to the beginning):
  entries in a handler's hands are owed again, and the ack of the old delivery
  takes the count of the new one.
* `MCInProcess_shared.cfg` (`QuietIsFinished` with three entries): the hold a sweep
  leaves for its XADD is consumed by the next XADD of the stream, whoever sends it
  (`in_process/mod.rs:815`).
  Both go against `docs/components/testing/index.md:30`: "A publish through the harness
  returns once every handler it woke has settled".

And these against nothing that is written down:

* `MCWindow_quiet_stop.cfg` (`AnySettleIsSent`): a dropped subscription is
  drained once, and what it had buffered stays counted in `outstanding`; a
  handler that settles after the drain waits for a count that cannot be reached.
* `MCBroker_forever.cfg` (`ShutdownReturns` with `block(0)`): without a block
  timeout the overtaken CLIENT UNBLOCK leaves a read nothing ends, and the
  shutdown waits for ever.

## What is not modelled

* **Payload formats** (`envelope/`), AsyncAPI documents, context extractors,
  settings: functions of one call. What of an envelope changes control (it may
  refuse a copy) is in `DelayQueue`.
* **`pipeline/commands.rs`**: generated, one forwarding method per Redis command;
  each asks for the segment (`Window!Queue`) and adds its command to it.
* **The simple list** pops and forgets: at most once, no state. A subscription
  without a window on a channel settles nothing. The publishers of lists and
  channels send one command.
* **The claim publisher and `partition.rs`**: a stateless choice of a key.
* **The checks before an opening** (options, the server's version, hash slots):
  they fail before anything was recorded.
* **`fred`**: reconnection, cluster slots, redirection. A command that got no
  answer is a fault in every module.
* **Of the in-process server**: the counts of lists and channels, key types, the
  argument parser and the glob.
* **Of `EntryId`**: parsing and the arithmetic of the id before an entry; an id is
  an index in the models.
* **Benchmarks, examples, templates, scripts, the website**: users of the crate.

## The plan

Done: `StreamGroup` with `AtLeastOnce`, `DelayQueue`, `ReliableList` with both
readers, `Window`, `Publisher`, `Broker`, `PubSub`, `InProcess`.

Left, in order of weight:

1. A settle future that is cancelled while it sends the flush of others; the shutdown
   in `Window` and `PubSub`, of which `Publisher` has what it does to the rounds.
2. Pure functions, against a reference definition over bounded inputs: `EntryId`,
   the glob of `in_process/glob.rs`, the hash of `partition.rs`, the frame of
   `envelope/framing.rs`.
3. The in-process counts of lists and channels.
