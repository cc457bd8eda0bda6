------------------------------ MODULE Publisher ------------------------------
(***************************************************************************)
(* What a publish of the stream publisher or of the default publisher turns *)
(* into (publisher.rs): an XADD on the pool, a place in the buffer of an     *)
(* open transaction, or a command of the round of the delivery the task      *)
(* handles (pipeline/rounds.rs); and what becomes of it: the MULTI / EXEC    *)
(* block of a commit, the window that carries an acknowledged round, or the  *)
(* abort, drop, failure or shutdown that discards it.                        *)
(*                                                                           *)
(* A transaction is the borrowed one of the publisher handle, which every    *)
(* clone of the handle shares, or an owned RedisTransaction value.  Clones   *)
(* are used by the tasks at once; a task waits for the answer of what it     *)
(* sent.  Refusals that change nothing (TransactionBusy, NoTransaction) are  *)
(* not steps.  The window is modelled in Window: here an acknowledged round  *)
(* is carried, one command at a time, in the order of the acknowledgements,  *)
(* and a command the server refuses is counted and not sent again.           *)
(***************************************************************************)
EXTENDS Naturals, Sequences, FiniteSets

CONSTANTS
    Tasks,          \* tasks that publish
    Deliveries,     \* deliveries of pipelined subscriptions they handle
    Supported,      \* transactions_supported: the topology is not a cluster
    Keeps,          \* a handler may keep its pipeline past the delivery
    Atomic,         \* rounds leave as MULTI / EXEC blocks
    Ends,           \* the connection may be shut down
    Loads,          \* the bounds a behaviour may be under
    MaxMessages,    \* bound on the publishes made under any of them
    MaxTransactions \* bound on the transactions begun under any of them

\* How many publishes and transactions are made, and which deliveries handled.
Load == [messages: 0..MaxMessages, transactions: 0..MaxTransactions,
         deliveries: SUBSET Deliveries]

ASSUME PublisherAssumption ==
    /\ {Supported, Keeps, Atomic, Ends} \subseteq BOOLEAN
    /\ MaxMessages \in Nat /\ MaxTransactions \in Nat
    /\ Loads \subseteq Load

VARIABLES
    load,     \* the bounds of this behaviour
    handle,   \* the transaction open on the handle, 0 when there is none
    owned,    \* the RedisTransaction value each task has, 0 for none
    begun,    \* transactions begun so far; they are 1..begun
    fate,     \* what became of each transaction
    held,     \* the buffer of each transaction
    made,     \* publishes made so far; they are 1..made
    path,     \* what each publish turned into
    answer,   \* what each publish returned
    during,   \* the deliveries its task had in hand when it was made
    doing,    \* what each task awaits of the server
    log,      \* the XADDs the server ran, in order
    entries,  \* the round registry
    stage,    \* where each delivery is
    worker,   \* the task that handles it, none before
    segment,  \* the commands its round queued
    sealed,   \* commands of acknowledged rounds, not run yet
    lost,     \* commands of acknowledged rounds that will not run
    closed    \* the connection is shut down

transactions == <<handle, owned, begun, fate, held>>
publishes    == <<made, path, answer, during>>
rounds       == <<entries, stage, worker, segment, sealed, lost>>
vars == <<load, transactions, publishes, doing, log, rounds, closed>>

Messages     == 1..MaxMessages
Transactions == 1..MaxTransactions
Publishers   == {"stream", "default"}

Path    == [via: {"none"}, of: {0}] \cup [via: {"pool"}, of: Tasks]
             \cup [via: {"transaction"}, of: Transactions]
             \cup [via: {"round"}, of: Deliveries]
Awaited == [await: {"nothing"}, of: {0}] \cup [await: {"xadd"}, of: Messages]
             \cup [await: {"exec"}, of: Transactions]
Entry   == [task: Tasks, round: Deliveries, bound: SUBSET Publishers]

Nowhere == [via |-> "none", of |-> 0]
Nothing == [await |-> "nothing", of |-> 0]

Elems(seq) == {seq[k] : k \in DOMAIN seq}
Sent       == log \o sealed
Open(d)    == stage[d] \in {"held", "stuck"} \* its slot has its generation
Idle(t)    == doing[t] = Nothing
Handles(t) == {d \in Deliveries : stage[d] = "held" /\ worker[d] = {t}}

\* The sequences that leave out some members of seq and keep the order.
Rising(n, m) == {at \in [1..n -> 1..m] : \A i, j \in 1..n : i < j => at[i] < at[j]}
Parts(seq)   == UNION {{[i \in 1..n |-> seq[at[i]]] : at \in Rising(n, Len(seq))}
                        : n \in 0..Len(seq)}

-----------------------------------------------------------------------------
(* Faulty variants, each a bug this code could have.                       *)

\* A commit that does not look for the errors among the answers of EXEC.
AnswersUnread(x, block) == TRUE
\* A commit that reads the buffer and leaves the transaction open.
StillOpen(h) == h
\* A settle that leaves the round in the registry.
Unforgotten(d) == entries
\* A publish that looks for its publisher in the rounds of every task.
AnyTask(t, p, reply, k) == reply \/ p \in entries[k].bound

-----------------------------------------------------------------------------
Init ==
    /\ load \in Loads
    /\ handle = 0 /\ begun = 0
    /\ owned = [t \in Tasks |-> 0]
    /\ fate = [x \in Transactions |-> "none"]
    /\ held = [x \in Transactions |-> <<>>]
    /\ made = 0
    /\ path = [m \in Messages |-> Nowhere]
    /\ answer = [m \in Messages |-> "none"]
    /\ during = [m \in Messages |-> {}]
    /\ doing = [t \in Tasks |-> Nothing]
    /\ log = <<>>
    /\ entries = <<>>
    /\ stage = [d \in Deliveries |-> "waiting"]
    /\ worker = [d \in Deliveries |-> {}]
    /\ segment = [d \in Deliveries |-> <<>>]
    /\ sealed = <<>>
    /\ lost = {}
    /\ closed = FALSE

-----------------------------------------------------------------------------
(* The round registry.                                                     *)

HasEntry(d) == \E k \in DOMAIN entries : entries[k].round = d
Place(d)    == CHOOSE k \in DOMAIN entries : entries[k].round = d

\* enter and bind: the task becomes the current one, publishers are added.
Recorded(t, d, bound) ==
    IF HasEntry(d)
    THEN [k \in DOMAIN entries |->
             IF entries[k].round = d
             THEN [entries[k] EXCEPT !.task = t, !.bound = @ \cup bound]
             ELSE entries[k]]
    ELSE Append(entries, [task |-> t, round |-> d, bound |-> bound])

Left(d) ==
    IF HasEntry(d)
    THEN SubSeq(entries, 1, Place(d) - 1)
           \o SubSeq(entries, Place(d) + 1, Len(entries))
    ELSE entries

\* The entries a publish of p from task t may join; it joins the first.
MayJoin(t, p, reply, k) ==
    entries[k].task = t /\ (reply \/ p \in entries[k].bound)
Joins(t, p, reply, k) ==
    MayJoin(t, p, reply, k) /\ \A j \in 1..(k - 1) : ~MayJoin(t, p, reply, j)
JoinsNone(t, p, reply) == \A k \in DOMAIN entries : ~MayJoin(t, p, reply, k)

\* A delivery is decoded in the task that handles it, which enters its round.
\* A task handles a delivery with its reply and its settle before another.
Take(t, d) ==
    /\ Idle(t) /\ Handles(t) = {}
    /\ d \in load.deliveries /\ stage[d] = "waiting"
    /\ stage' = [stage EXCEPT ![d] = "held"]
    /\ worker' = [worker EXCEPT ![d] = {t}]
    /\ entries' = Recorded(t, d, {})
    /\ UNCHANGED <<load, transactions, publishes, doing, log, segment, sealed,
                   lost, closed>>

\* pipeline.bind(out), with the pipeline of the delivery in hand or, when
\* handlers keep theirs, of one this task has settled.
Bind(t, d, p) ==
    /\ Idle(t) /\ worker[d] = {t} /\ (d \in Handles(t) \/ Keeps)
    /\ entries' = Recorded(t, d, {p})
    /\ UNCHANGED <<load, transactions, publishes, doing, log, stage, worker,
                   segment, sealed, lost, closed>>

\* ack: the round leaves the registry and its commands leave with the window,
\* but for a block whose EXEC could not be queued: the ack reports that, and
\* the commands are dropped.
Acknowledge(t, d, kept) ==
    /\ Idle(t) /\ d \in Handles(t) /\ ~closed
    /\ kept \/ Atomic
    /\ stage' = [stage EXCEPT ![d] = "acked"]
    /\ entries' = Left(d)
    /\ IF kept
       THEN sealed' = sealed \o segment[d] /\ UNCHANGED lost
       ELSE lost' = lost \cup Elems(segment[d]) /\ UNCHANGED sealed
    /\ UNCHANGED <<load, transactions, publishes, doing, log, worker,
                   segment, closed>>

\* A faulty variant: what a delivery that is not acknowledged queued is kept.
RefuseKeeping(t, d) ==
    /\ Idle(t) /\ d \in Handles(t)
    /\ stage' = [stage EXCEPT ![d] = "refused"]
    /\ entries' = Left(d)
    /\ sealed' = sealed \o segment[d]
    /\ UNCHANGED <<load, transactions, publishes, doing, log, worker, segment,
                   lost, closed>>

\* Any other outcome, or a delivery dropped unsettled, after the shutdown too:
\* the segment is dropped.
Refuse(t, d) ==
    /\ Idle(t) /\ d \in Handles(t)
    /\ stage' = [stage EXCEPT ![d] = "refused"]
    /\ entries' = Left(d)
    /\ UNCHANGED <<load, transactions, publishes, doing, log, worker,
                   segment, sealed, lost, closed>>

\* After the shutdown a settle is refused before it closes its slot.  It has
\* consumed the delivery, so nothing takes the round from the registry again.
SettleRefused(t, d) ==
    /\ Idle(t) /\ d \in Handles(t) /\ closed
    /\ stage' = [stage EXCEPT ![d] = "stuck"]
    /\ UNCHANGED <<load, transactions, publishes, doing, log, entries, worker,
                   segment, sealed, lost, closed>>

\* The window sends what was acknowledged.  A command that fails is counted for
\* the reader of the subscription and is not sent again.
Carry(runs) ==
    /\ sealed # <<>>
    /\ sealed' = Tail(sealed)
    /\ IF runs
       THEN log' = Append(log, Head(sealed)) /\ UNCHANGED lost
       ELSE lost' = lost \cup {Head(sealed)} /\ UNCHANGED log
    /\ UNCHANGED <<load, transactions, publishes, doing, entries, stage,
                   worker, segment, closed>>

-----------------------------------------------------------------------------
(* Publishing.                                                             *)

\* Task t publishes: the publish turns into how, and returns said.
Make(t, how, said) ==
    /\ made < load.messages
    /\ made' = made + 1
    /\ path' = [path EXCEPT ![made + 1] = how]
    /\ answer' = [answer EXCEPT ![made + 1] = said]
    /\ during' = [during EXCEPT ![made + 1] = Handles(t)]

\* Joined to the first round that matches: queued, after the shutdown too, or
\* refused when the delivery of that round has settled.
PublishInRound(t, p, reply) ==
    /\ Idle(t)
    /\ \E k \in DOMAIN entries :
          LET d == entries[k].round IN
          /\ Joins(t, p, reply, k)
          /\ IF Open(d)
             THEN /\ Make(t, [via |-> "round", of |-> d], "ok")
                  /\ segment' = [segment EXCEPT ![d] = Append(@, made + 1)]
             ELSE /\ Make(t, [via |-> "round", of |-> d], "error")
                  /\ UNCHANGED segment
    /\ UNCHANGED <<load, transactions, doing, log, entries, stage, worker,
                   sealed, lost, closed>>

\* buffer_if_in_txn; only the stream publisher has transactions.
PublishBuffered(t, reply) ==
    /\ Idle(t) /\ JoinsNone(t, "stream", reply) /\ handle # 0
    /\ Make(t, [via |-> "transaction", of |-> handle], "ok")
    /\ held' = [held EXCEPT ![handle] = Append(@, made + 1)]
    /\ UNCHANGED <<load, handle, owned, begun, fate, doing, log, rounds,
                   closed>>

\* XADD on the pool, or ShutDown.
PublishAtOnce(t, p, reply) ==
    /\ Idle(t) /\ JoinsNone(t, p, reply)
    /\ p = "stream" => handle = 0
    /\ IF closed
       THEN Make(t, [via |-> "pool", of |-> t], "error") /\ UNCHANGED doing
       ELSE /\ Make(t, [via |-> "pool", of |-> t], "none")
            /\ doing' = [doing EXCEPT ![t] = [await |-> "xadd", of |-> made + 1]]
    /\ UNCHANGED <<load, transactions, log, rounds, closed>>

\* The server runs the XADD or refuses it; the answer may be lost.
XaddAnswered(t, runs, said) ==
    LET m == doing[t].of IN
    /\ doing[t].await = "xadd"
    /\ said = "ok" => runs
    /\ log' = IF runs THEN Append(log, m) ELSE log
    /\ answer' = [answer EXCEPT ![m] = said]
    /\ doing' = [doing EXCEPT ![t] = Nothing]
    /\ UNCHANGED <<load, transactions, made, path, during, rounds, closed>>

-----------------------------------------------------------------------------
(* Transactions.                                                           *)

NextTransaction == begun + 1
Begun == /\ Supported /\ begun < load.transactions
         /\ begun' = NextTransaction
         /\ fate' = [fate EXCEPT ![NextTransaction] = "open"]

Begin(t) ==
    /\ Idle(t) /\ handle = 0
    /\ Begun
    /\ handle' = NextTransaction
    /\ UNCHANGED <<load, owned, held, publishes, doing, log, rounds, closed>>

BeginOwned(t) ==
    /\ Idle(t) /\ owned[t] = 0
    /\ Begun
    /\ owned' = [owned EXCEPT ![t] = NextTransaction]
    /\ UNCHANGED <<load, handle, held, publishes, doing, log, rounds, closed>>

\* A publish on the owned value asks no round.
PublishOwned(t) ==
    /\ Idle(t) /\ owned[t] # 0
    /\ Make(t, [via |-> "transaction", of |-> owned[t]], "ok")
    /\ held' = [held EXCEPT ![owned[t]] = Append(@, made + 1)]
    /\ UNCHANGED <<load, handle, owned, begun, fate, doing, log, rounds,
                   closed>>

\* flush_block up to its exec: an empty buffer is committed as it is, and a
\* connection that is gone loses the buffer.
Flush(t, x) ==
    /\ fate' = [fate EXCEPT ![x] = IF held[x] = <<>> THEN "committed"
                                   ELSE IF closed THEN "failed" ELSE "flushing"]
    /\ doing' = [doing EXCEPT ![t] = IF held[x] = <<>> \/ closed THEN Nothing
                                     ELSE [await |-> "exec", of |-> x]]
    /\ UNCHANGED <<load, begun, held, publishes, log, rounds, closed>>

\* Both commits take the buffer before the flush, so a commit that fails has
\* still closed its transaction.
AfterCommit(h) == 0
Commit(t) ==
    /\ Idle(t) /\ handle # 0
    /\ Flush(t, handle)
    /\ handle' = AfterCommit(handle)
    /\ UNCHANGED owned

CommitOwned(t) ==
    /\ Idle(t) /\ owned[t] # 0
    /\ Flush(t, owned[t])
    /\ owned' = [owned EXCEPT ![t] = 0]
    /\ UNCHANGED handle

\* EXEC answers without an error when every command of the block succeeded.
Succeeded(x, block) == block = held[x]

\* The server runs the block, but for the commands that fail, which undo none
\* of the others, or discards it; the answer may be lost.
ExecAnswered(t, x, block, said) ==
    /\ doing[t] = [await |-> "exec", of |-> x]
    /\ block \in Parts(held[x])
    /\ said = "committed" => Succeeded(x, block)
    /\ log' = log \o block
    /\ fate' = [fate EXCEPT ![x] = said]
    /\ doing' = [doing EXCEPT ![t] = Nothing]
    /\ UNCHANGED <<load, handle, owned, begun, held, publishes, rounds,
                   closed>>

Abort(t) ==
    /\ Idle(t) /\ handle # 0
    /\ fate' = [fate EXCEPT ![handle] = "aborted"]
    /\ handle' = 0
    /\ UNCHANGED <<load, owned, begun, held, publishes, doing, log, rounds,
                   closed>>

\* abort of the value, or its drop, which discards the buffer with a warning.
AbortOwned(t) ==
    /\ Idle(t) /\ owned[t] # 0
    /\ fate' = [fate EXCEPT ![owned[t]] = "aborted"]
    /\ owned' = [owned EXCEPT ![t] = 0]
    /\ UNCHANGED <<load, handle, begun, held, publishes, doing, log, rounds,
                   closed>>

Shutdown ==
    /\ Ends /\ ~closed
    /\ closed' = TRUE
    /\ UNCHANGED <<load, transactions, publishes, doing, log, rounds>>

Next ==
    \/ \E t \in Tasks, d \in Deliveries :
          Take(t, d) \/ Refuse(t, d) \/ SettleRefused(t, d)
    \/ \E t \in Tasks, d \in Deliveries, kept \in BOOLEAN :
          Acknowledge(t, d, kept)
    \/ \E t \in Tasks, d \in Deliveries, p \in Publishers : Bind(t, d, p)
    \/ \E t \in Tasks, p \in Publishers, reply \in BOOLEAN :
          PublishInRound(t, p, reply) \/ PublishAtOnce(t, p, reply)
    \/ \E t \in Tasks, reply \in BOOLEAN : PublishBuffered(t, reply)
    \/ \E t \in Tasks, runs \in BOOLEAN, said \in {"ok", "error"} :
          XaddAnswered(t, runs, said)
    \/ \E t \in Tasks, x \in Transactions, said \in {"committed", "failed"} :
          \E block \in Parts(held[x]) : ExecAnswered(t, x, block, said)
    \/ \E t \in Tasks :
          \/ Begin(t) \/ Commit(t) \/ Abort(t)
          \/ BeginOwned(t) \/ PublishOwned(t) \/ CommitOwned(t) \/ AbortOwned(t)
    \/ \E runs \in BOOLEAN : Carry(runs)
    \/ Shutdown

Spec == Init /\ [][Next]_vars

-----------------------------------------------------------------------------
(* Types.                                                                  *)

TypeOK ==
    /\ load \in Loads
    /\ begun \in 0..MaxTransactions /\ handle \in 0..begun
    /\ owned \in [Tasks -> 0..begun]
    /\ fate \in [Transactions -> {"none", "open", "flushing", "committed",
                                  "failed", "aborted"}]
    /\ held \in [Transactions -> Seq(Messages)]
    /\ made \in 0..MaxMessages
    /\ path \in [Messages -> Path]
    /\ answer \in [Messages -> {"none", "ok", "error"}]
    /\ during \in [Messages -> SUBSET Deliveries]
    /\ doing \in [Tasks -> Awaited]
    /\ log \in Seq(Messages)
    /\ entries \in Seq(Entry)
    /\ \A j, k \in DOMAIN entries : entries[j].round = entries[k].round => j = k
    /\ stage \in [Deliveries -> {"waiting", "held", "acked", "refused",
                                 "stuck"}]
    /\ worker \in [Deliveries -> {{}} \cup {{t} : t \in Tasks}]
    /\ segment \in [Deliveries -> Seq(Messages)]
    /\ sealed \in Seq(Messages)
    /\ lost \subseteq Messages
    /\ closed \in BOOLEAN

-----------------------------------------------------------------------------
(* Properties.                                                             *)

Absent(seq)   == Elems(seq) \cap Elems(log) = {}
Together(seq) == \E k \in 0..Len(log) :
                     /\ k + Len(seq) <= Len(log)
                     /\ \A i \in DOMAIN seq : log[k + i] = seq[i]
\* Of seq the server ran this part, with nothing between.
RanOf(seq, part) == /\ Together(part)
                    /\ Elems(seq) \cap Elems(log) \subseteq Elems(part)

\* Subscribers see nothing of a transaction before its commit or after an abort
\* or a drop.  A commit that returned Ok has the whole of it in the log, in
\* publish order with nothing between.  One that failed may have run all of it,
\* the answer being what was lost, or those of its commands that did not fail:
\* they too are in order and with nothing between.
WholeOrNothing ==
    \A x \in Transactions :
        CASE fate[x] = "committed" -> Together(held[x])
          [] fate[x] = "failed"    -> \E part \in Parts(held[x]) :
                                          RanOf(held[x], part)
          [] OTHER                 -> Absent(held[x])

\* Where a publish that returned Ok can be: it ran; it waits in the buffer of
\* an open transaction, in the round of a delivery in hand or in the window; or
\* it went with what it waited in: a transaction that was aborted or failed, a
\* delivery that was not acknowledged, a settle the shutdown refused, a command
\* of an acknowledged round that failed or whose block could not be closed.
\* Nothing else loses one: not a publish on a clone beside the commit.
OkIsKept ==
    \A m \in 1..made : answer[m] = "ok" =>
        \/ m \in Elems(log) \cup Elems(sealed)
        \/ /\ path[m].via = "transaction"
           /\ fate[path[m].of] \in {"open", "flushing", "aborted", "failed"}
        \/ /\ path[m].via = "round"
           /\ stage[path[m].of] = "acked" => m \in lost

\* What a round carries was published by the task that handles its delivery,
\* while it handled it.  The registry finds rounds by task, so a round that
\* outlived its delivery there would take the publishes of the next one.  Only
\* the shutdown leaves one behind, by refusing the settle, and of that round
\* nothing leaves.
OnlyOwnRound ==
    \A d \in Deliveries :
        IF stage[d] = "stuck"
        THEN closed /\ Elems(segment[d]) \cap (Elems(Sent) \cup lost) = {}
        ELSE \A m \in Elems(segment[d]) : during[m] = {d}

\* No publish is refused as one of a settled delivery: a task whose delivery
\* settled publishes as if it never had one.
NoStaleRound ==
    \A m \in 1..made : path[m].via = "round" => answer[m] = "ok"

\* Of a round runs what its publishes returned Ok for, once each, in the order
\* they were made, and only when its delivery was acknowledged; and all of it
\* but what the server refused or could not be closed into its block.
RoundsInOrder ==
    \A d \in Deliveries :
        LET here   == [via |-> "round", of |-> d]
            places == {k \in DOMAIN Sent : path[Sent[k]] = here}
            gone   == {m \in lost : path[m] = here}
        IN /\ {Sent[k] : k \in places} \cup gone =
                 {m \in 1..made : /\ path[m] = here /\ answer[m] = "ok"
                                 /\ stage[d] = "acked"}
           /\ {Sent[k] : k \in places} \cap gone = {}
           /\ \A j, k \in places : j < k => Sent[j] < Sent[k]

\* Every operation after the shutdown reports ShutDown (publisher.rs:545-548):
\* a publish into the round of a delivery or into the buffer of a transaction
\* does not.
RefusedAfterShutdown ==
    [][closed /\ made' # made => answer'[made'] = "error"]_vars
=============================================================================
