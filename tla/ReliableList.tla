---------------------------- MODULE ReliableList ----------------------------
(***************************************************************************)
(* A reliable list: a queue, the processing list an entry is moved to while *)
(* it is handled, and the recovery set that watches the claims              *)
(* (RecoveryConfig).                                                        *)
(*                                                                          *)
(* Everything is found again by value: an ack, a retry and a recovery all   *)
(* LREM one occurrence of the entry's bytes, whichever claim it was.  Only  *)
(* the record of a claim in the recovery set is its own, because a salt     *)
(* tells it from the claims of equal bytes: the id of the process and a     *)
(* counter that starts anew with it.  Where processes share an id, after a  *)
(* restart or in two containers, the same salt is made twice, and two       *)
(* claims of equal bytes are one member of the set.                         *)
(*                                                                          *)
(* One command is one step.  A direct subscription (ListWire::stream) pops  *)
(* one entry at a time; a pipelined one (ListReader) claims several with    *)
(* one pipeline, whose commands the server runs one by one, buffers them,   *)
(* and settles them when its window is flushed.  When the window does that  *)
(* is Window's affair: here a verdict waits in it for any time.             *)
(* A claim becomes idle at any moment after it was recorded.                *)
(***************************************************************************)
EXTENDS Naturals, Sequences, FiniteSets, Functions

CONSTANTS
    Subs,       \* subscriptions of the list, each with a process of its own
    Vals,       \* the bytes of an entry; equal entries may be pushed
    Batch,      \* SWEEP_BATCH
    Loads       \* the subscriptions and the bounds a behaviour may be under

\* The direct and the pipelined subscriptions, and COUNT of a pipelined read;
\* bounds on the entries pushed, the entries handlers push back, the claims
\* that become idle with a handler at work, and the crashes, shutdowns,
\* expiries and failing commands; whether the set has a ttl that nothing
\* refreshes in time; and whether every process has an id of its own, or all
\* have the same one.
Load == [direct: SUBSET Subs, pipelined: SUBSET Subs, count: Nat,
         pushes: Nat, retries: Nat, claims: Nat, faults: Nat,
         expires: BOOLEAN, ids: BOOLEAN]

ASSUME ListAssumption ==
    /\ Batch \in Nat \ {0}
    /\ Loads \subseteq Load

VARIABLES
    load,        \* the bounds of this behaviour
    queue,       \* the list; a push adds at the left, a pop takes the right
    processing,  \* occurrences of each value on the processing list
    tracked,     \* the recovery set: claim -> [val, idle]
    claims,      \* the claims so far: a later one has the higher score
    members,     \* the member of the recovery set each claim was given
    starts,      \* processes each subscription had: its next one is another
    counter,     \* COUNTER of the process of a subscription
    pc,          \* where the read of each subscription is
    due,         \* members the sweep listed and is not done with, in order
    mine,        \* what the sweep took off or a pop moved, not passed on yet
    left,        \* pops of a pipeline the server has not run yet
    buffer,      \* entries a pipelined read claimed and did not yield
    holds,       \* deliveries, with the verdicts that wait in a window
    open,        \* the process's broker was not shut down
    pushed,      \* pushes by producers
    retried,     \* pushes by retries
    settled,     \* acks and drops whose LREM ran
    taken,       \* occurrences an LREM of a settle took off
    dropped,     \* taken off by a sweep that never pushed it back
    stranded,    \* on the processing list, with no record and nobody at work
    faults

salts   == <<members, starts, counter>>
lists   == <<queue, processing, tracked, claims, salts>>
reader  == <<pc, due, mine, left, buffer>>
history == <<pushed, retried, settled, taken, dropped, stranded>>
vars    == <<load, lists, reader, holds, open, history, faults>>

Zero     == [v \in Vals |-> 0]
NoRecord == [c \in {} |-> 0]
Record   == [val: Vals, idle: BOOLEAN]
\* The process and its count, which are the salt, and the value.
Member   == [id: {<<>>} \cup (Subs \X Nat), n: Nat, val: Vals]
\* recorded: the ZADD of the claim ran.
Claimed  == [val: Vals, claim: Nat, recorded: BOOLEAN]
Hold     == [sub: Subs, val: Vals, claim: Nat, recorded: BOOLEAN,
             stage: {"held", "acked", "nacked", "retrying", "removed"}]
ReadPc   == {"read", "sweep", "push", "forget", "moves", "lost", "pop",
             "track"}
Claim(v, c, made) == [val |-> v, claim |-> c, recorded |-> made]
Readers      == load.direct \cup load.pipelined
Pipelined(s) == s \in load.pipelined

Plus(f, v)  == [f EXCEPT ![v] = @ + 1]
Larger(m, n) == IF m >= n THEN m ELSE n
OneLess(n)  == IF n = 0 THEN 0 ELSE n - 1
Minus(f, v) == [f EXCEPT ![v] = OneLess(@)]
TotalOf(f)  == FoldFunction(LAMBDA m, n : m + n, 0, f)
\* The places of a sequence that hold a member of S.
Places(seq, S) == {k \in DOMAIN seq : seq[k] \in S}
Times(seq, S)  == Cardinality(Places(seq, S))
\* The disjoint union of the sets f gives.
Pairs(f) == UNION {{x} \X f[x] : x \in DOMAIN f}

OnQueue(v)  == Cardinality({k \in DOMAIN queue : queue[k] = v})
Tracked(v)  == Cardinality({c \in DOMAIN tracked : tracked[c].val = v})
\* A sweep took the value off and pushes it next.
Returning(v) == Cardinality({s \in Subs : pc[s] = "push" /\ mine[s] = <<v>>})
\* A pop moved it, and the read that did is not done.
Moving(s) == IF pc[s] = "push" THEN <<>> ELSE mine[s]
InHands(v) == [s \in Subs |-> Places(Moving(s), {v})]
Popped(v)  == Cardinality(Pairs(InHands(v)))
\* Claims without a record that are buffered or handled, their LREM to come.
Bare(hs, v) ==
    Cardinality({h \in hs : ~h.recorded /\ h.stage # "removed" /\ h.val = v})
BareClaims(v) == [val: {v}, claim: Nat, recorded: {FALSE}]
InBuffers(v)  == [s \in Subs |-> Places(buffer[s], BareClaims(v))]
Buffered(v)   == Cardinality(Pairs(InBuffers(v)))
Unrecorded(v) == Bare(holds, v) + Buffered(v)

\* The records of the set that are the member m.
Same(m)      == {d \in DOMAIN tracked : members[d] = m}
Forgotten(c) == [d \in DOMAIN tracked \ Same(members[c]) |-> tracked[d]]

-----------------------------------------------------------------------------
(* Faulty variants, each a bug this code could have.                       *)

\* The sweep pushes the value back whatever its LREM answered.
RemovedByAnyone(v) == TRUE
\* A member without the salt: equal values share one record.
Unsalted(s, v) == [id |-> <<>>, n |-> 1, val |-> v]
\* A retry removes the entry before it pushed the copy.
RetryRemovesFirst(h) ==
    /\ h.stage = "held" /\ open[h.sub]
    /\ TotalOf(retried) < load.retries
    /\ holds' = (holds \ {h}) \cup {[h EXCEPT !.stage = "retrying"]}
    /\ processing' = Minus(processing, h.val)
    /\ taken' = IF processing[h.val] > 0 THEN Plus(taken, h.val) ELSE taken
    /\ UNCHANGED <<load, queue, tracked, claims, salts, reader, open, pushed,
                   retried, settled, dropped, stranded, faults>>
\* A settle that forgets the claim whether or not the entry was removed.
ForgetAnyStage(h) ==
    /\ tracked' = Forgotten(h.claim)
    /\ holds' = holds \ {h}
    /\ UNCHANGED <<load, queue, processing, claims, salts, reader, open,
                   history, faults>>
\* A pop that does not move the entry to the processing list.
PopsOff == processing
\* A cutoff nothing is ever older than.
NeverIdle == {}

-----------------------------------------------------------------------------
Init ==
    /\ load \in Loads
    /\ queue = <<>> /\ processing = Zero
    /\ tracked = NoRecord /\ claims = 0
    /\ members = <<>>
    /\ starts = [s \in Subs |-> 0] /\ counter = [s \in Subs |-> 0]
    /\ pc = [s \in Subs |-> "read"]
    /\ due = [s \in Subs |-> <<>>]
    /\ mine = [s \in Subs |-> <<>>]
    /\ left = [s \in Subs |-> 0]
    /\ buffer = [s \in Subs |-> <<>>]
    /\ holds = {}
    /\ open = [s \in Subs |-> TRUE]
    /\ pushed = Zero /\ retried = Zero /\ settled = Zero /\ taken = Zero
    /\ dropped = Zero /\ stranded = Zero
    /\ faults = 0

\* A fault happens, and there is room for it.
Fault == faults < load.faults /\ faults' = faults + 1

\* A producer's LPUSH.
Push(v) ==
    /\ TotalOf(pushed) < load.pushes
    /\ queue' = <<v>> \o queue
    /\ pushed' = Plus(pushed, v)
    /\ UNCHANGED <<load, processing, tracked, claims, salts, reader, holds,
                   open, retried, settled, taken, dropped, stranded, faults>>

\* A process has the entry of the claim in a buffer or at a handler.
InMemory(c) ==
    \/ \E h \in holds : h.claim = c
    \/ \E s \in Subs : \E k \in DOMAIN buffer[s] : buffer[s][k].claim = c

\* min_idle passes over a claim.
Age(c) ==
    /\ c \in DOMAIN tracked
    /\ ~tracked[c].idle
    /\ c <= load.claims \/ ~InMemory(c)
    /\ tracked' = [tracked EXCEPT ![c].idle = TRUE]
    /\ UNCHANGED <<load, queue, processing, claims, salts, reader, holds,
                   open, history, faults>>

\* recovery_ttl passes without a claim, and the set is gone.
Expire ==
    /\ load.expires
    /\ DOMAIN tracked # {}
    /\ Fault
    /\ stranded' = [v \in Vals |-> stranded[v] + Tracked(v)]
    /\ tracked' = NoRecord
    /\ UNCHANGED <<load, queue, processing, claims, salts, reader, holds,
                   open, pushed, retried, settled, taken, dropped>>

-----------------------------------------------------------------------------
(* next_entry and claim: the sweep of the recovery set ...                 *)

Due == {c \in DOMAIN tracked : tracked[c].idle}

\* ZRANGEBYSCORE 0 cutoff LIMIT 0 Batch: the oldest claims first.
Listed == {c \in Due : Cardinality({d \in Due : d < c}) < Batch}
Listings ==
    {q \in [1..Cardinality(Listed) -> Listed] :
        \A m, n \in DOMAIN q : m < n => q[m] < q[n]}

\* A pipelined subscription reads when it has yielded what it claimed.
\* The member ends with the value, so it is still read after the record went.
ListDue(s) ==
    /\ s \in Readers
    /\ pc[s] = "read" /\ open[s] /\ buffer[s] = <<>>
    /\ \E q \in Listings :
          due' = [due EXCEPT ![s] =
                     [k \in DOMAIN q |-> [claim |-> q[k],
                                          val |-> tracked[q[k]].val]]]
    /\ pc' = [pc EXCEPT ![s] = "sweep"]
    /\ UNCHANGED <<load, lists, mine, left, buffer, holds, open, history,
                   faults>>

\* LREM answered 1: the value was on the processing list and is off it now.
Removed(v) == processing[v] > 0

TakeOff(s) ==
    /\ pc[s] = "sweep" /\ due[s] # <<>>
    /\ LET v == Head(due[s]).val IN
       /\ processing' = Minus(processing, v)
       /\ IF Removed(v)
          THEN /\ mine' = [mine EXCEPT ![s] = <<v>>]
               /\ pc' = [pc EXCEPT ![s] = "push"]
          ELSE /\ pc' = [pc EXCEPT ![s] = "forget"]
               /\ UNCHANGED mine
    /\ UNCHANGED <<load, queue, tracked, claims, salts, due, left, buffer,
                   holds, open, history, faults>>

\* LPUSH: back to the queue, behind what waits there.
PushBack(s) ==
    /\ pc[s] = "push"
    /\ queue' = mine[s] \o queue
    /\ mine' = [mine EXCEPT ![s] = <<>>]
    /\ pc' = [pc EXCEPT ![s] = "forget"]
    /\ UNCHANGED <<load, processing, tracked, claims, salts, due, left,
                   buffer, holds, open, history, faults>>

\* ZREM of the member, whoever recovered the entry.
ForgetDue(s) ==
    /\ pc[s] = "forget"
    /\ tracked' = Forgotten(Head(due[s]).claim)
    /\ due' = [due EXCEPT ![s] = Tail(@)]
    /\ pc' = [pc EXCEPT ![s] = "sweep"]
    /\ UNCHANGED <<load, queue, processing, claims, salts, mine, left, buffer,
                   holds, open, history, faults>>

SweepEnds(s) ==
    /\ pc[s] = "sweep" /\ due[s] = <<>>
    /\ pc' = [pc EXCEPT ![s] = IF Pipelined(s) THEN "moves" ELSE "pop"]
    /\ left' = [left EXCEPT ![s] = IF Pipelined(s) THEN load.count ELSE 0]
    /\ UNCHANGED <<load, lists, due, mine, buffer, holds, open, history,
                   faults>>

(* ... then BLMOVE, which waits for an entry at most `block` ...           *)

Oldest == queue[Len(queue)]
Others == SubSeq(queue, 1, Len(queue) - 1)
Moved == Plus(processing, Oldest)

Pop(s) ==
    /\ pc[s] = "pop" /\ queue # <<>>
    /\ processing' = Moved
    /\ mine' = [mine EXCEPT ![s] = <<Oldest>>]
    /\ queue' = Others
    /\ pc' = [pc EXCEPT ![s] = "track"]
    /\ UNCHANGED <<load, tracked, claims, salts, due, left, buffer, holds,
                   open, history, faults>>

PopTimesOut(s) ==
    /\ pc[s] = "pop" /\ queue = <<>>
    /\ pc' = [pc EXCEPT ![s] = "read"]
    /\ UNCHANGED <<load, lists, due, mine, left, buffer, holds, open, history,
                   faults>>

(* ... or, in a pipelined read, a pipeline of LMOVEs first.                *)

\* The server runs the next LMOVE.  Behind an answer that is an error none is
\* looked at: what they moved stays on the processing list.
Move(s) ==
    /\ pc[s] \in {"moves", "lost"} /\ left[s] > 0
    /\ left' = [left EXCEPT ![s] = @ - 1]
    /\ IF queue = <<>>
       THEN UNCHANGED <<queue, processing, mine, stranded>>
       ELSE /\ queue' = Others /\ processing' = Moved
            /\ IF pc[s] = "moves"
               THEN /\ mine' = [mine EXCEPT ![s] = Append(@, Oldest)]
                    /\ UNCHANGED stranded
               ELSE /\ stranded' = Plus(stranded, Oldest)
                    /\ UNCHANGED mine
    /\ UNCHANGED <<load, tracked, claims, salts, pc, due, buffer, holds, open,
                   pushed, retried, settled, taken, dropped, faults>>

\* One fails, or ran and its answer is lost.
MoveFails(s) ==
    /\ pc[s] \in {"moves", "lost"} /\ left[s] > 0
    /\ Fault
    /\ left' = [left EXCEPT ![s] = @ - 1]
    /\ pc' = [pc EXCEPT ![s] = "lost"]
    /\ \/ UNCHANGED <<queue, processing, stranded>>
       \/ /\ queue # <<>>
          /\ queue' = Others /\ processing' = Moved
          /\ stranded' = Plus(stranded, Oldest)
    /\ UNCHANGED <<load, tracked, claims, salts, due, mine, buffer, holds,
                   open, pushed, retried, settled, taken, dropped>>

\* Every LMOVE is answered.  What was moved before an error is buffered
\* without a record, which is without a member; BLMOVE waits when nothing was.
NoMember(v) == [id |-> <<>>, n |-> 0, val |-> v]
MovesEnd(s) ==
    /\ pc[s] \in {"moves", "lost"} /\ left[s] = 0
    /\ pc' = [pc EXCEPT ![s] = IF @ = "lost" THEN "read"
                               ELSE IF mine[s] = <<>> THEN "pop" ELSE "track"]
    /\ IF pc[s] = "lost"
       THEN /\ buffer' = [buffer EXCEPT ![s] =
                             [k \in DOMAIN mine[s] |->
                                 Claim(mine[s][k], claims + k, FALSE)]]
            /\ claims' = claims + Len(mine[s])
            /\ members' = members \o [k \in DOMAIN mine[s] |->
                                         NoMember(mine[s][k])]
            /\ mine' = [mine EXCEPT ![s] = <<>>]
       ELSE UNCHANGED <<claims, members, mine, buffer>>
    /\ UNCHANGED <<load, queue, processing, tracked, starts, counter, due,
                   left, holds, open, history, faults>>

(* ... then record_claim or track, and the delivery.                       *)

\* claim_member: the id of the process and its counter, then the value.
ClaimMember(s, v) ==
    [id |-> IF load.ids THEN <<s, starts[s]>> ELSE <<>>,
     n |-> counter[s] + 1, val |-> v]

\* ZADD: a member that is in the set already gets the new score.
Recorded(s, v) ==
    [d \in (DOMAIN tracked \ Same(ClaimMember(s, v))) \cup {claims + 1} |->
        IF d = claims + 1 THEN [val |-> v, idle |-> FALSE] ELSE tracked[d]]

\* The next claim is given its member.
Counted(s, v) ==
    /\ claims' = claims + 1
    /\ members' = Append(members, ClaimMember(s, v))
    /\ counter' = [counter EXCEPT ![s] = @ + 1]
    /\ UNCHANGED starts

Delivery(s, e) == [sub |-> s, val |-> e.val, claim |-> e.claim,
                   recorded |-> e.recorded, stage |-> "held"]

Track(s) ==
    /\ pc[s] = "track" /\ ~Pipelined(s)
    /\ LET v == Head(mine[s]) IN
       /\ Counted(s, v)
       /\ tracked' = Recorded(s, v)
       /\ holds' = holds \cup {Delivery(s, Claim(v, claims + 1, TRUE))}
    /\ mine' = [mine EXCEPT ![s] = <<>>]
    /\ pc' = [pc EXCEPT ![s] = "read"]
    /\ UNCHANGED <<load, queue, processing, due, left, buffer, open, history,
                   faults>>

\* One ZADD of a pipeline of them; the entry is buffered whatever it answers.
TrackNext(s, runs) ==
    /\ pc[s] = "track" /\ Pipelined(s)
    /\ IF runs THEN UNCHANGED faults ELSE Fault
    /\ LET v == Head(mine[s]) IN
       /\ Counted(s, v)
       /\ tracked' = IF runs THEN Recorded(s, v) ELSE tracked
       /\ buffer' = [buffer EXCEPT ![s] =
                         Append(@, Claim(v, claims + 1, runs))]
    /\ mine' = [mine EXCEPT ![s] = Tail(@)]
    /\ pc' = [pc EXCEPT ![s] = IF Len(mine[s]) = 1 THEN "read" ELSE @]
    /\ UNCHANGED <<load, queue, processing, due, left, holds, open, history>>

\* The next buffered entry is yielded, alone or in a batch, also after the
\* shutdown.
Yield(s) ==
    /\ pc[s] = "read" /\ buffer[s] # <<>>
    /\ holds' = holds \cup {Delivery(s, Head(buffer[s]))}
    /\ buffer' = [buffer EXCEPT ![s] = Tail(@)]
    /\ UNCHANGED <<load, lists, pc, due, mine, left, open, history, faults>>

-----------------------------------------------------------------------------
(* The verdict of a handler.                                               *)

At(h, stage) == (holds \ {h}) \cup {[h EXCEPT !.stage = stage]}

\* Into the window of a pipelined subscription, which owes its commands.
Decide(h, stage) ==
    /\ h.stage = "held" /\ open[h.sub] /\ Pipelined(h.sub)
    /\ stage = "nacked" =>
          TotalOf(retried) + Cardinality({g \in holds : g.stage = "nacked"})
              < load.retries
    /\ holds' = At(h, stage)
    /\ UNCHANGED <<load, lists, reader, open, history, faults>>

\* A direct settle begins with the verdict, a window's when it is flushed.
Begins(h, stage) ==
    IF Pipelined(h.sub) THEN h.stage = stage
                        ELSE h.stage = "held" /\ open[h.sub]

\* settle: LREM of one occurrence of the value.
Remove(h) ==
    /\ holds' = At(h, "removed")
    /\ processing' = Minus(processing, h.val)
    /\ taken' = IF Removed(h.val) THEN Plus(taken, h.val) ELSE taken
    /\ UNCHANGED <<load, queue, tracked, claims, salts, reader, open, pushed,
                   retried, dropped, stranded, faults>>

\* ack, and nack(requeue = false).
Ack(h) ==
    /\ Begins(h, "acked")
    /\ settled' = Plus(settled, h.val)
    /\ Remove(h)

\* nack(requeue = true): the entry goes back to the queue first ...
Retry(h) ==
    /\ Begins(h, "nacked")
    /\ TotalOf(retried) < load.retries
    /\ queue' = <<h.val>> \o queue
    /\ retried' = Plus(retried, h.val)
    /\ holds' = At(h, "retrying")
    /\ UNCHANGED <<load, processing, tracked, claims, salts, reader, open,
                   pushed, settled, taken, dropped, stranded, faults>>

\* ... and leaves the processing list next.
RemoveRetried(h) == h.stage = "retrying" /\ Remove(h) /\ UNCHANGED settled

\* forget: the claim's own record goes with it.
Forget(h) ==
    /\ h.stage = "removed"
    /\ tracked' = Forgotten(h.claim)
    /\ holds' = holds \ {h}
    /\ UNCHANGED <<load, queue, processing, claims, salts, reader, open,
                   history, faults>>

\* Deliveries that end leave the entries nobody recorded behind.
Leave(hs) ==
    /\ holds' = holds \ hs
    /\ stranded' = [v \in Vals |-> stranded[v] + Bare(hs, v)]
    /\ UNCHANGED <<load, lists, reader, open, pushed, retried, settled, taken,
                   dropped>>

\* After the shutdown a verdict refuses; the delivery is gone all the same.
SettleRefused(h) ==
    /\ h.stage = "held" /\ ~open[h.sub]
    /\ Leave({h})
    /\ UNCHANGED faults

\* A command of the settle fails, or the handler drops the delivery.
SettleFails(h) == Fault /\ Leave({h})

\* The LREM of a flush fails, and the ZREM behind it does not.
RemoveFails(h) ==
    /\ Pipelined(h.sub) /\ h.stage \in {"acked", "retrying"}
    /\ Fault
    /\ holds' = At(h, "removed")
    /\ stranded' = Plus(stranded, h.val)
    /\ UNCHANGED <<load, lists, reader, open, pushed, retried, settled, taken,
                   dropped>>

-----------------------------------------------------------------------------
(* Failures.                                                               *)

\* What the read of s had in its hands, its buffer and the deliveries hs go
\* with it.
Gone(s, hs) ==
    /\ pc' = [pc EXCEPT ![s] = "read"]
    /\ due' = [due EXCEPT ![s] = <<>>]
    /\ mine' = [mine EXCEPT ![s] = <<>>]
    /\ left' = [left EXCEPT ![s] = 0]
    /\ buffer' = [buffer EXCEPT ![s] = <<>>]
    /\ holds' = holds \ hs
    /\ dropped' = IF pc[s] = "push" THEN Plus(dropped, Head(mine[s]))
                                    ELSE dropped
    /\ stranded' = [v \in Vals |->
                       stranded[v] + Times(Moving(s), {v})
                       + Times(buffer[s], BareClaims(v)) + Bare(hs, v)]
    /\ UNCHANGED <<load, queue, processing, tracked, claims, members, pushed,
                   retried, settled, taken>>

\* What a BLMOVE moved is in the hands of the read, alone.
Waited(s) == pc[s] = "track" /\ buffer[s] = <<>> /\ Len(mine[s]) = 1

\* A command of the read fails, and the error ends it.  At "track" that is the
\* ZADD of a direct read, or the lost answer of a BLMOVE, which is one step
\* later here than it ran.
ReadFails(s) ==
    /\ pc[s] \in {"sweep", "push", "forget", "pop"} \/ Waited(s)
    /\ Fault
    /\ Gone(s, {})
    /\ UNCHANGED <<starts, counter, open>>

\* The next process has an id of its own, or the same again, and counts anew.
ProcessEnds(s) ==
    /\ Gone(s, {h \in holds : h.sub = s})
    /\ starts' = [starts EXCEPT ![s] = @ + 1]
    /\ counter' = [counter EXCEPT ![s] = 0]
    /\ open' = [open EXCEPT ![s] = TRUE]

\* The process ends, and another one takes the subscription over.
Crash(s) == s \in Readers /\ Fault /\ ProcessEnds(s)
Exit(s)  == ~open[s] /\ ProcessEnds(s) /\ UNCHANGED faults

Shutdown(s) ==
    /\ s \in Readers /\ open[s]
    /\ Fault
    /\ open' = [open EXCEPT ![s] = FALSE]
    /\ UNCHANGED <<load, lists, reader, holds, history>>

-----------------------------------------------------------------------------
Read(s) ==
    \/ ListDue(s) \/ TakeOff(s) \/ PushBack(s) \/ ForgetDue(s) \/ SweepEnds(s)
    \/ Pop(s) \/ PopTimesOut(s) \/ Track(s)
    \/ Move(s) \/ MovesEnd(s) \/ TrackNext(s, TRUE) \/ Yield(s)

Verdict(h) ==
    \/ Decide(h, "acked") \/ Ack(h) \/ RemoveRetried(h) \/ Forget(h)
    \/ h.stage = "nacked" /\ Retry(h)
    \/ SettleRefused(h)

Next ==
    \/ \E v \in Vals : Push(v)
    \/ \E c \in DOMAIN tracked : Age(c)
    \/ Expire
    \/ \E s \in Subs :
          \/ Read(s) \/ Crash(s) \/ ReadFails(s) \/ Exit(s) \/ Shutdown(s)
          \/ MoveFails(s) \/ TrackNext(s, FALSE)
    \/ \E h \in holds :
          \/ Verdict(h) \/ Decide(h, "nacked") \/ Retry(h)
          \/ SettleFails(h) \/ RemoveFails(h)

Spec == Init /\ [][Next]_vars

\* Subscriptions keep reading, handlers finish, a process that was shut down is
\* replaced, and time passes.  Nothing is fair about pushes, retries or faults.
FairSpec ==
    /\ Spec
    /\ WF_vars(\E c \in DOMAIN tracked : Age(c))
    /\ \A s \in Subs :
          /\ WF_vars(Read(s)) /\ WF_vars(Exit(s))
          /\ WF_vars(\E h \in holds : h.sub = s /\ Verdict(h))

-----------------------------------------------------------------------------
(* Properties.                                                             *)

TypeOK ==
    /\ load \in Loads
    /\ queue \in Seq(Vals)
    /\ processing \in [Vals -> Nat]
    /\ DOMAIN tracked \subseteq 1..claims
    /\ tracked \in [DOMAIN tracked -> Record]
    /\ claims \in Nat
    /\ members \in Seq(Member) /\ Len(members) = claims
    /\ starts \in [Subs -> Nat] /\ counter \in [Subs -> Nat]
    /\ pc \in [Subs -> ReadPc]
    /\ due \in [Subs -> Seq([claim: 1..claims, val: Vals])]
    /\ \A s \in Subs : Len(due[s]) <= Batch
    /\ mine \in [Subs -> Seq(Vals)]
    /\ \A s \in Readers : Len(mine[s]) + left[s] <= Larger(1, load.count)
    /\ left \in [Subs -> Nat]
    /\ buffer \in [Subs -> Seq(Claimed)]
    /\ holds \subseteq Hold
    /\ open \in [Subs -> BOOLEAN]
    /\ \A count \in {pushed, retried, settled, taken, dropped, stranded} :
          count \in [Vals -> Nat]
    /\ faults \in Nat

\* What is pushed is on the queue, on the processing list, in the hands of a
\* sweep, lost with one, or was taken off by a verdict - once, though a claim is
\* found again by its bytes alone (recovery.rs:176-178, list.rs:1146-1160).
Conserved ==
    \A v \in Vals :
        pushed[v] + retried[v] =
            OnQueue(v) + processing[v] + Returning(v) + dropped[v] + taken[v]

\* At-least-once (list.rs:1122-1125, reliable.md): an entry leaves the lists for
\* an ack or a drop.  A slow handler's late verdict may take off another claim's
\* occurrence, and still no value is handled less often than it was pushed.
AtLeastOnce ==
    \A v \in Vals :
        pushed[v] <=
            OnQueue(v) + processing[v] + Returning(v) + dropped[v] + settled[v]

\* The watchdog knows of everything on the processing list but what a reader
\* left between its BLMOVE and its ZADD (list.rs:700-724), and what a failing
\* command of a pipelined read or flush left without a record: sweeps and
\* verdicts that overlap never remove a record and leave its occurrence.  It
\* takes processes with ids of their own (recovery.rs:78-80): where an id comes
\* back, one ZREM forgets two claims of equal bytes.
ClaimsAreWatched ==
    \A v \in Vals :
        processing[v] <= Tracked(v) + Popped(v) + Unrecorded(v) + stranded[v]

\* Every entry is handled in the end, unless a sweep died with it or its reader
\* died before it recorded the claim.
EventuallyHandled ==
    <>[](\A v \in Vals : OnQueue(v) = 0 /\ processing[v] <= stranded[v])

\* list.rs:789: "every answer is read: each entry answered is on the processing
\* list now and has to be delivered", also behind an answer that is an error.
AnsweredIsDelivered ==
    [][\A s \in Subs :
          (pc[s] = "lost" /\ left'[s] < left[s] /\ faults' = faults)
              => stranded' = stranded]_vars

\* recovery.md: "the subscription records every claim in the named sorted set".
EveryClaimIsRecorded ==
    \A v \in Vals : processing[v] <= Tracked(v) + Popped(v)

\* recovery.rs:18 "Recovery is at-least-once": an entry of a dead consumer is
\* not lost by the sweep that recovers it.
RecoveryLosesNothing ==
    \A v \in Vals :
        pushed[v] <= OnQueue(v) + processing[v] + Returning(v) + settled[v]

\* recovery.md: a read "pushes an entry claimed more than `min_idle` ago back":
\* the LREM of a sweep leaves an occurrence for each claim that is not idle.
Busy(v) ==
    {c \in DOMAIN tracked :
        /\ tracked[c] = [val |-> v, idle |-> FALSE]
        /\ \E h \in holds : h.claim = c /\ h.stage = "held"}
OnlyIdleIsReturned ==
    [][\A s \in Subs : \A v \in Vals :
          (pc[s] = "sweep" /\ pc'[s] = "push" /\ mine'[s] = <<v>>) =>
              processing'[v] >= Cardinality(Busy(v))]_vars
=============================================================================
