-------------------------- MODULE DelayQueueProofs --------------------------
(***************************************************************************)
(* Proofs about DelayQueue, for any subscriptions, jobs, delays and bounds. *)
(***************************************************************************)
EXTENDS DelayQueue, FiniteSetTheorems, SequenceTheorems, TLAPS

-----------------------------------------------------------------------------
(* Type correctness.                                                       *)

Hands == {s \in Subs : hand[s] # 0}

\* A sweeper has a member in hand exactly while it is about to append it.
HandsInv == \A s \in Subs : pc[s] = "append" <=> hand[s] # 0
HoldsKnown == \A h \in holds : h.id \in Ids
\* There is an id for every copy: the bound of the model.
RoomInv ==
    /\ IsFiniteSet(Hands)
    /\ Len(log) + Cardinality(DOMAIN zset) + Cardinality(Hands) <= MaxLog
TypeInv == TypeOK /\ HandsInv /\ HoldsKnown /\ RoomInv

LEMMA Sizes ==
    ASSUME TypeInv
    PROVE  /\ Len(log) \in Nat /\ Ids = DOMAIN log
           /\ IsFiniteSet(DOMAIN zset) /\ Cardinality(DOMAIN zset) \in Nat
           /\ IsFiniteSet(Hands) /\ Cardinality(Hands) \in Nat
           /\ Ids \subseteq 1..MaxLog
           /\ {MaxTime, MaxLog, MaxHeld, MaxFaults} \subseteq Nat
  <1>1. Len(log) \in Nat /\ DOMAIN log = 1..Len(log)
    BY LenProperties DEF TypeInv, TypeOK
  <1>2. IsFiniteSet(1..Len(log))
    BY <1>1, FS_Interval
  <1>3. IsFiniteSet(DOMAIN zset)
    BY <1>2, FS_Subset DEF TypeInv, TypeOK, Ids
  <1>4. IsFiniteSet(Hands)
    BY DEF TypeInv, RoomInv
  <1>5. Cardinality(DOMAIN zset) \in Nat /\ Cardinality(Hands) \in Nat
    BY <1>3, <1>4, FS_CardinalityType
  <1>6. {MaxTime, MaxLog, MaxHeld, MaxFaults} \subseteq Nat
    BY QueueAssumption
  <1>. QED
    BY <1>1, <1>3, <1>4, <1>5, <1>6 DEF TypeInv, RoomInv, Ids

\* A step that touches neither the stream nor the set nor a hand.
QuietTypes ==
    /\ now \in 0..MaxTime /\ acked \subseteq Ids
    /\ due \in [Subs -> Seq(Ids)] /\ pc \in [Subs -> {"read", "claim", "append"}]
    /\ holds \subseteq Hold /\ settled \subseteq Jobs
    /\ added \in [1..MaxLog -> Nat] /\ lost \in [1..MaxLog -> Nat]
    /\ faults \in 0..MaxFaults

LEMMA QuietStep ==
    ASSUME TypeInv, UNCHANGED <<log, zset, hand>>,
           QuietTypes', HandsInv', HoldsKnown'
    PROVE  TypeInv'
  <1>1. TypeOK'
    BY DEF TypeInv, TypeOK, QuietTypes, Ids
  <1>2. RoomInv'
    BY DEF TypeInv, RoomInv, Hands
  <1>. QED
    BY <1>1, <1>2 DEF TypeInv

LEMMA Quiet == TypeInv => QuietTypes
  BY DEF TypeInv, TypeOK, QuietTypes

LEMMA PublishTypes ==
    ASSUME TypeInv, NEW j \in Jobs, Publish(j) PROVE TypeInv'
  <1>1. /\ log' = Append(log, [job |-> j, from |-> 0])
        /\ UNCHANGED <<acked, now, zset, pc, due, hand, holds, settled, added,
                       lost, faults>>
        /\ Len(log) + Cardinality(DOMAIN zset) + Cardinality(Hands) < MaxLog
    BY DEF Publish, Room, Hands
  <1>2. log \in Seq(Entry) /\ [job |-> j, from |-> 0] \in Entry
    BY DEF TypeInv, TypeOK, Entry
  <1>3. log' \in Seq(Entry) /\ Len(log') = Len(log) + 1
    BY <1>1, <1>2, AppendProperties
  <1>4. Ids \subseteq Ids'
    BY <1>3, Sizes DEF Ids
  <1>5. due' \in [Subs -> Seq(Ids')]
    <2>1. Seq(Ids) \subseteq Seq(Ids')
      BY <1>4
    <2>. QED
      BY <1>1, <2>1 DEF TypeInv, TypeOK
  <1>6. TypeOK'
    BY <1>1, <1>3, <1>4, <1>5 DEF TypeInv, TypeOK
  <1>7. HandsInv' /\ HoldsKnown'
    BY <1>1, <1>4 DEF TypeInv, HandsInv, HoldsKnown
  <1>8. RoomInv'
    BY <1>1, <1>3, Sizes DEF TypeInv, RoomInv, Hands
  <1>. QED
    BY <1>6, <1>7, <1>8 DEF TypeInv

LEMMA ExpireTypes == ASSUME TypeInv, Expire PROVE TypeInv'
  <1>1. /\ zset' = Empty /\ faults' = faults + 1 /\ faults < MaxFaults
        /\ lost' = [i \in DOMAIN lost |-> lost[i] + Queued(i)]
        /\ UNCHANGED <<log, acked, now, pc, due, hand, holds, settled, added>>
    BY DEF Expire
  <1>2. DOMAIN zset' = {} /\ zset' \in [DOMAIN zset' -> 0..MaxTime]
    BY <1>1 DEF Empty
  <1>3. lost' \in [1..MaxLog -> Nat]
    BY <1>1 DEF TypeInv, TypeOK, Queued
  <1>4. faults' \in 0..MaxFaults
    BY <1>1, Sizes DEF TypeInv, TypeOK
  <1>5. TypeOK'
    BY <1>1, <1>2, <1>3, <1>4 DEF TypeInv, TypeOK, Ids
  <1>6. HandsInv' /\ HoldsKnown'
    BY <1>1 DEF TypeInv, HandsInv, HoldsKnown, Ids
  <1>7. RoomInv'
    BY <1>1, <1>2, Sizes, FS_EmptySet DEF TypeInv, RoomInv, Hands
  <1>. QED
    BY <1>5, <1>6, <1>7 DEF TypeInv

LEMMA ScheduleTypes ==
    ASSUME TypeInv, NEW h \in holds, NEW delay \in Delays, Schedule(h, delay)
    PROVE  TypeInv'
  <1>1. /\ now + delay <= MaxTime /\ (Room \/ Queued(h.id) = 1)
        /\ zset' = [i \in DOMAIN zset \cup {h.id} |->
                       IF i = h.id THEN FireAt(delay) ELSE zset[i]]
        /\ added' = [added EXCEPT ![h.id] = @ + 1 - Queued(h.id)]
        /\ holds' = (holds \ {h}) \cup {[h EXCEPT !.stage = "scheduled"]}
        /\ UNCHANGED <<log, acked, now, pc, due, hand, settled, lost, faults>>
    BY DEF Schedule
  <1>2. h \in Hold /\ h.id \in Ids
    BY DEF TypeInv, TypeOK, HoldsKnown
  <1>3. DOMAIN zset' = DOMAIN zset \cup {h.id}
    BY <1>1
  <1>4. zset' \in [DOMAIN zset' -> 0..MaxTime]
    <2>1. FireAt(delay) \in 0..MaxTime
      BY <1>1, Sizes, QueueAssumption DEF FireAt, TypeInv, TypeOK
    <2>. QED
      BY <1>1, <2>1 DEF TypeInv, TypeOK
  <1>5. added' \in [1..MaxLog -> Nat]
    <2>1. h.id \in 1..MaxLog /\ added[h.id] \in Nat /\ added \in [1..MaxLog -> Nat]
      BY <1>2, Sizes DEF TypeInv, TypeOK
    <2>2. Queued(h.id) \in {0, 1}
      BY DEF Queued
    <2>3. added[h.id] + 1 - Queued(h.id) \in Nat
      BY <2>1, <2>2
    <2>. QED
      BY <1>1, <2>1, <2>3
  <1>6. holds' \subseteq Hold /\ HoldsKnown'
    BY <1>1, <1>2 DEF TypeInv, TypeOK, HoldsKnown, Hold, Ids
  <1>7. TypeOK'
    BY <1>1, <1>2, <1>3, <1>4, <1>5, <1>6 DEF TypeInv, TypeOK, Ids
  <1>8. HandsInv'
    BY <1>1 DEF TypeInv, HandsInv
  <1>9. RoomInv'
    <2>1. Hands' = Hands /\ log' = log
      BY <1>1 DEF Hands
    <2>2. CASE h.id \in DOMAIN zset
      BY <1>3, <2>1, <2>2 DEF TypeInv, RoomInv
    <2>3. CASE h.id \notin DOMAIN zset
      <3>1. Cardinality(DOMAIN zset') = Cardinality(DOMAIN zset) + 1
        BY <1>3, <2>3, Sizes, FS_AddElement
      <3>2. Len(log) + Cardinality(DOMAIN zset) + Cardinality(Hands) < MaxLog
        BY <1>1, <2>3 DEF Room, Queued, Hands
      <3>. QED
        BY <2>1, <3>1, <3>2, Sizes DEF RoomInv
    <2>. QED
      BY <2>2, <2>3
  <1>. QED
    BY <1>6, <1>7, <1>8, <1>9 DEF TypeInv

LEMMA SettleTypes ==
    ASSUME TypeInv, NEW h \in holds,
           ScheduleRefused(h) \/ AckScheduled(h) \/ Ack(h) \/ SettleFails(h)
    PROVE  TypeInv'
  <1>1. h \in Hold /\ h.id \in Ids /\ log[h.id].job \in Jobs
    <2>1. h \in Hold /\ h.id \in Ids
      BY DEF TypeInv, TypeOK, HoldsKnown
    <2>2. log[h.id] \in Entry
      BY <2>1, Sizes, ElementOfSeq DEF TypeInv, TypeOK, Ids
    <2>. QED
      BY <2>1, <2>2 DEF Entry
  <1>2. /\ UNCHANGED <<log, zset, hand, now, due, pc, added, lost>>
        /\ holds' = holds \ {h}
        /\ acked' \subseteq acked \cup {h.id}
        /\ settled' \subseteq settled \cup {log[h.id].job}
        /\ faults' = faults \/ (faults < MaxFaults /\ faults' = faults + 1)
    BY DEF ScheduleRefused, AckScheduled, Ack, SettleFails
  <1>3. faults' \in 0..MaxFaults
    BY <1>2, Sizes DEF TypeInv, TypeOK
  <1>4. QuietTypes'
    BY <1>1, <1>2, <1>3, Quiet DEF QuietTypes, Ids
  <1>5. HandsInv' /\ HoldsKnown'
    BY <1>2 DEF TypeInv, HandsInv, HoldsKnown, Ids
  <1>. QED
    BY <1>2, <1>4, <1>5, QuietStep

LEMMA DeliverTypes ==
    ASSUME TypeInv, NEW s \in Subs, NEW i \in Ids, Deliver(s, i)
    PROVE  TypeInv'
  <1>1. /\ UNCHANGED <<log, acked, now, zset, pc, due, hand, settled, added,
                       lost, faults>>
        /\ holds' = holds \cup {[sub |-> s, id |-> i, stage |-> "held"]}
    BY DEF Deliver
  <1>2. [sub |-> s, id |-> i, stage |-> "held"] \in Hold
    BY DEF Hold, Ids
  <1>3. QuietTypes'
    BY <1>1, <1>2, Quiet DEF QuietTypes, Ids
  <1>4. HandsInv' /\ HoldsKnown'
    BY <1>1 DEF TypeInv, HandsInv, HoldsKnown, Ids
  <1>. QED
    BY <1>1, <1>3, <1>4, QuietStep

-----------------------------------------------------------------------------
(* The sweep.                                                              *)

\* What is listed is queued, so it has an entry.
LEMMA ListTypes == ASSUME TypeInv, NEW s \in Subs, List(s) PROVE TypeInv'
  <1>1. PICK q \in Listings : due' = [due EXCEPT ![s] = q]
    BY DEF List
  <1>2. /\ UNCHANGED <<log, acked, now, zset, hand, holds, settled, added, lost,
                       faults>>
        /\ pc[s] = "read" /\ pc' = [pc EXCEPT ![s] = "claim"]
    BY DEF List
  <1>3. q \in Seq(Ids)
    <2>1. Listed \subseteq DOMAIN zset /\ DOMAIN zset \subseteq Ids
      BY DEF Listed, Ripe, TypeInv, TypeOK
    <2>2. Cardinality(Listed) \in Nat
      BY <2>1, Sizes, FS_Subset, FS_CardinalityType
    <2>3. q \in [1..Cardinality(Listed) -> Ids]
      BY <2>1 DEF Listings
    <2>. QED
      BY <2>2, <2>3, SeqDef
  <1>4. QuietTypes'
    BY <1>1, <1>2, <1>3, Quiet DEF QuietTypes, Ids
  <1>5. HandsInv' /\ HoldsKnown'
    BY <1>2 DEF TypeInv, TypeOK, HandsInv, HoldsKnown, Ids
  <1>. QED
    BY <1>2, <1>4, <1>5, QuietStep

LEMMA DueTail ==
    ASSUME TypeInv, NEW s \in Subs, due[s] # <<>>
    PROVE  /\ [due EXCEPT ![s] = Tail(@)] \in [Subs -> Seq(Ids)]
           /\ Head(due[s]) \in Ids
  <1>1. due \in [Subs -> Seq(Ids)]
    BY DEF TypeInv, TypeOK
  <1>2. Tail(due[s]) \in Seq(Ids) /\ Head(due[s]) \in Ids
    BY <1>1, HeadTailProperties
  <1>. QED
    BY <1>1, <1>2

LEMMA SkipTypes ==
    ASSUME TypeInv, NEW s \in Subs, Skip(s) \/ SweepEnds(s) PROVE TypeInv'
  <1>1. UNCHANGED <<log, acked, now, zset, hand, holds, settled, added, lost,
                    faults>>
    BY DEF Skip, SweepEnds
  <1>2. /\ due' \in [Subs -> Seq(Ids)]
        /\ pc' \in [Subs -> {"read", "claim", "append"}]
        /\ \A r \in Subs : pc'[r] = "append" <=> pc[r] = "append"
    <2>1. CASE Skip(s)
      BY <2>1, DueTail DEF Skip, TypeInv, TypeOK
    <2>2. CASE SweepEnds(s)
      BY <2>2 DEF SweepEnds, TypeInv, TypeOK
    <2>. QED
      BY <2>1, <2>2
  <1>3. QuietTypes'
    BY <1>1, <1>2, Quiet DEF QuietTypes, Ids
  <1>4. HandsInv' /\ HoldsKnown'
    BY <1>1, <1>2 DEF TypeInv, HandsInv, HoldsKnown, Ids
  <1>. QED
    BY <1>1, <1>3, <1>4, QuietStep

LEMMA ClaimTypes == ASSUME TypeInv, NEW s \in Subs, Claim(s) PROVE TypeInv'
  <1>. DEFINE i == Head(due[s])
  <1>1. /\ pc[s] = "claim" /\ zset' = Without(i)
        /\ due' = [due EXCEPT ![s] = Tail(@)]
        /\ UNCHANGED <<log, acked, now, holds, settled, added, lost, faults>>
        /\ IF i \in DOMAIN zset
           THEN /\ hand' = [hand EXCEPT ![s] = i]
                /\ pc' = [pc EXCEPT ![s] = "append"]
           ELSE UNCHANGED <<hand, pc>>
    BY DEF Claim, Removed
  <1>2. i \in Ids /\ i # 0 /\ due' \in [Subs -> Seq(Ids)]
    BY <1>1, DueTail DEF Claim, Ids
  <1>. HIDE DEF i
  <1>3. DOMAIN zset' = DOMAIN zset \ {i} /\ zset' \in [DOMAIN zset' -> 0..MaxTime]
    BY <1>1 DEF Without, TypeInv, TypeOK
  <1>4. /\ hand' \in [Subs -> {0} \cup Ids]
        /\ pc' \in [Subs -> {"read", "claim", "append"}]
        /\ HandsInv'
    <2>1. /\ hand \in [Subs -> {0} \cup Ids] /\ HandsInv
          /\ pc \in [Subs -> {"read", "claim", "append"}]
      BY DEF TypeInv, TypeOK
    <2>2. CASE i \in DOMAIN zset
      BY <1>1, <1>2, <2>1, <2>2 DEF HandsInv
    <2>3. CASE i \notin DOMAIN zset
      BY <1>1, <2>1, <2>3 DEF HandsInv
    <2>. QED
      BY <2>2, <2>3
  <1>5. TypeOK'
    BY <1>1, <1>2, <1>3, <1>4 DEF TypeInv, TypeOK, Ids
  <1>6. HoldsKnown'
    BY <1>1 DEF TypeInv, HoldsKnown, Ids
  <1>7. RoomInv'
    <2>1. CASE i \in DOMAIN zset
      <3>1. Cardinality(DOMAIN zset') = Cardinality(DOMAIN zset) - 1
        BY <1>3, <2>1, Sizes, FS_RemoveElement
      <3>2. hand[s] = 0 /\ s \notin Hands /\ Hands' = Hands \cup {s}
        BY <1>1, <1>2, <2>1 DEF Hands, TypeInv, TypeOK, HandsInv
      <3>3. IsFiniteSet(Hands') /\ Cardinality(Hands') = Cardinality(Hands) + 1
        BY <3>2, Sizes, FS_AddElement
      <3>. QED
        BY <1>1, <3>1, <3>3, Sizes DEF TypeInv, RoomInv
    <2>2. CASE i \notin DOMAIN zset
      BY <1>1, <1>3, <2>2 DEF TypeInv, RoomInv, Hands
    <2>. QED
      BY <2>1, <2>2
  <1>. QED
    BY <1>4, <1>5, <1>6, <1>7 DEF TypeInv

LEMMA HandEmptied ==
    ASSUME TypeInv, NEW s \in Subs, hand' = [hand EXCEPT ![s] = 0]
    PROVE  /\ Hands' = Hands \ {s}
           /\ IsFiniteSet(Hands') /\ Cardinality(Hands') \in Nat
           /\ Cardinality(Hands') =
                 IF s \in Hands THEN Cardinality(Hands) - 1 ELSE Cardinality(Hands)
  <1>1. Hands' = Hands \ {s}
    BY DEF Hands, TypeInv, TypeOK
  <1>. QED
    BY <1>1, Sizes, FS_RemoveElement, FS_CardinalityType

LEMMA AppendTypes == ASSUME TypeInv, NEW s \in Subs, AppendCopy(s) PROVE TypeInv'
  <1>. DEFINE e == [job |-> log[hand[s]].job, from |-> hand[s]]
  <1>1. /\ pc[s] = "append" /\ log' = Append(log, e)
        /\ hand' = [hand EXCEPT ![s] = 0] /\ pc' = [pc EXCEPT ![s] = "claim"]
        /\ UNCHANGED <<acked, now, zset, due, holds, settled, added, lost, faults>>
    BY DEF AppendCopy
  <1>2. s \in Hands /\ hand[s] \in Ids
    BY <1>1 DEF TypeInv, TypeOK, HandsInv, Hands
  <1>3. e \in Entry
    <2>a. hand[s] \in 1..Len(log) /\ Len(log) \in Nat /\ log \in Seq(Entry)
      BY <1>2, Sizes DEF TypeInv, TypeOK, Ids
    <2>1. log[hand[s]] \in Entry /\ hand[s] \in Nat
      BY <2>a, ElementOfSeq
    <2>. QED
      BY <2>1 DEF Entry
  <1>. HIDE DEF e
  <1>4. log' \in Seq(Entry) /\ Len(log') = Len(log) + 1
    BY <1>1, <1>3, AppendProperties DEF TypeInv, TypeOK
  <1>5. Ids \subseteq Ids'
    BY <1>4, Sizes DEF Ids
  <1>6. due' \in [Subs -> Seq(Ids')]
    <2>1. Seq(Ids) \subseteq Seq(Ids')
      BY <1>5
    <2>. QED
      BY <1>1, <2>1 DEF TypeInv, TypeOK
  <1>7. TypeOK'
    BY <1>1, <1>4, <1>5, <1>6 DEF TypeInv, TypeOK
  <1>8. HandsInv' /\ HoldsKnown'
    BY <1>1, <1>5 DEF TypeInv, TypeOK, HandsInv, HoldsKnown
  <1>9. RoomInv'
    <2>1. IsFiniteSet(Hands') /\ Cardinality(Hands') = Cardinality(Hands) - 1
      BY <1>1, <1>2, HandEmptied
    <2>2. Len(log) + Cardinality(DOMAIN zset) + Cardinality(Hands) <= MaxLog
      BY DEF TypeInv, RoomInv
    <2>. QED
      BY <1>1, <1>4, <2>1, <2>2, Sizes DEF RoomInv
  <1>. QED
    BY <1>7, <1>8, <1>9 DEF TypeInv

LEMMA EndTypes ==
    ASSUME TypeInv, NEW s \in Subs, SweepFails(s) \/ Crash(s) PROVE TypeInv'
  <1>1. /\ lost' = IF pc[s] = "append" THEN [lost EXCEPT ![hand[s]] = @ + 1]
                                       ELSE lost
        /\ hand' = [hand EXCEPT ![s] = 0] /\ due' = [due EXCEPT ![s] = <<>>]
        /\ pc' = [pc EXCEPT ![s] = "read"]
        /\ holds' \subseteq holds
        /\ faults < MaxFaults /\ faults' = faults + 1
        /\ UNCHANGED <<log, acked, now, zset, settled, added>>
    BY DEF SweepFails, Crash
  <1>2. lost' \in [1..MaxLog -> Nat]
    <2>1. lost \in [1..MaxLog -> Nat] /\ (pc[s] = "append" => hand[s] \in 1..MaxLog)
      BY Sizes DEF TypeInv, TypeOK, HandsInv
    <2>. QED
      BY <1>1, <2>1
  <1>3. due' \in [Subs -> Seq(Ids)]
    <2>1. <<>> \in Seq(Ids)
      BY EmptySeq
    <2>. QED
      BY <1>1, <2>1 DEF TypeInv, TypeOK
  <1>4. faults' \in 0..MaxFaults
    <2>1. faults \in 0..MaxFaults /\ MaxFaults \in Nat
      BY Sizes DEF TypeInv, TypeOK
    <2>. QED
      BY <1>1, <2>1
  <1>5. TypeOK'
    BY <1>1, <1>2, <1>3, <1>4 DEF TypeInv, TypeOK, Ids
  <1>6. HandsInv' /\ HoldsKnown'
    BY <1>1 DEF TypeInv, TypeOK, HandsInv, HoldsKnown, Ids
  <1>7. RoomInv'
    <2>1. /\ IsFiniteSet(Hands') /\ Cardinality(Hands') \in Nat
          /\ \/ Cardinality(Hands') = Cardinality(Hands) - 1
             \/ Cardinality(Hands') = Cardinality(Hands)
      BY <1>1, HandEmptied
    <2>2. Len(log) + Cardinality(DOMAIN zset) + Cardinality(Hands) <= MaxLog
      BY DEF TypeInv, RoomInv
    <2>. QED
      BY <1>1, <2>1, <2>2, Sizes DEF RoomInv
  <1>. QED
    BY <1>5, <1>6, <1>7 DEF TypeInv

LEMMA TypeStep == TypeInv /\ [Next]_vars => TypeInv'
  <1> SUFFICES ASSUME TypeInv, [Next]_vars PROVE TypeInv'
    OBVIOUS
  <1>1. ASSUME Tick PROVE TypeInv'
    <2>1. /\ now < MaxTime /\ now' = now + 1
          /\ UNCHANGED <<log, acked, zset, pc, due, hand, holds, settled, added,
                         lost, faults>>
      BY <1>1 DEF Tick
    <2>2. QuietTypes'
      BY <2>1, Sizes, Quiet DEF QuietTypes, Ids
    <2>3. HandsInv' /\ HoldsKnown'
      BY <2>1 DEF TypeInv, HandsInv, HoldsKnown, Ids
    <2>. QED
      BY <2>1, <2>2, <2>3, QuietStep
  <1>2. ASSUME UNCHANGED vars PROVE TypeInv'
    <2>1. QuietTypes' /\ HandsInv' /\ HoldsKnown'
      BY <1>2, Quiet DEF QuietTypes, Ids, vars, TypeInv, HandsInv, HoldsKnown
    <2>. QED
      BY <1>2, <2>1, QuietStep DEF vars
  <1>3. ASSUME NEW s \in Subs, Sweep(s) PROVE TypeInv'
    BY <1>3, ListTypes, SkipTypes, ClaimTypes, AppendTypes DEF Sweep
  <1>4. ASSUME NEW h \in holds, Settle(h) PROVE TypeInv'
    BY <1>4, ScheduleTypes, SettleTypes DEF Settle
  <1>. QED
    BY <1>1, <1>2, <1>3, <1>4, PublishTypes, ExpireTypes, EndTypes, DeliverTypes,
       SettleTypes DEF Next

LEMMA InitTypes == Init => TypeInv
  <1> SUFFICES ASSUME Init PROVE TypeInv
    OBVIOUS
  <1>1. log = <<>> /\ Len(log) = 0 /\ log \in Seq(Entry)
    BY EmptySeq DEF Init
  <1>2. DOMAIN zset = {} /\ zset \in [DOMAIN zset -> 0..MaxTime]
    BY DEF Init, Empty
  <1>3. Hands = {}
    BY DEF Hands, Init
  <1>4. RoomInv
    BY <1>1, <1>2, <1>3, FS_EmptySet, QueueAssumption DEF RoomInv
  <1>5. due \in [Subs -> Seq(Ids)]
    BY EmptySeq DEF Init
  <1>6. /\ acked = {} /\ holds = {} /\ settled = {}
        /\ now \in 0..MaxTime /\ faults \in 0..MaxFaults
    BY QueueAssumption DEF Init
  <1>7. /\ pc \in [Subs -> {"read", "claim", "append"}]
        /\ hand \in [Subs -> {0} \cup Ids]
        /\ added \in [1..MaxLog -> Nat] /\ lost \in [1..MaxLog -> Nat]
        /\ \A s \in Subs : pc[s] # "append" /\ hand[s] = 0
    BY DEF Init
  <1>. QED
    BY <1>1, <1>2, <1>4, <1>5, <1>6, <1>7 DEF TypeInv, TypeOK, HandsInv, HoldsKnown

\* Every variable keeps its type: what is listed, claimed, queued, held or
\* acknowledged is always an entry of the stream (delay.rs:243-333).
THEOREM TypeCorrect == Spec => []TypeOK
  <1>1. TypeInv => TypeOK
    BY DEF TypeInv
  <1>. QED
    BY <1>1, InitTypes, TypeStep, PTL DEF Spec

-----------------------------------------------------------------------------
(* Where the members go.                                                   *)

HandOf(i) == {s \in Subs : pc[s] = "append" /\ hand[s] = i}
CopiesOf(i) == {j \in Ids : log[j].from = i}

\* Each time an entry became a member is accounted for, whether or not there
\* is an entry of that id yet.
CountInv == \A i \in 1..MaxLog :
                added[i] = Queued(i) + InHand(i) + Copies(i) + lost[i]

LEMMA Counts ==
    ASSUME TypeInv, NEW i \in 1..MaxLog
    PROVE  /\ IsFiniteSet(HandOf(i)) /\ IsFiniteSet(CopiesOf(i))
           /\ InHand(i) = Cardinality(HandOf(i)) /\ InHand(i) \in Nat
           /\ Copies(i) = Cardinality(CopiesOf(i)) /\ Copies(i) \in Nat
           /\ Queued(i) \in {0, 1}
           /\ added[i] \in Nat /\ lost[i] \in Nat
           /\ HandOf(i) = {s \in Subs : hand[s] = i}
  <1>1. IsFiniteSet(HandOf(i))
    <2>1. HandOf(i) \subseteq Hands
      BY DEF HandOf, Hands
    <2>. QED
      BY <2>1, Sizes, FS_Subset
  <1>2. IsFiniteSet(CopiesOf(i))
    <2>1. CopiesOf(i) \subseteq 1..Len(log)
      BY DEF CopiesOf, Ids
    <2>2. IsFiniteSet(1..Len(log))
      BY Sizes, FS_Interval
    <2>. QED
      BY <2>1, <2>2, FS_Subset
  <1>3. InHand(i) = Cardinality(HandOf(i)) /\ Copies(i) = Cardinality(CopiesOf(i))
    BY DEF InHand, HandOf, Copies, CopiesOf
  <1>4. added[i] \in Nat /\ lost[i] \in Nat
    BY DEF TypeInv, TypeOK
  <1>5. HandOf(i) = {s \in Subs : hand[s] = i}
    BY DEF HandOf, TypeInv, HandsInv
  <1>. QED
    BY <1>1, <1>2, <1>3, <1>4, <1>5, FS_CardinalityType DEF Queued

\* A step that moves no member, takes none in hand and appends nothing.
LEMMA CountsStay ==
    ASSUME TypeInv, TypeInv', CountInv, DOMAIN zset' = DOMAIN zset,
           UNCHANGED <<log, hand, added, lost>>
    PROVE  CountInv'
  <1> SUFFICES ASSUME NEW i \in 1..MaxLog
               PROVE  (added[i] = Queued(i) + InHand(i) + Copies(i) + lost[i])'
    BY DEF CountInv
  <1>1. HandOf(i)' = HandOf(i)
    BY Counts DEF HandOf, TypeInv, HandsInv
  <1>2. Copies(i)' = Copies(i) /\ Queued(i)' = Queued(i)
    BY DEF Copies, Ids, Queued
  <1>3. InHand(i)' = InHand(i)
    BY <1>1 DEF InHand, HandOf
  <1>. QED
    BY <1>2, <1>3 DEF CountInv

LEMMA PublishCounts ==
    ASSUME TypeInv, TypeInv', CountInv, NEW j \in Jobs, Publish(j)
    PROVE  CountInv'
  <1> SUFFICES ASSUME NEW i \in 1..MaxLog
               PROVE  (added[i] = Queued(i) + InHand(i) + Copies(i) + lost[i])'
    BY DEF CountInv
  <1>1. /\ log' = Append(log, [job |-> j, from |-> 0])
        /\ UNCHANGED <<zset, pc, hand, added, lost>>
    BY DEF Publish
  <1>2. /\ Len(log') = Len(log) + 1 /\ log'[Len(log) + 1].from = 0
        /\ \A k \in 1..Len(log) : log'[k] = log[k]
    <2>1. log \in Seq(Entry) /\ [job |-> j, from |-> 0] \in Entry
      BY DEF TypeInv, TypeOK, Entry
    <2>. QED
      BY <1>1, <2>1, AppendProperties
  <1>3. CopiesOf(i)' = CopiesOf(i)
    BY <1>2, Sizes DEF CopiesOf, Ids
  <1>4. Copies(i)' = Copies(i)
    BY <1>3 DEF Copies, CopiesOf
  <1>5. InHand(i)' = InHand(i) /\ Queued(i)' = Queued(i)
    BY <1>1 DEF InHand, Queued
  <1>. QED
    BY <1>1, <1>4, <1>5 DEF CountInv

LEMMA ExpireCounts ==
    ASSUME TypeInv, TypeInv', CountInv, Expire PROVE CountInv'
  <1> SUFFICES ASSUME NEW i \in 1..MaxLog
               PROVE  (added[i] = Queued(i) + InHand(i) + Copies(i) + lost[i])'
    BY DEF CountInv
  <1>1. /\ DOMAIN zset' = {} /\ lost'[i] = lost[i] + Queued(i)
        /\ UNCHANGED <<log, pc, hand, added>>
    BY DEF Expire, Empty, TypeInv, TypeOK
  <1>2. InHand(i)' = InHand(i) /\ Copies(i)' = Copies(i) /\ Queued(i)' = 0
    BY <1>1 DEF InHand, Copies, Ids, Queued
  <1>. QED
    BY <1>1, <1>2, Counts DEF CountInv

LEMMA ScheduleCounts ==
    ASSUME TypeInv, TypeInv', CountInv, NEW h \in holds, NEW delay \in Delays,
           Schedule(h, delay)
    PROVE  CountInv'
  <1> SUFFICES ASSUME NEW i \in 1..MaxLog
               PROVE  (added[i] = Queued(i) + InHand(i) + Copies(i) + lost[i])'
    BY DEF CountInv
  <1>1. /\ DOMAIN zset' = DOMAIN zset \cup {h.id}
        /\ added' = [added EXCEPT ![h.id] = @ + 1 - Queued(h.id)]
        /\ UNCHANGED <<log, pc, hand, lost>>
    BY DEF Schedule
  <1>2. InHand(i)' = InHand(i) /\ Copies(i)' = Copies(i)
    BY <1>1 DEF InHand, Copies, Ids
  <1>3. CASE i = h.id
    <2>1. added'[i] = added[i] + 1 - Queued(i) /\ Queued(i)' = 1
      BY <1>1, <1>3 DEF TypeInv, TypeOK, Queued
    <2>. QED
      BY <1>1, <1>2, <2>1, Counts DEF CountInv
  <1>4. CASE i # h.id
    <2>1. added'[i] = added[i] /\ Queued(i)' = Queued(i)
      BY <1>1, <1>4 DEF TypeInv, TypeOK, Queued
    <2>. QED
      BY <1>1, <1>2, <2>1 DEF CountInv
  <1>. QED
    BY <1>3, <1>4

LEMMA ClaimCounts ==
    ASSUME TypeInv, TypeInv', CountInv, NEW s \in Subs, Claim(s) PROVE CountInv'
  <1> SUFFICES ASSUME NEW i \in 1..MaxLog
               PROVE  (added[i] = Queued(i) + InHand(i) + Copies(i) + lost[i])'
    BY DEF CountInv
  <1>. DEFINE m == Head(due[s])
  <1>1. /\ pc[s] = "claim" /\ DOMAIN zset' = DOMAIN zset \ {m}
        /\ UNCHANGED <<log, added, lost>>
        /\ IF m \in DOMAIN zset
           THEN /\ hand' = [hand EXCEPT ![s] = m]
                /\ pc' = [pc EXCEPT ![s] = "append"]
           ELSE UNCHANGED <<hand, pc>>
    BY DEF Claim, Removed, Without
  <1>. HIDE DEF m
  <1>2. Copies(i)' = Copies(i)
    BY <1>1 DEF Copies, Ids
  <1>3. CASE m \in DOMAIN zset /\ i = m
    <2>1. Queued(i) = 1 /\ Queued(i)' = 0
      BY <1>1, <1>3 DEF Queued
    <2>2. s \notin HandOf(i) /\ HandOf(i)' = HandOf(i) \cup {s}
      BY <1>1, <1>3 DEF HandOf, TypeInv, TypeOK
    <2>a. IsFiniteSet(HandOf(i)) /\ InHand(i) = Cardinality(HandOf(i))
      BY Counts
    <2>3. Cardinality(HandOf(i) \cup {s}) = Cardinality(HandOf(i)) + 1
      BY <2>2, <2>a, FS_AddElement
    <2>b. InHand(i)' = Cardinality(HandOf(i)')
      BY DEF InHand, HandOf
    <2>4. InHand(i)' = InHand(i) + 1
      BY <2>2, <2>3, <2>a, <2>b
    <2>. QED
      BY <1>1, <1>2, <2>1, <2>4, Counts DEF CountInv
  <1>4. CASE m \notin DOMAIN zset \/ i # m
    <2>1. Queued(i)' = Queued(i)
      BY <1>1, <1>4 DEF Queued
    <2>2. HandOf(i)' = HandOf(i)
      BY <1>1, <1>4 DEF HandOf, TypeInv, TypeOK
    <2>3. InHand(i)' = InHand(i)
      BY <2>2 DEF InHand, HandOf
    <2>. QED
      BY <1>1, <1>2, <2>1, <2>3 DEF CountInv
  <1>. QED
    BY <1>3, <1>4

\* A hand is emptied: the count of what was in it falls by one.
LEMMA HandOfEmptied ==
    ASSUME TypeInv, TypeInv', NEW s \in Subs, hand' = [hand EXCEPT ![s] = 0],
           NEW i \in 1..MaxLog
    PROVE  InHand(i)' = IF hand[s] = i THEN InHand(i) - 1 ELSE InHand(i)
  <1>1. HandOf(i) = {r \in Subs : hand[r] = i}
    BY Counts
  <1>2. HandOf(i)' = {r \in Subs : hand'[r] = i}
    BY DEF HandOf, TypeInv, HandsInv
  <1>3. HandOf(i)' = HandOf(i) \ {s}
    BY <1>1, <1>2 DEF TypeInv, TypeOK
  <1>a. IsFiniteSet(HandOf(i)) /\ InHand(i) = Cardinality(HandOf(i))
    BY Counts
  <1>4. Cardinality(HandOf(i) \ {s}) =
           IF s \in HandOf(i) THEN Cardinality(HandOf(i)) - 1
           ELSE Cardinality(HandOf(i))
    BY <1>a, FS_RemoveElement
  <1>5. InHand(i)' = Cardinality(HandOf(i)')
    BY DEF InHand, HandOf
  <1>. QED
    BY <1>1, <1>3, <1>4, <1>5, <1>a

LEMMA AppendCounts ==
    ASSUME TypeInv, TypeInv', CountInv, NEW s \in Subs, AppendCopy(s)
    PROVE  CountInv'
  <1> SUFFICES ASSUME NEW i \in 1..MaxLog
               PROVE  (added[i] = Queued(i) + InHand(i) + Copies(i) + lost[i])'
    BY DEF CountInv
  <1>1. /\ pc[s] = "append" /\ hand' = [hand EXCEPT ![s] = 0]
        /\ log' = Append(log, [job |-> log[hand[s]].job, from |-> hand[s]])
        /\ UNCHANGED <<zset, added, lost>>
    BY DEF AppendCopy
  <1>2. /\ Len(log') = Len(log) + 1 /\ log'[Len(log) + 1].from = hand[s]
        /\ \A k \in 1..Len(log) : log'[k] = log[k]
    <2>1. log \in Seq(Entry)
      BY DEF TypeInv, TypeOK
    <2>2. hand[s] \in 1..Len(log)
      BY <1>1 DEF TypeInv, TypeOK, HandsInv, Ids
    <2>3. [job |-> log[hand[s]].job, from |-> hand[s]] \in Entry
      <3>1. log[hand[s]] \in Entry /\ hand[s] \in Nat
        BY <2>1, <2>2, ElementOfSeq
      <3>. QED
        BY <3>1 DEF Entry
    <2>. QED
      BY <1>1, <2>1, <2>3, AppendProperties
  <1>3. InHand(i)' = IF hand[s] = i THEN InHand(i) - 1 ELSE InHand(i)
    BY <1>1, HandOfEmptied
  <1>4. Copies(i)' = IF hand[s] = i THEN Copies(i) + 1 ELSE Copies(i)
    <2>1. CopiesOf(i)' = IF hand[s] = i THEN CopiesOf(i) \cup {Len(log) + 1}
                         ELSE CopiesOf(i)
      BY <1>2, Sizes DEF CopiesOf, Ids
    <2>2. Len(log) + 1 \notin CopiesOf(i)
      BY Sizes DEF CopiesOf, Ids
    <2>3. Cardinality(CopiesOf(i) \cup {Len(log) + 1}) = Cardinality(CopiesOf(i)) + 1
      BY <2>2, Counts, FS_AddElement
    <2>4. Copies(i)' = Cardinality(CopiesOf(i)')
      BY DEF Copies, CopiesOf
    <2>. QED
      BY <2>1, <2>3, <2>4, Counts
  <1>5. Queued(i)' = Queued(i)
    BY <1>1 DEF Queued
  <1>6. /\ InHand(i) \in Nat /\ Copies(i) \in Nat /\ Queued(i) \in {0, 1}
        /\ added[i] \in Nat /\ lost[i] \in Nat
        /\ added[i] = Queued(i) + InHand(i) + Copies(i) + lost[i]
        /\ added'[i] = added[i] /\ lost'[i] = lost[i]
    BY <1>1, Counts DEF CountInv
  <1>7. added'[i] = Queued(i)' + InHand(i)' + Copies(i)' + lost'[i]
    BY ONLY <1>3, <1>4, <1>5, <1>6
  <1>. QED
    BY <1>7

LEMMA EndCounts ==
    ASSUME TypeInv, TypeInv', CountInv, NEW s \in Subs, SweepFails(s) \/ Crash(s)
    PROVE  CountInv'
  <1> SUFFICES ASSUME NEW i \in 1..MaxLog
               PROVE  (added[i] = Queued(i) + InHand(i) + Copies(i) + lost[i])'
    BY DEF CountInv
  <1>1. /\ lost' = IF pc[s] = "append" THEN [lost EXCEPT ![hand[s]] = @ + 1]
                                       ELSE lost
        /\ hand' = [hand EXCEPT ![s] = 0]
        /\ UNCHANGED <<log, zset, added>>
    BY DEF SweepFails, Crash
  <1>2. InHand(i)' = IF hand[s] = i THEN InHand(i) - 1 ELSE InHand(i)
    BY <1>1, HandOfEmptied
  <1>3. lost'[i] = IF hand[s] = i THEN lost[i] + 1 ELSE lost[i]
    BY <1>1 DEF TypeInv, TypeOK, HandsInv
  <1>4. Queued(i)' = Queued(i) /\ Copies(i)' = Copies(i)
    BY <1>1 DEF Queued, Copies, Ids
  <1>. QED
    BY <1>1, <1>2, <1>3, <1>4, Counts DEF CountInv

LEMMA CountStep == TypeInv /\ TypeInv' /\ CountInv /\ [Next]_vars => CountInv'
  <1> SUFFICES ASSUME TypeInv, TypeInv', CountInv, [Next]_vars PROVE CountInv'
    OBVIOUS
  <1>1. ASSUME Tick \/ UNCHANGED vars PROVE CountInv'
    BY <1>1, CountsStay DEF Tick, vars
  <1>2. ASSUME NEW s \in Subs, Sweep(s) PROVE CountInv'
    <2>1. CASE List(s) \/ Skip(s) \/ SweepEnds(s)
      BY <2>1, CountsStay DEF List, Skip, SweepEnds
    <2>. QED
      BY <1>2, <2>1, ClaimCounts, AppendCounts DEF Sweep
  <1>3. ASSUME NEW h \in holds,
               \/ ScheduleRefused(h) \/ AckScheduled(h) \/ Ack(h) \/ SettleFails(h)
        PROVE  CountInv'
    BY <1>3, CountsStay DEF ScheduleRefused, AckScheduled, Ack, SettleFails
  <1>4. ASSUME NEW s \in Subs, NEW i \in Ids, Deliver(s, i) PROVE CountInv'
    BY <1>4, CountsStay DEF Deliver
  <1>. QED
    BY <1>1, <1>2, <1>3, <1>4, PublishCounts, ExpireCounts, ScheduleCounts,
       EndCounts DEF Next, Settle

LEMMA InitCounts == Init => CountInv
  <1> SUFFICES ASSUME Init, NEW i \in 1..MaxLog
               PROVE  added[i] = Queued(i) + InHand(i) + Copies(i) + lost[i]
    BY DEF CountInv
  <1>1. added[i] = 0 /\ lost[i] = 0 /\ Queued(i) = 0
    BY DEF Init, Queued, Empty
  <1>2. HandOf(i) = {} /\ InHand(i) = Cardinality(HandOf(i))
    BY DEF Init, HandOf, InHand
  <1>3. CopiesOf(i) = {} /\ Copies(i) = Cardinality(CopiesOf(i))
    <2>1. Len(log) = 0
      BY EmptySeq DEF Init
    <2>. QED
      BY <2>1 DEF CopiesOf, Copies, Ids
  <1>. QED
    BY <1>1, <1>2, <1>3, FS_EmptySet

\* However many sweepers list the same members, however often an entry is
\* retried again, and whatever of it fails: each time it was queued it is in
\* one place (delay.rs:295-333).
THEOREM QueuedOnce == Spec => []EachQueuedOnce
  <1>1. TypeInv /\ CountInv => EachQueuedOnce
    BY Sizes DEF CountInv, EachQueuedOnce
  <1>. QED
    BY <1>1, InitTypes, TypeStep, InitCounts, CountStep, PTL DEF Spec

-----------------------------------------------------------------------------
(* What an acknowledgement rests on.                                       *)

\* An entry that was acked, and one whose copy a handler has scheduled and is
\* about to ack, was queued or settled.
ScheduledAdded == \A h \in holds : h.stage = "scheduled" => added[h.id] > 0
AckedAdded == \A i \in acked : log[i].job \in settled \/ added[i] > 0
AckInv == ScheduledAdded /\ AckedAdded

LEMMA AckStep == TypeInv /\ CountInv /\ AckInv /\ [Next]_vars => AckInv'
  <1> SUFFICES ASSUME TypeInv, CountInv, AckInv, [Next]_vars PROVE AckInv'
    OBVIOUS
  <1>a. /\ acked \subseteq 1..Len(log) /\ Len(log) \in Nat /\ log \in Seq(Entry)
        /\ \A h \in holds : h.id \in 1..MaxLog
        /\ \A i \in acked : i \in 1..MaxLog
        /\ added \in [1..MaxLog -> Nat]
    BY Sizes DEF TypeInv, TypeOK, HoldsKnown, Ids
  \* Steps that keep the entries, take back deliveries or hand out new ones.
  <1>b. ASSUME \A i \in 1..Len(log) : log'[i] = log[i],
               \A h \in holds' : h \in holds \/ h.stage = "held",
               UNCHANGED <<settled, added, acked>>
        PROVE  AckInv'
    BY <1>a, <1>b DEF AckInv, ScheduledAdded, AckedAdded
  <1>1. ASSUME NEW j \in Jobs, Publish(j) PROVE AckInv'
    <2>1. [job |-> j, from |-> 0] \in Entry
      BY DEF Entry
    <2>2. \A i \in 1..Len(log) : log'[i] = log[i]
      BY <1>1, <1>a, <2>1, AppendProperties DEF Publish
    <2>. QED
      BY <1>1, <1>b, <2>2 DEF Publish
  <1>2. ASSUME NEW s \in Subs, AppendCopy(s) PROVE AckInv'
    <2>1. hand[s] \in 1..Len(log)
      BY <1>2 DEF AppendCopy, TypeInv, TypeOK, HandsInv, Ids
    <2>2. [job |-> log[hand[s]].job, from |-> hand[s]] \in Entry
      <3>1. log[hand[s]] \in Entry /\ hand[s] \in Nat
        BY <1>a, <2>1, ElementOfSeq
      <3>. QED
        BY <3>1 DEF Entry
    <2>3. \A i \in 1..Len(log) : log'[i] = log[i]
      BY <1>2, <1>a, <2>2, AppendProperties DEF AppendCopy
    <2>. QED
      BY <1>2, <1>b, <2>3 DEF AppendCopy
  <1>3. ASSUME NEW h \in holds, NEW delay \in Delays, Schedule(h, delay)
        PROVE  AckInv'
    <2>1. /\ added' = [added EXCEPT ![h.id] = @ + 1 - Queued(h.id)]
          /\ holds' = (holds \ {h}) \cup {[h EXCEPT !.stage = "scheduled"]}
          /\ UNCHANGED <<log, acked, settled>>
      BY <1>3 DEF Schedule
    <2>2. h \in Hold /\ h.id \in 1..MaxLog
      BY <1>a DEF TypeInv, TypeOK
    <2>3. Queued(h.id) \in {0, 1} /\ Queued(h.id) <= added[h.id]
      <3>1. /\ InHand(h.id) \in Nat /\ Copies(h.id) \in Nat
            /\ Queued(h.id) \in {0, 1} /\ lost[h.id] \in Nat
        BY <2>2, Counts
      <3>2. added[h.id] =
               Queued(h.id) + InHand(h.id) + Copies(h.id) + lost[h.id]
        BY <2>2 DEF CountInv
      <3>. QED
        BY <3>1, <3>2
    <2>4. added'[h.id] > 0 /\ \A i \in 1..MaxLog : added'[i] >= added[i]
      BY <1>a, <2>1, <2>2, <2>3
    <2>5. ScheduledAdded'
      <3> SUFFICES ASSUME NEW g \in holds', g.stage = "scheduled"
                   PROVE  added'[g.id] > 0
        BY DEF ScheduledAdded
      <3>1. CASE g \in holds
        <4>1. added[g.id] > 0 /\ added[g.id] \in Nat /\ g.id \in 1..MaxLog
          BY <1>a, <3>1 DEF AckInv, ScheduledAdded
        <4>2. added'[g.id] \in Nat
          BY <1>a, <2>1, <2>2, <2>3, <4>1
        <4>. QED
          BY <2>4, <4>1, <4>2
      <3>2. CASE g = [h EXCEPT !.stage = "scheduled"]
        BY <2>2, <2>4, <3>2 DEF Hold
      <3>. QED
        BY <2>1, <3>1, <3>2
    <2>6. AckedAdded'
      <3> SUFFICES ASSUME NEW i \in acked, log[i].job \notin settled
                   PROVE  added'[i] > 0
        BY <2>1 DEF AckedAdded
      <3>1. added[i] > 0 /\ added[i] \in Nat /\ i \in 1..MaxLog
        BY <1>a DEF AckInv, AckedAdded
      <3>2. added'[i] \in Nat
        BY <1>a, <2>1, <2>2, <2>3, <3>1
      <3>. QED
        BY <2>4, <3>1, <3>2
    <2>. QED
      BY <2>5, <2>6 DEF AckInv
  <1>4. ASSUME NEW h \in holds, AckScheduled(h) PROVE AckInv'
    BY <1>4 DEF AckScheduled, AckInv, ScheduledAdded, AckedAdded
  <1>5. ASSUME NEW h \in holds, Ack(h) PROVE AckInv'
    BY <1>5 DEF Ack, AckInv, ScheduledAdded, AckedAdded
  <1>6. ASSUME NEW h \in holds, ScheduleRefused(h) \/ SettleFails(h)
        PROVE  AckInv'
    BY <1>6, <1>b DEF ScheduleRefused, SettleFails
  <1>7. ASSUME NEW s \in Subs, NEW i \in Ids, Deliver(s, i) PROVE AckInv'
    BY <1>7, <1>b DEF Deliver
  <1>8. ASSUME NEW s \in Subs,
               \/ List(s) \/ Skip(s) \/ Claim(s) \/ SweepEnds(s)
               \/ SweepFails(s) \/ Crash(s)
        PROVE  AckInv'
    BY <1>8, <1>b DEF List, Skip, Claim, SweepEnds, SweepFails, Crash
  <1>9. ASSUME Tick \/ Expire \/ UNCHANGED vars PROVE AckInv'
    BY <1>9, <1>b DEF Tick, Expire, vars
  <1>. QED
    BY <1>1, <1>2, <1>3, <1>4, <1>5, <1>6, <1>7, <1>8, <1>9
    DEF Next, Sweep, Settle

\* Whatever handlers, sweepers and deliveries there are: an entry is acked for
\* good, or its retry is on its way, or it was lost after it was queued
\* (delay.rs:255-258, message.rs:275-276).
THEOREM AckedQueued == Spec => []AckedOnlyWhenQueued
  <1>1. Init => AckInv
    BY DEF Init, AckInv, ScheduledAdded, AckedAdded
  <1>2. TypeInv /\ CountInv /\ AckInv => AckedOnlyWhenQueued
    <2> SUFFICES ASSUME TypeInv, CountInv, AckInv, NEW i \in acked,
                        log[i].job \notin settled
                 PROVE  Queued(i) + InHand(i) + Copies(i) + lost[i] > 0
      BY DEF AckedOnlyWhenQueued
    <2>1. i \in 1..MaxLog
      BY Sizes DEF TypeInv, TypeOK
    <2>. QED
      BY <2>1 DEF CountInv, AckInv, AckedAdded
  <1>. QED
    BY <1>1, <1>2, InitTypes, TypeStep, InitCounts, CountStep, AckStep, PTL DEF Spec
=============================================================================
