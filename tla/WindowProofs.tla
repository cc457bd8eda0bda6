---------------------------- MODULE WindowProofs ----------------------------
(***************************************************************************)
(* Proofs about Window, for any mounts, verdicts and bounds.                *)
(***************************************************************************)
EXTENDS Window, FiniteSetTheorems, SequenceTheorems, TLAPS

-----------------------------------------------------------------------------
(* Which steps there are, and what most of them leave alone.               *)

\* The steps of a settle behind its first.
MovesOn(d) ==
    /\ stage[d] \in Settling
    /\ \E x \in {"sealing", "counting", "settled"} :
          x # stage[d] /\ stage' = [stage EXCEPT ![d] = x]
    /\ UNCHANGED <<mount, stream, round, verdict, segment, queued, failure>>

\* The stream, the slots, the deliveries and what the window owes stand still.
Still ==
    UNCHANGED <<mount, read, buffer, stage, round, verdict, segment, hands,
                staged, outstanding, queued>>

LEMMA SettleMovesOn ==
    ASSUME NEW d, Settle(d) \/ CommitFails(d) PROVE MovesOn(d)
  <1>1. ASSUME NEW segs, NEW acks, Counted(d, segs, acks), stage[d] \in Settling
        PROVE  MovesOn(d)
    BY <1>1 DEF Counted, MovesOn, Settling
  <1>2. CASE Count(d)
    BY <1>1, <1>2 DEF Count, Settling
  <1>3. CASE Commit(d)
    BY <1>1, <1>3 DEF Commit, Settling
  <1>4. CASE CommitFails(d)
    BY <1>1, <1>4 DEF CommitFails, Settling
  <1>5. CASE StageSettle(d) \/ Seal(d) \/ OweSettle(d) \/ Abandon(d)
    BY <1>5 DEF StageSettle, Seal, OweSettle, Abandon, MovesOn, Settling, server
  <1>. QED
    BY <1>2, <1>3, <1>4, <1>5 DEF Settle

LEMMA SendIsStill == ASSUME NEW f, Send(f) PROVE Still
  BY DEF Send, SendSegments, SendWrites, SendAcks, Still, stream, segment

LEMMA QuietIsStill ==
    ASSUME Report \/ Drain \/ UNCHANGED vars PROVE Still
  BY DEF Report, Drain, Still, vars, stream, segment, owed, server

\* The steps of Next, as the proofs below split them.
LEMMA NextCases ==
    ASSUME [Next]_vars
    PROVE  \/ \E n \in 1..MaxRead : Fetch(n)
           \/ Yield
           \/ Discard \/ Stop
           \/ \E d \in Ids : Queue(round[d])
           \/ \E d \in Ids : \E v \in Verdicts : Close(d, v)
           \/ \E d \in Ids : Settle(d) \/ CommitFails(d)
           \/ Report \/ Drain \/ UNCHANGED vars
           \/ \E f \in flushes : Send(f)
  BY DEF Next

-----------------------------------------------------------------------------
(* What is read and not yielded is the end of what was read.               *)

Yielded == read - Len(buffer)

MountInv == mount \in Mounts
BufferInv ==
    /\ read \in 0..MaxRead
    /\ buffer \in Seq(Nat) /\ Len(buffer) <= read
    /\ \A k \in 1..Len(buffer) : buffer[k] = Yielded + k
StageInv ==
    /\ stage \in [Ids -> Stage]
    /\ \A d \in Ids : /\ stage[d] = "unread" <=> d > read
                      /\ stage[d] = "buffered" <=> d \in Yielded + 1 .. read
StreamInv == MountInv /\ BufferInv /\ StageInv

LEMMA MountTypes ==
    ASSUME MountInv
    PROVE  /\ mount.batch \in Nat \ {0} /\ mount.capacity \in Nat \ {0}
           /\ mount.workers \in Nat \ {0} /\ mount.atomic \in BOOLEAN
           /\ mount.reads \in 0..MaxRead /\ MaxRead \in Nat
           /\ mount.batch = 1 \/ mount.workers = 1
  BY WindowAssumption DEF MountInv, Mount

\* What a yield takes.
Batch == Smaller(mount.batch, Len(buffer))
Out   == {buffer[k] : k \in 1..Batch}

LEMMA OutTypes ==
    ASSUME StreamInv, buffer # <<>>
    PROVE  /\ Len(buffer) \in Nat /\ Batch \in 1..Len(buffer)
           /\ Out = Yielded + 1 .. Yielded + Batch
           /\ Out \subseteq Ids /\ Yielded \in Nat /\ read \in Nat
           /\ read <= MaxRead /\ MaxRead \in Nat
           /\ \A d \in Out : stage[d] = "buffered"
  <1>1. Len(buffer) \in Nat \ {0} /\ mount.batch \in Nat \ {0} /\ MaxRead \in Nat
    BY EmptySeq, MountTypes DEF StreamInv, BufferInv
  <1>2. Batch \in 1..Len(buffer)
    BY <1>1 DEF Batch, Smaller
  <1>3. read \in Nat /\ read <= MaxRead /\ Yielded \in Nat
        /\ Yielded + Len(buffer) = read
    BY <1>1 DEF StreamInv, BufferInv, Yielded
  <1>4. \A k \in 1..Batch : buffer[k] = Yielded + k
    BY <1>1, <1>2 DEF StreamInv, BufferInv
  <1>5. Out = Yielded + 1 .. Yielded + Batch
    <2>1. ASSUME NEW d \in Out PROVE d \in Yielded + 1 .. Yielded + Batch
      BY <1>2, <1>3, <1>4, <2>1 DEF Out
    <2>2. ASSUME NEW d \in Yielded + 1 .. Yielded + Batch PROVE d \in Out
      <3>1. d - Yielded \in 1..Batch
        BY <1>2, <1>3, <2>2
      <3>2. buffer[d - Yielded] = Yielded + (d - Yielded)
        BY <1>4, <3>1
      <3>3. buffer[d - Yielded] = d
        BY <1>3, <2>2, <3>2
      <3>. QED
        BY <3>1, <3>3 DEF Out
    <2>. QED
      BY <2>1, <2>2
  <1>6. Out \subseteq Ids /\ \A d \in Out : d \in Yielded + 1 .. read
    BY <1>1, <1>2, <1>3, <1>5 DEF Ids
  <1>7. \A d \in Out : stage[d] = "buffered"
    BY <1>6 DEF StreamInv, StageInv
  <1>. QED
    BY <1>1, <1>2, <1>3, <1>5, <1>6, <1>7

LEMMA BufferElems ==
    ASSUME StreamInv
    PROVE  /\ Elems(buffer) = Yielded + 1 .. read
           /\ Yielded \in Nat /\ read \in Nat /\ Len(buffer) \in Nat
           /\ read <= MaxRead /\ Yielded + Len(buffer) = read
  <1>1. Len(buffer) \in Nat /\ read \in Nat /\ Yielded \in Nat
        /\ Yielded + Len(buffer) = read /\ DOMAIN buffer = 1..Len(buffer)
        /\ read <= MaxRead
    BY LenProperties, MountTypes DEF StreamInv, BufferInv, Yielded
  <1>2. ASSUME NEW d \in Elems(buffer) PROVE d \in Yielded + 1 .. read
    BY <1>1, <1>2 DEF Elems, StreamInv, BufferInv
  <1>3. ASSUME NEW d \in Yielded + 1 .. read PROVE d \in Elems(buffer)
    <2>1. d - Yielded \in 1..Len(buffer)
      BY <1>1, <1>3
    <2>2. buffer[d - Yielded] = Yielded + (d - Yielded)
      BY <2>1 DEF StreamInv, BufferInv
    <2>3. buffer[d - Yielded] = d
      BY <1>1, <1>3, <2>2
    <2>. QED
      BY <1>1, <2>1, <2>3 DEF Elems
  <1>. QED
    BY <1>1, <1>2, <1>3

LEMMA FetchStream ==
    ASSUME StreamInv, NEW n \in 1..MaxRead, Fetch(n) PROVE StreamInv'
  <1>1. /\ n \in Nat /\ read \in Nat /\ read + n <= MaxRead
        /\ Len(buffer) = 0 /\ Yielded = read /\ MaxRead \in Nat
    BY MountTypes DEF Fetch, StreamInv, BufferInv, Yielded
  <1>2. buffer' = [k \in 1..n |-> read + k] /\ read' = read + n
        /\ mount' = mount
    BY DEF Fetch
  <1>3. buffer' \in Seq(Nat) /\ Len(buffer') = n
    BY <1>1, <1>2
  <1>4. Yielded' = read
    BY <1>1, <1>2, <1>3 DEF Yielded
  <1>5. BufferInv'
    BY <1>1, <1>2, <1>3, <1>4 DEF BufferInv
  <1>6. StageInv'
    <2>1. stage' = [d \in Ids |-> IF d \in read + 1 .. read + n THEN "buffered"
                                                             ELSE stage[d]]
      BY DEF Fetch
    <2>2. stage' \in [Ids -> Stage]
      BY <2>1 DEF StreamInv, StageInv, Stage
    <2>3. ASSUME NEW d \in Ids
          PROVE  /\ stage'[d] = "unread" <=> d > read'
                 /\ stage'[d] = "buffered" <=> d \in Yielded' + 1 .. read'
      BY <1>1, <1>2, <1>4, <2>1 DEF StreamInv, StageInv, Ids
    <2>. QED
      BY <2>2, <2>3 DEF StageInv
  <1>. QED
    BY <1>2, <1>5, <1>6 DEF StreamInv, MountInv

LEMMA YieldStream == ASSUME StreamInv, Yield PROVE StreamInv' /\ Yielded' = Yielded + Batch
  <1>1. /\ mount' = mount /\ read' = read /\ buffer # <<>>
        /\ stage' = [d \in Ids |-> IF d \in Out THEN "held" ELSE stage[d]]
        /\ buffer' = SubSeq(buffer, Batch + 1, Len(buffer))
    BY DEF Yield, Batch, Out
  <1>2. /\ Len(buffer) \in Nat /\ Batch \in 1..Len(buffer)
        /\ Out = Yielded + 1 .. Yielded + Batch
        /\ Yielded \in Nat /\ read \in Nat /\ Yielded + Len(buffer) = read
    BY <1>1, OutTypes, BufferElems
  <1> HIDE DEF Batch, Out
  <1>3. \A k \in Batch + 1 .. Len(buffer) : buffer[k] = Yielded + k
        /\ buffer[k] \in Nat
    BY <1>2 DEF StreamInv, BufferInv
  <1>4. /\ buffer' \in Seq(Nat) /\ Len(buffer') = Len(buffer) - Batch
        /\ \A k \in 1 .. Len(buffer) - Batch : buffer'[k] = buffer[Batch + k]
    <2>1. /\ SubSeq(buffer, Batch + 1, Len(buffer)) \in Seq(Nat)
          /\ Len(SubSeq(buffer, Batch + 1, Len(buffer))) =
                IF Batch + 1 <= Len(buffer) THEN Len(buffer) - (Batch + 1) + 1
                                            ELSE 0
          /\ \A k \in 1 .. Len(buffer) - (Batch + 1) + 1 :
                SubSeq(buffer, Batch + 1, Len(buffer))[k]
                    = buffer[Batch + 1 + k - 1]
      <3>1. Batch + 1 \in Int /\ Len(buffer) \in Int
        BY <1>2
      <3>. QED
        BY <1>3, <3>1, SubSeqProperties
    <2>. QED
      BY <1>1, <1>2, <2>1
  <1>5. Yielded' = Yielded + Batch
    <2>1. Yielded' = read - (Len(buffer) - Batch)
      BY <1>1, <1>4 DEF Yielded
    <2>2. Batch \in Nat
      BY <1>2
    <2>. QED
      BY <1>2, <2>1, <2>2
  <1>6. BufferInv'
    BY <1>1, <1>2, <1>3, <1>4, <1>5 DEF BufferInv, StreamInv
  <1>7. StageInv'
    <2>1. stage' \in [Ids -> Stage]
      BY <1>1 DEF StreamInv, StageInv, Stage
    <2>2. ASSUME NEW d \in Ids
          PROVE  /\ stage'[d] = "unread" <=> d > read'
                 /\ stage'[d] = "buffered" <=> d \in Yielded' + 1 .. read'
      BY <1>1, <1>2, <1>5 DEF StreamInv, StageInv, Ids
    <2>. QED
      BY <2>1, <2>2 DEF StageInv
  <1>. QED
    BY <1>1, <1>5, <1>6, <1>7 DEF StreamInv, MountInv

LEMMA DiscardStream == ASSUME StreamInv, Discard \/ Stop PROVE StreamInv'
  <1>1. /\ mount' = mount /\ read' = read /\ buffer' = <<>>
        /\ stage' = [d \in Ids |-> IF d \in Elems(buffer) THEN "gone"
                                                          ELSE stage[d]]
    BY DEF Discard, Stop
  <1>2. /\ Elems(buffer) = Yielded + 1 .. read /\ Yielded \in Nat
        /\ read \in Nat /\ Yielded' = read
    BY <1>1, BufferElems DEF Yielded
  <1>3. BufferInv'
    BY <1>1, <1>2 DEF BufferInv, StreamInv
  <1>4. StageInv'
    <2>1. stage' \in [Ids -> Stage]
      BY <1>1 DEF StreamInv, StageInv, Stage
    <2>2. ASSUME NEW d \in Ids
          PROVE  /\ stage'[d] = "unread" <=> d > read'
                 /\ stage'[d] = "buffered" <=> d \in Yielded' + 1 .. read'
      BY <1>1, <1>2 DEF StreamInv, StageInv, Ids
    <2>. QED
      BY <2>1, <2>2 DEF StageInv
  <1>. QED
    BY <1>1, <1>3, <1>4 DEF StreamInv, MountInv

\* A step that changes the stage of deliveries in handlers only.
LEMMA StageStep ==
    ASSUME StreamInv, UNCHANGED <<mount, read, buffer>>, NEW d \in Ids,
           stage[d] \in Settling \cup {"held"},
           NEW x \in Settling \cup {"settled"},
           stage' = [stage EXCEPT ![d] = x]
    PROVE  StreamInv'
  <1>1. Yielded' = Yielded
    BY DEF Yielded
  <1>2. BufferInv' /\ MountInv'
    BY <1>1 DEF StreamInv, BufferInv, MountInv
  <1>3. stage' \in [Ids -> Stage]
    BY DEF StreamInv, StageInv, Stage, Settling
  <1>4. ASSUME NEW e \in Ids
        PROVE  /\ stage'[e] = "unread" <=> e > read'
               /\ stage'[e] = "buffered" <=> e \in Yielded' + 1 .. read'
    <2>1. /\ stage[e] = "unread" <=> e > read
          /\ stage[e] = "buffered" <=> e \in Yielded + 1 .. read
      BY DEF StreamInv, StageInv
    <2>2. CASE e # d
      BY <1>1, <2>1, <2>2 DEF StreamInv, StageInv
    <2>3. CASE e = d
      BY <1>1, <2>1, <2>3 DEF StreamInv, StageInv, Settling
    <2>. QED
      BY <2>2, <2>3
  <1>. QED
    BY <1>2, <1>3, <1>4 DEF StreamInv, StageInv

LEMMA StreamStep == ASSUME StreamInv, [Next]_vars PROVE StreamInv'
  <1>1. ASSUME Still PROVE StreamInv'
    BY <1>1 DEF Still, StreamInv, MountInv, BufferInv, StageInv, Yielded
  <1>2. ASSUME NEW d \in Ids, NEW v \in Verdicts, Close(d, v) PROVE StreamInv'
    BY <1>2, StageStep DEF Close, stream, Settling
  <1>3. ASSUME NEW d \in Ids, Settle(d) \/ CommitFails(d) PROVE StreamInv'
    <2>1. MovesOn(d)
      BY <1>3, SettleMovesOn
    <2>. QED
      BY <2>1, StageStep DEF MovesOn, stream, Settling
  <1>4. ASSUME NEW d \in Ids, Queue(round[d]) PROVE StreamInv'
    BY <1>4
    DEF Queue, stream, StreamInv, MountInv, BufferInv, StageInv, Yielded
  <1>. QED
    BY <1>1, <1>2, <1>3, <1>4, NextCases, FetchStream, YieldStream,
       DiscardStream, SendIsStill, QuietIsStill

-----------------------------------------------------------------------------
(* Slots: who has one, and which are given back.                           *)

\* A slot of the list is set.
LEMMA SetSlot ==
    ASSUME NEW q \in Seq(Slot), NEW s \in 1..Len(q), NEW e \in Slot
    PROVE  LET new == [q EXCEPT ![s] = e]
           IN  /\ new \in Seq(Slot) /\ Len(new) = Len(q) /\ new[s] = e
               /\ \A t \in 1..Len(q) : t # s => new[t] = q[t]
  BY ExceptSeq

LEMMA AppendFree ==
    ASSUME NEW q \in Seq(Nat), NEW s \in Nat, s \notin Elems(q),
           \A j, k \in 1..Len(q) : j # k => q[j] # q[k]
    PROVE  LET new == Append(q, s)
           IN  /\ new \in Seq(Nat) /\ Elems(new) = Elems(q) \cup {s}
               /\ \A j, k \in 1..Len(new) : j # k => new[j] # new[k]
  <1> DEFINE new == Append(q, s)
  <1>1. /\ new \in Seq(Nat) /\ Len(new) = Len(q) + 1 /\ new[Len(q) + 1] = s
        /\ \A j \in 1..Len(q) : new[j] = q[j]
    BY AppendProperties
  <1>2. Len(q) \in Nat /\ DOMAIN q = 1..Len(q) /\ DOMAIN new = 1..Len(q) + 1
    BY <1>1, LenProperties
  <1>3. \A j \in 1..Len(q) : q[j] \in Elems(q) /\ q[j] # s
    BY <1>2 DEF Elems
  <1> HIDE DEF new
  <1>4. \A j, k \in 1..Len(new) : j # k => new[j] # new[k]
    BY <1>1, <1>2, <1>3
  <1>5. Elems(new) \subseteq Elems(q) \cup {s}
    <2>1. ASSUME NEW j \in 1..Len(q) + 1 PROVE new[j] \in Elems(q) \cup {s}
      BY <1>1, <1>2, <1>3, <2>1
    <2>. QED
      BY <1>2, <2>1 DEF Elems
  <1>6. Elems(q) \cup {s} \subseteq Elems(new)
    <2>1. s \in Elems(new)
      BY <1>1, <1>2 DEF Elems
    <2>2. ASSUME NEW j \in 1..Len(q) PROVE q[j] \in Elems(new)
      <3>1. j \in DOMAIN new
        BY <1>2
      <3>2. new[j] = q[j]
        BY <1>1
      <3>. QED
        BY <3>1, <3>2 DEF Elems
    <2>. QED
      BY <1>2, <2>1, <2>2 DEF Elems
  <1>. QED
    BY <1>1, <1>4, <1>5, <1>6 DEF new

LEMMA PopFree ==
    ASSUME NEW q \in Seq(Nat), q # <<>>,
           \A j, k \in 1..Len(q) : j # k => q[j] # q[k]
    PROVE  LET rest == SubSeq(q, 1, Len(q) - 1)
           IN  /\ rest \in Seq(Nat) /\ Elems(rest) = Elems(q) \ {q[Len(q)]}
               /\ \A j, k \in 1..Len(rest) : j # k => rest[j] # rest[k]
               /\ q[Len(q)] \in Elems(q)
  <1> DEFINE rest == SubSeq(q, 1, Len(q) - 1)
  <1>1. Len(q) \in Nat \ {0} /\ DOMAIN q = 1..Len(q)
        /\ \A j \in 1..Len(q) : q[j] \in Nat
    BY EmptySeq, LenProperties, ElementOfSeq
  <1>2. /\ rest \in Seq(Nat) /\ Len(rest) = Len(q) - 1
        /\ \A j \in 1 .. Len(q) - 1 : rest[j] = q[j]
    <2>1. /\ rest \in Seq(Nat)
          /\ Len(rest) = IF 1 <= Len(q) - 1 THEN (Len(q) - 1) - 1 + 1 ELSE 0
          /\ \A j \in 1 .. (Len(q) - 1) - 1 + 1 : rest[j] = q[1 + j - 1]
      <3>1. Len(q) - 1 \in Int /\ \A j \in 1 .. Len(q) - 1 : q[j] \in Nat
        BY <1>1
      <3>. QED
        BY <3>1, SubSeqProperties
    <2>. QED
      BY <1>1, <2>1
  <1>3. DOMAIN rest = 1 .. Len(q) - 1
    BY <1>2, LenProperties
  <1> HIDE DEF rest
  <1>4. \A j, k \in 1..Len(rest) : j # k => rest[j] # rest[k]
    BY <1>1, <1>2
  <1>5. Elems(rest) \subseteq Elems(q) \ {q[Len(q)]}
    <2>1. ASSUME NEW j \in 1 .. Len(q) - 1
          PROVE  rest[j] \in Elems(q) /\ rest[j] # q[Len(q)]
      <3>1. rest[j] = q[j]
        BY <1>2, <2>1
      <3> DEFINE n == Len(q)
      <3>0. n \in Nat /\ n # 0 /\ j \in 1 .. n - 1 /\ DOMAIN q = 1..n
        BY <1>1, <2>1
      <3> HIDE DEF n
      <3>2. j \in DOMAIN q /\ j \in 1..n /\ n \in 1..n /\ j # n
        BY <3>0
      <3>3. q[j] # q[Len(q)]
        BY <3>2 DEF n
      <3>. QED
        BY <3>1, <3>2, <3>3 DEF Elems
    <2>. QED
      BY <1>3, <2>1 DEF Elems
  <1>6. Elems(q) \ {q[Len(q)]} \subseteq Elems(rest)
    <2>1. ASSUME NEW j \in 1..Len(q), q[j] # q[Len(q)]
          PROVE  q[j] \in Elems(rest)
      <3>1. j \in 1 .. Len(q) - 1
        BY <1>1, <2>1
      <3>. QED
        BY <1>2, <1>3, <3>1 DEF Elems
    <2>. QED
      BY <1>1, <2>1 DEF Elems
  <1>7. q[Len(q)] \in Elems(q)
    BY <1>1 DEF Elems
  <1>. QED
    BY <1>2, <1>4, <1>5, <1>6, <1>7 DEF rest

SlotsInv ==
    /\ slots \in Seq(Slot) /\ Len(slots) <= Yielded
    /\ \A s \in 1..Len(slots) : slots[s].gen \in 1..Yielded
FreeInv ==
    /\ free \in Seq(Nat) /\ Elems(free) \subseteq 1..Len(slots)
    /\ \A j, k \in 1..Len(free) : j # k => free[j] # free[k]
RoundInv ==
    /\ round \in [Ids -> Round]
    /\ \A d \in Ids :
          /\ round[d] = NoRound <=> stage[d] \in {"unread", "buffered", "gone"}
          /\ round[d] # NoRound =>
                /\ round[d].slot \in 1..Len(slots)
                /\ round[d].gen \in 1..slots[round[d].slot].gen
          /\ stage[d] = "held" => Reaches(round[d])
MemberInv ==
    \A s \in 1..Len(slots) :
        /\ slots[s].members = Cardinality(Holders(s))
        /\ slots[s].members = 0 <=> s \in Elems(free)
SegmentInv == SlotsInv /\ FreeInv /\ RoundInv /\ MemberInv

LEMMA HoldersFinite ==
    ASSUME NEW s
    PROVE  IsFiniteSet(Ids) /\ IsFiniteSet(Holders(s))
           /\ Cardinality(Holders(s)) \in Nat
  <1>1. MaxRead \in Nat
    BY WindowAssumption
  <1>2. IsFiniteSet(Ids)
    BY <1>1, FS_Interval DEF Ids
  <1>. QED
    BY <1>2, FS_Subset, FS_CardinalityType DEF Holders

\* What a yield does to the slots, and that the round it makes is new.
LEMMA YieldSlot ==
    ASSUME StreamInv, SegmentInv, Yield
    PROVE  /\ NextSlot \in 1..Len(slots') /\ NextSlot \in Ids
           /\ 1..Len(slots') = 1..Len(slots) \cup {NextSlot}
           /\ slots' \in Seq(Slot) /\ Len(slots') <= Yielded + 1
           /\ slots'[NextSlot].members = Batch
           /\ slots'[NextSlot].clean = TRUE
           /\ slots'[NextSlot].gen \in 1 .. Yielded + 1
           /\ slots'[NextSlot].cmds =
                 IF NextSlot \in 1..Len(slots) THEN slots[NextSlot].cmds ELSE {}
           /\ \A t \in 1..Len(slots) : t # NextSlot => slots'[t] = slots[t]
           /\ NextSlot \in 1..Len(slots) =>
                 slots'[NextSlot].gen = slots[NextSlot].gen + 1
           /\ free' \in Seq(Nat) /\ Elems(free') = Elems(free) \ {NextSlot}
           /\ \A j, k \in 1..Len(free') : j # k => free'[j] # free'[k]
           /\ NextSlot \in 1..Len(slots) => NextSlot \in Elems(free)
           /\ free = <<>> => Len(slots') = Len(slots) + 1
           /\ free # <<>> => Len(slots') = Len(slots)
  <1>1. /\ slots' = Opened(NextSlot, Batch)
        /\ free' = IF free = <<>> THEN free ELSE SubSeq(free, 1, Len(free) - 1)
    BY DEF Yield, Batch
  <1>2. /\ Batch \in 1..MaxRead /\ Yielded \in Nat /\ Yielded + 1 <= MaxRead
        /\ MaxRead \in Nat
    BY OutTypes, BufferElems DEF Yield
  <1> HIDE DEF Batch
  <1>3. slots \in Seq(Slot) /\ Len(slots) \in Nat /\ Len(slots) <= Yielded
    BY LenProperties DEF SegmentInv, SlotsInv
  <1>4. CASE free = <<>>
    <2> DEFINE e == [members |-> Batch, clean |-> TRUE, gen |-> 1, cmds |-> {}]
    <2>1. NextSlot = Len(slots) + 1 /\ slots' = Append(slots, e)
      BY <1>1, <1>3, <1>4 DEF NextSlot, Opened
    <2>2. e \in Slot
      BY <1>2 DEF Slot
    <2>3. /\ slots' \in Seq(Slot) /\ Len(slots') = Len(slots) + 1
          /\ slots'[NextSlot] = e
          /\ \A t \in 1..Len(slots) : slots'[t] = slots[t]
      BY <2>1, <2>2, <1>3, AppendProperties
    <2>4. /\ NextSlot \in Ids /\ NextSlot \notin 1..Len(slots)
          /\ 1..Len(slots') = 1..Len(slots) \cup {NextSlot}
          /\ NextSlot \in 1..Len(slots') /\ Len(slots') <= Yielded + 1
      BY <1>2, <1>3, <2>1, <2>3 DEF Ids
    <2>5. free' = free /\ Elems(free') = Elems(free) \ {NextSlot}
      <3>1. Elems(free) \subseteq 1..Len(slots)
        BY DEF SegmentInv, FreeInv
      <3>2. free' = free
        BY <1>1, <1>4
      <3>. QED
        BY <2>4, <3>1, <3>2
    <2>6. /\ slots'[NextSlot].members = Batch /\ slots'[NextSlot].clean = TRUE
          /\ slots'[NextSlot].gen = 1 /\ slots'[NextSlot].cmds = {}
      BY <2>3
    <2>7. free' \in Seq(Nat)
          /\ \A j, k \in 1..Len(free') : j # k => free'[j] # free'[k]
      BY <2>5 DEF SegmentInv, FreeInv
    <2> HIDE DEF e
    <2>. QED
      BY <1>2, <1>4, <2>3, <2>4, <2>5, <2>6, <2>7
  <1>5. CASE free # <<>>
    <2> DEFINE e == [slots[NextSlot] EXCEPT !.members = Batch, !.clean = TRUE,
                                            !.gen = @ + 1]
    <2>1. NextSlot = free[Len(free)]
      BY <1>5 DEF NextSlot
    <2>2. /\ free' \in Seq(Nat) /\ Elems(free') = Elems(free) \ {NextSlot}
          /\ \A j, k \in 1..Len(free') : j # k => free'[j] # free'[k]
          /\ NextSlot \in Elems(free)
      BY <1>1, <1>5, <2>1, PopFree DEF SegmentInv, FreeInv
    <2>3. NextSlot \in 1..Len(slots)
      BY <2>2 DEF SegmentInv, FreeInv
    <2>4. slots' = [slots EXCEPT ![NextSlot] = e]
      <3>1. ~(NextSlot > Len(slots))
        BY <1>3, <2>3
      <3>. QED
        BY <1>1, <3>1 DEF Opened
    <2>5. slots[NextSlot] \in Slot /\ slots[NextSlot].gen \in 1..Yielded
      BY <1>3, <2>3, ElementOfSeq DEF SegmentInv, SlotsInv
    <2>6. /\ e \in Slot /\ e.members = Batch /\ e.clean = TRUE
          /\ e.gen = slots[NextSlot].gen + 1 /\ e.cmds = slots[NextSlot].cmds
      <3> DEFINE o == slots[NextSlot]
      <3>1. o \in Slot /\ o.gen \in 1..Yielded
        BY <2>5
      <3>2. Batch \in 0..MaxRead /\ o.gen + 1 \in 0..MaxRead
        BY <1>2, <3>1
      <3>3. e = [o EXCEPT !.members = Batch, !.clean = TRUE, !.gen = @ + 1]
        OBVIOUS
      <3> HIDE DEF o, e
      <3>4. /\ e \in Slot /\ e.members = Batch /\ e.clean = TRUE
            /\ e.gen = o.gen + 1 /\ e.cmds = o.cmds
        BY <3>1, <3>2, <3>3 DEF Slot
      <3>. QED
        BY <3>4 DEF o
    <2> HIDE DEF e
    <2>7. /\ slots' \in Seq(Slot) /\ Len(slots') = Len(slots)
          /\ slots'[NextSlot] = e
          /\ \A t \in 1..Len(slots) : t # NextSlot => slots'[t] = slots[t]
      BY <1>3, <2>3, <2>4, <2>6, SetSlot
    <2>8. NextSlot \in Ids /\ e.gen \in 1 .. Yielded + 1
      BY <1>2, <1>3, <2>3, <2>5, <2>6 DEF Ids
    <2>9. /\ NextSlot \in 1..Len(slots')
          /\ 1..Len(slots') = 1..Len(slots) \cup {NextSlot}
          /\ Len(slots') <= Yielded + 1
      BY <1>2, <1>3, <2>3, <2>7
    <2>. QED
      BY <1>5, <2>2, <2>3, <2>6, <2>7, <2>8, <2>9
  <1>. QED
    BY <1>4, <1>5

NewRound == [slot |-> NextSlot, gen |-> slots'[NextSlot].gen]

LEMMA YieldRound ==
    ASSUME StreamInv, SegmentInv, Yield
    PROVE  /\ round' = [d \in Ids |-> IF d \in Out THEN NewRound ELSE round[d]]
           /\ NewRound \in Round /\ NewRound # NoRound
           /\ NewRound.slot = NextSlot
           /\ NewRound.gen = slots'[NextSlot].gen
           /\ \A d \in Ids : round[d] # NewRound
           /\ \A d \in Out : round[d] = NoRound
           /\ stage' = [d \in Ids |-> IF d \in Out THEN "held" ELSE stage[d]]
           /\ Out # {} /\ Out \subseteq Ids
  <1>1. /\ round' = [d \in Ids |-> IF d \in Out THEN NewRound ELSE round[d]]
        /\ stage' = [d \in Ids |-> IF d \in Out THEN "held" ELSE stage[d]]
    BY DEF Yield, Out, Batch, NewRound
  <1>2. /\ NextSlot \in Ids /\ slots'[NextSlot].gen \in 1 .. Yielded + 1
        /\ NextSlot \in 1..Len(slots) =>
              slots'[NextSlot].gen = slots[NextSlot].gen + 1
    BY YieldSlot
  <1>3. /\ Yielded \in Nat /\ Yielded + 1 <= MaxRead /\ MaxRead \in Nat
        /\ Out = Yielded + 1 .. Yielded + Batch /\ Batch >= 1
        /\ \A d \in Out : stage[d] = "buffered" /\ Out \subseteq Ids
        /\ Batch \in Nat
    BY OutTypes, BufferElems DEF Yield
  <1>4. NewRound \in Round /\ NewRound.slot = NextSlot /\ NewRound.slot # 0
        /\ NewRound.gen = slots'[NextSlot].gen
    BY <1>2, <1>3 DEF NewRound, Round, Ids
  <1>5. ASSUME NEW d \in Ids PROVE round[d] # NewRound
    <2>1. CASE round[d] = NoRound
      BY <1>4, <2>1 DEF NoRound
    <2>2. CASE round[d] # NoRound
      <3>1. /\ round[d].slot \in 1..Len(slots)
            /\ round[d].gen \in 1..slots[round[d].slot].gen
        BY <2>2 DEF SegmentInv, RoundInv
      <3>2. CASE round[d].slot # NextSlot
        BY <1>4, <3>2
      <3>3. CASE round[d].slot = NextSlot
        <4>1. slots[NextSlot].gen \in 1..Yielded
          BY <3>1, <3>3 DEF SegmentInv, SlotsInv
        <4>. QED
          BY <1>2, <1>3, <1>4, <3>1, <3>3, <4>1
      <3>. QED
        BY <3>2, <3>3
    <2>. QED
      BY <2>1, <2>2
  <1>6. \A d \in Out : round[d] = NoRound
    BY <1>3 DEF SegmentInv, RoundInv
  <1>7. Out # {}
    <2>1. Yielded + 1 \in Yielded + 1 .. Yielded + Batch
      BY <1>3
    <2>. QED
      BY <1>3, <2>1
  <1>. QED
    BY <1>1, <1>3, <1>4, <1>5, <1>6, <1>7 DEF NoRound

\* A held delivery has its slot, which is not given back.
LEMMA HeldSlot ==
    ASSUME StreamInv, SegmentInv, NEW d \in Ids, stage[d] = "held"
    PROVE  LET s == round[d].slot
           IN  /\ s \in 1..Len(slots) /\ s \in Ids /\ s \notin Elems(free)
               /\ d \in Holders(s) /\ slots[s] \in Slot
               /\ slots[s].gen = round[d].gen /\ round[d] # NoRound
               /\ round[d] \in Round
               /\ slots[s].members \in Nat \ {0}
               /\ slots[s].members = Cardinality(Holders(s))
               /\ LastMember(s) <=> Holders(s) = {d}
               /\ \A e \in Holders(s) : round[e] = round[d]
  <1> DEFINE s == round[d].slot
  <1>1. round[d] # NoRound /\ round[d] \in Round
    BY DEF SegmentInv, RoundInv
  <1>2. s \in 1..Len(slots) /\ slots[s].gen = round[d].gen
    BY <1>1 DEF SegmentInv, RoundInv, Reaches
  <1>3. slots[s] \in Slot
    BY <1>2, ElementOfSeq DEF SegmentInv, SlotsInv
  <1>4. s \in Ids
    <2>1. Len(slots) \in Nat /\ Len(slots) <= Yielded /\ Yielded \in Nat
          /\ Yielded <= MaxRead /\ MaxRead \in Nat
      BY LenProperties, BufferElems, MountTypes
      DEF SegmentInv, SlotsInv, StreamInv
    <2>. QED
      BY <1>2, <2>1 DEF Ids
  <1>5. d \in Holders(s)
    BY DEF Holders
  <1>6. /\ slots[s].members = Cardinality(Holders(s))
        /\ slots[s].members = 0 <=> s \in Elems(free)
    BY <1>2 DEF SegmentInv, MemberInv
  <1>7. IsFiniteSet(Holders(s)) /\ Cardinality(Holders(s)) \in Nat
    BY HoldersFinite
  <1>8. Cardinality(Holders(s)) # 0
    BY <1>5, <1>7, FS_EmptySet
  <1>9. Cardinality(Holders(s)) <= 1 <=> Holders(s) = {d}
    <2>1. Cardinality(Holders(s)) <= 1 <=> Cardinality(Holders(s)) = 1
      BY <1>7, <1>8
    <2>2. Cardinality(Holders(s)) = 1 <=> \E x : Holders(s) = {x}
      BY <1>7, FS_Singleton
    <2>. QED
      BY <1>5, <2>1, <2>2
  <1>10. ASSUME NEW e \in Holders(s) PROVE round[e] = round[d]
    <2>1. e \in Ids /\ stage[e] = "held" /\ round[e].slot = s
      BY <1>10 DEF Holders
    <2>2. round[e].gen = round[d].gen /\ round[e] \in Round
      BY <1>2, <2>1 DEF SegmentInv, RoundInv, Reaches
    <2>. QED
      BY <1>1, <2>1, <2>2 DEF Round
  <1>. QED
    BY <1>1, <1>2, <1>3, <1>4, <1>5, <1>6, <1>7, <1>8, <1>9, <1>10
    DEF LastMember

\* What closing a delivery's part of its slot does to the slots.
LEMMA CloseSlot ==
    ASSUME StreamInv, SegmentInv, NEW d \in Ids, NEW v, Close(d, v)
    PROVE  LET s == round[d].slot
           IN  /\ stage[d] = "held" /\ stage' = [stage EXCEPT ![d] = "closing"]
               /\ s \in 1..Len(slots)
               /\ slots' \in Seq(Slot) /\ Len(slots') = Len(slots)
               /\ slots'[s].gen = slots[s].gen
               /\ slots'[s].members = slots[s].members - 1
               /\ slots'[s].clean = Kept(s, v)
               /\ slots'[s].cmds = IF LastMember(s) THEN {} ELSE slots[s].cmds
               /\ \A t \in 1..Len(slots) : t # s => slots'[t] = slots[t]
               /\ free' \in Seq(Nat)
               /\ Elems(free') = IF LastMember(s) THEN Elems(free) \cup {s}
                                                  ELSE Elems(free)
               /\ \A j, k \in 1..Len(free') : j # k => free'[j] # free'[k]
  <1> DEFINE s == round[d].slot
             e == [slots[s] EXCEPT
                      !.clean = Kept(s, v), !.members = Less(@, 1),
                      !.cmds = IF LastMember(s) THEN {} ELSE @]
  <1>1. stage[d] = "held" /\ stage' = [stage EXCEPT ![d] = "closing"]
        /\ slots' = [slots EXCEPT ![s] = e]
        /\ free' = IF LastMember(s) THEN Append(free, s) ELSE free
    BY DEF Close
  <1>2. /\ s \in 1..Len(slots) /\ s \in Ids /\ s \notin Elems(free)
        /\ slots[s] \in Slot /\ slots[s].members \in Nat \ {0}
    BY <1>1, HeldSlot
  <1>3. /\ e \in Slot /\ e.gen = slots[s].gen
        /\ e.members = slots[s].members - 1 /\ e.clean = Kept(s, v)
        /\ e.cmds = IF LastMember(s) THEN {} ELSE slots[s].cmds
    <2> DEFINE o == slots[s]  m == Less(o.members, 1)  k == Kept(s, v)
               c == IF LastMember(s) THEN {} ELSE o.cmds
    <2>1. o \in Slot /\ o.members \in Nat \ {0}
      BY <1>2
    <2>2. m = o.members - 1 /\ m \in 0..MaxRead
      BY <2>1, MountTypes DEF Less, Slot, StreamInv
    <2>3. k \in BOOLEAN
      BY <2>1 DEF Kept, Slot
    <2>4. c \subseteq Round
      BY <2>1 DEF Slot
    <2>5. e = [o EXCEPT !.clean = k, !.members = m, !.cmds = c]
      OBVIOUS
    <2> HIDE DEF o, m, k, c, e
    <2>6. e \in Slot /\ e.gen = o.gen /\ e.members = m /\ e.clean = k
          /\ e.cmds = c
      BY <2>1, <2>2, <2>3, <2>4, <2>5 DEF Slot
    <2>. QED
      BY <2>2, <2>6 DEF o, m, k, c
  <1> HIDE DEF e
  <1>4. /\ slots' \in Seq(Slot) /\ Len(slots') = Len(slots)
        /\ slots'[s] = e
        /\ \A t \in 1..Len(slots) : t # s => slots'[t] = slots[t]
    BY <1>1, <1>2, <1>3, SetSlot DEF SegmentInv, SlotsInv
  <1>5. /\ free' \in Seq(Nat)
        /\ Elems(free') = IF LastMember(s) THEN Elems(free) \cup {s}
                                           ELSE Elems(free)
        /\ \A j, k \in 1..Len(free') : j # k => free'[j] # free'[k]
    <2>1. /\ free \in Seq(Nat) /\ s \in Nat
          /\ \A j, k \in 1..Len(free) : j # k => free[j] # free[k]
      BY <1>2 DEF SegmentInv, FreeInv, Ids
    <2>2. CASE LastMember(s)
      <3>1. free' = Append(free, s)
        BY <1>1, <2>2
      <3>. QED
        BY <1>2, <2>1, <2>2, <3>1, AppendFree
    <2>3. CASE ~LastMember(s)
      <3>1. free' = free
        BY <1>1, <2>3
      <3>. QED
        BY <2>1, <2>3, <3>1 DEF Elems
    <2>. QED
      BY <2>2, <2>3
  <1>. QED
    BY <1>1, <1>2, <1>3, <1>4, <1>5

LEMMA YieldSegment == ASSUME StreamInv, SegmentInv, Yield PROVE SegmentInv'
  <1> DEFINE s == NextSlot  N == Len(slots)
  <1>1. /\ s \in 1..Len(slots') /\ s \in Ids
        /\ 1..Len(slots') = 1..N \cup {s}
        /\ slots' \in Seq(Slot) /\ Len(slots') <= Yielded + 1
        /\ slots'[s].members = Batch
        /\ slots'[s].gen \in 1 .. Yielded + 1
        /\ \A t \in 1..N : t # s => slots'[t] = slots[t]
        /\ s \in 1..N => slots'[s].gen = slots[s].gen + 1
    BY YieldSlot
  <1>2. /\ free' \in Seq(Nat) /\ Elems(free') = Elems(free) \ {s}
        /\ \A j, k \in 1..Len(free') : j # k => free'[j] # free'[k]
        /\ s \in 1..N => s \in Elems(free)
    BY YieldSlot
  <1>3. /\ Batch \in Nat /\ Batch >= 1 /\ Yielded \in Nat
        /\ Yielded' = Yielded + Batch
        /\ Out = Yielded + 1 .. Yielded + Batch
    <2>1. buffer # <<>>
      BY DEF Yield
    <2>. QED
      BY <2>1, OutTypes, YieldStream
  <1>4. /\ round' = [d \in Ids |-> IF d \in Out THEN NewRound ELSE round[d]]
        /\ NewRound \in Round /\ NewRound # NoRound
        /\ NewRound.slot = s /\ NewRound.gen = slots'[s].gen
        /\ stage' = [d \in Ids |-> IF d \in Out THEN "held" ELSE stage[d]]
        /\ Out \subseteq Ids
    BY YieldRound
  <1> HIDE DEF s, N, NewRound, Out, Batch
  <1>5. /\ slots \in Seq(Slot) /\ N \in Nat /\ N <= Yielded
        /\ \A t \in 1..N : slots[t].gen \in 1..Yielded
    BY LenProperties DEF SegmentInv, SlotsInv, N
  <1>6. \A t \in 1..Len(slots') : slots'[t].gen \in 1..Yielded'
    <2>1. 1..Yielded \subseteq 1..Yielded' /\ 1 .. Yielded + 1 \subseteq 1..Yielded'
      BY <1>3
    <2>2. ASSUME NEW t \in 1..N, t # s PROVE slots'[t].gen \in 1..Yielded'
      <3>1. slots'[t] = slots[t]
        BY <1>1, <2>2
      <3>2. slots[t].gen \in 1..Yielded
        BY <1>5
      <3>. QED
        BY <2>1, <3>1, <3>2
    <2>3. slots'[s].gen \in 1..Yielded'
      BY <1>1, <2>1
    <2>. QED
      BY <1>1, <2>2, <2>3
  <1>7. SlotsInv'
    <2>1. Len(slots') <= Yielded'
      <3>1. Len(slots') \in Nat
        BY <1>1, LenProperties
      <3>. QED
        BY <1>1, <1>3, <3>1
    <2>. QED
      BY <1>1, <1>6, <2>1 DEF SlotsInv
  <1>8. FreeInv'
    <2>1. Elems(free) \subseteq 1..N
      BY DEF SegmentInv, FreeInv, N
    <2>2. Elems(free') = Elems(free)'
      BY DEF Elems
    <2>. QED
      BY <1>1, <1>2, <2>1, <2>2 DEF FreeInv
  <1>9. ASSUME NEW t \in 1..N
        PROVE  /\ t = s => Holders(t) = {}
               /\ slots'[t].gen >= slots[t].gen
    <2>1. t = s => slots[t].members = 0
      BY <1>2 DEF SegmentInv, MemberInv, N
    <2>2. t = s => Holders(t) = {}
      BY <2>1, HoldersFinite, FS_EmptySet DEF SegmentInv, MemberInv, N
    <2>3. slots[t].gen \in Nat
      BY <1>5
    <2>. QED
      BY <1>1, <2>2, <2>3
  <1>10. ASSUME NEW d \in Ids, stage[d] = "held"
         PROVE  round[d].slot \in 1..N /\ round[d].slot # s
    <2>1. round[d].slot \in 1..N /\ d \in Holders(round[d].slot)
      BY <1>10, HeldSlot DEF N
    <2>. QED
      BY <1>9, <2>1
  <1>11. RoundInv'
    <2>1. round' \in [Ids -> Round]
      BY <1>4 DEF SegmentInv, RoundInv
    <2>2. ASSUME NEW d \in Out
          PROVE  /\ round'[d] # NoRound /\ stage'[d] = "held"
                 /\ round'[d].slot = s /\ round'[d].gen = slots'[s].gen
      BY <1>4, <2>2
    <2>3. ASSUME NEW d \in Ids, d \notin Out
          PROVE  round'[d] = round[d] /\ stage'[d] = stage[d]
      BY <1>4, <2>3
    <2>4. ASSUME NEW d \in Ids
          PROVE  round'[d] = NoRound
                    <=> stage'[d] \in {"unread", "buffered", "gone"}
      BY <2>2, <2>3 DEF SegmentInv, RoundInv
    <2>5. ASSUME NEW d \in Ids, round'[d] # NoRound
          PROVE  /\ round'[d].slot \in 1..Len(slots')
                 /\ round'[d].gen \in 1..slots'[round'[d].slot].gen
      <3>1. CASE d \in Out
        BY <1>1, <1>3, <2>2, <3>1
      <3>2. CASE d \notin Out
        <4>1. round'[d] = round[d] /\ round[d] # NoRound
          BY <2>3, <2>5, <3>2
        <4>2. /\ round[d].slot \in 1..N
              /\ round[d].gen \in 1..slots[round[d].slot].gen
          BY <4>1 DEF SegmentInv, RoundInv, N
        <4>3. slots[round[d].slot].gen \in Nat
              /\ slots'[round[d].slot].gen >= slots[round[d].slot].gen
              /\ slots'[round[d].slot].gen \in Nat
          <5>1. round[d].slot \in 1..Len(slots')
            BY <1>1, <4>2
          <5>2. slots'[round[d].slot].gen \in 1..Yielded'
            BY <1>6, <5>1
          <5>3. Yielded' \in Nat
            BY <1>3
          <5>. QED
            BY <1>5, <1>9, <4>2, <5>2, <5>3
        <4>. QED
          BY <1>1, <4>1, <4>2, <4>3
      <3>. QED
        BY <3>1, <3>2
    <2>6. ASSUME NEW d \in Ids, stage'[d] = "held" PROVE Reaches(round[d])'
      <3>1. CASE d \in Out
        BY <2>2, <3>1 DEF Reaches
      <3>2. CASE d \notin Out
        <4>1. round'[d] = round[d] /\ stage[d] = "held"
          BY <2>3, <2>6, <3>2
        <4>2. slots[round[d].slot].gen = round[d].gen
          BY <4>1 DEF SegmentInv, RoundInv, Reaches
        <4>3. slots'[round[d].slot] = slots[round[d].slot]
          BY <1>1, <1>10, <4>1
        <4>. QED
          BY <4>1, <4>2, <4>3 DEF Reaches
      <3>. QED
        BY <3>1, <3>2
    <2>. QED
      BY <2>1, <2>4, <2>5, <2>6 DEF RoundInv
  <1>12. ASSUME NEW t \in 1..Len(slots')
         PROVE  /\ slots'[t].members = Cardinality(Holders(t))'
                /\ slots'[t].members = 0 <=> t \in Elems(free')
    <2>1. CASE t = s
      <3>1. ASSUME NEW d \in Ids, stage[d] = "held" PROVE round[d].slot # s
        BY <1>10, <3>1
      <3>2. ASSUME NEW d \in Out PROVE d \in Holders(t)'
        BY <1>4, <2>1, <3>2 DEF Holders
      <3>3. ASSUME NEW d \in Holders(t)' PROVE d \in Out
        <4>1. d \in Ids /\ stage'[d] = "held" /\ round'[d].slot = s
          BY <2>1, <3>3 DEF Holders
        <4>. QED
          BY <1>4, <3>1, <4>1
      <3>4. Holders(t)' = Out
        BY <3>2, <3>3
      <3>5. Cardinality(Out) = Batch
        <4>1. Yielded + 1 \in Int /\ Yielded + Batch \in Int
              /\ ~(Yielded + 1 > Yielded + Batch)
              /\ (Yielded + Batch) - (Yielded + 1) + 1 = Batch
          BY <1>3
        <4>. QED
          BY <1>3, <4>1, FS_Interval
      <3>. QED
        BY <1>1, <1>2, <1>3, <2>1, <3>4, <3>5
    <2>2. CASE t # s
      <3>1. t \in 1..N /\ slots'[t] = slots[t]
        BY <1>1, <2>2
      <3>2. ASSUME NEW d PROVE d \in Holders(t)' <=> d \in Holders(t)
        <4>1. ASSUME d \in Out
              PROVE  stage[d] # "held" /\ round'[d].slot # t
          <5>1. buffer # <<>>
            BY DEF Yield
          <5>. QED
            BY <1>4, <2>2, <4>1, <5>1, OutTypes
        <4>2. ASSUME d \in Ids, d \notin Out
              PROVE  round'[d] = round[d] /\ stage'[d] = stage[d]
          BY <1>4, <4>2
        <4>. QED
          BY <1>4, <4>1, <4>2 DEF Holders
      <3>3. Holders(t)' = Holders(t)
        BY <3>2
      <3>. QED
        BY <1>2, <2>2, <3>1, <3>3 DEF SegmentInv, MemberInv, N
    <2>. QED
      BY <2>1, <2>2
  <1>13. MemberInv'
    <2>1. Elems(free') = Elems(free)'
      BY DEF Elems
    <2>. QED
      BY <1>12, <2>1 DEF MemberInv
  <1>. QED
    BY <1>7, <1>8, <1>11, <1>13 DEF SegmentInv

LEMMA CloseSegment ==
    ASSUME StreamInv, SegmentInv, NEW d \in Ids, NEW v, Close(d, v)
    PROVE  SegmentInv'
  <1> DEFINE s == round[d].slot  N == Len(slots)
  <1>1. /\ stage[d] = "held" /\ stage' = [stage EXCEPT ![d] = "closing"]
        /\ s \in 1..N
        /\ slots' \in Seq(Slot) /\ Len(slots') = N
        /\ slots'[s].gen = slots[s].gen
        /\ slots'[s].members = slots[s].members - 1
        /\ \A t \in 1..N : t # s => slots'[t] = slots[t]
        /\ free' \in Seq(Nat)
        /\ Elems(free') = IF LastMember(s) THEN Elems(free) \cup {s}
                                           ELSE Elems(free)
        /\ \A j, k \in 1..Len(free') : j # k => free'[j] # free'[k]
    BY CloseSlot
  <1>2. /\ s \notin Elems(free) /\ d \in Holders(s)
        /\ slots[s].members \in Nat \ {0}
        /\ slots[s].members = Cardinality(Holders(s))
    BY <1>1, HeldSlot
  <1>3. Yielded' = Yielded /\ round' = round
    BY DEF Close, stream, Yielded
  <1> HIDE DEF s, N
  <1>4. \A t \in 1..N : slots'[t].gen = slots[t].gen
    BY <1>1
  <1>5. SlotsInv'
    <2>1. N <= Yielded /\ \A t \in 1..N : slots[t].gen \in 1..Yielded
      BY DEF SegmentInv, SlotsInv, N
    <2>. QED
      BY <1>1, <1>3, <1>4, <2>1 DEF SlotsInv
  <1>6. FreeInv'
    <2>1. Elems(free) \subseteq 1..N
      BY DEF SegmentInv, FreeInv, N
    <2>2. Elems(free)' = Elems(free')
      BY DEF Elems
    <2>. QED
      BY <1>1, <2>1, <2>2 DEF FreeInv
  <1>7. RoundInv'
    <2>1. ASSUME NEW e \in Ids
          PROVE  /\ round[e] = NoRound
                       <=> stage'[e] \in {"unread", "buffered", "gone"}
                 /\ round[e] # NoRound =>
                       /\ round[e].slot \in 1..N
                       /\ round[e].gen \in 1..slots'[round[e].slot].gen
                 /\ stage'[e] = "held" => slots'[round[e].slot].gen = round[e].gen
      <3>1. /\ round[e] = NoRound <=> stage[e] \in {"unread", "buffered", "gone"}
            /\ round[e] # NoRound =>
                  /\ round[e].slot \in 1..N
                  /\ round[e].gen \in 1..slots[round[e].slot].gen
            /\ stage[e] = "held" => slots[round[e].slot].gen = round[e].gen
        BY DEF SegmentInv, RoundInv, Reaches, N
      <3>2. stage \in [Ids -> Stage]
        BY DEF StreamInv, StageInv
      <3>3. CASE e = d
        <4>1. stage'[e] = "closing" /\ stage[e] = "held"
          BY <1>1, <3>2, <3>3
        <4>. QED
          BY <1>4, <3>1, <4>1
      <3>4. CASE e # d
        <4>1. stage'[e] = stage[e]
          BY <1>1, <3>2, <3>4
        <4>. QED
          BY <1>4, <3>1, <4>1
      <3>. QED
        BY <3>3, <3>4
    <2>2. round \in [Ids -> Round]
      BY DEF SegmentInv, RoundInv
    <2>. QED
      BY <1>1, <1>3, <2>1, <2>2 DEF RoundInv, Reaches
  <1>8. ASSUME NEW t \in 1..N
        PROVE  /\ slots'[t].members = Cardinality(Holders(t))'
               /\ slots'[t].members = 0 <=> t \in Elems(free')
    <2>1. stage \in [Ids -> Stage]
      BY DEF StreamInv, StageInv
    <2>2. Holders(t)' = Holders(t) \ {d}
      BY <1>1, <1>3, <2>1 DEF Holders
    <2>3. /\ slots[t].members = Cardinality(Holders(t))
          /\ slots[t].members = 0 <=> t \in Elems(free)
      BY DEF SegmentInv, MemberInv, N
    <2>4. CASE t = s
      <3>1. Cardinality(Holders(t) \ {d}) = Cardinality(Holders(t)) - 1
        BY <1>2, <2>4, HoldersFinite, FS_RemoveElement
      <3>2. slots'[t].members = slots[t].members - 1
        BY <1>1, <2>4
      <3>3. slots'[t].members = 0 <=> t \in Elems(free')
        BY <1>1, <1>2, <2>4, <3>2 DEF LastMember
      <3>. QED
        BY <2>2, <2>3, <3>1, <3>2, <3>3
    <2>5. CASE t # s
      <3>1. d \notin Holders(t)
        BY <2>5 DEF Holders, s
      <3>2. Holders(t)' = Holders(t)
        BY <2>2, <3>1
      <3>3. slots'[t] = slots[t] /\ (t \in Elems(free') <=> t \in Elems(free))
        BY <1>1, <2>5
      <3>. QED
        BY <2>3, <3>2, <3>3
    <2>. QED
      BY <2>4, <2>5
  <1>9. MemberInv'
    <2>1. Elems(free)' = Elems(free')
      BY DEF Elems
    <2>. QED
      BY <1>1, <1>8, <2>1 DEF MemberInv
  <1>. QED
    BY <1>5, <1>6, <1>7, <1>9 DEF SegmentInv

\* What queuing a command does to the slots.
LEMMA QueueSlot ==
    ASSUME StreamInv, SegmentInv, NEW d \in Ids, Queue(round[d])
    PROVE  LET s == round[d].slot
           IN  /\ s \in 1..Len(slots) /\ round[d] # NoRound
               /\ round[d] \in Round /\ round[d] \notin queued
               /\ slots' \in Seq(Slot) /\ Len(slots') = Len(slots)
               /\ slots'[s].gen = slots[s].gen /\ slots[s].gen = round[d].gen
               /\ slots'[s].members = slots[s].members
               /\ slots'[s].clean = slots[s].clean
               /\ slots'[s].cmds = slots[s].cmds \cup {round[d]}
               /\ \A t \in 1..Len(slots) : t # s => slots'[t] = slots[t]
  <1> DEFINE s == round[d].slot  o == slots[s]
             e == [o EXCEPT !.cmds = @ \cup {round[d]}]
  <1>1. round[d] # NoRound /\ round[d] \notin queued /\ Reaches(round[d])
        /\ slots' = [slots EXCEPT ![s] = e]
    BY DEF Queue
  <1>2. s \in 1..Len(slots) /\ round[d] \in Round /\ o.gen = round[d].gen
    BY <1>1 DEF SegmentInv, RoundInv, Reaches
  <1>3. o \in Slot
    BY <1>2, ElementOfSeq DEF SegmentInv, SlotsInv
  <1> HIDE DEF o
  <1>4. /\ e \in Slot /\ e.gen = o.gen /\ e.members = o.members
        /\ e.clean = o.clean /\ e.cmds = o.cmds \cup {round[d]}
    BY <1>2, <1>3 DEF Slot
  <1> HIDE DEF e
  <1>5. /\ slots' \in Seq(Slot) /\ Len(slots') = Len(slots)
        /\ slots'[s] = e
        /\ \A t \in 1..Len(slots) : t # s => slots'[t] = slots[t]
    BY <1>1, <1>2, <1>4, SetSlot DEF SegmentInv, SlotsInv
  <1>. QED
    BY <1>1, <1>2, <1>4, <1>5 DEF o

LEMMA QueueSegment ==
    ASSUME StreamInv, SegmentInv, NEW d \in Ids, Queue(round[d])
    PROVE  SegmentInv'
  <1>1. /\ slots' \in Seq(Slot) /\ Len(slots') = Len(slots)
        /\ \A t \in 1..Len(slots) : /\ slots'[t].gen = slots[t].gen
                                    /\ slots'[t].members = slots[t].members
    BY QueueSlot
  <1>2. stage' = stage /\ round' = round /\ free' = free /\ Yielded' = Yielded
    BY DEF Queue, stream, Yielded
  <1>3. SlotsInv'
    BY <1>1, <1>2 DEF SegmentInv, SlotsInv
  <1>4. FreeInv'
    BY <1>1, <1>2 DEF SegmentInv, FreeInv, Elems
  <1>5. RoundInv'
    <2>1. ASSUME NEW e \in Ids
          PROVE  /\ round[e] # NoRound =>
                       /\ round[e].slot \in 1..Len(slots)
                       /\ round[e].gen \in 1..slots'[round[e].slot].gen
                 /\ stage[e] = "held" => slots'[round[e].slot].gen = round[e].gen
      <3>1. /\ round[e] # NoRound =>
                  /\ round[e].slot \in 1..Len(slots)
                  /\ round[e].gen \in 1..slots[round[e].slot].gen
            /\ stage[e] = "held" =>
                  /\ round[e] # NoRound
                  /\ slots[round[e].slot].gen = round[e].gen
        BY DEF SegmentInv, RoundInv, Reaches
      <3>. QED
        BY <1>1, <3>1
    <2>. QED
      BY <1>1, <1>2, <2>1 DEF SegmentInv, RoundInv, Reaches
  <1>6. MemberInv'
    <2>1. \A t : Holders(t)' = Holders(t)
      BY <1>2 DEF Holders
    <2>2. Elems(free)' = Elems(free)
      BY <1>2 DEF Elems
    <2>. QED
      BY <1>1, <2>1, <2>2 DEF SegmentInv, MemberInv
  <1>. QED
    BY <1>3, <1>4, <1>5, <1>6 DEF SegmentInv

\* A step that leaves the slots alone and holds and releases no delivery.
LEMMA SegmentStands ==
    ASSUME StreamInv, SegmentInv, UNCHANGED <<slots, free, round>>,
           Yielded' >= Yielded, Yielded' \in Nat,
           \A d \in Ids :
              /\ stage'[d] = "held" <=> stage[d] = "held"
              /\ stage'[d] \in {"unread", "buffered", "gone"}
                    <=> stage[d] \in {"unread", "buffered", "gone"}
    PROVE  SegmentInv'
  <1>1. Yielded \in Nat
    BY BufferElems
  <1>2. SlotsInv'
    <2>1. Len(slots) \in Nat /\ Len(slots) <= Yielded
          /\ \A t \in 1..Len(slots) : slots[t].gen \in 1..Yielded
      BY LenProperties DEF SegmentInv, SlotsInv
    <2>2. Len(slots) <= Yielded'
          /\ \A t \in 1..Len(slots) : slots[t].gen \in 1..Yielded'
      BY <1>1, <2>1
    <2>. QED
      BY <2>2 DEF SegmentInv, SlotsInv
  <1>3. FreeInv'
    BY DEF SegmentInv, FreeInv, Elems
  <1>4. RoundInv'
    BY DEF SegmentInv, RoundInv, Reaches
  <1>5. MemberInv'
    <2>1. \A t : Holders(t)' = Holders(t)
      BY DEF Holders
    <2>2. Elems(free)' = Elems(free)
      BY DEF Elems
    <2>. QED
      BY <2>1, <2>2 DEF SegmentInv, MemberInv
  <1>. QED
    BY <1>2, <1>3, <1>4, <1>5 DEF SegmentInv

LEMMA SegmentStep ==
    ASSUME StreamInv, SegmentInv, [Next]_vars PROVE SegmentInv'
  <1>1. Yielded \in Nat /\ Yielded + Len(buffer) = read /\ Len(buffer) \in Nat
        /\ stage \in [Ids -> Stage] /\ Elems(buffer) = Yielded + 1 .. read
        /\ read \in Nat
    BY BufferElems DEF StreamInv, StageInv
  <1>2. ASSUME NEW n \in 1..MaxRead, Fetch(n) PROVE SegmentInv'
    <2>1. /\ UNCHANGED <<slots, free, round>> /\ buffer = <<>>
          /\ buffer' = [k \in 1..n |-> read + k] /\ read' = read + n
          /\ stage' = [d \in Ids |-> IF d \in read + 1 .. read + n
                                     THEN "buffered" ELSE stage[d]]
      BY <1>2 DEF Fetch, segment
    <2>2. Yielded' = Yielded
      BY <1>1, <2>1 DEF Yielded
    <2>3. ASSUME NEW d \in Ids, d \in read + 1 .. read + n
          PROVE  stage[d] = "unread" /\ stage'[d] = "buffered"
      BY <1>1, <2>1, <2>3 DEF StreamInv, StageInv
    <2>4. ASSUME NEW d \in Ids, d \notin read + 1 .. read + n
          PROVE  stage'[d] = stage[d]
      BY <2>1, <2>4
    <2>5. \A d \in Ids :
              /\ stage'[d] = "held" <=> stage[d] = "held"
              /\ stage'[d] \in {"unread", "buffered", "gone"}
                    <=> stage[d] \in {"unread", "buffered", "gone"}
      BY <2>3, <2>4
    <2>. QED
      BY <1>1, <2>1, <2>2, <2>5, SegmentStands
  <1>3. ASSUME Discard \/ Stop PROVE SegmentInv'
    <2>1. /\ UNCHANGED <<slots, free, round>>
          /\ buffer' = <<>> /\ read' = read
          /\ stage' = [d \in Ids |-> IF d \in Elems(buffer) THEN "gone"
                                                            ELSE stage[d]]
      BY <1>3 DEF Discard, Stop, segment
    <2>2. Yielded' = read
      BY <1>1, <2>1 DEF Yielded
    <2>3. ASSUME NEW d \in Ids, d \in Elems(buffer)
          PROVE  stage[d] = "buffered" /\ stage'[d] = "gone"
      BY <1>1, <2>1, <2>3 DEF StreamInv, StageInv
    <2>4. ASSUME NEW d \in Ids, d \notin Elems(buffer)
          PROVE  stage'[d] = stage[d]
      BY <2>1, <2>4
    <2>5. \A d \in Ids :
              /\ stage'[d] = "held" <=> stage[d] = "held"
              /\ stage'[d] \in {"unread", "buffered", "gone"}
                    <=> stage[d] \in {"unread", "buffered", "gone"}
      BY <2>3, <2>4
    <2>. QED
      BY <1>1, <2>1, <2>2, <2>5, SegmentStands
  <1>4. ASSUME NEW d \in Ids, Settle(d) \/ CommitFails(d) PROVE SegmentInv'
    <2>1. MovesOn(d)
      BY <1>4, SettleMovesOn
    <2>2. Yielded' = Yielded
      BY <2>1 DEF MovesOn, stream, Yielded
    <2>3. PICK x \in {"sealing", "counting", "settled"} :
              stage' = [stage EXCEPT ![d] = x]
      BY <2>1 DEF MovesOn
    <2>4. \A e \in Ids :
              /\ stage'[e] = "held" <=> stage[e] = "held"
              /\ stage'[e] \in {"unread", "buffered", "gone"}
                    <=> stage[e] \in {"unread", "buffered", "gone"}
      BY <1>1, <2>1, <2>3 DEF MovesOn, Settling
    <2>. QED
      BY <1>1, <2>1, <2>2, <2>4, SegmentStands DEF MovesOn, segment
  <1>5. ASSUME Still PROVE SegmentInv'
    <2>1. Yielded' = Yielded
      BY <1>5 DEF Still, Yielded
    <2>. QED
      BY <1>1, <1>5, <2>1, SegmentStands DEF Still, segment
  <1>. QED
    BY <1>2, <1>3, <1>4, <1>5, NextCases, YieldSegment, CloseSegment,
       QueueSegment, SendIsStill, QuietIsStill

-----------------------------------------------------------------------------
(* The types of the rest.                                                  *)

\* A new slot is made for a new round, which has one of the handlers' places.
WorkersInv == Len(slots) <= mount.workers

LEMMA BusyFinite == IsFiniteSet(Busy) /\ Cardinality(Busy) \in Nat
  <1> DEFINE A == {e \in Ids : stage[e] \in Settling \cup {"held"}}
             f == [e \in A |-> round[e]]
  <1>1. IsFiniteSet(A)
    <2>1. A \in SUBSET Ids
      OBVIOUS
    <2> HIDE DEF A
    <2>. QED
      BY <2>1, HoldersFinite, FS_Subset
  <1>2. f \in Surjection(A, Busy)
    <2>1. Busy = {round[e] : e \in A}
      BY DEF Busy
    <2> HIDE DEF A
    <2>2. f \in [A -> Busy]
      BY <2>1
    <2>3. \A t \in Busy : \E e \in A : f[e] = t
      BY <2>1
    <2> HIDE DEF f
    <2>. QED
      BY <2>2, <2>3 DEF Surjection
  <1> HIDE DEF A, f
  <1>3. IsFiniteSet(Busy)
    BY <1>1, <1>2, FS_Surjection
  <1>. QED
    BY <1>3, FS_CardinalityType

LEMMA SlotsAreBusy ==
    ASSUME StreamInv, SegmentInv, free = <<>>
    PROVE  Len(slots) <= Cardinality(Busy)
  <1> DEFINE N == Len(slots)
             f == [s \in 1..N |-> [slot |-> s, gen |-> slots[s].gen]]
  <1>1. N \in Nat
    BY LenProperties DEF SegmentInv, SlotsInv
  <1>2. ASSUME NEW s \in 1..N
        PROVE  [slot |-> s, gen |-> slots[s].gen] \in Busy
    <2>1. s \notin Elems(free)
      BY DEF Elems
    <2>2. Cardinality(Holders(s)) # 0
      BY <2>1 DEF SegmentInv, MemberInv, N
    <2>3. PICK d : d \in Holders(s)
      BY <2>2, FS_EmptySet
    <2>4. d \in Ids /\ stage[d] = "held" /\ round[d].slot = s
      BY <2>3 DEF Holders
    <2>5. slots[s].gen = round[d].gen /\ round[d] \in Round
      BY <2>4 DEF SegmentInv, RoundInv, Reaches
    <2>6. round[d] = [slot |-> s, gen |-> slots[s].gen]
      BY <2>4, <2>5 DEF Round
    <2>. QED
      BY <2>4, <2>6 DEF Busy
  <1>3. f \in Injection(1..N, Busy)
    <2> HIDE DEF N
    <2>1. f \in [1..N -> Busy]
      BY <1>2
    <2>2. \A s, t \in 1..N : f[s] = f[t] => s = t
      <3>1. ASSUME NEW s \in 1..N, NEW t \in 1..N, f[s] = f[t] PROVE s = t
        <4>1. f[s].slot = s /\ f[t].slot = t
          OBVIOUS
        <4>. QED
          BY <3>1, <4>1
      <3>. QED
        BY <3>1
    <2> HIDE DEF f
    <2>. QED
      BY <2>1, <2>2 DEF Injection, IsInjective
  <1> HIDE DEF f
  <1>4. Cardinality(1..N) <= Cardinality(Busy)
    BY <1>3, BusyFinite, FS_Injection
  <1>5. Cardinality(1..N) = N
    <2> HIDE DEF N
    <2>1. Cardinality(1..N) = IF 1 > N THEN 0 ELSE N - 1 + 1
      BY <1>1, FS_Interval
    <2>. QED
      BY <1>1, <2>1
  <1>. QED
    BY <1>4, <1>5

LEMMA WorkersStep ==
    ASSUME StreamInv, SegmentInv, WorkersInv, [Next]_vars PROVE WorkersInv'
  <1>1. CASE Yield
    <2>1. Cardinality(Busy) < mount.workers /\ mount' = mount
      BY <1>1 DEF Yield
    <2>2. CASE free = <<>>
      <3>1. Len(slots') = Len(slots) + 1 /\ Len(slots) <= Cardinality(Busy)
        BY <1>1, <2>2, YieldSlot, SlotsAreBusy
      <3>2. Len(slots) \in Nat /\ mount.workers \in Nat
            /\ Cardinality(Busy) \in Nat
        BY LenProperties, BusyFinite, MountTypes
        DEF SegmentInv, SlotsInv, StreamInv
      <3>. QED
        BY <2>1, <3>1, <3>2 DEF WorkersInv
    <2>3. CASE free # <<>>
      BY <1>1, <2>1, <2>3, YieldSlot DEF WorkersInv
    <2>. QED
      BY <2>2, <2>3
  <1>2. ASSUME NEW d \in Ids, NEW v, Close(d, v) PROVE WorkersInv'
    <2>1. Len(slots') = Len(slots) /\ mount' = mount
      BY <1>2, CloseSlot DEF Close
    <2>. QED
      BY <2>1 DEF WorkersInv
  <1>3. ASSUME NEW d \in Ids, Queue(round[d]) PROVE WorkersInv'
    <2>1. Len(slots') = Len(slots) /\ mount' = mount
      BY <1>3, QueueSlot DEF Queue
    <2>. QED
      BY <2>1 DEF WorkersInv
  <1>4. ASSUME NEW d \in Ids, Settle(d) \/ CommitFails(d) PROVE WorkersInv'
    BY <1>4, SettleMovesOn DEF MovesOn, WorkersInv, segment
  <1>5. ASSUME Still PROVE WorkersInv'
    BY <1>5 DEF Still, WorkersInv, segment
  <1>6. ASSUME NEW n \in 1..MaxRead, Fetch(n) PROVE WorkersInv'
    BY <1>6 DEF Fetch, WorkersInv, segment
  <1>7. CASE Discard \/ Stop
    BY <1>7 DEF Discard, Stop, WorkersInv, segment
  <1>. QED
    BY <1>1, <1>2, <1>3, <1>4, <1>5, <1>6, <1>7, NextCases, SendIsStill,
       QuietIsStill

HandTypes ==
    /\ verdict \in [Ids -> Verdict] /\ hands \in [Ids -> Hand]
    /\ staged \in [Ids -> SUBSET Ids]
DebtTypes ==
    /\ committed \subseteq Sealed /\ ops \subseteq Ids /\ flushes \subseteq Flush
    /\ outstanding \in 0..read /\ settled \in 0 .. mount.capacity - 1
ServerTypes ==
    /\ failure \in BOOLEAN /\ running \in BOOLEAN /\ drained \in BOOLEAN
    /\ queued \subseteq Round /\ ran \subseteq Round /\ refused \subseteq Round
    /\ copied \subseteq Ids /\ acked \subseteq Ids /\ failed \subseteq Ids
    /\ faults \in 0..MaxFaults
RestTypes == HandTypes /\ DebtTypes /\ ServerTypes

\* A settle's slot, and what is in its segment.
LEMMA SettlingSlot ==
    ASSUME StreamInv, SegmentInv, NEW d \in Ids,
           stage[d] \in Settling \cup {"settled", "held"}
    PROVE  /\ round[d] # NoRound /\ round[d] \in Round
           /\ round[d].slot \in 1..Len(slots) /\ round[d].slot \in Ids
           /\ slots[round[d].slot] \in Slot
  <1>1. round[d] # NoRound /\ round[d] \in Round
        /\ round[d].slot \in 1..Len(slots)
    BY DEF SegmentInv, RoundInv, Settling
  <1>2. Len(slots) \in Nat /\ Len(slots) <= Yielded /\ Yielded \in Nat
        /\ Yielded <= MaxRead /\ MaxRead \in Nat
    BY LenProperties, BufferElems, MountTypes
    DEF SegmentInv, SlotsInv, StreamInv
  <1>3. round[d].slot \in Ids
    BY <1>1, <1>2 DEF Ids
  <1>4. slots[round[d].slot] \in Slot
    BY <1>1, ElementOfSeq DEF SegmentInv, SlotsInv
  <1>. QED
    BY <1>1, <1>3, <1>4

LEMMA TakeIfTypes ==
    ASSUME DebtTypes, NEW due, NEW segs \in SUBSET Sealed,
           NEW acks \in SUBSET Ids, TakeIf(due, segs, acks)
    PROVE  committed' \subseteq Sealed /\ ops' \subseteq Ids
           /\ flushes' \subseteq Flush
  <1>1. CASE due
    <2>1. NextPart(segs, acks) \in {"segments", "writes", "acks"}
      BY DEF NextPart
    <2> DEFINE p == NextPart(segs, acks)
    <2> HIDE DEF p
    <2>2. [segs |-> segs, ops |-> acks, erred |-> FALSE, at |-> p] \in Flush
      BY <2>1 DEF Flush, p
    <2>. QED
      BY <1>1, <2>2 DEF TakeIf, DebtTypes, p
  <1>2. CASE ~due
    BY <1>2 DEF TakeIf, DebtTypes
  <1>. QED
    BY <1>1, <1>2

\* The counts after a settle.
LEMMA CountTypes ==
    ASSUME StreamInv, DebtTypes, NEW n, n = Less(outstanding, 1)
    PROVE  /\ n \in 0..read /\ 0 \in 0 .. mount.capacity - 1
           /\ ~Due(n) => settled + 1 \in 0 .. mount.capacity - 1
  BY MountTypes DEF StreamInv, BufferInv, DebtTypes, Less, Due

LEMMA CountedTypes ==
    ASSUME StreamInv, HandTypes, DebtTypes, NEW d \in Ids,
           NEW segs \in SUBSET Sealed, NEW acks \in SUBSET Ids,
           Counted(d, segs, acks)
    PROVE  HandTypes' /\ DebtTypes'
  <1> DEFINE n == Less(outstanding, 1)
  <1>1. /\ outstanding' = n /\ settled' = IF Due(n) THEN 0 ELSE settled + 1
        /\ TakeIf(Due(n), segs, acks)
        /\ hands' = [hands EXCEPT ![d] = Nothing]
        /\ UNCHANGED <<mount, read, verdict, staged>>
    BY DEF Counted, stream
  <1>2. /\ n \in 0..read /\ 0 \in 0 .. mount.capacity - 1
        /\ ~Due(n) => settled + 1 \in 0 .. mount.capacity - 1
    BY CountTypes
  <1>3. committed' \subseteq Sealed /\ ops' \subseteq Ids
        /\ flushes' \subseteq Flush
    BY <1>1, TakeIfTypes
  <1> HIDE DEF n
  <1>4. Nothing \in Hand
    BY DEF Nothing, Hand
  <1>. QED
    BY <1>1, <1>2, <1>3, <1>4 DEF HandTypes, DebtTypes

LEMMA OwesTypes == ASSUME NEW d \in Ids PROVE Owes(d) \subseteq {d}
  BY DEF Owes

LEMMA SettleTypes ==
    ASSUME StreamInv, SegmentInv, RestTypes, NEW d \in Ids,
           Settle(d) \/ CommitFails(d)
    PROVE  RestTypes'
  <1> DEFINE s == round[d].slot
  <1>1. /\ stage[d] \in Settling
        /\ UNCHANGED <<mount, read, running, drained, verdict, queued, failure>>
    BY SettleMovesOn DEF MovesOn, stream
  <1>2. s \in Ids
    BY <1>1, SettlingSlot
  <1> HIDE DEF s
  <1>3. /\ staged[s] \subseteq Ids /\ Owes(d) \subseteq Ids
        /\ hands[d] \in Hand /\ hands[d].ops \subseteq Ids
        /\ hands[d].cmds \subseteq Round
    <2>1. hands[d] \in Hand /\ staged[s] \subseteq Ids
      BY <1>2 DEF RestTypes, HandTypes
    <2>. QED
      BY <2>1, OwesTypes DEF Hand
  <1>4. CASE StageSettle(d)
    <2>1. /\ staged' = [staged EXCEPT ![s] = @ \cup Owes(d)]
          /\ UNCHANGED <<verdict, hands, committed, ops, outstanding, settled,
                         flushes, failure, server, faults>>
      BY <1>4 DEF StageSettle, s
    <2>. QED
      BY <1>1, <1>2, <1>3, <2>1
      DEF RestTypes, HandTypes, DebtTypes, ServerTypes, server
  <1>5. CASE Seal(d)
    <2>1. /\ hands' = [hands EXCEPT ![d].ops = staged[s] \cup Owes(d)]
          /\ staged' = [staged EXCEPT ![s] = {}]
          /\ UNCHANGED <<verdict, committed, ops, outstanding, settled,
                         flushes, failure, server, faults>>
      BY <1>5 DEF Seal, s
    <2>2. hands' \in [Ids -> Hand]
      <3>1. [hands[d] EXCEPT !.ops = staged[s] \cup Owes(d)] \in Hand
        BY <1>3 DEF Hand
      <3>. QED
        BY <2>1, <3>1 DEF RestTypes, HandTypes
    <2>3. staged' \in [Ids -> SUBSET Ids]
      BY <2>1 DEF RestTypes, HandTypes
    <2>. QED
      BY <1>1, <2>1, <2>2, <2>3
      DEF RestTypes, HandTypes, DebtTypes, ServerTypes, server
  <1>6. CASE OweSettle(d)
    <2>1. /\ ops' = ops \cup staged[s] \cup Owes(d)
          /\ staged' = [staged EXCEPT ![s] = {}]
          /\ UNCHANGED <<verdict, hands, committed, outstanding, settled,
                         flushes, failure, server, faults>>
      BY <1>6 DEF OweSettle, s
    <2>2. staged' \in [Ids -> SUBSET Ids]
      BY <2>1 DEF RestTypes, HandTypes
    <2>3. ops' \subseteq Ids
      BY <1>3, <2>1 DEF RestTypes, DebtTypes
    <2>. QED
      BY <1>1, <2>1, <2>2, <2>3
      DEF RestTypes, HandTypes, DebtTypes, ServerTypes, server
  <1>7. ASSUME NEW segs \in SUBSET Sealed, NEW acks \in SUBSET Ids,
               Counted(d, segs, acks), failed' \subseteq Ids,
               faults' \in 0..MaxFaults
        PROVE  RestTypes'
    <2>1. HandTypes' /\ DebtTypes'
      BY <1>7, CountedTypes DEF RestTypes
    <2>2. UNCHANGED <<queued, ran, refused, copied, acked>>
      BY <1>7 DEF Counted
    <2>. QED
      BY <1>1, <1>7, <2>1, <2>2 DEF RestTypes, ServerTypes
  <1>8. committed \in SUBSET Sealed /\ ops \in SUBSET Ids
        /\ failed \subseteq Ids /\ faults \in 0..MaxFaults
    BY DEF RestTypes, DebtTypes, ServerTypes
  <1>9. CASE Count(d)
    BY <1>7, <1>8, <1>9 DEF Count
  <1>10. CASE Commit(d)
    <2>1. UNCHANGED <<failed, faults>>
      BY <1>10 DEF Commit
    <2>2. [cmds |-> hands[d].cmds, ops |-> hands[d].ops] \in Sealed
          /\ [cmds |-> hands[d].cmds, ops |-> {}] \in Sealed
      BY <1>3 DEF Sealed
    <2>3. CASE mount.atomic
      <3>1. Counted(d, committed \cup {[cmds |-> hands[d].cmds,
                                        ops |-> hands[d].ops]}, ops)
        BY <1>10, <2>3 DEF Commit
      <3>. QED
        BY <1>7, <1>8, <2>1, <2>2, <3>1
    <2>4. CASE ~mount.atomic
      <3>1. Counted(d, committed \cup {[cmds |-> hands[d].cmds, ops |-> {}]},
                    ops \cup hands[d].ops)
        BY <1>10, <2>4 DEF Commit
      <3>. QED
        BY <1>3, <1>7, <1>8, <2>1, <2>2, <3>1
    <2>. QED
      BY <2>3, <2>4
  <1>11. CASE CommitFails(d)
    <2>1. /\ Counted(d, committed, ops) /\ failed' = failed \cup hands[d].ops
          /\ faults' = faults + 1 /\ faults < MaxFaults
      BY <1>11 DEF CommitFails
    <2>2. faults' \in 0..MaxFaults
      BY <1>8, <2>1, WindowAssumption
    <2>. QED
      BY <1>3, <1>7, <1>8, <2>1, <2>2
  <1>12. CASE Abandon(d)
    <2> DEFINE left == IF hands[d].last THEN staged[s] ELSE {}
               acks == ops \cup left
               n    == Less(outstanding, 1)
               due  == n = 0 /\ (committed # {} \/ acks # {})
    <2>1. /\ staged' = IF hands[d].last THEN [staged EXCEPT ![s] = {}]
                                        ELSE staged
          /\ outstanding' = n
          /\ settled' = IF due THEN 0 ELSE settled
          /\ TakeIf(due, committed, acks)
          /\ hands' = [hands EXCEPT ![d] = Nothing]
          /\ UNCHANGED <<verdict, failure, server, faults>>
      BY <1>12 DEF Abandon, s
    <2>2. acks \in SUBSET Ids
      BY <1>3, <1>8
    <2>3. n \in 0..read /\ 0 \in 0 .. mount.capacity - 1
      BY CountTypes DEF RestTypes
    <2> HIDE DEF acks, n, due
    <2>4. committed' \subseteq Sealed /\ ops' \subseteq Ids
          /\ flushes' \subseteq Flush
      BY <1>8, <2>1, <2>2, TakeIfTypes DEF RestTypes
    <2>5. DebtTypes'
      BY <1>1, <2>1, <2>3, <2>4 DEF RestTypes, DebtTypes
    <2>6. Nothing \in Hand
      BY DEF Nothing, Hand
    <2>7. hands' \in [Ids -> Hand]
      BY <2>1, <2>6 DEF RestTypes, HandTypes
    <2>8. staged' \in [Ids -> SUBSET Ids]
      BY <2>1 DEF RestTypes, HandTypes
    <2>9. HandTypes' /\ ServerTypes'
      BY <1>1, <2>1, <2>7, <2>8 DEF RestTypes, HandTypes, ServerTypes, server
    <2>. QED
      BY <2>5, <2>9 DEF RestTypes
  <1>. QED
    BY <1>4, <1>5, <1>6, <1>9, <1>10, <1>11, <1>12 DEF Settle

\* Sending a flush: what each of its steps does to what it sends.
LEMMA FaultTypes ==
    ASSUME NEW bad, Fault(bad), faults \in 0..MaxFaults
    PROVE  faults' \in 0..MaxFaults
  BY WindowAssumption DEF Fault

LEMMA AdvanceTypes ==
    ASSUME flushes \subseteq Flush, NEW f \in flushes, NEW left \in SUBSET Ids,
           NEW at \in {"segments", "writes", "acks"}, NEW bad,
           Advance(f, left, at, bad)
    PROVE  flushes' \subseteq Flush
  <1>1. f.erred \in BOOLEAN
    BY DEF Flush
  <1> DEFINE x == f.erred \/ bad # {}
  <1>2. x \in BOOLEAN
    BY <1>1
  <1> HIDE DEF x
  <1>3. [segs |-> {}, ops |-> left, erred |-> x, at |-> at] \in Flush
    BY <1>2 DEF Flush
  <1>. QED
    BY <1>3 DEF Advance, x

LEMMA CmdsTypes ==
    ASSUME NEW segs \in SUBSET Sealed
    PROVE  CmdsOf(segs) \subseteq Round /\ OpsOf(segs) \subseteq Ids
  BY DEF CmdsOf, OpsOf, Sealed

LEMMA SendTypes ==
    ASSUME RestTypes, NEW f \in flushes, Send(f) PROVE RestTypes'
  <1>1. f \in Flush /\ f.segs \subseteq Sealed /\ f.ops \subseteq Ids
    BY DEF RestTypes, DebtTypes, Flush
  <1>2. Still
    BY SendIsStill
  <1>3. /\ flushes \subseteq Flush /\ faults \in 0..MaxFaults
        /\ ran \subseteq Round /\ refused \subseteq Round
        /\ copied \subseteq Ids /\ acked \subseteq Ids /\ failed \subseteq Ids
        /\ failure \in BOOLEAN
    BY DEF RestTypes, DebtTypes, ServerTypes
  <1>4. ASSUME /\ flushes' \subseteq Flush /\ faults' \in 0..MaxFaults
               /\ ran' \subseteq Round /\ refused' \subseteq Round
               /\ copied' \subseteq Ids /\ acked' \subseteq Ids
               /\ failed' \subseteq Ids /\ failure' \in BOOLEAN
               /\ UNCHANGED <<committed, ops, settled, running, drained>>
        PROVE  RestTypes'
    BY <1>2, <1>4
    DEF Still, RestTypes, HandTypes, DebtTypes, ServerTypes
  <1>5. ASSUME NEW bad \in SUBSET f.segs, SendSegments(f, bad)
        PROVE  RestTypes'
    <2>1. /\ ran' = ran \cup CmdsOf(f.segs \ bad)
          /\ refused' = refused \cup CmdsOf(bad)
          /\ acked' = acked \cup OpsOf(f.segs \ bad)
          /\ failed' = failed \cup OpsOf(bad)
          /\ Advance(f, f.ops, NextPart({}, f.ops), bad) /\ Fault(bad)
          /\ UNCHANGED <<committed, ops, settled, running, drained, copied>>
      BY <1>5 DEF SendSegments, stream
    <2>2. NextPart({}, f.ops) \in {"segments", "writes", "acks"}
      BY DEF NextPart
    <2>3. flushes' \subseteq Flush /\ failure' = failure
      BY <1>1, <1>3, <2>1, <2>2, AdvanceTypes DEF Advance
    <2>4. faults' \in 0..MaxFaults
      BY <1>3, <2>1, FaultTypes
    <2>5. bad \in SUBSET Sealed /\ f.segs \ bad \in SUBSET Sealed
      BY <1>1, <1>5
    <2>6. /\ CmdsOf(f.segs \ bad) \subseteq Round /\ CmdsOf(bad) \subseteq Round
          /\ OpsOf(f.segs \ bad) \subseteq Ids /\ OpsOf(bad) \subseteq Ids
      BY <2>5, CmdsTypes
    <2>. QED
      BY <1>3, <1>4, <2>1, <2>3, <2>4, <2>6
  <1>6. ASSUME NEW bad \in SUBSET f.ops, SendWrites(f, bad) PROVE RestTypes'
    <2>1. /\ copied' = copied \cup (Retried(f) \ bad)
          /\ failed' = failed \cup bad
          /\ Advance(f, Released(f, bad), "acks", bad) /\ Fault(bad)
          /\ UNCHANGED <<committed, ops, settled, running, drained, ran,
                         refused, acked>>
      BY <1>6 DEF SendWrites, stream
    <2>2. Released(f, bad) \subseteq Ids /\ Retried(f) \subseteq Ids
      BY <1>1 DEF Released, Retried
    <2>3. flushes' \subseteq Flush /\ failure' = failure
      <3>1. "acks" \in {"segments", "writes", "acks"}
        OBVIOUS
      <3>2. flushes' \subseteq Flush
        BY <1>3, <2>1, <2>2, <3>1, AdvanceTypes
      <3>. QED
        BY <2>1, <3>2 DEF Advance
    <2>4. faults' \in 0..MaxFaults
      BY <1>3, <2>1, FaultTypes
    <2>. QED
      BY <1>1, <1>3, <1>4, <1>6, <2>1, <2>2, <2>3, <2>4
  <1>7. ASSUME NEW bad \in SUBSET f.ops, SendAcks(f, bad) PROVE RestTypes'
    <2>1. /\ acked' = acked \cup (f.ops \ bad)
          /\ failed' = failed \cup bad /\ flushes' = flushes \ {f}
          /\ failure' = (failure \/ f.erred \/ bad # {}) /\ Fault(bad)
          /\ UNCHANGED <<committed, ops, settled, running, drained, ran,
                         refused, copied>>
      BY <1>7 DEF SendAcks, stream
    <2>2. failure' \in BOOLEAN
      <3>1. f.erred \in BOOLEAN
        BY <1>1 DEF Flush
      <3>. QED
        BY <1>3, <2>1, <3>1
    <2>3. faults' \in 0..MaxFaults
      BY <1>3, <2>1, FaultTypes
    <2>. QED
      BY <1>1, <1>3, <1>4, <1>7, <2>1, <2>2, <2>3
  <1>. QED
    BY <1>5, <1>6, <1>7 DEF Send

LEMMA RestStep ==
    ASSUME StreamInv, SegmentInv, RestTypes, [Next]_vars PROVE RestTypes'
  <1>1. /\ read \in Nat /\ outstanding \in 0..read
        /\ Len(buffer) \in Nat
    BY BufferElems DEF RestTypes, DebtTypes
  <1>2. ASSUME NEW n \in 1..MaxRead, Fetch(n) PROVE RestTypes'
    <2>1. /\ outstanding' = outstanding + n /\ read' = read + n
          /\ UNCHANGED <<mount, running, drained, verdict, hands, staged,
                         committed, ops, settled, flushes, failure, server,
                         faults>>
      BY <1>2 DEF Fetch
    <2>2. outstanding' \in 0..read'
      BY <1>1, <2>1
    <2>. QED
      BY <2>1, <2>2 DEF RestTypes, HandTypes, DebtTypes, ServerTypes, server
  <1>3. CASE Yield
    BY <1>3 DEF Yield, owed, server, RestTypes, HandTypes, DebtTypes, ServerTypes
  <1>4. CASE Discard
    <2>1. /\ outstanding' = Less(outstanding, Len(buffer)) /\ read' = read
          /\ UNCHANGED <<mount, running, drained, verdict, hands, staged,
                         committed, ops, settled, flushes, failure, server,
                         faults>>
      BY <1>4 DEF Discard
    <2>2. outstanding' \in 0..read'
      BY <1>1, <2>1 DEF Less
    <2>. QED
      BY <2>1, <2>2 DEF RestTypes, HandTypes, DebtTypes, ServerTypes, server
  <1>5. CASE Stop
    BY <1>5 DEF Stop, owed, server, RestTypes, HandTypes, DebtTypes, ServerTypes
  <1>6. CASE Report
    BY <1>6
    DEF Report, stream, owed, server, RestTypes, HandTypes, DebtTypes,
        ServerTypes
  <1>7. CASE Drain
    <2>1. /\ drained' = TRUE /\ settled' = 0 /\ TakeIf(TRUE, committed, ops)
          /\ UNCHANGED <<mount, read, running, verdict, hands, staged,
                         outstanding, failure, server, faults>>
      BY <1>7 DEF Drain
    <2>2. committed' \subseteq Sealed /\ ops' \subseteq Ids
          /\ flushes' \subseteq Flush
      <3>1. committed \in SUBSET Sealed /\ ops \in SUBSET Ids
        BY DEF RestTypes, DebtTypes
      <3>. QED
        BY <2>1, <3>1, TakeIfTypes DEF RestTypes
    <2>3. 0 \in 0 .. mount.capacity - 1
      BY MountTypes DEF StreamInv
    <2>. QED
      BY <2>1, <2>2, <2>3
      DEF RestTypes, HandTypes, DebtTypes, ServerTypes, server
  <1>8. CASE UNCHANGED vars
    BY <1>8
    DEF vars, stream, owed, server, RestTypes, HandTypes, DebtTypes, ServerTypes
  <1>9. ASSUME NEW d \in Ids, Queue(round[d]) PROVE RestTypes'
    <2>1. round[d] \in Round /\ queued' = queued \cup {round[d]}
      BY <1>9, QueueSlot DEF Queue
    <2>2. UNCHANGED <<mount, read, running, drained, verdict, hands, owed,
                      failure, ran, refused, copied, acked, failed, faults>>
      BY <1>9 DEF Queue, stream
    <2>. QED
      BY <2>1, <2>2 DEF RestTypes, HandTypes, DebtTypes, ServerTypes, owed
  <1>10. ASSUME NEW d \in Ids, NEW v \in Verdicts, Close(d, v) PROVE RestTypes'
    <2> DEFINE s == round[d].slot
               c == IF LastMember(s) THEN slots[s].cmds ELSE {}
               l == LastMember(s)  k == Kept(s, v)
    <2>1. /\ hands' = [hands EXCEPT ![d] =
                [Nothing EXCEPT !.last = l, !.clean = k, !.cmds = c]]
          /\ verdict' = [verdict EXCEPT ![d] = v]
          /\ UNCHANGED <<mount, read, running, drained, owed, failure, server,
                         faults>>
      BY <1>10 DEF Close, stream
    <2>2. slots[s] \in Slot
      BY <1>10, SettlingSlot DEF Close
    <2>3. c \subseteq Round /\ l \in BOOLEAN /\ k \in BOOLEAN
      BY <2>2 DEF Slot, LastMember, Kept
    <2>4. v \in Verdict
      BY WindowAssumption
    <2> HIDE DEF c, l, k
    <2>5. [Nothing EXCEPT !.last = l, !.clean = k, !.cmds = c] \in Hand
      BY <2>3 DEF Nothing, Hand
    <2>. QED
      BY <2>1, <2>4, <2>5
      DEF RestTypes, HandTypes, DebtTypes, ServerTypes, owed, server
  <1>. QED
    BY <1>2, <1>3, <1>4, <1>5, <1>6, <1>7, <1>8, <1>9, <1>10, NextCases,
       SettleTypes, SendTypes

TypeInv == StreamInv /\ SegmentInv /\ WorkersInv /\ RestTypes

LEMMA InitTypes == Init => TypeInv
  <1> SUFFICES ASSUME Init PROVE TypeInv
    OBVIOUS
  <1>1. mount \in Mounts /\ MountInv
    BY DEF Init, MountInv
  <1>2. MaxRead \in Nat /\ mount.capacity \in Nat \ {0}
        /\ mount.workers \in Nat \ {0}
    BY <1>1, MountTypes
  <1>3. read = 0 /\ Len(buffer) = 0 /\ Yielded = 0 /\ buffer \in Seq(Nat)
    <2>1. read = 0 /\ buffer = <<>>
      BY DEF Init
    <2>2. Len(buffer) = 0 /\ buffer \in Seq(Nat)
      BY <2>1
    <2>3. read = 0 /\ Len(buffer) = 0
      BY <2>1, <2>2
    <2>4. read - Len(buffer) = 0
      BY ONLY <2>3
    <2>. QED
      BY <2>2, <2>3, <2>4 DEF Yielded
  <1>4. StreamInv
    BY <1>1, <1>2, <1>3
    DEF Init, StreamInv, BufferInv, StageInv, Stage, Ids
  <1>5. SegmentInv
    <2>1. slots = <<>> /\ free = <<>> /\ Len(slots) = 0 /\ Len(free) = 0
          /\ slots \in Seq(Slot) /\ free \in Seq(Nat) /\ Elems(free) = {}
      BY DEF Init, Elems
    <2>2. NoRound \in Round
      BY <1>2 DEF NoRound, Round
    <2>3. SlotsInv /\ FreeInv /\ MemberInv
      BY <1>3, <2>1 DEF SlotsInv, FreeInv, MemberInv
    <2>4. RoundInv
      BY <2>2 DEF Init, RoundInv
    <2>. QED
      BY <2>3, <2>4 DEF SegmentInv
  <1>6. WorkersInv
    BY <1>2 DEF Init, WorkersInv
  <1>7. RestTypes
    <2>1. Nothing \in Hand
      BY DEF Nothing, Hand
    <2>2. HandTypes
      BY <2>1 DEF Init, HandTypes, Verdict
    <2>3. DebtTypes
      BY <1>2, <1>3 DEF Init, DebtTypes
    <2>4. ServerTypes
      <3>1. MaxFaults \in Nat
        BY WindowAssumption
      <3>2. /\ failure = FALSE /\ running = TRUE /\ drained = FALSE
            /\ queued = {} /\ ran = {} /\ refused = {}
            /\ copied = {} /\ acked = {} /\ failed = {} /\ faults = 0
        BY DEF Init
      <3>3. faults \in 0..MaxFaults
        BY <3>1, <3>2
      <3>4. failure \in BOOLEAN /\ running \in BOOLEAN /\ drained \in BOOLEAN
        BY <3>2
      <3>5. /\ queued \subseteq Round /\ ran \subseteq Round
            /\ refused \subseteq Round /\ copied \subseteq Ids
            /\ acked \subseteq Ids /\ failed \subseteq Ids
        BY <3>2
      <3>. QED
        BY <3>3, <3>4, <3>5 DEF ServerTypes
    <2>. QED
      BY <2>2, <2>3, <2>4 DEF RestTypes
  <1>. QED
    BY <1>4, <1>5, <1>6, <1>7 DEF TypeInv

LEMMA TypeStep == TypeInv /\ [Next]_vars => TypeInv'
  BY StreamStep, SegmentStep, WorkersStep, RestStep DEF TypeInv

LEMMA TypeInvariant == Spec => []TypeInv
  BY InitTypes, TypeStep, PTL DEF Spec

LEMMA TypesHold == TypeInv => TypeOK
  <1> SUFFICES ASSUME TypeInv PROVE TypeOK
    OBVIOUS
  <1>1. /\ Yielded \in Nat /\ read \in Nat /\ Yielded + Len(buffer) = read
        /\ Len(buffer) \in Nat
    BY BufferElems DEF TypeInv
  <1>2. buffer \in Seq(1..read)
    <2>1. buffer \in [1..Len(buffer) -> Nat]
      BY LenProperties DEF TypeInv, StreamInv, BufferInv
    <2>2. \A k \in 1..Len(buffer) : buffer[k] \in 1..read
      BY <1>1 DEF TypeInv, StreamInv, BufferInv
    <2>3. buffer \in [1..Len(buffer) -> 1..read]
      BY <2>1, <2>2
    <2>. QED
      BY <1>1, <2>3, SeqDef
  <1>3. free \in Seq(1..Len(slots))
    <2>1. free \in [1..Len(free) -> Nat] /\ Len(free) \in Nat
      BY LenProperties DEF TypeInv, SegmentInv, FreeInv
    <2>2. \A k \in 1..Len(free) : free[k] \in 1..Len(slots)
      BY <2>1 DEF TypeInv, SegmentInv, FreeInv, Elems
    <2>3. free \in [1..Len(free) -> 1..Len(slots)]
      BY <2>1, <2>2
    <2>. QED
      BY <2>1, <2>3, SeqDef
  <1>4. mount \in Mounts /\ read \in 0..MaxRead /\ stage \in [Ids -> Stage]
    BY DEF TypeInv, StreamInv, MountInv, BufferInv, StageInv
  <1>5. round \in [Ids -> Round] /\ slots \in Seq(Slot)
        /\ Len(slots) <= mount.workers
    BY DEF TypeInv, SegmentInv, SlotsInv, RoundInv, WorkersInv
  <1>6. HandTypes /\ DebtTypes /\ ServerTypes
    BY DEF TypeInv, RestTypes
  <1>. QED
    BY <1>2, <1>3, <1>4, <1>5, <1>6
    DEF TypeOK, HandTypes, DebtTypes, ServerTypes

\* Every variable of the window has its type: no more slots than the mount
\* has workers, no more outstanding than was read, and a window that is sent
\* before its count reaches the capacity.
THEOREM TypeCorrect == Spec => []TypeOK
  BY TypeInvariant, TypesHold, PTL

\* A slot counts the deliveries that hold it, every one of them reaches it, and
\* it is in the list of slots to reuse, once, exactly while nobody holds it:
\* whatever handlers, seeks and the end of the subscription do (Segments::open
\* and close).
THEOREM SlotsStayOwn == Spec => []SlotsAreOwn
  <1>1. ASSUME TypeInv PROVE SlotsAreOwn
    <2>1. DOMAIN slots = 1..Len(slots) /\ DOMAIN free = 1..Len(free)
      BY <1>1, LenProperties DEF TypeInv, SegmentInv, SlotsInv, FreeInv
    <2>. QED
      BY <1>1, <2>1
      DEF TypeInv, SegmentInv, MemberInv, RoundInv, FreeInv, SlotsAreOwn, Holders
  <1>. QED
    BY <1>1, TypeInvariant, PTL

-----------------------------------------------------------------------------
(* Where the settle of a delivery is.                                      *)

Num(b) == IF b THEN 1 ELSE 0

InStaged(x) == \E s \in Ids : x \in staged[s]
InHand(x)   == \E e \in Ids : x \in hands[e].ops
InFlush(x)  == \E f \in flushes : x \in f.ops
InSent(x)   == \E f \in flushes : x \in OpsOf(f.segs)
Tally(x) == Num(InStaged(x)) + Num(InHand(x)) + Num(x \in ops)
            + Num(x \in OpsOf(committed)) + Num(InFlush(x)) + Num(InSent(x))
            + Num(x \in acked) + Num(x \in failed)
Owing(x) == stage[x] \in {"sealing", "counting", "settled"} /\ Owes(x) # {}

\* Segments whose settles are not one another's.
Apart(segs) == \A g, h \in segs : \A x : x \in g.ops /\ x \in h.ops => g = h
Contents(f) == f.ops \cup OpsOf(f.segs)

StagedOnce == \A s, t \in Ids : \A x : x \in staged[s] /\ x \in staged[t] => s = t
HandOnce ==
    /\ \A d, e \in Ids : \A x : x \in hands[d].ops /\ x \in hands[e].ops => d = e
    /\ \A d \in Ids : stage[d] # "sealing" => hands[d].ops = {}
FlushOnce ==
    /\ \A f \in flushes : Apart(f.segs) /\ (f.at # "segments" => f.segs = {})
    /\ \A f, h \in flushes : \A x : x \in Contents(f) /\ x \in Contents(h) => f = h
Tallied == \A x \in Ids : Tally(x) = Num(Owing(x))
SpotInv == StagedOnce /\ HandOnce /\ Apart(committed) /\ FlushOnce /\ Tallied

\* A settle that is in one place is in no other.
LEMMA OnePlace ==
    ASSUME Tallied, NEW x \in Ids
    PROVE  /\ ~Owing(x) => /\ ~InStaged(x) /\ ~InHand(x) /\ x \notin ops
                           /\ x \notin OpsOf(committed) /\ ~InFlush(x)
                           /\ ~InSent(x) /\ x \notin acked /\ x \notin failed
           /\ InStaged(x) => /\ Owing(x) /\ ~InHand(x) /\ x \notin ops
                             /\ x \notin OpsOf(committed) /\ ~InFlush(x)
                             /\ ~InSent(x) /\ x \notin acked /\ x \notin failed
           /\ InHand(x) => /\ Owing(x) /\ ~InStaged(x) /\ x \notin ops
                           /\ x \notin OpsOf(committed) /\ ~InFlush(x)
                           /\ ~InSent(x) /\ x \notin acked /\ x \notin failed
           /\ x \in ops => /\ Owing(x) /\ ~InStaged(x) /\ ~InHand(x)
                           /\ x \notin OpsOf(committed) /\ ~InFlush(x)
                           /\ ~InSent(x) /\ x \notin acked /\ x \notin failed
           /\ x \in OpsOf(committed) =>
                 /\ Owing(x) /\ ~InStaged(x) /\ ~InHand(x) /\ x \notin ops
                 /\ ~InFlush(x) /\ ~InSent(x) /\ x \notin acked
                 /\ x \notin failed
           /\ InFlush(x) => /\ Owing(x) /\ ~InStaged(x) /\ ~InHand(x)
                            /\ x \notin ops /\ x \notin OpsOf(committed)
                            /\ ~InSent(x) /\ x \notin acked /\ x \notin failed
           /\ InSent(x) => /\ Owing(x) /\ ~InStaged(x) /\ ~InHand(x)
                           /\ x \notin ops /\ x \notin OpsOf(committed)
                           /\ ~InFlush(x) /\ x \notin acked /\ x \notin failed
  <1>1. Tally(x) = Num(Owing(x))
    BY DEF Tallied
  <1>. QED
    BY <1>1 DEF Tally, Num

\* The staged settles of a slot are taken out.
LEMMA Unstaged ==
    ASSUME SpotInv, staged \in [Ids -> SUBSET Ids], NEW s \in Ids,
           staged' = [staged EXCEPT ![s] = {}]
    PROVE  /\ \A x : InStaged(x)' <=> InStaged(x) /\ x \notin staged[s]
           /\ StagedOnce'
  <1>1. staged'[s] = {} /\ \A t \in Ids : t # s => staged'[t] = staged[t]
    OBVIOUS
  <1>2. ASSUME NEW x PROVE InStaged(x)' <=> InStaged(x) /\ x \notin staged[s]
    <2>1. ASSUME NEW t \in Ids, x \in staged'[t]
          PROVE  x \in staged[t] /\ x \notin staged[s]
      BY <1>1, <2>1 DEF SpotInv, StagedOnce
    <2>2. ASSUME NEW t \in Ids, x \in staged[t], x \notin staged[s]
          PROVE  x \in staged'[t]
      BY <1>1, <2>2
    <2>. QED
      BY <2>1, <2>2 DEF InStaged
  <1>3. StagedOnce'
    BY <1>1 DEF SpotInv, StagedOnce
  <1>. QED
    BY <1>2, <1>3

\* A settle puts down what it carried.
LEMMA PutDown ==
    ASSUME SpotInv, hands \in [Ids -> Hand], stage \in [Ids -> Stage],
           NEW d \in Ids, hands' = [hands EXCEPT ![d] = Nothing],
           stage' = [stage EXCEPT ![d] = "settled"]
    PROVE  /\ \A x : InHand(x)' <=> InHand(x) /\ x \notin hands[d].ops
           /\ HandOnce'
  <1>1. hands'[d].ops = {} /\ \A e \in Ids : e # d => hands'[e] = hands[e]
    BY DEF Nothing
  <1>2. ASSUME NEW x PROVE InHand(x)' <=> InHand(x) /\ x \notin hands[d].ops
    <2>1. ASSUME NEW e \in Ids, x \in hands'[e].ops
          PROVE  x \in hands[e].ops /\ x \notin hands[d].ops
      BY <1>1, <2>1 DEF SpotInv, HandOnce
    <2>2. ASSUME NEW e \in Ids, x \in hands[e].ops, x \notin hands[d].ops
          PROVE  x \in hands'[e].ops
      BY <1>1, <2>2
    <2>. QED
      BY <2>1, <2>2 DEF InHand
  <1>3. ASSUME NEW e \in Ids, stage'[e] # "sealing" PROVE hands'[e].ops = {}
    <2>1. CASE e = d
      BY <1>1, <2>1
    <2>2. CASE e # d
      BY <1>1, <1>3, <2>2 DEF SpotInv, HandOnce
    <2>. QED
      BY <2>1, <2>2
  <1>4. \A a, b \in Ids : \A x : x \in hands'[a].ops /\ x \in hands'[b].ops => a = b
    BY <1>1 DEF SpotInv, HandOnce
  <1>. QED
    BY <1>2, <1>3, <1>4 DEF HandOnce

\* What the window owes stays there or leaves it as a flush.
LEMMA Taken ==
    ASSUME FlushOnce, NEW due, NEW segs, NEW acks, TakeIf(due, segs, acks),
           Apart(segs),
           \A x : x \in acks \/ x \in OpsOf(segs) => ~InFlush(x) /\ ~InSent(x)
    PROVE  /\ Apart(committed') /\ FlushOnce'
           /\ \A x :
                 IF due
                 THEN /\ x \notin ops' /\ x \notin OpsOf(committed')
                      /\ InFlush(x)' <=> InFlush(x) \/ x \in acks
                      /\ InSent(x)' <=> InSent(x) \/ x \in OpsOf(segs)
                 ELSE /\ x \in ops' <=> x \in acks
                      /\ x \in OpsOf(committed') <=> x \in OpsOf(segs)
                      /\ InFlush(x)' <=> InFlush(x)
                      /\ InSent(x)' <=> InSent(x)
  <1>1. CASE ~due
    <2>1. committed' = segs /\ ops' = acks /\ flushes' = flushes
      BY <1>1 DEF TakeIf
    <2>. QED
      BY <1>1, <2>1 DEF FlushOnce, InFlush, InSent
  <1>2. CASE due /\ segs = {} /\ acks = {}
    <2>1. committed' = {} /\ ops' = {} /\ flushes' = flushes
      BY <1>2 DEF TakeIf
    <2>. QED
      BY <1>2, <2>1 DEF FlushOnce, InFlush, InSent, Apart, OpsOf
  <1>3. CASE due /\ ~(segs = {} /\ acks = {})
    <2> DEFINE new == [segs |-> segs, ops |-> acks, erred |-> FALSE,
                       at |-> NextPart(segs, acks)]
    <2>1. committed' = {} /\ ops' = {} /\ flushes' = flushes \cup {new}
      BY <1>3 DEF TakeIf
    <2>2. /\ new.segs = segs /\ new.ops = acks
          /\ new.at # "segments" => segs = {}
      BY DEF NextPart
    <2> HIDE DEF new
    <2>3. ASSUME NEW x
          PROVE  /\ InFlush(x)' <=> InFlush(x) \/ x \in acks
                 /\ InSent(x)' <=> InSent(x) \/ x \in OpsOf(segs)
      BY <2>1, <2>2 DEF InFlush, InSent
    <2>4. \A x : x \notin OpsOf(committed') /\ x \notin ops'
      BY <2>1 DEF OpsOf
    <2>5. Apart(committed')
      BY <2>1 DEF Apart
    <2>6. \A f \in flushes' : Apart(f.segs)
                               /\ (f.at # "segments" => f.segs = {})
      BY <2>1, <2>2 DEF FlushOnce
    <2>7. ASSUME NEW h \in flushes, NEW x, x \in Contents(h)
          PROVE  x \notin Contents(new)
      BY <2>2, <2>7 DEF Contents, InFlush, InSent
    <2>8. ASSUME NEW f \in flushes', NEW h \in flushes', NEW x,
                 x \in Contents(f), x \in Contents(h)
          PROVE  f = h
      BY <2>1, <2>7, <2>8 DEF FlushOnce
    <2>9. FlushOnce'
      BY <2>6, <2>8 DEF FlushOnce, Contents, OpsOf, Apart
    <2>. QED
      BY <1>3, <2>3, <2>4, <2>5, <2>9
  <1>. QED
    BY <1>1, <1>2, <1>3

\* A flush goes on with `left` of its acknowledgements and without segments.
LEMMA Advanced ==
    ASSUME FlushOnce, NEW f \in flushes, NEW left, left \subseteq f.ops,
           NEW new, new.segs = {}, new.ops = left,
           \/ flushes' = (flushes \ {f}) \cup {new}
           \/ flushes' = flushes \ {f} /\ left = {}
    PROVE  /\ FlushOnce'
           /\ \A x : x \in Contents(f) =>
                 /\ InFlush(x)' <=> x \in left
                 /\ ~InSent(x)'
                 /\ InFlush(x) <=> x \in f.ops
                 /\ InSent(x) <=> x \in OpsOf(f.segs)
           /\ \A x : x \notin Contents(f) =>
                 /\ InFlush(x)' <=> InFlush(x)
                 /\ InSent(x)' <=> InSent(x)
  <1>1. Contents(new) = left /\ OpsOf(new.segs) = {}
    BY DEF Contents, OpsOf
  <1>2. \A x \in left : x \in Contents(f)
    BY DEF Contents
  <1>3. ASSUME NEW h \in flushes, h # f, NEW x \in Contents(f)
        PROVE  x \notin h.ops /\ x \notin OpsOf(h.segs)
    BY <1>3 DEF FlushOnce, Contents
  <1>4. ASSUME NEW x, x \in Contents(f)
        PROVE  /\ InFlush(x)' <=> x \in left
               /\ ~InSent(x)'
               /\ InFlush(x) <=> x \in f.ops
               /\ InSent(x) <=> x \in OpsOf(f.segs)
    <2>1. \A h \in flushes : h # f => x \notin h.ops /\ x \notin OpsOf(h.segs)
      BY <1>3, <1>4
    <2>2. InFlush(x) <=> x \in f.ops
      BY <2>1 DEF InFlush
    <2>3. InSent(x) <=> x \in OpsOf(f.segs)
      BY <2>1 DEF InSent
    <2>4. InFlush(x)' <=> x \in left
      BY <2>1 DEF InFlush
    <2>5. ~InSent(x)'
      BY <1>1, <2>1 DEF InSent
    <2>. QED
      BY <2>2, <2>3, <2>4, <2>5
  <1>5. ASSUME NEW x, x \notin Contents(f)
        PROVE  /\ InFlush(x)' <=> InFlush(x)
               /\ InSent(x)' <=> InSent(x)
    <2>1. x \notin f.ops /\ x \notin OpsOf(f.segs) /\ x \notin left
      BY <1>5 DEF Contents
    <2>2. InFlush(x)' <=> InFlush(x)
      BY <2>1 DEF InFlush
    <2>3. InSent(x)' <=> InSent(x)
      BY <1>1, <2>1 DEF InSent
    <2>. QED
      BY <2>2, <2>3
  <1>6. \A h \in flushes' : Apart(h.segs)
                             /\ (h.at # "segments" => h.segs = {})
    <2>1. Apart(new.segs)
      BY DEF Apart
    <2>. QED
      BY <2>1 DEF FlushOnce
  <1>7. ASSUME NEW h \in flushes', NEW k \in flushes', NEW x,
               x \in Contents(h), x \in Contents(k)
        PROVE  h = k
    <2>1. (h \in flushes /\ h # f) \/ h = new
      OBVIOUS
    <2>2. (k \in flushes /\ k # f) \/ k = new
      OBVIOUS
    <2>3. CASE h # new /\ k # new
      BY <1>7, <2>1, <2>2, <2>3 DEF FlushOnce
    <2>4. CASE h = new /\ k # new
      <3>1. x \in Contents(f) /\ k \in flushes /\ k # f
        BY <1>1, <1>2, <1>7, <2>2, <2>4
      <3>. QED
        BY <1>7, <3>1 DEF FlushOnce
    <2>5. CASE h # new /\ k = new
      <3>1. x \in Contents(f) /\ h \in flushes /\ h # f
        BY <1>1, <1>2, <1>7, <2>1, <2>5
      <3>. QED
        BY <1>7, <3>1 DEF FlushOnce
    <2>. QED
      BY <2>3, <2>4, <2>5
  <1>8. FlushOnce'
    BY <1>6, <1>7 DEF FlushOnce, Contents, OpsOf, Apart
  <1>. QED
    BY <1>4, <1>5, <1>8

\* Whose settles a step of a settle makes the window's business.
LEMMA OwingMoves ==
    ASSUME TypeInv, NEW d \in Ids, Settle(d) \/ CommitFails(d),
           NEW x \in Ids
    PROVE  /\ Owing(x)' <=> Owing(x) \/ (stage[d] = "closing" /\ x \in Owes(d))
           /\ stage[d] = "closing" /\ x \in Owes(d) => ~Owing(x)
  <1>1. stage[d] \in Settling /\ verdict' = verdict /\ stage \in [Ids -> Stage]
    BY SettleMovesOn DEF MovesOn, TypeInv, StreamInv, StageInv
  <1>2. PICK s \in {"sealing", "counting", "settled"} :
            stage' = [stage EXCEPT ![d] = s]
    BY SettleMovesOn DEF MovesOn
  <1>3. Owes(x)' = Owes(x) /\ (Owes(x) # {} <=> x \in Owes(x))
        /\ (x \in Owes(d) => x = d)
    BY <1>1 DEF Owes
  <1>4. CASE x # d
    <2>1. stage'[x] = stage[x]
      BY <1>1, <1>2, <1>4
    <2>. QED
      BY <1>3, <1>4, <2>1 DEF Owing
  <1>5. CASE x = d
    <2>1. stage'[x] \in {"sealing", "counting", "settled"}
      BY <1>1, <1>2, <1>5
    <2>2. stage[x] = "closing" \/ stage[x] \in {"sealing", "counting"}
      BY <1>1, <1>5 DEF Settling
    <2>. QED
      BY <1>3, <1>5, <2>1, <2>2 DEF Owing
  <1>. QED
    BY <1>4, <1>5

LEMMA StageSpots ==
    ASSUME TypeInv, SpotInv, NEW d \in Ids, StageSettle(d) PROVE SpotInv'
  <1> DEFINE s == round[d].slot
  <1>1. /\ stage[d] = "closing" /\ stage' = [stage EXCEPT ![d] = "counting"]
        /\ staged' = [staged EXCEPT ![s] = @ \cup Owes(d)]
        /\ UNCHANGED <<verdict, hands, committed, ops, flushes, acked, failed>>
    BY DEF StageSettle, server
  <1>2. s \in Ids /\ staged \in [Ids -> SUBSET Ids] /\ stage \in [Ids -> Stage]
    BY <1>1, SettlingSlot
    DEF TypeInv, RestTypes, HandTypes, StreamInv, StageInv, Settling
  <1> HIDE DEF s
  <1>3. \A x : x \in Owes(d) => x \in Ids /\ ~Owing(x) /\ ~InStaged(x)
    <2>1. \A x : x \in Owes(d) => x = d
      BY DEF Owes
    <2>. QED
      BY <1>1, <2>1, OwingMoves, OnePlace DEF Settle, SpotInv
  <1>4. /\ staged'[s] = staged[s] \cup Owes(d)
        /\ \A t \in Ids : t # s => staged'[t] = staged[t]
    BY <1>1, <1>2
  <1>5. ASSUME NEW x PROVE InStaged(x)' <=> InStaged(x) \/ x \in Owes(d)
    BY <1>2, <1>4 DEF InStaged
  <1>6. StagedOnce'
    <2>1. ASSUME NEW t \in Ids, NEW u \in Ids, NEW x, x \in staged'[t],
                 x \in staged'[u]
          PROVE  t = u
      <3>1. CASE x \in Owes(d)
        <4>1. x \notin staged[t] /\ x \notin staged[u]
          BY <1>3, <3>1 DEF InStaged
        <4>. QED
          BY <1>4, <2>1, <4>1
      <3>2. CASE x \notin Owes(d)
        <4>1. x \in staged[t] /\ x \in staged[u]
          BY <1>4, <2>1, <3>2
        <4>. QED
          BY <4>1 DEF SpotInv, StagedOnce
      <3>. QED
        BY <3>1, <3>2
    <2>. QED
      BY <2>1 DEF StagedOnce
  <1>7. HandOnce'
    BY <1>1, <1>2 DEF SpotInv, HandOnce
  <1>8. Apart(committed)' /\ FlushOnce'
    BY <1>1 DEF SpotInv, Apart, FlushOnce, Contents, OpsOf
  <1>9. ASSUME NEW x \in Ids PROVE Tally(x)' = Num(Owing(x))'
    <2>1. /\ InHand(x)' <=> InHand(x)
          /\ x \in ops' <=> x \in ops
          /\ x \in OpsOf(committed)' <=> x \in OpsOf(committed)
          /\ InFlush(x)' <=> InFlush(x)
          /\ InSent(x)' <=> InSent(x)
          /\ x \in acked' <=> x \in acked
          /\ x \in failed' <=> x \in failed
      BY <1>1 DEF InHand, InFlush, InSent, OpsOf
    <2>2. Owing(x)' <=> Owing(x) \/ x \in Owes(d)
      BY <1>1, OwingMoves DEF Settle
    <2>3. Tally(x) = Num(Owing(x))
      BY DEF SpotInv, Tallied
    <2>. QED
      BY <1>3, <1>5, <2>1, <2>2, <2>3 DEF Tally, Num
  <1>. QED
    BY <1>6, <1>7, <1>8, <1>9 DEF SpotInv, Tallied

LEMMA SealSpots ==
    ASSUME TypeInv, SpotInv, NEW d \in Ids, Seal(d) PROVE SpotInv'
  <1> DEFINE s == round[d].slot
             new == staged[s] \cup Owes(d)
  <1>1. /\ stage[d] = "closing" /\ stage' = [stage EXCEPT ![d] = "sealing"]
        /\ hands' = [hands EXCEPT ![d].ops = new]
        /\ staged' = [staged EXCEPT ![s] = {}]
        /\ UNCHANGED <<verdict, committed, ops, flushes, acked, failed>>
    BY DEF Seal, server
  <1>2. /\ s \in Ids /\ staged \in [Ids -> SUBSET Ids]
        /\ stage \in [Ids -> Stage] /\ hands \in [Ids -> Hand]
    BY <1>1, SettlingSlot
    DEF TypeInv, RestTypes, HandTypes, StreamInv, StageInv, Settling
  <1>3. \A x : x \in Owes(d) => x \in Ids /\ ~Owing(x) /\ ~InStaged(x)
                                /\ ~InHand(x)
    <2>1. \A x : x \in Owes(d) => x = d
      BY DEF Owes
    <2>. QED
      BY <1>1, <2>1, OwingMoves, OnePlace DEF Settle, SpotInv
  <1>4. \A x : x \in staged[s] => x \in Ids /\ InStaged(x) /\ ~InHand(x)
    <2>1. \A x : x \in staged[s] => x \in Ids /\ InStaged(x)
      BY <1>2 DEF InStaged
    <2>. QED
      BY <2>1, OnePlace DEF SpotInv
  <1>5. \A x : InStaged(x)' <=> InStaged(x) /\ x \notin staged[s]
    BY <1>1, <1>2, Unstaged
  <1>6. StagedOnce'
    BY <1>1, <1>2, Unstaged
  <1>7. \A x \in new : ~InHand(x) /\ x \in Ids
    BY <1>3, <1>4
  <1> HIDE DEF new
  <1>8. /\ hands'[d].ops = new /\ hands[d].ops = {}
        /\ \A e \in Ids : e # d => hands'[e] = hands[e]
    BY <1>1, <1>2 DEF SpotInv, HandOnce, Hand
  <1>9. ASSUME NEW x PROVE InHand(x)' <=> InHand(x) \/ x \in new
    BY <1>8 DEF InHand
  <1>10. HandOnce'
    <2>1. ASSUME NEW e \in Ids, stage'[e] # "sealing" PROVE hands'[e].ops = {}
      <3>1. e # d /\ stage'[e] = stage[e]
        BY <1>1, <1>2, <2>1
      <3>. QED
        BY <1>8, <2>1, <3>1 DEF SpotInv, HandOnce
    <2>2. ASSUME NEW a \in Ids, NEW b \in Ids, NEW x, x \in hands'[a].ops,
                 x \in hands'[b].ops
          PROVE  a = b
      <3>1. CASE x \in new
        <4>1. x \notin hands[a].ops /\ x \notin hands[b].ops
          BY <1>7, <3>1 DEF InHand
        <4>. QED
          BY <1>8, <2>2, <4>1
      <3>2. CASE x \notin new
        <4>1. x \in hands[a].ops /\ x \in hands[b].ops
          BY <1>8, <2>2, <3>2
        <4>. QED
          BY <4>1 DEF SpotInv, HandOnce
      <3>. QED
        BY <3>1, <3>2
    <2>. QED
      BY <2>1, <2>2 DEF HandOnce
  <1>11. Apart(committed)' /\ FlushOnce'
    BY <1>1 DEF SpotInv, Apart, FlushOnce, Contents, OpsOf
  <1>12. ASSUME NEW x \in Ids PROVE Tally(x)' = Num(Owing(x))'
    <2>1. /\ x \in ops' <=> x \in ops
          /\ x \in OpsOf(committed)' <=> x \in OpsOf(committed)
          /\ InFlush(x)' <=> InFlush(x)
          /\ InSent(x)' <=> InSent(x)
          /\ x \in acked' <=> x \in acked
          /\ x \in failed' <=> x \in failed
      BY <1>1 DEF InFlush, InSent, OpsOf
    <2>2. Owing(x)' <=> Owing(x) \/ x \in Owes(d)
      BY <1>1, OwingMoves DEF Settle
    <2>3. Tally(x) = Num(Owing(x))
      BY DEF SpotInv, Tallied
    <2>4. /\ InStaged(x)' <=> InStaged(x) /\ x \notin staged[s]
          /\ InHand(x)' <=> InHand(x) \/ x \in staged[s] \/ x \in Owes(d)
          /\ x \in staged[s] => InStaged(x) /\ ~InHand(x)
          /\ x \in Owes(d) => ~Owing(x) /\ ~InStaged(x) /\ ~InHand(x)
      BY <1>3, <1>4, <1>5, <1>9 DEF new
    <2>. QED
      BY <2>1, <2>2, <2>3, <2>4 DEF Tally, Num
  <1>. QED
    BY <1>6, <1>10, <1>11, <1>12 DEF SpotInv, Tallied

LEMMA OweSpots ==
    ASSUME TypeInv, SpotInv, NEW d \in Ids, OweSettle(d) PROVE SpotInv'
  <1> DEFINE s == round[d].slot
  <1>1. /\ stage[d] = "closing" /\ stage' = [stage EXCEPT ![d] = "counting"]
        /\ ops' = ops \cup staged[s] \cup Owes(d)
        /\ staged' = [staged EXCEPT ![s] = {}]
        /\ UNCHANGED <<verdict, hands, committed, flushes, acked, failed>>
    BY DEF OweSettle, server
  <1>2. s \in Ids /\ staged \in [Ids -> SUBSET Ids] /\ stage \in [Ids -> Stage]
    BY <1>1, SettlingSlot
    DEF TypeInv, RestTypes, HandTypes, StreamInv, StageInv, Settling
  <1>3. \A x : x \in staged[s] => InStaged(x)
    BY <1>2 DEF InStaged
  <1>4. \A x : InStaged(x)' <=> InStaged(x) /\ x \notin staged[s]
    BY <1>1, <1>2, Unstaged
  <1>5. StagedOnce'
    BY <1>1, <1>2, Unstaged
  <1>6. HandOnce'
    BY <1>1, <1>2 DEF SpotInv, HandOnce
  <1>7. Apart(committed)' /\ FlushOnce'
    BY <1>1 DEF SpotInv, Apart, FlushOnce, Contents, OpsOf
  <1>8. ASSUME NEW x \in Ids PROVE Tally(x)' = Num(Owing(x))'
    <2>1. /\ InHand(x)' <=> InHand(x)
          /\ x \in OpsOf(committed)' <=> x \in OpsOf(committed)
          /\ InFlush(x)' <=> InFlush(x)
          /\ InSent(x)' <=> InSent(x)
          /\ x \in acked' <=> x \in acked
          /\ x \in failed' <=> x \in failed
      BY <1>1 DEF InHand, InFlush, InSent, OpsOf
    <2>2. /\ Owing(x)' <=> Owing(x) \/ x \in Owes(d)
          /\ x \in Owes(d) => ~Owing(x)
      BY <1>1, OwingMoves DEF Settle
    <2>3. Tally(x) = Num(Owing(x))
      BY DEF SpotInv, Tallied
    <2>4. /\ InStaged(x)' <=> InStaged(x) /\ x \notin staged[s]
          /\ x \in ops' <=> x \in ops \/ x \in staged[s] \/ x \in Owes(d)
          /\ x \in staged[s] => InStaged(x)
      BY <1>1, <1>3, <1>4
    <2>. QED
      BY <2>1, <2>2, <2>3, <2>4 DEF Tally, Num
  <1>. QED
    BY <1>5, <1>6, <1>7, <1>8 DEF SpotInv, Tallied

\* The last step of a settle, when what it carried has gone where segs, acks
\* and failed' say.
LEMMA CountSpots ==
    ASSUME TypeInv, SpotInv, NEW d \in Ids, NEW due,
           NEW segs \in SUBSET Sealed, NEW acks \in SUBSET Ids,
           TakeIf(due, segs, acks), hands' = [hands EXCEPT ![d] = Nothing],
           stage' = [stage EXCEPT ![d] = "settled"], acked' = acked,
           StagedOnce', Apart(segs),
           \A x \in Ids :
              Num(InStaged(x)') + Num(InHand(x) /\ x \notin hands[d].ops)
              + Num(x \in acks) + Num(x \in OpsOf(segs)) + Num(InFlush(x))
              + Num(InSent(x)) + Num(x \in acked) + Num(x \in failed')
                = Num(Owing(x)')
    PROVE  SpotInv'
  <1>1. stage \in [Ids -> Stage] /\ hands \in [Ids -> Hand]
    BY DEF TypeInv, StreamInv, StageInv, RestTypes, HandTypes
  <1>2. HandOnce' /\ \A x : InHand(x)' <=> InHand(x) /\ x \notin hands[d].ops
    BY <1>1, PutDown
  <1>3. ASSUME NEW x, x \in acks \/ x \in OpsOf(segs)
        PROVE  ~InFlush(x) /\ ~InSent(x)
    <2>1. x \in Ids
      BY <1>3, CmdsTypes
    <2>. QED
      BY <1>3, <2>1 DEF Num
  <1>4. /\ Apart(committed') /\ FlushOnce'
        /\ \A x :
              IF due
              THEN /\ x \notin ops' /\ x \notin OpsOf(committed')
                   /\ InFlush(x)' <=> InFlush(x) \/ x \in acks
                   /\ InSent(x)' <=> InSent(x) \/ x \in OpsOf(segs)
              ELSE /\ x \in ops' <=> x \in acks
                   /\ x \in OpsOf(committed') <=> x \in OpsOf(segs)
                   /\ InFlush(x)' <=> InFlush(x)
                   /\ InSent(x)' <=> InSent(x)
    BY <1>3, Taken DEF SpotInv
  <1>5. ASSUME NEW x \in Ids PROVE Tally(x)' = Num(Owing(x))'
    <2>1. /\ InHand(x)' <=> InHand(x) /\ x \notin hands[d].ops
          /\ x \in acked' <=> x \in acked
          /\ x \in OpsOf(committed)' <=> x \in OpsOf(committed')
      BY <1>2 DEF OpsOf
    <2>2. Num(InStaged(x)') + Num(InHand(x) /\ x \notin hands[d].ops)
              + Num(x \in acks) + Num(x \in OpsOf(segs)) + Num(InFlush(x))
              + Num(InSent(x)) + Num(x \in acked) + Num(x \in failed')
                = Num(Owing(x)')
      OBVIOUS
    <2>3. CASE due
      <3>1. /\ x \notin ops' /\ x \notin OpsOf(committed')
            /\ InFlush(x)' <=> InFlush(x) \/ x \in acks
            /\ InSent(x)' <=> InSent(x) \/ x \in OpsOf(segs)
            /\ x \in acks => ~InFlush(x)
            /\ x \in OpsOf(segs) => ~InSent(x)
        BY <1>3, <1>4, <2>3
      <3>. QED
        BY <2>1, <2>2, <3>1 DEF Tally, Num
    <2>4. CASE ~due
      <3>1. /\ x \in ops' <=> x \in acks
            /\ x \in OpsOf(committed') <=> x \in OpsOf(segs)
            /\ InFlush(x)' <=> InFlush(x)
            /\ InSent(x)' <=> InSent(x)
        BY <1>4, <2>4
      <3>. QED
        BY <2>1, <2>2, <3>1 DEF Tally, Num
    <2>. QED
      BY <2>3, <2>4
  <1>6. Apart(committed)'
    BY <1>4 DEF Apart
  <1>. QED
    BY <1>2, <1>4, <1>5, <1>6 DEF SpotInv, Tallied

LEMMA CountedSpots ==
    ASSUME TypeInv, SpotInv, NEW d \in Ids, Count(d) \/ Commit(d) \/ CommitFails(d)
    PROVE  SpotInv'
  <1> DEFINE carried == hands[d].ops
  <1>1. stage[d] \in {"sealing", "counting"} /\ staged' = staged
        /\ stage' = [stage EXCEPT ![d] = "settled"] /\ acked' = acked
        /\ hands' = [hands EXCEPT ![d] = Nothing]
    BY DEF Count, Commit, CommitFails, Counted
  <1>2. ASSUME NEW x \in Ids PROVE Owing(x)' <=> Owing(x)
    BY <1>1, OwingMoves DEF Settle
  <1>3. StagedOnce' /\ \A x : InStaged(x)' <=> InStaged(x)
    BY <1>1 DEF SpotInv, StagedOnce, InStaged
  <1>4. committed \in SUBSET Sealed /\ ops \in SUBSET Ids
        /\ Apart(committed) /\ carried \subseteq Ids /\ hands[d] \in Hand
    BY DEF TypeInv, RestTypes, DebtTypes, HandTypes, Hand, SpotInv
  <1>5. ASSUME NEW x \in Ids
        PROVE  /\ Tally(x) = Num(Owing(x))
               /\ x \in carried => InHand(x)
    BY DEF SpotInv, Tallied, InHand
  <1> HIDE DEF carried
  <1>6. CASE Count(d)
    <2>1. Counted(d, committed, ops) /\ failed' = failed
          /\ TakeIf(Due(Less(outstanding, 1)), committed, ops)
      BY <1>6 DEF Count, Counted
    <2>2. carried = {}
      BY <1>6 DEF Count, SpotInv, HandOnce, carried
    <2>3. ASSUME NEW x \in Ids
          PROVE  Num(InStaged(x)') + Num(InHand(x) /\ x \notin carried)
                 + Num(x \in ops) + Num(x \in OpsOf(committed))
                 + Num(InFlush(x)) + Num(InSent(x)) + Num(x \in acked)
                 + Num(x \in failed') = Num(Owing(x)')
      <3>1. /\ Owing(x)' <=> Owing(x)
            /\ InStaged(x)' <=> InStaged(x)
            /\ Tally(x) = Num(Owing(x)) /\ x \notin carried
            /\ x \in failed' <=> x \in failed
        BY <1>2, <1>3, <1>5, <2>1, <2>2
      <3>. QED
        BY <3>1 DEF Tally, Num
    <2>. QED
      BY <1>1, <1>3, <1>4, <2>1, <2>3, CountSpots DEF carried
  <1>7. CASE Commit(d) /\ mount.atomic
    <2> DEFINE g == [cmds |-> hands[d].cmds, ops |-> carried]
               segs == committed \cup {g}
    <2>1. Counted(d, segs, ops) /\ failed' = failed
          /\ TakeIf(Due(Less(outstanding, 1)), segs, ops)
      BY <1>7 DEF Commit, Counted, carried
    <2>2. g \in Sealed /\ g.ops = carried
      BY <1>4 DEF Sealed, Hand
    <2> HIDE DEF g
    <2>3. segs \in SUBSET Sealed
      BY <1>4, <2>2
    <2>4. ASSUME NEW x
          PROVE  x \in OpsOf(segs) <=> x \in OpsOf(committed) \/ x \in carried
      BY <2>2 DEF OpsOf
    <2>5. ASSUME NEW h \in committed, NEW x, x \in h.ops PROVE x \notin g.ops
      <3>1. x \in OpsOf(committed)
        BY <2>5 DEF OpsOf
      <3>2. x \in Ids
        BY <1>4, <3>1, CmdsTypes
      <3>. QED
        BY <1>5, <2>2, <3>1, <3>2, OnePlace DEF SpotInv
    <2>6. Apart(segs)
      BY <1>4, <2>5 DEF Apart
    <2> HIDE DEF segs
    <2>7. ASSUME NEW x \in Ids
          PROVE  Num(InStaged(x)') + Num(InHand(x) /\ x \notin carried)
                 + Num(x \in ops) + Num(x \in OpsOf(segs))
                 + Num(InFlush(x)) + Num(InSent(x)) + Num(x \in acked)
                 + Num(x \in failed') = Num(Owing(x)')
      <3>1. /\ Owing(x)' <=> Owing(x)
            /\ InStaged(x)' <=> InStaged(x)
            /\ Tally(x) = Num(Owing(x))
            /\ x \in carried => InHand(x)
            /\ x \in failed' <=> x \in failed
            /\ x \in OpsOf(segs) <=> x \in OpsOf(committed) \/ x \in carried
        BY <1>2, <1>3, <1>5, <2>1, <2>4
      <3>. QED
        BY <3>1 DEF Tally, Num
    <2>. QED
      BY <1>1, <1>3, <1>4, <2>1, <2>3, <2>6, <2>7, CountSpots DEF carried
  <1>8. CASE Commit(d) /\ ~mount.atomic
    <2> DEFINE g == [cmds |-> hands[d].cmds, ops |-> {}]
               segs == committed \cup {g}  acks == ops \cup carried
    <2>1. Counted(d, segs, acks) /\ failed' = failed
          /\ TakeIf(Due(Less(outstanding, 1)), segs, acks)
      BY <1>8 DEF Commit, Counted, carried
    <2>2. g \in Sealed /\ g.ops = {}
      BY <1>4 DEF Sealed, Hand
    <2> HIDE DEF g
    <2>3. segs \in SUBSET Sealed /\ acks \in SUBSET Ids
      BY <1>4, <2>2
    <2>4. ASSUME NEW x
          PROVE  /\ x \in OpsOf(segs) <=> x \in OpsOf(committed)
                 /\ x \in acks <=> x \in ops \/ x \in carried
      BY <2>2 DEF OpsOf
    <2>5. Apart(segs)
      BY <1>4, <2>2 DEF Apart
    <2> HIDE DEF segs, acks
    <2>6. ASSUME NEW x \in Ids
          PROVE  Num(InStaged(x)') + Num(InHand(x) /\ x \notin carried)
                 + Num(x \in acks) + Num(x \in OpsOf(segs))
                 + Num(InFlush(x)) + Num(InSent(x)) + Num(x \in acked)
                 + Num(x \in failed') = Num(Owing(x)')
      <3>1. /\ Owing(x)' <=> Owing(x)
            /\ InStaged(x)' <=> InStaged(x)
            /\ Tally(x) = Num(Owing(x))
            /\ x \in carried => InHand(x)
            /\ x \in failed' <=> x \in failed
            /\ x \in OpsOf(segs) <=> x \in OpsOf(committed)
            /\ x \in acks <=> x \in ops \/ x \in carried
        BY <1>2, <1>3, <1>5, <2>1, <2>4
      <3>. QED
        BY <3>1 DEF Tally, Num
    <2>. QED
      BY <1>1, <1>3, <1>4, <2>1, <2>3, <2>5, <2>6, CountSpots DEF carried
  <1>9. CASE CommitFails(d)
    <2>1. Counted(d, committed, ops) /\ failed' = failed \cup carried
          /\ TakeIf(Due(Less(outstanding, 1)), committed, ops)
      BY <1>9 DEF CommitFails, Counted, carried
    <2>2. ASSUME NEW x \in Ids
          PROVE  Num(InStaged(x)') + Num(InHand(x) /\ x \notin carried)
                 + Num(x \in ops) + Num(x \in OpsOf(committed))
                 + Num(InFlush(x)) + Num(InSent(x)) + Num(x \in acked)
                 + Num(x \in failed') = Num(Owing(x)')
      <3>1. /\ Owing(x)' <=> Owing(x)
            /\ InStaged(x)' <=> InStaged(x)
            /\ Tally(x) = Num(Owing(x))
            /\ x \in carried => InHand(x)
            /\ x \in failed' <=> x \in failed \/ x \in carried
        BY <1>2, <1>3, <1>5, <2>1
      <3>. QED
        BY <3>1 DEF Tally, Num
    <2>. QED
      BY <1>1, <1>3, <1>4, <2>1, <2>2, CountSpots DEF carried
  <1>. QED
    BY <1>6, <1>7, <1>8, <1>9

LEMMA AbandonSpots ==
    ASSUME TypeInv, SpotInv, NEW d \in Ids, Abandon(d) PROVE SpotInv'
  <1> DEFINE s    == round[d].slot
             left == IF hands[d].last THEN staged[s] ELSE {}
             acks == ops \cup left
             due  == Less(outstanding, 1) = 0 /\ (committed # {} \/ acks # {})
  <1>1. /\ stage[d] = "closing" /\ verdict[d] = "none"
        /\ staged' = IF hands[d].last THEN [staged EXCEPT ![s] = {}] ELSE staged
        /\ stage' = [stage EXCEPT ![d] = "settled"]
        /\ hands' = [hands EXCEPT ![d] = Nothing]
        /\ TakeIf(due, committed, acks)
        /\ acked' = acked /\ failed' = failed
    BY DEF Abandon, server
  <1>2. /\ s \in Ids /\ staged \in [Ids -> SUBSET Ids]
        /\ committed \in SUBSET Sealed /\ Apart(committed) /\ ops \subseteq Ids
    BY <1>1, SettlingSlot
    DEF TypeInv, RestTypes, HandTypes, DebtTypes, Settling, SpotInv
  <1> HIDE DEF s, due
  <1>3. acks \in SUBSET Ids
    BY <1>2
  <1>4. /\ StagedOnce'
        /\ \A x : InStaged(x)' <=> InStaged(x) /\ x \notin left
    <2>1. CASE hands[d].last
      BY <1>1, <1>2, <2>1, Unstaged
    <2>2. CASE ~hands[d].last
      BY <1>1, <2>2 DEF InStaged, StagedOnce, SpotInv
    <2>. QED
      BY <2>1, <2>2
  <1>5. \A x : x \in left => InStaged(x)
    BY <1>2 DEF InStaged
  <1>6. hands[d].ops = {}
    BY <1>1 DEF SpotInv, HandOnce
  <1>7. Owes(d) = {}
    BY <1>1 DEF Owes
  <1> HIDE DEF left
  <1>8. ASSUME NEW x \in Ids
        PROVE  Num(InStaged(x)') + Num(InHand(x) /\ x \notin hands[d].ops)
               + Num(x \in acks) + Num(x \in OpsOf(committed))
               + Num(InFlush(x)) + Num(InSent(x)) + Num(x \in acked)
               + Num(x \in failed') = Num(Owing(x)')
    <2>1. Owing(x)' <=> Owing(x)
      BY <1>7, OwingMoves DEF Settle
    <2>2. /\ InStaged(x)' <=> InStaged(x) /\ x \notin left
          /\ x \in left => InStaged(x)
          /\ x \in acks <=> x \in ops \/ x \in left
          /\ x \notin hands[d].ops /\ Tally(x) = Num(Owing(x))
          /\ x \in failed' <=> x \in failed
      BY <1>1, <1>4, <1>5, <1>6 DEF SpotInv, Tallied
    <2>. QED
      BY <2>1, <2>2 DEF Tally, Num
  <1> HIDE DEF acks
  <1>. QED
    BY <1>1, <1>2, <1>3, <1>4, <1>8, CountSpots

LEMMA SendSpots ==
    ASSUME TypeInv, SpotInv, NEW f \in flushes, Send(f) PROVE SpotInv'
  <1>1. /\ f \in Flush /\ f.segs \subseteq Sealed /\ f.ops \subseteq Ids
        /\ \A x : x \in Contents(f) => x \in Ids
    <2>1. f \in Flush /\ f.segs \subseteq Sealed /\ f.ops \subseteq Ids
      BY DEF TypeInv, RestTypes, DebtTypes, Flush
    <2>. QED
      BY <2>1, CmdsTypes DEF Contents
  <1>2. UNCHANGED <<stage, verdict, hands, staged, committed, ops>>
    BY DEF Send, SendSegments, SendWrites, SendAcks
  <1>3. StagedOnce' /\ HandOnce' /\ Apart(committed)'
    BY <1>2 DEF SpotInv, StagedOnce, HandOnce, Apart
  <1>4. ASSUME NEW x \in Ids
        PROVE  /\ InStaged(x)' <=> InStaged(x)
               /\ InHand(x)' <=> InHand(x)
               /\ x \in ops' <=> x \in ops
               /\ x \in OpsOf(committed)' <=> x \in OpsOf(committed)
               /\ Owing(x)' <=> Owing(x)
               /\ Tally(x) = Num(Owing(x))
    BY <1>2 DEF InStaged, InHand, OpsOf, Owing, Owes, SpotInv, Tallied
  <1>5. FlushOnce
    BY DEF SpotInv
  <1>6. ASSUME NEW left, left \subseteq f.ops, NEW new, new.segs = {},
               new.ops = left,
               \/ flushes' = (flushes \ {f}) \cup {new}
               \/ flushes' = flushes \ {f} /\ left = {},
               \A x : x \in Contents(f) =>
                  IF x \in left
                  THEN /\ x \in acked' <=> x \in acked
                       /\ x \in failed' <=> x \in failed
                  ELSE x \in acked' <=> x \notin failed',
               \A x : x \notin Contents(f) =>
                  /\ x \in acked' <=> x \in acked
                  /\ x \in failed' <=> x \in failed
        PROVE  SpotInv'
    <2>1. /\ FlushOnce'
          /\ \A x : x \in Contents(f) =>
                /\ InFlush(x)' <=> x \in left
                /\ ~InSent(x)'
                /\ InFlush(x) <=> x \in f.ops
                /\ InSent(x) <=> x \in OpsOf(f.segs)
          /\ \A x : x \notin Contents(f) =>
                /\ InFlush(x)' <=> InFlush(x)
                /\ InSent(x)' <=> InSent(x)
      BY <1>5, <1>6, Advanced
    <2>2. ASSUME NEW x \in Ids PROVE Tally(x)' = Num(Owing(x))'
      <3>1. CASE x \in Contents(f) /\ x \in left
        <4>1. /\ InFlush(x)' /\ ~InSent(x)' /\ InFlush(x)
              /\ x \in acked' <=> x \in acked
              /\ x \in failed' <=> x \in failed
          BY <1>6, <2>1, <3>1
        <4>2. ~InSent(x)
          BY <4>1, OnePlace DEF SpotInv
        <4>. QED
          BY <1>4, <4>1, <4>2 DEF Tally, Num
      <3>2. CASE x \in Contents(f) /\ x \notin left
        <4>1. /\ ~InFlush(x)' /\ ~InSent(x)'
              /\ InFlush(x) \/ InSent(x)
              /\ x \in acked' <=> x \notin failed'
          BY <1>6, <2>1, <3>2 DEF Contents
        <4>2. /\ Owing(x) /\ ~InStaged(x) /\ ~InHand(x) /\ x \notin ops
              /\ x \notin OpsOf(committed)
          BY <4>1, OnePlace DEF SpotInv
        <4>. QED
          BY <1>4, <4>1, <4>2 DEF Tally, Num
      <3>3. CASE x \notin Contents(f)
        <4>1. /\ InFlush(x)' <=> InFlush(x)
              /\ InSent(x)' <=> InSent(x)
              /\ x \in acked' <=> x \in acked
              /\ x \in failed' <=> x \in failed
          BY <1>6, <2>1, <3>3
        <4>. QED
          BY <1>4, <4>1 DEF Tally, Num
      <3>. QED
        BY <3>1, <3>2, <3>3
    <2>. QED
      BY <1>3, <2>1, <2>2 DEF SpotInv, Tallied
  <1>7. ASSUME NEW x \in Ids, x \in Contents(f)
        PROVE  /\ x \notin acked /\ x \notin failed
               /\ x \in f.ops => x \notin OpsOf(f.segs)
    <2>1. /\ x \in f.ops => InFlush(x)
          /\ x \in OpsOf(f.segs) => InSent(x)
      BY DEF InFlush, InSent
    <2>. QED
      BY <1>7, <2>1, OnePlace DEF Contents, SpotInv
  <1>8. ASSUME NEW bad \in SUBSET f.segs, SendSegments(f, bad) PROVE SpotInv'
    <2> DEFINE new == [segs |-> {}, ops |-> f.ops,
                       erred |-> f.erred \/ bad # {},
                       at |-> NextPart({}, f.ops)]
    <2>1. /\ acked' = acked \cup OpsOf(f.segs \ bad)
          /\ failed' = failed \cup OpsOf(bad)
          /\ flushes' = (flushes \ {f}) \cup {new}
      BY <1>8 DEF SendSegments, Advance
    <2>2. new.segs = {} /\ new.ops = f.ops
      OBVIOUS
    <2> HIDE DEF new
    <2>3. ASSUME NEW x
          PROVE  /\ x \in OpsOf(f.segs)
                       <=> x \in OpsOf(f.segs \ bad) \/ x \in OpsOf(bad)
                 /\ x \in OpsOf(bad) => x \notin OpsOf(f.segs \ bad)
      <3>1. Apart(f.segs) /\ bad \subseteq f.segs
        BY <1>5 DEF FlushOnce
      <3>. QED
        BY <3>1 DEF OpsOf, Apart
    <2>4. ASSUME NEW x, x \in Contents(f)
          PROVE  IF x \in f.ops
                 THEN /\ x \in acked' <=> x \in acked
                      /\ x \in failed' <=> x \in failed
                 ELSE x \in acked' <=> x \notin failed'
      BY <1>1, <1>7, <2>1, <2>3, <2>4 DEF Contents
    <2>5. ASSUME NEW x, x \notin Contents(f)
          PROVE  /\ x \in acked' <=> x \in acked
                 /\ x \in failed' <=> x \in failed
      BY <2>1, <2>3, <2>5 DEF Contents
    <2>. QED
      BY <1>6, <2>1, <2>2, <2>4, <2>5
  <1>9. ASSUME NEW bad \in SUBSET f.ops, SendWrites(f, bad), f.segs = {}
        PROVE  SpotInv'
    <2> DEFINE new == [segs |-> {}, ops |-> Released(f, bad),
                       erred |-> f.erred \/ bad # {}, at |-> "acks"]
    <2>1. /\ failed' = failed \cup bad /\ acked' = acked
          /\ flushes' = (flushes \ {f}) \cup {new}
      BY <1>9 DEF SendWrites, Advance
    <2>2. new.segs = {} /\ new.ops = f.ops \ bad
      BY DEF Released
    <2> HIDE DEF new
    <2>3. Contents(f) = f.ops
      BY <1>9 DEF Contents, OpsOf
    <2>4. \A x : x \in Contents(f) =>
             IF x \in f.ops \ bad
             THEN /\ x \in acked' <=> x \in acked
                  /\ x \in failed' <=> x \in failed
             ELSE x \in acked' <=> x \notin failed'
      BY <1>1, <1>7, <2>1, <2>3
    <2>5. \A x : x \notin Contents(f) =>
             /\ x \in acked' <=> x \in acked
             /\ x \in failed' <=> x \in failed
      BY <1>9, <2>1, <2>3
    <2>. QED
      BY <1>6, <2>1, <2>2, <2>4, <2>5
  <1>10. ASSUME NEW bad \in SUBSET f.ops, SendAcks(f, bad), f.segs = {}
         PROVE  SpotInv'
    <2>1. /\ acked' = acked \cup (f.ops \ bad)
          /\ failed' = failed \cup bad /\ flushes' = flushes \ {f}
      BY <1>10 DEF SendAcks
    <2>2. Contents(f) = f.ops
      BY <1>10 DEF Contents, OpsOf
    <2> DEFINE new == [segs |-> {}, ops |-> {}]
    <2>3. new.segs = {} /\ new.ops = {}
      OBVIOUS
    <2> HIDE DEF new
    <2>4. \A x : x \in Contents(f) =>
             IF x \in {}
             THEN /\ x \in acked' <=> x \in acked
                  /\ x \in failed' <=> x \in failed
             ELSE x \in acked' <=> x \notin failed'
      BY <1>1, <1>7, <2>1, <2>2
    <2>5. \A x : x \notin Contents(f) =>
             /\ x \in acked' <=> x \in acked
             /\ x \in failed' <=> x \in failed
      BY <1>10, <2>1, <2>2
    <2>. QED
      BY <1>6, <2>1, <2>3, <2>4, <2>5
  <1>11. f.at # "segments" => f.segs = {}
    BY <1>5 DEF FlushOnce
  <1>12. ASSUME NEW bad \in SUBSET f.ops, SendWrites(f, bad) PROVE SpotInv'
    BY <1>9, <1>11, <1>12 DEF SendWrites
  <1>13. ASSUME NEW bad \in SUBSET f.ops, SendAcks(f, bad) PROVE SpotInv'
    BY <1>10, <1>11, <1>13 DEF SendAcks
  <1>. QED
    BY <1>8, <1>12, <1>13 DEF Send

\* A step that moves no settle.
LEMMA SpotsStand ==
    ASSUME SpotInv,
           UNCHANGED <<staged, committed, ops, flushes, acked, failed>>,
           \A d \in Ids : hands'[d].ops = hands[d].ops,
           \A d \in Ids : Owing(d)' <=> Owing(d),
           \A d \in Ids : stage'[d] # "sealing" => hands[d].ops = {}
    PROVE  SpotInv'
  <1>1. StagedOnce' /\ Apart(committed)' /\ FlushOnce'
    BY DEF SpotInv, StagedOnce, Apart, FlushOnce, Contents, OpsOf
  <1>2. HandOnce'
    BY DEF SpotInv, HandOnce
  <1>3. ASSUME NEW x \in Ids PROVE Tally(x)' = Num(Owing(x))'
    <2>1. /\ InStaged(x)' <=> InStaged(x)
          /\ InHand(x)' <=> InHand(x)
          /\ x \in ops' <=> x \in ops
          /\ x \in OpsOf(committed)' <=> x \in OpsOf(committed)
          /\ InFlush(x)' <=> InFlush(x)
          /\ InSent(x)' <=> InSent(x)
          /\ x \in acked' <=> x \in acked
          /\ x \in failed' <=> x \in failed
          /\ Owing(x)' <=> Owing(x)
      BY DEF InStaged, InHand, OpsOf, InFlush, InSent
    <2>2. Tally(x) = Num(Owing(x))
      BY DEF SpotInv, Tallied
    <2>. QED
      BY <2>1, <2>2 DEF Tally, Num
  <1>. QED
    BY <1>1, <1>2, <1>3 DEF SpotInv, Tallied

LEMMA DrainSpots == ASSUME TypeInv, SpotInv, Drain PROVE SpotInv'
  <1>1. /\ TakeIf(TRUE, committed, ops)
        /\ UNCHANGED <<stage, verdict, hands, staged, acked, failed>>
    BY DEF Drain, server
  <1>2. ops \subseteq Ids /\ OpsOf(committed) \subseteq Ids
    BY CmdsTypes DEF TypeInv, RestTypes, DebtTypes
  <1>3. \A x : x \in ops \/ x \in OpsOf(committed) => ~InFlush(x) /\ ~InSent(x)
    BY <1>2, OnePlace DEF SpotInv
  <1>4. /\ Apart(committed') /\ FlushOnce'
        /\ \A x : /\ x \notin ops' /\ x \notin OpsOf(committed')
                  /\ InFlush(x)' <=> InFlush(x) \/ x \in ops
                  /\ InSent(x)' <=> InSent(x) \/ x \in OpsOf(committed)
    BY <1>1, <1>3, Taken DEF SpotInv
  <1>5. StagedOnce' /\ HandOnce' /\ Apart(committed)'
    BY <1>1, <1>4 DEF SpotInv, StagedOnce, HandOnce, Apart
  <1>6. ASSUME NEW x \in Ids PROVE Tally(x)' = Num(Owing(x))'
    <2>1. /\ InStaged(x)' <=> InStaged(x)
          /\ InHand(x)' <=> InHand(x)
          /\ x \in acked' <=> x \in acked
          /\ x \in failed' <=> x \in failed
          /\ Owing(x)' <=> Owing(x)
          /\ x \in OpsOf(committed)' <=> x \in OpsOf(committed')
      BY <1>1 DEF InStaged, InHand, OpsOf, Owing, Owes
    <2>2. Tally(x) = Num(Owing(x))
      BY DEF SpotInv, Tallied
    <2>3. /\ x \in ops => ~InFlush(x)
          /\ x \in OpsOf(committed) => ~InSent(x)
      BY <1>3
    <2>4. /\ x \notin ops' /\ x \notin OpsOf(committed')
          /\ InFlush(x)' <=> InFlush(x) \/ x \in ops
          /\ InSent(x)' <=> InSent(x) \/ x \in OpsOf(committed)
      BY <1>4
    <2>. QED
      BY <2>1, <2>2, <2>3, <2>4 DEF Tally, Num
  <1>. QED
    BY <1>4, <1>5, <1>6 DEF SpotInv, Tallied

LEMMA SpotStep == ASSUME TypeInv, SpotInv, [Next]_vars PROVE SpotInv'
  <1>1. stage \in [Ids -> Stage] /\ hands \in [Ids -> Hand]
        /\ verdict \in [Ids -> Verdict]
    BY DEF TypeInv, StreamInv, StageInv, RestTypes, HandTypes
  <1>2. \A e \in Ids : stage[e] # "sealing" => hands[e].ops = {}
    BY DEF SpotInv, HandOnce
  <1>3. ASSUME UNCHANGED <<staged, committed, ops, flushes, acked, failed,
                           hands, verdict>>,
               \A e \in Ids : /\ stage'[e] # stage[e] =>
                                    stage[e] \in {"unread", "buffered"}
                              /\ stage'[e] # stage[e] =>
                                    stage'[e] \in {"buffered", "held", "gone"}
        PROVE  SpotInv'
    <2>1. \A e \in Ids : Owing(e)' <=> Owing(e)
      BY <1>3 DEF Owing, Owes
    <2>2. \A e \in Ids : stage'[e] # "sealing" => hands[e].ops = {}
      BY <1>2, <1>3
    <2>. QED
      BY <1>3, <2>1, <2>2, SpotsStand
  <1>4. ASSUME NEW n \in 1..MaxRead, Fetch(n) PROVE SpotInv'
    <2>1. /\ stage' = [d \in Ids |-> IF d \in read + 1 .. read + n
                                     THEN "buffered" ELSE stage[d]]
          /\ UNCHANGED <<staged, committed, ops, flushes, acked, failed, hands,
                         verdict>>
      BY <1>4 DEF Fetch, server
    <2>2. \A e \in Ids : e \in read + 1 .. read + n => stage[e] = "unread"
      BY DEF TypeInv, StreamInv, StageInv, BufferInv, Ids
    <2>. QED
      BY <1>3, <2>1, <2>2
  <1>5. CASE Yield
    <2>1. /\ stage' = [d \in Ids |-> IF d \in Out THEN "held" ELSE stage[d]]
          /\ UNCHANGED <<staged, committed, ops, flushes, acked, failed, hands,
                         verdict>>
      BY <1>5 DEF Yield, owed, server, Out, Batch
    <2>2. \A e \in Out : stage[e] = "buffered"
      BY <1>5, OutTypes DEF TypeInv, Yield
    <2>. QED
      BY <1>3, <2>1, <2>2
  <1>6. CASE Discard \/ Stop
    <2>1. /\ stage' = [d \in Ids |-> IF d \in Elems(buffer) THEN "gone"
                                                            ELSE stage[d]]
          /\ UNCHANGED <<staged, committed, ops, flushes, acked, failed, hands,
                         verdict>>
      BY <1>6 DEF Discard, Stop, server, owed
    <2>2. \A e \in Ids : e \in Elems(buffer) => stage[e] = "buffered"
      BY BufferElems DEF TypeInv, StreamInv, StageInv
    <2>. QED
      BY <1>3, <2>1, <2>2
  <1>7. ASSUME NEW d \in Ids, Queue(round[d]) PROVE SpotInv'
    <2>1. UNCHANGED <<staged, committed, ops, flushes, acked, failed, hands,
                      verdict, stage>>
      BY <1>7 DEF Queue, owed
    <2>. QED
      BY <1>3, <2>1
  <1>8. ASSUME NEW d \in Ids, NEW v \in Verdicts, Close(d, v) PROVE SpotInv'
    <2> DEFINE s == round[d].slot
               h == [Nothing EXCEPT !.last = LastMember(s), !.clean = Kept(s, v),
                            !.cmds = IF LastMember(s) THEN slots[s].cmds ELSE {}]
    <2>1. /\ stage[d] = "held" /\ stage' = [stage EXCEPT ![d] = "closing"]
          /\ hands' = [hands EXCEPT ![d] = h]
          /\ verdict' = [verdict EXCEPT ![d] = v]
          /\ UNCHANGED <<staged, committed, ops, flushes, acked, failed>>
      BY <1>8 DEF Close, owed, server
    <2>2. h.ops = {}
      BY DEF Nothing
    <2> HIDE DEF h
    <2>3. \A e \in Ids : hands'[e].ops = hands[e].ops
      BY <1>1, <1>2, <2>1, <2>2
    <2>4. \A e \in Ids : Owing(e)' <=> Owing(e)
      BY <1>1, <2>1 DEF Owing, Owes
    <2>5. \A e \in Ids : stage'[e] # "sealing" => hands[e].ops = {}
      BY <1>1, <1>2, <2>1
    <2>. QED
      BY <2>1, <2>3, <2>4, <2>5, SpotsStand
  <1>9. CASE Report \/ UNCHANGED vars
    <2>1. UNCHANGED <<staged, committed, ops, flushes, acked, failed, hands,
                      verdict, stage>>
      BY <1>9 DEF Report, vars, owed, server
    <2>. QED
      BY <1>3, <2>1
  <1>10. ASSUME NEW d \in Ids, Settle(d) \/ CommitFails(d) PROVE SpotInv'
    BY <1>10, StageSpots, SealSpots, OweSpots, CountedSpots, AbandonSpots
    DEF Settle
  <1>. QED
    BY <1>4, <1>5, <1>6, <1>7, <1>8, <1>9, <1>10, DrainSpots, SendSpots,
       NextCases

LEMMA InitSpots == Init => SpotInv
  <1> SUFFICES ASSUME Init PROVE SpotInv
    OBVIOUS
  <1>1. /\ stage = [d \in Ids |-> "unread"] /\ hands = [d \in Ids |-> Nothing]
        /\ staged = [s \in Ids |-> {}]
        /\ committed = {} /\ ops = {} /\ flushes = {} /\ acked = {} /\ failed = {}
    BY DEF Init
  <1>2. \A d \in Ids : hands[d].ops = {}
    BY <1>1 DEF Nothing
  <1>3. StagedOnce /\ HandOnce /\ Apart(committed) /\ FlushOnce
    BY <1>1, <1>2 DEF StagedOnce, HandOnce, Apart, FlushOnce
  <1>4. ASSUME NEW x \in Ids PROVE Tally(x) = Num(Owing(x))
    <2>1. /\ ~InStaged(x) /\ ~InHand(x) /\ x \notin ops
          /\ x \notin OpsOf(committed) /\ ~InFlush(x) /\ ~InSent(x)
          /\ x \notin acked /\ x \notin failed /\ ~Owing(x)
      BY <1>1, <1>2 DEF InStaged, InHand, OpsOf, InFlush, InSent, Owing
    <2>. QED
      BY <2>1 DEF Tally, Num
  <1>. QED
    BY <1>3, <1>4 DEF SpotInv, Tallied

LEMMA SpotInvariant == Spec => [](TypeInv /\ SpotInv)
  <1>1. Init => TypeInv /\ SpotInv
    BY InitTypes, InitSpots
  <1>2. TypeInv /\ SpotInv /\ [Next]_vars => (TypeInv /\ SpotInv)'
    BY TypeStep, SpotStep
  <1>. QED
    BY <1>1, <1>2, PTL DEF Spec

\* A set of at most one element.
LEMMA CardinalityOne ==
    ASSUME NEW S, \A a, b \in S : a = b
    PROVE  Cardinality(S) = Num(S # {})
  <1>1. CASE S = {}
    BY <1>1, FS_EmptySet DEF Num
  <1>2. CASE S # {}
    <2>1. PICK a : S = {a}
      BY <1>2
    <2>. QED
      BY <1>2, <2>1, FS_Singleton DEF Num
  <1>. QED
    BY <1>1, <1>2

\* From its second step on the settle of a delivery is in one place: staged
\* for its batch, with the last member, owed, in a flush, acked or failed; it
\* is never sent twice and never forgotten, whatever overlaps with whatever.
THEOREM SettlesOnce == Spec => []EachSettleOnce
  <1>1. ASSUME TypeInv, SpotInv PROVE EachSettleOnce
    <2> SUFFICES ASSUME NEW d \in Ids
                 PROVE  Places(d) =
                           IF stage[d] \in {"sealing", "counting", "settled"}
                           THEN Cardinality(Owes(d)) ELSE 0
      BY DEF EachSettleOnce
    <2> DEFINE A == {s \in Ids : d \in staged[s]}
               B == {e \in Ids : d \in hands[e].ops}
               C == {g \in committed : d \in g.ops}
               F == {f \in flushes : d \in f.ops \cup OpsOf(f.segs)}
    <2>1. Cardinality(A) = Num(InStaged(d))
      <3>1. \A a, b \in A : a = b
        BY <1>1 DEF SpotInv, StagedOnce
      <3>2. A # {} <=> InStaged(d)
        BY DEF InStaged
      <3> HIDE DEF A
      <3>. QED
        BY <3>1, <3>2, CardinalityOne DEF Num
    <2>2. Cardinality(B) = Num(InHand(d))
      <3>1. \A a, b \in B : a = b
        BY <1>1 DEF SpotInv, HandOnce
      <3>2. B # {} <=> InHand(d)
        BY DEF InHand
      <3> HIDE DEF B
      <3>. QED
        BY <3>1, <3>2, CardinalityOne DEF Num
    <2>3. Cardinality(C) = Num(d \in OpsOf(committed))
      <3>1. \A a, b \in C : a = b
        BY <1>1 DEF SpotInv, Apart
      <3>2. C # {} <=> d \in OpsOf(committed)
        BY DEF OpsOf
      <3> HIDE DEF C
      <3>. QED
        BY <3>1, <3>2, CardinalityOne DEF Num
    <2>4. Cardinality(F) = Num(InFlush(d)) + Num(InSent(d))
      <3>1. \A a, b \in F : a = b
        BY <1>1 DEF SpotInv, FlushOnce, Contents
      <3>2. F # {} <=> InFlush(d) \/ InSent(d)
        BY DEF InFlush, InSent
      <3>3. ~(InFlush(d) /\ InSent(d))
        BY <1>1, OnePlace DEF SpotInv
      <3> HIDE DEF F
      <3>. QED
        BY <3>1, <3>2, <3>3, CardinalityOne DEF Num
    <2>5. /\ Cardinality({d} \cap ops) = Num(d \in ops)
          /\ Cardinality({d} \cap acked) = Num(d \in acked)
          /\ Cardinality({d} \cap failed) = Num(d \in failed)
          /\ Cardinality(Owes(d)) = Num(Owes(d) # {})
      <3>1. ASSUME NEW S PROVE Cardinality({d} \cap S) = Num(d \in S)
        BY CardinalityOne DEF Num
      <3>2. \A a, b \in Owes(d) : a = b
        BY DEF Owes
      <3>. QED
        BY <3>1, <3>2, CardinalityOne
    <2>6. Places(d) = Tally(d)
      <3>1. Places(d) = Cardinality(A) + Cardinality(B) + Cardinality(C)
               + Cardinality({d} \cap ops) + Cardinality(F)
               + Cardinality({d} \cap acked) + Cardinality({d} \cap failed)
        BY DEF Places
      <3> HIDE DEF A, B, C, F
      <3>. QED
        BY <2>1, <2>2, <2>3, <2>4, <2>5, <3>1 DEF Tally, Num
    <2>7. Tally(d) = Num(Owing(d))
      BY <1>1 DEF SpotInv, Tallied
    <2>. QED
      BY <2>5, <2>6, <2>7 DEF Owing, Num
  <1>. QED
    BY <1>1, SpotInvariant, PTL

-----------------------------------------------------------------------------
(* Rounds: their members, and what was decided about them.                 *)

NoHeld(c) == \A e \in Members(c) : stage[e] # "held"
AllAck(c) == \A e \in Members(c) : verdict[e] = "ack"
Live(c)   == c # NoRound /\ \E a \in Ids : round[a] = c

\* The members of a round are those it was yielded with.
LEMMA RoundMoves ==
    ASSUME TypeInv, [Next]_vars, NEW c, Live(c)
    PROVE  Members(c)' = Members(c) /\ Live(c)'
  <1>1. CASE round' = round
    BY <1>1 DEF Members, Live
  <1>2. CASE Yield
    <2>1. /\ round' = [d \in Ids |-> IF d \in Out THEN NewRound ELSE round[d]]
          /\ \A d \in Ids : round[d] # NewRound
          /\ \A d \in Out : round[d] = NoRound
      BY <1>2, YieldRound DEF TypeInv
    <2> HIDE DEF NewRound, Out
    <2>2. ASSUME NEW e \in Ids PROVE round'[e] = c <=> round[e] = c
      <3>1. c # NoRound /\ c # NewRound
        BY <2>1 DEF Live
      <3>. QED
        BY <2>1, <3>1
    <2>. QED
      BY <2>2 DEF Members, Live
  <1>3. Yield \/ round' = round
    <2>1. ASSUME NEW n \in 1..MaxRead, Fetch(n) PROVE round' = round
      BY <2>1 DEF Fetch
    <2>2. ASSUME NEW d \in Ids, NEW v, Close(d, v) PROVE round' = round
      BY <2>2 DEF Close
    <2>3. ASSUME NEW d \in Ids, Settle(d) \/ CommitFails(d)
          PROVE  round' = round
      BY <2>3, SettleMovesOn DEF MovesOn
    <2>4. ASSUME NEW d \in Ids, Queue(round[d]) PROVE round' = round
      BY <2>4 DEF Queue
    <2>5. ASSUME Discard \/ Stop PROVE round' = round
      BY <2>5 DEF Discard, Stop
    <2>6. ASSUME Still PROVE round' = round
      BY <2>6 DEF Still
    <2>. QED
      BY <2>1, <2>2, <2>3, <2>4, <2>5, <2>6, NextCases, SendIsStill,
         QuietIsStill
  <1>. QED
    BY <1>1, <1>2, <1>3

\* Where a delivery goes, and that only its close decides about it.
StageMove(e) ==
    /\ verdict'[e] # verdict[e] => stage[e] = "held" /\ stage'[e] = "closing"
    /\ stage'[e] = "held" => /\ stage[e] \in {"held", "buffered"}
                             /\ verdict'[e] = verdict[e]
    /\ stage[e] \in Settling \cup {"settled"} =>
          stage'[e] \in {"sealing", "counting", "settled"} \/ stage'[e] = stage[e]
    /\ stage'[e] \in {"unread", "buffered", "gone"} =>
          stage[e] \in {"unread", "buffered", "gone"}

LEMMA StageMoves ==
    ASSUME TypeInv, [Next]_vars, NEW e \in Ids PROVE StageMove(e)
  <1>1. stage \in [Ids -> Stage] /\ verdict \in [Ids -> Verdict]
        /\ stage[e] \in Stage
    BY DEF TypeInv, StreamInv, StageInv, RestTypes, HandTypes
  <1>2. ASSUME NEW n \in 1..MaxRead, Fetch(n) PROVE StageMove(e)
    <2>1. /\ stage' = [d \in Ids |-> IF d \in read + 1 .. read + n
                                     THEN "buffered" ELSE stage[d]]
          /\ verdict' = verdict
      BY <1>2 DEF Fetch
    <2>2. e \in read + 1 .. read + n => stage[e] = "unread"
      BY DEF TypeInv, StreamInv, StageInv, BufferInv, Ids
    <2>. QED
      BY <2>1, <2>2 DEF StageMove, Settling
  <1>3. ASSUME Yield PROVE StageMove(e)
    <2>1. /\ stage' = [d \in Ids |-> IF d \in Out THEN "held" ELSE stage[d]]
          /\ verdict' = verdict
      BY <1>3 DEF Yield, Out, Batch
    <2>2. e \in Out => stage[e] = "buffered"
      BY <1>3, OutTypes DEF TypeInv, Yield
    <2>. QED
      BY <2>1, <2>2 DEF StageMove, Settling
  <1>4. ASSUME Discard \/ Stop PROVE StageMove(e)
    <2>1. /\ stage' = [d \in Ids |-> IF d \in Elems(buffer) THEN "gone"
                                                            ELSE stage[d]]
          /\ verdict' = verdict
      BY <1>4 DEF Discard, Stop
    <2>2. e \in Elems(buffer) => stage[e] = "buffered"
      BY BufferElems DEF TypeInv, StreamInv, StageInv
    <2>. QED
      BY <2>1, <2>2 DEF StageMove, Settling
  <1>5. ASSUME UNCHANGED <<stage, verdict>> PROVE StageMove(e)
    BY <1>1, <1>5 DEF StageMove, Settling
  <1>6. ASSUME NEW d \in Ids, NEW v, Close(d, v) PROVE StageMove(e)
    <2>1. /\ stage[d] = "held" /\ stage' = [stage EXCEPT ![d] = "closing"]
          /\ verdict' = [verdict EXCEPT ![d] = v]
      BY <1>6 DEF Close
    <2>2. CASE e = d
      BY <1>1, <2>1, <2>2 DEF StageMove, Settling
    <2>3. CASE e # d
      BY <1>1, <2>1, <2>3 DEF StageMove, Settling
    <2>. QED
      BY <2>2, <2>3
  <1>7. ASSUME NEW d \in Ids, Settle(d) \/ CommitFails(d) PROVE StageMove(e)
    <2>1. stage[d] \in Settling /\ verdict' = verdict
      BY <1>7, SettleMovesOn DEF MovesOn
    <2>2. PICK x \in {"sealing", "counting", "settled"} :
              stage' = [stage EXCEPT ![d] = x]
      BY <1>7, SettleMovesOn DEF MovesOn
    <2>3. CASE e = d
      BY <1>1, <2>1, <2>2, <2>3 DEF StageMove, Settling
    <2>4. CASE e # d
      BY <1>1, <2>1, <2>2, <2>4 DEF StageMove, Settling
    <2>. QED
      BY <2>3, <2>4
  <1>8. ASSUME NEW d \in Ids, Queue(round[d]) PROVE StageMove(e)
    BY <1>5, <1>8 DEF Queue
  <1>9. ASSUME NEW f, Send(f) PROVE StageMove(e)
    BY <1>5, <1>9 DEF Send, SendSegments, SendWrites, SendAcks
  <1>10. ASSUME Report \/ Drain \/ UNCHANGED vars PROVE StageMove(e)
    BY <1>5, <1>10 DEF Report, Drain, vars
  <1>. QED
    BY <1>2, <1>3, <1>4, <1>6, <1>7, <1>8, <1>9, <1>10, NextCases

VerdictInv ==
    \A d \in Ids : stage[d] \in {"unread", "buffered", "held", "gone"}
                       => verdict[d] = "none"

LEMMA VerdictStep == ASSUME TypeInv, VerdictInv, [Next]_vars PROVE VerdictInv'
  <1> SUFFICES ASSUME NEW d \in Ids,
                      stage'[d] \in {"unread", "buffered", "held", "gone"}
               PROVE  verdict'[d] = "none"
    BY DEF VerdictInv
  <1>1. StageMove(d) /\ stage[d] \in Stage
    BY StageMoves DEF TypeInv, StreamInv, StageInv
  <1>2. verdict'[d] = verdict[d]
    BY <1>1 DEF StageMove
  <1>3. stage[d] \in {"unread", "buffered", "held", "gone"}
    BY <1>1 DEF StageMove, Settling, Stage
  <1>. QED
    BY <1>2, <1>3 DEF VerdictInv

\* A round none of whose members is held stays as it is.
LEMMA RoundStays ==
    ASSUME TypeInv, [Next]_vars, NEW c, Live(c), NoHeld(c)
    PROVE  NoHeld(c)' /\ (AllAck(c)' <=> AllAck(c))
  <1>1. Members(c)' = Members(c)
    BY RoundMoves
  <1>2. ASSUME NEW e \in Members(c)
        PROVE  stage'[e] # "held" /\ verdict'[e] = verdict[e]
    <2>1. e \in Ids /\ round[e] = c /\ c # NoRound
      BY <1>2 DEF Members, Live
    <2>2. stage[e] \notin {"unread", "buffered", "gone", "held"}
      BY <1>2, <2>1 DEF TypeInv, SegmentInv, RoundInv, NoHeld
    <2>3. StageMove(e)
      BY <2>1, StageMoves
    <2>. QED
      BY <2>2, <2>3 DEF StageMove
  <1>3. NoHeld(c)'
    BY <1>1, <1>2 DEF NoHeld
  <1>4. AllAck(c)' <=> AllAck(c)
    BY <1>1, <1>2 DEF AllAck
  <1>. QED
    BY <1>3, <1>4

\* A round all of whose members were acknowledged stays one.
Done(c) == Live(c) /\ AllAck(c)

LEMMA DoneStays ==
    ASSUME TypeInv, VerdictInv, [Next]_vars, NEW c, Done(c)
    PROVE  Done(c)' /\ NoHeld(c)
  <1>1. NoHeld(c)
    BY DEF Done, AllAck, NoHeld, VerdictInv, Members
  <1>. QED
    BY <1>1, RoundMoves, RoundStays DEF Done

-----------------------------------------------------------------------------
(* What the last member of a round knows about the others.                 *)

CleanInv ==
    \A d \in Ids : stage[d] = "held" =>
        (slots[round[d].slot].clean
            <=> \A e \in Members(round[d]) : stage[e] = "held" \/ verdict[e] = "ack")
LastInv ==
    \A d \in Ids : stage[d] = "closing" /\ hands[d].last =>
        /\ NoHeld(round[d])
        /\ hands[d].clean <=> AllAck(round[d])
KnowInv == VerdictInv /\ CleanInv /\ LastInv

\* The round of a delivery that has a slot.
LEMMA LiveRound ==
    ASSUME TypeInv, NEW d \in Ids, stage[d] \in Settling \cup {"settled", "held"}
    PROVE  Live(round[d]) /\ d \in Members(round[d])
  BY SettlingSlot DEF TypeInv, Live, Members

\* What a settle carries changes with its own steps only.
LEMMA HandMoves ==
    ASSUME TypeInv, [Next]_vars, NEW e \in Ids, stage[e] \in Settling,
           stage'[e] = stage[e]
    PROVE  hands'[e] = hands[e]
  <1>1. stage \in [Ids -> Stage] /\ hands \in [Ids -> Hand]
    BY DEF TypeInv, StreamInv, StageInv, RestTypes, HandTypes
  <1>2. ASSUME NEW d \in Ids, NEW v, Close(d, v) PROVE hands'[e] = hands[e]
    <2>1. stage[d] = "held" /\ stage' = [stage EXCEPT ![d] = "closing"]
      BY <1>2 DEF Close
    <2>2. e # d
      BY <1>1, <2>1 DEF Settling
    <2>. QED
      BY <1>1, <1>2, <2>2 DEF Close
  <1>3. ASSUME NEW d \in Ids, Settle(d) \/ CommitFails(d)
        PROVE  hands'[e] = hands[e]
    <2>1. PICK x \in {"sealing", "counting", "settled"} :
              x # stage[d] /\ stage' = [stage EXCEPT ![d] = x]
      BY <1>3, SettleMovesOn DEF MovesOn
    <2>2. e # d
      BY <1>1, <2>1
    <2>3. ASSUME NEW segs, NEW acks, Counted(d, segs, acks)
          PROVE  hands'[e] = hands[e]
      BY <1>1, <2>2, <2>3 DEF Counted
    <2>4. CASE StageSettle(d) \/ Seal(d) \/ OweSettle(d) \/ Abandon(d)
      BY <1>1, <2>2, <2>4 DEF StageSettle, Seal, OweSettle, Abandon
    <2>5. CASE Count(d) \/ CommitFails(d)
      BY <2>3, <2>5 DEF Count, CommitFails
    <2>6. CASE Commit(d)
      BY <2>3, <2>6 DEF Commit
    <2>. QED
      BY <1>3, <2>4, <2>5, <2>6 DEF Settle
  <1>4. ASSUME NEW n \in 1..MaxRead, Fetch(n) PROVE hands'[e] = hands[e]
    BY <1>4 DEF Fetch
  <1>5. ASSUME Yield \/ Discard \/ Stop PROVE hands'[e] = hands[e]
    BY <1>5 DEF Yield, Discard, Stop
  <1>6. ASSUME NEW d \in Ids, Queue(round[d]) PROVE hands'[e] = hands[e]
    BY <1>6 DEF Queue
  <1>7. ASSUME Still PROVE hands'[e] = hands[e]
    BY <1>7 DEF Still
  <1>. QED
    BY <1>2, <1>3, <1>4, <1>5, <1>6, <1>7, NextCases, SendIsStill,
       QuietIsStill

\* A delivery comes to its second lock by its close only.
LEMMA OnlyCloses ==
    ASSUME TypeInv, [Next]_vars, NEW e \in Ids, stage[e] # "closing",
           stage'[e] = "closing"
    PROVE  \E v \in Verdicts : Close(e, v)
  <1>1. stage \in [Ids -> Stage]
    BY DEF TypeInv, StreamInv, StageInv
  <1>2. ASSUME NEW d \in Ids, NEW v \in Verdicts, Close(d, v) PROVE e = d
    BY <1>1, <1>2 DEF Close
  <1>3. ASSUME NEW d \in Ids, Settle(d) \/ CommitFails(d) PROVE FALSE
    BY <1>1, <1>3, SettleMovesOn DEF MovesOn
  <1>4. ASSUME NEW n \in 1..MaxRead, Fetch(n) PROVE FALSE
    BY <1>4 DEF Fetch
  <1>5. ASSUME Yield PROVE FALSE
    BY <1>5 DEF Yield
  <1>6. ASSUME Discard \/ Stop PROVE FALSE
    BY <1>6 DEF Discard, Stop
  <1>7. ASSUME NEW d \in Ids, Queue(round[d]) PROVE FALSE
    BY <1>7 DEF Queue
  <1>8. ASSUME Still PROVE FALSE
    BY <1>8 DEF Still
  <1>. QED
    BY <1>2, <1>3, <1>4, <1>5, <1>6, <1>7, <1>8, NextCases, SendIsStill,
       QuietIsStill

LEMMA CloseHand ==
    ASSUME TypeInv, NEW d \in Ids, NEW v, Close(d, v)
    PROVE  LET s == round[d].slot
           IN  /\ hands'[d].last = LastMember(s) /\ hands'[d].clean = Kept(s, v)
               /\ hands'[d].cmds = IF LastMember(s) THEN slots[s].cmds ELSE {}
               /\ verdict'[d] = v /\ stage'[d] = "closing" /\ stage[d] = "held"
               /\ round' = round
               /\ \A e \in Ids : e # d => /\ hands'[e] = hands[e]
                                          /\ verdict'[e] = verdict[e]
                                          /\ stage'[e] = stage[e]
  <1>1. stage \in [Ids -> Stage] /\ hands \in [Ids -> Hand]
        /\ verdict \in [Ids -> Verdict]
    BY DEF TypeInv, StreamInv, StageInv, RestTypes, HandTypes
  <1> DEFINE s == round[d].slot
             l == LastMember(s)  k == Kept(s, v)
             c == IF LastMember(s) THEN slots[s].cmds ELSE {}
             h == [Nothing EXCEPT !.last = l, !.clean = k, !.cmds = c]
  <1>2. /\ hands' = [hands EXCEPT ![d] = h]
        /\ verdict' = [verdict EXCEPT ![d] = v]
        /\ stage' = [stage EXCEPT ![d] = "closing"] /\ stage[d] = "held"
        /\ round' = round
    BY DEF Close
  <1> HIDE DEF l, k, c
  <1>3. h.last = l /\ h.clean = k /\ h.cmds = c
    BY DEF Nothing
  <1> HIDE DEF h
  <1>. QED
    BY <1>1, <1>2, <1>3 DEF l, k, c

LEMMA CloseClean ==
    ASSUME TypeInv, KnowInv, NEW d \in Ids, NEW v, Close(d, v)
    PROVE  CleanInv'
  <1> DEFINE s == round[d].slot
  <1>1. /\ verdict'[d] = v /\ stage'[d] = "closing" /\ stage[d] = "held"
        /\ round' = round
        /\ \A e \in Ids : e # d => /\ verdict'[e] = verdict[e]
                                   /\ stage'[e] = stage[e]
    BY CloseHand
  <1>2. /\ slots'[s].clean = Kept(s, v)
        /\ \A t \in 1..Len(slots) : t # s => slots'[t] = slots[t]
    BY CloseSlot DEF TypeInv
  <1> SUFFICES ASSUME NEW e \in Ids, stage'[e] = "held"
               PROVE  slots'[round[e].slot].clean
                          <=> \A m \in Members(round[e]) :
                                 stage'[m] = "held" \/ verdict'[m] = "ack"
    BY <1>1 DEF CleanInv, Members
  <1>3. e # d /\ stage[e] = "held"
    BY <1>1
  <1>4. slots[round[e].slot].clean
            <=> \A m \in Members(round[e]) : stage[m] = "held" \/ verdict[m] = "ack"
    BY <1>3 DEF KnowInv, CleanInv
  <1>5. round[e].slot \in 1..Len(slots) /\ e \in Holders(round[e].slot)
    BY <1>3, HeldSlot DEF TypeInv
  <1>6. CASE round[e].slot = s
    <2>1. round[e] = round[d]
      BY <1>1, <1>5, <1>6, HeldSlot DEF TypeInv
    <2>2. d \in Members(round[e])
      BY <2>1 DEF Members
    <2>3. slots'[s].clean <=> slots[s].clean /\ v = "ack"
      BY <1>2 DEF Kept
    <2>4. (\A m \in Members(round[e]) : stage'[m] = "held" \/ verdict'[m] = "ack")
             <=> /\ \A m \in Members(round[e]) : stage[m] = "held"
                                                  \/ verdict[m] = "ack"
                 /\ v = "ack"
      BY <1>1, <2>2 DEF Members
    <2>. QED
      BY <1>4, <1>6, <2>3, <2>4
  <1>7. CASE round[e].slot # s
    <2>1. d \notin Members(round[e])
      BY <1>7 DEF Members
    <2>2. slots'[round[e].slot] = slots[round[e].slot]
      BY <1>2, <1>5, <1>7
    <2>3. \A m \in Members(round[e]) : /\ stage'[m] = stage[m]
                                       /\ verdict'[m] = verdict[m]
      BY <1>1, <2>1 DEF Members
    <2>. QED
      BY <1>4, <2>2, <2>3
  <1>. QED
    BY <1>6, <1>7

LEMMA YieldClean ==
    ASSUME TypeInv, KnowInv, Yield PROVE CleanInv'
  <1>1. /\ round' = [e \in Ids |-> IF e \in Out THEN NewRound ELSE round[e]]
        /\ NewRound.slot = NextSlot
        /\ \A e \in Ids : round[e] # NewRound
        /\ stage' = [e \in Ids |-> IF e \in Out THEN "held" ELSE stage[e]]
        /\ Out \subseteq Ids /\ \A e \in Out : round[e] = NoRound
    BY YieldRound DEF TypeInv
  <1>2. /\ slots'[NextSlot].clean = TRUE
        /\ \A t \in 1..Len(slots) : t # NextSlot => slots'[t] = slots[t]
        /\ NextSlot \in 1..Len(slots) => NextSlot \in Elems(free)
    BY YieldSlot DEF TypeInv
  <1>3. verdict' = verdict /\ \A e \in Out : stage[e] = "buffered"
    BY OutTypes DEF Yield, TypeInv
  <1> HIDE DEF NewRound, Out, NextSlot
  <1> SUFFICES ASSUME NEW e \in Ids, stage'[e] = "held"
               PROVE  slots'[round'[e].slot].clean
                          <=> \A m \in Ids : round'[m] = round'[e] =>
                                 stage'[m] = "held" \/ verdict'[m] = "ack"
    BY DEF CleanInv, Members
  <1>4. CASE e \in Out
    <2>1. round'[e] = NewRound /\ slots'[round'[e].slot].clean = TRUE
      BY <1>1, <1>2, <1>4
    <2>2. ASSUME NEW m \in Ids, round'[m] = NewRound PROVE stage'[m] = "held"
      BY <1>1, <2>2
    <2>. QED
      BY <2>1, <2>2
  <1>5. CASE e \notin Out
    <2>1. round'[e] = round[e] /\ stage[e] = "held"
      BY <1>1, <1>5
    <2>2. round[e].slot \in 1..Len(slots) /\ round[e].slot # NextSlot
          /\ round[e] # NoRound
      BY <1>2, <2>1, HeldSlot DEF TypeInv
    <2>3. slots'[round[e].slot] = slots[round[e].slot]
      BY <1>2, <2>2
    <2>4. slots[round[e].slot].clean
            <=> \A m \in Ids : round[m] = round[e] =>
                    stage[m] = "held" \/ verdict[m] = "ack"
      BY <2>1 DEF KnowInv, CleanInv, Members
    <2>5. ASSUME NEW m \in Ids
          PROVE  /\ round'[m] = round[e] <=> round[m] = round[e]
                 /\ round[m] = round[e] => stage'[m] = stage[m]
      BY <1>1, <2>2
    <2>. QED
      BY <1>3, <2>1, <2>3, <2>4, <2>5
  <1>. QED
    BY <1>4, <1>5

LEMMA CleanStep == ASSUME TypeInv, KnowInv, [Next]_vars PROVE CleanInv'
  <1>1. stage \in [Ids -> Stage]
    BY DEF TypeInv, StreamInv, StageInv
  <1>2. ASSUME UNCHANGED <<round, verdict>>,
               \A e \in Ids : stage'[e] = "held" <=> stage[e] = "held",
               \A t \in 1..Len(slots) : slots'[t].clean = slots[t].clean
        PROVE  CleanInv'
    <2> SUFFICES ASSUME NEW e \in Ids, stage'[e] = "held"
                 PROVE  slots'[round[e].slot].clean
                            <=> \A m \in Members(round[e]) :
                                   stage'[m] = "held" \/ verdict[m] = "ack"
      BY <1>2 DEF CleanInv, Members
    <2>1. stage[e] = "held"
      BY <1>2
    <2>2. round[e].slot \in 1..Len(slots)
      BY <2>1, HeldSlot DEF TypeInv
    <2>3. slots[round[e].slot].clean
             <=> \A m \in Members(round[e]) : stage[m] = "held"
                                              \/ verdict[m] = "ack"
      BY <2>1 DEF KnowInv, CleanInv
    <2>. QED
      BY <1>2, <2>2, <2>3 DEF Members
  <1>3. ASSUME NEW n \in 1..MaxRead, Fetch(n) PROVE CleanInv'
    <2>1. /\ stage' = [d \in Ids |-> IF d \in read + 1 .. read + n
                                     THEN "buffered" ELSE stage[d]]
          /\ UNCHANGED <<round, verdict, slots>>
      BY <1>3 DEF Fetch, segment
    <2>2. \A e \in Ids : e \in read + 1 .. read + n => stage[e] = "unread"
      BY DEF TypeInv, StreamInv, StageInv, BufferInv, Ids
    <2>. QED
      BY <1>2, <2>1, <2>2
  <1>4. ASSUME Discard \/ Stop PROVE CleanInv'
    <2>1. /\ stage' = [d \in Ids |-> IF d \in Elems(buffer) THEN "gone"
                                                            ELSE stage[d]]
          /\ UNCHANGED <<round, verdict, slots>>
      BY <1>4 DEF Discard, Stop, segment
    <2>2. \A e \in Ids : e \in Elems(buffer) => stage[e] = "buffered"
      BY BufferElems DEF TypeInv, StreamInv, StageInv
    <2>. QED
      BY <1>2, <2>1, <2>2
  <1>5. ASSUME NEW d \in Ids, Settle(d) \/ CommitFails(d) PROVE CleanInv'
    <2>1. stage[d] \in Settling /\ UNCHANGED <<round, verdict, slots>>
      BY <1>5, SettleMovesOn DEF MovesOn, segment
    <2>2. PICK x \in {"sealing", "counting", "settled"} :
              stage' = [stage EXCEPT ![d] = x]
      BY <1>5, SettleMovesOn DEF MovesOn
    <2>. QED
      BY <1>1, <1>2, <2>1, <2>2 DEF Settling
  <1>6. ASSUME NEW d \in Ids, Queue(round[d]) PROVE CleanInv'
    <2>1. UNCHANGED <<round, verdict, stage>>
      BY <1>6 DEF Queue
    <2>2. \A t \in 1..Len(slots) : slots'[t].clean = slots[t].clean
      BY <1>6, QueueSlot DEF TypeInv
    <2>. QED
      BY <1>2, <2>1, <2>2
  <1>7. ASSUME Still PROVE CleanInv'
    BY <1>2, <1>7 DEF Still, segment
  <1>. QED
    BY <1>3, <1>4, <1>5, <1>6, <1>7, NextCases, YieldClean, CloseClean,
       SendIsStill, QuietIsStill

LEMMA LastStep == ASSUME TypeInv, KnowInv, [Next]_vars PROVE LastInv'
  <1> SUFFICES ASSUME NEW d \in Ids, stage'[d] = "closing", hands'[d].last
               PROVE  /\ NoHeld(round[d])' /\ round'[d] = round[d]
                      /\ hands'[d].clean <=> AllAck(round[d])'
    BY DEF LastInv, NoHeld, AllAck, Members
  <1>1. CASE stage[d] = "closing"
    <2>1. hands'[d] = hands[d]
      BY <1>1, HandMoves DEF Settling
    <2>2. Live(round[d]) /\ d \in Members(round[d])
      BY <1>1, LiveRound DEF Settling
    <2>3. NoHeld(round[d]) /\ (hands[d].clean <=> AllAck(round[d]))
      BY <1>1, <2>1 DEF KnowInv, LastInv
    <2>4. PICK c : c = round[d]
      OBVIOUS
    <2>5. /\ NoHeld(c)' /\ Members(c)' = Members(c)
          /\ AllAck(c)' <=> AllAck(c)
      BY <2>2, <2>3, <2>4, RoundStays, RoundMoves
    <2>6. round'[d] = c
      BY <2>2, <2>4, <2>5 DEF Members
    <2>. QED
      BY <2>1, <2>3, <2>4, <2>5, <2>6 DEF NoHeld, AllAck, Members
  <1>2. CASE stage[d] # "closing"
    <2>1. PICK v \in Verdicts : Close(d, v)
      BY <1>2, OnlyCloses
    <2> DEFINE s == round[d].slot
    <2>2. /\ hands'[d].last = LastMember(s) /\ hands'[d].clean = Kept(s, v)
          /\ verdict'[d] = v /\ stage'[d] = "closing" /\ stage[d] = "held"
          /\ round' = round
          /\ \A e \in Ids : e # d => /\ verdict'[e] = verdict[e]
                                     /\ stage'[e] = stage[e]
      BY <2>1, CloseHand
    <2>3. Holders(s) = {d} /\ d \in Members(round[d])
      BY <2>2, HeldSlot DEF TypeInv, Members
    <2>4. ASSUME NEW e \in Members(round[d]), e # d PROVE stage[e] # "held"
      BY <2>3, <2>4 DEF Holders, Members
    <2>5. slots[s].clean <=> \A e \in Members(round[d]) : e # d => verdict[e] = "ack"
      BY <2>2, <2>4 DEF KnowInv, CleanInv
    <2>6. hands'[d].clean <=> \A e \in Members(round[d]) : verdict'[e] = "ack"
      BY <2>2, <2>3, <2>5 DEF Kept, Members
    <2>7. \A e \in Members(round[d]) : stage'[e] # "held"
      BY <2>2, <2>4 DEF Members
    <2>. QED
      BY <2>2, <2>6, <2>7 DEF NoHeld, AllAck, Members
  <1>. QED
    BY <1>1, <1>2

LEMMA KnowStep == ASSUME TypeInv, KnowInv, [Next]_vars PROVE KnowInv'
  BY VerdictStep, CleanStep, LastStep DEF KnowInv

LEMMA InitKnows == Init => KnowInv
  BY DEF Init, KnowInv, VerdictInv, CleanInv, LastInv

-----------------------------------------------------------------------------
(* What runs, when no handler keeps its pipeline past the delivery.        *)

\* What is in the segment of a slot was queued by the handler that has it.
SegInv ==
    \A s \in 1..Len(slots) : \A c \in slots[s].cmds :
        /\ c.slot = s /\ c.gen = slots[s].gen /\ c \in queued
        /\ Live(c) /\ ~NoHeld(c)
CmdsInv ==
    \A d \in Ids :
        /\ stage[d] = "closing" /\ hands[d].last => hands[d].cmds \subseteq {round[d]}
        /\ stage[d] = "sealing" => hands[d].cmds = {round[d]} /\ AllAck(round[d])
\* Where a command is from its segment's commit on.
Under(c) == \/ c \in ran \/ c \in refused \/ c \in CmdsOf(committed)
            \/ \E f \in flushes : c \in CmdsOf(f.segs)
DoneInv == \A c : Under(c) => Done(c)
KeptInv == SegInv /\ CmdsInv /\ DoneInv

LEMMA SegStands ==
    ASSUME SegInv, Len(slots') = Len(slots), UNCHANGED <<round>>,
           \A e \in Ids : stage'[e] = "held" <=> stage[e] = "held",
           queued \subseteq queued',
           \A t \in 1..Len(slots) : /\ slots'[t].gen = slots[t].gen
                                    /\ slots'[t].cmds = slots[t].cmds
    PROVE  SegInv'
  <1> SUFFICES ASSUME NEW t \in 1..Len(slots), NEW c \in slots'[t].cmds
               PROVE  /\ c.slot = t /\ c.gen = slots'[t].gen /\ c \in queued'
                      /\ Live(c)' /\ ~NoHeld(c)'
    BY DEF SegInv
  <1>1. c \in slots[t].cmds
    OBVIOUS
  <1>2. /\ c.slot = t /\ c.gen = slots[t].gen /\ c \in queued
        /\ Live(c) /\ ~NoHeld(c)
    BY <1>1 DEF SegInv
  <1>3. Live(c)' /\ ~NoHeld(c)'
    BY <1>2 DEF Live, NoHeld, Members
  <1>. QED
    BY <1>2, <1>3

LEMMA QueueSeg ==
    ASSUME Keeps = FALSE, TypeInv, SegInv, NEW d \in Ids, Queue(round[d])
    PROVE  SegInv'
  <1> DEFINE s == round[d].slot
  <1>1. /\ s \in 1..Len(slots) /\ round[d] # NoRound
        /\ Len(slots') = Len(slots)
        /\ slots'[s].gen = slots[s].gen /\ slots[s].gen = round[d].gen
        /\ slots'[s].cmds = slots[s].cmds \cup {round[d]}
        /\ \A t \in 1..Len(slots) : t # s => slots'[t] = slots[t]
    BY QueueSlot DEF TypeInv
  <1>2. /\ UNCHANGED <<round, stage>> /\ queued' = queued \cup {round[d]}
        /\ \E e \in Members(round[d]) : stage[e] = "held"
    BY DEF Queue
  <1>3. Live(round[d]) /\ ~NoHeld(round[d])
    BY <1>1, <1>2 DEF Live, NoHeld
  <1> SUFFICES ASSUME NEW t \in 1..Len(slots), NEW c \in slots'[t].cmds
               PROVE  /\ c.slot = t /\ c.gen = slots'[t].gen /\ c \in queued'
                      /\ Live(c) /\ ~NoHeld(c)
    BY <1>1, <1>2 DEF SegInv, Live, NoHeld, Members
  <1>4. CASE c \in slots[t].cmds
    <2>1. slots'[t].gen = slots[t].gen
      BY <1>1
    <2>. QED
      BY <1>2, <1>4, <2>1 DEF SegInv
  <1>5. CASE c \notin slots[t].cmds
    <2>1. t = s /\ c = round[d]
      BY <1>1, <1>5
    <2>. QED
      BY <1>1, <1>2, <1>3, <2>1
  <1>. QED
    BY <1>4, <1>5

\* A command in the segment of a held delivery's slot is of its round.
LEMMA SegRound ==
    ASSUME TypeInv, SegInv, NEW d \in Ids, stage[d] = "held",
           NEW c \in slots[round[d].slot].cmds
    PROVE  c = round[d]
  <1>1. /\ round[d].slot \in 1..Len(slots) /\ round[d] \in Round
        /\ slots[round[d].slot] \in Slot
        /\ slots[round[d].slot].gen = round[d].gen
    BY HeldSlot DEF TypeInv
  <1>2. c \in Round /\ c.slot = round[d].slot /\ c.gen = round[d].gen
    BY <1>1 DEF SegInv, Slot
  <1>. QED
    BY <1>1, <1>2 DEF Round

LEMMA CloseSeg ==
    ASSUME TypeInv, SegInv, NEW d \in Ids, NEW v, Close(d, v) PROVE SegInv'
  <1> DEFINE s == round[d].slot
  <1>1. /\ verdict'[d] = v /\ stage'[d] = "closing" /\ stage[d] = "held"
        /\ round' = round
        /\ \A e \in Ids : e # d => stage'[e] = stage[e]
    BY CloseHand
  <1>2. /\ s \in 1..Len(slots) /\ Len(slots') = Len(slots)
        /\ slots'[s].gen = slots[s].gen
        /\ slots'[s].cmds = IF LastMember(s) THEN {} ELSE slots[s].cmds
        /\ \A t \in 1..Len(slots) : t # s => slots'[t] = slots[t]
    BY CloseSlot DEF TypeInv
  <1>3. queued' = queued
    BY DEF Close, server
  <1>4. /\ LastMember(s) <=> Holders(s) = {d}
        /\ d \in Holders(s) /\ \A e \in Holders(s) : round[e] = round[d]
    BY <1>1, HeldSlot DEF TypeInv
  <1> SUFFICES ASSUME NEW t \in 1..Len(slots), NEW c \in slots'[t].cmds
               PROVE  /\ c.slot = t /\ c.gen = slots'[t].gen /\ c \in queued
                      /\ Live(c)
                      /\ \E e \in Ids : round[e] = c /\ stage'[e] = "held"
    BY <1>1, <1>2, <1>3 DEF SegInv, Live, NoHeld, Members
  <1>5. c \in slots[t].cmds /\ slots'[t].gen = slots[t].gen
        /\ (t = s => ~LastMember(s))
    BY <1>2
  <1>6. /\ c.slot = t /\ c.gen = slots[t].gen /\ c \in queued
        /\ Live(c) /\ ~NoHeld(c)
    BY <1>5 DEF SegInv
  <1>7. CASE t = s
    <2>1. PICK e \in Holders(s) : e # d
      BY <1>4, <1>5, <1>7
    <2>2. round[e] = round[d] /\ c = round[d]
      BY <1>1, <1>4, <1>5, <1>7, SegRound
    <2>3. e \in Ids /\ stage'[e] = "held"
      BY <1>1, <2>1 DEF Holders
    <2>. QED
      BY <1>5, <1>6, <2>2, <2>3
  <1>8. CASE t # s
    <2>1. PICK e \in Members(c) : stage[e] = "held"
      BY <1>6 DEF NoHeld
    <2>2. e \in Ids /\ round[e] = c /\ e # d
      BY <1>6, <1>8, <2>1 DEF Members
    <2>. QED
      BY <1>1, <1>5, <1>6, <2>1, <2>2
  <1>. QED
    BY <1>7, <1>8

LEMMA YieldSeg == ASSUME TypeInv, SegInv, Yield PROVE SegInv'
  <1>1. /\ round' = [e \in Ids |-> IF e \in Out THEN NewRound ELSE round[e]]
        /\ stage' = [e \in Ids |-> IF e \in Out THEN "held" ELSE stage[e]]
        /\ Out \subseteq Ids /\ \A e \in Out : round[e] = NoRound
    BY YieldRound DEF TypeInv
  <1>2. /\ NextSlot \in 1..Len(slots')
        /\ 1..Len(slots') = 1..Len(slots) \cup {NextSlot}
        /\ slots'[NextSlot].cmds =
              IF NextSlot \in 1..Len(slots) THEN slots[NextSlot].cmds ELSE {}
        /\ \A t \in 1..Len(slots) : t # NextSlot => slots'[t] = slots[t]
        /\ NextSlot \in 1..Len(slots) => NextSlot \in Elems(free)
    BY YieldSlot DEF TypeInv
  <1>3. queued' = queued
    BY DEF Yield, server
  <1> HIDE DEF NewRound, Out, NextSlot
  <1>4. ASSUME NEW t \in 1..Len(slots), t \in Elems(free), NEW c \in slots[t].cmds
        PROVE  FALSE
    <2>1. c.slot = t /\ ~NoHeld(c)
      BY <1>4 DEF SegInv
    <2>2. PICK e \in Members(c) : stage[e] = "held"
      BY <2>1 DEF NoHeld
    <2>3. e \in Ids /\ round[e] = c
      BY <2>2 DEF Members
    <2>. QED
      BY <1>4, <2>1, <2>2, <2>3, HeldSlot DEF TypeInv
  <1> SUFFICES ASSUME NEW t \in 1..Len(slots'), NEW c \in slots'[t].cmds
               PROVE  /\ c.slot = t /\ c.gen = slots'[t].gen /\ c \in queued
                      /\ Live(c)' /\ ~NoHeld(c)'
    BY <1>3 DEF SegInv
  <1>5. t \in 1..Len(slots) /\ t # NextSlot /\ slots'[t] = slots[t]
    BY <1>2, <1>4
  <1>6. /\ c.slot = t /\ c.gen = slots[t].gen /\ c \in queued
        /\ Live(c) /\ ~NoHeld(c)
    BY <1>5 DEF SegInv
  <1>7. PICK e \in Ids : round[e] = c /\ stage[e] = "held" /\ c # NoRound
    BY <1>6 DEF NoHeld, Members, Live
  <1>8. round'[e] = c /\ stage'[e] = "held"
    BY <1>1, <1>7
  <1>. QED
    BY <1>5, <1>6, <1>7, <1>8 DEF Live, NoHeld, Members

LEMMA SegStep ==
    ASSUME Keeps = FALSE, TypeInv, SegInv, [Next]_vars PROVE SegInv'
  <1>1. stage \in [Ids -> Stage]
    BY DEF TypeInv, StreamInv, StageInv
  <1>2. ASSUME NEW n \in 1..MaxRead, Fetch(n) PROVE SegInv'
    <2>1. /\ stage' = [d \in Ids |-> IF d \in read + 1 .. read + n
                                     THEN "buffered" ELSE stage[d]]
          /\ UNCHANGED <<round, queued, slots>>
      BY <1>2 DEF Fetch, segment, server
    <2>2. \A e \in Ids : e \in read + 1 .. read + n => stage[e] = "unread"
      BY DEF TypeInv, StreamInv, StageInv, BufferInv, Ids
    <2>. QED
      BY <2>1, <2>2, SegStands
  <1>3. ASSUME Discard \/ Stop PROVE SegInv'
    <2>1. /\ stage' = [d \in Ids |-> IF d \in Elems(buffer) THEN "gone"
                                                            ELSE stage[d]]
          /\ UNCHANGED <<round, queued, slots>>
      BY <1>3 DEF Discard, Stop, segment, server
    <2>2. \A e \in Ids : e \in Elems(buffer) => stage[e] = "buffered"
      BY BufferElems DEF TypeInv, StreamInv, StageInv
    <2>. QED
      BY <2>1, <2>2, SegStands
  <1>4. ASSUME NEW d \in Ids, Settle(d) \/ CommitFails(d) PROVE SegInv'
    <2>1. stage[d] \in Settling /\ UNCHANGED <<round, queued, slots>>
      BY <1>4, SettleMovesOn DEF MovesOn, segment
    <2>2. PICK x \in {"sealing", "counting", "settled"} :
              stage' = [stage EXCEPT ![d] = x]
      BY <1>4, SettleMovesOn DEF MovesOn
    <2>3. \A e \in Ids : stage'[e] = "held" <=> stage[e] = "held"
      BY <1>1, <2>1, <2>2 DEF Settling
    <2>. QED
      BY <2>1, <2>3, SegStands
  <1>5. ASSUME Still PROVE SegInv'
    BY <1>5, SegStands DEF Still, segment
  <1>. QED
    BY <1>2, <1>3, <1>4, <1>5, NextCases, YieldSeg, CloseSeg, QueueSeg,
       SendIsStill, QuietIsStill

\* A settle comes to its commit by taking the settles of its batch.
LEMMA OnlySeals ==
    ASSUME TypeInv, [Next]_vars, NEW e \in Ids, stage[e] # "sealing",
           stage'[e] = "sealing"
    PROVE  Seal(e)
  <1>1. stage \in [Ids -> Stage]
    BY DEF TypeInv, StreamInv, StageInv
  <1>2. ASSUME NEW d \in Ids, NEW v, Close(d, v) PROVE FALSE
    BY <1>1, <1>2 DEF Close
  <1>3. ASSUME NEW d \in Ids, Settle(d) \/ CommitFails(d) PROVE Seal(e)
    <2>1. ASSUME NEW segs, NEW acks, Counted(d, segs, acks) PROVE FALSE
      BY <1>1, <2>1 DEF Counted
    <2>2. CASE Count(d) \/ CommitFails(d)
      BY <2>1, <2>2 DEF Count, CommitFails
    <2>3. CASE Commit(d)
      BY <2>1, <2>3 DEF Commit
    <2>4. CASE StageSettle(d) \/ OweSettle(d) \/ Abandon(d)
      BY <1>1, <2>4 DEF StageSettle, OweSettle, Abandon
    <2>5. CASE Seal(d)
      <3>1. e = d
        BY <1>1, <2>5 DEF Seal
      <3>. QED
        BY <2>5, <3>1
    <2>. QED
      BY <1>3, <2>2, <2>3, <2>4, <2>5 DEF Settle
  <1>4. ASSUME NEW n \in 1..MaxRead, Fetch(n) PROVE FALSE
    BY <1>4 DEF Fetch
  <1>5. ASSUME Yield PROVE FALSE
    BY <1>5 DEF Yield
  <1>6. ASSUME Discard \/ Stop PROVE FALSE
    BY <1>6 DEF Discard, Stop
  <1>7. ASSUME NEW d \in Ids, Queue(round[d]) PROVE FALSE
    BY <1>7 DEF Queue
  <1>8. ASSUME Still PROVE FALSE
    BY <1>8 DEF Still
  <1>. QED
    BY <1>2, <1>3, <1>4, <1>5, <1>6, <1>7, <1>8, NextCases, SendIsStill,
       QuietIsStill

\* The round of a delivery that is in a slot does not change.
LEMMA RoundKept ==
    ASSUME TypeInv, [Next]_vars, NEW d \in Ids,
           stage[d] \in Settling \cup {"settled", "held"}
    PROVE  round'[d] = round[d]
  <1>1. PICK c : c = round[d]
    OBVIOUS
  <1>2. Live(c) /\ d \in Members(c)
    BY <1>1, LiveRound
  <1>3. Members(c)' = Members(c)
    BY <1>2, RoundMoves
  <1>. QED
    BY <1>1, <1>2, <1>3 DEF Members

LEMMA CmdsStep ==
    ASSUME TypeInv, KnowInv, SegInv, CmdsInv, [Next]_vars PROVE CmdsInv'
  <1>1. ASSUME NEW d \in Ids, stage'[d] = "closing", hands'[d].last
        PROVE  hands'[d].cmds \subseteq {round'[d]}
    <2>1. CASE stage[d] = "closing"
      BY <1>1, <2>1, HandMoves, RoundKept DEF CmdsInv, Settling
    <2>2. CASE stage[d] # "closing"
      <3>1. PICK v \in Verdicts : Close(d, v)
        BY <1>1, <2>2, OnlyCloses
      <3>2. /\ hands'[d].cmds \subseteq slots[round[d].slot].cmds
            /\ round' = round /\ stage[d] = "held"
        BY <3>1, CloseHand
      <3>. QED
        BY <3>2, SegRound
    <2>. QED
      BY <2>1, <2>2
  <1>2. ASSUME NEW d \in Ids, stage'[d] = "sealing"
        PROVE  hands'[d].cmds = {round'[d]} /\ AllAck(round[d])'
    <2>1. stage[d] \in Settling
      <3>1. CASE stage[d] # "sealing"
        BY <1>2, <3>1, OnlySeals DEF Seal, Settling
      <3>. QED
        BY <3>1 DEF Settling
    <2>2. Live(round[d]) /\ round'[d] = round[d]
      BY <2>1, LiveRound, RoundKept
    <2>3. hands'[d].cmds = {round[d]} /\ AllAck(round[d])
      <3>1. CASE stage[d] = "sealing"
        BY <1>2, <3>1, HandMoves DEF CmdsInv, Settling
      <3>2. CASE stage[d] # "sealing"
        <4>1. Seal(d)
          BY <1>2, <3>2, OnlySeals
        <4>2. /\ stage[d] = "closing" /\ hands[d].last /\ hands[d].clean
              /\ hands[d].cmds # {}
              /\ hands' = [hands EXCEPT ![d].ops = staged[round[d].slot]
                                                       \cup Owes(d)]
          BY <4>1 DEF Seal, Commits
        <4>3. hands[d].cmds = {round[d]} /\ AllAck(round[d])
          BY <4>2 DEF CmdsInv, KnowInv, LastInv
        <4>4. hands[d] \in Hand /\ hands \in [Ids -> Hand]
          BY DEF TypeInv, RestTypes, HandTypes
        <4>5. hands'[d].cmds = hands[d].cmds
          BY <4>2, <4>4 DEF Hand
        <4>. QED
          BY <4>3, <4>5
      <3>. QED
        BY <3>1, <3>2
    <2>4. PICK c : c = round[d]
      OBVIOUS
    <2>5. Done(c)'
      BY <2>2, <2>3, <2>4, DoneStays DEF Done, KnowInv
    <2>. QED
      BY <2>2, <2>3, <2>4, <2>5 DEF Done, AllAck, Members
  <1>. QED
    BY <1>1, <1>2 DEF CmdsInv

\* Commands come to the window by a commit only.
LEMMA TakenCmds ==
    ASSUME NEW due, NEW segs, NEW acks, TakeIf(due, segs, acks), NEW c,
           \/ c \in CmdsOf(committed')
           \/ \E f \in flushes' : c \in CmdsOf(f.segs)
    PROVE  \/ c \in CmdsOf(segs)
           \/ \E f \in flushes : c \in CmdsOf(f.segs)
  <1>1. CASE ~due
    BY <1>1 DEF TakeIf
  <1>2. CASE due /\ segs = {} /\ acks = {}
    BY <1>2 DEF TakeIf, CmdsOf
  <1>3. CASE due /\ ~(segs = {} /\ acks = {})
    <2> DEFINE new == [segs |-> segs, ops |-> acks, erred |-> FALSE,
                       at |-> NextPart(segs, acks)]
    <2>1. committed' = {} /\ flushes' = flushes \cup {new}
      BY <1>3 DEF TakeIf
    <2>2. new.segs = segs
      OBVIOUS
    <2> HIDE DEF new
    <2>3. c \notin CmdsOf(committed')
      BY <2>1 DEF CmdsOf
    <2>. QED
      BY <2>1, <2>2, <2>3
  <1>. QED
    BY <1>1, <1>2, <1>3

\* A command under way was under way, or is of the segment committed now.
LEMMA UnderMoves ==
    ASSUME TypeInv, SpotInv, [Next]_vars, NEW c, Under(c)'
    PROVE  \/ Under(c)
           \/ \E d \in Ids : stage[d] = "sealing" /\ c \in hands[d].cmds
  <1>1. Under(c)' = \/ c \in ran' \/ c \in refused' \/ c \in CmdsOf(committed')
                    \/ \E f \in flushes' : c \in CmdsOf(f.segs)
    BY DEF Under, CmdsOf
  <1>2. ASSUME UNCHANGED <<ran, refused, committed, flushes>> PROVE Under(c)
    BY <1>1, <1>2 DEF Under
  <1>3. ASSUME UNCHANGED <<ran, refused>>, NEW due, NEW acks,
               TakeIf(due, committed, acks)
        PROVE  Under(c)
    BY <1>1, <1>3, TakenCmds DEF Under
  <1>4. ASSUME NEW d \in Ids, Settle(d) \/ CommitFails(d)
        PROVE  \/ Under(c)
               \/ stage[d] = "sealing" /\ c \in hands[d].cmds
    <2>1. CASE StageSettle(d) \/ Seal(d) \/ OweSettle(d)
      BY <1>2, <2>1 DEF StageSettle, Seal, OweSettle, server
    <2>2. CASE Count(d) \/ CommitFails(d)
      BY <1>3, <2>2 DEF Count, CommitFails, Counted
    <2>3. CASE Abandon(d)
      BY <1>3, <2>3 DEF Abandon, server
    <2>4. CASE Commit(d)
      <3>1. ASSUME NEW segs, NEW acks, Counted(d, segs, acks),
                   CmdsOf(segs) \subseteq CmdsOf(committed) \cup hands[d].cmds
            PROVE  \/ Under(c)
                   \/ stage[d] = "sealing" /\ c \in hands[d].cmds
        <4>1. /\ UNCHANGED <<ran, refused>> /\ stage[d] = "sealing"
              /\ TakeIf(Due(Less(outstanding, 1)), segs, acks)
          BY <2>4, <3>1 DEF Counted, Commit
        <4>2. \/ c \in ran \/ c \in refused \/ c \in CmdsOf(segs)
              \/ \E f \in flushes : c \in CmdsOf(f.segs)
          BY <1>1, <4>1, TakenCmds
        <4>. QED
          BY <3>1, <4>1, <4>2 DEF Under
      <3>2. ASSUME NEW x
            PROVE  CmdsOf(committed \cup {[cmds |-> hands[d].cmds, ops |-> x]})
                      \subseteq CmdsOf(committed) \cup hands[d].cmds
        BY DEF CmdsOf
      <3>. QED
        BY <2>4, <3>1, <3>2 DEF Commit
    <2>. QED
      BY <1>4, <2>1, <2>2, <2>3, <2>4 DEF Settle
  <1>5. ASSUME NEW f \in flushes, Send(f) PROVE Under(c)
    <2>1. ASSUME NEW left, NEW at, NEW bad, Advance(f, left, at, bad),
                 NEW h \in flushes', c \in CmdsOf(h.segs)
          PROVE  \E k \in flushes : c \in CmdsOf(k.segs)
      <3> DEFINE new == [segs |-> {}, ops |-> left,
                         erred |-> f.erred \/ bad # {}, at |-> at]
      <3>1. flushes' = (flushes \ {f}) \cup {new}
        BY <2>1 DEF Advance
      <3>2. CmdsOf(new.segs) = {}
        BY DEF CmdsOf
      <3> HIDE DEF new
      <3>. QED
        BY <2>1, <3>1, <3>2
    <2>2. committed' = committed
      BY <1>5 DEF Send, SendSegments, SendWrites, SendAcks
    <2>3. ASSUME NEW bad \in SUBSET f.segs, SendSegments(f, bad) PROVE Under(c)
      <3>1. /\ ran' = ran \cup CmdsOf(f.segs \ bad)
            /\ refused' = refused \cup CmdsOf(bad)
            /\ Advance(f, f.ops, NextPart({}, f.ops), bad)
        BY <2>3 DEF SendSegments
      <3>2. CmdsOf(f.segs \ bad) \subseteq CmdsOf(f.segs)
            /\ CmdsOf(bad) \subseteq CmdsOf(f.segs)
        BY DEF CmdsOf
      <3>. QED
        BY <1>1, <2>1, <2>2, <3>1, <3>2 DEF Under
    <2>4. ASSUME NEW bad \in SUBSET f.ops, SendWrites(f, bad) PROVE Under(c)
      <3>1. UNCHANGED <<ran, refused>> /\ Advance(f, Released(f, bad), "acks", bad)
        BY <2>4 DEF SendWrites
      <3>. QED
        BY <1>1, <2>1, <2>2, <3>1 DEF Under
    <2>5. ASSUME NEW bad \in SUBSET f.ops, SendAcks(f, bad) PROVE Under(c)
      <3>1. UNCHANGED <<ran, refused>> /\ flushes' = flushes \ {f}
        BY <2>5 DEF SendAcks
      <3>. QED
        BY <1>1, <2>2, <3>1 DEF Under
    <2>. QED
      BY <1>5, <2>3, <2>4, <2>5 DEF Send
  <1>6. ASSUME NEW n \in 1..MaxRead, Fetch(n) PROVE Under(c)
    BY <1>2, <1>6 DEF Fetch, server
  <1>7. ASSUME Yield \/ Discard \/ Stop \/ Report PROVE Under(c)
    BY <1>2, <1>7 DEF Yield, Discard, Stop, Report, owed, server
  <1>8. ASSUME NEW d \in Ids, Queue(round[d]) PROVE Under(c)
    BY <1>2, <1>8 DEF Queue, owed
  <1>9. ASSUME NEW d \in Ids, NEW v, Close(d, v) PROVE Under(c)
    BY <1>2, <1>9 DEF Close, owed, server
  <1>10. ASSUME Drain PROVE Under(c)
    BY <1>3, <1>10 DEF Drain, server
  <1>11. ASSUME UNCHANGED vars PROVE Under(c)
    BY <1>2, <1>11 DEF vars, owed, server
  <1>. QED
    BY <1>4, <1>5, <1>6, <1>7, <1>8, <1>9, <1>10, <1>11, NextCases

LEMMA KeptStep ==
    ASSUME Keeps = FALSE, TypeInv, SpotInv, KnowInv, KeptInv, [Next]_vars
    PROVE  KeptInv'
  <1>1. SegInv' /\ CmdsInv'
    BY SegStep, CmdsStep DEF KeptInv
  <1>2. ASSUME NEW c, Under(c)' PROVE Done(c)'
    <2>1. CASE Under(c)
      <3>1. Done(c)
        BY <2>1 DEF KeptInv, DoneInv
      <3>. QED
        BY <3>1, DoneStays DEF KnowInv
    <2>2. CASE \E d \in Ids : stage[d] = "sealing" /\ c \in hands[d].cmds
      <3>1. PICK d \in Ids : stage[d] = "sealing" /\ c \in hands[d].cmds
        BY <2>2
      <3>2. c = round[d] /\ AllAck(c) /\ Live(c)
        BY <3>1, LiveRound DEF KeptInv, CmdsInv, Settling
      <3>. QED
        BY <3>2, DoneStays DEF KnowInv, Done
    <2>. QED
      BY <1>2, <2>1, <2>2, UnderMoves
  <1>. QED
    BY <1>1, <1>2 DEF KeptInv, DoneInv

LEMMA InitKept == Init => KeptInv
  <1> SUFFICES ASSUME Init PROVE KeptInv
    OBVIOUS
  <1>1. SegInv /\ CmdsInv
    BY DEF Init, SegInv, CmdsInv
  <1>2. ASSUME NEW c PROVE ~Under(c)
    BY DEF Init, Under, CmdsOf
  <1>. QED
    BY <1>1, <1>2 DEF KeptInv, DoneInv

LEMMA KnowInvariant == Spec => [](TypeInv /\ SpotInv /\ KnowInv)
  <1>1. Init => TypeInv /\ SpotInv /\ KnowInv
    BY InitTypes, InitSpots, InitKnows
  <1>2. TypeInv /\ SpotInv /\ KnowInv /\ [Next]_vars
            => (TypeInv /\ SpotInv /\ KnowInv)'
    BY TypeStep, SpotStep, KnowStep
  <1>. QED
    BY <1>1, <1>2, PTL DEF Spec

LEMMA KeptInvariant ==
    ASSUME Keeps = FALSE PROVE Spec => [](TypeInv /\ SpotInv /\ KnowInv /\ KeptInv)
  <1> DEFINE IInv == TypeInv /\ SpotInv /\ KnowInv /\ KeptInv
  <1>1. Init => IInv
    BY InitTypes, InitSpots, InitKnows, InitKept
  <1>2. IInv /\ [Next]_vars => IInv'
    BY TypeStep, SpotStep, KnowStep, KeptStep
  <1>. QED
    BY <1>1, <1>2, PTL DEF Spec

\* No command of a handler runs, or is sent and refused, unless every delivery
\* of its round was acknowledged, as long as handlers drop their pipelines with
\* their deliveries.
THEOREM OnlyAckedCommandsRun ==
    ASSUME Keeps = FALSE PROVE Spec => []OnlyAckedRuns
  <1>1. KeptInv => OnlyAckedRuns
    BY DEF KeptInv, DoneInv, Done, AllAck, Under, OnlyAckedRuns
  <1>. QED
    BY <1>1, KeptInvariant, PTL

-----------------------------------------------------------------------------
(* Who is at work at once: the members of one batch, or single deliveries.  *)

Active(d) == stage[d] \in Settling \cup {"held"}
LoneInv ==
    /\ mount.batch = 1 =>
          \A d, e \in Ids : round[d] # NoRound /\ round[d] = round[e] => d = e
    /\ mount.batch # 1 =>
          \A d, e \in Ids : Active(d) /\ Active(e) => round[d] = round[e]

\* A delivery is handed out by the stream only.
LEMMA OnlyYields ==
    ASSUME TypeInv, [Next]_vars, NEW e \in Ids, stage[e] # "held",
           stage'[e] = "held"
    PROVE  Yield
  <1>1. stage \in [Ids -> Stage]
    BY DEF TypeInv, StreamInv, StageInv
  <1>2. ASSUME NEW d \in Ids, NEW v, Close(d, v) PROVE FALSE
    BY <1>1, <1>2 DEF Close
  <1>3. ASSUME NEW d \in Ids, Settle(d) \/ CommitFails(d) PROVE FALSE
    BY <1>1, <1>3, SettleMovesOn DEF MovesOn
  <1>4. ASSUME NEW n \in 1..MaxRead, Fetch(n) PROVE FALSE
    BY <1>4 DEF Fetch
  <1>5. ASSUME Discard \/ Stop PROVE FALSE
    BY <1>5 DEF Discard, Stop
  <1>6. ASSUME NEW d \in Ids, Queue(round[d]) PROVE FALSE
    BY <1>6 DEF Queue
  <1>7. ASSUME Still PROVE FALSE
    BY <1>7 DEF Still
  <1>. QED
    BY <1>2, <1>3, <1>4, <1>5, <1>6, <1>7, NextCases, SendIsStill,
       QuietIsStill

\* Nothing else hands a round out, or puts a delivery to work.
LEMMA WorkStands ==
    ASSUME TypeInv, [Next]_vars, ~Yield
    PROVE  round' = round /\ \A e \in Ids : Active(e)' => Active(e)
  <1> DEFINE Goal == round' = round /\ \A e \in Ids : Active(e)' => Active(e)
  <1>1. stage \in [Ids -> Stage]
    BY DEF TypeInv, StreamInv, StageInv
  <1>2. ASSUME NEW d \in Ids, NEW v, Close(d, v) PROVE Goal
    BY <1>1, <1>2 DEF Close, Active
  <1>3. ASSUME NEW d \in Ids, Settle(d) \/ CommitFails(d) PROVE Goal
    <2>1. MovesOn(d)
      BY <1>3, SettleMovesOn
    <2>. QED
      BY <1>1, <2>1 DEF MovesOn, Active, Settling
  <1>4. ASSUME NEW n \in 1..MaxRead, Fetch(n) PROVE Goal
    BY <1>4 DEF Fetch, Active, Settling
  <1>5. ASSUME Discard \/ Stop PROVE Goal
    BY <1>5 DEF Discard, Stop, Active, Settling
  <1>6. ASSUME NEW d \in Ids, Queue(round[d]) PROVE Goal
    BY <1>6 DEF Queue, Active
  <1>7. ASSUME Still PROVE Goal
    BY <1>7 DEF Still, Active
  <1> HIDE DEF Goal
  <1>8. Goal
    BY <1>2, <1>3, <1>4, <1>5, <1>6, <1>7, NextCases, SendIsStill,
       QuietIsStill
  <1>. QED
    BY <1>8 DEF Goal

LEMMA MountStays == ASSUME [Next]_vars PROVE mount' = mount
  <1>1. ASSUME NEW n \in 1..MaxRead, Fetch(n) PROVE mount' = mount
    BY <1>1 DEF Fetch
  <1>2. ASSUME Yield \/ Discard \/ Stop PROVE mount' = mount
    BY <1>2 DEF Yield, Discard, Stop
  <1>3. ASSUME NEW d \in Ids, NEW v, Close(d, v) PROVE mount' = mount
    BY <1>3 DEF Close
  <1>4. ASSUME NEW d \in Ids, Settle(d) \/ CommitFails(d) PROVE mount' = mount
    BY <1>4, SettleMovesOn DEF MovesOn
  <1>5. ASSUME NEW d \in Ids, Queue(round[d]) PROVE mount' = mount
    BY <1>5 DEF Queue
  <1>6. ASSUME Still PROVE mount' = mount
    BY <1>6 DEF Still
  <1>. QED
    BY <1>1, <1>2, <1>3, <1>4, <1>5, <1>6, NextCases, SendIsStill,
       QuietIsStill

\* A batch is yielded to a handler that has nothing.
LEMMA YieldAlone ==
    ASSUME TypeInv, Yield, mount.batch # 1, NEW d \in Ids PROVE ~Active(d)
  <1>1. mount.workers = 1
    BY MountTypes DEF TypeInv, StreamInv
  <1>2. Cardinality(Busy) < 1
    BY <1>1 DEF Yield
  <1>3. Cardinality(Busy) = 0
    BY <1>2, BusyFinite
  <1>4. Busy = {}
    BY <1>3, BusyFinite, FS_EmptySet
  <1>. QED
    BY <1>4 DEF Busy, Active

LEMMA LoneStep == ASSUME TypeInv, LoneInv, [Next]_vars PROVE LoneInv'
  <1>1. mount' = mount
    BY MountStays
  <1>2. CASE Yield
    <2>1. /\ round' = [d \in Ids |-> IF d \in Out THEN NewRound ELSE round[d]]
          /\ \A d \in Ids : round[d] # NewRound
          /\ stage' = [d \in Ids |-> IF d \in Out THEN "held" ELSE stage[d]]
      BY <1>2, YieldRound DEF TypeInv
    <2>2. CASE mount.batch = 1
      <3>1. Batch = 1 /\ Out = Yielded + 1 .. Yielded + Batch /\ Yielded \in Nat
        BY <1>2, <2>2, OutTypes DEF TypeInv, Batch, Smaller, Yield
      <3>2. \A d, e \in Out : d = e
        BY <3>1
      <3>3. \A d, e \in Ids : round[d] # NoRound /\ round[d] = round[e] => d = e
        BY <2>2 DEF LoneInv
      <3> HIDE DEF Out, NewRound
      <3>4. ASSUME NEW d \in Ids, NEW e \in Ids, round'[d] # NoRound,
                   round'[d] = round'[e]
            PROVE  d = e
        BY <2>1, <3>2, <3>3, <3>4
      <3>. QED
        BY <1>1, <2>2, <3>4 DEF LoneInv
    <2>3. CASE mount.batch # 1
      <3>1. \A d \in Ids : ~Active(d)
        BY <1>2, <2>3, YieldAlone
      <3> HIDE DEF Out, NewRound
      <3>2. ASSUME NEW d \in Ids, Active(d)' PROVE round'[d] = NewRound
        BY <2>1, <3>1, <3>2 DEF Active
      <3>. QED
        BY <1>1, <2>3, <3>2 DEF LoneInv
    <2>. QED
      BY <2>2, <2>3
  <1>3. CASE ~Yield
    <2>1. round' = round /\ \A e \in Ids : Active(e)' => Active(e)
      BY <1>3, WorkStands
    <2>. QED
      BY <1>1, <2>1 DEF LoneInv
  <1>. QED
    BY <1>2, <1>3

\* A handler has its delivery until it closes.
LEMMA HeldStays ==
    ASSUME TypeInv, [Next]_vars, NEW e \in Ids, stage[e] = "held",
           \A v : ~Close(e, v)
    PROVE  stage'[e] = "held"
  <1>1. stage \in [Ids -> Stage]
    BY DEF TypeInv, StreamInv, StageInv
  <1>2. ASSUME NEW d \in Ids, NEW v, Close(d, v) PROVE stage'[e] = stage[e]
    <2>1. d # e
      BY <1>2
    <2>. QED
      BY <1>1, <1>2, <2>1 DEF Close
  <1>3. ASSUME NEW d \in Ids, Settle(d) \/ CommitFails(d)
        PROVE  stage'[e] = stage[e]
    <2>1. MovesOn(d)
      BY <1>3, SettleMovesOn
    <2>. QED
      BY <1>1, <2>1 DEF MovesOn, Settling
  <1>4. ASSUME NEW n \in 1..MaxRead, Fetch(n) PROVE stage'[e] = stage[e]
    <2>1. stage[e] # "unread" /\ read \in Nat /\ n \in Nat
      BY BufferElems DEF TypeInv
    <2>2. e \notin read + 1 .. read + n
      BY <2>1 DEF TypeInv, StreamInv, StageInv
    <2>. QED
      BY <1>1, <1>4, <2>2 DEF Fetch
  <1>5. ASSUME Discard \/ Stop PROVE stage'[e] = stage[e]
    <2>1. stage[e] # "buffered" /\ Elems(buffer) = Yielded + 1 .. read
      BY BufferElems DEF TypeInv
    <2>2. e \notin Elems(buffer)
      BY <2>1 DEF TypeInv, StreamInv, StageInv
    <2>. QED
      BY <1>1, <1>5, <2>2 DEF Discard, Stop
  <1>6. ASSUME Yield PROVE stage'[e] = "held"
    BY <1>1, <1>6, YieldRound DEF TypeInv
  <1>7. ASSUME NEW d \in Ids, Queue(round[d]) PROVE stage'[e] = stage[e]
    BY <1>7 DEF Queue
  <1>8. ASSUME Still PROVE stage'[e] = stage[e]
    BY <1>8 DEF Still
  <1>. QED
    BY <1>2, <1>3, <1>4, <1>5, <1>6, <1>7, <1>8, NextCases, SendIsStill,
       QuietIsStill

\* A settle that is not its round's last has another to wait for, which does
\* not close as long as it is at work.
WaitInv ==
    \A d \in Ids : stage[d] = "closing" /\ ~hands[d].last => ~NoHeld(round[d])
\* What is staged in a slot waits for the last member of its own round.
StagedInv ==
    \A s \in Ids : \A x \in staged[s] :
        /\ round[x] # NoRound /\ round[x].slot = s
        /\ \E y \in Members(round[x]) :
              stage[y] = "held" \/ (stage[y] = "closing" /\ hands[y].last)

LEMMA WaitStep ==
    ASSUME OneTask = TRUE, TypeInv, WaitInv, [Next]_vars PROVE WaitInv'
  <1> SUFFICES ASSUME NEW d \in Ids, stage'[d] = "closing", ~hands'[d].last
               PROVE  \E e \in Ids : round'[e] = round'[d] /\ stage'[e] = "held"
    BY DEF WaitInv, NoHeld, Members
  <1>0. stage \in [Ids -> Stage] /\ round \in [Ids -> Round]
    BY DEF TypeInv, StreamInv, StageInv, SegmentInv, RoundInv
  <1>1. CASE stage[d] = "closing"
    <2>1. hands'[d] = hands[d] /\ round'[d] = round[d] /\ Live(round[d])
          /\ d \in Members(round[d])
      BY <1>1, HandMoves, RoundKept, LiveRound DEF Settling
    <2>2. PICK e \in Ids : round[e] = round[d] /\ stage[e] = "held"
      BY <1>1, <2>1 DEF WaitInv, NoHeld, Members
    <2>3. round'[e] = round[e]
      BY <2>2, RoundKept
    <2>4. stage'[e] = "held"
      <3>1. StageMove(e) /\ \A v : ~Close(e, v)
        <4>1. StageMove(e)
          BY StageMoves
        <4>2. ASSUME NEW v, Close(e, v) PROVE FALSE
          BY <1>1, <2>1, <2>2, <4>2 DEF Close, Settling, Members
        <4>. QED
          BY <4>1, <4>2
      <3>. QED
        BY <2>2, <3>1, HeldStays
    <2>. QED
      BY <2>1, <2>2, <2>3, <2>4
  <1>2. CASE stage[d] # "closing"
    <2>1. PICK v \in Verdicts : Close(d, v)
      BY <1>2, OnlyCloses
    <2> DEFINE s == round[d].slot
    <2>2. /\ hands'[d].last = LastMember(s) /\ stage[d] = "held"
          /\ round' = round
          /\ \A e \in Ids : e # d => stage'[e] = stage[e]
      BY <2>1, CloseHand
    <2>3. /\ d \in Holders(s)
          /\ LastMember(s) <=> Holders(s) = {d}
          /\ \A e \in Holders(s) : round[e] = round[d]
      BY <2>2, HeldSlot DEF TypeInv
    <2>4. PICK e \in Holders(s) : e # d
      BY <2>2, <2>3
    <2>. QED
      BY <2>2, <2>3, <2>4 DEF Holders
  <1>. QED
    BY <1>1, <1>2

\* What is staged in a slot is there as long as the last member has not moved
\* on, and comes there with a settle that has another to wait for.
LEMMA StagedMoves ==
    ASSUME TypeInv, [Next]_vars, NEW s \in Ids, NEW x \in staged'[s]
    PROVE  \/ /\ x \in staged[s]
              /\ \A y \in Ids : stage[y] = "closing" /\ hands[y].last
                                    /\ round[y].slot = s => stage'[y] = stage[y]
           \/ \E d \in Ids : StageSettle(d) /\ x \in Owes(d) /\ s = round[d].slot
  <1> DEFINE Lasts == \A y \in Ids : stage[y] = "closing" /\ hands[y].last
                                    /\ round[y].slot = s => stage'[y] = stage[y]
             Staged == \E d \in Ids : /\ StageSettle(d) /\ x \in Owes(d)
                                      /\ s = round[d].slot
  <1>1. stage \in [Ids -> Stage] /\ staged \in [Ids -> SUBSET Ids]
    BY DEF TypeInv, StreamInv, StageInv, RestTypes, HandTypes
  <1>2. ASSUME staged' = staged, \A y \in Ids : stage[y] = "closing" =>
                                                   stage'[y] = stage[y]
        PROVE  x \in staged[s] /\ Lasts
    BY <1>2
  <1>3. ASSUME NEW d \in Ids, NEW v, Close(d, v) PROVE x \in staged[s] /\ Lasts
    <2>1. staged' = staged /\ stage' = [stage EXCEPT ![d] = "closing"]
      BY <1>3 DEF Close, owed
    <2>. QED
      BY <1>1, <1>2, <2>1
  <1>4. ASSUME NEW d \in Ids, Settle(d) \/ CommitFails(d)
        PROVE  (x \in staged[s] /\ Lasts) \/ Staged
    <2>1. CASE StageSettle(d)
      <3>1. /\ staged' = [staged EXCEPT ![round[d].slot] = @ \cup Owes(d)]
            /\ ~hands[d].last /\ stage' = [stage EXCEPT ![d] = "counting"]
        BY <2>1 DEF StageSettle
      <3>2. Lasts
        BY <1>1, <3>1
      <3>3. x \in staged[s] \/ (x \in Owes(d) /\ s = round[d].slot)
        BY <1>1, <3>1
      <3>. QED
        BY <2>1, <3>2, <3>3
    <2>2. ASSUME staged' = [staged EXCEPT ![round[d].slot] = {}],
                 NEW z, stage' = [stage EXCEPT ![d] = z]
          PROVE  x \in staged[s] /\ Lasts
      <3>1. x \in staged[s] /\ s # round[d].slot
        BY <1>1, <2>2
      <3>. QED
        BY <1>1, <2>2, <3>1
    <2>3. CASE Seal(d) \/ OweSettle(d)
      BY <2>2, <2>3 DEF Seal, OweSettle
    <2>4. CASE Abandon(d)
      <3>1. CASE hands[d].last
        BY <2>2, <2>4, <3>1 DEF Abandon
      <3>2. CASE ~hands[d].last
        BY <1>1, <2>4, <3>2 DEF Abandon
      <3>. QED
        BY <3>1, <3>2
    <2>5. ASSUME NEW segs, NEW acks, Counted(d, segs, acks), stage[d] # "closing"
          PROVE  x \in staged[s] /\ Lasts
      <3>1. staged' = staged /\ stage' = [stage EXCEPT ![d] = "settled"]
        BY <2>5 DEF Counted
      <3>. QED
        BY <1>1, <1>2, <2>5, <3>1
    <2>6. CASE Count(d) \/ CommitFails(d)
      BY <2>5, <2>6 DEF Count, CommitFails
    <2>7. CASE Commit(d)
      BY <2>5, <2>7 DEF Commit
    <2>. QED
      BY <1>4, <2>1, <2>3, <2>4, <2>6, <2>7 DEF Settle
  <1>5. ASSUME NEW n \in 1..MaxRead, Fetch(n) PROVE x \in staged[s] /\ Lasts
    <2>1. read \in Nat /\ n \in Nat
      BY BufferElems DEF TypeInv
    <2>2. \A y \in Ids : stage[y] = "closing" => y \notin read + 1 .. read + n
      BY <2>1 DEF TypeInv, StreamInv, StageInv
    <2>3. staged' = staged
          /\ \A y \in Ids : y \notin read + 1 .. read + n => stage'[y] = stage[y]
      BY <1>5 DEF Fetch
    <2>. QED
      BY <1>2, <2>2, <2>3
  <1>6. ASSUME Discard \/ Stop PROVE x \in staged[s] /\ Lasts
    <2>1. Elems(buffer) = Yielded + 1 .. read
      BY BufferElems DEF TypeInv
    <2>2. \A y \in Ids : stage[y] = "closing" => y \notin Elems(buffer)
      BY <2>1 DEF TypeInv, StreamInv, StageInv
    <2>3. staged' = staged
          /\ \A y \in Ids : y \notin Elems(buffer) => stage'[y] = stage[y]
      BY <1>6 DEF Discard, Stop, owed
    <2>. QED
      BY <1>2, <2>2, <2>3
  <1>7. ASSUME Yield PROVE x \in staged[s] /\ Lasts
    <2>1. /\ stage' = [d \in Ids |-> IF d \in Out THEN "held" ELSE stage[d]]
          /\ \A d \in Out : stage[d] = "buffered"
      BY <1>7, YieldRound, OutTypes DEF TypeInv, Yield
    <2>2. staged' = staged
      BY <1>7 DEF Yield, owed
    <2> HIDE DEF Out
    <2>. QED
      BY <1>2, <2>1, <2>2
  <1>8. ASSUME NEW d \in Ids, Queue(round[d]) PROVE x \in staged[s] /\ Lasts
    BY <1>2, <1>8 DEF Queue, owed
  <1>9. ASSUME Still PROVE x \in staged[s] /\ Lasts
    BY <1>2, <1>9 DEF Still
  <1> HIDE DEF Lasts, Staged
  <1>10. (x \in staged[s] /\ Lasts) \/ Staged
    BY <1>3, <1>4, <1>5, <1>6, <1>7, <1>8, <1>9, NextCases, SendIsStill,
       QuietIsStill
  <1>. QED
    BY <1>10 DEF Lasts, Staged

LEMMA StagedStep ==
    ASSUME TypeInv, WaitInv, StagedInv, [Next]_vars PROVE StagedInv'
  <1> DEFINE Waits(y) == stage[y] = "held" \/ (stage[y] = "closing" /\ hands[y].last)
  <1> SUFFICES ASSUME NEW s \in Ids, NEW x \in staged'[s]
               PROVE  /\ round'[x] # NoRound /\ round'[x].slot = s
                      /\ \E y \in Ids : round'[y] = round'[x] /\ Waits(y)'
    BY DEF StagedInv, Members
  <1>0. x \in Ids /\ stage \in [Ids -> Stage]
    <2>1. TypeInv'
      BY TypeStep
    <2>. QED
      BY <2>1 DEF TypeInv, RestTypes, HandTypes, StreamInv, StageInv
  <1>1. ASSUME x \in staged[s],
               \A y \in Ids : stage[y] = "closing" /\ hands[y].last
                                  /\ round[y].slot = s => stage'[y] = stage[y]
        PROVE  /\ round'[x] # NoRound /\ round'[x].slot = s
               /\ \E y \in Ids : round'[y] = round'[x] /\ Waits(y)'
    <2>1. round[x] # NoRound /\ round[x].slot = s
      BY <1>1 DEF StagedInv
    <2>2. PICK y \in Ids : round[y] = round[x] /\ Waits(y)
      BY <1>1 DEF StagedInv, Members
    <2>3. PICK c : c = round[x]
      OBVIOUS
    <2>4. Live(c)
      BY <1>0, <2>1, <2>3 DEF Live
    <2>5. Members(c)' = Members(c)
      BY <2>4, RoundMoves
    <2>6. \A z \in Ids : round[z] = c => round'[z] = c
      BY <2>5 DEF Members
    <2>7. CASE stage[y] = "closing" /\ hands[y].last
      <3>1. stage'[y] = stage[y]
        BY <1>1, <2>1, <2>2, <2>7
      <3>2. hands'[y] = hands[y]
        BY <2>7, <3>1, HandMoves DEF Settling
      <3>. QED
        BY <1>0, <2>1, <2>2, <2>3, <2>6, <2>7, <3>1, <3>2
    <2>8. CASE stage[y] = "held" /\ \A v : ~Close(y, v)
      <3>1. stage'[y] = "held"
        BY <2>8, HeldStays
      <3>. QED
        BY <1>0, <2>1, <2>2, <2>3, <2>6, <3>1
    <2>9. CASE stage[y] = "held" /\ \E v : Close(y, v)
      <3>1. PICK v : Close(y, v)
        BY <2>9
      <3>2. /\ hands'[y].last = LastMember(s) /\ stage'[y] = "closing"
            /\ \A e \in Ids : e # y => stage'[e] = stage[e]
        BY <2>1, <2>2, <3>1, CloseHand
      <3>3. /\ y \in Holders(s)
            /\ LastMember(s) <=> Holders(s) = {y}
            /\ \A e \in Holders(s) : round[e] = round[y]
        BY <2>1, <2>2, <2>9, HeldSlot DEF TypeInv
      <3>4. CASE LastMember(s)
        BY <1>0, <2>1, <2>2, <2>3, <2>6, <3>2, <3>4
      <3>5. CASE ~LastMember(s)
        <4>1. PICK e \in Holders(s) : e # y
          BY <3>3, <3>5
        <4>2. e \in Ids /\ stage[e] = "held" /\ round[e] = c
          BY <2>2, <2>3, <3>3, <4>1 DEF Holders
        <4>. QED
          BY <1>0, <2>1, <2>3, <2>6, <3>2, <4>1, <4>2
      <3>. QED
        BY <3>4, <3>5
    <2>. QED
      BY <2>2, <2>7, <2>8, <2>9
  <1>2. ASSUME NEW d \in Ids, StageSettle(d), x \in Owes(d), s = round[d].slot
        PROVE  /\ round'[x] # NoRound /\ round'[x].slot = s
               /\ \E y \in Ids : round'[y] = round'[x] /\ Waits(y)'
    <2>1. x = d
      BY <1>2, OwesTypes
    <2>2. /\ stage[d] = "closing" /\ ~hands[d].last /\ round' = round
          /\ stage' = [stage EXCEPT ![d] = "counting"]
      BY <1>2 DEF StageSettle
    <2>3. PICK e \in Ids : round[e] = round[d] /\ stage[e] = "held"
      BY <2>2 DEF WaitInv, NoHeld, Members
    <2>4. round[d] # NoRound
      BY <2>2, SettlingSlot DEF TypeInv, Settling
    <2>5. stage'[e] = "held"
      BY <1>0, <2>2, <2>3
    <2>. QED
      BY <1>2, <2>1, <2>2, <2>3, <2>4, <2>5
  <1>. QED
    BY <1>1, <1>2, StagedMoves

\* What a last member finds staged is of its own round.
LEMMA StagedRound ==
    ASSUME TypeInv, SpotInv, LoneInv, StagedInv, NEW d \in Ids, Active(d),
           NEW x \in staged[round[d].slot]
    PROVE  x \in Ids /\ round[x] = round[d]
  <1>1. round[d].slot \in Ids
    BY SettlingSlot DEF TypeInv, Active, Settling
  <1>2. x \in Ids
    BY <1>1 DEF TypeInv, RestTypes, HandTypes
  <1>3. PICK y \in Ids :
            /\ round[y] = round[x] /\ round[x] # NoRound
            /\ stage[y] = "held" \/ (stage[y] = "closing" /\ hands[y].last)
    BY <1>1 DEF StagedInv, Members
  <1>4. CASE mount.batch = 1
    <2>1. y = x
      BY <1>2, <1>3, <1>4 DEF LoneInv
    <2>2. Owing(x)
      BY <1>1, <1>2, OnePlace DEF InStaged, SpotInv
    <2>. QED
      BY <1>3, <2>1, <2>2 DEF Owing
  <1>5. CASE mount.batch # 1
    <2>1. Active(y)
      BY <1>3 DEF Active, Settling
    <2>. QED
      BY <1>2, <1>3, <1>5, <2>1 DEF LoneInv
  <1>. QED
    BY <1>4, <1>5

\* Settles that go with a segment, or are on their way to one.
Paired(x) == x \in OpsOf(committed) \/ InSent(x) \/ InHand(x)
Copied(f) == f.at = "acks" => \A x \in f.ops : verdict[x] = "retry" => x \in copied
RetryInv ==
    /\ \A x \in Ids : Paired(x) => verdict[x] = "ack"
    /\ \A f \in flushes : Copied(f)
    /\ RetryAckedOnceCopied

LEMMA TakenOps ==
    ASSUME NEW due, NEW segs, NEW acks, TakeIf(due, segs, acks), NEW x,
           x \in OpsOf(committed') \/ \E f \in flushes' : x \in OpsOf(f.segs)
    PROVE  x \in OpsOf(segs) \/ \E f \in flushes : x \in OpsOf(f.segs)
  <1>1. CASE ~due
    BY <1>1 DEF TakeIf
  <1>2. CASE due /\ segs = {} /\ acks = {}
    BY <1>2 DEF TakeIf, OpsOf
  <1>3. CASE due /\ ~(segs = {} /\ acks = {})
    <2> DEFINE new == [segs |-> segs, ops |-> acks, erred |-> FALSE,
                       at |-> NextPart(segs, acks)]
    <2>1. committed' = {} /\ flushes' = flushes \cup {new}
      BY <1>3 DEF TakeIf
    <2>2. new.segs = segs
      OBVIOUS
    <2> HIDE DEF new
    <2>3. x \notin OpsOf(committed')
      BY <2>1 DEF OpsOf
    <2>. QED
      BY <2>1, <2>2, <2>3
  <1>. QED
    BY <1>1, <1>2, <1>3

\* A settle comes to a segment with the seal of its batch only.
LEMMA PairedMoves ==
    ASSUME TypeInv, [Next]_vars, NEW x, Paired(x)'
    PROVE  \/ Paired(x)
           \/ \E d \in Ids : Seal(d) /\ x \in staged[round[d].slot] \cup Owes(d)
  <1> DEFINE Sealed1 == \E d \in Ids : /\ Seal(d)
                                       /\ x \in staged[round[d].slot] \cup Owes(d)
  <1>0. hands \in [Ids -> Hand]
    BY DEF TypeInv, RestTypes, HandTypes
  <1>1. Paired(x)' = \/ x \in OpsOf(committed')
                     \/ \E f \in flushes' : x \in OpsOf(f.segs)
                     \/ \E e \in Ids : x \in hands'[e].ops
    BY DEF Paired, InSent, InHand, OpsOf
  <1>2. ASSUME UNCHANGED <<committed, flushes, hands>> PROVE Paired(x)
    BY <1>1, <1>2 DEF Paired, InSent, InHand
  <1>3. ASSUME NEW due, NEW segs, NEW acks, TakeIf(due, segs, acks),
               \A e \in Ids : x \in hands'[e].ops => x \in hands[e].ops,
               x \in OpsOf(segs) => Paired(x)
        PROVE  Paired(x)
    <2>1. CASE \E e \in Ids : x \in hands'[e].ops
      BY <1>3, <2>1 DEF Paired, InHand
    <2>2. CASE x \in OpsOf(committed') \/ \E f \in flushes' : x \in OpsOf(f.segs)
      BY <1>3, <2>2, TakenOps DEF Paired, InSent
    <2>. QED
      BY <1>1, <2>1, <2>2
  <1>4. ASSUME NEW d \in Ids, hands' = [hands EXCEPT ![d] = Nothing], NEW e \in Ids
        PROVE  x \in hands'[e].ops => x \in hands[e].ops
    BY <1>0, <1>4 DEF Nothing
  <1>5. ASSUME NEW d \in Ids, NEW v, Close(d, v) PROVE Paired(x)
    <2> DEFINE s == round[d].slot
               l == LastMember(s)  k == Kept(s, v)
               c == IF LastMember(s) THEN slots[s].cmds ELSE {}
               h == [Nothing EXCEPT !.last = l, !.clean = k, !.cmds = c]
    <2>1. hands' = [hands EXCEPT ![d] = h] /\ UNCHANGED <<committed, flushes>>
      BY <1>5 DEF Close, owed
    <2>2. h.ops = {}
      BY DEF Nothing
    <2> HIDE DEF h
    <2>3. \A e \in Ids : x \in hands'[e].ops => x \in hands[e].ops
      BY <1>0, <2>1, <2>2
    <2>. QED
      BY <1>1, <2>1, <2>3 DEF Paired, InSent, InHand
  <1>6. ASSUME NEW d \in Ids, Settle(d) \/ CommitFails(d)
        PROVE  Paired(x) \/ Sealed1
    <2>1. CASE StageSettle(d) \/ OweSettle(d)
      BY <1>2, <2>1 DEF StageSettle, OweSettle
    <2>2. CASE Seal(d)
      <3> DEFINE o == staged[round[d].slot] \cup Owes(d)
      <3>1. hands' = [hands EXCEPT ![d].ops = o] /\ UNCHANGED <<committed, flushes>>
        BY <2>2 DEF Seal
      <3> HIDE DEF o
      <3>2. \A e \in Ids : e # d => hands'[e] = hands[e]
        BY <1>0, <3>1
      <3>3. hands[d] \in Hand
        BY <1>0
      <3>4. hands'[d].ops = o
        BY <1>0, <3>1, <3>3 DEF Hand
      <3>5. CASE x \in hands'[d].ops
        BY <2>2, <3>4, <3>5 DEF o
      <3>6. CASE x \notin hands'[d].ops
        BY <1>1, <3>1, <3>2, <3>6 DEF Paired, InSent, InHand
      <3>. QED
        BY <3>5, <3>6
    <2>3. ASSUME NEW segs, NEW acks, Counted(d, segs, acks),
                 x \in OpsOf(segs) => Paired(x)
          PROVE  Paired(x)
      <3>1. /\ TakeIf(Due(Less(outstanding, 1)), segs, acks)
            /\ hands' = [hands EXCEPT ![d] = Nothing]
        BY <2>3 DEF Counted
      <3>2. \A e \in Ids : x \in hands'[e].ops => x \in hands[e].ops
        BY <1>4, <3>1
      <3>. QED
        BY <1>3, <2>3, <3>1, <3>2
    <2>4. CASE Count(d) \/ CommitFails(d)
      BY <2>3, <2>4 DEF Count, CommitFails, Paired
    <2>5. CASE Commit(d)
      <3>1. ASSUME NEW o, o \subseteq hands[d].ops,
                   x \in OpsOf(committed \cup {[cmds |-> hands[d].cmds, ops |-> o]})
            PROVE  Paired(x)
        BY <3>1 DEF OpsOf, Paired, InHand
      <3>2. CASE mount.atomic
        BY <2>3, <2>5, <3>1, <3>2 DEF Commit
      <3>3. CASE ~mount.atomic
        <4> DEFINE segs == committed \cup {[cmds |-> hands[d].cmds, ops |-> {}]}
        <4>1. Counted(d, segs, ops \cup hands[d].ops)
          BY <2>5, <3>3 DEF Commit
        <4>2. x \in OpsOf(segs) => Paired(x)
          BY DEF OpsOf, Paired
        <4> HIDE DEF segs
        <4>. QED
          BY <2>3, <4>1, <4>2
      <3>. QED
        BY <3>2, <3>3
    <2>6. CASE Abandon(d)
      <3>1. /\ \E due, acks : TakeIf(due, committed, acks)
            /\ hands' = [hands EXCEPT ![d] = Nothing]
        BY <2>6 DEF Abandon
      <3>2. \A e \in Ids : x \in hands'[e].ops => x \in hands[e].ops
        BY <1>4, <3>1
      <3>. QED
        BY <1>3, <3>1, <3>2 DEF Paired
    <2>. QED
      BY <1>6, <2>1, <2>2, <2>4, <2>5, <2>6 DEF Settle
  <1>7. ASSUME NEW f \in flushes, Send(f) PROVE Paired(x)
    <2>1. committed' = committed /\ hands' = hands
      BY <1>7 DEF Send, SendSegments, SendWrites, SendAcks
    <2>2. ASSUME NEW left, NEW at, NEW bad, Advance(f, left, at, bad),
                 NEW h \in flushes', x \in OpsOf(h.segs)
          PROVE  InSent(x)
      <3> DEFINE new == [segs |-> {}, ops |-> left,
                         erred |-> f.erred \/ bad # {}, at |-> at]
      <3>1. flushes' = (flushes \ {f}) \cup {new}
        BY <2>2 DEF Advance
      <3>2. OpsOf(new.segs) = {}
        BY DEF OpsOf
      <3> HIDE DEF new
      <3>. QED
        BY <2>2, <3>1, <3>2 DEF InSent
    <2>3. CASE \E left, at, bad : Advance(f, left, at, bad)
      BY <1>1, <2>1, <2>2, <2>3 DEF Paired, InHand
    <2>4. CASE flushes' = flushes \ {f}
      BY <1>1, <2>1, <2>4 DEF Paired, InSent, InHand
    <2>. QED
      BY <1>7, <2>3, <2>4 DEF Send, SendSegments, SendWrites, SendAcks
  <1>8. ASSUME NEW n \in 1..MaxRead, Fetch(n) PROVE Paired(x)
    BY <1>2, <1>8 DEF Fetch
  <1>9. ASSUME Yield \/ Discard \/ Stop \/ Report PROVE Paired(x)
    BY <1>2, <1>9 DEF Yield, Discard, Stop, Report, owed
  <1>10. ASSUME NEW d \in Ids, Queue(round[d]) PROVE Paired(x)
    BY <1>2, <1>10 DEF Queue, owed
  <1>11. ASSUME Drain PROVE Paired(x)
    <2>1. TakeIf(TRUE, committed, ops) /\ hands' = hands
      BY <1>11 DEF Drain
    <2>. QED
      BY <1>3, <2>1 DEF Paired
  <1>12. ASSUME UNCHANGED vars PROVE Paired(x)
    BY <1>2, <1>12 DEF vars, owed
  <1> HIDE DEF Sealed1
  <1>13. Paired(x) \/ Sealed1
    BY <1>5, <1>6, <1>7, <1>8, <1>9, <1>10, <1>11, <1>12, NextCases
  <1>. QED
    BY <1>13 DEF Sealed1

\* A flush that is new has its first part to send, or has sent its writes.
LEMMA FlushMoves ==
    ASSUME TypeInv, [Next]_vars, NEW f \in flushes'
    PROVE  \/ f \in flushes
           \/ f.at = NextPart(f.segs, f.ops)
           \/ \E g \in flushes : \E bad \in SUBSET g.ops :
                 SendWrites(g, bad) /\ f.ops = Released(g, bad)
  <1> DEFINE Goal == \/ f \in flushes
                     \/ f.at = NextPart(f.segs, f.ops)
                     \/ \E g \in flushes : \E bad \in SUBSET g.ops :
                           SendWrites(g, bad) /\ f.ops = Released(g, bad)
  <1>1. ASSUME NEW due, NEW segs, NEW acks, TakeIf(due, segs, acks) PROVE Goal
    <2>1. \/ f \in flushes
          \/ f = [segs |-> segs, ops |-> acks, erred |-> FALSE,
                  at |-> NextPart(segs, acks)]
      BY <1>1 DEF TakeIf
    <2>2. CASE f = [segs |-> segs, ops |-> acks, erred |-> FALSE,
                    at |-> NextPart(segs, acks)]
      <3>1. f.segs = segs /\ f.ops = acks /\ f.at = NextPart(segs, acks)
        BY <2>2
      <3>. QED
        BY <3>1
    <2>. QED
      BY <2>1, <2>2
  <1>2. ASSUME flushes' = flushes PROVE Goal
    BY <1>2
  <1>3. ASSUME NEW d \in Ids, Settle(d) \/ CommitFails(d) PROVE Goal
    <2>1. CASE StageSettle(d) \/ Seal(d) \/ OweSettle(d)
      BY <1>2, <2>1 DEF StageSettle, Seal, OweSettle
    <2>2. CASE \E segs, acks : Counted(d, segs, acks)
      BY <1>1, <2>2 DEF Counted
    <2>3. CASE Count(d) \/ Commit(d) \/ CommitFails(d)
      BY <2>2, <2>3 DEF Count, Commit, CommitFails
    <2>4. CASE Abandon(d)
      BY <1>1, <2>4 DEF Abandon
    <2>. QED
      BY <1>3, <2>1, <2>3, <2>4 DEF Settle
  <1>4. ASSUME NEW g \in flushes, Send(g) PROVE Goal
    <2>1. ASSUME NEW left, NEW at, NEW bad, Advance(g, left, at, bad)
          PROVE  f \in flushes \/ (f.segs = {} /\ f.ops = left /\ f.at = at)
      BY <2>1 DEF Advance
    <2>2. ASSUME NEW bad \in SUBSET g.segs, SendSegments(g, bad) PROVE Goal
      BY <2>1, <2>2 DEF SendSegments
    <2>3. ASSUME NEW bad \in SUBSET g.ops, SendWrites(g, bad) PROVE Goal
      <3>1. f \in flushes \/ f.ops = Released(g, bad)
        BY <2>1, <2>3 DEF SendWrites
      <3>. QED
        BY <2>3, <3>1
    <2>4. ASSUME NEW bad \in SUBSET g.ops, SendAcks(g, bad) PROVE Goal
      BY <2>4 DEF SendAcks
    <2>. QED
      BY <1>4, <2>2, <2>3, <2>4 DEF Send
  <1>5. ASSUME NEW n \in 1..MaxRead, Fetch(n) PROVE Goal
    BY <1>2, <1>5 DEF Fetch
  <1>6. ASSUME Yield \/ Discard \/ Stop \/ Report PROVE Goal
    BY <1>2, <1>6 DEF Yield, Discard, Stop, Report, owed
  <1>7. ASSUME NEW d \in Ids, Queue(round[d]) PROVE Goal
    BY <1>2, <1>7 DEF Queue, owed
  <1>8. ASSUME NEW d \in Ids, NEW v, Close(d, v) PROVE Goal
    BY <1>2, <1>8 DEF Close, owed
  <1>9. ASSUME Drain PROVE Goal
    BY <1>1, <1>9 DEF Drain
  <1>10. ASSUME UNCHANGED vars PROVE Goal
    BY <1>2, <1>10 DEF vars, owed
  <1> HIDE DEF Goal
  <1>11. Goal
    BY <1>3, <1>4, <1>5, <1>6, <1>7, <1>8, <1>9, <1>10, NextCases
  <1>. QED
    BY <1>11 DEF Goal

\* A settle on its way was decided before.
LEMMA Decided ==
    ASSUME TypeInv, [Next]_vars, NEW x \in Ids, Owing(x)'
    PROVE  verdict'[x] = verdict[x]
  BY StageMoves DEF Owing, StageMove

\* Nothing takes back a copy, and an acknowledgement comes with a flush.
LEMMA AckMoves ==
    ASSUME TypeInv, [Next]_vars
    PROVE  /\ copied \subseteq copied'
           /\ \A x \in acked' :
                 \/ x \in acked
                 \/ InSent(x)
                 \/ \E f \in flushes : f.at = "acks" /\ x \in f.ops
  <1> DEFINE Goal == /\ copied \subseteq copied'
                     /\ \A x \in acked' :
                           \/ x \in acked
                           \/ InSent(x)
                           \/ \E f \in flushes : f.at = "acks" /\ x \in f.ops
  <1>1. ASSUME UNCHANGED <<copied, acked>> PROVE Goal
    BY <1>1
  <1>2. ASSUME NEW d \in Ids, Settle(d) \/ CommitFails(d) PROVE Goal
    <2>1. CASE StageSettle(d) \/ Seal(d) \/ OweSettle(d) \/ Abandon(d)
      BY <1>1, <2>1 DEF StageSettle, Seal, OweSettle, Abandon, server
    <2>2. CASE Count(d) \/ Commit(d) \/ CommitFails(d)
      BY <1>1, <2>2 DEF Count, Commit, CommitFails, Counted
    <2>. QED
      BY <1>2, <2>1, <2>2 DEF Settle
  <1>3. ASSUME NEW f \in flushes, Send(f) PROVE Goal
    <2>1. ASSUME NEW bad \in SUBSET f.segs, SendSegments(f, bad) PROVE Goal
      BY <2>1 DEF SendSegments, InSent, OpsOf
    <2>2. ASSUME NEW bad \in SUBSET f.ops, SendWrites(f, bad) PROVE Goal
      BY <2>2 DEF SendWrites
    <2>3. ASSUME NEW bad \in SUBSET f.ops, SendAcks(f, bad) PROVE Goal
      BY <2>3 DEF SendAcks
    <2>. QED
      BY <1>3, <2>1, <2>2, <2>3 DEF Send
  <1>4. ASSUME NEW n \in 1..MaxRead, Fetch(n) PROVE Goal
    BY <1>1, <1>4 DEF Fetch, server
  <1>5. ASSUME Yield \/ Discard \/ Stop \/ Report \/ Drain PROVE Goal
    BY <1>1, <1>5 DEF Yield, Discard, Stop, Report, Drain, server
  <1>6. ASSUME NEW d \in Ids, Queue(round[d]) PROVE Goal
    BY <1>1, <1>6 DEF Queue
  <1>7. ASSUME NEW d \in Ids, NEW v, Close(d, v) PROVE Goal
    BY <1>1, <1>7 DEF Close, server
  <1>8. ASSUME UNCHANGED vars PROVE Goal
    BY <1>1, <1>8 DEF vars, server
  <1> HIDE DEF Goal
  <1>9. Goal
    BY <1>2, <1>3, <1>4, <1>5, <1>6, <1>7, <1>8, NextCases
  <1>. QED
    BY <1>9 DEF Goal

\* Settles behind their second lock.
Away(x) == Paired(x) \/ InFlush(x) \/ x \in acked

LEMMA AwayOwing == Tallied => \A y \in Ids : Away(y) => Owing(y)
  BY OnePlace DEF Away, Paired

LEMMA RetryStep ==
    ASSUME TypeInv, SpotInv, KnowInv, LoneInv, StagedInv, RetryInv, [Next]_vars
    PROVE  RetryInv'
  <1>1. SpotInv' /\ TypeInv'
    BY SpotStep, TypeStep
  <1>2. ASSUME NEW x \in Ids,
               Paired(x)' \/ InFlush(x)' \/ x \in acked'
        PROVE  verdict'[x] = verdict[x]
    <2>1. Away(x)' => Owing(x)'
      <3>1. Tallied'
        BY <1>1 DEF SpotInv
      <3>2. (Tallied => \A y \in Ids : Away(y) => Owing(y))'
        BY AwayOwing, PTL
      <3>. QED
        BY <3>1, <3>2 DEF Away
    <2>2. Owing(x)'
      BY <1>2, <2>1 DEF Away
    <2>. QED
      BY <2>2, Decided
  <1>3. ASSUME NEW x \in Ids, Paired(x)' PROVE verdict'[x] = "ack"
    <2>1. verdict'[x] = verdict[x]
      BY <1>2, <1>3
    <2>2. CASE Paired(x)
      BY <2>1, <2>2 DEF RetryInv
    <2>3. CASE \E d \in Ids : Seal(d) /\ x \in staged[round[d].slot] \cup Owes(d)
      <3>1. PICK d \in Ids : Seal(d) /\ x \in staged[round[d].slot] \cup Owes(d)
        BY <2>3
      <3>2. stage[d] = "closing" /\ hands[d].last /\ hands[d].clean
        BY <3>1 DEF Seal, Commits
      <3>3. AllAck(round[d])
        BY <3>2 DEF KnowInv, LastInv
      <3>4. round[x] = round[d]
        <4>1. Active(d)
          BY <3>2 DEF Active, Settling
        <4>2. CASE x \in Owes(d)
          BY <4>2, OwesTypes
        <4>3. CASE x \in staged[round[d].slot]
          BY <4>1, <4>3, StagedRound
        <4>. QED
          BY <3>1, <4>2, <4>3
      <3>. QED
        BY <2>1, <3>3, <3>4 DEF AllAck, Members
    <2>. QED
      BY <1>3, <2>2, <2>3, PairedMoves
  <1>4. ASSUME NEW f \in flushes', f.at = "acks", NEW x \in f.ops,
               verdict'[x] = "retry"
        PROVE  x \in copied'
    <2>1. x \in Ids /\ InFlush(x)'
      BY <1>1, <1>4 DEF TypeInv, RestTypes, DebtTypes, Flush, InFlush
    <2>2. verdict[x] = "retry" /\ copied \subseteq copied'
      BY <1>2, <1>4, <2>1, AckMoves
    <2>3. CASE f \in flushes
      BY <1>4, <2>2, <2>3 DEF RetryInv, Copied
    <2>4. CASE f.at = NextPart(f.segs, f.ops)
      BY <1>4, <2>2, <2>4 DEF NextPart
    <2>5. CASE \E g \in flushes : \E bad \in SUBSET g.ops :
                  SendWrites(g, bad) /\ f.ops = Released(g, bad)
      <3>1. PICK g \in flushes : \E bad \in SUBSET g.ops :
                  SendWrites(g, bad) /\ f.ops = Released(g, bad)
        BY <2>5
      <3>2. PICK bad \in SUBSET g.ops :
                  SendWrites(g, bad) /\ f.ops = Released(g, bad)
        BY <3>1
      <3>3. x \in Retried(g) \ bad
        BY <1>4, <2>2, <3>2 DEF Released, Retried
      <3>. QED
        BY <3>2, <3>3 DEF SendWrites
    <2>. QED
      BY <2>3, <2>4, <2>5, FlushMoves
  <1>5. ASSUME NEW x \in acked', verdict'[x] = "retry" PROVE x \in copied'
    <2>1. x \in Ids
      BY <1>1, <1>5 DEF TypeInv, RestTypes, ServerTypes
    <2>2. verdict[x] = "retry" /\ copied \subseteq copied'
      BY <1>2, <1>5, <2>1, AckMoves
    <2>3. CASE x \in acked
      BY <2>2, <2>3 DEF RetryInv, RetryAckedOnceCopied
    <2>4. CASE InSent(x)
      BY <2>1, <2>2, <2>4 DEF RetryInv, Paired
    <2>5. CASE \E f \in flushes : f.at = "acks" /\ x \in f.ops
      BY <2>2, <2>5 DEF RetryInv, Copied
    <2>. QED
      BY <1>5, <2>3, <2>4, <2>5, AckMoves
  <1>6. (\A x \in Ids : Paired(x) => verdict[x] = "ack")'
    BY <1>3 DEF Paired
  <1>7. (\A f \in flushes : Copied(f))'
    BY <1>4 DEF Copied
  <1>8. RetryAckedOnceCopied'
    BY <1>5 DEF RetryAckedOnceCopied
  <1>. QED
    BY <1>6, <1>7, <1>8 DEF RetryInv

RetryInvs == WaitInv /\ LoneInv /\ StagedInv /\ RetryInv

LEMMA InitRetries == Init => RetryInvs
  <1> SUFFICES ASSUME Init PROVE RetryInvs
    OBVIOUS
  <1>1. WaitInv /\ LoneInv /\ StagedInv
    BY DEF Init, WaitInv, LoneInv, StagedInv, Active, Settling
  <1>2. ASSUME NEW x \in Ids PROVE ~Paired(x)
    BY <1>2 DEF Init, Paired, OpsOf, InSent, InHand, Nothing
  <1>. QED
    BY <1>1, <1>2 DEF Init, RetryInvs, RetryInv, RetryAckedOnceCopied

LEMMA RetriesStep ==
    ASSUME OneTask = TRUE, TypeInv, SpotInv, KnowInv, RetryInvs, [Next]_vars
    PROVE  RetryInvs'
  BY WaitStep, LoneStep, StagedStep, RetryStep DEF RetryInvs

LEMMA RetryInvariant ==
    ASSUME OneTask = TRUE
    PROVE  Spec => [](TypeInv /\ SpotInv /\ KnowInv /\ RetryInvs)
  <1> DEFINE IInv == TypeInv /\ SpotInv /\ KnowInv /\ RetryInvs
  <1>1. Init => IInv
    BY InitTypes, InitSpots, InitKnows, InitRetries
  <1>2. IInv /\ [Next]_vars => IInv'
    BY TypeStep, SpotStep, KnowStep, RetriesStep
  <1>. QED
    BY <1>1, <1>2, PTL DEF Spec

\* An entry that retries is acknowledged only once its copy or its schedule is
\* written, as long as the members of a batch are settled by one task.
THEOREM RetriesAreCopied ==
    ASSUME OneTask = TRUE PROVE Spec => []RetryAckedOnceCopied
  <1>1. RetryInvs => RetryAckedOnceCopied
    BY DEF RetryInvs, RetryInv
  <1>. QED
    BY <1>1, RetryInvariant, PTL

-----------------------------------------------------------------------------
(* Commands before acknowledgements.                                       *)

\* The command of a round is in its slot until the last member takes it.
TakeInv ==
    /\ \A c \in queued : Live(c)
    /\ \A d \in Ids : stage[d] = "held" /\ round[d] \in queued =>
          round[d] \in slots[round[d].slot].cmds
    /\ \A d \in Ids : stage[d] = "closing" /\ hands[d].last /\ round[d] \in queued =>
          round[d] \in hands[d].cmds

\* Only a handler that has its delivery queues a command.
LEMMA QueuedMoves ==
    ASSUME TypeInv, [Next]_vars
    PROVE  \/ queued' = queued
           \/ \E d \in Ids : Queue(round[d]) /\ queued' = queued \cup {round[d]}
  <1>1. ASSUME NEW n \in 1..MaxRead, Fetch(n) PROVE queued' = queued
    BY <1>1 DEF Fetch, server
  <1>2. ASSUME Yield \/ Discard \/ Stop PROVE queued' = queued
    BY <1>2 DEF Yield, Discard, Stop, server
  <1>3. ASSUME NEW d \in Ids, NEW v, Close(d, v) PROVE queued' = queued
    BY <1>3 DEF Close, server
  <1>4. ASSUME NEW d \in Ids, Settle(d) \/ CommitFails(d) PROVE queued' = queued
    BY <1>4, SettleMovesOn DEF MovesOn
  <1>5. ASSUME NEW d \in Ids, Queue(round[d])
        PROVE  queued' = queued \cup {round[d]}
    BY <1>5 DEF Queue
  <1>6. ASSUME Still PROVE queued' = queued
    BY <1>6 DEF Still
  <1>. QED
    BY <1>1, <1>2, <1>3, <1>4, <1>5, <1>6, NextCases, SendIsStill,
       QuietIsStill

LEMMA QueuedStays ==
    ASSUME Keeps = FALSE, TypeInv, [Next]_vars, NEW c, NoHeld(c), c \in queued'
    PROVE  c \in queued
  <1>1. ASSUME NEW d \in Ids, Queue(round[d]) PROVE ~NoHeld(round[d])
    BY <1>1 DEF Queue, NoHeld
  <1>. QED
    BY <1>1, QueuedMoves

\* The segment of a slot is taken by the last member only.
LEMMA SlotCmdsMove ==
    ASSUME TypeInv, [Next]_vars, NEW s \in 1..Len(slots), NEW c \in slots[s].cmds
    PROVE  \/ s \in 1..Len(slots') /\ c \in slots'[s].cmds
           \/ \E d \in Ids : \E v : /\ Close(d, v) /\ LastMember(s)
                                    /\ round[d].slot = s
  <1>0. StreamInv /\ SegmentInv
    BY DEF TypeInv
  <1> DEFINE Goal == \/ s \in 1..Len(slots') /\ c \in slots'[s].cmds
                     \/ \E d \in Ids : \E v : /\ Close(d, v) /\ LastMember(s)
                                              /\ round[d].slot = s
  <1>1. ASSUME slots' = slots PROVE Goal
    BY <1>1
  <1>2. ASSUME NEW n \in 1..MaxRead, Fetch(n) PROVE Goal
    BY <1>1, <1>2 DEF Fetch, segment
  <1>3. ASSUME Discard \/ Stop PROVE Goal
    BY <1>1, <1>3 DEF Discard, Stop, segment
  <1>4. ASSUME NEW d \in Ids, Settle(d) \/ CommitFails(d) PROVE Goal
    BY <1>1, <1>4, SettleMovesOn DEF MovesOn, segment
  <1>5. ASSUME Still PROVE Goal
    BY <1>1, <1>5 DEF Still, segment
  <1>6. ASSUME NEW d \in Ids, Queue(round[d]) PROVE Goal
    <2> DEFINE t == round[d].slot
    <2>1. /\ Len(slots') = Len(slots)
          /\ slots'[t].cmds = slots[t].cmds \cup {round[d]}
          /\ \A u \in 1..Len(slots) : u # t => slots'[u] = slots[u]
      BY <1>0, <1>6, QueueSlot
    <2> HIDE DEF t
    <2>. QED
      BY <2>1
  <1>7. ASSUME NEW d \in Ids, NEW v, Close(d, v) PROVE Goal
    <2> DEFINE t == round[d].slot
    <2>1. /\ Len(slots') = Len(slots)
          /\ slots'[t].cmds = IF LastMember(t) THEN {} ELSE slots[t].cmds
          /\ \A u \in 1..Len(slots) : u # t => slots'[u] = slots[u]
      BY <1>0, <1>7, CloseSlot
    <2>2. CASE s = t /\ LastMember(t)
      BY <1>7, <2>2
    <2>3. CASE ~(s = t /\ LastMember(t))
      <3> HIDE DEF t
      <3>. QED
        BY <2>1, <2>3
    <2>. QED
      BY <2>2, <2>3
  <1>8. ASSUME Yield PROVE Goal
    <2>1. /\ 1..Len(slots') = 1..Len(slots) \cup {NextSlot}
          /\ slots'[NextSlot].cmds =
                IF NextSlot \in 1..Len(slots) THEN slots[NextSlot].cmds ELSE {}
          /\ \A t \in 1..Len(slots) : t # NextSlot => slots'[t] = slots[t]
      BY <1>0, <1>8, YieldSlot
    <2>2. PICK t : t = NextSlot
      OBVIOUS
    <2>. QED
      BY <2>1, <2>2
  <1> HIDE DEF Goal
  <1>9. Goal
    BY <1>2, <1>3, <1>4, <1>5, <1>6, <1>7, <1>8, NextCases, SendIsStill,
       QuietIsStill
  <1>. QED
    BY <1>9 DEF Goal

LEMMA TakeStep ==
    ASSUME Keeps = FALSE, TypeInv, KnowInv, TakeInv, [Next]_vars PROVE TakeInv'
  <1>0. TypeInv'
    BY TypeStep
  <1>1. ASSUME NEW c \in queued' PROVE Live(c)'
    <2>1. Live(c)
      <3>1. CASE c \in queued
        BY <3>1 DEF TakeInv
      <3>2. ASSUME NEW d \in Ids, Queue(round[d]) PROVE Live(round[d])
        BY <3>2, QueueSlot DEF TypeInv, Live
      <3>. QED
        BY <3>1, <3>2, QueuedMoves
    <2>. QED
      BY <2>1, RoundMoves
  <1>2. ASSUME NEW d \in Ids, stage'[d] = "held", round'[d] \in queued'
        PROVE  round'[d] \in slots'[round'[d].slot].cmds
    <2>1. CASE stage[d] # "held"
      <3>1. Yield /\ StageMove(d)
        BY <1>2, <2>1, OnlyYields, StageMoves
      <3>2. /\ round' = [e \in Ids |-> IF e \in Out THEN NewRound ELSE round[e]]
            /\ \A e \in Ids : round[e] # NewRound
            /\ stage' = [e \in Ids |-> IF e \in Out THEN "held" ELSE stage[e]]
        BY <3>1, YieldRound DEF TypeInv
      <3>3. queued' = queued
        BY <3>1 DEF Yield, server
      <3> HIDE DEF NewRound, Out
      <3>4. round'[d] = NewRound
        BY <1>2, <2>1, <3>2
      <3>5. Live(round'[d])
        BY <1>2, <3>3 DEF TakeInv
      <3>. QED
        BY <3>2, <3>4, <3>5 DEF Live
    <2>2. CASE stage[d] = "held"
      <3>1. round'[d] = round[d]
        BY <2>2, RoundKept
      <3>2. PICK c : c = round[d]
        OBVIOUS
      <3>3. /\ c.slot \in 1..Len(slots)
            /\ \A e \in Holders(c.slot) : round[e] = c
            /\ d \in Holders(c.slot)
            /\ LastMember(c.slot) <=> Holders(c.slot) = {d}
        BY <2>2, <3>2, HeldSlot DEF TypeInv
      <3>4. CASE c \in queued
        <4>1. c \in slots[c.slot].cmds
          BY <2>2, <3>2, <3>4 DEF TakeInv
        <4>2. ASSUME NEW e \in Ids, NEW v, Close(e, v), LastMember(c.slot),
                     round[e].slot = c.slot
              PROVE  FALSE
          <5>1. stage[e] = "held" /\ stage'[e] = "closing"
            BY <4>2, CloseHand
          <5>2. e \in Holders(c.slot)
            BY <4>2, <5>1 DEF Holders
          <5>. QED
            BY <1>2, <3>3, <4>2, <5>1, <5>2
        <4>. QED
          BY <3>1, <3>2, <3>3, <4>1, <4>2, SlotCmdsMove
      <3>5. CASE c \notin queued
        <4>1. PICK e \in Ids : Queue(round[e]) /\ queued' = queued \cup {round[e]}
          BY <1>2, <3>1, <3>2, <3>5, QueuedMoves
        <4>2. round[e] = c
          BY <1>2, <3>1, <3>2, <3>5, <4>1
        <4>3. slots'[c.slot].cmds = slots[c.slot].cmds \cup {c}
          BY <4>1, <4>2, QueueSlot DEF TypeInv
        <4>. QED
          BY <3>1, <3>2, <4>3
      <3>. QED
        BY <3>4, <3>5
    <2>. QED
      BY <2>1, <2>2
  <1>3. ASSUME NEW d \in Ids, stage'[d] = "closing", hands'[d].last,
               round'[d] \in queued'
        PROVE  round'[d] \in hands'[d].cmds
    <2>1. CASE stage[d] = "closing"
      <3>1. hands'[d] = hands[d] /\ round'[d] = round[d]
        BY <1>3, <2>1, HandMoves, RoundKept DEF Settling
      <3>2. NoHeld(round[d])
        BY <1>3, <2>1, <3>1 DEF KnowInv, LastInv
      <3>3. round[d] \in queued
        BY <1>3, <3>1, <3>2, QueuedStays
      <3>. QED
        BY <1>3, <2>1, <3>1, <3>3 DEF TakeInv
    <2>2. CASE stage[d] # "closing"
      <3>1. PICK v \in Verdicts : Close(d, v)
        BY <1>3, <2>2, OnlyCloses
      <3>2. /\ hands'[d].last = LastMember(round[d].slot)
            /\ hands'[d].cmds = IF LastMember(round[d].slot)
                                THEN slots[round[d].slot].cmds ELSE {}
            /\ stage[d] = "held" /\ round' = round
        BY <3>1, CloseHand
      <3>3. queued' = queued
        BY <3>1 DEF Close, server
      <3>. QED
        BY <1>3, <3>2, <3>3 DEF TakeInv
    <2>. QED
      BY <2>1, <2>2
  <1>4. (\A c \in queued : Live(c))'
    BY <1>1
  <1>5. (\A d \in Ids : stage[d] = "held" /\ round[d] \in queued =>
            round[d] \in slots[round[d].slot].cmds)'
    BY <1>2
  <1>6. (\A d \in Ids : stage[d] = "closing" /\ hands[d].last
                            /\ round[d] \in queued => round[d] \in hands[d].cmds)'
    BY <1>3
  <1>. QED
    BY <1>4, <1>5, <1>6 DEF TakeInv

\* What a seal carries is of its own round.
CarryInv == \A e \in Ids : \A x \in hands[e].ops : round[x] = round[e]

LEMMA CarryStep ==
    ASSUME TypeInv, SpotInv, LoneInv, StagedInv, CarryInv, [Next]_vars
    PROVE  CarryInv'
  <1>1. TypeInv' /\ SpotInv'
    BY TypeStep, SpotStep
  <1> SUFFICES ASSUME NEW e \in Ids, NEW x \in hands'[e].ops
               PROVE  round'[x] = round'[e]
    BY DEF CarryInv
  <1>2. x \in Ids /\ stage'[e] = "sealing"
    BY <1>1 DEF TypeInv, RestTypes, HandTypes, Hand, SpotInv, HandOnce
  <1>3. stage[e] \in Settling
    <2>1. CASE stage[e] # "sealing"
      BY <1>2, <2>1, OnlySeals DEF Seal, Settling
    <2>. QED
      BY <2>1 DEF Settling
  <1>4. round[x] = round[e]
    <2>1. CASE stage[e] = "sealing"
      BY <1>2, <2>1, HandMoves DEF CarryInv, Settling
    <2>2. CASE stage[e] # "sealing"
      <3>1. Seal(e)
        BY <1>2, <2>2, OnlySeals
      <3> DEFINE o == staged[round[e].slot] \cup Owes(e)
      <3>2. hands' = [hands EXCEPT ![e].ops = o] /\ Active(e)
        BY <3>1 DEF Seal, Active, Settling
      <3>3. hands \in [Ids -> Hand] /\ hands[e] \in Hand
        BY DEF TypeInv, RestTypes, HandTypes
      <3> HIDE DEF o
      <3>4. hands'[e].ops = o
        BY <3>2, <3>3 DEF Hand
      <3>5. CASE x \in Owes(e)
        BY <3>5, OwesTypes
      <3>6. CASE x \in staged[round[e].slot]
        BY <3>2, <3>6, StagedRound
      <3>. QED
        BY <3>4, <3>5, <3>6 DEF o
    <2>. QED
      BY <2>1, <2>2
  <1>5. PICK c : c = round[e]
    OBVIOUS
  <1>6. Live(c)
    BY <1>3, <1>5, LiveRound
  <1>7. Members(c)' = Members(c)
    BY <1>6, RoundMoves
  <1>. QED
    BY <1>2, <1>4, <1>5, <1>7 DEF Members

\* A delivery whose handlers are done, the command of which, if its round is
\* acknowledged, was sent or is in cs.
Cleared(x, cs) ==
    /\ Live(round[x]) /\ NoHeld(round[x])
    /\ round[x] \in queued /\ AllAck(round[x])
          => round[x] \in cs \/ round[x] \in ran \/ round[x] \in refused
\* The same of this step: sent by its end, or in cs.
Clears(x, cs) ==
    /\ Live(round[x]) /\ NoHeld(round[x])
    /\ round[x] \in queued /\ AllAck(round[x])
          => round[x] \in cs \/ round[x] \in ran' \/ round[x] \in refused'
OrderInv ==
    /\ \A x \in ops : Cleared(x, CmdsOf(committed))
    /\ \A g \in committed : \A x \in g.ops : Cleared(x, g.cmds)
    /\ \A f \in flushes : \A x \in f.ops : Cleared(x, CmdsOf(f.segs))
    /\ \A f \in flushes : \A g \in f.segs : \A x \in g.ops : Cleared(x, g.cmds)
    /\ \A x \in acked : Cleared(x, {})
NextOrder ==
    /\ \A x \in ops' : Clears(x, CmdsOf(committed'))
    /\ \A g \in committed' : \A x \in g.ops : Clears(x, g.cmds)
    /\ \A f \in flushes' : \A x \in f.ops : Clears(x, CmdsOf(f.segs))
    /\ \A f \in flushes' : \A g \in f.segs : \A x \in g.ops : Clears(x, g.cmds)
    /\ \A x \in acked' : Clears(x, {})

\* A round that is done is not queued for, or decided about, any more.
LEMMA ClearsStay ==
    ASSUME Keeps = FALSE, TypeInv, [Next]_vars, NEW x \in Ids, NEW cs,
           Clears(x, cs)
    PROVE  Cleared(x, cs)'
  <1>1. PICK c : c = round[x]
    OBVIOUS
  <1>2. Live(c) /\ NoHeld(c)
    BY <1>1 DEF Clears
  <1>3. /\ Live(c)' /\ NoHeld(c)' /\ Members(c)' = Members(c)
        /\ AllAck(c)' <=> AllAck(c)
    BY <1>2, RoundMoves, RoundStays
  <1>4. c \in queued' => c \in queued
    BY <1>2, QueuedStays
  <1>5. round'[x] = c
    BY <1>1, <1>3 DEF Members
  <1>6. c \in queued' /\ AllAck(c)' => c \in cs \/ c \in ran' \/ c \in refused'
    BY <1>1, <1>3, <1>4 DEF Clears
  <1>. QED
    BY <1>3, <1>5, <1>6 DEF Cleared, Live, NoHeld, AllAck, Members

LEMMA OrderFollows ==
    ASSUME Keeps = FALSE, TypeInv, [Next]_vars, NextOrder PROVE OrderInv'
  <1>0. TypeInv'
    BY TypeStep
  <1>1. /\ ops' \subseteq Ids /\ acked' \subseteq Ids
        /\ committed' \subseteq Sealed /\ flushes' \subseteq Flush
    BY <1>0 DEF TypeInv, RestTypes, DebtTypes, ServerTypes
  <1>2. \A g \in Sealed : g.ops \subseteq Ids
    BY DEF Sealed
  <1>3. \A f \in Flush : f.ops \subseteq Ids /\ f.segs \subseteq Sealed
    BY DEF Flush
  <1>4. (\A x \in ops : Cleared(x, CmdsOf(committed)))'
    <2>1. PICK k : k = CmdsOf(committed')
      OBVIOUS
    <2>2. ASSUME NEW x \in ops' PROVE Cleared(x, k)'
      BY <1>1, <2>1, <2>2, ClearsStay DEF NextOrder
    <2>. QED
      BY <2>1, <2>2 DEF Cleared
  <1>5. (\A g \in committed : \A x \in g.ops : Cleared(x, g.cmds))'
    <2>1. ASSUME NEW g \in committed', NEW x \in g.ops PROVE Cleared(x, g.cmds)'
      BY <1>1, <1>2, <2>1, ClearsStay DEF NextOrder
    <2>. QED
      BY <2>1
  <1>6. (\A f \in flushes : \A x \in f.ops : Cleared(x, CmdsOf(f.segs)))'
    <2>1. ASSUME NEW f \in flushes', NEW x \in f.ops
          PROVE  Cleared(x, CmdsOf(f.segs))'
      <3>1. x \in Ids /\ Clears(x, CmdsOf(f.segs))
        BY <1>1, <1>3, <2>1 DEF NextOrder
      <3>. QED
        BY <3>1, ClearsStay
    <2>. QED
      BY <2>1
  <1>7. (\A f \in flushes : \A g \in f.segs : \A x \in g.ops :
            Cleared(x, g.cmds))'
    <2>1. ASSUME NEW f \in flushes', NEW g \in f.segs, NEW x \in g.ops
          PROVE  Cleared(x, g.cmds)'
      <3>1. x \in Ids /\ Clears(x, g.cmds)
        BY <1>1, <1>2, <1>3, <2>1 DEF NextOrder
      <3>. QED
        BY <3>1, ClearsStay
    <2>. QED
      BY <2>1
  <1>8. (\A x \in acked : Cleared(x, {}))'
    <2>1. ASSUME NEW x \in acked' PROVE Cleared(x, {})'
      BY <1>1, <2>1, ClearsStay DEF NextOrder
    <2>. QED
      BY <2>1
  <1>. QED
    BY <1>4, <1>5, <1>6, <1>7, <1>8 DEF OrderInv

\* What was in order is in order with more sent.
LEMMA ClearsMore ==
    ASSUME NEW x, NEW cs, Cleared(x, cs), NEW ds, ran \subseteq ran',
           refused \subseteq refused', cs \subseteq ds \cup ran' \cup refused'
    PROVE  Clears(x, ds)
  BY DEF Cleared, Clears

LEMMA OrderStands ==
    ASSUME OrderInv, UNCHANGED <<ops, committed, flushes, acked, ran, refused>>
    PROVE  NextOrder
  <1>1. ASSUME NEW x, NEW cs, Cleared(x, cs) PROVE Clears(x, cs)
    BY <1>1 DEF Cleared, Clears
  <1>. QED
    BY <1>1 DEF OrderInv, NextOrder

\* The window is sent with what it owes, or keeps it.
LEMMA TakenOrder ==
    ASSUME OrderInv, UNCHANGED <<acked, ran, refused>>, NEW due, NEW segs,
           NEW acks, TakeIf(due, segs, acks),
           \A x \in acks : Clears(x, CmdsOf(segs)),
           \A g \in segs : \A x \in g.ops : Clears(x, g.cmds)
    PROVE  NextOrder
  <1>1. ASSUME NEW x, NEW cs, Cleared(x, cs) PROVE Clears(x, cs)
    BY <1>1 DEF Cleared, Clears
  <1>2. /\ \A f \in flushes : \A x \in f.ops : Clears(x, CmdsOf(f.segs))
        /\ \A f \in flushes : \A g \in f.segs : \A x \in g.ops : Clears(x, g.cmds)
        /\ \A x \in acked' : Clears(x, {})
    BY <1>1 DEF OrderInv
  <1>3. CASE ~due
    <2>1. committed' = segs /\ ops' = acks /\ flushes' = flushes
      BY <1>3 DEF TakeIf
    <2>. QED
      BY <1>2, <2>1 DEF NextOrder
  <1>4. CASE due /\ segs = {} /\ acks = {}
    <2>1. committed' = {} /\ ops' = {} /\ flushes' = flushes
      BY <1>4 DEF TakeIf
    <2>. QED
      BY <1>2, <2>1 DEF NextOrder
  <1>5. CASE due /\ ~(segs = {} /\ acks = {})
    <2> DEFINE new == [segs |-> segs, ops |-> acks, erred |-> FALSE,
                       at |-> NextPart(segs, acks)]
    <2>1. committed' = {} /\ ops' = {} /\ flushes' = flushes \cup {new}
      BY <1>5 DEF TakeIf
    <2>2. new.segs = segs /\ new.ops = acks
      OBVIOUS
    <2> HIDE DEF new
    <2>3. \A f \in flushes' : \A x \in f.ops : Clears(x, CmdsOf(f.segs))
      BY <1>2, <2>1, <2>2
    <2>4. \A f \in flushes' : \A g \in f.segs : \A x \in g.ops : Clears(x, g.cmds)
      BY <1>2, <2>1, <2>2
    <2>. QED
      BY <1>2, <2>1, <2>3, <2>4 DEF NextOrder
  <1>. QED
    BY <1>3, <1>4, <1>5

\* What is staged goes with its round, which did not commit.
LEMMA LastOrder ==
    ASSUME TypeInv, SpotInv, KnowInv, LoneInv, StagedInv, TakeInv, NEW d \in Ids,
           stage[d] = "closing", hands[d].last, ~Commits(d),
           NEW x \in staged[round[d].slot] \cup Owes(d), NEW cs
    PROVE  Clears(x, cs)
  <1>1. round[x] = round[d]
    <2>1. CASE x \in Owes(d)
      BY <2>1, OwesTypes
    <2>2. CASE x \in staged[round[d].slot]
      <3>1. Active(d)
        BY DEF Active, Settling
      <3>. QED
        BY <2>2, <3>1, StagedRound
    <2>. QED
      BY <2>1, <2>2
  <1>2. Live(round[d]) /\ NoHeld(round[d]) /\ d \in Members(round[d])
    BY LiveRound DEF KnowInv, LastInv, Settling
  <1>3. ~(round[d] \in queued /\ AllAck(round[d]))
    <2> SUFFICES ASSUME round[d] \in queued, AllAck(round[d]) PROVE FALSE
      OBVIOUS
    <2>1. hands[d].clean /\ verdict[d] = "ack"
      BY <1>2 DEF KnowInv, LastInv, AllAck
    <2>2. hands[d].cmds # {}
      BY DEF TakeInv
    <2>. QED
      BY <2>1, <2>2 DEF Commits
  <1>. QED
    BY <1>1, <1>2, <1>3 DEF Clears

\* A sealed segment has the command of its round, and its settles.
LEMMA SealedOrder ==
    ASSUME TypeInv, KnowInv, CmdsInv, CarryInv, NEW d \in Ids,
           stage[d] = "sealing", NEW x \in hands[d].ops, NEW cs,
           hands[d].cmds \subseteq cs
    PROVE  Clears(x, cs)
  <1>1. round[x] = round[d] /\ round[d] \in cs
    BY DEF CarryInv, CmdsInv
  <1>2. Live(round[d]) /\ AllAck(round[d])
    BY LiveRound DEF CmdsInv, Settling
  <1>3. NoHeld(round[d])
    BY <1>2 DEF KnowInv, VerdictInv, AllAck, NoHeld, Members
  <1>. QED
    BY <1>1, <1>2, <1>3 DEF Clears

LEMMA SettleOrder ==
    ASSUME TypeInv, SpotInv, KnowInv, CmdsInv, LoneInv, StagedInv, TakeInv,
           CarryInv, OrderInv, NEW d \in Ids, Settle(d) \/ CommitFails(d)
    PROVE  NextOrder
  <1>1. ASSUME NEW x, NEW cs, Cleared(x, cs), UNCHANGED <<ran, refused>>
        PROVE  Clears(x, cs)
    BY <1>1 DEF Cleared, Clears
  <1>2. CASE StageSettle(d) \/ Seal(d)
    BY <1>2, OrderStands DEF StageSettle, Seal, server
  <1>3. CASE OweSettle(d)
    <2> DEFINE left == staged[round[d].slot] \cup Owes(d)
    <2>1. /\ stage[d] = "closing" /\ hands[d].last /\ ~Commits(d)
          /\ ops' = ops \cup left
          /\ UNCHANGED <<committed, flushes, acked, ran, refused>>
      BY <1>3 DEF OweSettle, server
    <2>2. \A x \in left : \A cs : Clears(x, cs)
      BY <2>1, LastOrder
    <2> HIDE DEF left
    <2>3. \A x \in ops' : Clears(x, CmdsOf(committed'))
      BY <1>1, <2>1, <2>2 DEF OrderInv
    <2>. QED
      BY <1>1, <2>1, <2>3 DEF OrderInv, NextOrder
  <1>4. ASSUME NEW segs, NEW acks, Counted(d, segs, acks),
               \A x \in acks : Clears(x, CmdsOf(segs)),
               \A g \in segs : \A x \in g.ops : Clears(x, g.cmds)
        PROVE  NextOrder
    <2>1. UNCHANGED <<acked, ran, refused>>
          /\ TakeIf(Due(Less(outstanding, 1)), segs, acks)
      BY <1>4 DEF Counted
    <2>. QED
      BY <1>4, <2>1, TakenOrder
  <1>5. CASE Count(d) \/ CommitFails(d)
    <2>1. Counted(d, committed, ops) /\ UNCHANGED <<ran, refused>>
      BY <1>5 DEF Count, CommitFails, Counted
    <2>. QED
      BY <1>1, <1>4, <2>1 DEF OrderInv
  <1>6. CASE Commit(d)
    <2>0. UNCHANGED <<ran, refused>> /\ stage[d] = "sealing"
      BY <1>6 DEF Commit, Counted
    <2>1. ASSUME NEW g, g.cmds = hands[d].cmds,
                 g.ops = {} \/ g.ops = hands[d].ops, NEW acks,
                 acks \subseteq ops \cup hands[d].ops
          PROVE  LET segs == committed \cup {g}
                 IN  /\ \A x \in acks : Clears(x, CmdsOf(segs))
                     /\ \A h \in segs : \A x \in h.ops : Clears(x, h.cmds)
      <3> DEFINE segs == committed \cup {g}
      <3>1. CmdsOf(committed) \subseteq CmdsOf(segs)
            /\ hands[d].cmds \subseteq CmdsOf(segs)
        BY <2>1 DEF CmdsOf
      <3>2. ASSUME NEW x \in ops PROVE Clears(x, CmdsOf(segs))
        <4>1. Cleared(x, CmdsOf(committed))
          BY <3>2 DEF OrderInv
        <4>. QED
          BY <2>0, <3>1, <4>1 DEF Cleared, Clears
      <3>3. \A x \in hands[d].ops : Clears(x, CmdsOf(segs)) /\ Clears(x, g.cmds)
        BY <2>0, <2>1, <3>1, SealedOrder
      <3>4. \A h \in committed : \A x \in h.ops : Clears(x, h.cmds)
        BY <1>1, <2>0 DEF OrderInv
      <3>. QED
        BY <2>1, <3>2, <3>3, <3>4
    <2>2. CASE mount.atomic
      <3> DEFINE g == [cmds |-> hands[d].cmds, ops |-> hands[d].ops]
      <3>1. Counted(d, committed \cup {g}, ops)
        BY <1>6, <2>2 DEF Commit
      <3>2. g.cmds = hands[d].cmds /\ g.ops = hands[d].ops
        OBVIOUS
      <3> HIDE DEF g
      <3>3. /\ \A x \in ops : Clears(x, CmdsOf(committed \cup {g}))
            /\ \A h \in committed \cup {g} : \A x \in h.ops : Clears(x, h.cmds)
        BY <2>1, <3>2
      <3>. QED
        BY <1>4, <3>1, <3>3
    <2>3. CASE ~mount.atomic
      <3> DEFINE g == [cmds |-> hands[d].cmds, ops |-> {}]
                 acks == ops \cup hands[d].ops
      <3>1. Counted(d, committed \cup {g}, acks)
        BY <1>6, <2>3 DEF Commit
      <3>2. g.cmds = hands[d].cmds /\ g.ops = {}
        OBVIOUS
      <3> HIDE DEF g
      <3>3. /\ \A x \in acks : Clears(x, CmdsOf(committed \cup {g}))
            /\ \A h \in committed \cup {g} : \A x \in h.ops : Clears(x, h.cmds)
        BY <2>1, <3>2
      <3> HIDE DEF acks
      <3>. QED
        BY <1>4, <3>1, <3>3
    <2>. QED
      BY <2>2, <2>3
  <1>7. CASE Abandon(d)
    <2> DEFINE left == IF hands[d].last THEN staged[round[d].slot] ELSE {}
               acks == ops \cup left
               n    == Less(outstanding, 1)
               due  == n = 0 /\ (committed # {} \/ acks # {})
    <2>1. /\ stage[d] = "closing" /\ verdict[d] = "none"
          /\ UNCHANGED <<acked, ran, refused>>
          /\ TakeIf(due, committed, acks)
      BY <1>7 DEF Abandon, server
    <2>2. ~Commits(d)
      BY <2>1 DEF Commits
    <2>3. \A x \in left : Clears(x, CmdsOf(committed))
      BY <2>1, <2>2, LastOrder
    <2>4. \A x \in acks : Clears(x, CmdsOf(committed))
      BY <1>1, <2>1, <2>3 DEF OrderInv
    <2>5. \A g \in committed : \A x \in g.ops : Clears(x, g.cmds)
      BY <1>1, <2>1 DEF OrderInv
    <2> HIDE DEF due, acks
    <2>. QED
      BY <2>1, <2>4, <2>5, TakenOrder
  <1>. QED
    BY <1>2, <1>3, <1>5, <1>6, <1>7 DEF Settle

LEMMA SendOrder ==
    ASSUME TypeInv, SpotInv, OrderInv, NEW f \in flushes, Send(f) PROVE NextOrder
  <1>1. committed' = committed /\ ops' = ops /\ ran \subseteq ran'
        /\ refused \subseteq refused'
    BY DEF Send, SendSegments, SendWrites, SendAcks
  <1>2. ASSUME NEW x, NEW cs, Cleared(x, cs) PROVE Clears(x, cs)
    BY <1>1, <1>2 DEF Cleared, Clears
  <1>3. /\ \A x \in ops' : Clears(x, CmdsOf(committed'))
        /\ \A g \in committed' : \A x \in g.ops : Clears(x, g.cmds)
        /\ \A h \in flushes : \A x \in h.ops : Clears(x, CmdsOf(h.segs))
        /\ \A h \in flushes : \A g \in h.segs : \A x \in g.ops : Clears(x, g.cmds)
        /\ \A x \in acked : Clears(x, {})
    BY <1>1, <1>2 DEF OrderInv
  <1>4. ASSUME NEW left, NEW at, NEW bad, Advance(f, left, at, bad),
               \A x \in left : Clears(x, {}), \A x \in acked' : Clears(x, {})
        PROVE  NextOrder
    <2> DEFINE new == [segs |-> {}, ops |-> left,
                       erred |-> f.erred \/ bad # {}, at |-> at]
    <2>1. flushes' = (flushes \ {f}) \cup {new}
      BY <1>4 DEF Advance
    <2>2. new.segs = {} /\ new.ops = left /\ CmdsOf({}) = {}
      BY DEF CmdsOf
    <2> HIDE DEF new
    <2>3. \A h \in flushes' : \A x \in h.ops : Clears(x, CmdsOf(h.segs))
      BY <1>3, <1>4, <2>1, <2>2
    <2>4. \A h \in flushes' : \A g \in h.segs : \A x \in g.ops : Clears(x, g.cmds)
      BY <1>3, <2>1, <2>2
    <2>. QED
      BY <1>3, <1>4, <2>3, <2>4 DEF NextOrder
  <1>5. ASSUME f.at # "segments" PROVE \A x \in f.ops : Clears(x, {})
    <2>1. f.segs = {}
      BY <1>5 DEF SpotInv, FlushOnce
    <2>2. CmdsOf(f.segs) = {}
      BY <2>1 DEF CmdsOf
    <2>. QED
      BY <1>3, <2>2
  <1>6. ASSUME NEW bad \in SUBSET f.segs, SendSegments(f, bad) PROVE NextOrder
    <2>1. /\ ran' = ran \cup CmdsOf(f.segs \ bad)
          /\ refused' = refused \cup CmdsOf(bad)
          /\ acked' = acked \cup OpsOf(f.segs \ bad)
          /\ Advance(f, f.ops, NextPart({}, f.ops), bad)
      BY <1>6 DEF SendSegments
    <2>2. CmdsOf(f.segs) \subseteq ran' \cup refused'
      BY <2>1 DEF CmdsOf
    <2>3. ASSUME NEW x \in f.ops PROVE Clears(x, {})
      <3>1. Cleared(x, CmdsOf(f.segs))
        BY <2>3 DEF OrderInv
      <3>. QED
        BY <1>1, <2>2, <3>1 DEF Cleared, Clears
    <2>4. ASSUME NEW g \in f.segs, NEW x \in g.ops PROVE Clears(x, {})
      <3>1. Cleared(x, g.cmds)
        BY <2>4 DEF OrderInv
      <3>2. g.cmds \subseteq CmdsOf(f.segs)
        BY <2>4 DEF CmdsOf
      <3>. QED
        BY <1>1, <2>2, <3>1, <3>2 DEF Cleared, Clears
    <2>5. \A x \in acked' : Clears(x, {})
      BY <1>3, <2>1, <2>4 DEF OpsOf
    <2>. QED
      BY <1>4, <2>1, <2>3, <2>5
  <1>7. ASSUME NEW bad \in SUBSET f.ops, SendWrites(f, bad) PROVE NextOrder
    <2>1. /\ f.at = "writes" /\ acked' = acked
          /\ Advance(f, Released(f, bad), "acks", bad)
      BY <1>7 DEF SendWrites
    <2>2. \A x \in Released(f, bad) : Clears(x, {})
      BY <1>5, <2>1 DEF Released
    <2>. QED
      BY <1>3, <1>4, <2>1, <2>2
  <1>8. ASSUME NEW bad \in SUBSET f.ops, SendAcks(f, bad) PROVE NextOrder
    <2>1. /\ f.at = "acks" /\ acked' = acked \cup (f.ops \ bad)
          /\ flushes' = flushes \ {f}
      BY <1>8 DEF SendAcks
    <2>2. \A x \in acked' : Clears(x, {})
      BY <1>3, <1>5, <2>1
    <2>. QED
      BY <1>3, <2>1, <2>2 DEF NextOrder
  <1>. QED
    BY <1>6, <1>7, <1>8 DEF Send

LEMMA OrderStep ==
    ASSUME Keeps = FALSE, TypeInv, SpotInv, KnowInv, CmdsInv, LoneInv, StagedInv,
           TakeInv, CarryInv, OrderInv, [Next]_vars
    PROVE  OrderInv'
  <1>1. ASSUME NEW n \in 1..MaxRead, Fetch(n) PROVE NextOrder
    BY <1>1, OrderStands DEF Fetch, server
  <1>2. ASSUME Yield \/ Discard \/ Stop \/ Report PROVE NextOrder
    BY <1>2, OrderStands DEF Yield, Discard, Stop, Report, owed, server
  <1>3. ASSUME NEW d \in Ids, Queue(round[d]) PROVE NextOrder
    BY <1>3, OrderStands DEF Queue, owed
  <1>4. ASSUME NEW d \in Ids, NEW v, Close(d, v) PROVE NextOrder
    BY <1>4, OrderStands DEF Close, owed, server
  <1>5. ASSUME NEW d \in Ids, Settle(d) \/ CommitFails(d) PROVE NextOrder
    BY <1>5, SettleOrder
  <1>6. ASSUME NEW f \in flushes, Send(f) PROVE NextOrder
    BY <1>6, SendOrder
  <1>7. ASSUME Drain PROVE NextOrder
    <2>1. TakeIf(TRUE, committed, ops) /\ UNCHANGED <<acked, ran, refused>>
      BY <1>7 DEF Drain, server
    <2>2. ASSUME NEW x, NEW cs, Cleared(x, cs) PROVE Clears(x, cs)
      BY <2>1, <2>2 DEF Cleared, Clears
    <2>. QED
      BY <2>1, <2>2, TakenOrder DEF OrderInv
  <1>8. ASSUME UNCHANGED vars PROVE NextOrder
    BY <1>8, OrderStands DEF vars, owed, server
  <1>9. NextOrder
    BY <1>1, <1>2, <1>3, <1>4, <1>5, <1>6, <1>7, <1>8, NextCases
  <1>. QED
    BY <1>9, OrderFollows

\* Everything the order of commands and acknowledgements rests on.
OrderInvs == KeptInv /\ RetryInvs /\ TakeInv /\ CarryInv /\ OrderInv

LEMMA InitOrder == Init => OrderInvs
  <1> SUFFICES ASSUME Init PROVE OrderInvs
    OBVIOUS
  <1>1. KeptInv /\ RetryInvs
    BY InitKept, InitRetries
  <1>2. TakeInv
    BY DEF Init, TakeInv
  <1>3. CarryInv /\ OrderInv
    BY DEF Init, CarryInv, OrderInv, Nothing
  <1>. QED
    BY <1>1, <1>2, <1>3 DEF OrderInvs

LEMMA OrdersStep ==
    ASSUME Keeps = FALSE, OneTask = TRUE, TypeInv, SpotInv, KnowInv, OrderInvs,
           [Next]_vars
    PROVE  OrderInvs'
  <1>1. KeptInv' /\ RetryInvs'
    BY KeptStep, RetriesStep DEF OrderInvs
  <1>2. TakeInv' /\ CarryInv'
    BY TakeStep, CarryStep DEF OrderInvs, RetryInvs
  <1>3. OrderInv'
    BY OrderStep DEF OrderInvs, RetryInvs, KeptInv
  <1>. QED
    BY <1>1, <1>2, <1>3 DEF OrderInvs

LEMMA OrderInvariant ==
    ASSUME Keeps = FALSE, OneTask = TRUE
    PROVE  Spec => [](TypeInv /\ SpotInv /\ KnowInv /\ OrderInvs)
  <1> DEFINE IInv == TypeInv /\ SpotInv /\ KnowInv /\ OrderInvs
  <1>1. Init => IInv
    BY InitTypes, InitSpots, InitKnows, InitOrder
  <1>2. IInv /\ [Next]_vars => IInv'
    BY TypeStep, SpotStep, KnowStep, OrdersStep
  <1>. QED
    BY <1>1, <1>2, PTL DEF Spec

\* The command of a round that is acknowledged is sent before any XACK of the
\* round runs, however flushes overlap, as long as handlers drop their pipelines
\* with their deliveries and the members of a batch are settled by one task.
THEOREM CommandsGoFirst ==
    ASSUME Keeps = FALSE, OneTask = TRUE PROVE Spec => []CommandsBeforeAck
  <1>1. OrderInvs => CommandsBeforeAck
    BY DEF OrderInvs, OrderInv, Cleared, CommandsBeforeAck, AllAck
  <1>. QED
    BY <1>1, OrderInvariant, PTL

-----------------------------------------------------------------------------
(* A window that is counted down to nothing has nothing left in it.        *)

Unsettled == {d \in Ids : stage[d] \in {"buffered", "held"} \cup Settling}
Whole == \A d \in Ids : stage[d] # "gone"

\* What is outstanding is what was read and did not settle, and a window that
\* owes something has something outstanding.
CountInv == Whole => outstanding = Cardinality(Unsettled)
OwnInv   == Whole /\ outstanding = 0 => committed = {} /\ ops = {}
OweInv   == CountInv /\ OwnInv

LEMMA UnsettledFinite ==
    /\ IsFiniteSet(Unsettled) /\ Cardinality(Unsettled) \in Nat
    /\ \A d \in Unsettled : Cardinality(Unsettled) \in Nat \ {0}
  <1>1. MaxRead \in Nat
    BY WindowAssumption
  <1>2. IsFiniteSet(Ids)
    BY <1>1, FS_Interval DEF Ids
  <1>3. IsFiniteSet(Unsettled) /\ Cardinality(Unsettled) \in Nat
    BY <1>2, FS_Subset, FS_CardinalityType DEF Unsettled
  <1>4. ASSUME NEW d \in Unsettled PROVE Cardinality(Unsettled) # 0
    BY <1>3, <1>4, FS_EmptySet
  <1>. QED
    BY <1>3, <1>4

\* What is gone stays gone.
LEMMA WholeBefore == ASSUME TypeInv, [Next]_vars, Whole' PROVE Whole
  <1> SUFFICES ASSUME NEW e \in Ids, stage[e] = "gone" PROVE stage'[e] = "gone"
    BY DEF Whole
  <1>1. stage \in [Ids -> Stage]
    BY DEF TypeInv, StreamInv, StageInv
  <1>2. ASSUME NEW n \in 1..MaxRead, Fetch(n) PROVE stage'[e] = stage[e]
    <2>1. e \notin read + 1 .. read + n
      BY BufferElems DEF TypeInv, StreamInv, StageInv
    <2>. QED
      BY <1>1, <1>2, <2>1 DEF Fetch
  <1>3. ASSUME Discard \/ Stop PROVE stage'[e] = "gone"
    BY <1>1, <1>3 DEF Discard, Stop
  <1>4. ASSUME Yield PROVE stage'[e] = stage[e]
    <2>1. stage' = [d \in Ids |-> IF d \in Out THEN "held" ELSE stage[d]]
      BY <1>4 DEF Yield, Out, Batch
    <2>2. e \notin Out
      BY <1>4, OutTypes DEF TypeInv, Yield
    <2>. QED
      BY <1>1, <2>1, <2>2
  <1>5. ASSUME NEW d \in Ids, NEW v, Close(d, v) PROVE stage'[e] = stage[e]
    BY <1>1, <1>5 DEF Close
  <1>6. ASSUME NEW d \in Ids, Settle(d) \/ CommitFails(d)
        PROVE  stage'[e] = stage[e]
    <2>1. MovesOn(d)
      BY <1>6, SettleMovesOn
    <2>. QED
      BY <1>1, <2>1 DEF MovesOn, Settling
  <1>7. ASSUME NEW d \in Ids, Queue(round[d]) PROVE stage'[e] = stage[e]
    BY <1>7 DEF Queue
  <1>8. ASSUME Still PROVE stage'[e] = stage[e]
    BY <1>8 DEF Still
  <1>. QED
    BY <1>2, <1>3, <1>4, <1>5, <1>6, <1>7, <1>8, NextCases, SendIsStill,
       QuietIsStill

\* A read counts what it brings.
LEMMA FetchCounts ==
    ASSUME TypeInv, CountInv, OwnInv, NEW n \in 1..MaxRead, Fetch(n), Whole
    PROVE  outstanding' = Cardinality(Unsettled)' /\ outstanding' # 0
  <1> DEFINE new == read + 1 .. read + n
  <1>1. /\ read \in Nat /\ n \in Nat \ {0} /\ n <= mount.capacity
        /\ read + n <= MaxRead /\ MaxRead \in Nat /\ outstanding \in Nat
    BY BufferElems, MountTypes
    DEF TypeInv, StreamInv, Fetch, RestTypes, DebtTypes
  <1>2. /\ outstanding' = outstanding + n
        /\ stage' = [d \in Ids |-> IF d \in new THEN "buffered" ELSE stage[d]]
    BY DEF Fetch
  <1>3. IsFiniteSet(new) /\ Cardinality(new) = n /\ new \subseteq Ids
    <2>1. read + 1 \in Int /\ read + n \in Int /\ ~(read + 1 > read + n)
          /\ (read + n) - (read + 1) + 1 = n
      BY <1>1
    <2>. QED
      BY <1>1, <2>1, FS_Interval DEF Ids
  <1>4. \A d \in new : stage[d] = "unread"
    BY <1>1, <1>3 DEF TypeInv, StreamInv, StageInv
  <1> HIDE DEF new
  <1>5. Unsettled' = Unsettled \cup new /\ Unsettled \cap new = {}
    BY <1>2, <1>3, <1>4 DEF Unsettled, Settling
  <1>6. Cardinality(Unsettled') = Cardinality(Unsettled) + n
    <2>1. Cardinality(Unsettled \cup new)
             = Cardinality(Unsettled) + Cardinality(new)
                  - Cardinality(Unsettled \cap new)
      BY <1>3, UnsettledFinite, FS_Union
    <2>2. Cardinality(Unsettled \cap new) = 0
      BY <1>5, FS_EmptySet
    <2>. QED
      BY <1>1, <1>3, <1>5, <2>1, <2>2, UnsettledFinite
  <1>. QED
    BY <1>1, <1>2, <1>6 DEF CountInv

\* A settle that is counted is one less.
LEMMA CountedDown ==
    ASSUME TypeInv, CountInv, Whole, NEW d \in Ids, stage[d] \in Settling,
           outstanding' = Less(outstanding, 1),
           stage' = [stage EXCEPT ![d] = "settled"]
    PROVE  outstanding' = Cardinality(Unsettled)'
  <1>1. stage \in [Ids -> Stage] /\ d \in Unsettled
    BY DEF TypeInv, StreamInv, StageInv, Unsettled
  <1>2. Unsettled' = Unsettled \ {d}
    BY <1>1 DEF Unsettled, Settling
  <1>3. Cardinality(Unsettled') = Cardinality(Unsettled) - 1
    BY <1>1, <1>2, UnsettledFinite, FS_RemoveElement
  <1>4. Cardinality(Unsettled) \in Nat \ {0}
    BY <1>1, UnsettledFinite
  <1>. QED
    BY <1>3, <1>4 DEF CountInv, Less

LEMMA SettleOwes ==
    ASSUME TypeInv, OweInv, NEW d \in Ids, Settle(d) \/ CommitFails(d), Whole
    PROVE  OweInv'
  <1>0. /\ stage[d] \in Settling /\ d \in Unsettled /\ outstanding # 0
        /\ stage \in [Ids -> Stage]
    <2>1. stage[d] \in Settling
      BY SettleMovesOn DEF MovesOn
    <2>2. d \in Unsettled
      BY <2>1 DEF Unsettled
    <2>. QED
      BY <2>1, <2>2, UnsettledFinite
      DEF OweInv, CountInv, TypeInv, StreamInv, StageInv
  <1>1. CASE StageSettle(d) \/ Seal(d) \/ OweSettle(d)
    <2>1. /\ outstanding' = outstanding
          /\ \E x \in {"sealing", "counting"} : stage' = [stage EXCEPT ![d] = x]
      BY <1>1 DEF StageSettle, Seal, OweSettle
    <2>2. Unsettled' = Unsettled
      BY <1>0, <2>1 DEF Unsettled, Settling
    <2>. QED
      BY <1>0, <2>1, <2>2 DEF OweInv, CountInv, OwnInv
  <1>2. ASSUME NEW segs, NEW acks, Counted(d, segs, acks) PROVE OweInv'
    <2>1. /\ outstanding' = Less(outstanding, 1)
          /\ stage' = [stage EXCEPT ![d] = "settled"]
          /\ TakeIf(Due(Less(outstanding, 1)), segs, acks)
      BY <1>2 DEF Counted
    <2>2. outstanding' = 0 => committed' = {} /\ ops' = {}
      BY <2>1 DEF Due, TakeIf
    <2>. QED
      BY <1>0, <2>1, <2>2, CountedDown DEF OweInv, CountInv, OwnInv
  <1>3. CASE Count(d) \/ CommitFails(d)
    BY <1>2, <1>3 DEF Count, CommitFails
  <1>4. CASE Commit(d)
    BY <1>2, <1>4 DEF Commit
  <1>5. CASE Abandon(d)
    <2>1. PICK acks :
              /\ outstanding' = Less(outstanding, 1)
              /\ stage' = [stage EXCEPT ![d] = "settled"]
              /\ TakeIf(Less(outstanding, 1) = 0 /\ (committed # {} \/ acks # {}),
                        committed, acks)
      BY <1>5 DEF Abandon
    <2>2. outstanding' = 0 => committed' = {} /\ ops' = {}
      BY <2>1 DEF TakeIf
    <2>. QED
      BY <1>0, <2>1, <2>2, CountedDown DEF OweInv, CountInv, OwnInv
  <1>. QED
    BY <1>1, <1>3, <1>4, <1>5 DEF Settle

LEMMA OweStep == ASSUME TypeInv, OweInv, [Next]_vars PROVE OweInv'
  <1> SUFFICES ASSUME Whole' PROVE OweInv'
    BY DEF OweInv, CountInv, OwnInv
  <1>1. Whole /\ stage \in [Ids -> Stage]
    BY WholeBefore DEF TypeInv, StreamInv, StageInv
  <1>2. ASSUME Unsettled' = Unsettled,
               UNCHANGED <<outstanding, committed, ops>>
        PROVE  OweInv'
    BY <1>1, <1>2 DEF OweInv, CountInv, OwnInv
  <1>3. ASSUME NEW n \in 1..MaxRead, Fetch(n) PROVE OweInv'
    BY <1>1, <1>3, FetchCounts DEF OweInv, CountInv, OwnInv
  <1>4. ASSUME Yield PROVE OweInv'
    <2>1. stage' = [d \in Ids |-> IF d \in Out THEN "held" ELSE stage[d]]
      BY <1>4 DEF Yield, Out, Batch
    <2>2. \A d \in Out : stage[d] = "buffered"
      BY <1>4, OutTypes DEF TypeInv, Yield
    <2> HIDE DEF Out
    <2>3. Unsettled' = Unsettled
      BY <2>1, <2>2 DEF Unsettled, Settling
    <2>. QED
      BY <1>2, <1>4, <2>3 DEF Yield, owed
  <1>5. ASSUME Discard \/ Stop PROVE OweInv'
    <2>1. stage' = [d \in Ids |-> IF d \in Elems(buffer) THEN "gone"
                                                         ELSE stage[d]]
      BY <1>5 DEF Discard, Stop
    <2>2. Elems(buffer) \subseteq Ids
      BY BufferElems, WindowAssumption DEF TypeInv, Ids
    <2>3. Elems(buffer) = {}
      BY <2>1, <2>2 DEF Whole
    <2>4. buffer = <<>>
      <3>1. Len(buffer) \in Nat /\ DOMAIN buffer = 1..Len(buffer)
        BY LenProperties DEF TypeInv, StreamInv, BufferInv
      <3>2. Len(buffer) = 0
        <4>1. ASSUME Len(buffer) # 0 PROVE FALSE
          <5>1. 1 \in DOMAIN buffer
            BY <3>1, <4>1
          <5>. QED
            BY <2>3, <5>1 DEF Elems
        <4>. QED
          BY <4>1
      <3>. QED
        BY <3>2, EmptySeq DEF TypeInv, StreamInv, BufferInv
    <2>5. stage' = stage
      BY <1>1, <2>1, <2>3
    <2>. QED
      BY <1>2, <1>5, <2>4, <2>5 DEF Discard, Stop, owed, Unsettled
  <1>6. ASSUME NEW d \in Ids, Queue(round[d]) PROVE OweInv'
    BY <1>2, <1>6 DEF Queue, owed, Unsettled
  <1>7. ASSUME NEW d \in Ids, NEW v, Close(d, v) PROVE OweInv'
    <2>1. Unsettled' = Unsettled
      BY <1>1, <1>7 DEF Close, Unsettled, Settling
    <2>. QED
      BY <1>2, <1>7, <2>1 DEF Close, owed
  <1>8. ASSUME NEW d \in Ids, Settle(d) \/ CommitFails(d) PROVE OweInv'
    BY <1>1, <1>8, SettleOwes
  <1>9. CASE Report \/ UNCHANGED vars
    BY <1>2, <1>9 DEF Report, vars, owed, Unsettled
  <1>10. CASE Drain
    BY <1>1, <1>10 DEF Drain, TakeIf, OweInv, CountInv, OwnInv, Unsettled
  <1>11. ASSUME NEW f, Send(f) PROVE OweInv'
    BY <1>2, <1>11
    DEF Send, SendSegments, SendWrites, SendAcks, Unsettled
  <1>. QED
    BY <1>3, <1>4, <1>5, <1>6, <1>7, <1>8, <1>9, <1>10, <1>11, NextCases

LEMMA OweInvariant ==
    ASSUME OneTask = TRUE
    PROVE  Spec => [](TypeInv /\ SpotInv /\ KnowInv /\ RetryInvs /\ OweInv)
  <1>1. Init => OweInv
    <2> SUFFICES ASSUME Init PROVE OweInv
      OBVIOUS
    <2>1. Unsettled = {}
      BY DEF Init, Unsettled, Settling
    <2>. QED
      BY <2>1, FS_EmptySet DEF Init, OweInv, CountInv, OwnInv
  <1>2. TypeInv /\ OweInv /\ [Next]_vars => OweInv'
    BY OweStep
  <1>. QED
    BY <1>1, <1>2, RetryInvariant, PTL DEF Spec

\* Nothing is left behind in a quiet window: with nothing outstanding and no
\* settle on its way, no segment, no settle and no staged settle of a batch
\* waits in it, as long as nothing that was read is discarded or lost unsettled
\* and the members of a batch are settled by one task (StreamForm's counts).
THEOREM SettledWindowIsEmpty ==
    ASSUME OneTask = TRUE PROVE Spec => []SettledWindowOwesNothing
  <1>1. ASSUME TypeInv, RetryInvs, OweInv PROVE SettledWindowOwesNothing
    <2> SUFFICES ASSUME Quiet, Whole PROVE OwesNothing
      BY DEF SettledWindowOwesNothing, Whole
    <2>1. Unsettled = {}
      BY <1>1, UnsettledFinite DEF Quiet, OweInv, CountInv
    <2>2. ASSUME NEW s \in Ids PROVE staged[s] = {}
      BY <1>1, <2>1
      DEF RetryInvs, StagedInv, Members, Unsettled, Settling
    <2>. QED
      BY <1>1, <2>2 DEF OwesNothing, Quiet, OweInv, OwnInv
  <1>. QED
    BY <1>1, OweInvariant, PTL

=============================================================================
