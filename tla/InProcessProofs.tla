-------------------------- MODULE InProcessProofs --------------------------
(***************************************************************************)
(* Proofs about InProcess, for any subscriptions, loads, number of entries *)
(* and length of a test.                                                   *)
(*                                                                         *)
(* TypeInv has the types, and where registered readers can be.  CountInv   *)
(* says that the in-flight count covers all that is counted, wherever it   *)
(* now is.  OwedInv ties the owed entries to the keys.  OnceInv says that  *)
(* an entry is in one place, LinkInv and ClaimInv that what the server     *)
(* takes for due is due.  HeldInv follows the one reader of a delay queue. *)
(* Entries in buffers and in handlers are counted as pairs: a reader and a *)
(* position, a delivery and which of its copies.                           *)
(***************************************************************************)
EXTENDS InProcess, FiniteSetTheorems, SequenceTheorems, TLAPS

-----------------------------------------------------------------------------
(* Types.                                                                  *)

KeysTyped ==
    /\ load \in Loads /\ now \in 0..MaxTime
    /\ last \in 0..MaxEntries /\ cursor \in 0..last /\ live \subseteq 1..last
    /\ DOMAIN pending \subseteq 1..last
    /\ \A i \in DOMAIN pending : pending[i] \in 0..now
    /\ DOMAIN score \subseteq 1..last
    /\ \A m \in DOMAIN score : score[m] \in Times

TrackedTyped ==
    /\ owed \subseteq 1..last /\ claimDue \subseteq 1..last
    /\ linkDue \subseteq 1..last /\ linkHeld \subseteq linkDue
    /\ readds \in Nat /\ timers \subseteq Timer

ReadersTyped ==
    /\ attached \in Seq(Mounted) /\ IsInjective(attached)
    /\ pc \in [Readers -> Stages]
    /\ todo \in [Readers -> SUBSET Ids]
    /\ buffer \in [Readers -> Seq(Ids)]
    /\ moved \in [Readers -> BOOLEAN]
    /\ seek \in [Readers -> {"no", "set", "done"}]

\* What a reader or a handler has, the stream once had.
IdsKnown ==
    /\ \A r \in Readers : \A k \in 1..Len(buffer[r]) : buffer[r][k] <= last
    /\ \A d \in DOMAIN hands : d.id <= last

HandsTyped == IsABag(hands) /\ DOMAIN hands \subseteq Delivery

\* Who is registered is between its attach and its detach.
Here(r) == pc[r] \notin {"out", "gone"}
AttachedInv ==
    /\ \A k \in DOMAIN attached : Here(attached[k])
    /\ \A r \in Readers : Here(r) => \E k \in DOMAIN attached : attached[k] = r

\* Copies on their way have their place among the entries.
Readding == {r \in Readers : pc[r] = "readd"}
RoomInv ==
    /\ IsFiniteSet(Readding)
    /\ last + Cardinality(DOMAIN score) + Cardinality(Readding) <= load.entries

\* What is counted, beside the sets: entries in buffers, and in handlers.
Buffered == {p \in Readers \X Nat : p[2] \in 1..Len(buffer[p[1]])}
Handled  == {p \in Delivery \X Nat :
                p[1] \in DOMAIN hands /\ p[2] \in 1..hands[p[1]]}
Tokens == Cardinality(owed) + Cardinality(linkHeld) + readds
              + Cardinality(Buffered) + Cardinality(Handled)
CountInv ==
    /\ IsFiniteSet(Buffered) /\ IsFiniteSet(Handled)
    /\ count \in Int /\ count >= Tokens

\* The owed entries are there, and none of them is pending.
OwedInv ==
    /\ \A i \in DOMAIN pending : i <= cursor
    /\ OwedIsWhatIsThere

TypeInv == /\ KeysTyped /\ TrackedTyped /\ ReadersTyped /\ HandsTyped
           /\ IdsKnown /\ AttachedInv /\ RoomInv

-----------------------------------------------------------------------------
(* What waits on what.                                                     *)

InBuffers(i) == \E r \in Readers : \E k \in 1..Len(buffer[r]) : buffer[r][k] = i

\* An entry is in one place: in a buffer once, in one handler, or delayed.
Apart ==
    \A r, q \in Readers : \A j \in 1..Len(buffer[r]), k \in 1..Len(buffer[q]) :
        buffer[r][j] = buffer[q][k] => r = q /\ j = k
Passed ==
    \A r \in Readers : \A k \in 1..Len(buffer[r]) : buffer[r][k] <= cursor
HeldOnce ==
    \A d \in DOMAIN hands : d.stage = "held" =>
        /\ hands[d] = 1 /\ d.id <= cursor /\ d.id \notin DOMAIN score
        /\ ~InBuffers(d.id)
ScoredOnce == \A m \in DOMAIN score : m <= cursor /\ ~InBuffers(m)
OnceInv == Apart /\ Passed /\ HeldOnce /\ ScoredOnce

\* What the server takes for due is due.
LinkInv == linkDue \subseteq {m \in DOMAIN score : score[m] <= now}
ClaimInv == claimDue \subseteq Idle /\ live = 1..last

\* One subscription of a delay queue: nothing before it came, and once it is
\* here each member is held or timed, and a copy on its way is counted or a
\* new entry is.
IdleBefore(r) == pc[r] = "out" =>
    /\ DOMAIN score = {} /\ DOMAIN hands = {} /\ linkDue = {}
HeldInv(r) == Here(r) =>
    /\ \A m \in DOMAIN score :
          \/ score[m] <= now /\ m \in linkHeld
          \/ score[m] > now /\ [of |-> "link", id |-> m, at |-> score[m]] \in timers
    /\ linkDue \subseteq linkHeld /\ linkHeld \subseteq DOMAIN score
    /\ pc[r] \in {"sweep", "readd"} => todo[r] \subseteq linkHeld
    /\ pc[r] = "readd" => readds > 0 \/ New # {}

-----------------------------------------------------------------------------
(* Facts about sets, sequences and bags.                                   *)

\* A collection of subsets of a finite set has one with no smaller in it.
Smallest(U, T) == U \in T /\ \A V \in T : V \subseteq U => V = U
LEMMA SmallestExists ==
    ASSUME NEW S, IsFiniteSet(S), NEW T \in SUBSET SUBSET S, T # {}
    PROVE  \E U : Smallest(U, T)
  <1>1. FiniteSubsetsOf(S) = SUBSET S
    BY FS_FiniteSubsetsOfFinite
  <1>2. IsWellFoundedOn(StrictSubsetOrdering(S), FiniteSubsetsOf(S))
    BY FS_StrictSubsetOrderingWellFounded
  <1>3. IsWellFoundedOn(StrictSubsetOrdering(S), SUBSET S)
    BY <1>1, <1>2
  <1>4. PICK U \in T : \A V \in T : ~(<<V, U>> \in StrictSubsetOrdering(S))
    BY <1>3, WFMin
  <1>5. ASSUME NEW V \in T, V \subseteq U PROVE V = U
    <2>1. V \in SUBSET S /\ U \in SUBSET S
      BY <1>4, <1>5
    <2>. QED
      BY <2>1, <1>4, <1>5 DEF StrictSubsetOrdering
  <1>. QED
    BY <1>5 DEF Smallest

LEMMA LargestExists ==
    ASSUME NEW S, IsFiniteSet(S), S \subseteq Nat, S # {}
    PROVE  \E x \in S : \A y \in S : x >= y
  <1>. DEFINE Bad == {U \in SUBSET S :
                         U # {} /\ ~\E x \in U : \A y \in U : x >= y}
  <1>1. Bad = {}
    <2>1. SUFFICES ASSUME Bad # {} PROVE FALSE
      OBVIOUS
    <2>0. Bad \subseteq SUBSET S
      OBVIOUS
    <2>. HIDE DEF Bad
    <2>2. PICK U : Smallest(U, Bad)
      BY <2>0, <2>1, SmallestExists
    <2>. USE DEF Bad
    <2>u. U \in Bad /\ \A V \in Bad : V \subseteq U => V = U
      BY <2>2 DEF Smallest
    <2>3. U \in Bad /\ U \subseteq S
      BY <2>u
    <2>4. PICK x \in U : TRUE
      BY <2>3
    <2>5. U \ {x} # {}
      BY <2>3, <2>4
    <2>6. U \ {x} \notin Bad
      BY <2>u, <2>3, <2>4
    <2>7. PICK z \in U \ {x} : \A y \in U \ {x} : z >= y
      BY <2>3, <2>5, <2>6
    <2>8. x \in Nat /\ z \in Nat /\ \A y \in U : y \in Nat
      BY <2>3, <2>4, <2>7
    <2>9. CASE x >= z
      <3>1. \A y \in U : x >= y
        BY <2>7, <2>8, <2>9
      <3>. QED
        BY <3>1, <2>3, <2>4
    <2>10. CASE z >= x
      <3>1. \A y \in U : z >= y
        BY <2>7, <2>8, <2>10
      <3>. QED
        BY <3>1, <2>3, <2>7
    <2>. QED
      BY <2>8, <2>9, <2>10
  <1>. QED
    BY <1>1

LEMMA MaxIsLargest ==
    ASSUME NEW S, IsFiniteSet(S), S \subseteq Nat, S # {}
    PROVE  Max(S) \in S /\ \A y \in S : Max(S) >= y
  BY LargestExists DEF Max

Sorted(seq, S) ==
    /\ seq \in [1..Cardinality(S) -> S]
    /\ \A j, k \in DOMAIN seq : j < k => seq[j] < seq[k]

LEMMA SortExists ==
    ASSUME NEW S, IsFiniteSet(S), S \subseteq Nat
    PROVE  \E seq : Sorted(seq, S)
  <1>. DEFINE Bad == {U \in SUBSET S : ~\E seq : Sorted(seq, U)}
  <1>1. Bad = {}
    <2>1. SUFFICES ASSUME Bad # {} PROVE FALSE
      OBVIOUS
    <2>0. Bad \subseteq SUBSET S
      OBVIOUS
    <2>. HIDE DEF Bad
    <2>2. PICK U : Smallest(U, Bad)
      BY <2>0, <2>1, SmallestExists
    <2>. USE DEF Bad
    <2>u. U \in Bad /\ \A V \in Bad : V \subseteq U => V = U
      BY <2>2 DEF Smallest
    <2>3. U \in Bad /\ U \subseteq S
      BY <2>u
    <2>4. U # {}
      <3>1. SUFFICES ASSUME U = {} PROVE FALSE
        OBVIOUS
      <3>2. Cardinality(U) = 0
        BY <3>1, FS_EmptySet
      <3>3. Sorted([x \in 1..0 |-> x], U)
        BY <3>2 DEF Sorted
      <3>. QED
        BY <3>3, <2>3
    <2>5. IsFiniteSet(U) /\ U \subseteq Nat
      BY <2>3, FS_Subset
    <2>6. PICK m \in U : \A y \in U : m >= y
      BY <2>4, <2>5, LargestExists
    <2>7. U \ {m} \notin Bad
      BY <2>u, <2>3, <2>6
    <2>8. PICK seq : Sorted(seq, U \ {m})
      BY <2>3, <2>7
    <2>. DEFINE n == Cardinality(U \ {m})
    <2>9. n \in Nat /\ Cardinality(U) = n + 1
      <3>1. Cardinality(U) \in Nat
        BY <2>5, FS_CardinalityType
      <3>2. IsFiniteSet(U \ {m}) /\ Cardinality(U \ {m}) = Cardinality(U) - 1
        BY <2>5, <2>6, FS_RemoveElement
      <3>3. Cardinality(U \ {m}) \in Nat
        BY <3>2, FS_CardinalityType
      <3>. QED
        BY <3>1, <3>2, <3>3
    <2>10. seq \in [1..n -> U \ {m}]
      BY <2>8 DEF Sorted
    <2>11. \A j, k \in 1..n : j < k => seq[j] < seq[k]
      BY <2>8, <2>10 DEF Sorted
    <2>. HIDE DEF n
    <2>. DEFINE all == [k \in 1..(n + 1) |-> IF k = n + 1 THEN m ELSE seq[k]]
    <2>12. ASSUME NEW k \in 1..n PROVE seq[k] \in U /\ seq[k] < m
      <3>1. seq[k] \in U \ {m}
        BY <2>10
      <3>2. m >= seq[k] /\ m \in Nat /\ seq[k] \in Nat
        BY <3>1, <2>5, <2>6
      <3>. QED
        BY <3>1, <3>2
    <2>13. all \in [1..(n + 1) -> U]
      BY <2>9, <2>12, <2>6
    <2>14. ASSUME NEW j \in 1..(n + 1), NEW k \in 1..(n + 1), j < k
           PROVE  all[j] < all[k]
      <3>1. j \in 1..n /\ j # n + 1
        BY <2>14, <2>9
      <3>2. CASE k = n + 1
        BY <3>1, <3>2, <2>12, <2>9
      <3>3. CASE k # n + 1
        BY <3>1, <3>3, <2>14, <2>11, <2>9
      <3>. QED
        BY <3>2, <3>3
    <2>15. Sorted(all, U)
      BY <2>13, <2>14, <2>9 DEF Sorted
    <2>. QED
      BY <2>15, <2>3
  <1>. QED
    BY <1>1

LEMMA InOrderSorts ==
    ASSUME NEW S, IsFiniteSet(S), S \subseteq Nat
    PROVE  /\ InOrder(S) \in Seq(S)
           /\ Len(InOrder(S)) = Cardinality(S)
           /\ \A j, k \in 1..Cardinality(S) :
                 j < k => InOrder(S)[j] < InOrder(S)[k]
  <1>1. PICK seq : Sorted(seq, S)
    BY SortExists
  <1>2. InOrder(S) \in [1..Cardinality(S) -> S]
        /\ \A j, k \in DOMAIN InOrder(S) :
              j < k => InOrder(S)[j] < InOrder(S)[k]
    BY <1>1 DEF Sorted, InOrder
  <1>3. Cardinality(S) \in Nat
    BY FS_CardinalityType
  <1>4. InOrder(S) \in Seq(S)
    BY <1>2, <1>3, SeqDef
  <1>. QED
    BY <1>2, <1>3, <1>4, LenProperties

LEMMA Added ==
    ASSUME NEW B, IsABag(B), NEW x
    PROVE  /\ IsABag(B (+) Lone(x))
           /\ DOMAIN (B (+) Lone(x)) = DOMAIN B \cup {x}
           /\ (B (+) Lone(x))[x] = IF x \in DOMAIN B THEN B[x] + 1 ELSE 1
           /\ \A e \in DOMAIN B : e # x => (B (+) Lone(x))[e] = B[e]
  BY DEF IsABag, Lone, SetToBag, (+)

LEMMA Removed ==
    ASSUME NEW B, IsABag(B), NEW x, x \in DOMAIN B
    PROVE  /\ IsABag(B (-) Lone(x))
           /\ DOMAIN (B (-) Lone(x)) =
                 IF B[x] = 1 THEN DOMAIN B \ {x} ELSE DOMAIN B
           /\ B[x] # 1 => (B (-) Lone(x))[x] = B[x] - 1
           /\ \A e \in DOMAIN B : e # x => (B (-) Lone(x))[e] = B[e]
  BY DEF IsABag, Lone, SetToBag, (-)

\* The actions of Next, as the proofs below split them.
LEMMA NextCases ==
    ASSUME [Next]_vars
    PROVE  \/ Tick \/ Publish \/ \E i \in live : Delete(i)
           \/ \E r \in Readers : \/ Attach(r) \/ Detach(r) \/ Bump(r)
                                 \/ Wake(r) \/ List(r) \/ Readd(r) \/ Read(r)
                                 \/ Accept(r) \/ Yield(r)
           \/ \E r \in Readers : \E m \in todo[r] : Claim(r, m)
           \/ \E r \in Readers, p \in load.positions : SetId(r, p)
           \/ \E d \in DOMAIN hands :
                 Ack(d) \/ Requeue(d) \/ Schedule(d) \/ Leave(d)
           \/ UNCHANGED vars
  BY DEF Next, Fetch, Settle, BagToSet

LEMMA LoadTypes ==
    ASSUME load \in Loads
    PROVE  /\ load.entries \in 0..MaxEntries
           /\ MaxEntries \in Nat /\ MaxTime \in Nat
           /\ Mounted \subseteq Readers
           /\ load.positions \subseteq {"beginning", "end"}
  <1>1. load \in Load /\ MaxEntries \in Nat /\ MaxTime \in Nat
    BY InProcessAssumption
  <1>2. load.mode \in UNION {[R -> {"fresh", "claiming", "reclaim"}] :
                               R \in SUBSET Readers}
    BY <1>1 DEF Load
  <1>3. Mounted \subseteq Readers
    BY <1>2 DEF Mounted
  <1>. QED
    BY <1>1, <1>3 DEF Load

\* The load is chosen once.
LEMMA SameLoad == ASSUME [Next]_vars PROVE load' = load
  BY DEF Next, Tick, Publish, Delete, Attach, Detach, Bump, Fetch, Wake, List,
         Readd, Read, Accept, Yield, Claim, SetId, Settle, Ack, Requeue,
         Schedule, Leave, vars

-----------------------------------------------------------------------------
(* Room.                                                                   *)

LEMMA Counts ==
    ASSUME KeysTyped, RoomInv
    PROVE  /\ IsFiniteSet(DOMAIN score)
           /\ Cardinality(DOMAIN score) \in Nat
           /\ Cardinality(Readding) \in Nat
           /\ last \in Nat /\ load.entries \in Nat
           /\ load.entries <= MaxEntries /\ MaxEntries \in Nat
  <1>1. load.entries \in 0..MaxEntries /\ MaxEntries \in Nat
    BY LoadTypes DEF KeysTyped
  <1>2. last \in Nat /\ DOMAIN score \subseteq 1..last
    BY <1>1 DEF KeysTyped
  <1>3. IsFiniteSet(DOMAIN score)
    <2>1. IsFiniteSet(1..last)
      BY <1>2, FS_Interval
    <2>. QED
      BY <2>1, <1>2, FS_Subset
  <1>. QED
    BY <1>1, <1>2, <1>3, FS_CardinalityType DEF RoomInv

LEMMA RoomStep ==
    ASSUME TypeInv, [Next]_vars PROVE RoomInv' /\ last' \in 0..MaxEntries
  <1>. USE DEF TypeInv
  <1>l. load' = load
    BY SameLoad
  <1>c. /\ IsFiniteSet(DOMAIN score) /\ IsFiniteSet(Readding)
        /\ Cardinality(DOMAIN score) \in Nat
        /\ Cardinality(Readding) \in Nat
        /\ last \in Nat /\ load.entries \in Nat
        /\ load.entries <= MaxEntries /\ MaxEntries \in Nat
        /\ last + Cardinality(DOMAIN score) + Cardinality(Readding)
              <= load.entries
    BY Counts DEF RoomInv
  <1>. HIDE DEF TypeInv
  <1>p. pc \in [Readers -> Stages]
    BY DEF TypeInv, ReadersTyped
  <1>. DEFINE Goal == RoomInv' /\ last' \in 0..MaxEntries
  <1>0. ASSUME last' = last, score' = score, Readding' = Readding PROVE Goal
    BY <1>0, <1>c, <1>l DEF RoomInv
  <1>1. ASSUME Room, Xadd, score' = score, pc' = pc PROVE Goal
    <2>1. last' = last + 1 /\ Readding' = Readding
      BY <1>1 DEF Xadd, Readding
    <2>2. last + Cardinality(DOMAIN score) + Cardinality(Readding)
            < load.entries
      BY <1>1 DEF Room, Readding
    <2>. QED
      BY <2>1, <2>2, <1>1, <1>c, <1>l DEF RoomInv
  <1>2. CASE Tick
    BY <1>2, <1>0 DEF Tick, stream, reading, Readding
  <1>3. CASE Publish
    BY <1>3, <1>1 DEF Publish, reading
  <1>4. ASSUME NEW i \in live, Delete(i) PROVE Goal
    BY <1>4, <1>0 DEF Delete, reading, Readding
  <1>5. ASSUME NEW r \in Readers, Attach(r) PROVE Goal
    <2>1. Readding' = Readding
      BY <1>5, <1>p DEF Attach, Stages, Readding
    <2>. QED
      BY <2>1, <1>5, <1>0 DEF Attach, stream
  <1>6. ASSUME NEW r \in Readers, Detach(r) PROVE Goal
    <2>1. Readding' = Readding \ {r}
      BY <1>6, <1>p DEF Detach, Stages, Readding
    <2>2. /\ IsFiniteSet(Readding') /\ Cardinality(Readding') \in Nat
          /\ Cardinality(Readding') <= Cardinality(Readding)
      BY <2>1, <1>c, FS_Subset, FS_CardinalityType
    <2>. QED
      BY <2>2, <1>6, <1>c, <1>l DEF Detach, stream, RoomInv
  <1>7. ASSUME NEW r \in Readers, Bump(r) PROVE Goal
    BY <1>7, <1>0 DEF Bump, stream, Readding
  <1>8. ASSUME NEW r \in Readers, Wake(r) \/ List(r) \/ Read(r) \/ Accept(r)
        PROVE  Goal
    <2>1. Readding' = Readding
      BY <1>8, <1>p DEF Wake, List, Read, Accept, To, Swept, Stages, Readding
    <2>. QED
      BY <2>1, <1>8, <1>0 DEF Wake, List, Read, Accept, stream
  <1>9. ASSUME NEW r \in Readers, Readd(r) PROVE Goal
    <2>1. Readding' = Readding \ {r} /\ r \in Readding
      BY <1>9, <1>p DEF Readd, To, Swept, Stages, Readding
    <2>2. /\ IsFiniteSet(Readding')
          /\ Cardinality(Readding') = Cardinality(Readding) - 1
      BY <2>1, <1>c, FS_RemoveElement
    <2>3. last' = last + 1 /\ score' = score
      BY <1>9 DEF Readd, Xadd
    <2>4. Cardinality(Readding') \in Nat
      BY <2>2, FS_CardinalityType
    <2>. QED
      BY <2>2, <2>3, <2>4, <1>c, <1>l DEF RoomInv
  <1>10. ASSUME NEW r \in Readers, Yield(r) PROVE Goal
    BY <1>10, <1>0 DEF Yield, stream, Readding
  <1>11. ASSUME NEW r \in Readers, NEW m \in todo[r], Claim(r, m) PROVE Goal
    <2>1. CASE m \in DOMAIN score
      <3>1. /\ DOMAIN score' = DOMAIN score \ {m} /\ last' = last
            /\ Readding' = Readding \cup {r} /\ r \notin Readding
        BY <1>11, <2>1, <1>p
        DEF Claim, Only, To, Readding, Stages, stream
      <3>2. Cardinality(DOMAIN score') = Cardinality(DOMAIN score) - 1
        BY <3>1, <2>1, <1>c, FS_RemoveElement
      <3>3. /\ IsFiniteSet(Readding')
            /\ Cardinality(Readding') = Cardinality(Readding) + 1
        BY <3>1, <1>c, FS_AddElement
      <3>. QED
        BY <3>1, <3>2, <3>3, <1>c, <1>l DEF RoomInv
    <2>2. CASE m \notin DOMAIN score
      <3>1. Readding' = Readding
        BY <1>11, <2>2, <1>p DEF Claim, To, Swept, Readding, Stages
      <3>. QED
        BY <3>1, <1>11, <2>2, <1>0 DEF Claim, stream
    <2>. QED
      BY <2>1, <2>2
  <1>12. ASSUME NEW r \in Readers, NEW p \in load.positions, SetId(r, p)
         PROVE  Goal
    BY <1>12, <1>0 DEF SetId, reading, Readding
  <1>13. ASSUME NEW d \in DOMAIN hands, Ack(d) \/ Leave(d) PROVE Goal
    BY <1>13, <1>0 DEF Ack, Leave, stream, reading, Readding
  <1>14. ASSUME NEW d \in DOMAIN hands, Requeue(d) PROVE Goal
    BY <1>14, <1>1 DEF Requeue, reading
  <1>15. ASSUME NEW d \in DOMAIN hands, Schedule(d) PROVE Goal
    <2>1. /\ DOMAIN score' = DOMAIN score \cup {d.id} /\ last' = last
          /\ Readding' = Readding
      BY <1>15 DEF Schedule, stream, reading, Readding
    <2>2. last + Cardinality(DOMAIN score) + Cardinality(Readding)
            < load.entries
      BY <1>15 DEF Schedule, Room, Readding
    <2>3. Cardinality(DOMAIN score') <= Cardinality(DOMAIN score) + 1
          /\ Cardinality(DOMAIN score') \in Nat
      <3>1. /\ IsFiniteSet(DOMAIN score')
            /\ Cardinality(DOMAIN score') =
                  IF d.id \in DOMAIN score THEN Cardinality(DOMAIN score)
                                          ELSE Cardinality(DOMAIN score) + 1
        BY <2>1, <1>c, FS_AddElement
      <3>. QED
        BY <3>1, <1>c
    <2>. QED
      BY <2>1, <2>2, <2>3, <1>c, <1>l DEF RoomInv
  <1>16. CASE UNCHANGED vars
    BY <1>16, <1>0 DEF vars, stream, reading, Readding
  <1>. QED
    BY NextCases, <1>2, <1>3, <1>4, <1>5, <1>6, <1>7, <1>8, <1>9, <1>10,
       <1>11, <1>12, <1>13, <1>14, <1>15, <1>16

\* What a read takes: idle entries, those of them that are left, new ones.
Stale(r)   == IF Claims(r) THEN Idle ELSE {}
Claimed(r) == Stale(r) \cap live
Taken(r)   == IF Leads(r) THEN New ELSE {}
Out(r)     == Claimed(r) \cup Taken(r)

LEMMA ReadParts ==
    ASSUME NEW r, Read(r)
    PROVE  /\ pc[r] = "read"
           /\ pending' = [i \in (DOMAIN pending \ Stale(r)) \cup Out(r) |->
                             IF i \in Out(r) THEN now ELSE pending[i]]
           /\ cursor' = IF Taken(r) = {} THEN cursor ELSE Max(Taken(r))
           /\ buffer' = [buffer EXCEPT ![r] =
                            InOrder(Claimed(r)) \o InOrder(Taken(r))]
           /\ claimDue' = claimDue \ Out(r)
           /\ owed' = owed \ Out(r)
           /\ count' = count + Len(buffer'[r]) - Cardinality(Out(r) \cap owed)
           /\ timers' = timers \cup
                 {[of |-> "claim", id |-> i, at |-> now] :
                     i \in IF AnyClaims(attached) THEN Out(r) ELSE {}}
           /\ To(r, "answered")
           /\ UNCHANGED <<load, now, last, live, score, attached, linkDue,
                          linkHeld, readds, todo, seek, hands>>
  BY DEF Read, Stale, Claimed, Taken, Out, WasOwed

LEMMA OutTypes ==
    ASSUME KeysTyped, NEW r
    PROVE  /\ Taken(r) \subseteq New /\ New \subseteq 1..last
           /\ Claimed(r) \subseteq DOMAIN pending
           /\ Claimed(r) \subseteq live /\ New \subseteq live
           /\ Out(r) \subseteq 1..last
           /\ last \in Nat /\ cursor \in 0..last
           /\ IsFiniteSet(Taken(r)) /\ IsFiniteSet(Claimed(r))
           /\ IsFiniteSet(Out(r))
           /\ Taken(r) # {} =>
                 /\ Max(Taken(r)) \in Taken(r)
                 /\ \A i \in Taken(r) : i <= Max(Taken(r))
  <1>1. last \in Nat /\ cursor \in 0..last /\ live \subseteq 1..last
    BY InProcessAssumption DEF KeysTyped
  <1>2. /\ Taken(r) \subseteq New /\ New \subseteq live
        /\ Claimed(r) \subseteq DOMAIN pending /\ Claimed(r) \subseteq live
    BY DEF Taken, New, Claimed, Stale, Idle
  <1>3. IsFiniteSet(1..last)
    BY <1>1, FS_Interval
  <1>4. /\ IsFiniteSet(Taken(r)) /\ IsFiniteSet(Claimed(r))
        /\ Out(r) \subseteq 1..last /\ IsFiniteSet(Out(r))
    <2>1. Taken(r) \subseteq 1..last /\ Claimed(r) \subseteq 1..last
      BY <1>1, <1>2
    <2>2. Out(r) \subseteq 1..last
      BY <2>1 DEF Out
    <2>3. IsFiniteSet(Taken(r))
      BY <2>1, <1>3, FS_Subset
    <2>4. IsFiniteSet(Claimed(r))
      BY <2>1, <1>3, FS_Subset
    <2>5. IsFiniteSet(Out(r))
      BY <2>2, <1>3, FS_Subset
    <2>. QED
      BY <2>2, <2>3, <2>4, <2>5
  <1>5. Taken(r) \subseteq Nat
    <2>1. Taken(r) \subseteq 1..last
      BY <1>1, <1>2
    <2>2. 1..last \subseteq Nat
      BY <1>1
    <2>. QED
      BY <2>1, <2>2
  <1>6. Taken(r) # {} => /\ Max(Taken(r)) \in Taken(r)
                         /\ \A i \in Taken(r) : Max(Taken(r)) >= i
    BY <1>4, <1>5, MaxIsLargest
  <1>7. Taken(r) # {} => \A i \in Taken(r) : i <= Max(Taken(r))
    BY <1>5, <1>6
  <1>. QED
    BY <1>1, <1>2, <1>4, <1>6, <1>7

LEMMA KeysStep ==
    ASSUME TypeInv, [Next]_vars PROVE KeysTyped' /\ last <= last'
  <1>. DEFINE Goal == KeysTyped' /\ last <= last'
  <1>l. load' = load /\ last' \in 0..MaxEntries
    BY SameLoad, RoomStep
  <1>m. MaxEntries \in Nat /\ MaxTime \in Nat
    BY InProcessAssumption
  <1>k. KeysTyped
    BY DEF TypeInv
  <1>n. last \in Nat /\ now \in Nat /\ cursor \in Nat
    BY <1>k, <1>m DEF KeysTyped
  <1>0. ASSUME UNCHANGED <<now, last, cursor, live, pending, score>>
        PROVE  Goal
    BY <1>0, <1>k, <1>l, <1>n DEF KeysTyped
  <1>1. ASSUME Xadd, UNCHANGED <<now, score>> PROVE Goal
    <2>1. last' = last + 1 /\ live' = live \cup {last + 1}
          /\ cursor' = cursor /\ pending' = pending
      BY <1>1 DEF Xadd
    <2>2. 1..last \subseteq 1..last' /\ 0..last \subseteq 0..last'
      BY <2>1, <1>n
    <2>3. live' \subseteq 1..last'
      BY <2>1, <1>k, <1>n DEF KeysTyped
    <2>4. /\ DOMAIN pending' \subseteq 1..last'
          /\ \A i \in DOMAIN pending' : pending'[i] \in 0..now'
          /\ DOMAIN score' \subseteq 1..last'
          /\ \A m \in DOMAIN score' : score'[m] \in Times
      BY <2>1, <2>2, <1>1, <1>k DEF KeysTyped
    <2>. QED
      BY <2>1, <2>2, <2>3, <2>4, <1>1, <1>k, <1>l, <1>n DEF KeysTyped
  <1>2. CASE Tick
    <2>1. now' = now + 1 /\ now' \in 0..MaxTime
          /\ UNCHANGED <<last, cursor, live, pending, score>>
      BY <1>2, <1>k, <1>m DEF Tick, stream, KeysTyped
    <2>2. \A i \in DOMAIN pending : pending[i] \in 0..now'
      BY <2>1, <1>k, <1>n DEF KeysTyped
    <2>. QED
      BY <2>1, <2>2, <1>k, <1>l, <1>n DEF KeysTyped
  <1>3. CASE Publish
    BY <1>3, <1>1 DEF Publish
  <1>4. ASSUME NEW i \in live, Delete(i) PROVE Goal
    BY <1>4, <1>k, <1>l, <1>n DEF Delete, KeysTyped
  <1>5. ASSUME NEW r \in Readers,
               \/ Attach(r) \/ Detach(r) \/ Bump(r) \/ Wake(r) \/ List(r)
               \/ Accept(r) \/ Yield(r)
        PROVE  Goal
    BY <1>5, <1>0 DEF Attach, Detach, Bump, Wake, List, Accept, Yield, stream
  <1>6. ASSUME NEW r \in Readers, Readd(r) PROVE Goal
    BY <1>6, <1>1 DEF Readd
  <1>7. ASSUME NEW r \in Readers, Read(r) PROVE Goal
    <2>1. UNCHANGED <<load, now, last, live, score>>
      BY <1>7, ReadParts
    <2>2. cursor' \in 0..last
      <3>1. CASE Taken(r) = {}
        BY <3>1, <1>7, <1>k, ReadParts DEF KeysTyped
      <3>2. CASE Taken(r) # {}
        <4>1. cursor' = Max(Taken(r)) /\ Max(Taken(r)) \in Taken(r)
          BY <3>2, <1>7, <1>k, ReadParts, OutTypes
        <4>2. Taken(r) \subseteq 1..last
          BY <1>k, OutTypes
        <4>. QED
          BY <4>1, <4>2, <1>n
      <3>. QED
        BY <3>1, <3>2
    <2>3. /\ DOMAIN pending' = (DOMAIN pending \ Stale(r)) \cup Out(r)
          /\ \A i \in DOMAIN pending' :
                pending'[i] = IF i \in Out(r) THEN now ELSE pending[i]
      <3>1. pending' = [i \in (DOMAIN pending \ Stale(r)) \cup Out(r) |->
                           IF i \in Out(r) THEN now ELSE pending[i]]
        BY <1>7, ReadParts
      <3>. QED
        BY <3>1
    <2>4. DOMAIN pending' \subseteq 1..last
      BY <2>3, <1>k, OutTypes DEF KeysTyped
    <2>5. \A i \in DOMAIN pending' : pending'[i] \in 0..now
      BY <2>3, <1>k, <1>n DEF KeysTyped
    <2>. QED
      BY <2>1, <2>2, <2>4, <2>5, <1>k, <1>l, <1>n DEF KeysTyped
  <1>8. ASSUME NEW r \in Readers, NEW m \in todo[r], Claim(r, m) PROVE Goal
    <2>1. UNCHANGED <<now, last, cursor, live, pending>>
      BY <1>8 DEF Claim, stream
    <2>2. CASE m \in DOMAIN score
      BY <2>1, <2>2, <1>8, <1>k, <1>l, <1>n DEF Claim, Only, KeysTyped
    <2>3. CASE m \notin DOMAIN score
      BY <2>1, <2>3, <1>8, <1>0 DEF Claim
    <2>. QED
      BY <2>2, <2>3
  <1>9. ASSUME NEW r \in Readers, NEW p \in load.positions, SetId(r, p)
        PROVE  Goal
    <2>1. UNCHANGED <<now, last, live, pending, score>>
          /\ cursor' \in {0, last}
      BY <1>9 DEF SetId
    <2>. QED
      BY <2>1, <1>k, <1>l, <1>n DEF KeysTyped
  <1>10. ASSUME NEW d \in DOMAIN hands, Ack(d) PROVE Goal
    <2>1. UNCHANGED <<now, last, cursor, live, score>>
      BY <1>10 DEF Ack
    <2>2. CASE d.id \in DOMAIN pending
      <3>1. pending' = [x \in DOMAIN pending \ {d.id} |-> pending[x]]
        BY <1>10, <2>2 DEF Ack, Only
      <3>. QED
        BY <3>1, <2>1, <1>k, <1>l, <1>n DEF KeysTyped
    <2>3. CASE d.id \notin DOMAIN pending
      BY <2>1, <2>3, <1>10, <1>0 DEF Ack
    <2>. QED
      BY <2>2, <2>3
  <1>11. ASSUME NEW d \in DOMAIN hands, Requeue(d) PROVE Goal
    BY <1>11, <1>1 DEF Requeue
  <1>12. ASSUME NEW d \in DOMAIN hands, Schedule(d) PROVE Goal
    <2>1. UNCHANGED <<now, last, cursor, live, pending>>
      BY <1>12 DEF Schedule, stream
    <2>2. score' = [m \in DOMAIN score \cup {d.id} |->
                      IF m = d.id THEN now + 1 ELSE score[m]]
      BY <1>12 DEF Schedule
    <2>3. d.id \in 1..last
      BY <1>n DEF TypeInv, HandsTyped, IdsKnown, Delivery, Ids
    <2>4. now + 1 \in Times
      BY <1>k, <1>m DEF KeysTyped, Times
    <2>. QED
      BY <2>1, <2>2, <2>3, <2>4, <1>k, <1>l, <1>n DEF KeysTyped
  <1>13. ASSUME NEW d \in DOMAIN hands, Leave(d) PROVE Goal
    BY <1>13, <1>0 DEF Leave, stream
  <1>14. CASE UNCHANGED vars
    BY <1>14, <1>0 DEF vars, stream
  <1>. QED
    BY NextCases, <1>2, <1>3, <1>4, <1>5, <1>6, <1>7, <1>8, <1>9, <1>10,
       <1>11, <1>12, <1>13, <1>14

LEMMA Due1 ==
    ASSUME NEW of, NEW f, NEW wait PROVE Due(of, f, wait) \subseteq DOMAIN f
  BY DEF Due

LEMMA TrackedStep ==
    ASSUME TypeInv, [Next]_vars PROVE TrackedTyped'
  <1>l. load' = load /\ last' \in 0..MaxEntries /\ last <= last'
    BY SameLoad, RoomStep, KeysStep
  <1>m. MaxEntries \in Nat /\ MaxTime \in Nat
    BY InProcessAssumption
  <1>k. KeysTyped /\ KeysTyped' /\ TrackedTyped
    BY KeysStep DEF TypeInv
  <1>n. last \in Nat /\ last' \in Nat /\ now \in 0..MaxTime
    BY <1>k, <1>l, <1>m DEF KeysTyped
  <1>s. 1..last \subseteq 1..last' /\ 1..last \subseteq Ids
    BY <1>n, <1>l, <1>k, <1>m DEF Ids, KeysTyped
  <1>w. ASSUME Recount, claimDue' \subseteq 1..last'
        PROVE  owed' \subseteq 1..last'
    BY <1>w, <1>k DEF Recount, Recounted, Wanted, KeysTyped
  <1>t. ASSUME NEW S \in SUBSET Ids, NEW at \in [S -> 0..MaxTime]
        PROVE  {[of |-> "claim", id |-> i, at |-> at[i]] : i \in S}
                  \subseteq Timer
    BY <1>m DEF Timer, Times
  <1>0. ASSUME UNCHANGED <<owed, claimDue, linkDue, linkHeld, readds, timers>>
        PROVE  TrackedTyped'
    BY <1>0, <1>k, <1>s DEF TrackedTyped
  <1>1. ASSUME Xadd, UNCHANGED <<claimDue, linkDue, linkHeld, timers>>
        PROVE  TrackedTyped'
    <2>1. owed' \subseteq 1..last'
      BY <1>1, <1>k, <1>s, <1>n DEF Xadd, TrackedTyped
    <2>2. readds' \in Nat
      BY <1>1, <1>k DEF Xadd, TrackedTyped, One
    <2>. QED
      BY <2>1, <2>2, <1>1, <1>k, <1>s DEF TrackedTyped
  <1>2. CASE Tick
    <2>. DEFINE idle == Due("claim", pending, 1)
                ripe == Due("link", score, 0)
    <2>1. idle \subseteq 1..last /\ ripe \subseteq 1..last
      BY <1>k, Due1 DEF KeysTyped
    <2>. HIDE DEF idle, ripe
    <2>2. /\ claimDue' = claimDue \cup idle
          /\ owed' \subseteq owed \cup idle
          /\ linkDue' = linkDue \cup ripe
          /\ linkHeld' \subseteq linkHeld \cup ripe
          /\ timers' \subseteq timers /\ readds' = readds /\ last' = last
      BY <1>2 DEF Tick, idle, ripe, stream
    <2>. QED
      BY <2>1, <2>2, <1>k DEF TrackedTyped
  <1>3. CASE Publish
    BY <1>3, <1>1 DEF Publish
  <1>4. ASSUME NEW i \in live, Delete(i) PROVE TrackedTyped'
    <2>1. claimDue' \subseteq 1..last'
      BY <1>4, <1>k DEF Delete, TrackedTyped
    <2>. QED
      BY <2>1, <1>4, <1>k, <1>w DEF Delete, TrackedTyped
  <1>5. ASSUME NEW r \in Readers, Attach(r) PROVE TrackedTyped'
    <2>1. claimDue' \subseteq 1..last' /\ Idle \subseteq DOMAIN pending
      BY <1>5, <1>k DEF Attach, TrackedTyped, Idle, KeysTyped, stream
    <2>2. timers' \subseteq Timer
      <3>. DEFINE S == IF Claims(r) THEN DOMAIN pending \ Idle ELSE {}
                  at == [i \in S |-> pending[i]]
      <3>1. S \in SUBSET Ids /\ at \in [S -> 0..MaxTime]
        BY <1>k, <1>s, <1>n, <1>m DEF KeysTyped
      <3>2. {[of |-> "claim", id |-> i, at |-> at[i]] : i \in S}
               = {[of |-> "claim", id |-> i, at |-> pending[i]] : i \in S}
        OBVIOUS
      <3>3. timers' = timers \cup
               {[of |-> "claim", id |-> i, at |-> pending[i]] : i \in S}
        BY <1>5 DEF Attach
      <3>. HIDE DEF S, at
      <3>. QED
        BY <3>1, <3>2, <3>3, <1>t, <1>k DEF TrackedTyped
    <2>3. owed' \subseteq 1..last'
      BY <2>1, <1>5, <1>w DEF Attach
    <2>. QED
      BY <2>1, <2>2, <2>3, <1>5, <1>k DEF Attach, TrackedTyped, stream
  <1>6. ASSUME NEW r \in Readers, Detach(r) PROVE TrackedTyped'
    <2>1. claimDue' \subseteq 1..last'
      BY <1>6, <1>k DEF Detach, TrackedTyped, stream
    <2>2. owed' \subseteq 1..last'
      BY <2>1, <1>6, <1>w DEF Detach
    <2>. QED
      BY <2>1, <2>2, <1>6, <1>k DEF Detach, TrackedTyped, stream
  <1>7. ASSUME NEW r \in Readers,
               Bump(r) \/ Wake(r) \/ List(r) \/ Accept(r) \/ Yield(r)
        PROVE  TrackedTyped'
    BY <1>7, <1>0 DEF Bump, Wake, List, Accept, Yield, tracked
  <1>8. ASSUME NEW r \in Readers, Readd(r) PROVE TrackedTyped'
    BY <1>8, <1>1 DEF Readd
  <1>9. ASSUME NEW r \in Readers, Read(r) PROVE TrackedTyped'
    <2>1. /\ claimDue' = claimDue \ Out(r) /\ owed' = owed \ Out(r)
          /\ UNCHANGED <<last, linkDue, linkHeld, readds>>
      BY <1>9, ReadParts
    <2>2. timers' \subseteq Timer
      <3>. DEFINE S == IF AnyClaims(attached) THEN Out(r) ELSE {}
                  at == [i \in S |-> now]
      <3>1. S \in SUBSET Ids /\ at \in [S -> 0..MaxTime]
        BY <1>k, <1>s, <1>n, OutTypes
      <3>2. {[of |-> "claim", id |-> i, at |-> at[i]] : i \in S}
               = {[of |-> "claim", id |-> i, at |-> now] : i \in S}
        OBVIOUS
      <3>3. timers' = timers \cup
               {[of |-> "claim", id |-> i, at |-> now] : i \in S}
        BY <1>9, ReadParts
      <3>. HIDE DEF S, at
      <3>. QED
        BY <3>1, <3>2, <3>3, <1>t, <1>k DEF TrackedTyped
    <2>. QED
      BY <2>1, <2>2, <1>k DEF TrackedTyped
  <1>10. ASSUME NEW r \in Readers, NEW m \in todo[r], Claim(r, m)
         PROVE  TrackedTyped'
    <2>1. UNCHANGED <<owed, claimDue, timers, last>>
      BY <1>10 DEF Claim, stream
    <2>2. CASE m \in DOMAIN score
      <3>1. /\ linkDue' = linkDue \ {m} /\ linkHeld' = linkHeld \ {m}
            /\ readds' \in Nat
        BY <2>2, <1>10, <1>k DEF Claim, PassedOn, One, TrackedTyped
      <3>. QED
        BY <2>1, <3>1, <1>k DEF TrackedTyped
    <2>3. CASE m \notin DOMAIN score
      BY <2>1, <2>3, <1>10, <1>0 DEF Claim
    <2>. QED
      BY <2>2, <2>3
  <1>11. ASSUME NEW r \in Readers, NEW p \in load.positions, SetId(r, p)
         PROVE  TrackedTyped'
    <2>1. claimDue' \subseteq 1..last'
      BY <1>11, <1>k DEF SetId, TrackedTyped
    <2>2. owed' \subseteq 1..last'
      BY <2>1, <1>11, <1>w DEF SetId
    <2>. QED
      BY <2>1, <2>2, <1>11, <1>k DEF SetId, TrackedTyped
  <1>12. ASSUME NEW d \in DOMAIN hands, Ack(d) PROVE TrackedTyped'
    BY <1>12, <1>k DEF Ack, Unclaimable, NotOwed, TrackedTyped
  <1>13. ASSUME NEW d \in DOMAIN hands, Requeue(d) PROVE TrackedTyped'
    BY <1>13, <1>1 DEF Requeue
  <1>14. ASSUME NEW d \in DOMAIN hands, Schedule(d) PROVE TrackedTyped'
    <2>1. d.id \in Ids
      BY DEF TypeInv, HandsTyped, Delivery
    <2>2. [of |-> "link", id |-> d.id, at |-> now + 1] \in Timer
      BY <2>1, <1>n, <1>m DEF Timer, Times
    <2>3. timers' \subseteq timers \cup
             {[of |-> "link", id |-> d.id, at |-> now + 1]}
      BY <1>14 DEF Schedule
    <2>4. UNCHANGED <<last, owed, claimDue, linkDue, linkHeld, readds>>
      BY <1>14 DEF Schedule, stream
    <2>. QED
      BY <2>2, <2>3, <2>4, <1>k DEF TrackedTyped
  <1>15. ASSUME NEW d \in DOMAIN hands, Leave(d) PROVE TrackedTyped'
    BY <1>15, <1>0 DEF Leave, tracked
  <1>16. CASE UNCHANGED vars
    BY <1>16, <1>0 DEF vars, tracked
  <1>. QED
    BY NextCases, <1>2, <1>3, <1>4, <1>5, <1>6, <1>7, <1>8, <1>9, <1>10,
       <1>11, <1>12, <1>13, <1>14, <1>15, <1>16

\* What a read puts into its buffer.
LEMMA ReadBuffer ==
    ASSUME KeysTyped, NEW r, NEW b, b = InOrder(Claimed(r)) \o InOrder(Taken(r))
    PROVE  /\ b \in Seq(1..last)
           /\ Len(b) = Cardinality(Claimed(r)) + Cardinality(Taken(r))
           /\ Cardinality(Claimed(r)) \in Nat /\ Cardinality(Taken(r)) \in Nat
           /\ \A k \in 1..Len(b) : b[k] \in Out(r)
           /\ Claimed(r) = {} =>
                 /\ \A k \in 1..Len(b) : b[k] \in Taken(r)
                 /\ \A j, k \in 1..Len(b) : b[j] = b[k] => j = k
  <1>1. /\ IsFiniteSet(Taken(r)) /\ IsFiniteSet(Claimed(r))
        /\ Taken(r) \subseteq Out(r) /\ Claimed(r) \subseteq Out(r)
        /\ Out(r) \subseteq 1..last /\ 1..last \subseteq Nat
        /\ Out(r) \subseteq Nat
    <2>1. Out(r) \subseteq 1..last /\ last \in Nat
      BY OutTypes
    <2>2. 1..last \subseteq Nat
      BY <2>1
    <2>. QED
      BY <2>1, <2>2, OutTypes DEF Out
  <1>. DEFINE c == InOrder(Claimed(r))
              t == InOrder(Taken(r))
  <1>2. c \in Seq(Claimed(r)) /\ Len(c) = Cardinality(Claimed(r))
    BY <1>1, InOrderSorts
  <1>3. t \in Seq(Taken(r)) /\ Len(t) = Cardinality(Taken(r))
    BY <1>1, InOrderSorts
  <1>4. \A j, k \in 1..Cardinality(Taken(r)) : j < k => t[j] < t[k]
    BY <1>1, InOrderSorts
  <1>5. /\ Cardinality(Claimed(r)) \in Nat /\ Cardinality(Taken(r)) \in Nat
    BY <1>1, FS_CardinalityType
  <1>. HIDE DEF c, t
  <1>6. b = c \o t
    BY DEF c, t
  <1>7. c \in Seq(Out(r)) /\ t \in Seq(Out(r))
    BY <1>1, <1>2, <1>3, SeqMonotonic
  <1>8. b \in Seq(Out(r)) /\ Len(b) = Len(c) + Len(t)
    BY <1>6, <1>7, ConcatProperties
  <1>9. b \in Seq(1..last)
    BY <1>1, <1>8, SeqMonotonic
  <1>10. \A k \in 1..Len(b) : b[k] \in Out(r)
    BY <1>8, ElementOfSeq
  <1>11. ASSUME Claimed(r) = {}
         PROVE  /\ \A k \in 1..Len(b) : b[k] \in Taken(r)
                /\ \A j, k \in 1..Len(b) : b[j] = b[k] => j = k
    <2>1. Len(c) = 0
      BY <1>2, <1>11, FS_EmptySet
    <2>2. c = <<>>
      BY <1>2, <2>1, EmptySeq
    <2>3. b = t
      BY <2>2, <1>6, <1>7, ConcatEmptySeq
    <2>4. \A k \in 1..Len(b) : b[k] \in Taken(r)
      BY <2>3, <1>3, ElementOfSeq
    <2>5. ASSUME NEW j \in 1..Len(b), NEW k \in 1..Len(b), b[j] = b[k]
          PROVE  j = k
      <3>1. b[j] \in Nat /\ b[k] \in Nat
        BY <2>4, <1>1
      <3>2. j < k => b[j] < b[k]
        BY <2>3, <1>3, <1>4
      <3>3. k < j => b[k] < b[j]
        BY <2>3, <1>3, <1>4
      <3>4. j \in Int /\ k \in Int
        BY <1>3, <2>3, <1>5
      <3>. QED
        BY <3>1, <3>2, <3>3, <3>4, <2>5
    <2>. QED
      BY <2>4, <2>5
  <1>. QED
    BY <1>2, <1>3, <1>5, <1>8, <1>9, <1>10, <1>11

LEMMA Appended ==
    ASSUME NEW S, NEW s \in Seq(S), NEW x \in S, IsInjective(s),
           \A k \in DOMAIN s : s[k] # x
    PROVE  /\ Append(s, x) \in Seq(S) /\ IsInjective(Append(s, x))
           /\ Len(s) \in Nat
           /\ DOMAIN s = 1..Len(s)
           /\ DOMAIN Append(s, x) = 1..(Len(s) + 1)
           /\ \A k \in DOMAIN s : Append(s, x)[k] = s[k]
           /\ Append(s, x)[Len(s) + 1] = x
  <1>1. /\ Append(s, x) \in Seq(S) /\ Len(Append(s, x)) = Len(s) + 1
        /\ Len(s) \in Nat /\ DOMAIN s = 1..Len(s)
        /\ DOMAIN Append(s, x) = 1..Len(Append(s, x))
    BY LenProperties
  <1>2. /\ \A k \in 1..Len(s) : Append(s, x)[k] = s[k]
        /\ Append(s, x)[Len(s) + 1] = x
    BY <1>1
  <1>3. ASSUME NEW j \in 1..(Len(s) + 1), NEW k \in 1..(Len(s) + 1),
               Append(s, x)[j] = Append(s, x)[k]
        PROVE  j = k
    <2>1. CASE j \in 1..Len(s) /\ k \in 1..Len(s)
      BY <2>1, <1>1, <1>2, <1>3 DEF IsInjective
    <2>2. CASE j \in 1..Len(s) /\ k = Len(s) + 1
      BY <2>2, <1>1, <1>2, <1>3
    <2>3. CASE j = Len(s) + 1 /\ k \in 1..Len(s)
      BY <2>3, <1>1, <1>2, <1>3
    <2>. QED
      BY <2>1, <2>2, <2>3, <1>1
  <1>. QED
    BY <1>1, <1>2, <1>3 DEF IsInjective

LEMMA PartOf ==
    ASSUME NEW S, NEW s \in Seq(S), NEW l \in Nat \ {0}, NEW m \in 0..Len(s)
    PROVE  /\ SubSeq(s, l, m) \in Seq(S)
           /\ Len(SubSeq(s, l, m)) = IF l <= m THEN m - l + 1 ELSE 0
           /\ \A i \in 1..(m - l + 1) : SubSeq(s, l, m)[i] = s[l + i - 1]
  <1>1. Len(s) \in Nat /\ l \in Int /\ m \in Int
    BY LenProperties
  <1>2. \A i \in l..m : s[i] \in S
    BY <1>1, ElementOfSeq
  <1>. QED
    BY <1>1, <1>2, SubSeqProperties

LEMMA Without ==
    ASSUME NEW S, NEW s \in Seq(S), IsInjective(s), NEW k \in DOMAIN s,
           NEW u, u = RemoveAt(s, k)
    PROVE  /\ u \in Seq(S) /\ IsInjective(u)
           /\ \A j \in DOMAIN u : \E i \in DOMAIN s : i # k /\ u[j] = s[i]
           /\ \A i \in DOMAIN s : i # k => \E j \in DOMAIN u : u[j] = s[i]
  <1>1. Len(s) \in Nat /\ DOMAIN s = 1..Len(s) /\ k \in 1..Len(s) /\ k \in Nat
    BY LenProperties
  <1>. DEFINE n == Len(s)
              f == SubSeq(s, 1, k - 1)
              g == SubSeq(s, k + 1, n)
  <1>2. f \in Seq(S) /\ Len(f) = k - 1 /\ \A i \in 1..(k - 1) : f[i] = s[i]
    <2>1. 1 \in Nat \ {0} /\ k - 1 \in 0..Len(s)
      BY <1>1
    <2>2. /\ f \in Seq(S)
          /\ Len(f) = IF 1 <= k - 1 THEN (k - 1) - 1 + 1 ELSE 0
          /\ \A i \in 1..((k - 1) - 1 + 1) : f[i] = s[1 + i - 1]
      BY <2>1, PartOf
    <2>3. \A i \in 1..(k - 1) : 1 + i - 1 = i
      BY <1>1
    <2>4. (k - 1) - 1 + 1 = k - 1
      BY <1>1
    <2>. HIDE DEF f
    <2>. QED
      BY <2>2, <2>3, <2>4, <1>1
  <1>3. g \in Seq(S) /\ Len(g) = n - k /\ \A i \in 1..(n - k) : g[i] = s[k + i]
    <2>1. k + 1 \in Nat \ {0} /\ n \in 0..Len(s)
      BY <1>1
    <2>2. /\ g \in Seq(S)
          /\ Len(g) = IF k + 1 <= n THEN n - (k + 1) + 1 ELSE 0
          /\ \A i \in 1..(n - (k + 1) + 1) : g[i] = s[(k + 1) + i - 1]
      BY <2>1, PartOf
    <2>3. \A i \in 1..(n - k) : (k + 1) + i - 1 = k + i
      BY <1>1
    <2>4. n - (k + 1) + 1 = n - k
      BY <1>1
    <2>. HIDE DEF g
    <2>. QED
      BY <2>2, <2>3, <2>4, <1>1
  <1>. HIDE DEF f, g
  <1>4. u = f \o g
    BY DEF f, g, RemoveAt
  <1>5. /\ u \in Seq(S) /\ Len(u) = Len(f) + Len(g)
        /\ \A i \in 1..(Len(f) + Len(g)) :
              u[i] = IF i <= Len(f) THEN f[i] ELSE g[i - Len(f)]
    <2>1. f \in Seq(S) /\ g \in Seq(S)
      BY <1>2, <1>3
    <2>. QED
      BY <2>1, <1>4, ConcatProperties
  <1>6. DOMAIN u = 1..(n - 1) /\ n \in Nat
    BY <1>1, <1>2, <1>3, <1>5, LenProperties
  <1>7. \A i \in 1..(n - 1) : u[i] = IF i < k THEN s[i] ELSE s[i + 1]
    <2>1. SUFFICES ASSUME NEW i \in 1..(n - 1)
                   PROVE  u[i] = IF i < k THEN s[i] ELSE s[i + 1]
      OBVIOUS
    <2>2. i \in 1..(Len(f) + Len(g)) /\ i \in Nat
      BY <1>1, <1>2, <1>3
    <2>3. CASE i < k
      BY <2>2, <2>3, <1>1, <1>2, <1>5
    <2>4. CASE ~(i < k)
      <3>1. u[i] = g[i - (k - 1)] /\ i - (k - 1) \in 1..(n - k)
        BY <2>2, <2>4, <1>1, <1>2, <1>5
      <3>2. k + (i - (k - 1)) = i + 1
        BY <2>2, <1>1
      <3>. QED
        BY <3>1, <3>2, <2>4, <1>3
    <2>. QED
      BY <2>3, <2>4
  <1>. HIDE DEF n
  <1>n. DOMAIN s = 1..n /\ k \in 1..n
    BY <1>1 DEF n
  <1>8. ASSUME NEW i \in DOMAIN u, NEW j \in DOMAIN u, u[i] = u[j]
        PROVE  i = j
    <2>1. i \in 1..(n - 1) /\ j \in 1..(n - 1)
      BY <1>6
    <2>. DEFINE at(x) == IF x < k THEN x ELSE x + 1
    <2>2. u[i] = s[at(i)] /\ u[j] = s[at(j)]
      BY <2>1, <1>7
    <2>3. at(i) \in DOMAIN s /\ at(j) \in DOMAIN s
      BY <2>1, <1>n, <1>6
    <2>4. at(i) = at(j)
      BY <2>2, <2>3, <1>8 DEF IsInjective
    <2>. QED
      BY <2>1, <2>4, <1>n, <1>6
  <1>9. ASSUME NEW j \in DOMAIN u
        PROVE  \E i \in DOMAIN s : i # k /\ u[j] = s[i]
    <2>1. CASE j < k
      BY <2>1, <1>6, <1>7, <1>n
    <2>2. CASE ~(j < k)
      <3>1. j + 1 \in DOMAIN s /\ j + 1 # k /\ u[j] = s[j + 1]
        BY <2>2, <1>6, <1>7, <1>n
      <3>. QED
        BY <3>1
    <2>. QED
      BY <2>1, <2>2
  <1>10. ASSUME NEW i \in DOMAIN s, i # k
         PROVE  \E j \in DOMAIN u : u[j] = s[i]
    <2>1. CASE i < k
      <3>1. i \in DOMAIN u /\ u[i] = s[i]
        BY <2>1, <1>6, <1>7, <1>n
      <3>. QED
        BY <3>1
    <2>2. CASE ~(i < k)
      <3>1. i - 1 \in DOMAIN u /\ u[i - 1] = s[i]
        BY <2>2, <1>6, <1>7, <1>n, <1>10
      <3>. QED
        BY <3>1
    <2>. QED
      BY <2>1, <2>2
  <1>. QED
    BY <1>5, <1>8, <1>9, <1>10 DEF IsInjective

LEMMA HereTypes ==
    ASSUME pc \in [Readers -> Stages], attached \in Seq(Mounted), Mounted \subseteq Readers
    PROVE  /\ DOMAIN attached = 1..Len(attached) /\ Len(attached) \in Nat
           /\ \A k \in DOMAIN attached : attached[k] \in Readers
  BY LenProperties, ElementOfSeq

LEMMA ToTypes ==
    ASSUME NEW r \in Readers, NEW x \in Stages, To(r, x),
           pc \in [Readers -> Stages], moved \in [Readers -> BOOLEAN],
           Here(r), x \notin {"out", "gone"}
    PROVE  /\ pc' \in [Readers -> Stages] /\ moved' \in [Readers -> BOOLEAN]
           /\ \A q \in Readers : Here(q)' = Here(q)
  BY DEF To, Here

LEMMA ReadersStep ==
    ASSUME TypeInv, [Next]_vars
    PROVE  ReadersTyped' /\ AttachedInv'
  <1>. DEFINE Goal == ReadersTyped' /\ AttachedInv'
  <1>l. load' = load /\ Mounted' = Mounted /\ Mounted \subseteq Readers
    BY SameLoad, LoadTypes DEF Mounted, TypeInv, KeysTyped
  <1>k. KeysTyped /\ ReadersTyped /\ AttachedInv /\ KeysTyped' /\ last <= last'
    BY KeysStep DEF TypeInv
  <1>m. MaxEntries \in Nat
    BY InProcessAssumption
  <1>i. 1..last \subseteq Ids /\ last \in Nat
    BY <1>k, <1>m DEF KeysTyped, Ids
  <1>0. ASSUME attached' = attached,
               pc' \in [Readers -> Stages],
               \A q \in Readers : Here(q)' = Here(q),
               todo' \in [Readers -> SUBSET Ids],
               buffer' \in [Readers -> Seq(Ids)],
               moved' \in [Readers -> BOOLEAN],
               seek' \in [Readers -> {"no", "set", "done"}]
        PROVE  Goal
    <2>1. \A k \in DOMAIN attached : attached[k] \in Readers
      BY <1>k, <1>l, HereTypes DEF ReadersTyped
    <2>2. AttachedInv'
      BY <2>1, <1>0, <1>k DEF AttachedInv
    <2>. QED
      BY <2>2, <1>0, <1>k, <1>l DEF ReadersTyped
  <1>z. ASSUME UNCHANGED <<attached, reading, seek>> PROVE Goal
    BY <1>z, <1>0, <1>k DEF reading, ReadersTyped, Here
  <1>1. CASE Tick \/ Publish
    BY <1>1, <1>z DEF Tick, Publish
  <1>2. ASSUME NEW i \in live, Delete(i) PROVE Goal
    BY <1>2, <1>z DEF Delete
  <1>3. ASSUME NEW r \in Readers, Attach(r) PROVE Goal
    <2>1. r \in Mounted /\ pc[r] = "out" /\ attached' = Append(attached, r)
          /\ pc' = [pc EXCEPT ![r] = "wait"]
          /\ UNCHANGED <<todo, buffer, moved, seek>>
      BY <1>3 DEF Attach
    <2>2. \A k \in DOMAIN attached : attached[k] # r
      BY <2>1, <1>k DEF AttachedInv, Here
    <2>3. /\ attached' \in Seq(Mounted) /\ IsInjective(attached')
          /\ DOMAIN attached = 1..Len(attached) /\ Len(attached) \in Nat
          /\ DOMAIN attached' = 1..(Len(attached) + 1)
          /\ \A k \in DOMAIN attached : attached'[k] = attached[k]
          /\ attached'[Len(attached) + 1] = r
      BY <2>1, <2>2, <1>k, Appended DEF ReadersTyped
    <2>4. pc' \in [Readers -> Stages]
      BY <2>1, <1>k DEF ReadersTyped, Stages
    <2>5. \A q \in Readers :
             /\ Here(q)' <=> Here(q) \/ q = r
             /\ Here(q)' <=> pc'[q] \notin {"out", "gone"}
      BY <2>1, <1>k DEF ReadersTyped, Here
    <2>6. ASSUME NEW k \in DOMAIN attached' PROVE pc'[attached'[k]] \notin {"out", "gone"}
      <3>1. CASE k \in DOMAIN attached
        <4>1. attached[k] \in Readers /\ Here(attached[k])
          BY <3>1, <1>k, <1>l, HereTypes DEF AttachedInv, ReadersTyped
        <4>2. attached'[k] = attached[k]
          BY <2>3, <3>1
        <4>. QED
          BY <4>1, <4>2, <2>5
      <3>2. CASE k = Len(attached) + 1
        BY <3>2, <2>3, <2>5
      <3>. QED
        BY <3>1, <3>2, <2>3
    <2>7. ASSUME NEW q \in Readers, Here(q)'
          PROVE  \E k \in DOMAIN attached' : attached'[k] = q
      <3>1. CASE q = r
        <4>1. Len(attached) + 1 \in DOMAIN attached'
          BY <2>3
        <4>. QED
          BY <4>1, <3>1, <2>3
      <3>2. CASE q # r
        <4>1. PICK k \in DOMAIN attached : attached[k] = q
          BY <3>2, <2>5, <2>7, <1>k DEF AttachedInv
        <4>2. k \in DOMAIN attached' /\ attached'[k] = q
          BY <4>1, <2>3
        <4>. QED
          BY <4>2
      <3>. QED
        BY <3>1, <3>2
    <2>8. AttachedInv'
      BY <2>6, <2>7 DEF AttachedInv, Here
    <2>. QED
      BY <2>8, <2>1, <2>3, <2>4, <1>k, <1>l DEF ReadersTyped
  <1>4. ASSUME NEW r \in Readers, Detach(r) PROVE Goal
    <2>1. PICK k \in DOMAIN attached :
             attached[k] = r /\ attached' = RemoveAt(attached, k)
      BY <1>4 DEF Detach
    <2>2. /\ pc' = [pc EXCEPT ![r] = "gone"]
          /\ todo' = [todo EXCEPT ![r] = {}]
          /\ buffer' = [buffer EXCEPT ![r] = <<>>]
          /\ UNCHANGED <<moved, seek>>
      BY <1>4 DEF Detach
    <2>3. attached \in Seq(Mounted) /\ IsInjective(attached)
      BY <1>k DEF ReadersTyped
    <2>4. /\ attached' \in Seq(Mounted) /\ IsInjective(attached')
          /\ \A j \in DOMAIN attached' : \E i \in DOMAIN attached :
                i # k /\ attached'[j] = attached[i]
          /\ \A i \in DOMAIN attached : i # k =>
                \E j \in DOMAIN attached' : attached'[j] = attached[i]
      BY <2>1, <2>3, Without
    <2>5. pc' \in [Readers -> Stages]
      BY <2>2, <1>k DEF ReadersTyped, Stages
    <2>6. \A q \in Readers :
             /\ Here(q)' <=> Here(q) /\ q # r
             /\ Here(q)' <=> pc'[q] \notin {"out", "gone"}
      BY <2>2, <1>k DEF ReadersTyped, Here
    <2>7. ASSUME NEW j \in DOMAIN attached' PROVE pc'[attached'[j]] \notin {"out", "gone"}
      <3>1. PICK i \in DOMAIN attached : i # k /\ attached'[j] = attached[i]
        BY <2>4
      <3>2. attached[i] # r
        BY <3>1, <2>1, <2>3 DEF IsInjective
      <3>3. Here(attached[i]) /\ attached[i] \in Readers
        BY <2>3, <1>k, <1>l, HereTypes DEF AttachedInv, ReadersTyped
      <3>. QED
        BY <3>1, <3>2, <3>3, <2>6
    <2>8. ASSUME NEW q \in Readers, Here(q)'
          PROVE  \E j \in DOMAIN attached' : attached'[j] = q
      <3>1. q # r /\ Here(q)
        BY <2>6, <2>8
      <3>2. PICK i \in DOMAIN attached : attached[i] = q
        BY <3>1, <1>k DEF AttachedInv
      <3>. QED
        BY <3>1, <3>2, <2>1, <2>4
    <2>9. AttachedInv'
      BY <2>7, <2>8 DEF AttachedInv, Here
    <2>10. todo' \in [Readers -> SUBSET Ids]
           /\ buffer' \in [Readers -> Seq(Ids)]
      BY <2>2, <1>k, EmptySeq DEF ReadersTyped
    <2>. QED
      BY <2>9, <2>10, <2>2, <2>4, <2>5, <1>k, <1>l DEF ReadersTyped
  <1>5. ASSUME NEW r \in Readers, Bump(r) PROVE Goal
    BY <1>5, <1>0, <1>k DEF Bump, ReadersTyped, Here
  <1>6. ASSUME NEW r \in Readers, Wake(r) PROVE Goal
    <2>1. PICK x \in {"list", "read"} : To(r, x)
      BY <1>6 DEF Wake
    <2>2. Here(r)
      BY <1>6 DEF Wake, Here
    <2>3. /\ pc' \in [Readers -> Stages] /\ moved' \in [Readers -> BOOLEAN]
          /\ \A q \in Readers : Here(q)' = Here(q)
      BY <2>1, <2>2, <1>k, ToTypes DEF ReadersTyped, Stages
    <2>. QED
      BY <2>3, <1>6, <1>0, <1>k DEF Wake, ReadersTyped
  <1>7. ASSUME NEW r \in Readers, List(r) PROVE Goal
    <2>1. PICK x \in {"read", "sweep"} : To(r, x)
      BY <1>7 DEF List, Swept
    <2>2. Here(r)
      BY <1>7 DEF List, Here
    <2>3. /\ pc' \in [Readers -> Stages] /\ moved' \in [Readers -> BOOLEAN]
          /\ \A q \in Readers : Here(q)' = Here(q)
      BY <2>1, <2>2, <1>k, ToTypes DEF ReadersTyped, Stages
    <2>4. todo' \in [Readers -> SUBSET Ids]
      <3>1. {m \in DOMAIN score : score[m] <= now} \in SUBSET Ids
        BY <1>k, <1>i DEF KeysTyped
      <3>. QED
        BY <3>1, <1>7, <1>k DEF List, ReadersTyped
    <2>. QED
      BY <2>3, <2>4, <1>7, <1>0, <1>k DEF List, ReadersTyped
  <1>8. ASSUME NEW r \in Readers, NEW m \in todo[r], Claim(r, m) PROVE Goal
    <2>1. PICK x \in {"readd", "read", "sweep"} : To(r, x)
      BY <1>8 DEF Claim, Swept
    <2>2. Here(r)
      BY <1>8 DEF Claim, Here
    <2>3. /\ pc' \in [Readers -> Stages] /\ moved' \in [Readers -> BOOLEAN]
          /\ \A q \in Readers : Here(q)' = Here(q)
      BY <2>1, <2>2, <1>k, ToTypes DEF ReadersTyped, Stages
    <2>4. todo' \in [Readers -> SUBSET Ids]
      BY <1>8, <1>k DEF Claim, ReadersTyped
    <2>. QED
      BY <2>3, <2>4, <1>8, <1>0, <1>k DEF Claim, ReadersTyped
  <1>9. ASSUME NEW r \in Readers, Readd(r) PROVE Goal
    <2>1. PICK x \in {"read", "sweep"} : To(r, x)
      BY <1>9 DEF Readd, Swept
    <2>2. Here(r)
      BY <1>9 DEF Readd, Here
    <2>3. /\ pc' \in [Readers -> Stages] /\ moved' \in [Readers -> BOOLEAN]
          /\ \A q \in Readers : Here(q)' = Here(q)
      BY <2>1, <2>2, <1>k, ToTypes DEF ReadersTyped, Stages
    <2>. QED
      BY <2>3, <1>9, <1>0, <1>k DEF Readd, ReadersTyped
  <1>10. ASSUME NEW r \in Readers, Read(r) PROVE Goal
    <2>1. /\ pc[r] = "read" /\ To(r, "answered")
          /\ buffer' = [buffer EXCEPT ![r] =
                           InOrder(Claimed(r)) \o InOrder(Taken(r))]
          /\ UNCHANGED <<attached, todo, seek>>
      BY <1>10, ReadParts
    <2>2. Here(r)
      BY <2>1 DEF Here
    <2>3. /\ pc' \in [Readers -> Stages] /\ moved' \in [Readers -> BOOLEAN]
          /\ \A q \in Readers : Here(q)' = Here(q)
      BY <2>1, <2>2, <1>k, ToTypes DEF ReadersTyped, Stages
    <2>4. InOrder(Claimed(r)) \o InOrder(Taken(r)) \in Seq(1..last)
      BY <1>k, ReadBuffer
    <2>5. InOrder(Claimed(r)) \o InOrder(Taken(r)) \in Seq(Ids)
      BY <2>4, <1>i, SeqMonotonic
    <2>6. buffer' \in [Readers -> Seq(Ids)]
      BY <2>1, <2>5, <1>k DEF ReadersTyped
    <2>. QED
      BY <2>1, <2>3, <2>6, <1>0, <1>k DEF ReadersTyped
  <1>11. ASSUME NEW r \in Readers, Accept(r) PROVE Goal
    <2>1. /\ pc' = [pc EXCEPT ![r] = "wait"] /\ pc[r] = "answered"
          /\ UNCHANGED <<attached, todo, moved, seek>>
          /\ buffer' = buffer \/ buffer' = [buffer EXCEPT ![r] = <<>>]
      BY <1>11 DEF Accept, Discard
    <2>2. pc' \in [Readers -> Stages] /\ \A q \in Readers : Here(q)' = Here(q)
      BY <2>1, <1>k DEF ReadersTyped, Stages, Here
    <2>3. buffer' \in [Readers -> Seq(Ids)]
      BY <2>1, <1>k, EmptySeq DEF ReadersTyped
    <2>. QED
      BY <2>1, <2>2, <2>3, <1>0, <1>k DEF ReadersTyped
  <1>12. ASSUME NEW r \in Readers, Yield(r) PROVE Goal
    <2>1. /\ UNCHANGED <<attached, pc, todo, moved, seek>>
          /\ buffer[r] # <<>>
          /\ \/ buffer' = [buffer EXCEPT ![r] = <<>>]
             \/ buffer' = [buffer EXCEPT ![r] = Tail(buffer[r])]
      BY <1>12 DEF Yield, Discard
    <2>2. Tail(buffer[r]) \in Seq(Ids)
      BY <2>1, <1>k, HeadTailProperties DEF ReadersTyped
    <2>3. buffer' \in [Readers -> Seq(Ids)]
      BY <2>1, <2>2, <1>k, EmptySeq DEF ReadersTyped
    <2>. QED
      BY <2>1, <2>3, <1>0, <1>k DEF ReadersTyped, Here
  <1>13. ASSUME NEW r \in Readers, NEW p \in load.positions, SetId(r, p)
         PROVE  Goal
    <2>1. UNCHANGED <<attached, pc, todo, buffer, moved>>
          /\ seek' = [seek EXCEPT ![r] = "set"]
      BY <1>13 DEF SetId, reading
    <2>. QED
      BY <2>1, <1>0, <1>k DEF ReadersTyped, Here
  <1>14. ASSUME NEW d \in DOMAIN hands,
                Ack(d) \/ Requeue(d) \/ Schedule(d) \/ Leave(d)
         PROVE  Goal
    BY <1>14, <1>z DEF Ack, Requeue, Schedule, Leave
  <1>15. CASE UNCHANGED vars
    BY <1>15, <1>z DEF vars
  <1>. QED
    BY NextCases, <1>1, <1>2, <1>3, <1>4, <1>5, <1>6, <1>7, <1>8, <1>9, <1>10,
       <1>11, <1>12, <1>13, <1>14, <1>15

LEMMA HandsStep ==
    ASSUME TypeInv, [Next]_vars
    PROVE  HandsTyped' /\ \A d \in DOMAIN hands' : d.id <= last'
  <1>. DEFINE Goal == HandsTyped' /\ \A d \in DOMAIN hands' : d.id <= last'
  <1>k. /\ KeysTyped /\ HandsTyped /\ last <= last'
        /\ last \in Nat /\ last' \in Nat
        /\ \A d \in DOMAIN hands : d \in Delivery /\ d.id <= last
    BY InProcessAssumption, KeysStep
    DEF TypeInv, IdsKnown, HandsTyped, KeysTyped
  <1>0. ASSUME NEW h, hands' = h, IsABag(h),
               \A d \in DOMAIN h : d \in Delivery /\ d.id <= last'
        PROVE  Goal
    BY <1>0 DEF HandsTyped
  <1>l. \A d \in Delivery : d.id <= last => d.id <= last'
    BY <1>k DEF Delivery, Ids
  <1>s. ASSUME hands' = hands PROVE Goal
    BY <1>s, <1>l, <1>k, <1>0 DEF HandsTyped
  <1>r. ASSUME NEW d \in DOMAIN hands
        PROVE  /\ IsABag(hands (-) Lone(d))
               /\ DOMAIN (hands (-) Lone(d)) \subseteq DOMAIN hands
    BY <1>k, Removed DEF HandsTyped
  <1>1. ASSUME NEW d \in DOMAIN hands, hands' = hands (-) Lone(d) PROVE Goal
    BY <1>1, <1>r, <1>l, <1>k, <1>0
  <1>2. ASSUME NEW d \in DOMAIN hands, hands' = Copied(d) PROVE Goal
    <2>. DEFINE c == [d EXCEPT !.stage = "copied"]
                b == hands (-) Lone(d)
    <2>1. c \in Delivery /\ c.id <= last
      BY <1>k DEF Delivery
    <2>2. IsABag(b) /\ DOMAIN b \subseteq DOMAIN hands /\ hands' = b (+) Lone(c)
      BY <1>2, <1>r DEF Copied
    <2>. HIDE DEF c, b
    <2>3. IsABag(b (+) Lone(c)) /\ DOMAIN (b (+) Lone(c)) = DOMAIN b \cup {c}
      BY <2>2, Added
    <2>. QED
      BY <2>1, <2>2, <2>3, <1>l, <1>k, <1>0
  <1>3. CASE Tick \/ Publish
    BY <1>3, <1>s DEF Tick, Publish
  <1>4. ASSUME NEW i \in live, Delete(i) PROVE Goal
    BY <1>4, <1>s DEF Delete
  <1>5. ASSUME NEW r \in Readers,
               \/ Attach(r) \/ Detach(r) \/ Bump(r) \/ Wake(r) \/ List(r)
               \/ Readd(r) \/ Accept(r)
        PROVE  Goal
    BY <1>5, <1>s DEF Attach, Detach, Bump, Wake, List, Readd, Accept
  <1>6. ASSUME NEW r \in Readers, Read(r) PROVE Goal
    BY <1>6, <1>s, ReadParts
  <1>7. ASSUME NEW r \in Readers, Yield(r) PROVE Goal
    <2>1. CASE moved[r]
      BY <2>1, <1>7, <1>s DEF Yield
    <2>2. CASE ~moved[r]
      <3>. DEFINE x == Head(buffer[r])
                  c == [id |-> x, stage |-> "held"]
      <3>1. hands' = hands (+) Lone(c) /\ buffer[r] # <<>>
        BY <1>7, <2>2 DEF Yield
      <3>2. buffer[r] \in Seq(Ids)
        BY DEF TypeInv, ReadersTyped
      <3>3. x \in Ids /\ x = buffer[r][1] /\ 1 \in 1..Len(buffer[r])
        BY <3>1, <3>2, HeadTailProperties, EmptySeq
      <3>4. x <= last
        BY <3>3 DEF TypeInv, IdsKnown
      <3>5. c \in Delivery /\ c.id <= last
        BY <3>3, <3>4 DEF Delivery
      <3>. HIDE DEF c
      <3>6. /\ IsABag(hands (+) Lone(c))
            /\ DOMAIN (hands (+) Lone(c)) = DOMAIN hands \cup {c}
        BY <1>k, Added DEF HandsTyped
      <3>. QED
        BY <3>1, <3>5, <3>6, <1>l, <1>k, <1>0
    <2>. QED
      BY <2>1, <2>2
  <1>8. ASSUME NEW r \in Readers, NEW m \in todo[r], Claim(r, m) PROVE Goal
    BY <1>8, <1>s DEF Claim
  <1>9. ASSUME NEW r \in Readers, NEW p \in load.positions, SetId(r, p)
        PROVE  Goal
    BY <1>9, <1>s DEF SetId
  <1>10. ASSUME NEW d \in DOMAIN hands, Ack(d) \/ Leave(d) PROVE Goal
    BY <1>10, <1>1 DEF Ack, Leave
  <1>11. ASSUME NEW d \in DOMAIN hands, Requeue(d) \/ Schedule(d) PROVE Goal
    BY <1>11, <1>2 DEF Requeue, Schedule
  <1>12. CASE UNCHANGED vars
    BY <1>12, <1>s DEF vars
  <1>. QED
    BY NextCases, <1>3, <1>4, <1>5, <1>6, <1>7, <1>8, <1>9, <1>10, <1>11, <1>12

\* What can happen to the buffers in one step.
BufferSteps(r) ==
    \/ buffer' = [buffer EXCEPT ![r] = <<>>]
    \/ buffer[r] # <<>> /\ buffer' = [buffer EXCEPT ![r] = Tail(buffer[r])]
    \/ /\ Read(r)
       /\ buffer' = [buffer EXCEPT ![r] =
                        InOrder(Claimed(r)) \o InOrder(Taken(r))]

LEMMA BufferCases ==
    ASSUME [Next]_vars
    PROVE  buffer' = buffer \/ \E r \in Readers : BufferSteps(r)
  <1>. DEFINE Goal == buffer' = buffer \/ \E r \in Readers : BufferSteps(r)
  <1>1. CASE Tick \/ Publish \/ UNCHANGED vars
    BY <1>1 DEF Tick, Publish, vars, reading
  <1>2. ASSUME NEW i \in live, Delete(i) PROVE Goal
    BY <1>2 DEF Delete, reading
  <1>3. ASSUME NEW r \in Readers, Attach(r) \/ Bump(r) \/ Wake(r) \/ List(r)
                                  \/ Readd(r)
        PROVE  Goal
    BY <1>3 DEF Attach, Bump, Wake, List, Readd, reading
  <1>4. ASSUME NEW r \in Readers, Detach(r) \/ Accept(r) \/ Yield(r)
        PROVE  Goal
    BY <1>4 DEF Detach, Accept, Yield, Discard, BufferSteps
  <1>5. ASSUME NEW r \in Readers, Read(r) PROVE Goal
    BY <1>5, ReadParts DEF BufferSteps
  <1>6. ASSUME NEW r \in Readers, NEW m \in todo[r], Claim(r, m) PROVE Goal
    BY <1>6 DEF Claim
  <1>7. ASSUME NEW r \in Readers, NEW p \in load.positions, SetId(r, p)
        PROVE  Goal
    BY <1>7 DEF SetId, reading
  <1>8. ASSUME NEW d \in DOMAIN hands,
               Ack(d) \/ Requeue(d) \/ Schedule(d) \/ Leave(d)
        PROVE  Goal
    BY <1>8 DEF Ack, Requeue, Schedule, Leave, reading
  <1>. QED
    BY NextCases, <1>1, <1>2, <1>3, <1>4, <1>5, <1>6, <1>7, <1>8

LEMMA IdsStep == ASSUME TypeInv, [Next]_vars PROVE IdsKnown'
  <1>k. /\ KeysTyped /\ last <= last' /\ last \in Nat /\ last' \in Nat
        /\ buffer \in [Readers -> Seq(Ids)]
    BY InProcessAssumption, KeysStep DEF TypeInv, KeysTyped, ReadersTyped
  <1>1. ASSUME NEW r \in Readers, NEW k \in 1..Len(buffer'[r])
        PROVE  buffer'[r][k] <= last'
    <2>o. \A q \in Readers : \A j \in 1..Len(buffer[q]) : buffer[q][j] <= last'
      <3>1. SUFFICES ASSUME NEW q \in Readers, NEW j \in 1..Len(buffer[q])
                     PROVE  buffer[q][j] <= last'
        OBVIOUS
      <3>2. buffer[q][j] \in Ids /\ buffer[q][j] <= last
        BY <1>k, ElementOfSeq DEF TypeInv, IdsKnown
      <3>. QED
        BY <3>2, <1>k DEF Ids
    <2>1. CASE buffer' = buffer
      BY <2>1, <2>o
    <2>2. ASSUME NEW q \in Readers, BufferSteps(q) PROVE buffer'[r][k] <= last'
      <3>1. CASE r # q
        BY <3>1, <2>2, <2>o, <1>k DEF BufferSteps
      <3>2. CASE r = q /\ buffer'[q] = <<>>
        BY <3>2, EmptySeq
      <3>3. CASE r = q /\ buffer[q] # <<>> /\ buffer'[q] = Tail(buffer[q])
        <4>1. /\ Len(Tail(buffer[q])) = Len(buffer[q]) - 1
              /\ \A i \in 1..Len(Tail(buffer[q])) :
                    Tail(buffer[q])[i] = buffer[q][i + 1]
              /\ Len(buffer[q]) \in Nat
          BY <3>3, <1>k, HeadTailProperties, LenProperties
        <4>2. k + 1 \in 1..Len(buffer[q]) /\ buffer'[r][k] = buffer[q][k + 1]
          BY <3>3, <4>1
        <4>. QED
          BY <4>2, <3>3, <2>o
      <3>4. CASE r = q /\ Read(q)
               /\ buffer'[q] = InOrder(Claimed(q)) \o InOrder(Taken(q))
        <4>1. buffer'[q] \in Seq(1..last)
          BY <3>4, <1>k, ReadBuffer
        <4>2. buffer'[q][k] \in 1..last
          BY <4>1, <3>4, ElementOfSeq
        <4>. QED
          BY <4>2, <3>4, <1>k
      <3>. QED
        BY <3>1, <3>2, <3>3, <3>4, <2>2, <1>k DEF BufferSteps
    <2>. QED
      BY <2>1, <2>2, BufferCases
  <1>. QED
    BY <1>1, HandsStep DEF IdsKnown

LEMMA TypesStep == ASSUME TypeInv, [Next]_vars PROVE TypeInv'
  BY KeysStep, TrackedStep, ReadersStep, HandsStep, IdsStep, RoomStep
  DEF TypeInv

LEMMA InitTypes == Init => TypeInv
  <1>. SUFFICES ASSUME Init PROVE TypeInv
    OBVIOUS
  <1>. USE DEF Init
  <1>1. load \in Loads /\ Mounted \subseteq Readers
        /\ load.entries \in 0..MaxEntries /\ MaxEntries \in Nat
        /\ MaxTime \in Nat
    BY LoadTypes
  <1>2. KeysTyped
    BY <1>1 DEF KeysTyped
  <1>3. TrackedTyped
    BY DEF TrackedTyped
  <1>4. ReadersTyped
    BY EmptySeq DEF ReadersTyped, Stages, IsInjective
  <1>5. HandsTyped /\ hands = EmptyBag /\ DOMAIN hands = {}
    BY DEF HandsTyped, EmptyBag, SetToBag, IsABag
  <1>6. IdsKnown
    BY <1>5, EmptySeq DEF IdsKnown
  <1>7. AttachedInv
    BY EmptySeq DEF AttachedInv, Here
  <1>8. RoomInv
    <2>1. Readding = {} /\ DOMAIN score = {}
      BY DEF Readding
    <2>. QED
      BY <2>1, <1>1, FS_EmptySet DEF RoomInv
  <1>. QED
    BY <1>2, <1>3, <1>4, <1>5, <1>6, <1>7, <1>8 DEF TypeInv

-----------------------------------------------------------------------------
(* What is counted.                                                        *)

LEMMA DisjointUnion ==
    ASSUME NEW S, NEW T, IsFiniteSet(S), IsFiniteSet(T), S \cap T = {}
    PROVE  /\ IsFiniteSet(S \cup T)
           /\ Cardinality(S \cup T) = Cardinality(S) + Cardinality(T)
  <1>1. Cardinality(S \cap T) = 0
    <2>1. Cardinality({}) = 0
      BY FS_EmptySet
    <2>2. S \cap T = {}
      OBVIOUS
    <2>. QED
      BY <2>1, <2>2, Zenon
  <1>2. Cardinality(S) \in Nat /\ Cardinality(T) \in Nat
    BY FS_CardinalityType
  <1>3. /\ IsFiniteSet(S \cup T)
        /\ Cardinality(S \cup T) =
              Cardinality(S) + Cardinality(T) - Cardinality(S \cap T)
    BY FS_Union
  <1>. QED
    BY <1>1, <1>2, <1>3

LEMMA Row ==
    ASSUME NEW r, NEW n \in Nat
    PROVE  /\ IsFiniteSet({r} \X (1..n)) /\ Cardinality({r} \X (1..n)) = n
  <1>1. IsFiniteSet({r}) /\ Cardinality({r}) = 1
    BY FS_Singleton
  <1>2. IsFiniteSet(1..n) /\ Cardinality(1..n) = n
    BY FS_Interval
  <1>3. /\ IsFiniteSet({r} \X (1..n))
        /\ Cardinality({r} \X (1..n)) = Cardinality({r}) * Cardinality(1..n)
    BY <1>1, <1>2, FS_Product
  <1>. QED
    BY <1>1, <1>2, <1>3

LEMMA BufferedChange ==
    ASSUME buffer \in [Readers -> Seq(Ids)], IsFiniteSet(Buffered),
           NEW r \in Readers, NEW s \in Seq(Ids),
           buffer' = [buffer EXCEPT ![r] = s]
    PROVE  /\ IsFiniteSet(Buffered')
           /\ Len(s) \in Nat /\ Len(buffer[r]) \in Nat
           /\ Cardinality(Buffered') =
                 Cardinality(Buffered) - Len(buffer[r]) + Len(s)
  <1>. DEFINE Rest == {p \in Buffered : p[1] # r}
              Old == {r} \X (1..Len(buffer[r]))
              Now == {r} \X (1..Len(s))
  <1>1. Len(s) \in Nat /\ Len(buffer[r]) \in Nat
    BY LenProperties
  <1>2. Buffered = Rest \cup Old /\ Rest \cap Old = {}
    BY <1>1 DEF Buffered
  <1>3. Buffered' = Rest \cup Now /\ Rest \cap Now = {}
    BY <1>1 DEF Buffered
  <1>4. /\ IsFiniteSet(Old) /\ Cardinality(Old) = Len(buffer[r])
        /\ IsFiniteSet(Now) /\ Cardinality(Now) = Len(s)
    BY <1>1, Row
  <1>5. IsFiniteSet(Rest)
    BY FS_Subset
  <1>. HIDE DEF Rest, Old, Now
  <1>6. Cardinality(Buffered) = Cardinality(Rest) + Len(buffer[r])
    BY <1>2, <1>4, <1>5, DisjointUnion
  <1>7. IsFiniteSet(Buffered') /\ Cardinality(Buffered') = Cardinality(Rest) + Len(s)
    BY <1>3, <1>4, <1>5, DisjointUnion
  <1>8. Cardinality(Rest) \in Nat
    BY <1>5, FS_CardinalityType
  <1>. QED
    BY <1>1, <1>6, <1>7, <1>8

Copies(h) == {p \in Delivery \X Nat : p[1] \in DOMAIN h /\ p[2] \in 1..h[p[1]]}

LEMMA CopiesAdded ==
    ASSUME NEW h, IsABag(h), NEW d \in Delivery, IsFiniteSet(Copies(h))
    PROVE  /\ IsFiniteSet(Copies(h (+) Lone(d)))
           /\ Cardinality(Copies(h (+) Lone(d))) = Cardinality(Copies(h)) + 1
  <1>. DEFINE n == IF d \in DOMAIN h THEN h[d] ELSE 0
              g == h (+) Lone(d)
  <1>1. n \in Nat
    BY DEF IsABag
  <1>2. /\ DOMAIN g = DOMAIN h \cup {d} /\ g[d] = n + 1
        /\ \A e \in DOMAIN h : e # d => g[e] = h[e]
    BY Added, <1>1
  <1>. HIDE DEF g
  <1>3. ASSUME NEW p \in Delivery \X Nat
        PROVE  p \in Copies(g) <=> p \in Copies(h) \/ p = <<d, n + 1>>
    <2>1. CASE p[1] # d
      BY <2>1, <1>2 DEF Copies
    <2>2. CASE p[1] = d /\ d \in DOMAIN h
      <3>1. p \in Copies(g) <=> p[2] \in 1..(n + 1)
        BY <2>2, <1>2, <1>3 DEF Copies
      <3>2. p \in Copies(h) <=> p[2] \in 1..n
        BY <2>2, <1>3 DEF Copies
      <3>3. p[2] \in 1..(n + 1) <=> p[2] \in 1..n \/ p[2] = n + 1
        BY <1>1, <1>3
      <3>4. p = <<d, n + 1>> <=> p[2] = n + 1
        BY <2>2, <1>3
      <3>. QED
        BY <3>1, <3>2, <3>3, <3>4
    <2>3. CASE p[1] = d /\ d \notin DOMAIN h
      <3>1. p \in Copies(g) <=> p[2] \in 1..1
        BY <2>3, <1>2, <1>3 DEF Copies
      <3>2. p \notin Copies(h)
        BY <2>3 DEF Copies
      <3>3. p = <<d, n + 1>> <=> p[2] = 1
        BY <2>3, <1>3
      <3>. QED
        BY <3>1, <3>2, <3>3
    <2>. QED
      BY <2>1, <2>2, <2>3
  <1>4. Copies(g) \subseteq Delivery \X Nat /\ Copies(h) \subseteq Delivery \X Nat
        /\ <<d, n + 1>> \in Delivery \X Nat
    BY <1>1 DEF Copies
  <1>5. Copies(g) = Copies(h) \cup {<<d, n + 1>>}
    BY <1>3, <1>4
  <1>6. <<d, n + 1>> \notin Copies(h)
    BY <1>1 DEF Copies
  <1>. HIDE DEF n
  <1>. QED
    BY <1>5, <1>6, FS_AddElement DEF g

LEMMA CopiesRemoved ==
    ASSUME NEW h, IsABag(h), NEW d \in Delivery, d \in DOMAIN h,
           IsFiniteSet(Copies(h))
    PROVE  /\ IsFiniteSet(Copies(h (-) Lone(d)))
           /\ Cardinality(Copies(h (-) Lone(d))) = Cardinality(Copies(h)) - 1
  <1>. DEFINE g == h (-) Lone(d)
  <1>1. h[d] \in Nat \ {0}
    BY DEF IsABag
  <1>2. /\ DOMAIN g = IF h[d] = 1 THEN DOMAIN h \ {d} ELSE DOMAIN h
        /\ h[d] # 1 => g[d] = h[d] - 1
        /\ \A e \in DOMAIN h : e # d => g[e] = h[e]
    BY Removed
  <1>. HIDE DEF g
  <1>3. ASSUME NEW p \in Delivery \X Nat
        PROVE  p \in Copies(g) <=> p \in Copies(h) /\ p # <<d, h[d]>>
    <2>1. CASE p[1] # d
      BY <2>1, <1>2 DEF Copies
    <2>2. CASE p[1] = d /\ h[d] # 1
      <3>1. p \in Copies(g) <=> p[2] \in 1..(h[d] - 1)
        BY <2>2, <1>2, <1>3 DEF Copies
      <3>2. p \in Copies(h) <=> p[2] \in 1..h[d]
        BY <2>2, <1>3 DEF Copies
      <3>3. p[2] \in 1..(h[d] - 1) <=> p[2] \in 1..h[d] /\ p[2] # h[d]
        BY <1>1, <1>3
      <3>4. p = <<d, h[d]>> <=> p[2] = h[d]
        BY <2>2, <1>3
      <3>. QED
        BY <3>1, <3>2, <3>3, <3>4
    <2>3. CASE p[1] = d /\ h[d] = 1
      <3>1. p \notin Copies(g)
        BY <2>3, <1>2 DEF Copies
      <3>2. p \in Copies(h) => p[2] = 1
        BY <2>3, <1>3 DEF Copies
      <3>3. p = <<d, h[d]>> <=> p[2] = 1
        BY <2>3, <1>3
      <3>. QED
        BY <3>1, <3>2, <3>3
    <2>. QED
      BY <2>1, <2>2, <2>3
  <1>4. Copies(g) \subseteq Delivery \X Nat /\ Copies(h) \subseteq Delivery \X Nat
    BY DEF Copies
  <1>5. Copies(g) = Copies(h) \ {<<d, h[d]>>}
    BY <1>3, <1>4
  <1>6. <<d, h[d]>> \in Copies(h)
    BY <1>1 DEF Copies
  <1>. QED
    BY <1>5, <1>6, FS_RemoveElement DEF g

LEMMA Symmetric ==
    ASSUME NEW S, NEW T, IsFiniteSet(S), IsFiniteSet(T)
    PROVE  /\ Cardinality(S) \in Nat /\ Cardinality(T) \in Nat
           /\ Cardinality(S \ T) \in Nat /\ Cardinality(T \ S) \in Nat
           /\ Cardinality(T) =
                 Cardinality(S) + Cardinality(T \ S) - Cardinality(S \ T)
  <1>1. IsFiniteSet(S \cap T) /\ IsFiniteSet(S \ T) /\ IsFiniteSet(T \ S)
    BY FS_Subset
  <1>2. Cardinality(S \ T) = Cardinality(S) - Cardinality(S \cap T)
    BY FS_Difference
  <1>3. Cardinality(T \ S) = Cardinality(T) - Cardinality(T \cap S)
    BY FS_Difference
  <1>4. Cardinality(S \cap T) = Cardinality(T \cap S)
    <2>1. S \cap T = T \cap S
      OBVIOUS
    <2>. QED
      BY <2>1, Zenon
  <1>5. /\ Cardinality(S) \in Nat /\ Cardinality(T) \in Nat
        /\ Cardinality(S \ T) \in Nat /\ Cardinality(T \ S) \in Nat
        /\ Cardinality(S \cap T) \in Nat
    BY <1>1, FS_CardinalityType
  <1>. QED
    BY <1>2, <1>3, <1>4, <1>5

\* The parts of Tokens, as numbers.
LEMMA TokenTypes ==
    ASSUME TypeInv, CountInv
    PROVE  /\ IsFiniteSet(owed) /\ IsFiniteSet(linkHeld)
           /\ Cardinality(owed) \in Nat /\ Cardinality(linkHeld) \in Nat
           /\ Cardinality(Buffered) \in Nat /\ Cardinality(Handled) \in Nat
           /\ readds \in Nat /\ count \in Int /\ last \in Nat
           /\ count >= Cardinality(owed) + Cardinality(linkHeld) + readds
                         + Cardinality(Buffered) + Cardinality(Handled)
           /\ IsFiniteSet(Buffered) /\ IsFiniteSet(Handled)
  <1>1. last \in Nat /\ owed \subseteq 1..last /\ linkHeld \subseteq 1..last
        /\ readds \in Nat
    BY InProcessAssumption DEF TypeInv, KeysTyped, TrackedTyped
  <1>2. IsFiniteSet(1..last)
    BY <1>1, FS_Interval
  <1>3. IsFiniteSet(owed)
    BY <1>1, <1>2, FS_Subset
  <1>4. IsFiniteSet(linkHeld)
    BY <1>1, <1>2, FS_Subset
  <1>5. /\ Cardinality(owed) \in Nat /\ Cardinality(linkHeld) \in Nat
        /\ Cardinality(Buffered) \in Nat /\ Cardinality(Handled) \in Nat
    BY <1>3, <1>4, FS_CardinalityType DEF CountInv
  <1>. QED
    BY <1>1, <1>3, <1>4, <1>5 DEF CountInv, Tokens

LEMMA OwedFinite ==
    ASSUME TypeInv' PROVE IsFiniteSet(owed') /\ IsFiniteSet(linkHeld')
  <1>1. last' \in Nat /\ owed' \subseteq 1..last' /\ linkHeld' \subseteq 1..last'
    BY InProcessAssumption DEF TypeInv, KeysTyped, TrackedTyped
  <1>2. IsFiniteSet(1..last')
    BY <1>1, FS_Interval
  <1>3. IsFiniteSet(owed')
    BY <1>1, <1>2, FS_Subset
  <1>4. IsFiniteSet(linkHeld')
    BY <1>1, <1>2, FS_Subset
  <1>. QED
    BY <1>3, <1>4

\* A count that moved as what is counted did still covers it.
LEMMA Balanced ==
    ASSUME TypeInv, CountInv, IsFiniteSet(Buffered'), IsFiniteSet(Handled'),
           NEW o \in Int, NEW l \in Int, NEW a \in Int, NEW b \in Int,
           NEW h \in Int, NEW c \in Int,
           Cardinality(owed') = Cardinality(owed) + o,
           Cardinality(linkHeld') = Cardinality(linkHeld) + l,
           readds' = readds + a,
           Cardinality(Buffered') = Cardinality(Buffered) + b,
           Cardinality(Handled') = Cardinality(Handled) + h,
           count' = count + c, c >= o + l + a + b + h
    PROVE  CountInv'
  BY TokenTypes DEF CountInv, Tokens

LEMMA HandledIsCopies == Handled = Copies(hands) /\ Handled' = Copies(hands')
  BY DEF Handled, Copies

LEMMA SameBuffered == ASSUME buffer' = buffer PROVE Buffered' = Buffered
  BY DEF Buffered
LEMMA SameHandled == ASSUME hands' = hands PROVE Handled' = Handled
  BY DEF Handled

LEMMA OneType == ASSUME NEW t PROVE One(t) \in {0, 1}
  BY DEF One

LEMMA RecountCount ==
    ASSUME TypeInv, TypeInv', CountInv, Recount, linkHeld' = linkHeld,
           readds' = readds, hands' = hands,
           IsFiniteSet(Buffered'), Cardinality(Buffered') <= Cardinality(Buffered)
    PROVE  CountInv'
  <1>1. /\ IsFiniteSet(owed') /\ IsFiniteSet(owed)
        /\ Cardinality(Buffered) \in Nat
    BY TokenTypes, OwedFinite
  <1>2. /\ Cardinality(owed' \ owed) \in Nat /\ Cardinality(owed \ owed') \in Nat
        /\ Cardinality(owed') = Cardinality(owed)
              + Cardinality(owed' \ owed) - Cardinality(owed \ owed')
    BY <1>1, Symmetric
  <1>3. count' = count + Cardinality(owed' \ owed) - Cardinality(owed \ owed')
    BY DEF Recount, Recounted
  <1>4. Cardinality(Buffered') \in Nat
    BY FS_CardinalityType
  <1>. DEFINE c == Cardinality(owed' \ owed) - Cardinality(owed \ owed')
              b == Cardinality(Buffered') - Cardinality(Buffered)
  <1>5. c \in Int /\ b \in Int /\ b <= 0
    BY <1>1, <1>2, <1>4
  <1>6. Cardinality(owed') = Cardinality(owed) + c /\ count' = count + c
    BY <1>2, <1>3, TokenTypes
  <1>7. Cardinality(Buffered') = Cardinality(Buffered) + b
    BY <1>1, <1>4
  <1>. HIDE DEF c, b
  <1>8. Handled' = Handled /\ IsFiniteSet(Handled)
    BY TokenTypes, SameHandled
  <1>9. /\ Cardinality(linkHeld') = Cardinality(linkHeld) + 0
        /\ readds' = readds + 0
        /\ Cardinality(Handled') = Cardinality(Handled) + 0
        /\ c >= c + 0 + 0 + b + 0
    BY <1>5, <1>8, TokenTypes
  <1>. QED
    BY <1>5, <1>6, <1>7, <1>8, <1>9, Balanced

LEMMA XaddCount ==
    ASSUME TypeInv, CountInv, Xadd, linkHeld' = linkHeld, buffer' = buffer,
           IsFiniteSet(Handled'), Cardinality(Handled') = Cardinality(Handled)
    PROVE  CountInv'
  <1>. DEFINE f == One(AnyFresh(attached))
              a == One(readds > 0)
  <1>1. f \in {0, 1} /\ a \in {0, 1} /\ (a = 1 => readds > 0)
    BY OneType DEF One
  <1>2. readds' = readds - a /\ count' = count + f - a
    BY DEF Xadd
  <1>3. Cardinality(owed') = Cardinality(owed) + f
    <2>1. last + 1 \notin owed /\ IsFiniteSet(owed) /\ Cardinality(owed) \in Nat
      BY TokenTypes DEF TypeInv, TrackedTyped
    <2>2. CASE AnyFresh(attached)
      <3>1. owed' = owed \cup {last + 1}
        BY <2>2 DEF Xadd
      <3>2. Cardinality(owed') = Cardinality(owed) + 1
        BY <3>1, <2>1, FS_AddElement
      <3>. QED
        BY <3>2, <2>2 DEF One
    <2>3. CASE ~AnyFresh(attached)
      BY <2>1, <2>3 DEF Xadd, One
    <2>. QED
      BY <2>2, <2>3
  <1>4. Buffered' = Buffered /\ IsFiniteSet(Buffered)
    BY SameBuffered, TokenTypes
  <1>. HIDE DEF f, a
  <1>5. /\ Cardinality(linkHeld') = Cardinality(linkHeld) + 0
        /\ readds' = readds + (0 - a)
        /\ Cardinality(Buffered') = Cardinality(Buffered) + 0
        /\ Cardinality(Handled') = Cardinality(Handled) + 0
        /\ count' = count + (f - a) /\ f - a >= f + 0 + (0 - a) + 0 + 0
        /\ f \in Int /\ 0 - a \in Int /\ f - a \in Int
    BY <1>1, <1>2, <1>4, TokenTypes
  <1>. QED
    BY <1>3, <1>4, <1>5, Balanced

LEMMA Grown ==
    ASSUME NEW S, IsFiniteSet(S), NEW T, IsFiniteSet(T)
    PROVE  /\ IsFiniteSet(S \cup T) /\ Cardinality(T \ S) \in Nat
           /\ Cardinality(S \cup T) = Cardinality(S) + Cardinality(T \ S)
  <1>1. IsFiniteSet(T \ S)
    BY FS_Subset
  <1>2. S \cup T = S \cup (T \ S) /\ S \cap (T \ S) = {}
    OBVIOUS
  <1>3. Cardinality(S \cup (T \ S)) = Cardinality(S) + Cardinality(T \ S)
        /\ IsFiniteSet(S \cup (T \ S))
    BY <1>1, <1>2, DisjointUnion
  <1>4. Cardinality(T \ S) \in Nat
    BY <1>1, FS_CardinalityType
  <1>. QED
    BY <1>2, <1>3, <1>4, Zenon

LEMMA TickCount == ASSUME TypeInv, CountInv, Tick PROVE CountInv'
  <1>. DEFINE idle == Due("claim", pending, 1)
              ripe == Due("link", score, 0)
              more == IF AnyClaims(attached) THEN idle ELSE {}
              hold == IF AnyFresh(attached) THEN ripe ELSE {}
  <1>1. /\ owed' = owed \cup more /\ linkHeld' = linkHeld \cup hold
        /\ count' = count + Cardinality(more \ owed)
                          + Cardinality(hold \ linkHeld)
        /\ UNCHANGED <<readds, buffer, hands>>
    BY DEF Tick, reading
  <1>2. IsFiniteSet(more) /\ IsFiniteSet(hold)
    <2>1. last \in Nat /\ more \subseteq 1..last /\ hold \subseteq 1..last
      BY InProcessAssumption, Due1 DEF TypeInv, KeysTyped
    <2>2. IsFiniteSet(1..last)
      BY <2>1, FS_Interval
    <2>3. IsFiniteSet(more)
      BY <2>1, <2>2, FS_Subset
    <2>4. IsFiniteSet(hold)
      BY <2>1, <2>2, FS_Subset
    <2>. QED
      BY <2>3, <2>4
  <1>. HIDE DEF more, hold
  <1>. DEFINE o == Cardinality(more \ owed)
              l == Cardinality(hold \ linkHeld)
  <1>3. o \in Nat /\ Cardinality(owed') = Cardinality(owed) + o
    BY <1>1, <1>2, TokenTypes, Grown
  <1>4. l \in Nat /\ Cardinality(linkHeld') = Cardinality(linkHeld) + l
    BY <1>1, <1>2, TokenTypes, Grown
  <1>. HIDE DEF o, l
  <1>5. count' = count + (o + l)
    BY <1>1, <1>3, <1>4, TokenTypes DEF o, l
  <1>6. Buffered' = Buffered /\ Handled' = Handled
    BY <1>1, SameBuffered, SameHandled
  <1>7. /\ IsFiniteSet(Buffered') /\ IsFiniteSet(Handled')
        /\ readds' = readds + 0
        /\ Cardinality(Buffered') = Cardinality(Buffered) + 0
        /\ Cardinality(Handled') = Cardinality(Handled) + 0
        /\ o + l >= o + l + 0 + 0 + 0
        /\ o \in Int /\ l \in Int /\ o + l \in Int
    BY <1>1, <1>3, <1>4, <1>6, TokenTypes
  <1>. QED
    BY <1>3, <1>4, <1>5, <1>7, Balanced

\* A buffer that is discarded, with its counts, or not.
LEMMA BufferCount ==
    ASSUME TypeInv, CountInv, NEW r \in Readers, NEW s \in Seq(Ids),
           buffer' = [buffer EXCEPT ![r] = s],
           UNCHANGED <<owed, linkHeld, readds>>,
           IsFiniteSet(Handled'), count' \in Int,
           count' - count >= Len(s) - Len(buffer[r])
                               + Cardinality(Handled') - Cardinality(Handled)
    PROVE  CountInv'
  <1>1. buffer \in [Readers -> Seq(Ids)] /\ IsFiniteSet(Buffered)
    BY TokenTypes DEF TypeInv, ReadersTyped
  <1>2. /\ IsFiniteSet(Buffered')
        /\ Len(s) \in Nat /\ Len(buffer[r]) \in Nat
        /\ Cardinality(Buffered') =
              Cardinality(Buffered) - Len(buffer[r]) + Len(s)
    BY <1>1, BufferedChange
  <1>3. Cardinality(Handled') \in Nat
    BY FS_CardinalityType
  <1>4. /\ Cardinality(owed') = Cardinality(owed)
        /\ Cardinality(linkHeld') = Cardinality(linkHeld) /\ readds' = readds
    OBVIOUS
  <1>. DEFINE k == Cardinality(owed) + Cardinality(linkHeld) + readds
              m == Len(buffer[r])
              n == Len(s)
              b == Cardinality(Buffered)
              h == Cardinality(Handled)
              bb == Cardinality(Buffered')
              hh == Cardinality(Handled')
              d == count'
  <1>k. /\ Cardinality(owed) \in Nat /\ Cardinality(linkHeld) \in Nat
        /\ readds \in Nat /\ b \in Nat /\ h \in Nat
    BY TokenTypes
  <1>c. count \in Int
    BY DEF CountInv
  <1>5. /\ k \in Nat /\ m \in Nat /\ n \in Nat /\ b \in Nat /\ h \in Nat
        /\ hh \in Nat /\ count \in Int /\ d \in Int
    BY <1>k, <1>c, <1>2, <1>3
  <1>6. bb = b - m + n
    BY <1>2
  <1>7. count >= k + b + h
    BY DEF CountInv, Tokens
  <1>8. Tokens' = k + bb + hh
    BY <1>4 DEF Tokens
  <1>9. d - count >= n - m + hh - h
    OBVIOUS
  <1>10. IsFiniteSet(Buffered') /\ count' = d
    BY <1>2
  <1>. HIDE DEF k, m, n, b, h, bb, hh, d
  <1>11. d >= k + bb + hh
    BY <1>5, <1>6, <1>7, <1>9
  <1>. QED
    BY <1>5, <1>8, <1>10, <1>11 DEF CountInv

LEMMA DiscardCount ==
    ASSUME TypeInv, CountInv, NEW r \in Readers, Discard(r),
           UNCHANGED <<owed, linkHeld, readds, hands>>
    PROVE  CountInv'
  <1>1. Handled' = Handled /\ IsFiniteSet(Handled)
    BY SameHandled, TokenTypes
  <1>2. buffer[r] \in Seq(Ids) /\ Len(buffer[r]) \in Nat /\ <<>> \in Seq(Ids)
        /\ Len(<<>>) = 0
    BY LenProperties, EmptySeq DEF TypeInv, ReadersTyped
  <1>3. /\ buffer' = [buffer EXCEPT ![r] = <<>>]
        /\ count' = count - Len(buffer[r])
    BY DEF Discard
  <1>4. /\ count' \in Int /\ IsFiniteSet(Handled')
        /\ count' - count >= Len(<<>>) - Len(buffer[r])
                              + Cardinality(Handled') - Cardinality(Handled)
    BY <1>1, <1>2, <1>3, TokenTypes
  <1>. QED
    BY <1>2, <1>3, <1>4, BufferCount

LEMMA YieldCount ==
    ASSUME TypeInv, CountInv, NEW r \in Readers, Yield(r) PROVE CountInv'
  <1>1. UNCHANGED <<owed, linkHeld, readds>>
    BY DEF Yield, tracked
  <1>2. CASE moved[r]
    BY <1>1, <1>2, DiscardCount DEF Yield
  <1>3. CASE ~moved[r]
    <2>. DEFINE x == Head(buffer[r])
                c == [id |-> x, stage |-> "held"]
                s == Tail(buffer[r])
    <2>1. /\ hands' = hands (+) Lone(c) /\ buffer[r] # <<>>
          /\ buffer' = [buffer EXCEPT ![r] = s] /\ count' = count
      BY <1>3 DEF Yield
    <2>2. buffer[r] \in Seq(Ids) /\ IsABag(hands)
      BY DEF TypeInv, ReadersTyped, HandsTyped
    <2>3. x \in Ids /\ s \in Seq(Ids) /\ Len(s) = Len(buffer[r]) - 1
          /\ Len(buffer[r]) \in Nat
      BY <2>1, <2>2, HeadTailProperties, LenProperties
    <2>4. c \in Delivery
      BY <2>3 DEF Delivery
    <2>. HIDE DEF c, s, x
    <2>5. IsFiniteSet(Handled') /\ Cardinality(Handled') = Cardinality(Handled) + 1
      BY <2>1, <2>2, <2>4, CopiesAdded, HandledIsCopies, TokenTypes
    <2>6. /\ count' \in Int
          /\ count' - count >= Len(s) - Len(buffer[r])
                                + Cardinality(Handled') - Cardinality(Handled)
      BY <2>1, <2>3, <2>5, TokenTypes
    <2>. QED
      BY <2>1, <2>3, <2>5, <2>6, <1>1, BufferCount
  <1>. QED
    BY <1>2, <1>3

LEMMA ReadCount ==
    ASSUME TypeInv, CountInv, NEW r \in Readers, Read(r) PROVE CountInv'
  <1>. DEFINE s == InOrder(Claimed(r)) \o InOrder(Taken(r))
  <1>k. KeysTyped /\ buffer \in [Readers -> Seq(Ids)] /\ last \in Nat
    BY TokenTypes DEF TypeInv, ReadersTyped
  <1>1. /\ buffer' = [buffer EXCEPT ![r] = s] /\ owed' = owed \ Out(r)
        /\ count' = count + Len(buffer'[r]) - Cardinality(Out(r) \cap owed)
        /\ UNCHANGED <<linkHeld, readds, hands>>
    BY ReadParts
  <1>2. s \in Seq(Ids)
    <2>1. s \in Seq(1..last)
      BY <1>k, ReadBuffer
    <2>2. 1..last \subseteq Ids
      BY <1>k, InProcessAssumption DEF KeysTyped, Ids
    <2>. QED
      BY <2>1, <2>2, SeqMonotonic
  <1>. HIDE DEF s
  <1>3. /\ IsFiniteSet(Buffered') /\ Len(s) \in Nat /\ Len(buffer[r]) \in Nat
        /\ Cardinality(Buffered') =
              Cardinality(Buffered) - Len(buffer[r]) + Len(s)
    BY <1>1, <1>2, <1>k, TokenTypes, BufferedChange
  <1>. DEFINE n == Cardinality(Out(r) \cap owed)
  <1>4. n \in Nat /\ Cardinality(owed') = Cardinality(owed) - n
    <2>1. IsFiniteSet(owed) /\ IsFiniteSet(owed \cap Out(r))
      BY TokenTypes, FS_Intersection
    <2>2. Cardinality(owed \ Out(r)) =
             Cardinality(owed) - Cardinality(owed \cap Out(r))
      BY <2>1, FS_Difference
    <2>3. owed \cap Out(r) = Out(r) \cap owed
      OBVIOUS
    <2>4. n = Cardinality(owed \cap Out(r))
      BY <2>3, Zenon
    <2>5. n \in Nat
      BY <2>1, <2>4, FS_CardinalityType
    <2>. HIDE DEF n
    <2>. QED
      BY <2>2, <2>4, <2>5, <1>1
  <1>5. count' = count + Len(s) - n
    <2>1. buffer'[r] = s
      BY <1>1, <1>k
    <2>. QED
      BY <1>1, <2>1
  <1>. HIDE DEF n
  <1>6. Handled' = Handled /\ IsFiniteSet(Handled)
    BY <1>1, SameHandled, TokenTypes
  <1>7. /\ Cardinality(linkHeld') = Cardinality(linkHeld) /\ readds' = readds
        /\ Cardinality(Handled') = Cardinality(Handled)
    BY <1>1, <1>6
  <1>. HIDE DEF n
  <1>. DEFINE k == Cardinality(linkHeld) + readds + Cardinality(Handled)
              m == Len(buffer[r])
              z == Len(s)
              b == Cardinality(Buffered)
              o == Cardinality(owed)
              c == count
  <1>8. /\ k \in Nat /\ m \in Nat /\ z \in Nat /\ b \in Nat /\ o \in Nat
        /\ c \in Int /\ n \in Nat
    BY <1>3, <1>4, TokenTypes
  <1>9. c >= k + b + o
    BY TokenTypes DEF CountInv, Tokens
  <1>10. Tokens' = k + (b - m + z) + (o - n)
    <2>1. Tokens' = (o - n) + Cardinality(linkHeld) + readds
                       + (b - m + z) + Cardinality(Handled)
      BY <1>3, <1>4, <1>7 DEF Tokens
    <2>2. /\ Cardinality(linkHeld) \in Nat /\ readds \in Nat
          /\ Cardinality(Handled) \in Nat
      BY TokenTypes
    <2>3. k = Cardinality(linkHeld) + readds + Cardinality(Handled)
      OBVIOUS
    <2>. HIDE DEF k, m, z, b, o
    <2>. QED
      BY <1>8, <2>1, <2>2, <2>3
  <1>11. count' = c + z - n
    BY <1>5
  <1>. HIDE DEF k, m, z, b, o, c
  <1>12. c + z - n \in Int /\ c + z - n >= k + (b - m + z) + (o - n)
    BY <1>8, <1>9
  <1>. QED
    BY <1>3, <1>6, <1>10, <1>11, <1>12 DEF CountInv

LEMMA ClaimCount ==
    ASSUME TypeInv, CountInv, NEW r \in Readers, NEW m \in todo[r], Claim(r, m)
    PROVE  CountInv'
  <1>1. UNCHANGED <<owed, buffer, hands>>
    BY DEF Claim
  <1>2. Buffered' = Buffered /\ Handled' = Handled
        /\ IsFiniteSet(Buffered) /\ IsFiniteSet(Handled)
    BY <1>1, SameBuffered, SameHandled, TokenTypes
  <1>. DEFINE a == IF m \in DOMAIN score THEN One(m \in linkHeld) ELSE 0
  <1>3. a \in Int /\ 0 - a \in Int
    BY OneType
  <1>4. Cardinality(linkHeld') = Cardinality(linkHeld) + (0 - a)
    <2>1. CASE m \in DOMAIN score
      <3>1. linkHeld' = linkHeld \ {m}
        BY <2>1 DEF Claim
      <3>2. Cardinality(linkHeld') = IF m \in linkHeld
               THEN Cardinality(linkHeld) - 1 ELSE Cardinality(linkHeld)
        BY <3>1, TokenTypes, FS_RemoveElement
      <3>. QED
        BY <3>2, <2>1, TokenTypes DEF One
    <2>2. CASE m \notin DOMAIN score
      BY <2>2, TokenTypes DEF Claim
    <2>. QED
      BY <2>1, <2>2
  <1>5. readds' = readds + a /\ count' = count + 0
    <2>1. CASE m \in DOMAIN score
      <3>1. readds' = readds + One(m \in linkHeld)
            /\ count' = count - One(m \in linkHeld) + One(m \in linkHeld)
        BY <2>1 DEF Claim, PassedOn
      <3>. QED
        BY <3>1, <2>1, OneType, TokenTypes
    <2>2. CASE m \notin DOMAIN score
      BY <2>2, TokenTypes DEF Claim
    <2>. QED
      BY <2>1, <2>2
  <1>. HIDE DEF a
  <1>6. /\ Cardinality(owed') = Cardinality(owed) + 0
        /\ Cardinality(Buffered') = Cardinality(Buffered) + 0
        /\ Cardinality(Handled') = Cardinality(Handled) + 0
        /\ 0 >= 0 + (0 - a) + a + 0 + 0
    BY <1>1, <1>2, <1>3, TokenTypes
  <1>. QED
    BY <1>2, <1>3, <1>4, <1>5, <1>6, TokenTypes DEF CountInv, Tokens

LEMMA GoneCount ==
    ASSUME TypeInv, CountInv, NEW d \in DOMAIN hands, hands' = hands (-) Lone(d)
    PROVE  IsFiniteSet(Handled') /\ Cardinality(Handled') = Cardinality(Handled) - 1
  <1>1. IsABag(hands) /\ d \in Delivery
    BY DEF TypeInv, HandsTyped
  <1>. QED
    BY <1>1, CopiesRemoved, HandledIsCopies, TokenTypes

LEMMA CopiedCount ==
    ASSUME TypeInv, CountInv, NEW d \in DOMAIN hands, hands' = Copied(d)
    PROVE  IsFiniteSet(Handled') /\ Cardinality(Handled') = Cardinality(Handled)
  <1>. DEFINE b == hands (-) Lone(d)
              c == [d EXCEPT !.stage = "copied"]
  <1>1. IsABag(hands) /\ d \in Delivery /\ c \in Delivery
    BY DEF TypeInv, HandsTyped, Delivery
  <1>2. IsABag(b)
    BY <1>1, Removed
  <1>3. IsFiniteSet(Copies(b)) /\ Cardinality(Copies(b)) = Cardinality(Handled) - 1
    BY <1>1, CopiesRemoved, HandledIsCopies, TokenTypes
  <1>4. hands' = b (+) Lone(c)
    BY DEF Copied
  <1>. HIDE DEF b, c
  <1>5. /\ IsFiniteSet(Copies(b (+) Lone(c)))
        /\ Cardinality(Copies(b (+) Lone(c))) = Cardinality(Copies(b)) + 1
    BY <1>1, <1>2, <1>3, CopiesAdded
  <1>6. Handled' = Copies(b (+) Lone(c))
    BY <1>4, HandledIsCopies
  <1>. QED
    BY <1>3, <1>5, <1>6, TokenTypes

LEMMA AckCount ==
    ASSUME TypeInv, CountInv, NEW d \in DOMAIN hands, Ack(d) PROVE CountInv'
  <1>1. UNCHANGED <<linkHeld, readds, buffer>> /\ hands' = hands (-) Lone(d)
    BY DEF Ack, reading
  <1>2. Buffered' = Buffered /\ IsFiniteSet(Buffered) /\ IsFiniteSet(Handled')
        /\ Cardinality(Handled') = Cardinality(Handled) - 1
    BY <1>1, SameBuffered, GoneCount, TokenTypes
  <1>. DEFINE o == IF d.id \in DOMAIN pending THEN One(d.id \in owed) ELSE 0
  <1>3. o \in Int /\ 0 - o \in Int /\ (0 - 1) - o \in Int
    BY OneType
  <1>4. Cardinality(owed') = Cardinality(owed) + (0 - o)
    <2>1. CASE d.id \in DOMAIN pending
      <3>1. owed' = owed \ {d.id}
        BY <2>1 DEF Ack, NotOwed
      <3>2. Cardinality(owed') = IF d.id \in owed
               THEN Cardinality(owed) - 1 ELSE Cardinality(owed)
        BY <3>1, TokenTypes, FS_RemoveElement
      <3>. QED
        BY <3>2, <2>1, TokenTypes DEF One
    <2>2. CASE d.id \notin DOMAIN pending
      BY <2>2, TokenTypes DEF Ack
    <2>. QED
      BY <2>1, <2>2
  <1>5. count' = count + ((0 - 1) - o)
    <2>1. CASE d.id \in DOMAIN pending
      BY <2>1, OneType, TokenTypes DEF Ack
    <2>2. CASE d.id \notin DOMAIN pending
      BY <2>2, TokenTypes DEF Ack
    <2>. QED
      BY <2>1, <2>2
  <1>. HIDE DEF o
  <1>6. /\ Cardinality(linkHeld') = Cardinality(linkHeld) + 0
        /\ readds' = readds + 0
        /\ Cardinality(Buffered') = Cardinality(Buffered) + 0
        /\ Cardinality(Handled') = Cardinality(Handled) + (0 - 1)
        /\ (0 - 1) - o >= (0 - o) + 0 + 0 + 0 + (0 - 1)
        /\ 0 - 1 \in Int
    BY <1>1, <1>2, <1>3, TokenTypes
  <1>. QED
    BY <1>2, <1>3, <1>4, <1>5, <1>6, Balanced

\* Nothing that is counted changes.
LEMMA CountSame ==
    ASSUME CountInv, UNCHANGED <<owed, linkHeld, readds, buffer, hands, count>>
    PROVE  CountInv'
  <1>1. Buffered' = Buffered /\ Handled' = Handled
    BY SameBuffered, SameHandled
  <1>. QED
    BY <1>1 DEF CountInv, Tokens

\* A handler's delivery becomes a copied one and nothing else is counted.
LEMMA ScheduleCount ==
    ASSUME TypeInv, CountInv, NEW d \in DOMAIN hands, Schedule(d) PROVE CountInv'
  <1>1. hands' = Copied(d) /\ UNCHANGED <<owed, linkHeld, readds, buffer, count>>
    BY DEF Schedule, reading
  <1>2. IsFiniteSet(Handled') /\ Cardinality(Handled') = Cardinality(Handled)
    BY <1>1, CopiedCount
  <1>3. Buffered' = Buffered
    BY <1>1, SameBuffered
  <1>. QED
    BY <1>1, <1>2, <1>3 DEF CountInv, Tokens

LEMMA LeaveCount ==
    ASSUME TypeInv, CountInv, NEW d \in DOMAIN hands, Leave(d) PROVE CountInv'
  <1>1. /\ hands' = hands (-) Lone(d) /\ count' = count - 1
        /\ UNCHANGED <<owed, linkHeld, readds, buffer>>
    BY DEF Leave, reading, tracked
  <1>2. IsFiniteSet(Handled') /\ Cardinality(Handled') = Cardinality(Handled) - 1
    BY <1>1, GoneCount
  <1>3. Buffered' = Buffered /\ IsFiniteSet(Buffered)
    BY <1>1, SameBuffered, TokenTypes
  <1>. DEFINE k == Cardinality(owed) + Cardinality(linkHeld) + readds
                      + Cardinality(Buffered)
              h == Cardinality(Handled)
              c == count
  <1>4. k \in Nat /\ h \in Nat /\ c \in Int /\ c >= k + h
    BY TokenTypes
  <1>5. Tokens' = k + (h - 1)
    BY <1>1, <1>2, <1>3 DEF Tokens
  <1>6. count' = c - 1
    BY <1>1
  <1>. HIDE DEF k, h, c
  <1>7. c - 1 \in Int /\ c - 1 >= k + (h - 1)
    BY <1>4
  <1>. QED
    BY <1>2, <1>3, <1>5, <1>6, <1>7 DEF CountInv

LEMMA DetachCount ==
    ASSUME TypeInv, TypeInv', CountInv, NEW r \in Readers, Detach(r)
    PROVE  CountInv'
  <1>1. /\ buffer' = [buffer EXCEPT ![r] = <<>>] /\ Recount
        /\ UNCHANGED <<linkHeld, readds, hands>>
    BY DEF Detach
  <1>2. buffer \in [Readers -> Seq(Ids)] /\ <<>> \in Seq(Ids) /\ Len(<<>>) = 0
    BY EmptySeq DEF TypeInv, ReadersTyped
  <1>3. /\ IsFiniteSet(Buffered') /\ Len(buffer[r]) \in Nat
        /\ Cardinality(Buffered') =
              Cardinality(Buffered) - Len(buffer[r]) + Len(<<>>)
    BY <1>1, <1>2, TokenTypes, BufferedChange
  <1>4. Cardinality(Buffered') <= Cardinality(Buffered)
    BY <1>2, <1>3, TokenTypes
  <1>. QED
    BY <1>1, <1>3, <1>4, RecountCount

LEMMA SameCount ==
    ASSUME TypeInv, TypeInv', CountInv, Recount,
           UNCHANGED <<linkHeld, readds, buffer, hands>>
    PROVE  CountInv'
  <1>1. /\ Buffered' = Buffered /\ IsFiniteSet(Buffered)
        /\ Cardinality(Buffered) \in Nat
    BY SameBuffered, TokenTypes
  <1>2. IsFiniteSet(Buffered') /\ Cardinality(Buffered') <= Cardinality(Buffered)
    BY <1>1
  <1>. QED
    BY <1>2, RecountCount

LEMMA SettleCount ==
    ASSUME TypeInv, CountInv, NEW d \in DOMAIN hands,
           Ack(d) \/ Requeue(d) \/ Schedule(d) \/ Leave(d)
    PROVE  CountInv'
  <1>1. CASE Requeue(d)
    <2>1. Xadd /\ hands' = Copied(d) /\ UNCHANGED <<linkHeld, buffer>>
      BY <1>1 DEF Requeue, reading
    <2>2. IsFiniteSet(Handled') /\ Cardinality(Handled') = Cardinality(Handled)
      BY <2>1, CopiedCount
    <2>. QED
      BY <2>1, <2>2, XaddCount
  <1>. QED
    BY <1>1, AckCount, ScheduleCount, LeaveCount

LEMMA CountStep ==
    ASSUME TypeInv, TypeInv', CountInv, [Next]_vars PROVE CountInv'
  <1>1. ASSUME NEW i \in live, Delete(i) PROVE CountInv'
    BY <1>1, SameCount DEF Delete, reading
  <1>2. ASSUME Xadd, linkHeld' = linkHeld, buffer' = buffer, hands' = hands
        PROVE  CountInv'
    <2>1. IsFiniteSet(Handled') /\ Cardinality(Handled') = Cardinality(Handled)
      BY <1>2, SameHandled, TokenTypes
    <2>. QED
      BY <1>2, <2>1, XaddCount
  <1>3. CASE Publish
    BY <1>3, <1>2 DEF Publish, reading
  <1>4. ASSUME NEW r \in Readers,
               \/ Attach(r) \/ Detach(r) \/ Bump(r)
               \/ Wake(r) \/ List(r) \/ Readd(r) \/ Read(r)
               \/ Accept(r) \/ Yield(r)
        PROVE  CountInv'
    <2>1. CASE Attach(r)
      BY <2>1, SameCount DEF Attach
    <2>2. CASE Detach(r)
      BY <2>2, DetachCount
    <2>3. CASE Bump(r) \/ Wake(r) \/ List(r)
      BY <2>3, CountSame DEF Bump, Wake, List, tracked
    <2>4. CASE Readd(r)
      BY <2>4, <1>2 DEF Readd
    <2>5. CASE Accept(r)
      <3>1. UNCHANGED <<owed, linkHeld, readds, hands>>
        BY <2>5 DEF Accept, tracked
      <3>2. CASE moved[r]
        BY <3>1, <3>2, <2>5, DiscardCount DEF Accept
      <3>3. CASE ~moved[r]
        BY <3>1, <3>3, <2>5, CountSame DEF Accept
      <3>. QED
        BY <3>2, <3>3
    <2>. QED
      BY <1>4, <2>1, <2>2, <2>3, <2>4, <2>5, ReadCount, YieldCount
  <1>5. ASSUME NEW r \in Readers, NEW m \in todo[r], Claim(r, m) PROVE CountInv'
    BY <1>5, ClaimCount
  <1>6. ASSUME NEW r \in Readers, NEW p \in load.positions, SetId(r, p)
        PROVE  CountInv'
    BY <1>6, SameCount DEF SetId, reading
  <1>7. CASE UNCHANGED vars
    BY <1>7, CountSame DEF vars, tracked, reading
  <1>. QED
    BY NextCases, <1>1, <1>3, <1>4, <1>5, <1>6, <1>7, TickCount, SettleCount

LEMMA InitCount == Init => CountInv
  <1>. SUFFICES ASSUME Init PROVE CountInv
    OBVIOUS
  <1>1. DOMAIN hands = {} /\ \A r \in Readers : buffer[r] = <<>>
    BY DEF Init, EmptyBag, SetToBag
  <1>2. Buffered = {} /\ Handled = {}
    BY <1>1, EmptySeq DEF Buffered, Handled
  <1>3. IsFiniteSet({}) /\ Cardinality({}) = 0
    BY FS_EmptySet
  <1>4. owed = {} /\ linkHeld = {} /\ readds = 0 /\ count = 0
    BY DEF Init
  <1>5. Tokens = Cardinality({}) + Cardinality({}) + 0 + Cardinality({})
                    + Cardinality({})
    BY <1>2, <1>4 DEF Tokens
  <1>. QED
    BY <1>2, <1>3, <1>4, <1>5 DEF CountInv

LEMMA Counted ==
    ASSUME TypeInv, CountInv PROVE TypeOK
  <1>1. count \in Nat
    BY TokenTypes
  <1>2. /\ DOMAIN pending \subseteq 1..last /\ Elems(pending) \subseteq 0..now
        /\ DOMAIN score \subseteq 1..last /\ Elems(score) \subseteq Times
    BY DEF TypeInv, KeysTyped, Elems
  <1>3. /\ load \in Loads
        /\ now \in 0..MaxTime
        /\ last \in 0..MaxEntries /\ cursor \in 0..last
        /\ live \subseteq 1..last
    BY DEF TypeInv, KeysTyped
  <1>4. {owed, claimDue, linkDue, linkHeld} \subseteq SUBSET (1..last)
    BY DEF TypeInv, TrackedTyped
  <1>5. linkHeld \subseteq linkDue /\ readds \in Nat /\ timers \subseteq Timer
    BY DEF TypeInv, TrackedTyped
  <1>6. IsABag(hands) /\ BagToSet(hands) \subseteq Delivery
    BY DEF TypeInv, HandsTyped, BagToSet
  <1>. QED
    BY <1>1, <1>2, <1>3, <1>4, <1>5, <1>6 DEF TypeOK, TypeInv, ReadersTyped

\* Every variable of the server has its type: in particular the in-flight count
\* never goes below zero, whatever is delivered, settled, delayed, dropped or
\* sought, in whatever order (attach, detach, the releases of loopback.rs).
THEOREM TypeCorrect == Spec => []TypeOK
  <1>1. Init => TypeInv /\ CountInv
    BY InitTypes, InitCount
  <1>2. TypeInv /\ CountInv /\ [Next]_vars => (TypeInv /\ CountInv)'
    BY TypesStep, CountStep
  <1>3. TypeInv /\ CountInv => TypeOK
    BY Counted
  <1>. QED
    BY <1>1, <1>2, <1>3, PTL DEF Spec

-----------------------------------------------------------------------------
(* What is owed.                                                           *)

\* No seek goes back to the beginning: such a seek owes again what a handler
\* holds (MCInProcess_replayed.cfg).
NoReplay == \A l \in Loads : "beginning" \notin l.positions

LEMMA WantedIs ==
    ASSUME NEW e, NEW c, NEW d, NEW rs, NEW i
    PROVE  i \in Wanted(e, c, d, rs) <=>
              \/ AnyFresh(rs) /\ i \in e /\ i > c
              \/ AnyClaims(rs) /\ i \in d
  BY DEF Wanted

LEMMA OwedNext ==
    ASSUME load' = load, owed' = Wanted(live', cursor', claimDue', attached')
    PROVE  OwedIsWhatIsThere'
  BY DEF OwedIsWhatIsThere, Wanted, AnyFresh, AnyClaims, Fresh, Claims

LEMMA OwedIs ==
    ASSUME OwedInv, NEW i
    PROVE  i \in owed <=> \/ AnyFresh(attached) /\ i \in live /\ i > cursor
                          \/ AnyClaims(attached) /\ i \in claimDue
  <1>1. owed = Wanted(live, cursor, claimDue, attached)
    BY DEF OwedInv, OwedIsWhatIsThere
  <1>. QED
    BY <1>1, WantedIs

\* What an owed entry has to be after a step.
OwedNow(i) ==
    i \in owed' <=> \/ AnyFresh(attached') /\ i \in live' /\ i > cursor'
                    \/ AnyClaims(attached') /\ i \in claimDue'

LEMMA OwedThen ==
    ASSUME load' = load, \A i : OwedNow(i), \A i \in DOMAIN pending' : i <= cursor'
    PROVE  OwedInv'
  <1>1. \A i : i \in owed' <=> i \in Wanted(live', cursor', claimDue', attached')
    BY WantedIs DEF OwedNow
  <1>2. owed' = Wanted(live', cursor', claimDue', attached')
    BY <1>1
  <1>3. OwedIsWhatIsThere'
    BY <1>2, OwedNext
  <1>. QED
    BY <1>3 DEF OwedInv

\* Nothing the owed entries are counted from changes.
LEMMA OwedSame ==
    ASSUME OwedInv, UNCHANGED <<load, owed, live, cursor, claimDue, attached>>,
           DOMAIN pending' \subseteq DOMAIN pending
    PROVE  OwedInv'
  <1>1. \A i : OwedNow(i)
    BY OwedIs DEF OwedNow
  <1>2. \A i \in DOMAIN pending' : i <= cursor'
    BY DEF OwedInv
  <1>. QED
    BY <1>1, <1>2, OwedThen

\* A recount makes it so, wherever the cursor now is past what is pending.
LEMMA OwedAfresh ==
    ASSUME OwedInv, TypeInv, load' = load, Recount, pending' = pending,
           cursor' \in {cursor, last}
    PROVE  OwedInv'
  <1>1. \A i \in DOMAIN pending : i <= cursor /\ i <= last
    BY InProcessAssumption DEF OwedInv, TypeInv, KeysTyped
  <1>2. owed' = Wanted(live', cursor', claimDue', attached')
    BY DEF Recount, Recounted
  <1>3. OwedIsWhatIsThere'
    BY <1>2, OwedNext
  <1>4. \A i \in DOMAIN pending' : i <= cursor'
    BY <1>1
  <1>. QED
    BY <1>3, <1>4 DEF OwedInv

LEMMA OwedXadd ==
    ASSUME TypeInv, OwedInv, Xadd, UNCHANGED <<load, claimDue, attached>>
    PROVE  OwedInv'
  <1>1. last \in Nat /\ cursor \in 0..last
    BY InProcessAssumption DEF TypeInv, KeysTyped
  <1>2. /\ live' = live \cup {last + 1} /\ cursor' = cursor
        /\ owed' = IF AnyFresh(attached) THEN owed \cup {last + 1} ELSE owed
        /\ pending' = pending
    BY DEF Xadd
  <1>3. ASSUME NEW i PROVE OwedNow(i)
    <2>1. i \in live' /\ i > cursor
             <=> (i \in live /\ i > cursor) \/ i = last + 1
      BY <1>1, <1>2
    <2>2. CASE AnyFresh(attached)
      <3>1. i \in owed' <=> i \in owed \/ i = last + 1
        BY <2>2, <1>2
      <3>. QED
        BY <2>1, <2>2, <3>1, <1>2, OwedIs DEF OwedNow
    <2>3. CASE ~AnyFresh(attached)
      BY <2>3, <1>2, OwedIs DEF OwedNow
    <2>. QED
      BY <2>2, <2>3
  <1>4. \A i \in DOMAIN pending' : i <= cursor'
    BY <1>2 DEF OwedInv
  <1>. QED
    BY <1>3, <1>4, OwedThen

LEMMA OwedTick == ASSUME TypeInv, OwedInv, Tick PROVE OwedInv'
  <1>. DEFINE idle == Due("claim", pending, 1)
  <1>1. /\ claimDue' = claimDue \cup idle
        /\ owed' = owed \cup (IF AnyClaims(attached) THEN idle ELSE {})
        /\ UNCHANGED <<load, live, cursor, pending, attached>>
    BY DEF Tick, stream
  <1>. HIDE DEF idle
  <1>2. ASSUME NEW i PROVE OwedNow(i)
    <2>1. CASE AnyClaims(attached)
      <3>1. i \in owed' <=> i \in owed \/ i \in idle
        BY <2>1, <1>1
      <3>. QED
        BY <2>1, <3>1, <1>1, OwedIs DEF OwedNow
    <2>2. CASE ~AnyClaims(attached)
      <3>1. i \in owed' <=> i \in owed
        BY <2>2, <1>1
      <3>. QED
        BY <2>2, <3>1, <1>1, OwedIs DEF OwedNow
    <2>. QED
      BY <2>1, <2>2
  <1>3. \A i \in DOMAIN pending' : i <= cursor'
    BY <1>1 DEF OwedInv
  <1>. QED
    BY <1>1, <1>2, <1>3, OwedThen

LEMMA OwedRead ==
    ASSUME TypeInv, OwedInv, NEW r \in Readers, Read(r) PROVE OwedInv'
  <1>k. KeysTyped /\ last \in Nat /\ cursor \in 0..last /\ New \subseteq 1..last
    BY InProcessAssumption, OutTypes DEF TypeInv, KeysTyped
  <1>1. /\ DOMAIN pending' \subseteq DOMAIN pending \cup Out(r)
        /\ cursor' = IF Taken(r) = {} THEN cursor ELSE Max(Taken(r))
        /\ claimDue' = claimDue \ Out(r) /\ owed' = owed \ Out(r)
        /\ UNCHANGED <<load, live, attached>>
    <2>1. DOMAIN pending' = (DOMAIN pending \ Stale(r)) \cup Out(r)
      BY ReadParts
    <2>2. DOMAIN pending' \subseteq DOMAIN pending \cup Out(r)
      BY <2>1
    <2>. QED
      BY <2>2, ReadParts
  <1>2. Out(r) = Claimed(r) \cup Taken(r) /\ Taken(r) \in {New, {}}
    BY DEF Out, Taken
  <1>3. Claimed(r) \subseteq DOMAIN pending /\ Claimed(r) \cap New = {}
    BY <1>k, OutTypes DEF OwedInv, New
  <1>4. /\ cursor' >= cursor /\ \A i \in Taken(r) : i <= cursor'
        /\ {i \in live : i > cursor'} = New \ Out(r)
    <2>1. CASE Taken(r) = {}
      BY <1>1, <1>2, <1>3, <1>k, <2>1 DEF New
    <2>2. CASE Taken(r) # {}
      <3>1. Taken(r) = New
        BY <2>2, <1>2
      <3>2. cursor' \in New /\ \A i \in New : i <= cursor'
        BY <1>1, <1>k, <2>2, <3>1, OutTypes
      <3>3. {i \in live : i > cursor'} = {}
        <4>1. SUFFICES ASSUME NEW i \in live, i > cursor' PROVE FALSE
          OBVIOUS
        <4>2. cursor \in Int /\ cursor' \in Int /\ cursor' > cursor /\ i \in Int
          BY <3>2, <1>k DEF New, TypeInv, KeysTyped
        <4>3. i > cursor
          BY <4>1, <4>2
        <4>4. i \in New
          BY <4>3 DEF New
        <4>. QED
          BY <4>1, <4>2, <4>4, <3>2
      <3>4. cursor' \in Int /\ cursor' > cursor
        BY <3>2, <1>k DEF New
      <3>5. New \ Out(r) = {}
        BY <3>1, <1>2
      <3>6. cursor' >= cursor
        BY <3>4, <1>k
      <3>. QED
        BY <3>1, <3>2, <3>3, <3>5, <3>6
    <2>. QED
      BY <2>1, <2>2
  <1>5. \A i \in DOMAIN pending' : i <= cursor'
    <2>1. \A i \in DOMAIN pending : i <= cursor /\ i \in Nat
      BY <1>k DEF OwedInv, KeysTyped
    <2>2. \A i \in DOMAIN pending : i <= cursor'
      BY <2>1, <1>4, <1>k, <1>1
    <2>. QED
      BY <2>2, <1>1, <1>2, <1>3, <1>4
  <1>6. ASSUME NEW i PROVE OwedNow(i)
    <2>1. i \in live /\ i > cursor' <=> (i \in live /\ i > cursor) /\ i \notin Out(r)
      BY <1>4 DEF New
    <2>. QED
      BY <2>1, <1>1, OwedIs DEF OwedNow
  <1>. QED
    BY <1>1, <1>5, <1>6, OwedThen

LEMMA OwedAck ==
    ASSUME TypeInv, OwedInv, NEW d \in DOMAIN hands, Ack(d) PROVE OwedInv'
  <1>. DEFINE i == d.id
  <1>1. CASE i \notin DOMAIN pending
    BY <1>1, OwedSame DEF Ack
  <1>2. CASE i \in DOMAIN pending
    <2>1. /\ DOMAIN pending' \subseteq DOMAIN pending
          /\ claimDue' = claimDue \ {i} /\ owed' = owed \ {i}
          /\ UNCHANGED <<load, live, cursor, attached>>
      BY <1>2 DEF Ack, Only, Unclaimable, NotOwed
    <2>2. i <= cursor /\ i \in Int /\ cursor \in Int
      BY <1>2, InProcessAssumption DEF OwedInv, TypeInv, KeysTyped
    <2>3. ASSUME NEW j PROVE OwedNow(j)
      <3>1. j > cursor => j # i
        BY <2>2
      <3>. QED
        BY <3>1, <2>1, OwedIs DEF OwedNow
    <2>4. \A j \in DOMAIN pending' : j <= cursor'
      BY <2>1 DEF OwedInv
    <2>. QED
      BY <2>1, <2>3, <2>4, OwedThen
  <1>. QED
    BY <1>1, <1>2

LEMMA OwedStep ==
    ASSUME NoReplay, TypeInv, OwedInv, [Next]_vars PROVE OwedInv'
  <1>1. ASSUME NEW i \in live, Delete(i) PROVE OwedInv'
    BY <1>1, OwedAfresh DEF Delete
  <1>2. CASE Publish
    BY <1>2, OwedXadd DEF Publish
  <1>3. ASSUME NEW r \in Readers,
               \/ Attach(r) \/ Detach(r) \/ Bump(r)
               \/ Wake(r) \/ List(r) \/ Readd(r) \/ Read(r)
               \/ Accept(r) \/ Yield(r)
        PROVE  OwedInv'
    <2>1. CASE Attach(r)
      BY <2>1, OwedAfresh DEF Attach, stream
    <2>2. CASE Detach(r)
      BY <2>2, OwedAfresh DEF Detach, stream
    <2>3. CASE Bump(r) \/ Wake(r) \/ List(r) \/ Accept(r) \/ Yield(r)
      BY <2>3, OwedSame DEF Bump, Wake, List, Accept, Yield, tracked, stream
    <2>4. CASE Readd(r)
      BY <2>4, OwedXadd DEF Readd
    <2>. QED
      BY <1>3, <2>1, <2>2, <2>3, <2>4, OwedRead
  <1>4. ASSUME NEW r \in Readers, NEW m \in todo[r], Claim(r, m) PROVE OwedInv'
    BY <1>4, OwedSame DEF Claim, stream
  <1>5. ASSUME NEW r \in Readers, NEW p \in load.positions, SetId(r, p)
        PROVE  OwedInv'
    <2>1. p # "beginning"
      BY DEF NoReplay, TypeInv, KeysTyped
    <2>2. cursor' = last /\ Recount /\ pending' = pending /\ load' = load
      BY <1>5, <2>1 DEF SetId
    <2>. QED
      BY <2>2, OwedAfresh
  <1>6. ASSUME NEW d \in DOMAIN hands,
               Ack(d) \/ Requeue(d) \/ Schedule(d) \/ Leave(d)
        PROVE  OwedInv'
    <2>1. CASE Requeue(d)
      BY <2>1, OwedXadd DEF Requeue
    <2>2. CASE Schedule(d) \/ Leave(d)
      BY <2>2, OwedSame DEF Schedule, Leave, stream, tracked
    <2>. QED
      BY <1>6, <2>1, <2>2, OwedAck
  <1>7. CASE UNCHANGED vars
    BY <1>7, OwedSame DEF vars, stream, tracked
  <1>. QED
    BY NextCases, <1>1, <1>2, <1>3, <1>4, <1>5, <1>6, <1>7, OwedTick

LEMMA InitOwed == Init => OwedInv
  BY EmptySeq DEF Init, OwedInv, OwedIsWhatIsThere, Wanted, AnyFresh, AnyClaims

\* What the server counts as owed is, after every command, exactly what some
\* registered subscription is certain to read: new entries if one of them leads
\* the group, idle ones if one of them claims (readable, attach, detach).
THEOREM OwedIsTrue == NoReplay /\ Spec => []OwedIsWhatIsThere
  <1>. SUFFICES ASSUME NoReplay PROVE Spec => []OwedIsWhatIsThere
    OBVIOUS
  <1>1. Init => TypeInv /\ OwedInv
    BY InitTypes, InitOwed
  <1>2. TypeInv /\ OwedInv /\ [Next]_vars => (TypeInv /\ OwedInv)'
    BY TypesStep, OwedStep
  <1>3. OwedInv => OwedIsWhatIsThere
    BY DEF OwedInv
  <1>. QED
    BY <1>1, <1>2, <1>3, PTL DEF Spec

-----------------------------------------------------------------------------
(* An entry is in one place.                                               *)

\* No subscription of the load claims or reclaims.
AllFresh(l) == \A r \in DOMAIN l.mode : l.mode[r] = "fresh"

\* Buffers, members and deliveries only go.
LEMMA OnceFewer ==
    ASSUME OnceInv, cursor \in Int, cursor' \in Int, cursor <= cursor',
           buffer \in [Readers -> Seq(Ids)],
           \A m \in DOMAIN score : m \in Int, \A d \in DOMAIN hands : d.id \in Int,
           \A r \in Readers : buffer'[r] = buffer[r] \/ Len(buffer'[r]) = 0,
           DOMAIN score' \subseteq DOMAIN score,
           \A d \in DOMAIN hands' : d.stage = "held" =>
               d \in DOMAIN hands /\ hands'[d] = hands[d]
    PROVE  OnceInv'
  <1>1. ASSUME NEW r \in Readers, NEW k \in 1..Len(buffer'[r])
        PROVE  buffer'[r] = buffer[r]
    BY <1>1
  <1>2. \A i : InBuffers(i)' => InBuffers(i)
    BY <1>1 DEF InBuffers
  <1>3. Apart'
    BY <1>1 DEF OnceInv, Apart
  <1>4. Passed'
    <2>1. SUFFICES ASSUME NEW r \in Readers, NEW k \in 1..Len(buffer'[r])
                   PROVE  buffer'[r][k] <= cursor'
      BY DEF Passed
    <2>2. buffer'[r] = buffer[r] /\ buffer[r][k] \in Ids /\ buffer[r][k] <= cursor
      BY <1>1, <2>1, ElementOfSeq DEF OnceInv, Passed
    <2>. QED
      BY <2>2 DEF Ids
  <1>5. HeldOnce'
    <2>1. SUFFICES ASSUME NEW d \in DOMAIN hands', d.stage = "held"
                   PROVE  /\ hands'[d] = 1 /\ d.id <= cursor'
                          /\ d.id \notin DOMAIN score' /\ ~InBuffers(d.id)'
      BY DEF HeldOnce
    <2>2. d \in DOMAIN hands /\ hands'[d] = hands[d]
      BY <2>1
    <2>3. /\ hands[d] = 1 /\ d.id <= cursor /\ d.id \notin DOMAIN score
          /\ ~InBuffers(d.id)
      BY <2>1, <2>2 DEF OnceInv, HeldOnce
    <2>. QED
      BY <2>2, <2>3, <1>2
  <1>6. ScoredOnce'
    BY <1>2 DEF OnceInv, ScoredOnce
  <1>. QED
    BY <1>3, <1>4, <1>5, <1>6 DEF OnceInv

LEMMA OnceTypes ==
    ASSUME TypeInv
    PROVE  /\ cursor \in Int /\ last \in Nat /\ cursor <= last
           /\ buffer \in [Readers -> Seq(Ids)] /\ IsABag(hands)
           /\ \A m \in DOMAIN score : m \in Int
           /\ \A d \in DOMAIN hands : d \in Delivery /\ d.id \in Int
  BY InProcessAssumption
  DEF TypeInv, KeysTyped, ReadersTyped, HandsTyped, Delivery, Ids

\* A delivery that leaves its handler.
LEMMA GoneHands ==
    ASSUME TypeInv, HeldOnce, NEW d \in DOMAIN hands, NEW b,
           b = hands (-) Lone(d)
    PROVE  /\ IsABag(b) /\ DOMAIN b \subseteq DOMAIN hands
           /\ d.stage = "held" => d \notin DOMAIN b
           /\ \A e \in DOMAIN b : e.stage = "held" => b[e] = hands[e]
  <1>1. IsABag(hands)
    BY OnceTypes
  <1>2. /\ IsABag(b)
        /\ DOMAIN b = IF hands[d] = 1 THEN DOMAIN hands \ {d} ELSE DOMAIN hands
        /\ \A e \in DOMAIN hands : e # d => b[e] = hands[e]
    <2>. DEFINE g == hands (-) Lone(d)
    <2>1. /\ IsABag(g)
          /\ DOMAIN g = IF hands[d] = 1 THEN DOMAIN hands \ {d} ELSE DOMAIN hands
          /\ \A e \in DOMAIN hands : e # d => g[e] = hands[e]
      BY <1>1, Removed
    <2>2. b = g
      OBVIOUS
    <2>. HIDE DEF g
    <2>. QED
      BY <2>1, <2>2
  <1>3. d.stage = "held" => hands[d] = 1
    BY DEF HeldOnce
  <1>. QED
    BY <1>2, <1>3

\* One whose copy is made: no longer held.
LEMMA CopiedHands ==
    ASSUME TypeInv, HeldOnce, NEW d \in DOMAIN hands, d.stage = "held",
           hands' = Copied(d)
    PROVE  \A e \in DOMAIN hands' : e.stage = "held" =>
              e \in DOMAIN hands /\ e # d /\ hands'[e] = hands[e]
  <1>. DEFINE b == hands (-) Lone(d)
              c == [d EXCEPT !.stage = "copied"]
  <1>1. /\ IsABag(b) /\ DOMAIN b \subseteq DOMAIN hands /\ d \notin DOMAIN b
        /\ \A e \in DOMAIN b : e.stage = "held" => b[e] = hands[e]
    BY GoneHands
  <1>2. c.stage = "copied"
    BY OnceTypes DEF Delivery
  <1>3. hands' = b (+) Lone(c)
    BY DEF Copied
  <1>. HIDE DEF b, c
  <1>4. /\ DOMAIN hands' = DOMAIN b \cup {c}
        /\ \A e \in DOMAIN b : e # c => hands'[e] = b[e]
    <2>. DEFINE g == b (+) Lone(c)
    <2>1. /\ DOMAIN g = DOMAIN b \cup {c}
          /\ \A e \in DOMAIN b : e # c => g[e] = b[e]
      BY <1>1, Added
    <2>2. hands' = g
      BY <1>3
    <2>. HIDE DEF g
    <2>. QED
      BY <2>1, <2>2
  <1>. QED
    BY <1>1, <1>2, <1>4

LEMMA OnceSchedule ==
    ASSUME TypeInv, OnceInv, NEW d \in DOMAIN hands, Schedule(d)
    PROVE  OnceInv'
  <1>1. /\ d.stage = "held" /\ DOMAIN score' = DOMAIN score \cup {d.id}
        /\ hands' = Copied(d) /\ UNCHANGED <<cursor, buffer>>
    BY DEF Schedule, stream, reading
  <1>2. \A e \in DOMAIN hands' : e.stage = "held" =>
              e \in DOMAIN hands /\ e # d /\ hands'[e] = hands[e]
    BY <1>1, CopiedHands DEF OnceInv
  <1>3. /\ hands[d] = 1 /\ d.id <= cursor /\ d.id \notin DOMAIN score
        /\ ~InBuffers(d.id)
    BY <1>1 DEF OnceInv, HeldOnce
  <1>4. \A i : InBuffers(i)' <=> InBuffers(i)
    BY <1>1 DEF InBuffers
  <1>5. HeldOnce'
    <2>1. SUFFICES ASSUME NEW e \in DOMAIN hands', e.stage = "held"
                   PROVE  /\ hands'[e] = 1 /\ e.id <= cursor'
                          /\ e.id \notin DOMAIN score' /\ ~InBuffers(e.id)'
      BY DEF HeldOnce
    <2>2. e \in DOMAIN hands /\ e # d /\ hands'[e] = hands[e]
      BY <2>1, <1>2
    <2>3. /\ hands[e] = 1 /\ e.id <= cursor /\ e.id \notin DOMAIN score
          /\ ~InBuffers(e.id)
      BY <2>1, <2>2 DEF OnceInv, HeldOnce
    <2>4. e.id # d.id
      BY <2>1, <2>2, <1>1, OnceTypes DEF Delivery
    <2>. QED
      BY <2>2, <2>3, <2>4, <1>1, <1>4
  <1>6. ScoredOnce'
    BY <1>1, <1>3, <1>4 DEF OnceInv, ScoredOnce
  <1>7. Apart' /\ Passed'
    BY <1>1 DEF OnceInv, Apart, Passed
  <1>. QED
    BY <1>5, <1>6, <1>7 DEF OnceInv

LEMMA OnceYield ==
    ASSUME TypeInv, OnceInv, NEW r \in Readers, Yield(r), ~moved[r]
    PROVE  OnceInv'
  <1>. DEFINE x == buffer[r][1]
              c == [id |-> x, stage |-> "held"]
  <1>k. buffer[r] \in Seq(Ids) /\ buffer \in [Readers -> Seq(Ids)]
    BY OnceTypes
  <1>1. /\ buffer[r] # <<>> /\ buffer' = [buffer EXCEPT ![r] = Tail(buffer[r])]
        /\ hands' = hands (+) Lone([id |-> Head(buffer[r]), stage |-> "held"])
        /\ UNCHANGED <<cursor, score>>
    BY DEF Yield, stream
  <1>2. /\ Head(buffer[r]) = x /\ 1 \in 1..Len(buffer[r]) /\ Len(buffer[r]) \in Nat
        /\ Len(Tail(buffer[r])) = Len(buffer[r]) - 1
        /\ \A i \in 1..Len(Tail(buffer[r])) : Tail(buffer[r])[i] = buffer[r][i + 1]
    BY <1>1, <1>k, HeadTailProperties, LenProperties, EmptySeq
  <1>3. ASSUME NEW q \in Readers, NEW k \in 1..Len(buffer'[q])
        PROVE  \E i \in 1..Len(buffer[q]) :
                  /\ buffer'[q][k] = buffer[q][i]
                  /\ i = IF q = r THEN k + 1 ELSE k
                  /\ buffer[q][i] # x
    <2>1. CASE q = r
      <3>1. k \in 1..Len(Tail(buffer[r])) /\ buffer'[q] = Tail(buffer[r])
        BY <1>1, <1>3, <1>k, <2>1
      <3>2. k + 1 \in 1..Len(buffer[r]) /\ buffer'[q][k] = buffer[q][k + 1]
            /\ k + 1 # 1
        BY <3>1, <1>2, <2>1
      <3>3. buffer[r][k + 1] # x
        BY <3>2, <1>2 DEF OnceInv, Apart
      <3>. QED
        BY <3>2, <3>3, <2>1
    <2>2. CASE q # r
      <3>1. buffer'[q] = buffer[q]
        BY <1>1, <1>k, <2>2
      <3>2. buffer[q][k] # x
        BY <3>1, <1>2, <1>3, <2>2 DEF OnceInv, Apart
      <3>. QED
        BY <3>1, <3>2, <2>2, <1>3
    <2>. QED
      BY <2>1, <2>2
  <1>4. \A i : InBuffers(i)' => InBuffers(i) /\ i # x
    BY <1>3 DEF InBuffers
  <1>5. Apart'
    <2>1. SUFFICES ASSUME NEW p \in Readers, NEW q \in Readers,
                          NEW j \in 1..Len(buffer'[p]),
                          NEW k \in 1..Len(buffer'[q]),
                          buffer'[p][j] = buffer'[q][k]
                   PROVE  p = q /\ j = k
      BY DEF Apart
    <2>2. PICK i \in 1..Len(buffer[p]) :
             /\ buffer'[p][j] = buffer[p][i] /\ i = IF p = r THEN j + 1 ELSE j
      BY <1>3
    <2>3. PICK h \in 1..Len(buffer[q]) :
             /\ buffer'[q][k] = buffer[q][h] /\ h = IF q = r THEN k + 1 ELSE k
      BY <1>3
    <2>4. buffer[p][i] = buffer[q][h]
      BY <2>1, <2>2, <2>3
    <2>5. p = q /\ i = h
      BY <2>4 DEF OnceInv, Apart
    <2>. QED
      BY <2>2, <2>3, <2>5
  <1>6. Passed'
    <2>1. SUFFICES ASSUME NEW q \in Readers, NEW k \in 1..Len(buffer'[q])
                   PROVE  buffer'[q][k] <= cursor'
      BY DEF Passed
    <2>2. PICK i \in 1..Len(buffer[q]) : buffer'[q][k] = buffer[q][i]
      BY <1>3
    <2>. QED
      BY <2>2, <1>1 DEF OnceInv, Passed
  <1>7. /\ InBuffers(x) /\ x <= cursor
        /\ x \notin DOMAIN score /\ c \notin DOMAIN hands
    <2>1. InBuffers(x)
      BY <1>2 DEF InBuffers
    <2>2. c \in DOMAIN hands => ~InBuffers(x)
      BY DEF OnceInv, HeldOnce
    <2>3. x \in DOMAIN score => ~InBuffers(x)
      BY DEF OnceInv, ScoredOnce
    <2>4. x <= cursor
      BY <1>2 DEF OnceInv, Passed
    <2>. QED
      BY <2>1, <2>2, <2>3, <2>4
  <1>8. /\ DOMAIN hands' = DOMAIN hands \cup {c} /\ hands'[c] = 1
        /\ \A e \in DOMAIN hands : hands'[e] = hands[e]
    <2>1. hands' = hands (+) Lone(c) /\ IsABag(hands)
      BY <1>1, <1>2, OnceTypes
    <2>2. c \notin DOMAIN hands
      BY <1>7
    <2>. HIDE DEF c
    <2>. QED
      BY <2>1, <2>2, Added
  <1>9. HeldOnce'
    <2>1. SUFFICES ASSUME NEW e \in DOMAIN hands', e.stage = "held"
                   PROVE  /\ hands'[e] = 1 /\ e.id <= cursor'
                          /\ e.id \notin DOMAIN score' /\ ~InBuffers(e.id)'
      BY DEF HeldOnce
    <2>2. CASE e = c
      BY <2>2, <1>1, <1>4, <1>7, <1>8
    <2>3. CASE e \in DOMAIN hands
      <3>1. /\ hands[e] = 1 /\ e.id <= cursor /\ e.id \notin DOMAIN score
            /\ ~InBuffers(e.id)
        BY <2>1, <2>3 DEF OnceInv, HeldOnce
      <3>. QED
        BY <3>1, <2>3, <1>1, <1>4, <1>8
    <2>. QED
      BY <2>1, <2>2, <2>3, <1>8
  <1>10. ScoredOnce'
    BY <1>1, <1>4 DEF OnceInv, ScoredOnce
  <1>. QED
    BY <1>5, <1>6, <1>9, <1>10 DEF OnceInv

LEMMA HereMounted ==
    ASSUME TypeInv, NEW r \in Readers, Here(r)
    PROVE  r \in Mounted /\ \E k \in DOMAIN attached : attached[k] = r
  <1>1. PICK k \in DOMAIN attached : attached[k] = r
    BY DEF TypeInv, AttachedInv
  <1>2. attached \in Seq(Mounted)
    BY DEF TypeInv, ReadersTyped
  <1>3. attached[k] \in Mounted
    BY <1>1, <1>2, LenProperties, ElementOfSeq
  <1>. QED
    BY <1>1, <1>3

LEMMA OnceRead ==
    ASSUME TypeInv, OnceInv, AllFresh(load), NEW r \in Readers, Read(r)
    PROVE  OnceInv'
  <1>. DEFINE b == InOrder(Claimed(r)) \o InOrder(Taken(r))
  <1>k. /\ KeysTyped /\ buffer \in [Readers -> Seq(Ids)]
        /\ last \in Nat /\ cursor \in Int
    BY OnceTypes DEF TypeInv
  <1>1. /\ cursor' = IF Taken(r) = {} THEN cursor ELSE Max(Taken(r))
        /\ buffer' = [buffer EXCEPT ![r] = b]
        /\ UNCHANGED <<score, hands>>
    BY ReadParts
  <1>2. Claimed(r) = {}
    <2>1. Here(r)
      BY ReadParts DEF Here
    <2>2. r \in Mounted
      BY <2>1, HereMounted
    <2>3. ~Claims(r)
      BY <2>2 DEF AllFresh, Mounted, Claims
    <2>. QED
      BY <2>3 DEF Claimed, Stale
  <1>3. /\ \A k \in 1..Len(b) : b[k] \in Taken(r)
        /\ \A j, k \in 1..Len(b) : b[j] = b[k] => j = k
    BY <1>k, <1>2, ReadBuffer
  <1>. HIDE DEF b
  <1>4. \A i \in Taken(r) : i > cursor /\ i \in Int
    BY <1>k, OutTypes DEF New
  <1>5. /\ cursor' \in Int /\ cursor <= cursor'
        /\ \A i \in Taken(r) : i <= cursor'
    <2>1. CASE Taken(r) = {}
      BY <2>1, <1>1, <1>k
    <2>2. CASE Taken(r) # {}
      BY <2>2, <1>1, <1>4, <1>k, OutTypes
    <2>. QED
      BY <2>1, <2>2
  <1>6. buffer'[r] = b /\ \A q \in Readers : q # r => buffer'[q] = buffer[q]
    BY <1>1, <1>k
  <1>7. \A q \in Readers : \A k \in 1..Len(buffer[q]) :
           buffer[q][k] <= cursor /\ buffer[q][k] \in Int
    <2>1. SUFFICES ASSUME NEW q \in Readers, NEW k \in 1..Len(buffer[q])
                   PROVE  buffer[q][k] <= cursor /\ buffer[q][k] \in Int
      OBVIOUS
    <2>2. buffer[q][k] \in Ids
      BY <1>k, ElementOfSeq
    <2>. QED
      BY <2>2 DEF OnceInv, Passed, Ids
  <1>8. Apart'
    <2>1. SUFFICES ASSUME NEW p \in Readers, NEW q \in Readers,
                          NEW j \in 1..Len(buffer'[p]),
                          NEW k \in 1..Len(buffer'[q]),
                          buffer'[p][j] = buffer'[q][k]
                   PROVE  p = q /\ j = k
      BY DEF Apart
    <2>2. CASE p = r /\ q = r
      BY <2>1, <2>2, <1>3, <1>6
    <2>3. CASE p = r /\ q # r
      <3>1. buffer'[p][j] > cursor
        BY <2>3, <1>3, <1>4, <1>6
      <3>2. buffer'[q][k] <= cursor /\ buffer'[q][k] \in Int
        BY <2>3, <1>6, <1>7
      <3>. QED
        BY <2>1, <3>1, <3>2, <1>k
    <2>4. CASE p # r /\ q = r
      <3>1. buffer'[q][k] > cursor
        BY <2>4, <1>3, <1>4, <1>6
      <3>2. buffer'[p][j] <= cursor /\ buffer'[p][j] \in Int
        BY <2>4, <1>6, <1>7
      <3>. QED
        BY <2>1, <3>1, <3>2, <1>k
    <2>5. CASE p # r /\ q # r
      <3>1. buffer'[p] = buffer[p] /\ buffer'[q] = buffer[q]
        BY <2>5, <1>6
      <3>. QED
        BY <2>1, <3>1 DEF OnceInv, Apart
    <2>. QED
      BY <2>2, <2>3, <2>4, <2>5
  <1>9. Passed'
    <2>1. SUFFICES ASSUME NEW q \in Readers, NEW k \in 1..Len(buffer'[q])
                   PROVE  buffer'[q][k] <= cursor'
      BY DEF Passed
    <2>2. CASE q = r
      BY <2>2, <1>3, <1>5, <1>6
    <2>3. CASE q # r
      <3>1. buffer'[q][k] <= cursor /\ buffer'[q][k] \in Int
        BY <2>3, <1>6, <1>7
      <3>. QED
        BY <3>1, <1>5, <1>k
    <2>. QED
      BY <2>2, <2>3
  <1>10. ASSUME NEW i, i <= cursor, i \in Int, ~InBuffers(i)
         PROVE  i <= cursor' /\ ~InBuffers(i)'
    <2>1. ASSUME NEW q \in Readers, NEW k \in 1..Len(buffer'[q]),
                 buffer'[q][k] = i
          PROVE  FALSE
      <3>1. CASE q = r
        <4>1. buffer'[q][k] > cursor
          BY <3>1, <1>3, <1>4, <1>6
        <4>. QED
          BY <4>1, <2>1, <1>10, <1>k
      <3>2. CASE q # r
        BY <3>2, <2>1, <1>6, <1>10 DEF InBuffers
      <3>. QED
        BY <3>1, <3>2
    <2>. QED
      BY <2>1, <1>5, <1>10, <1>k DEF InBuffers
  <1>11. HeldOnce'
    <2>1. SUFFICES ASSUME NEW d \in DOMAIN hands, d.stage = "held"
                   PROVE  /\ hands[d] = 1 /\ d.id <= cursor'
                          /\ d.id \notin DOMAIN score /\ ~InBuffers(d.id)'
      BY <1>1 DEF HeldOnce
    <2>2. /\ hands[d] = 1 /\ d.id <= cursor /\ d.id \notin DOMAIN score
          /\ ~InBuffers(d.id) /\ d.id \in Int
      BY <2>1, OnceTypes DEF OnceInv, HeldOnce
    <2>. QED
      BY <2>2, <1>10
  <1>12. ScoredOnce'
    <2>1. SUFFICES ASSUME NEW m \in DOMAIN score
                   PROVE  m <= cursor' /\ ~InBuffers(m)'
      BY <1>1 DEF ScoredOnce
    <2>2. m <= cursor /\ ~InBuffers(m) /\ m \in Int
      BY OnceTypes DEF OnceInv, ScoredOnce
    <2>. QED
      BY <2>2, <1>10
  <1>. QED
    BY <1>8, <1>9, <1>11, <1>12 DEF OnceInv

LEMMA OnceStep ==
    ASSUME TypeInv, TypeInv', OnceInv, AllFresh(load),
           "beginning" \notin load.positions, [Next]_vars
    PROVE  OnceInv'
  <1>k. /\ cursor \in Int /\ cursor' \in Int /\ cursor <= last
        /\ buffer \in [Readers -> Seq(Ids)]
        /\ \A m \in DOMAIN score : m \in Int
        /\ \A d \in DOMAIN hands : d.id \in Int
    <2>1. cursor' \in Int
      BY InProcessAssumption DEF TypeInv, KeysTyped
    <2>. QED
      BY <2>1, OnceTypes
  <1>0. ASSUME UNCHANGED <<score, buffer, hands>>, cursor' \in {cursor, last}
        PROVE  OnceInv'
    <2>1. cursor <= cursor'
      BY <1>0, <1>k
    <2>. QED
      BY <2>1, <1>0, <1>k, OnceFewer
  <1>e. ASSUME NEW r \in Readers, buffer' = [buffer EXCEPT ![r] = <<>>],
               UNCHANGED <<score, cursor, hands>>
        PROVE  OnceInv'
    <2>1. \A q \in Readers : buffer'[q] = buffer[q] \/ Len(buffer'[q]) = 0
      BY <1>e, <1>k, EmptySeq
    <2>2. cursor <= cursor'
      BY <1>e, <1>k
    <2>. QED
      BY <2>1, <2>2, <1>e, <1>k, OnceFewer
  <1>1. CASE Tick \/ Publish
    BY <1>1, <1>0 DEF Tick, Publish, Xadd, stream, reading
  <1>2. ASSUME NEW i \in live, Delete(i) PROVE OnceInv'
    BY <1>2, <1>0 DEF Delete, reading
  <1>3. ASSUME NEW r \in Readers,
               \/ Attach(r) \/ Detach(r) \/ Bump(r)
               \/ Wake(r) \/ List(r) \/ Readd(r) \/ Read(r)
               \/ Accept(r) \/ Yield(r)
        PROVE  OnceInv'
    <2>1. CASE Attach(r) \/ Bump(r) \/ Wake(r) \/ List(r) \/ Readd(r)
      BY <2>1, <1>0 DEF Attach, Bump, Wake, List, Readd, Xadd, stream
    <2>2. CASE Detach(r)
      BY <2>2, <1>e DEF Detach, stream
    <2>3. CASE Accept(r)
      BY <2>3, <1>0, <1>e DEF Accept, Discard, stream
    <2>4. CASE Yield(r)
      <3>1. CASE moved[r]
        BY <3>1, <2>4, <1>e DEF Yield, Discard, stream
      <3>. QED
        BY <3>1, <2>4, OnceYield
    <2>. QED
      BY <1>3, <2>1, <2>2, <2>3, <2>4, OnceRead
  <1>4. ASSUME NEW r \in Readers, NEW m \in todo[r], Claim(r, m) PROVE OnceInv'
    <2>1. DOMAIN score' \subseteq DOMAIN score /\ UNCHANGED <<cursor, buffer, hands>>
      BY <1>4 DEF Claim, Only, stream
    <2>2. cursor <= cursor'
      BY <2>1, <1>k
    <2>. QED
      BY <2>1, <2>2, <1>k, OnceFewer
  <1>5. ASSUME NEW r \in Readers, NEW p \in load.positions, SetId(r, p)
        PROVE  OnceInv'
    BY <1>5, <1>0 DEF SetId, reading
  <1>6. ASSUME NEW d \in DOMAIN hands,
               Ack(d) \/ Requeue(d) \/ Schedule(d) \/ Leave(d)
        PROVE  OnceInv'
    <2>0. ASSUME UNCHANGED <<score, cursor, buffer>>,
                 \A e \in DOMAIN hands' : e.stage = "held" =>
                     e \in DOMAIN hands /\ hands'[e] = hands[e]
          PROVE  OnceInv'
      <3>1. cursor <= cursor'
        BY <2>0, <1>k
      <3>. QED
        BY <3>1, <2>0, <1>k, OnceFewer
    <2>1. CASE Ack(d) \/ Leave(d)
      <3>1. hands' = hands (-) Lone(d) /\ UNCHANGED <<score, cursor, buffer>>
        BY <2>1 DEF Ack, Leave, stream, reading
      <3>2. \A e \in DOMAIN hands' : e.stage = "held" =>
                     e \in DOMAIN hands /\ hands'[e] = hands[e]
        BY <3>1, GoneHands DEF OnceInv
      <3>. QED
        BY <3>1, <3>2, <2>0
    <2>2. CASE Requeue(d)
      <3>1. /\ hands' = Copied(d) /\ UNCHANGED <<score, cursor, buffer>>
            /\ d.stage = "held"
        BY <2>2 DEF Requeue, Xadd, reading
      <3>2. \A e \in DOMAIN hands' : e.stage = "held" =>
                     e \in DOMAIN hands /\ hands'[e] = hands[e]
        BY <3>1, CopiedHands DEF OnceInv
      <3>. QED
        BY <3>1, <3>2, <2>0
    <2>. QED
      BY <1>6, <2>1, <2>2, OnceSchedule
  <1>7. CASE UNCHANGED vars
    BY <1>7, <1>0 DEF vars, stream, reading
  <1>. QED
    BY NextCases, <1>1, <1>2, <1>3, <1>4, <1>5, <1>6, <1>7

LEMMA LinkStep ==
    ASSUME TypeInv, OnceInv, LinkInv, [Next]_vars PROVE LinkInv'
  <1>k. /\ now \in Int /\ \A m \in DOMAIN score : score[m] \in Int
        /\ \A t \in timers : t.at \in Int
    BY InProcessAssumption
    DEF TypeInv, KeysTyped, TrackedTyped, Times, Timer
  <1>0. ASSUME now' = now, linkDue' \subseteq linkDue,
               \A m \in linkDue' : m \in DOMAIN score' /\ score'[m] = score[m]
        PROVE  LinkInv'
    BY <1>0 DEF LinkInv
  <1>s. ASSUME now' = now, linkDue' = linkDue, score' = score PROVE LinkInv'
    BY <1>s DEF LinkInv
  <1>1. CASE Tick
    <2>. DEFINE ripe == Due("link", score, 0)
    <2>1. now' = now + 1 /\ score' = score /\ linkDue' = linkDue \cup ripe
      BY <1>1 DEF Tick
    <2>2. ASSUME NEW m \in linkDue PROVE m \in DOMAIN score' /\ score'[m] <= now'
      <3>1. m \in DOMAIN score /\ score[m] <= now
        BY DEF LinkInv
      <3>. QED
        BY <3>1, <2>1, <1>k
    <2>3. ASSUME NEW m \in ripe PROVE m \in DOMAIN score' /\ score'[m] <= now'
      <3>1. PICK u \in timers : /\ u.of = "link" /\ now' >= u.at + 0
                                /\ u.id \in DOMAIN score /\ score[u.id] = u.at
                                /\ m = u.id
        BY <2>3 DEF Due
      <3>. QED
        BY <3>1, <2>1, <1>k
    <2>. HIDE DEF ripe
    <2>. QED
      BY <2>1, <2>2, <2>3 DEF LinkInv
  <1>2. ASSUME NEW i \in live, Delete(i) PROVE LinkInv'
    BY <1>2, <1>s DEF Delete
  <1>3. ASSUME NEW r \in Readers,
               \/ Attach(r) \/ Detach(r) \/ Bump(r)
               \/ Wake(r) \/ List(r) \/ Readd(r) \/ Read(r)
               \/ Accept(r) \/ Yield(r)
        PROVE  LinkInv'
    <2>1. CASE Read(r)
      BY <2>1, <1>s, ReadParts
    <2>. QED
      BY <1>3, <2>1, <1>s DEF Attach, Detach, Bump, Wake, List, Readd, Accept,
                              Yield, tracked
  <1>4. ASSUME NEW r \in Readers, NEW m \in todo[r], Claim(r, m) PROVE LinkInv'
    <2>1. CASE m \notin DOMAIN score
      BY <2>1, <1>4, <1>s DEF Claim
    <2>2. CASE m \in DOMAIN score
      <3>1. /\ now' = now /\ linkDue' = linkDue \ {m}
            /\ score' = [n \in DOMAIN score \ {m} |-> score[n]]
        BY <2>2, <1>4 DEF Claim, Only
      <3>. QED
        BY <3>1 DEF LinkInv
    <2>. QED
      BY <2>1, <2>2
  <1>5. ASSUME NEW r \in Readers, NEW p \in load.positions, SetId(r, p)
        PROVE  LinkInv'
    BY <1>5, <1>s DEF SetId
  <1>6. ASSUME NEW d \in DOMAIN hands,
               Ack(d) \/ Requeue(d) \/ Schedule(d) \/ Leave(d)
        PROVE  LinkInv'
    <2>1. CASE Schedule(d)
      <3>1. /\ d.stage = "held" /\ now' = now /\ linkDue' = linkDue
            /\ score' = [m \in DOMAIN score \cup {d.id} |->
                            IF m = d.id THEN now + 1 ELSE score[m]]
        BY <2>1 DEF Schedule
      <3>2. d.id \notin DOMAIN score
        BY <3>1 DEF OnceInv, HeldOnce
      <3>3. ASSUME NEW m \in linkDue PROVE m \in DOMAIN score' /\ score'[m] <= now
        <4>1. m \in DOMAIN score /\ score[m] <= now
          BY DEF LinkInv
        <4>. QED
          BY <4>1, <3>1, <3>2
      <3>. QED
        BY <3>1, <3>3 DEF LinkInv
    <2>. QED
      BY <1>6, <2>1, <1>s DEF Ack, Requeue, Leave, tracked
  <1>7. CASE Publish \/ UNCHANGED vars
    BY <1>7, <1>s DEF Publish, vars, tracked
  <1>. QED
    BY NextCases, <1>1, <1>2, <1>3, <1>4, <1>5, <1>6, <1>7

LEMMA ClaimStep ==
    ASSUME TypeInv, ClaimInv, ~load.deletes, [Next]_vars PROVE ClaimInv'
  <1>k. /\ now \in Int /\ \A i \in DOMAIN pending : pending[i] \in Int
        /\ \A t \in timers : t.at \in Int
        /\ last \in Nat /\ live = 1..last /\ DOMAIN pending \subseteq 1..last
    BY InProcessAssumption
    DEF TypeInv, KeysTyped, TrackedTyped, Times, Timer, ClaimInv
  <1>c. \A i \in claimDue : i \in DOMAIN pending /\ now - pending[i] >= 1
    BY DEF ClaimInv, Idle
  <1>s. ASSUME UNCHANGED <<now, last, live, pending, claimDue>> PROVE ClaimInv'
    BY <1>s DEF ClaimInv, Idle
  <1>x. ASSUME Xadd, UNCHANGED <<now, claimDue>> PROVE ClaimInv'
    <2>1. /\ last' = last + 1 /\ live' = live \cup {last + 1}
          /\ pending' = pending
      BY <1>x DEF Xadd
    <2>2. live' = 1..last'
      BY <2>1, <1>k
    <2>. QED
      BY <1>x, <2>1, <2>2 DEF ClaimInv, Idle
  <1>1. CASE Tick
    <2>. DEFINE idle == Due("claim", pending, 1)
    <2>1. /\ now' = now + 1 /\ claimDue' = claimDue \cup idle
          /\ UNCHANGED <<last, live, pending>>
      BY <1>1 DEF Tick, stream
    <2>2. ASSUME NEW i \in claimDue PROVE i \in Idle'
      <3>1. i \in DOMAIN pending /\ now - pending[i] >= 1
        BY <1>c
      <3>. QED
        BY <3>1, <2>1, <1>k DEF Idle
    <2>3. ASSUME NEW i \in idle PROVE i \in Idle'
      <3>1. PICK u \in timers : /\ u.of = "claim" /\ now' >= u.at + 1
                                /\ u.id \in DOMAIN pending /\ pending[u.id] = u.at
                                /\ i = u.id
        BY <2>3 DEF Due
      <3>. QED
        BY <3>1, <2>1, <1>k DEF Idle
    <2>. HIDE DEF idle
    <2>. QED
      BY <2>1, <2>2, <2>3, <1>k DEF ClaimInv
  <1>2. ASSUME NEW i \in live, Delete(i) PROVE ClaimInv'
    BY <1>2 DEF Delete
  <1>3. ASSUME NEW r \in Readers,
               \/ Attach(r) \/ Detach(r) \/ Bump(r)
               \/ Wake(r) \/ List(r) \/ Readd(r) \/ Read(r)
               \/ Accept(r) \/ Yield(r)
        PROVE  ClaimInv'
    <2>1. CASE Attach(r)
      <3>1. claimDue' \subseteq claimDue \cup Idle
            /\ UNCHANGED <<now, last, live, pending>>
        BY <2>1 DEF Attach, stream
      <3>. QED
        BY <3>1 DEF ClaimInv, Idle
    <2>2. CASE Readd(r)
      BY <2>2, <1>x DEF Readd
    <2>3. CASE Read(r)
      <3>1. /\ pending' = [i \in (DOMAIN pending \ Stale(r)) \cup Out(r) |->
                             IF i \in Out(r) THEN now ELSE pending[i]]
            /\ claimDue' = claimDue \ Out(r) /\ UNCHANGED <<now, last, live>>
        BY <2>3, ReadParts
      <3>2. Stale(r) \subseteq Out(r)
        BY <1>k DEF Stale, Idle, Out, Claimed
      <3>3. ASSUME NEW i \in claimDue' PROVE i \in Idle'
        <4>1. /\ i \in DOMAIN pending /\ now - pending[i] >= 1
              /\ i \notin Out(r) /\ i \notin Stale(r)
          BY <3>1, <3>2, <1>c
        <4>2. i \in DOMAIN pending' /\ pending'[i] = pending[i]
          BY <4>1, <3>1
        <4>. QED
          BY <4>1, <4>2, <3>1 DEF Idle
      <3>. QED
        BY <3>1, <3>3, <1>k DEF ClaimInv
    <2>4. CASE Detach(r) \/ Bump(r) \/ Wake(r) \/ List(r) \/ Accept(r) \/ Yield(r)
      BY <2>4, <1>s DEF Detach, Bump, Wake, List, Accept, Yield, tracked, stream
    <2>. QED
      BY <1>3, <2>1, <2>2, <2>3, <2>4
  <1>4. ASSUME NEW r \in Readers, NEW m \in todo[r], Claim(r, m) PROVE ClaimInv'
    BY <1>4, <1>s DEF Claim, stream
  <1>5. ASSUME NEW r \in Readers, NEW p \in load.positions, SetId(r, p)
        PROVE  ClaimInv'
    BY <1>5, <1>s DEF SetId
  <1>6. ASSUME NEW d \in DOMAIN hands,
               Ack(d) \/ Requeue(d) \/ Schedule(d) \/ Leave(d)
        PROVE  ClaimInv'
    <2>1. CASE Ack(d)
      <3>1. CASE d.id \notin DOMAIN pending
        BY <3>1, <2>1, <1>s DEF Ack
      <3>2. CASE d.id \in DOMAIN pending
        <4>1. /\ pending' = [i \in DOMAIN pending \ {d.id} |-> pending[i]]
              /\ claimDue' = claimDue \ {d.id}
              /\ UNCHANGED <<now, last, live>>
          BY <3>2, <2>1 DEF Ack, Only, Unclaimable
        <4>2. ASSUME NEW i \in claimDue' PROVE i \in Idle'
          <5>1. i \in DOMAIN pending /\ now - pending[i] >= 1 /\ i # d.id
            BY <4>1, <1>c
          <5>. QED
            BY <5>1, <4>1 DEF Idle
        <4>. QED
          BY <4>1, <4>2, <1>k DEF ClaimInv
      <3>. QED
        BY <3>1, <3>2
    <2>2. CASE Requeue(d)
      BY <2>2, <1>x DEF Requeue
    <2>. QED
      BY <1>6, <2>1, <2>2, <1>s DEF Schedule, Leave, stream, tracked
  <1>7. CASE UNCHANGED vars
    BY <1>7, <1>s DEF vars, stream, tracked
  <1>8. CASE Publish
    BY <1>8, <1>x DEF Publish
  <1>. QED
    BY NextCases, <1>1, <1>2, <1>3, <1>4, <1>5, <1>6, <1>7, <1>8

-----------------------------------------------------------------------------
(* What is due.                                                            *)

\* A delay queue, or deletes, are for subscriptions that read new entries only:
\* a claim can find its entry deleted (MCInProcess_deleted.cfg), and a member
\* that is scheduled again while it is due stays due for its old time, which
\* takes that its entry was delivered twice.
ReadsAlone == \A l \in Loads :
    /\ l.deletes \/ l.delays => AllFresh(l)
    /\ l.delays => "beginning" \notin l.positions

\* Each load has the one or the other.
FindInv == /\ load.delays => OnceInv /\ LinkInv
           /\ ~load.deletes => ClaimInv

LEMMA FindStep ==
    ASSUME ReadsAlone, TypeInv, TypeInv', FindInv, [Next]_vars PROVE FindInv'
  <1>1. load' = load /\ load \in Loads
    BY SameLoad DEF TypeInv, KeysTyped
  <1>2. ASSUME load.delays PROVE OnceInv' /\ LinkInv'
    <2>1. AllFresh(load) /\ "beginning" \notin load.positions
      BY <1>1, <1>2 DEF ReadsAlone
    <2>2. OnceInv /\ LinkInv
      BY <1>2 DEF FindInv
    <2>. QED
      BY <2>1, <2>2, OnceStep, LinkStep
  <1>3. ASSUME ~load.deletes PROVE ClaimInv'
    BY <1>3, ClaimStep DEF FindInv
  <1>. QED
    BY <1>1, <1>2, <1>3 DEF FindInv

LEMMA InitFind == Init => FindInv
  <1>. SUFFICES ASSUME Init PROVE OnceInv /\ LinkInv /\ ClaimInv
    BY DEF FindInv
  <1>1. DOMAIN hands = {} /\ \A r \in Readers : buffer[r] = <<>>
    BY DEF Init, EmptyBag, SetToBag
  <1>2. DOMAIN score = {} /\ linkDue = {} /\ claimDue = {} /\ live = {}
        /\ last = 0
    BY DEF Init
  <1>3. Apart /\ Passed
    BY <1>1, EmptySeq DEF Apart, Passed
  <1>4. HeldOnce /\ ScoredOnce
    BY <1>1, <1>2 DEF HeldOnce, ScoredOnce
  <1>5. live = 1..last
    BY <1>2
  <1>. QED
    BY <1>2, <1>3, <1>4, <1>5 DEF OnceInv, LinkInv, ClaimInv

LEMMA Found ==
    ASSUME ReadsAlone, TypeInv, FindInv PROVE ReadsFindSomething
  <1>1. SUFFICES ASSUME NEW r \in Readers, pc[r] = "wait", Readable(r)
                 PROVE  \/ load.delays /\ \E m \in DOMAIN score : score[m] <= now
                        \/ Claims(r) /\ Idle \cap live # {}
                        \/ Leads(r) /\ New # {}
    BY DEF ReadsFindSomething
  <1>2. CASE load.delays /\ linkDue # {}
    BY <1>2 DEF FindInv, LinkInv
  <1>3. CASE Claims(r) /\ claimDue # {}
    <2>1. r \in Mounted /\ load \in Loads
      BY <1>1, HereMounted DEF Here, TypeInv, KeysTyped
    <2>2. ~load.deletes
      BY <2>1, <1>3 DEF ReadsAlone, AllFresh, Claims, Mounted
    <2>3. claimDue \subseteq Idle /\ live = 1..last
      BY <2>2 DEF FindInv, ClaimInv
    <2>4. Idle \subseteq 1..last
      BY DEF Idle, TypeInv, KeysTyped
    <2>. QED
      BY <1>3, <2>3, <2>4
  <1>. QED
    BY <1>1, <1>2, <1>3 DEF Readable

\* A reader that is woken finds something: a member whose time has come, an
\* entry that is idle, or a new one.  So no wait ends for nothing, and no reader is woken over and over (readable of in_process/mod.rs).
THEOREM WakesFind == ReadsAlone /\ Spec => []ReadsFindSomething
  <1>. SUFFICES ASSUME ReadsAlone PROVE Spec => []ReadsFindSomething
    OBVIOUS
  <1>1. Init => TypeInv /\ FindInv
    BY InitTypes, InitFind
  <1>2. TypeInv /\ FindInv /\ [Next]_vars => (TypeInv /\ FindInv)'
    BY TypesStep, FindStep
  <1>3. TypeInv /\ FindInv => ReadsFindSomething
    BY Found
  <1>. QED
    BY <1>1, <1>2, <1>3, PTL DEF Spec

-----------------------------------------------------------------------------
(* One reader of a delay queue.                                            *)

\* One subscription and nothing beside it.
Single(r) == Mounted = {r} /\ Fresh(r) /\ ~load.deletes /\ load.positions = {}

LEMMA SingleHere ==
    ASSUME TypeInv, NEW r \in Readers, Single(r)
    PROVE  /\ \A q \in Readers : Here(q) => q = r
           /\ Here(r) => AnyFresh(attached)
  <1>1. \A q \in Readers : Here(q) => q = r
    BY HereMounted DEF Single
  <1>2. Here(r) => AnyFresh(attached)
    <2>1. SUFFICES ASSUME Here(r) PROVE AnyFresh(attached)
      OBVIOUS
    <2>2. r \in Elems(attached)
      BY <2>1, HereMounted DEF Elems
    <2>. QED
      BY <2>2 DEF AnyFresh, Single
  <1>. QED
    BY <1>1, <1>2

\* Before it came there was nothing, and after it nothing is asked.
LEMMA IdleStep ==
    ASSUME TypeInv, NEW r \in Readers, Single(r), IdleBefore(r), [Next]_vars
    PROVE  IdleBefore(r)'
  <1>p. pc \in [Readers -> Stages]
    BY DEF TypeInv, ReadersTyped
  <1>h. \A q \in Readers : pc[r] = "out" => ~Here(q)
    BY SingleHere DEF Here
  <1>0. ASSUME UNCHANGED <<pc, score, hands, linkDue>> PROVE IdleBefore(r)'
    BY <1>0 DEF IdleBefore
  <1>1. ASSUME NEW q \in Readers, pc[q] # "out", Here(q),
               pc'[r] = "out" => pc[r] = "out"
        PROVE  IdleBefore(r)'
    BY <1>1, <1>h DEF IdleBefore
  <1>2. CASE Tick
    <2>1. /\ linkDue' = linkDue \cup Due("link", score, 0)
          /\ UNCHANGED <<pc, score, hands>>
      BY <1>2 DEF Tick, reading
    <2>2. Due("link", score, 0) \subseteq DOMAIN score
      BY Due1
    <2>. QED
      BY <2>1, <2>2 DEF IdleBefore
  <1>3. CASE Publish \/ UNCHANGED vars
    BY <1>3, <1>0 DEF Publish, reading, vars, tracked
  <1>4. ASSUME NEW i \in live, Delete(i) PROVE IdleBefore(r)'
    BY <1>4, <1>0 DEF Delete, reading
  <1>5. ASSUME NEW q \in Readers, Attach(q) PROVE IdleBefore(r)'
    <2>1. q = r /\ pc' = [pc EXCEPT ![q] = "wait"]
      BY <1>5 DEF Attach, Single
    <2>. QED
      BY <2>1, <1>p DEF IdleBefore
  <1>6. ASSUME NEW q \in Readers, Detach(q) PROVE IdleBefore(r)'
    <2>1. pc' = [pc EXCEPT ![q] = "gone"] /\ UNCHANGED <<score, hands, linkDue>>
      BY <1>6 DEF Detach
    <2>. QED
      BY <2>1, <1>p DEF IdleBefore
  <1>7. ASSUME NEW q \in Readers, Bump(q) PROVE IdleBefore(r)'
    BY <1>7, <1>0 DEF Bump, tracked
  <1>8. ASSUME NEW q \in Readers,
               \/ Wake(q) \/ List(q) \/ Readd(q) \/ Read(q)
               \/ Accept(q) \/ Yield(q)
        PROVE  IdleBefore(r)'
    <2>1. Here(q)
      BY <1>8 DEF Here, Wake, List, Readd, Read, Accept, Yield
    <2>2. pc'[r] = "out" => pc[r] = "out"
      <3>1. CASE Read(q)
        BY <3>1, <1>p, ReadParts DEF To
      <3>. QED
        BY <3>1, <1>8, <1>p DEF Wake, List, Readd, Accept, Yield, To, Swept
    <2>. QED
      BY <2>1, <2>2, <1>1 DEF Here
  <1>9. ASSUME NEW q \in Readers, NEW m \in todo[q], Claim(q, m)
        PROVE  IdleBefore(r)'
    <2>1. Here(q)
      BY <1>9 DEF Here, Claim
    <2>2. pc'[r] = "out" => pc[r] = "out"
      BY <1>9, <1>p DEF Claim, To, Swept
    <2>. QED
      BY <2>1, <2>2, <1>1 DEF Here
  <1>10. ASSUME NEW q \in Readers, NEW p \in load.positions, SetId(q, p)
         PROVE  IdleBefore(r)'
    BY <1>10, <1>0 DEF SetId, reading
  <1>11. ASSUME NEW d \in DOMAIN hands,
                Ack(d) \/ Requeue(d) \/ Schedule(d) \/ Leave(d)
         PROVE  IdleBefore(r)'
    <2>1. pc' = pc
      BY <1>11 DEF Ack, Requeue, Schedule, Leave, reading
    <2>. QED
      BY <2>1 DEF IdleBefore
  <1>. QED
    BY NextCases, <1>2, <1>3, <1>4, <1>5, <1>6, <1>7, <1>8, <1>9, <1>10, <1>11

\* The parts of HeldInv, for one reader that is here.
Waiting == \A m \in DOMAIN score :
    \/ score[m] <= now /\ m \in linkHeld
    \/ score[m] > now /\ [of |-> "link", id |-> m, at |-> score[m]] \in timers
Holding   == linkDue \subseteq linkHeld /\ linkHeld \subseteq DOMAIN score
Listed(r) == pc[r] \in {"sweep", "readd"} => todo[r] \subseteq linkHeld
Moving(r) == pc[r] = "readd" => readds > 0 \/ New # {}

LEMMA HeldParts ==
    ASSUME NEW r
    PROVE  HeldInv(r) <=> (Here(r) => Waiting /\ Holding /\ Listed(r) /\ Moving(r))
  BY DEF HeldInv, Waiting, Holding, Listed, Moving

LEMMA HeldNext ==
    ASSUME NEW r, Waiting', Holding', Listed(r)', Moving(r)' PROVE HeldInv(r)'
  BY DEF HeldInv, Waiting, Holding, Listed, Moving

LEMMA HeldTick ==
    ASSUME TypeInv, NEW r \in Readers, Single(r), Here(r), HeldInv(r), Tick
    PROVE  HeldInv(r)'
  <1>. DEFINE ripe == Due("link", score, 0)
  <1>k. now \in Int /\ \A m \in DOMAIN score : score[m] \in Int
    BY InProcessAssumption DEF TypeInv, KeysTyped, Times
  <1>1. /\ now' = now + 1 /\ linkDue' = linkDue \cup ripe
        /\ linkHeld' = linkHeld \cup (IF AnyFresh(attached) THEN ripe ELSE {})
        /\ \A t \in timers : t.of = "link" /\ t.at > now' => t \in timers'
        /\ UNCHANGED <<score, pc, todo, readds, live, cursor>>
    BY DEF Tick, reading, stream
  <1>2. AnyFresh(attached)
    BY SingleHere
  <1>3. linkHeld' = linkHeld \cup ripe /\ ripe \subseteq DOMAIN score
    BY <1>1, <1>2, Due1
  <1>4. Waiting /\ Holding /\ Listed(r) /\ Moving(r)
    BY HeldParts
  <1>5. ASSUME NEW m \in DOMAIN score
        PROVE  \/ score[m] <= now' /\ m \in linkHeld'
               \/ /\ score[m] > now'
                  /\ [of |-> "link", id |-> m, at |-> score[m]] \in timers'
    <2>. DEFINE t == [of |-> "link", id |-> m, at |-> score[m]]
    <2>1. CASE score[m] <= now /\ m \in linkHeld
      <3>1. score[m] <= now'
        BY <2>1, <1>1, <1>k
      <3>. QED
        BY <2>1, <3>1, <1>3
    <2>2. CASE score[m] > now /\ t \in timers
      <3>1. CASE score[m] = now'
        <4>1. t.of = "link" /\ t.id = m /\ t.at = score[m] /\ now' >= t.at + 0
          BY <3>1, <1>k, <1>1
        <4>2. m \in ripe
          BY <4>1, <2>2 DEF Due
        <4>. HIDE DEF ripe
        <4>3. score[m] <= now'
          BY <3>1, <1>k, <1>1
        <4>. QED
          BY <4>2, <4>3, <1>3
      <3>2. CASE score[m] # now'
        <4>1. score[m] > now'
          BY <3>2, <2>2, <1>1, <1>k
        <4>2. t \in timers'
          BY <4>1, <2>2, <1>1
        <4>. QED
          BY <4>1, <4>2
      <3>. QED
        BY <3>1, <3>2
    <2>. QED
      BY <2>1, <2>2, <1>4 DEF Waiting
  <1>6. Waiting'
    BY <1>1, <1>5 DEF Waiting
  <1>. HIDE DEF ripe
  <1>7. Holding'
    BY <1>1, <1>3, <1>4 DEF Holding
  <1>8. Listed(r)'
    BY <1>1, <1>3, <1>4 DEF Listed
  <1>9. Moving(r)'
    BY <1>1, <1>4 DEF Moving, New
  <1>. QED
    BY <1>6, <1>7, <1>8, <1>9, HeldNext

\* A step that leaves the delay queue alone, and its reader where it was in it.
LEMMA HeldSame ==
    ASSUME TypeInv, NEW r \in Readers, HeldInv(r),
           UNCHANGED <<now, score, linkDue, linkHeld>>, timers \subseteq timers',
           Here(r)' => Here(r),
           pc'[r] \in {"sweep", "readd"} =>
               pc[r] \in {"sweep", "readd"} /\ todo'[r] \subseteq todo[r],
           pc'[r] = "readd" =>
               pc[r] = "readd" /\ (UNCHANGED <<readds, New>> \/ New' # {})
    PROVE  HeldInv(r)'
  <1>1. SUFFICES ASSUME Here(r)' PROVE HeldInv(r)'
    BY DEF HeldInv
  <1>2. Waiting /\ Holding /\ Listed(r) /\ Moving(r)
    BY <1>1, HeldParts
  <1>3. Waiting'
    BY <1>2 DEF Waiting
  <1>4. Holding'
    BY <1>2 DEF Holding
  <1>5. Listed(r)'
    BY <1>2 DEF Listed
  <1>6. Moving(r)'
    BY <1>2 DEF Moving
  <1>. QED
    BY <1>3, <1>4, <1>5, <1>6, HeldNext

LEMMA HeldClaim ==
    ASSUME TypeInv, NEW r \in Readers, HeldInv(r), NEW m \in todo[r], Claim(r, m)
    PROVE  HeldInv(r)'
  <1>k. todo \in [Readers -> SUBSET Ids] /\ readds \in Nat
    BY DEF TypeInv, TrackedTyped, ReadersTyped
  <1>1. /\ pc[r] = "sweep" /\ now' = now /\ timers' = timers
        /\ todo' = [todo EXCEPT ![r] = todo[r] \ {m}]
    BY DEF Claim
  <1>2. Waiting /\ Holding /\ Listed(r)
    BY <1>1, HeldParts DEF Here
  <1>3. todo[r] \subseteq linkHeld /\ m \in linkHeld /\ m \in DOMAIN score
    BY <1>1, <1>2 DEF Listed, Holding
  <1>4. /\ score' = [n \in DOMAIN score \ {m} |-> score[n]]
        /\ linkDue' = linkDue \ {m} /\ linkHeld' = linkHeld \ {m}
        /\ readds' = readds + 1
    BY <1>3 DEF Claim, Only, PassedOn, One
  <1>5. Waiting'
    BY <1>1, <1>2, <1>4 DEF Waiting
  <1>6. Holding'
    BY <1>2, <1>4 DEF Holding
  <1>7. Listed(r)'
    <2>1. todo'[r] = todo[r] \ {m}
      BY <1>1, <1>k
    <2>. QED
      BY <2>1, <1>3, <1>4 DEF Listed
  <1>8. Moving(r)'
    BY <1>4, <1>k DEF Moving
  <1>. QED
    BY <1>5, <1>6, <1>7, <1>8, HeldNext

LEMMA HeldSchedule ==
    ASSUME TypeInv, NEW r \in Readers, HeldInv(r),
           NEW d \in DOMAIN hands, Schedule(d)
    PROVE  HeldInv(r)'
  <1>k. now \in Int
    BY InProcessAssumption DEF TypeInv, KeysTyped
  <1>. DEFINE i == d.id
              t == [of |-> "link", id |-> i, at |-> now + 1]
  <1>1. /\ score' = [m \in DOMAIN score \cup {i} |->
                        IF m = i THEN now + 1 ELSE score[m]]
        /\ timers' = IF i \in DOMAIN score /\ score[i] = now + 1 THEN timers
                     ELSE timers \cup {t}
        /\ UNCHANGED <<now, live, cursor, linkDue, linkHeld, readds, pc, todo>>
    BY DEF Schedule, reading, stream
  <1>2. SUFFICES ASSUME Here(r) PROVE HeldInv(r)'
    BY <1>1 DEF HeldInv, Here
  <1>3. Waiting /\ Holding /\ Listed(r) /\ Moving(r)
    BY <1>2, HeldParts
  <1>4. t \in timers'
    <2>1. CASE i \in DOMAIN score /\ score[i] = now + 1
      <3>1. ~(score[i] <= now)
        BY <2>1, <1>k
      <3>2. [of |-> "link", id |-> i, at |-> score[i]] \in timers
        BY <2>1, <3>1, <1>3 DEF Waiting
      <3>. QED
        BY <2>1, <3>2, <1>1
    <2>2. CASE ~(i \in DOMAIN score /\ score[i] = now + 1)
      BY <2>2, <1>1
    <2>. QED
      BY <2>1, <2>2
  <1>5. ASSUME NEW m \in DOMAIN score'
        PROVE  \/ score'[m] <= now /\ m \in linkHeld
               \/ /\ score'[m] > now
                  /\ [of |-> "link", id |-> m, at |-> score'[m]] \in timers'
    <2>1. CASE m = i
      <3>1. score'[m] = now + 1 /\ score'[m] > now
        BY <2>1, <1>1, <1>k
      <3>. QED
        BY <2>1, <3>1, <1>4
    <2>2. CASE m # i
      <3>1. m \in DOMAIN score /\ score'[m] = score[m] /\ timers \subseteq timers'
        BY <2>2, <1>1
      <3>. QED
        BY <3>1, <1>3 DEF Waiting
    <2>. QED
      BY <2>1, <2>2
  <1>6. Waiting'
    BY <1>1, <1>5 DEF Waiting
  <1>7. Holding'
    BY <1>1, <1>3 DEF Holding
  <1>8. Listed(r)'
    BY <1>1, <1>3 DEF Listed
  <1>9. Moving(r)'
    BY <1>1, <1>3 DEF Moving, New
  <1>. QED
    BY <1>6, <1>7, <1>8, <1>9, HeldNext

\* An entry added is new to the group.
LEMMA XaddIsNew == ASSUME TypeInv, Xadd PROVE New' # {}
  <1>1. last \in Nat /\ cursor \in 0..last
    BY InProcessAssumption DEF TypeInv, KeysTyped
  <1>2. last + 1 \in live' /\ cursor' = cursor
    BY DEF Xadd
  <1>3. last + 1 > cursor
    BY <1>1
  <1>. QED
    BY <1>2, <1>3 DEF New

LEMMA HeldStep ==
    ASSUME TypeInv, NEW r \in Readers, Single(r), IdleBefore(r), HeldInv(r),
           [Next]_vars
    PROVE  HeldInv(r)'
  <1>p. /\ pc \in [Readers -> Stages] /\ todo \in [Readers -> SUBSET Ids]
        /\ linkHeld \subseteq linkDue
    BY DEF TypeInv, ReadersTyped, TrackedTyped
  <1>h. \A q \in Readers : Here(q) => q = r
    BY SingleHere
  <1>k. now \in Int /\ \A m \in DOMAIN score : score[m] \in Int
    BY InProcessAssumption DEF TypeInv, KeysTyped, Times
  <1>s. ASSUME UNCHANGED <<now, score, linkDue, linkHeld, timers, pc, todo,
                           readds, live, cursor>>
        PROVE  HeldInv(r)'
    <2>1. New' = New
      BY <1>s DEF New
    <2>. QED
      BY <1>s, <2>1, HeldSame DEF Here
  <1>x. ASSUME Xadd, UNCHANGED <<now, score, linkDue, linkHeld, timers, pc, todo>>
        PROVE  HeldInv(r)'
    <2>1. New' # {}
      BY <1>x, XaddIsNew
    <2>. QED
      BY <2>1, <1>x, HeldSame DEF Here
  <1>1. CASE Tick
    <2>1. CASE Here(r)
      BY <1>1, <2>1, HeldTick
    <2>2. CASE ~Here(r)
      <3>1. pc' = pc
        BY <1>1 DEF Tick, reading
      <3>. QED
        BY <2>2, <3>1 DEF HeldInv, Here
    <2>. QED
      BY <2>1, <2>2
  <1>2. CASE Publish
    BY <1>2, <1>x DEF Publish, reading
  <1>3. ASSUME NEW i \in live, Delete(i) PROVE HeldInv(r)'
    BY <1>3 DEF Delete, Single
  <1>4. ASSUME NEW q \in Readers, Attach(q) PROVE HeldInv(r)'
    <2>1. /\ q = r /\ pc[r] = "out" /\ pc'[r] = "wait"
          /\ UNCHANGED <<score, linkDue, linkHeld>>
      BY <1>4, <1>p DEF Attach, Single
    <2>2. DOMAIN score = {} /\ linkDue = {} /\ linkHeld = {}
      BY <2>1, <1>p DEF IdleBefore
    <2>3. Waiting' /\ Holding'
      BY <2>1, <2>2 DEF Waiting, Holding
    <2>. QED
      BY <2>1, <2>3, HeldNext DEF Listed, Moving
  <1>5. ASSUME NEW q \in Readers, Detach(q) PROVE HeldInv(r)'
    <2>1. q = r
      <3>1. PICK k \in DOMAIN attached : attached[k] = q
        BY <1>5 DEF Detach
      <3>2. Here(q)
        BY <3>1 DEF TypeInv, AttachedInv
      <3>. QED
        BY <3>2, <1>h
    <2>2. pc'[r] = "gone"
      BY <2>1, <1>5, <1>p DEF Detach
    <2>. QED
      BY <2>2 DEF HeldInv, Here
  <1>6. ASSUME NEW q \in Readers, Bump(q) PROVE HeldInv(r)'
    BY <1>6, <1>s DEF Bump, tracked, stream
  <1>7. ASSUME NEW q \in Readers, Wake(q) PROVE HeldInv(r)'
    <2>1. /\ pc' = [pc EXCEPT ![q] = IF load.delays THEN "list" ELSE "read"]
          /\ pc[q] = "wait" /\ q = r
          /\ UNCHANGED <<now, score, linkDue, linkHeld, timers>>
      BY <1>7, <1>h DEF Wake, To, tracked, Here
    <2>2. pc'[r] \in {"list", "read"}
      BY <2>1, <1>p
    <2>. QED
      BY <2>1, <2>2, HeldSame DEF Here
  <1>8. ASSUME NEW q \in Readers, List(q) PROVE HeldInv(r)'
    <2>1. /\ pc[q] = "list" /\ q = r
          /\ todo' = [todo EXCEPT ![q] = {m \in DOMAIN score : score[m] <= now}]
          /\ pc' = [pc EXCEPT ![q] = Swept(todo'[q])]
          /\ UNCHANGED <<now, score, linkDue, linkHeld, timers>>
      BY <1>8, <1>h DEF List, To, tracked, Here
    <2>2. Waiting /\ Holding
      BY <2>1, HeldParts DEF Here
    <2>3. Waiting'
      BY <2>1, <2>2 DEF Waiting
    <2>4. Holding'
      BY <2>1, <2>2 DEF Holding
    <2>5. Listed(r)'
      <3>1. todo'[r] = {m \in DOMAIN score : score[m] <= now}
        BY <2>1, <1>p
      <3>2. \A m \in DOMAIN score : score[m] <= now => m \in linkHeld
        <4>1. SUFFICES ASSUME NEW m \in DOMAIN score, score[m] <= now
                       PROVE  m \in linkHeld
          OBVIOUS
        <4>2. ~(score[m] > now)
          BY <4>1, <1>k
        <4>. QED
          BY <4>2, <2>2 DEF Waiting
      <3>. QED
        BY <2>1, <3>1, <3>2 DEF Listed
    <2>6. Moving(r)'
      BY <2>1, <1>p DEF Swept, Moving
    <2>. QED
      BY <2>3, <2>4, <2>5, <2>6, HeldNext
  <1>9. ASSUME NEW q \in Readers, Readd(q) PROVE HeldInv(r)'
    <2>1. /\ pc[q] = "readd" /\ q = r
          /\ pc' = [pc EXCEPT ![q] = Swept(todo[q])]
          /\ UNCHANGED <<now, score, linkDue, linkHeld, timers, todo>>
      BY <1>9, <1>h DEF Readd, To, Here
    <2>2. pc'[r] \in {"sweep", "read"}
      BY <2>1, <1>p DEF Swept
    <2>. QED
      BY <2>1, <2>2, HeldSame DEF Here
  <1>10. ASSUME NEW q \in Readers, Read(q) PROVE HeldInv(r)'
    <2>1. /\ pc[q] = "read" /\ q = r
          /\ pc' = [pc EXCEPT ![q] = "answered"]
          /\ timers \subseteq timers'
          /\ UNCHANGED <<now, score, linkDue, linkHeld>>
      BY <1>10, <1>h, ReadParts DEF To, Here
    <2>2. pc'[r] = "answered"
      BY <2>1, <1>p
    <2>. QED
      BY <2>1, <2>2, HeldSame DEF Here
  <1>11. ASSUME NEW q \in Readers, Accept(q) PROVE HeldInv(r)'
    <2>1. /\ pc[q] = "answered" /\ q = r
          /\ pc' = [pc EXCEPT ![q] = "wait"]
          /\ UNCHANGED <<now, score, linkDue, linkHeld, timers>>
      BY <1>11, <1>h DEF Accept, tracked, Here
    <2>2. pc'[r] = "wait"
      BY <2>1, <1>p
    <2>. QED
      BY <2>1, <2>2, HeldSame DEF Here
  <1>12. ASSUME NEW q \in Readers, Yield(q) PROVE HeldInv(r)'
    BY <1>12, <1>s DEF Yield, tracked, stream
  <1>13. ASSUME NEW q \in Readers, NEW m \in todo[q], Claim(q, m)
         PROVE  HeldInv(r)'
    <2>1. q = r
      BY <1>13, <1>h DEF Claim, Here
    <2>. QED
      BY <2>1, <1>13, HeldClaim
  <1>14. ASSUME NEW q \in Readers, NEW p \in load.positions, SetId(q, p)
         PROVE  HeldInv(r)'
    BY <1>14 DEF Single
  <1>15. ASSUME NEW d \in DOMAIN hands,
                Ack(d) \/ Requeue(d) \/ Schedule(d) \/ Leave(d)
         PROVE  HeldInv(r)'
    <2>1. CASE Ack(d)
      BY <2>1, <1>s DEF Ack, reading
    <2>2. CASE Requeue(d)
      BY <2>2, <1>x DEF Requeue, reading
    <2>3. CASE Leave(d)
      BY <2>3, <1>s DEF Leave, tracked, reading, stream
    <2>. QED
      BY <1>15, <2>1, <2>2, <2>3, HeldSchedule
  <1>16. CASE UNCHANGED vars
    BY <1>16, <1>s DEF vars, tracked, reading, stream
  <1>. QED
    BY NextCases, <1>1, <1>2, <1>3, <1>4, <1>5, <1>6, <1>7, <1>8, <1>9, <1>10,
       <1>11, <1>12, <1>13, <1>14, <1>15, <1>16

-----------------------------------------------------------------------------
(* Quiet.                                                                  *)

\* Without a delay queue nobody sweeps.
Plain == ~load.delays =>
    \A r \in Readers : pc[r] \notin {"list", "sweep", "readd"}

LEMMA PlainStep == ASSUME TypeInv, Plain, [Next]_vars PROVE Plain'
  <1>p. pc \in [Readers -> Stages] /\ load' = load
    BY SameLoad DEF TypeInv, ReadersTyped
  <1>1. SUFFICES ASSUME ~load.delays PROVE Plain'
    BY <1>p DEF Plain
  <1>2. \A r \in Readers : pc[r] \notin {"list", "sweep", "readd"}
    BY <1>1 DEF Plain
  <1>0. ASSUME NEW q \in Readers, NEW x, pc' = [pc EXCEPT ![q] = x],
               x \notin {"list", "sweep", "readd"}
        PROVE  Plain'
    BY <1>0, <1>2, <1>p DEF Plain
  <1>s. ASSUME pc' = pc PROVE Plain'
    BY <1>s, <1>2 DEF Plain
  <1>3. CASE Tick \/ Publish \/ UNCHANGED vars
    BY <1>3, <1>s DEF Tick, Publish, vars, reading
  <1>4. ASSUME NEW i \in live, Delete(i) PROVE Plain'
    BY <1>4, <1>s DEF Delete, reading
  <1>5. ASSUME NEW r \in Readers,
               \/ Attach(r) \/ Detach(r) \/ Bump(r)
               \/ Wake(r) \/ List(r) \/ Readd(r) \/ Read(r)
               \/ Accept(r) \/ Yield(r)
        PROVE  Plain'
    <2>1. CASE Attach(r)
      BY <2>1, <1>0 DEF Attach
    <2>2. CASE Detach(r)
      BY <2>2, <1>0 DEF Detach
    <2>3. CASE Bump(r) \/ Yield(r)
      BY <2>3, <1>s DEF Bump, Yield
    <2>4. CASE Wake(r)
      BY <2>4, <1>0, <1>1 DEF Wake, To
    <2>5. CASE List(r) \/ Readd(r)
      BY <2>5, <1>2 DEF List, Readd
    <2>6. CASE Read(r)
      BY <2>6, <1>0, ReadParts DEF To
    <2>7. CASE Accept(r)
      BY <2>7, <1>0 DEF Accept
    <2>. QED
      BY <1>5, <2>1, <2>2, <2>3, <2>4, <2>5, <2>6, <2>7
  <1>6. ASSUME NEW r \in Readers, NEW m \in todo[r], Claim(r, m) PROVE Plain'
    BY <1>6, <1>2 DEF Claim
  <1>7. ASSUME NEW r \in Readers, NEW p \in load.positions, SetId(r, p)
        PROVE  Plain'
    BY <1>7, <1>s DEF SetId, reading
  <1>8. ASSUME NEW d \in DOMAIN hands,
               Ack(d) \/ Requeue(d) \/ Schedule(d) \/ Leave(d)
        PROVE  Plain'
    BY <1>8, <1>s DEF Ack, Requeue, Schedule, Leave, reading
  <1>. QED
    BY NextCases, <1>3, <1>4, <1>5, <1>6, <1>7, <1>8

\* A delay queue has one subscription, which reads new entries, and nobody
\* deletes or seeks beside it.  Two would take each other's holds
\* (MCInProcess_shared.cfg).
DelaysAlone == \A l \in Loads : l.delays =>
    /\ \E r \in Readers : DOMAIN l.mode = {r} /\ l.mode[r] # "reclaim"
    /\ ~l.deletes /\ l.positions = {}

\* What quiet rests on, beside TypeInv and CountInv.
QuietInv ==
    /\ OwedInv /\ Plain
    /\ load.delays => \A r \in Mounted : IdleBefore(r) /\ HeldInv(r)

LEMMA IsSingle ==
    ASSUME DelaysAlone, TypeInv, load.delays
    PROVE  \E r \in Readers : Single(r)
  <1>1. load \in Loads
    BY DEF TypeInv, KeysTyped
  <1>. QED
    BY <1>1 DEF DelaysAlone, Single, Mounted, Fresh

LEMMA QuietStep ==
    ASSUME NoReplay, DelaysAlone, TypeInv, TypeInv', QuietInv, [Next]_vars
    PROVE  QuietInv'
  <1>1. load' = load /\ Mounted' = Mounted
    BY SameLoad DEF Mounted
  <1>2. OwedInv' /\ Plain'
    BY OwedStep, PlainStep DEF QuietInv
  <1>3. ASSUME load.delays
        PROVE  \A r \in Mounted : IdleBefore(r)' /\ HeldInv(r)'
    <2>1. PICK r \in Readers : Single(r)
      BY <1>3, IsSingle
    <2>2. Mounted = {r}
      BY <2>1 DEF Single
    <2>3. IdleBefore(r) /\ HeldInv(r)
      BY <1>3, <2>2 DEF QuietInv
    <2>4. IdleBefore(r)' /\ HeldInv(r)'
      BY <2>1, <2>3, IdleStep, HeldStep
    <2>. QED
      BY <2>2, <2>4
  <1>. QED
    BY <1>1, <1>2, <1>3 DEF QuietInv

LEMMA InitQuiet == Init => QuietInv
  <1>. SUFFICES ASSUME Init PROVE QuietInv
    OBVIOUS
  <1>1. OwedInv
    BY InitOwed
  <1>2. \A r \in Readers : pc[r] = "out"
    BY DEF Init
  <1>3. Mounted \subseteq Readers
    BY InitTypes, LoadTypes DEF Init
  <1>4. ASSUME NEW r \in Mounted PROVE IdleBefore(r) /\ HeldInv(r)
    <2>1. pc[r] = "out"
      BY <1>2, <1>3
    <2>2. HeldInv(r)
      BY <2>1 DEF HeldInv, Here
    <2>3. IdleBefore(r)
      BY DEF Init, IdleBefore, EmptyBag, SetToBag
    <2>. QED
      BY <2>2, <2>3
  <1>5. Plain
    BY <1>2 DEF Plain
  <1>. QED
    BY <1>1, <1>4, <1>5 DEF QuietInv

LEMMA NothingCounted ==
    ASSUME TypeInv, CountInv, count = 0
    PROVE  /\ owed = {} /\ linkHeld = {} /\ readds = 0
           /\ hands = EmptyBag /\ \A r \in Readers : buffer[r] = <<>>
  <1>1. /\ Cardinality(owed) = 0 /\ Cardinality(linkHeld) = 0 /\ readds = 0
        /\ Cardinality(Buffered) = 0 /\ Cardinality(Handled) = 0
    BY TokenTypes
  <1>2. /\ IsFiniteSet(owed) /\ IsFiniteSet(linkHeld)
        /\ IsFiniteSet(Buffered) /\ IsFiniteSet(Handled)
    BY TokenTypes
  <1>3. owed = {} /\ linkHeld = {}
    BY <1>1, <1>2, FS_EmptySet
  <1>4. Buffered = {} /\ Handled = {}
    BY <1>1, <1>2, FS_EmptySet
  <1>5. DOMAIN hands = {}
    <2>1. SUFFICES ASSUME NEW d \in DOMAIN hands PROVE FALSE
      OBVIOUS
    <2>2. d \in Delivery /\ hands[d] \in Nat /\ hands[d] >= 1
      BY DEF TypeInv, HandsTyped, IsABag
    <2>3. <<d, 1>> \in Handled
      BY <2>2 DEF Handled
    <2>. QED
      BY <2>3, <1>4
  <1>6. hands = EmptyBag
    <2>1. hands = [d \in {} |-> 1] /\ EmptyBag = [d \in {} |-> 1]
      BY <1>5 DEF TypeInv, HandsTyped, IsABag, EmptyBag, SetToBag
    <2>. QED
      BY <2>1
  <1>7. ASSUME NEW r \in Readers PROVE buffer[r] = <<>>
    <2>1. buffer[r] \in Seq(Ids) /\ Len(buffer[r]) \in Nat
      BY LenProperties DEF TypeInv, ReadersTyped
    <2>2. Len(buffer[r]) >= 1 => <<r, 1>> \in Buffered
      BY <2>1 DEF Buffered
    <2>3. Len(buffer[r]) = 0
      BY <2>1, <2>2, <1>4
    <2>. QED
      BY <2>1, <2>3, EmptySeq
  <1>. QED
    BY <1>1, <1>3, <1>6, <1>7

LEMMA Finished ==
    ASSUME DelaysAlone, TypeInv, CountInv, QuietInv PROVE QuietIsFinished
  <1>1. SUFFICES ASSUME count = 0
                 PROVE  /\ hands = EmptyBag
                        /\ \A r \in Readers :
                              /\ buffer[r] = <<>> /\ pc[r] # "readd"
                              /\ pc[r] = "wait" => ~Readable(r)
    BY DEF QuietIsFinished
  <1>2. /\ owed = {} /\ linkHeld = {} /\ readds = 0
        /\ hands = EmptyBag /\ \A r \in Readers : buffer[r] = <<>>
    BY <1>1, NothingCounted
  <1>n. AnyFresh(attached) => New = {}
    BY <1>2, OwedIs DEF QuietInv, New
  <1>3. ASSUME load.delays, NEW r \in Readers, Here(r)
        PROVE  pc[r] # "readd" /\ linkDue = {}
    <2>1. Mounted = {r} /\ AnyFresh(attached)
      <3>1. PICK q \in Readers : Single(q)
        BY <1>3, IsSingle
      <3>2. r = q
        BY <1>3, <3>1, SingleHere
      <3>. QED
        BY <1>3, <3>1, <3>2, SingleHere DEF Single
    <2>2. HeldInv(r)
      BY <1>3, <2>1 DEF QuietInv
    <2>3. /\ linkDue \subseteq linkHeld
          /\ pc[r] = "readd" => readds > 0 \/ New # {}
      BY <2>2, <1>3 DEF HeldInv
    <2>. QED
      BY <2>1, <2>3, <1>2, <1>n
  <1>4. ASSUME NEW r \in Readers, pc[r] = "readd" PROVE FALSE
    <2>1. load.delays
      BY <1>4 DEF QuietInv, Plain
    <2>. QED
      BY <2>1, <1>3, <1>4 DEF Here
  <1>5. ASSUME NEW r \in Readers, pc[r] = "wait", Readable(r) PROVE FALSE
    <2>0. Here(r)
      BY <1>5 DEF Here
    <2>1. PICK k \in DOMAIN attached : attached[k] = r
      BY <2>0, HereMounted
    <2>2. r \in Elems(attached)
      BY <2>1 DEF Elems
    <2>3. CASE load.delays /\ linkDue # {}
      BY <2>0, <2>3, <1>3
    <2>4. CASE Claims(r) /\ claimDue # {}
      <3>1. AnyClaims(attached)
        BY <2>2, <2>4 DEF AnyClaims
      <3>2. PICK i \in claimDue : TRUE
        BY <2>4
      <3>3. i \in owed
        BY <3>1, <3>2, OwedIs DEF QuietInv
      <3>. QED
        BY <3>3, <1>2
    <2>5. CASE Leads(r) /\ New # {}
      <3>1. AnyFresh(attached)
        BY <2>2, <2>5 DEF AnyFresh, Leads
      <3>. QED
        BY <3>1, <2>5, <1>n
    <2>. QED
      BY <1>5, <2>3, <2>4, <2>5 DEF Readable
  <1>. QED
    BY <1>2, <1>4, <1>5

\* The harness is right when it sees nothing in flight: then no handler has a
\* delivery, no buffer an entry, nothing readable waits and no copy is on its
\* way (Coordinator of the harness, the counts of loopback.rs).
THEOREM QuietMeansFinished ==
    NoReplay /\ DelaysAlone /\ Spec => []QuietIsFinished
  <1>. SUFFICES ASSUME NoReplay, DelaysAlone PROVE Spec => []QuietIsFinished
    OBVIOUS
  <1>1. Init => TypeInv /\ CountInv /\ QuietInv
    BY InitTypes, InitCount, InitQuiet
  <1>2. TypeInv /\ CountInv /\ QuietInv /\ [Next]_vars
           => (TypeInv /\ CountInv /\ QuietInv)'
    BY TypesStep, CountStep, QuietStep
  <1>3. TypeInv /\ CountInv /\ QuietInv => QuietIsFinished
    BY Finished
  <1>. QED
    BY <1>1, <1>2, <1>3, PTL DEF Spec
=============================================================================
