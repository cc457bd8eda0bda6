------------------------- MODULE ReliableListProofs -------------------------
(***************************************************************************)
(* Proofs about ReliableList, for any subscriptions, entries, batches and   *)
(* bounds.                                                                  *)
(***************************************************************************)
EXTENDS ReliableList, FiniteSetTheorems, SequenceTheorems, TLAPS

-----------------------------------------------------------------------------
(* Type correctness.                                                       *)

DueOf == [claim: 1..claims, val: Vals]

ListTyped   == queue \in Seq(Vals) /\ processing \in [Vals -> Nat]
RecordTyped ==
    /\ claims \in Nat
    /\ DOMAIN tracked \subseteq 1..claims
    /\ tracked \in [DOMAIN tracked -> Record]
DueTyped    ==
    /\ due \in [Subs -> Seq(DueOf)]
    /\ \A s \in Subs : Len(due[s]) <= Batch
HandTyped   ==
    /\ mine \in [Subs -> Seq(Vals)]
    /\ left \in [Subs -> Nat]
    /\ \A s \in Readers : Len(mine[s]) + left[s] <= Larger(1, load.count)
CountTyped  ==
    /\ pushed \in [Vals -> Nat] /\ retried \in [Vals -> Nat]
    /\ settled \in [Vals -> Nat] /\ taken \in [Vals -> Nat]
    /\ dropped \in [Vals -> Nat] /\ stranded \in [Vals -> Nat]
ProcessTyped ==
    /\ load \in Loads
    /\ pc \in [Subs -> ReadPc]
    /\ open \in [Subs -> BOOLEAN]
    /\ faults \in Nat

\* What a read has in its hands at each place of its loop.
Handful(s) ==
    /\ pc[s] \in {"read", "sweep", "forget", "pop"} => mine[s] = <<>>
    /\ pc[s] = "push" => Len(mine[s]) = 1
    /\ pc[s] = "track" => mine[s] # <<>>
    /\ pc[s] \notin {"moves", "lost"} => left[s] = 0
    /\ pc[s] \in {"push", "forget"} => due[s] # <<>>
HandsInv == \A s \in Subs : Handful(s)

Pushers == {s \in Subs : pc[s] = "push"}
FiniteInv == IsFiniteSet(Pushers) /\ IsFiniteSet(holds)
BufferTyped == buffer \in [Subs -> Seq(Claimed)]
HoldTyped == holds \subseteq Hold

TypeInv ==
    /\ ListTyped /\ RecordTyped /\ DueTyped /\ HandTyped /\ CountTyped
    /\ ProcessTyped /\ BufferTyped /\ HoldTyped
    /\ HandsInv /\ FiniteInv

\* The members of the claims, and what the salts of the next ones come from.
SaltTyped ==
    /\ members \in Seq(Member) /\ Len(members) = claims
    /\ starts \in [Subs -> Nat] /\ counter \in [Subs -> Nat]

LEMMA TypeInvIsTyped == TypeInv /\ SaltTyped => TypeOK
  BY DEF SaltTyped, TypeInv, TypeOK, ListTyped, RecordTyped, DueTyped, DueOf,
         HandTyped,
         CountTyped, ProcessTyped, BufferTyped, HoldTyped

LEMMA LoadTypes ==
    ASSUME ProcessTyped
    PROVE  /\ load \in Load /\ load.count \in Nat /\ Batch \in Nat \ {0}
           /\ Readers \subseteq Subs
  BY ListAssumption DEF ProcessTyped, Load, Readers

\* The counts of occurrences are numbers.
LEMMA TimesType ==
    ASSUME NEW T, NEW seq \in Seq(T), NEW S
    PROVE  IsFiniteSet(Places(seq, S)) /\ Times(seq, S) \in Nat
  <1>1. DOMAIN seq = 1..Len(seq) /\ Len(seq) \in Nat
    BY LenProperties
  <1>2. IsFiniteSet(DOMAIN seq)
    BY <1>1, FS_Interval
  <1>3. IsFiniteSet(Places(seq, S))
    BY <1>2, FS_Subset DEF Places
  <1>. QED
    BY <1>3, FS_CardinalityType DEF Times

LEMMA BareType ==
    ASSUME FiniteInv, NEW hs, hs \subseteq holds, NEW v
    PROVE  Bare(hs, v) \in Nat
  <1>1. IsFiniteSet({h \in hs : ~h.recorded /\ h.stage # "removed"
                                /\ h.val = v})
    BY FS_Subset DEF FiniteInv
  <1>. QED
    BY <1>1, FS_CardinalityType DEF Bare

LEMMA TrackedType ==
    ASSUME RecordTyped, NEW v
    PROVE  Tracked(v) \in Nat /\ IsFiniteSet(DOMAIN tracked)
  <1>1. IsFiniteSet(1..claims)
    BY FS_Interval DEF RecordTyped
  <1>2. IsFiniteSet(DOMAIN tracked)
    BY <1>1, FS_Subset DEF RecordTyped
  <1>3. IsFiniteSet({c \in DOMAIN tracked : tracked[c].val = v})
    BY <1>2, FS_Subset
  <1>. QED
    BY <1>2, <1>3, FS_CardinalityType DEF Tracked

\* ZRANGEBYSCORE ... LIMIT returns no more than the batch.
LEMMA ListedBound ==
    ASSUME RecordTyped, Batch \in Nat \ {0}
    PROVE  /\ IsFiniteSet(Listed) /\ Cardinality(Listed) \in Nat
           /\ Cardinality(Listed) <= Batch
  <1>1. Listed \subseteq DOMAIN tracked /\ Due \subseteq DOMAIN tracked
        /\ Listed \subseteq Due
    BY DEF Listed, Due
  <1>2. IsFiniteSet(Listed) /\ IsFiniteSet(Due)
    BY <1>1, TrackedType, FS_Subset
  <1>3. Cardinality(Listed) \in Nat
    BY <1>2, FS_CardinalityType
  <1>4. CASE Listed = {}
    BY <1>4, FS_EmptySet
  <1>5. CASE Listed # {}
    <2> DEFINE T == {n \in Nat : n <= claims /\ claims - n \in Listed}
    <2>1. claims \in Nat /\ Listed \subseteq 1..claims
      BY <1>1 DEF RecordTyped
    <2>2. PICK c \in Listed : TRUE
      BY <1>5
    <2>3. claims - c \in T
      BY <2>1, <2>2
    <2>4. PICK n \in T : \A k \in T : <<k, n>> \notin OpToRel(<, Nat)
      <3>1. T \subseteq Nat /\ T # {}
        BY <2>3
      <3>. QED
        BY <3>1, NatLessThanWellFounded, WFMin
    <2>5. n \in Nat /\ n <= claims /\ claims - n \in Listed
      BY <2>4
    <2>6. ASSUME NEW d \in Listed, d # claims - n PROVE d < claims - n
      <3>1. claims - d \in Nat /\ claims - d <= claims /\ claims - (claims - d) = d
        BY <2>1
      <3>2. claims - d \in T
        BY <3>1
      <3>3. ~(claims - d < n)
        BY <2>4, <2>5, <3>1, <3>2 DEF OpToRel
      <3>. QED
        BY <2>1, <2>5, <2>6, <3>1, <3>3
    <2> HIDE DEF T
    <2> DEFINE top == claims - n
               below == {d \in Due : d < top}
    <2>7. Listed \ {top} \subseteq below
      BY <1>1, <2>6
    <2>8. IsFiniteSet(below) /\ Cardinality(below) \in Nat
      BY <1>2, FS_Subset, FS_CardinalityType
    <2>9. Cardinality(below) < Batch
      BY <2>5 DEF Listed
    <2> HIDE DEF below, top
    <2>10. Cardinality(Listed \ {top}) <= Cardinality(below)
      BY <2>7, <2>8, FS_Subset
    <2>11. Cardinality(Listed \ {top}) = Cardinality(Listed) - 1
      BY <1>2, <2>5, FS_RemoveElement DEF top
    <2>. QED
      BY <1>2, <1>3, <2>8, <2>9, <2>10, <2>11
  <1>. QED
    BY <1>2, <1>3, <1>4, <1>5

-----------------------------------------------------------------------------
(* Steps that leave the readers alone.                                     *)

LEMMA QuietStep ==
    ASSUME TypeInv, UNCHANGED <<load, reader, open, claims>>,
           ListTyped', RecordTyped', CountTyped', HoldTyped',
           IsFiniteSet(holds'), faults' \in Nat
    PROVE  TypeInv'
  <1>1. UNCHANGED <<pc, due, mine, left, buffer>>
    BY DEF reader
  <1>2. DueTyped' /\ HandTyped' /\ ProcessTyped' /\ BufferTyped'
    BY <1>1 DEF TypeInv, DueTyped, DueOf, HandTyped, ProcessTyped, BufferTyped,
                Readers
  <1>3. HandsInv' /\ FiniteInv'
    BY <1>1 DEF TypeInv, HandsInv, Handful, FiniteInv, Pushers
  <1>. QED
    BY <1>2, <1>3 DEF TypeInv

LEMMA Bumped ==
    ASSUME NEW f \in [Vals -> Nat], NEW v \in Vals
    PROVE  /\ Plus(f, v) \in [Vals -> Nat] /\ Minus(f, v) \in [Vals -> Nat]
           /\ Plus(f, v)[v] = f[v] + 1
           /\ Minus(f, v)[v] = IF f[v] = 0 THEN 0 ELSE f[v] - 1
           /\ \A w \in Vals \ {v} :
                 Plus(f, v)[w] = f[w] /\ Minus(f, v)[w] = f[w]
  BY DEF Plus, Minus, OneLess

LEMMA FaultType == faults \in Nat /\ Fault => faults' \in Nat
  BY DEF Fault

LEMMA Pushed ==
    ASSUME queue \in Seq(Vals), NEW seq \in Seq(Vals)
    PROVE  seq \o queue \in Seq(Vals)
  BY ConcatProperties

LEMMA PushTypes ==
    ASSUME TypeInv, NEW v \in Vals, Push(v) PROVE TypeInv'
  <1>1. /\ queue' = <<v>> \o queue /\ pushed' = Plus(pushed, v)
        /\ UNCHANGED <<load, processing, tracked, claims, reader, holds, open,
                       retried, settled, taken, dropped, stranded, faults>>
    BY DEF Push
  <1>2. ListTyped'
    <2>1. <<v>> \in Seq(Vals)
      OBVIOUS
    <2>. QED
      BY <1>1, <2>1, Pushed DEF TypeInv, ListTyped
  <1>3. CountTyped'
    BY <1>1, Bumped DEF TypeInv, CountTyped
  <1>4. RecordTyped' /\ HoldTyped' /\ IsFiniteSet(holds') /\ faults' \in Nat
    BY <1>1 DEF TypeInv, RecordTyped, HoldTyped, FiniteInv, ProcessTyped
  <1>. QED
    BY <1>1, <1>2, <1>3, <1>4, QuietStep

LEMMA AgeTypes ==
    ASSUME TypeInv, NEW c \in DOMAIN tracked, Age(c) PROVE TypeInv'
  <1>1. /\ tracked' = [tracked EXCEPT ![c].idle = TRUE]
        /\ UNCHANGED <<load, queue, processing, claims, reader, holds, open,
                       history, faults>>
    BY DEF Age
  <1>2. RecordTyped'
    <2>1. DOMAIN tracked' = DOMAIN tracked
      BY <1>1
    <2>2. tracked' \in [DOMAIN tracked -> Record]
      BY <1>1 DEF TypeInv, RecordTyped, Record
    <2>. QED
      BY <1>1, <2>1, <2>2 DEF TypeInv, RecordTyped
  <1>3. /\ ListTyped' /\ CountTyped' /\ HoldTyped' /\ IsFiniteSet(holds')
        /\ faults' \in Nat
    BY <1>1 DEF TypeInv, ListTyped, CountTyped, HoldTyped, FiniteInv,
                ProcessTyped, history
  <1>. QED
    BY <1>1, <1>2, <1>3, QuietStep

LEMMA ExpireTypes == ASSUME TypeInv, Expire PROVE TypeInv'
  <1>1. /\ stranded' = [v \in Vals |-> stranded[v] + Tracked(v)]
        /\ tracked' = NoRecord /\ Fault
        /\ UNCHANGED <<load, queue, processing, claims, reader, holds, open,
                       pushed, retried, settled, taken, dropped>>
    BY DEF Expire
  <1>2. \A v \in Vals : Tracked(v) \in Nat
    BY TrackedType DEF TypeInv
  <1>3. CountTyped'
    BY <1>1, <1>2 DEF TypeInv, CountTyped
  <1>4. RecordTyped'
    <2>1. DOMAIN tracked' = {} /\ tracked' \in [{} -> Record]
      BY <1>1 DEF NoRecord
    <2>. QED
      BY <1>1, <2>1 DEF TypeInv, RecordTyped
  <1>5. /\ ListTyped' /\ HoldTyped' /\ IsFiniteSet(holds')
        /\ faults' \in Nat
    BY <1>1, FaultType DEF TypeInv, ListTyped, HoldTyped, FiniteInv, ProcessTyped
  <1>. QED
    BY <1>1, <1>3, <1>4, <1>5, QuietStep

-----------------------------------------------------------------------------
(* Verdicts.                                                               *)

Stages == {"held", "acked", "nacked", "retrying", "removed"}

LEMMA AtTypes ==
    ASSUME TypeInv, NEW h \in holds, NEW stage \in Stages
    PROVE  /\ At(h, stage) \subseteq Hold /\ IsFiniteSet(At(h, stage))
           /\ h \in Hold /\ h.sub \in Subs /\ h.val \in Vals
           /\ [h EXCEPT !.stage = stage].val = h.val
           /\ [h EXCEPT !.stage = stage].stage = stage
           /\ [h EXCEPT !.stage = stage].recorded = h.recorded
           /\ [h EXCEPT !.stage = stage].sub = h.sub
           /\ [h EXCEPT !.stage = stage].claim = h.claim
           /\ [h EXCEPT !.stage = stage] \in Hold
  <1>1. h \in Hold /\ IsFiniteSet(holds) /\ holds \subseteq Hold
    BY DEF TypeInv, HoldTyped, FiniteInv
  <1>2. [h EXCEPT !.stage = stage] \in Hold
    BY <1>1 DEF Hold, Stages
  <1>3. IsFiniteSet(holds \ {h})
    BY <1>1, FS_Subset
  <1>4. IsFiniteSet(At(h, stage))
    BY <1>3, FS_AddElement DEF At
  <1>5. At(h, stage) \subseteq Hold
    BY <1>1, <1>2 DEF At
  <1>. QED
    BY <1>1, <1>2, <1>4, <1>5 DEF Hold

LEMMA HoldStep ==
    ASSUME TypeInv, NEW h \in holds, NEW stage \in Stages,
           UNCHANGED <<load, reader, open, claims, tracked>>,
           holds' = At(h, stage), ListTyped', CountTyped', faults' \in Nat
    PROVE  TypeInv'
  <1>1. HoldTyped' /\ IsFiniteSet(holds')
    BY AtTypes DEF HoldTyped
  <1>2. RecordTyped'
    BY DEF TypeInv, RecordTyped
  <1>. QED
    BY <1>1, <1>2, QuietStep

LEMMA DecideTypes ==
    ASSUME TypeInv, NEW h \in holds, NEW stage \in {"acked", "nacked"},
           Decide(h, stage)
    PROVE  TypeInv'
  <1>1. /\ holds' = At(h, stage)
        /\ UNCHANGED <<load, lists, reader, open, history, faults>>
    BY DEF Decide
  <1>2. ListTyped' /\ CountTyped' /\ faults' \in Nat
    BY <1>1 DEF TypeInv, ListTyped, CountTyped, ProcessTyped, lists, history
  <1>. QED
    BY <1>1, <1>2, HoldStep DEF lists, Stages

LEMMA RemoveTypes ==
    ASSUME TypeInv, NEW h \in holds, Ack(h) \/ RemoveRetried(h)
    PROVE  TypeInv'
  <1>1. /\ holds' = At(h, "removed")
        /\ processing' = Minus(processing, h.val)
        /\ taken' \in {taken, Plus(taken, h.val)}
        /\ settled' \in {settled, Plus(settled, h.val)}
        /\ UNCHANGED <<load, queue, tracked, claims, reader, open, pushed,
                       retried, dropped, stranded, faults>>
    BY DEF Ack, RemoveRetried, Remove
  <1>2. "removed" \in Stages
    BY DEF Stages
  <1>3. h.val \in Vals
    BY <1>2, AtTypes
  <1>4. /\ Minus(processing, h.val) \in [Vals -> Nat]
        /\ Plus(taken, h.val) \in [Vals -> Nat]
        /\ Plus(settled, h.val) \in [Vals -> Nat]
    BY <1>3, Bumped DEF TypeInv, ListTyped, CountTyped
  <1>5. ListTyped' /\ CountTyped' /\ faults' \in Nat
    BY <1>1, <1>4 DEF TypeInv, ListTyped, CountTyped, ProcessTyped
  <1>. QED
    BY <1>1, <1>2, <1>5, HoldStep

LEMMA RetryTypes ==
    ASSUME TypeInv, NEW h \in holds, Retry(h) PROVE TypeInv'
  <1>1. /\ queue' = <<h.val>> \o queue /\ retried' = Plus(retried, h.val)
        /\ holds' = At(h, "retrying")
        /\ UNCHANGED <<load, processing, tracked, claims, reader, open, pushed,
                       settled, taken, dropped, stranded, faults>>
    BY DEF Retry
  <1>2. "retrying" \in Stages
    BY DEF Stages
  <1>3. h.val \in Vals
    BY <1>2, AtTypes
  <1>4. <<h.val>> \in Seq(Vals)
    BY <1>3
  <1>5. ListTyped'
    BY <1>1, <1>4, Pushed DEF TypeInv, ListTyped
  <1>6. CountTyped' /\ faults' \in Nat
    BY <1>1, <1>3, Bumped DEF TypeInv, CountTyped, ProcessTyped
  <1>. QED
    BY <1>1, <1>2, <1>5, <1>6, HoldStep

LEMMA ForgottenTypes ==
    ASSUME TypeInv, NEW c, tracked' = Forgotten(c), claims' = claims
    PROVE  RecordTyped'
  <1>1. DOMAIN tracked' = DOMAIN tracked \ Same(members[c])
    BY DEF Forgotten
  <1>2. tracked' \in [DOMAIN tracked \ Same(members[c]) -> Record]
    BY DEF Forgotten, TypeInv, RecordTyped
  <1>. QED
    BY <1>1, <1>2 DEF TypeInv, RecordTyped

LEMMA ForgetTypes ==
    ASSUME TypeInv, NEW h \in holds, Forget(h) PROVE TypeInv'
  <1>1. /\ tracked' = Forgotten(h.claim) /\ holds' = holds \ {h}
        /\ UNCHANGED <<load, queue, processing, claims, reader, open, history,
                       faults>>
    BY DEF Forget
  <1>2. RecordTyped'
    BY <1>1, ForgottenTypes
  <1>3. /\ ListTyped' /\ CountTyped' /\ HoldTyped' /\ IsFiniteSet(holds')
        /\ faults' \in Nat
    BY <1>1, FS_Subset DEF TypeInv, ListTyped, CountTyped, HoldTyped,
                           ProcessTyped, FiniteInv, history
  <1>. QED
    BY <1>1, <1>2, <1>3, QuietStep

LEMMA SettleEndTypes ==
    ASSUME TypeInv, NEW h \in holds, SettleRefused(h) \/ SettleFails(h)
    PROVE  TypeInv'
  <1>1. /\ holds' = holds \ {h}
        /\ stranded' = [v \in Vals |-> stranded[v] + Bare({h}, v)]
        /\ UNCHANGED <<load, lists, reader, open, pushed, retried, settled,
                       taken, dropped>>
    BY DEF SettleRefused, SettleFails, Leave
  <1>2. faults' \in Nat
    BY FaultType DEF SettleRefused, SettleFails, TypeInv, ProcessTyped
  <1>3. \A v \in Vals : Bare({h}, v) \in Nat
    BY BareType DEF TypeInv
  <1>4. CountTyped'
    BY <1>1, <1>3 DEF TypeInv, CountTyped
  <1>5. ListTyped' /\ RecordTyped' /\ HoldTyped' /\ IsFiniteSet(holds')
    BY <1>1, FS_Subset DEF TypeInv, ListTyped, RecordTyped, HoldTyped,
                           FiniteInv, lists
  <1>. QED
    BY <1>1, <1>2, <1>4, <1>5, QuietStep DEF lists

LEMMA RemoveFailsTypes ==
    ASSUME TypeInv, NEW h \in holds, RemoveFails(h) PROVE TypeInv'
  <1>1. /\ holds' = At(h, "removed") /\ stranded' = Plus(stranded, h.val)
        /\ Fault
        /\ UNCHANGED <<load, lists, reader, open, pushed, retried, settled,
                       taken, dropped>>
    BY DEF RemoveFails
  <1>2. "removed" \in Stages
    BY DEF Stages
  <1>3. h.val \in Vals
    BY <1>2, AtTypes
  <1>4. ListTyped' /\ CountTyped' /\ faults' \in Nat
    BY <1>1, <1>3, Bumped, FaultType
    DEF TypeInv, ListTyped, CountTyped, ProcessTyped, lists
  <1>. QED
    BY <1>1, <1>2, <1>4, HoldStep DEF lists

-----------------------------------------------------------------------------
(* Steps of one read.                                                      *)

\* Only the read of s changes what it has in its hands.
OnlyRead(s) ==
    \A r \in Subs \ {s} :
        /\ pc'[r] = pc[r] /\ mine'[r] = mine[r]
        /\ left'[r] = left[r] /\ due'[r] = due[r]

LEMMA ReadStep ==
    ASSUME TypeInv, NEW s \in Subs, load' = load, claims' \in Nat,
           claims <= claims', OnlyRead(s),
           pc' \in [Subs -> ReadPc], due' \in [Subs -> Seq(DueOf)],
           mine' \in [Subs -> Seq(Vals)], left' \in [Subs -> Nat],
           Len(due'[s]) <= Batch,
           s \in Readers => Len(mine'[s]) + left'[s] <= Larger(1, load.count),
           Handful(s)',
           open' \in [Subs -> BOOLEAN], faults' \in Nat,
           ListTyped', RecordTyped', CountTyped', BufferTyped', HoldTyped',
           IsFiniteSet(holds')
    PROVE  TypeInv'
  <1>1. DueTyped'
    <2>1. DueOf \subseteq DueOf'
      BY DEF TypeInv, RecordTyped, DueOf
    <2>2. Seq(DueOf) \subseteq Seq(DueOf')
      BY <2>1
    <2>3. due' \in [Subs -> Seq(DueOf')]
      BY <2>2
    <2>4. \A r \in Subs : Len(due'[r]) <= Batch
      BY DEF OnlyRead, TypeInv, DueTyped
    <2>. QED
      BY <2>3, <2>4 DEF DueTyped
  <1>2. HandTyped'
    <2>1. \A r \in Readers : Len(mine'[r]) + left'[r] <= Larger(1, load.count)
      <3>1. Readers \subseteq Subs
        BY LoadTypes DEF TypeInv
      <3>. QED
        BY <3>1 DEF OnlyRead, TypeInv, HandTyped
    <2>. QED
      BY <2>1 DEF HandTyped, Readers
  <1>3. HandsInv'
    <2>1. SUFFICES ASSUME NEW r \in Subs \ {s} PROVE Handful(r)'
      BY DEF HandsInv
    <2>2. Handful(r)
      BY DEF TypeInv, HandsInv
    <2>3. /\ pc'[r] = pc[r] /\ mine'[r] = mine[r]
          /\ left'[r] = left[r] /\ due'[r] = due[r]
      BY DEF OnlyRead
    <2>. QED
      BY <2>2, <2>3 DEF Handful
  <1>4. Pushers' \subseteq Pushers \cup {s}
    BY DEF OnlyRead, Pushers
  <1>5. FiniteInv'
    <2>1. IsFiniteSet(Pushers \cup {s})
      BY FS_AddElement DEF TypeInv, FiniteInv
    <2>. QED
      BY <1>4, <2>1, FS_Subset DEF FiniteInv
  <1>6. ProcessTyped'
    BY DEF TypeInv, ProcessTyped
  <1>. QED
    BY <1>1, <1>2, <1>3, <1>5, <1>6 DEF TypeInv

\* The types of what a read of s had, in the form the steps below use.
LEMMA ReadTypes ==
    ASSUME TypeInv, NEW s \in Subs
    PROVE  /\ pc \in [Subs -> ReadPc] /\ due \in [Subs -> Seq(DueOf)]
           /\ mine \in [Subs -> Seq(Vals)] /\ left \in [Subs -> Nat]
           /\ buffer \in [Subs -> Seq(Claimed)]
           /\ open \in [Subs -> BOOLEAN] /\ faults \in Nat /\ claims \in Nat
           /\ Len(due[s]) <= Batch
           /\ s \in Readers => Len(mine[s]) + left[s] <= Larger(1, load.count)
           /\ Handful(s)
           /\ mine[s] \in Seq(Vals) /\ due[s] \in Seq(DueOf)
           /\ Len(mine[s]) \in Nat /\ Len(due[s]) \in Nat /\ left[s] \in Nat
           /\ load.count \in Nat /\ Batch \in Nat \ {0}
           /\ Larger(1, load.count) \in Nat /\ 1 <= Larger(1, load.count)
           /\ load.count <= Larger(1, load.count)
           /\ ListTyped /\ RecordTyped /\ CountTyped /\ BufferTyped /\ HoldTyped
           /\ IsFiniteSet(holds)
           /\ Len(<<>>) = 0 /\ <<>> \in Seq(DueOf) /\ <<>> \in Seq(Vals)
  <1>1. load.count \in Nat /\ Batch \in Nat \ {0}
    BY LoadTypes DEF TypeInv
  <1>2. /\ Larger(1, load.count) \in Nat /\ 1 <= Larger(1, load.count)
        /\ load.count <= Larger(1, load.count)
    BY <1>1 DEF Larger
  <1>3. mine[s] \in Seq(Vals) /\ due[s] \in Seq(DueOf) /\ left[s] \in Nat
    BY DEF TypeInv, HandTyped, DueTyped
  <1>4. Len(mine[s]) \in Nat /\ Len(due[s]) \in Nat
    BY <1>3, LenProperties
  <1>5. Len(<<>>) = 0 /\ <<>> \in Seq(DueOf) /\ <<>> \in Seq(Vals)
    BY EmptySeq
  <1>6. /\ pc \in [Subs -> ReadPc] /\ due \in [Subs -> Seq(DueOf)]
        /\ mine \in [Subs -> Seq(Vals)] /\ left \in [Subs -> Nat]
        /\ buffer \in [Subs -> Seq(Claimed)]
        /\ open \in [Subs -> BOOLEAN] /\ faults \in Nat /\ claims \in Nat
        /\ Len(due[s]) <= Batch
        /\ s \in Readers => Len(mine[s]) + left[s] <= Larger(1, load.count)
        /\ Handful(s)
        /\ ListTyped /\ RecordTyped /\ CountTyped /\ BufferTyped /\ HoldTyped
        /\ IsFiniteSet(holds)
    BY DEF TypeInv, ProcessTyped, DueTyped, HandTyped, BufferTyped,
           RecordTyped, HandsInv, FiniteInv
  <1>. QED
    BY <1>1, <1>2, <1>3, <1>4, <1>5, <1>6

\* What a step keeps that touches no list, record, count or delivery.
LEMMA StillTyped ==
    ASSUME TypeInv
    PROVE  /\ UNCHANGED <<queue, processing>> => ListTyped'
           /\ UNCHANGED <<tracked, claims>> => RecordTyped'
           /\ UNCHANGED history => CountTyped'
           /\ UNCHANGED buffer => BufferTyped'
           /\ UNCHANGED holds => HoldTyped' /\ IsFiniteSet(holds')
           /\ UNCHANGED load => Readers' = Readers
  BY DEF TypeInv, ListTyped, RecordTyped, CountTyped, BufferTyped, HoldTyped,
         FiniteInv, history, Readers

LEMMA ListDueTypes ==
    ASSUME TypeInv, NEW s \in Subs, ListDue(s) PROVE TypeInv'
  <1>1. PICK q \in Listings :
           due' = [due EXCEPT ![s] =
                     [k \in DOMAIN q |-> [claim |-> q[k],
                                          val |-> tracked[q[k]].val]]]
    BY DEF ListDue
  <1>2. /\ pc[s] = "read" /\ pc' = [pc EXCEPT ![s] = "sweep"]
        /\ UNCHANGED <<load, lists, mine, left, buffer, holds, open, history,
                       faults>>
    BY DEF ListDue
  <1> DEFINE d == [k \in DOMAIN q |-> [claim |-> q[k],
                                       val |-> tracked[q[k]].val]]
             n == Cardinality(Listed)
  <1>3. n \in Nat /\ n <= Batch /\ q \in [1..n -> Listed]
    BY ReadTypes, ListedBound DEF Listings
  <1>4. \A c \in Listed : c \in 1..claims /\ tracked[c].val \in Vals
    BY ReadTypes DEF Listed, Due, RecordTyped, Record
  <1> HIDE DEF n
  <1>5. d \in [1..n -> DueOf]
    BY <1>3, <1>4 DEF DueOf
  <1>6. d \in Seq(DueOf) /\ Len(d) = n
    BY <1>3, <1>5, IsASeq, LenProperties
  <1> HIDE DEF d
  <1>7. due'[s] = d /\ due' \in [Subs -> Seq(DueOf)]
    BY <1>1, <1>6, ReadTypes DEF d
  <1>8. Handful(s)'
    BY <1>2, ReadTypes DEF Handful
  <1>9. OnlyRead(s) /\ pc' \in [Subs -> ReadPc]
    BY <1>1, <1>2, ReadTypes DEF OnlyRead, ReadPc
  <1>10. /\ ListTyped' /\ RecordTyped' /\ CountTyped' /\ BufferTyped'
         /\ HoldTyped' /\ IsFiniteSet(holds')
    BY <1>2, StillTyped DEF lists
  <1>11. /\ mine' \in [Subs -> Seq(Vals)] /\ left' \in [Subs -> Nat]
         /\ s \in Readers => Len(mine'[s]) + left'[s] <= Larger(1, load.count)
         /\ load' = load /\ claims' \in Nat /\ claims <= claims'
         /\ open' \in [Subs -> BOOLEAN] /\ faults' \in Nat
         /\ Len(due'[s]) <= Batch
    BY <1>2, <1>3, <1>6, <1>7, ReadTypes DEF lists
  <1>. QED
    BY <1>7, <1>8, <1>9, <1>10, <1>11, ReadStep

\* A step of a read that keeps the counter of the claims and the deliveries.
LEMMA PlainStep ==
    ASSUME TypeInv, NEW s \in Subs, NEW p \in ReadPc,
           NEW d \in Seq(DueOf), NEW m \in Seq(Vals), NEW l \in Nat,
           pc' = [pc EXCEPT ![s] = p], due' = [due EXCEPT ![s] = d],
           mine' = [mine EXCEPT ![s] = m], left' = [left EXCEPT ![s] = l],
           Len(d) <= Batch,
           s \in Readers => Len(m) + l <= Larger(1, load.count),
           p \in {"read", "sweep", "forget", "pop"} => m = <<>>,
           p = "push" => Len(m) = 1,
           p = "track" => m # <<>>,
           p \notin {"moves", "lost"} => l = 0,
           p \in {"push", "forget"} => d # <<>>,
           UNCHANGED <<load, claims, open>>,
           UNCHANGED holds, UNCHANGED buffer,
           faults' \in Nat, ListTyped', RecordTyped', CountTyped'
    PROVE  TypeInv'
  <1>1. /\ pc' \in [Subs -> ReadPc] /\ due' \in [Subs -> Seq(DueOf)]
        /\ mine' \in [Subs -> Seq(Vals)] /\ left' \in [Subs -> Nat]
        /\ pc'[s] = p /\ due'[s] = d /\ mine'[s] = m /\ left'[s] = l
        /\ OnlyRead(s)
    BY ReadTypes DEF OnlyRead
  <1>2. Handful(s)'
    BY <1>1 DEF Handful
  <1>3. /\ open' \in [Subs -> BOOLEAN] /\ claims' \in Nat /\ claims <= claims'
        /\ load' = load
    BY ReadTypes
  <1>4. BufferTyped' /\ HoldTyped' /\ IsFiniteSet(holds')
    BY StillTyped
  <1>. QED
    BY <1>1, <1>2, <1>3, <1>4, ReadStep

\* Writing back what is there.
LEMMA SameParts ==
    ASSUME TypeInv, NEW s \in Subs
    PROVE  /\ due = [due EXCEPT ![s] = due[s]]
           /\ mine = [mine EXCEPT ![s] = mine[s]]
           /\ left = [left EXCEPT ![s] = left[s]]
           /\ pc = [pc EXCEPT ![s] = pc[s]]
  BY ReadTypes

LEMMA TakeOffTypes ==
    ASSUME TypeInv, NEW s \in Subs, TakeOff(s) PROVE TypeInv'
  <1> DEFINE v == Head(due[s]).val
  <1>1. /\ pc[s] = "sweep" /\ due[s] # <<>> /\ processing' = Minus(processing, v)
        /\ IF Removed(v)
           THEN /\ mine' = [mine EXCEPT ![s] = <<v>>]
                /\ pc' = [pc EXCEPT ![s] = "push"]
           ELSE /\ pc' = [pc EXCEPT ![s] = "forget"]
                /\ UNCHANGED mine
        /\ UNCHANGED <<load, queue, tracked, claims, due, left, buffer, holds,
                       open, history, faults>>
    BY DEF TakeOff
  <1>2. v \in Vals
    <2>1. due[s] \in Seq(DueOf) /\ due[s] # <<>>
      BY <1>1, ReadTypes
    <2>2. Head(due[s]) \in DueOf
      BY <2>1, HeadTailProperties
    <2>. QED
      BY <2>2 DEF DueOf
  <1> HIDE DEF v
  <1>3. mine[s] = <<>> /\ left[s] = 0
    BY <1>1, ReadTypes DEF Handful
  <1>4. ListTyped' /\ RecordTyped' /\ CountTyped' /\ faults' \in Nat
    BY <1>1, <1>2, Bumped, ReadTypes, StillTyped DEF ListTyped
  <1>5. <<v>> \in Seq(Vals) /\ Len(<<v>>) = 1 /\ <<v>> # <<>>
    BY <1>2
  <1>6. "push" \in ReadPc /\ "forget" \in ReadPc
    BY DEF ReadPc
  <1>7. CASE Removed(v)
    <2>1. /\ mine' = [mine EXCEPT ![s] = <<v>>] /\ pc' = [pc EXCEPT ![s] = "push"]
          /\ due' = [due EXCEPT ![s] = due[s]]
          /\ left' = [left EXCEPT ![s] = 0]
      BY <1>1, <1>3, <1>7, SameParts
    <2>2. s \in Readers => Len(<<v>>) + 0 <= Larger(1, load.count)
      BY <1>5, ReadTypes
    <2>3. UNCHANGED <<load, claims, open>> /\ UNCHANGED holds /\ UNCHANGED buffer
      BY <1>1
    <2>4. due[s] \in Seq(DueOf) /\ Len(due[s]) <= Batch /\ 0 \in Nat
      BY ReadTypes
    <2>. QED
      BY <1>1, <1>4, <1>5, <1>6, <2>1, <2>2, <2>3, <2>4, PlainStep
  <1>8. CASE ~Removed(v)
    <2>1. /\ mine' = [mine EXCEPT ![s] = <<>>] /\ pc' = [pc EXCEPT ![s] = "forget"]
          /\ due' = [due EXCEPT ![s] = due[s]]
          /\ left' = [left EXCEPT ![s] = 0]
      BY <1>1, <1>3, <1>8, SameParts
    <2>2. s \in Readers => Len(<<>>) + 0 <= Larger(1, load.count)
      BY ReadTypes
    <2>3. UNCHANGED <<load, claims, open>> /\ UNCHANGED holds /\ UNCHANGED buffer
      BY <1>1
    <2>4. due[s] \in Seq(DueOf) /\ Len(due[s]) <= Batch /\ 0 \in Nat
          /\ <<>> \in Seq(Vals)
      BY ReadTypes
    <2>. QED
      BY <1>1, <1>4, <1>6, <2>1, <2>2, <2>3, <2>4, PlainStep
  <1>. QED
    BY <1>7, <1>8

LEMMA PushBackTypes ==
    ASSUME TypeInv, NEW s \in Subs, PushBack(s) PROVE TypeInv'
  <1>1. /\ pc[s] = "push" /\ queue' = mine[s] \o queue
        /\ mine' = [mine EXCEPT ![s] = <<>>]
        /\ pc' = [pc EXCEPT ![s] = "forget"]
        /\ UNCHANGED <<load, processing, tracked, claims, due, left, buffer,
                       holds, open, history, faults>>
    BY DEF PushBack
  <1>2. due[s] # <<>> /\ left[s] = 0
    BY <1>1, ReadTypes DEF Handful
  <1>3. ListTyped' /\ RecordTyped' /\ CountTyped' /\ faults' \in Nat
    BY <1>1, Pushed, ReadTypes, StillTyped DEF ListTyped
  <1>4. "forget" \in ReadPc
    BY DEF ReadPc
  <1>5. /\ due' = [due EXCEPT ![s] = due[s]] /\ left' = [left EXCEPT ![s] = 0]
    BY <1>1, <1>2, SameParts
  <1>6. s \in Readers => Len(<<>>) + 0 <= Larger(1, load.count)
    BY ReadTypes
  <1>7. UNCHANGED <<load, claims, open>> /\ UNCHANGED holds /\ UNCHANGED buffer
    BY <1>1
  <1>8. due[s] \in Seq(DueOf) /\ Len(due[s]) <= Batch /\ 0 \in Nat
        /\ <<>> \in Seq(Vals)
    BY ReadTypes
  <1>. QED
    BY <1>1, <1>2, <1>3, <1>4, <1>5, <1>6, <1>7, <1>8, PlainStep

LEMMA ForgetDueTypes ==
    ASSUME TypeInv, NEW s \in Subs, ForgetDue(s) PROVE TypeInv'
  <1>1. /\ pc[s] = "forget" /\ tracked' = Forgotten(Head(due[s]).claim)
        /\ due' = [due EXCEPT ![s] = Tail(due[s])]
        /\ pc' = [pc EXCEPT ![s] = "sweep"]
        /\ UNCHANGED <<load, queue, processing, claims, mine, left, buffer,
                       holds, open, history, faults>>
    BY DEF ForgetDue
  <1>2. due[s] # <<>> /\ left[s] = 0 /\ mine[s] = <<>>
    BY <1>1, ReadTypes DEF Handful
  <1>3. Tail(due[s]) \in Seq(DueOf) /\ Len(Tail(due[s])) <= Batch
    <2>1. Tail(due[s]) \in Seq(DueOf) /\ Len(Tail(due[s])) = Len(due[s]) - 1
      BY <1>2, ReadTypes, HeadTailProperties
    <2>. QED
      BY <2>1, ReadTypes
  <1>4. ListTyped' /\ RecordTyped' /\ CountTyped' /\ faults' \in Nat
    BY <1>1, ForgottenTypes, ReadTypes, StillTyped
  <1>5. "sweep" \in ReadPc
    BY DEF ReadPc
  <1>6. mine' = [mine EXCEPT ![s] = <<>>] /\ left' = [left EXCEPT ![s] = 0]
    BY <1>1, <1>2, SameParts
  <1>7. s \in Readers => Len(<<>>) + 0 <= Larger(1, load.count)
    BY ReadTypes
  <1>8. UNCHANGED <<load, claims, open>> /\ UNCHANGED holds /\ UNCHANGED buffer
    BY <1>1
  <1>9. 0 \in Nat /\ <<>> \in Seq(Vals)
    BY ReadTypes
  <1>. QED
    BY <1>1, <1>3, <1>4, <1>5, <1>6, <1>7, <1>8, <1>9, PlainStep

LEMMA SweepEndsTypes ==
    ASSUME TypeInv, NEW s \in Subs, SweepEnds(s) PROVE TypeInv'
  <1> DEFINE p == IF Pipelined(s) THEN "moves" ELSE "pop"
             l == IF Pipelined(s) THEN load.count ELSE 0
  <1>1. /\ pc[s] = "sweep"
        /\ pc' = [pc EXCEPT ![s] = p] /\ left' = [left EXCEPT ![s] = l]
        /\ UNCHANGED <<load, lists, due, mine, buffer, holds, open, history,
                       faults>>
    BY DEF SweepEnds
  <1>2. mine[s] = <<>>
    BY <1>1, ReadTypes DEF Handful
  <1>3. /\ p \in ReadPc /\ l \in Nat /\ l <= Larger(1, load.count)
        /\ p \in {"moves", "pop"} /\ (p # "moves" => l = 0)
    BY ReadTypes DEF ReadPc
  <1> HIDE DEF p, l
  <1>4. ListTyped' /\ RecordTyped' /\ CountTyped' /\ faults' \in Nat
    BY <1>1, ReadTypes, StillTyped DEF lists
  <1>5. /\ due' = [due EXCEPT ![s] = due[s]] /\ mine' = [mine EXCEPT ![s] = <<>>]
    BY <1>1, <1>2, SameParts
  <1>6. s \in Readers => Len(<<>>) + l <= Larger(1, load.count)
    BY <1>3, ReadTypes
  <1>7. UNCHANGED <<load, claims, open>> /\ UNCHANGED holds /\ UNCHANGED buffer
    BY <1>1 DEF lists
  <1>8. due[s] \in Seq(DueOf) /\ Len(due[s]) <= Batch /\ <<>> \in Seq(Vals)
    BY ReadTypes
  <1>. QED
    BY <1>1, <1>3, <1>4, <1>5, <1>6, <1>7, <1>8, PlainStep

LEMMA PrefixProperties ==
    ASSUME NEW S, NEW q, NEW n \in Nat, \A k \in 1..n : q[k] \in S
    PROVE  /\ SubSeq(q, 1, n) \in Seq(S) /\ Len(SubSeq(q, 1, n)) = n
           /\ \A k \in 1..n : SubSeq(q, 1, n)[k] = q[k]
  <1>1. /\ SubSeq(q, 1, n) \in Seq(S)
        /\ Len(SubSeq(q, 1, n)) = IF 1 <= n THEN n - 1 + 1 ELSE 0
        /\ \A k \in 1 .. n - 1 + 1 : SubSeq(q, 1, n)[k] = q[1 + k - 1]
    <2>1. 1 \in Int /\ n \in Int
      OBVIOUS
    <2>. QED
      BY <2>1, SubSeqProperties
  <1>2. (IF 1 <= n THEN n - 1 + 1 ELSE 0) = n
    OBVIOUS
  <1>3. \A k \in 1..n : k \in 1 .. n - 1 + 1 /\ 1 + k - 1 = k
    OBVIOUS
  <1>. QED
    BY <1>1, <1>2, <1>3

\* What a pop takes, and what it leaves.
LEMMA OldestTypes ==
    ASSUME ListTyped, queue # <<>>
    PROVE  /\ Oldest \in Vals /\ Others \in Seq(Vals)
           /\ Moved \in [Vals -> Nat]
           /\ Len(Others) = Len(queue) - 1 /\ Len(queue) \in Nat \ {0}
           /\ \A k \in 1..Len(queue) - 1 : Others[k] = queue[k]
  <1>1. queue \in Seq(Vals) /\ processing \in [Vals -> Nat]
    BY DEF ListTyped
  <1>2. Len(queue) \in Nat /\ Len(queue) # 0
    BY <1>1, LenProperties, EmptySeq, SeqEqual
  <1>3. queue[Len(queue)] \in Vals
    BY <1>1, <1>2, ElementOfSeq
  <1>4. /\ Others \in Seq(Vals) /\ Len(Others) = Len(queue) - 1
        /\ \A k \in 1..Len(queue) - 1 : Others[k] = queue[k]
    <2> DEFINE n == Len(queue) - 1
    <2>1. n \in 0..Len(queue) /\ n \in Nat
      BY <1>2
    <2>2. \A k \in 1..n : k \in 1..Len(queue)
      BY <1>2
    <2>3. \A k \in 1..n : queue[k] \in Vals
      BY <1>1, <2>2, ElementOfSeq
    <2> HIDE DEF n
    <2>4. /\ SubSeq(queue, 1, n) \in Seq(Vals) /\ Len(SubSeq(queue, 1, n)) = n
          /\ \A k \in 1..n : SubSeq(queue, 1, n)[k] = queue[k]
      BY <2>1, <2>3, PrefixProperties
    <2>. QED
      BY <2>4 DEF Others, n
  <1>. QED
    BY <1>1, <1>2, <1>3, <1>4, Bumped DEF Oldest, Moved

LEMMA PopTypes ==
    ASSUME TypeInv, NEW s \in Subs, Pop(s) PROVE TypeInv'
  <1>1. /\ pc[s] = "pop" /\ queue # <<>> /\ processing' = Moved
        /\ mine' = [mine EXCEPT ![s] = <<Oldest>>]
        /\ queue' = Others /\ pc' = [pc EXCEPT ![s] = "track"]
        /\ UNCHANGED <<load, tracked, claims, due, left, buffer, holds, open,
                       history, faults>>
    BY DEF Pop
  <1>2. Oldest \in Vals /\ Others \in Seq(Vals) /\ Moved \in [Vals -> Nat]
    BY <1>1, ReadTypes, OldestTypes
  <1>3. left[s] = 0
    BY <1>1, ReadTypes DEF Handful
  <1>4. ListTyped' /\ RecordTyped' /\ CountTyped' /\ faults' \in Nat
    BY <1>1, <1>2, ReadTypes, StillTyped DEF ListTyped
  <1>5. "track" \in ReadPc
    BY DEF ReadPc
  <1>6. /\ due' = [due EXCEPT ![s] = due[s]] /\ left' = [left EXCEPT ![s] = 0]
    BY <1>1, <1>3, SameParts
  <1>7. <<Oldest>> \in Seq(Vals) /\ Len(<<Oldest>>) = 1 /\ <<Oldest>> # <<>>
    BY <1>2
  <1>8. s \in Readers => Len(<<Oldest>>) + 0 <= Larger(1, load.count)
    BY <1>7, ReadTypes
  <1>9. UNCHANGED <<load, claims, open>> /\ UNCHANGED holds /\ UNCHANGED buffer
    BY <1>1
  <1>10. due[s] \in Seq(DueOf) /\ Len(due[s]) <= Batch /\ 0 \in Nat
    BY ReadTypes
  <1>. QED
    BY <1>1, <1>4, <1>5, <1>6, <1>7, <1>8, <1>9, <1>10, PlainStep

LEMMA PopTimesOutTypes ==
    ASSUME TypeInv, NEW s \in Subs, PopTimesOut(s) PROVE TypeInv'
  <1>1. /\ pc[s] = "pop" /\ pc' = [pc EXCEPT ![s] = "read"]
        /\ UNCHANGED <<load, lists, due, mine, left, buffer, holds, open,
                       history, faults>>
    BY DEF PopTimesOut
  <1>2. left[s] = 0 /\ mine[s] = <<>>
    BY <1>1, ReadTypes DEF Handful
  <1>3. ListTyped' /\ RecordTyped' /\ CountTyped' /\ faults' \in Nat
    BY <1>1, ReadTypes, StillTyped DEF lists
  <1>4. "read" \in ReadPc
    BY DEF ReadPc
  <1>5. /\ due' = [due EXCEPT ![s] = due[s]] /\ left' = [left EXCEPT ![s] = 0]
        /\ mine' = [mine EXCEPT ![s] = <<>>]
    BY <1>1, <1>2, SameParts
  <1>6. s \in Readers => Len(<<>>) + 0 <= Larger(1, load.count)
    BY ReadTypes
  <1>7. UNCHANGED <<load, claims, open>> /\ UNCHANGED holds /\ UNCHANGED buffer
    BY <1>1 DEF lists
  <1>8. due[s] \in Seq(DueOf) /\ Len(due[s]) <= Batch /\ 0 \in Nat
        /\ <<>> \in Seq(Vals)
    BY ReadTypes
  <1>. QED
    BY <1>1, <1>3, <1>4, <1>5, <1>6, <1>7, <1>8, PlainStep

LEMMA MoveTypes ==
    ASSUME TypeInv, NEW s \in Subs, Move(s) \/ MoveFails(s) PROVE TypeInv'
  <1>1. /\ pc[s] \in {"moves", "lost"} /\ left[s] > 0
        /\ left' = [left EXCEPT ![s] = left[s] - 1]
        /\ UNCHANGED <<load, tracked, claims, due, buffer, holds, open,
                       pushed, retried, settled, taken, dropped>>
    BY DEF Move, MoveFails
  <1>2. /\ pc' = [pc EXCEPT ![s] = pc'[s]] /\ pc'[s] \in {"moves", "lost"}
        /\ pc'[s] \in ReadPc
    BY <1>1, ReadTypes DEF Move, MoveFails, ReadPc
  <1>3. faults' \in Nat
    BY ReadTypes, FaultType DEF Move, MoveFails
  <1>4. \/ UNCHANGED <<queue, processing>>
        \/ queue # <<>> /\ queue' = Others /\ processing' = Moved
    BY DEF Move, MoveFails
  <1>5. ListTyped'
    <2>1. CASE UNCHANGED <<queue, processing>>
      BY <2>1, ReadTypes, StillTyped
    <2>2. CASE queue # <<>> /\ queue' = Others /\ processing' = Moved
      <3>1. Others \in Seq(Vals) /\ Moved \in [Vals -> Nat]
        BY <2>2, ReadTypes, OldestTypes
      <3>. QED
        BY <2>2, <3>1 DEF ListTyped
    <2>. QED
      BY <1>4, <2>1, <2>2
  <1>6. \/ stranded' = stranded
        \/ queue # <<>> /\ stranded' = Plus(stranded, Oldest)
    BY DEF Move, MoveFails
  <1>7. CountTyped' /\ RecordTyped'
    <2>1. queue # <<>> => Plus(stranded, Oldest) \in [Vals -> Nat]
      BY ReadTypes, OldestTypes, Bumped DEF CountTyped
    <2>2. stranded' \in [Vals -> Nat]
      BY <1>6, <2>1, ReadTypes DEF CountTyped
    <2>. QED
      BY <1>1, <2>2, ReadTypes, StillTyped DEF CountTyped
  <1>8. \/ mine' = mine
        \/ queue # <<>> /\ mine' = [mine EXCEPT ![s] = Append(mine[s], Oldest)]
    BY DEF Move, MoveFails
  <1>9. /\ mine' = [mine EXCEPT ![s] = mine'[s]]
        /\ mine'[s] \in Seq(Vals) /\ Len(mine'[s]) <= Len(mine[s]) + 1
        /\ Len(mine'[s]) \in Nat
    <2>1. CASE mine' = mine
      BY <2>1, ReadTypes
    <2>2. CASE queue # <<>> /\ mine' = [mine EXCEPT ![s] = Append(mine[s], Oldest)]
      <3>1. Oldest \in Vals /\ mine[s] \in Seq(Vals) /\ Len(mine[s]) \in Nat
        BY <2>2, ReadTypes, OldestTypes
      <3>2. /\ Append(mine[s], Oldest) \in Seq(Vals)
            /\ Len(Append(mine[s], Oldest)) = Len(mine[s]) + 1
        BY <3>1, AppendProperties
      <3>3. mine'[s] = Append(mine[s], Oldest)
        BY <2>2, ReadTypes
      <3>4. mine' = [mine EXCEPT ![s] = mine'[s]]
        BY <2>2, <3>3
      <3>5. mine'[s] \in Seq(Vals) /\ Len(mine'[s]) = Len(mine[s]) + 1
        BY <3>2, <3>3
      <3>. QED
        BY <3>1, <3>4, <3>5
    <2>. QED
      BY <1>8, <2>1, <2>2
  <1>10. left[s] - 1 \in Nat
    BY <1>1, ReadTypes
  <1>11. s \in Readers => Len(mine'[s]) + (left[s] - 1) <= Larger(1, load.count)
    BY <1>1, <1>9, ReadTypes
  <1>12. due' = [due EXCEPT ![s] = due[s]]
    BY <1>1, SameParts
  <1>13. UNCHANGED <<load, claims, open>> /\ UNCHANGED holds /\ UNCHANGED buffer
    BY <1>1
  <1>14. due[s] \in Seq(DueOf) /\ Len(due[s]) <= Batch
    BY ReadTypes
  <1> DEFINE p == pc'[s]
             m == mine'[s]
             l == left[s] - 1
  <1>15. /\ p \in ReadPc /\ m \in Seq(Vals) /\ l \in Nat
         /\ pc' = [pc EXCEPT ![s] = p] /\ mine' = [mine EXCEPT ![s] = m]
         /\ left' = [left EXCEPT ![s] = l] /\ p \in {"moves", "lost"}
         /\ s \in Readers => Len(m) + l <= Larger(1, load.count)
    BY <1>1, <1>2, <1>9, <1>10, <1>11
  <1> HIDE DEF p, m, l
  <1>. QED
    BY <1>3, <1>5, <1>7, <1>12, <1>13, <1>14, <1>15, PlainStep

\* A step that changes the buffer, the claims or the deliveries as well.
LEMMA FullStep ==
    ASSUME TypeInv, NEW s \in Subs, NEW p \in ReadPc,
           NEW d \in Seq(DueOf), NEW m \in Seq(Vals),
           pc' = [pc EXCEPT ![s] = p], due' = [due EXCEPT ![s] = d],
           mine' = [mine EXCEPT ![s] = m], left' = [left EXCEPT ![s] = 0],
           Len(d) <= Batch,
           s \in Readers => Len(m) <= Larger(1, load.count),
           p \in {"read", "sweep", "forget", "pop"} => m = <<>>,
           p = "push" => Len(m) = 1,
           p = "track" => m # <<>>,
           p \in {"push", "forget"} => d # <<>>,
           UNCHANGED load, claims' \in Nat, claims <= claims',
           open' \in [Subs -> BOOLEAN],
           BufferTyped', HoldTyped', IsFiniteSet(holds'),
           faults' \in Nat, ListTyped', RecordTyped', CountTyped'
    PROVE  TypeInv'
  <1>1. /\ pc' \in [Subs -> ReadPc] /\ due' \in [Subs -> Seq(DueOf)]
        /\ mine' \in [Subs -> Seq(Vals)] /\ left' \in [Subs -> Nat]
        /\ pc'[s] = p /\ due'[s] = d /\ mine'[s] = m /\ left'[s] = 0
        /\ OnlyRead(s)
    BY ReadTypes DEF OnlyRead
  <1>2. Handful(s)'
    BY <1>1 DEF Handful
  <1>3. s \in Readers => Len(mine'[s]) + left'[s] <= Larger(1, load.count)
    <2>1. Len(m) \in Nat
      BY LenProperties
    <2>. QED
      BY <1>1, <2>1, ReadTypes
  <1>4. Len(due'[s]) <= Batch /\ load' = load
    BY <1>1
  <1>. QED
    BY <1>1, <1>2, <1>3, <1>4, ReadStep

LEMMA MovesEndTypes ==
    ASSUME TypeInv, NEW s \in Subs, MovesEnd(s) PROVE TypeInv'
  <1>1. /\ pc[s] \in {"moves", "lost"} /\ left[s] = 0
        /\ pc' = [pc EXCEPT ![s] = IF pc[s] = "lost" THEN "read"
                                   ELSE IF mine[s] = <<>> THEN "pop" ELSE "track"]
        /\ UNCHANGED <<load, queue, processing, tracked, due, left, holds, open,
                       history, faults>>
    BY DEF MovesEnd
  <1>2. ListTyped' /\ CountTyped' /\ HoldTyped' /\ IsFiniteSet(holds')
        /\ faults' \in Nat /\ open' \in [Subs -> BOOLEAN]
    BY <1>1, ReadTypes, StillTyped
  <1>3. /\ due' = [due EXCEPT ![s] = due[s]] /\ left' = [left EXCEPT ![s] = 0]
        /\ due[s] \in Seq(DueOf) /\ Len(due[s]) <= Batch
    BY <1>1, SameParts, ReadTypes
  <1>4. s \in Readers => Len(mine[s]) <= Larger(1, load.count)
    BY <1>1, ReadTypes
  <1>5. CASE pc[s] = "lost"
    <2> DEFINE b == [k \in DOMAIN mine[s] |-> Claim(mine[s][k], claims + k, FALSE)]
    <2>1. /\ buffer' = [buffer EXCEPT ![s] = b]
          /\ claims' = claims + Len(mine[s])
          /\ mine' = [mine EXCEPT ![s] = <<>>]
          /\ pc' = [pc EXCEPT ![s] = "read"]
      BY <1>1, <1>5 DEF MovesEnd
    <2>2. b \in Seq(Claimed)
      <3>1. DOMAIN mine[s] = 1..Len(mine[s]) /\ Len(mine[s]) \in Nat
            /\ mine[s] \in Seq(Vals) /\ claims \in Nat
        BY ReadTypes, LenProperties
      <3>2. \A k \in 1..Len(mine[s]) : mine[s][k] \in Vals
        BY <3>1, ElementOfSeq
      <3>3. \A k \in 1..Len(mine[s]) :
               Claim(mine[s][k], claims + k, FALSE) \in Claimed
        BY <3>1, <3>2 DEF Claim, Claimed
      <3>4. b \in [1..Len(mine[s]) -> Claimed]
        BY <3>1, <3>3
      <3>. QED
        BY <3>1, <3>4, SeqDef
    <2> HIDE DEF b
    <2>3. BufferTyped'
      BY <2>1, <2>2, ReadTypes DEF BufferTyped
    <2>4. claims' \in Nat /\ claims <= claims'
      BY <2>1, ReadTypes
    <2>5. RecordTyped'
      <3>1. claims \in Nat /\ DOMAIN tracked \subseteq 1..claims
        BY ReadTypes DEF RecordTyped
      <3>2. 1..claims \subseteq 1..claims'
        BY <2>4, <3>1
      <3>. QED
        BY <1>1, <2>4, <3>1, <3>2, ReadTypes DEF RecordTyped
    <2>6. "read" \in ReadPc /\ <<>> \in Seq(Vals)
          /\ (s \in Readers => Len(<<>>) <= Larger(1, load.count))
      BY ReadTypes DEF ReadPc
    <2>7. UNCHANGED load
      BY <1>1
    <2>. QED
      BY <1>2, <1>3, <2>1, <2>3, <2>4, <2>5, <2>6, <2>7, FullStep
  <1>6. CASE pc[s] # "lost"
    <2> DEFINE p == IF mine[s] = <<>> THEN "pop" ELSE "track"
    <2>1. /\ UNCHANGED <<claims, mine, buffer>> /\ pc' = [pc EXCEPT ![s] = p]
      BY <1>1, <1>6 DEF MovesEnd
    <2>2. p \in ReadPc /\ (p = "pop" => mine[s] = <<>>)
          /\ (p = "track" => mine[s] # <<>>) /\ p \in {"pop", "track"}
      BY DEF ReadPc
    <2> HIDE DEF p
    <2>3. mine' = [mine EXCEPT ![s] = mine[s]] /\ mine[s] \in Seq(Vals)
      BY <2>1, SameParts, ReadTypes
    <2>4. RecordTyped' /\ BufferTyped' /\ claims' \in Nat /\ claims <= claims'
      BY <1>1, <2>1, ReadTypes, StillTyped
    <2>5. UNCHANGED load
      BY <1>1
    <2>. QED
      BY <1>2, <1>3, <1>4, <2>1, <2>2, <2>3, <2>4, <2>5, FullStep
  <1>. QED
    BY <1>5, <1>6

\* A claim gets a number of its own and, if its ZADD ran, a record.
LEMMA MemberTypes ==
    ASSUME RecordTyped, NEW s \in Subs, NEW v \in Vals, claims' = claims + 1,
           tracked' \in {tracked, Recorded(s, v)}
    PROVE  RecordTyped'
  <1>1. claims \in Nat /\ DOMAIN tracked \subseteq 1..claims
        /\ tracked \in [DOMAIN tracked -> Record]
    BY DEF RecordTyped
  <1>2. 1..claims' = 1..claims \cup {claims + 1} /\ claims' \in Nat
    BY <1>1
  <1>3. CASE tracked' = tracked
    BY <1>1, <1>2, <1>3 DEF RecordTyped
  <1>4. CASE tracked' = Recorded(s, v)
    <2> DEFINE S == (DOMAIN tracked \ Same(ClaimMember(s, v))) \cup {claims + 1}
    <2>1. DOMAIN tracked' = S
      BY <1>4 DEF Recorded
    <2>2. tracked' \in [S -> Record]
      BY <1>1, <1>4 DEF Recorded, Record
    <2>. QED
      BY <1>1, <1>2, <2>1, <2>2 DEF RecordTyped
  <1>. QED
    BY <1>3, <1>4

LEMMA DeliveryTypes ==
    ASSUME TypeInv, NEW s \in Subs, NEW e \in Claimed
    PROVE  /\ Delivery(s, e) \in Hold
           /\ holds \cup {Delivery(s, e)} \subseteq Hold
           /\ IsFiniteSet(holds \cup {Delivery(s, e)})
  <1>1. Delivery(s, e) \in Hold
    BY DEF Delivery, Hold, Claimed
  <1>. QED
    BY <1>1, FS_AddElement DEF TypeInv, HoldTyped, FiniteInv

LEMMA TrackTypes ==
    ASSUME TypeInv, NEW s \in Subs, Track(s) PROVE TypeInv'
  <1> DEFINE v == Head(mine[s])
             e == Claim(v, claims + 1, TRUE)
  <1>1. /\ pc[s] = "track" /\ tracked' = Recorded(s, v)
        /\ holds' = holds \cup {Delivery(s, e)}
        /\ claims' = claims + 1 /\ mine' = [mine EXCEPT ![s] = <<>>]
        /\ pc' = [pc EXCEPT ![s] = "read"]
        /\ UNCHANGED <<load, queue, processing, due, left, buffer, open,
                       history, faults>>
    BY DEF Track, Counted
  <1>2. mine[s] # <<>> /\ left[s] = 0
    BY <1>1, ReadTypes DEF Handful
  <1>3. v \in Vals
    BY <1>2, ReadTypes, HeadTailProperties
  <1> HIDE DEF v
  <1>4. e \in Claimed
    BY <1>3, ReadTypes DEF Claim, Claimed
  <1> HIDE DEF e
  <1>5. HoldTyped' /\ IsFiniteSet(holds')
    BY <1>1, <1>4, DeliveryTypes DEF HoldTyped
  <1>6. RecordTyped' /\ claims' \in Nat /\ claims <= claims'
    BY <1>1, <1>3, ReadTypes, MemberTypes
  <1>7. ListTyped' /\ CountTyped' /\ BufferTyped' /\ faults' \in Nat
        /\ open' \in [Subs -> BOOLEAN]
    BY <1>1, ReadTypes, StillTyped
  <1>8. /\ due' = [due EXCEPT ![s] = due[s]] /\ left' = [left EXCEPT ![s] = 0]
        /\ due[s] \in Seq(DueOf) /\ Len(due[s]) <= Batch
    BY <1>1, <1>2, SameParts, ReadTypes
  <1>9. "read" \in ReadPc /\ <<>> \in Seq(Vals)
        /\ (s \in Readers => Len(<<>>) <= Larger(1, load.count))
    BY ReadTypes DEF ReadPc
  <1>10. UNCHANGED load
    BY <1>1
  <1>. QED
    BY <1>1, <1>5, <1>6, <1>7, <1>8, <1>9, <1>10, FullStep

LEMMA TrackNextTypes ==
    ASSUME TypeInv, NEW s \in Subs, NEW runs \in BOOLEAN, TrackNext(s, runs)
    PROVE  TypeInv'
  <1> DEFINE v == Head(mine[s])
             e == Claim(v, claims + 1, runs)
             p == IF Len(mine[s]) = 1 THEN "read" ELSE "track"
  <1>1. /\ pc[s] = "track"
        /\ tracked' \in {tracked, Recorded(s, v)}
        /\ buffer' = [buffer EXCEPT ![s] = Append(buffer[s], e)]
        /\ claims' = claims + 1 /\ mine' = [mine EXCEPT ![s] = Tail(mine[s])]
        /\ pc' = [pc EXCEPT ![s] = p]
        /\ UNCHANGED <<load, queue, processing, due, left, holds, open, history>>
    BY DEF TrackNext, Counted
  <1>2. mine[s] # <<>> /\ left[s] = 0
    BY <1>1, ReadTypes DEF Handful
  <1>3. /\ v \in Vals /\ Tail(mine[s]) \in Seq(Vals)
        /\ Len(Tail(mine[s])) = Len(mine[s]) - 1
    BY <1>2, ReadTypes, HeadTailProperties
  <1> HIDE DEF v
  <1>4. e \in Claimed
    BY <1>3, ReadTypes DEF Claim, Claimed
  <1> HIDE DEF e
  <1>5. BufferTyped'
    <2>1. buffer[s] \in Seq(Claimed)
      BY ReadTypes
    <2>2. Append(buffer[s], e) \in Seq(Claimed)
      BY <1>4, <2>1, AppendProperties
    <2>. QED
      BY <1>1, <2>2, ReadTypes DEF BufferTyped
  <1>6. RecordTyped' /\ claims' \in Nat /\ claims <= claims'
    BY <1>1, <1>3, ReadTypes, MemberTypes
  <1>7. faults' \in Nat
    BY ReadTypes, FaultType DEF TrackNext
  <1>8. ListTyped' /\ CountTyped' /\ HoldTyped' /\ IsFiniteSet(holds')
        /\ open' \in [Subs -> BOOLEAN]
    BY <1>1, ReadTypes, StillTyped
  <1>9. /\ due' = [due EXCEPT ![s] = due[s]] /\ left' = [left EXCEPT ![s] = 0]
        /\ due[s] \in Seq(DueOf) /\ Len(due[s]) <= Batch
    BY <1>1, <1>2, SameParts, ReadTypes
  <1>10. /\ p \in ReadPc /\ p \in {"read", "track"}
         /\ p = "read" => Tail(mine[s]) = <<>>
         /\ p = "track" => Tail(mine[s]) # <<>>
    <2>1. p \in ReadPc /\ p \in {"read", "track"}
      BY DEF ReadPc
    <2>2. Len(mine[s]) = 1 <=> Len(Tail(mine[s])) = 0
      BY <1>3, ReadTypes
    <2>3. Len(Tail(mine[s])) = 0 <=> Tail(mine[s]) = <<>>
      BY <1>3, EmptySeq, LenProperties
    <2>. QED
      BY <2>1, <2>2, <2>3
  <1> HIDE DEF p
  <1>11. s \in Readers => Len(Tail(mine[s])) <= Larger(1, load.count)
    BY <1>2, <1>3, ReadTypes
  <1>12. UNCHANGED load
    BY <1>1
  <1>. QED
    BY <1>1, <1>3, <1>5, <1>6, <1>7, <1>8, <1>9, <1>10, <1>11, <1>12, FullStep

LEMMA YieldTypes ==
    ASSUME TypeInv, NEW s \in Subs, Yield(s) PROVE TypeInv'
  <1> DEFINE e == Head(buffer[s])
  <1>1. /\ pc[s] = "read" /\ buffer[s] # <<>>
        /\ holds' = holds \cup {Delivery(s, e)}
        /\ buffer' = [buffer EXCEPT ![s] = Tail(buffer[s])]
        /\ UNCHANGED <<load, lists, pc, due, mine, left, open, history, faults>>
    BY DEF Yield
  <1>2. e \in Claimed /\ Tail(buffer[s]) \in Seq(Claimed)
    <2>1. buffer[s] \in Seq(Claimed)
      BY ReadTypes
    <2>. QED
      BY <1>1, <2>1, HeadTailProperties
  <1> HIDE DEF e
  <1>3. HoldTyped' /\ IsFiniteSet(holds')
    BY <1>1, <1>2, DeliveryTypes DEF HoldTyped
  <1>4. BufferTyped'
    BY <1>1, <1>2, ReadTypes DEF BufferTyped
  <1>5. /\ ListTyped' /\ RecordTyped' /\ CountTyped' /\ faults' \in Nat
        /\ open' \in [Subs -> BOOLEAN] /\ claims' \in Nat /\ claims <= claims'
    BY <1>1, ReadTypes, StillTyped DEF lists
  <1>6. left[s] = 0 /\ mine[s] = <<>>
    BY <1>1, ReadTypes DEF Handful
  <1>7. /\ due' = [due EXCEPT ![s] = due[s]] /\ left' = [left EXCEPT ![s] = 0]
        /\ mine' = [mine EXCEPT ![s] = <<>>] /\ pc' = [pc EXCEPT ![s] = "read"]
        /\ due[s] \in Seq(DueOf) /\ Len(due[s]) <= Batch
    BY <1>1, <1>6, SameParts, ReadTypes
  <1>8. "read" \in ReadPc /\ <<>> \in Seq(Vals)
        /\ (s \in Readers => Len(<<>>) <= Larger(1, load.count))
    BY ReadTypes DEF ReadPc
  <1>9. UNCHANGED load
    BY <1>1
  <1>. QED
    BY <1>3, <1>4, <1>5, <1>7, <1>8, <1>9, FullStep

LEMMA GoneTypes ==
    ASSUME TypeInv, NEW s \in Subs, NEW hs, hs \subseteq holds, Gone(s, hs),
           faults' \in Nat, open' \in [Subs -> BOOLEAN]
    PROVE  TypeInv'
  <1>1. /\ pc' = [pc EXCEPT ![s] = "read"] /\ due' = [due EXCEPT ![s] = <<>>]
        /\ mine' = [mine EXCEPT ![s] = <<>>] /\ left' = [left EXCEPT ![s] = 0]
        /\ buffer' = [buffer EXCEPT ![s] = <<>>] /\ holds' = holds \ hs
        /\ UNCHANGED <<load, queue, processing, tracked, claims, pushed,
                       retried, settled, taken>>
    BY DEF Gone
  <1>2. dropped' \in [Vals -> Nat]
    <2>1. CASE pc[s] = "push"
      <3>1. mine[s] \in Seq(Vals) /\ Len(mine[s]) = 1
        BY <2>1, ReadTypes DEF Handful
      <3>2. Head(mine[s]) \in Vals
        BY <3>1, HeadTailProperties, EmptySeq
      <3>3. dropped' = Plus(dropped, Head(mine[s]))
        BY <2>1 DEF Gone
      <3>. QED
        BY <3>2, <3>3, Bumped, ReadTypes DEF CountTyped
    <2>2. CASE pc[s] # "push"
      BY <2>2, ReadTypes DEF Gone, CountTyped
    <2>. QED
      BY <2>1, <2>2
  <1>3. stranded' \in [Vals -> Nat]
    <2>1. Moving(s) \in Seq(Vals) /\ buffer[s] \in Seq(Claimed)
      BY ReadTypes DEF Moving
    <2>2. \A v \in Vals : /\ Times(Moving(s), {v}) \in Nat
                          /\ Times(buffer[s], BareClaims(v)) \in Nat
                          /\ Bare(hs, v) \in Nat
      BY <2>1, TimesType, BareType DEF TypeInv
    <2>3. \A v \in Vals : stranded[v] \in Nat
      BY ReadTypes DEF CountTyped
    <2>4. \A v \in Vals : stranded[v] + Times(Moving(s), {v})
                       + Times(buffer[s], BareClaims(v)) + Bare(hs, v) \in Nat
      BY <2>2, <2>3
    <2>5. stranded' = [v \in Vals |->
                       stranded[v] + Times(Moving(s), {v})
                       + Times(buffer[s], BareClaims(v)) + Bare(hs, v)]
      BY DEF Gone
    <2>. QED
      BY <2>4, <2>5
  <1>4. CountTyped'
    BY <1>1, <1>2, <1>3, ReadTypes DEF CountTyped
  <1>5. HoldTyped' /\ IsFiniteSet(holds')
    BY <1>1, ReadTypes, FS_Subset DEF HoldTyped
  <1>6. BufferTyped'
    BY <1>1, EmptySeq, ReadTypes DEF BufferTyped
  <1>7. ListTyped' /\ RecordTyped' /\ claims' \in Nat /\ claims <= claims'
    BY <1>1, ReadTypes, StillTyped DEF lists
  <1>8. /\ "read" \in ReadPc /\ <<>> \in Seq(Vals) /\ <<>> \in Seq(DueOf)
        /\ Len(<<>>) <= Batch
        /\ (s \in Readers => Len(<<>>) <= Larger(1, load.count))
    BY ReadTypes DEF ReadPc
  <1>9. UNCHANGED load
    BY <1>1
  <1>. QED
    BY <1>1, <1>4, <1>5, <1>6, <1>7, <1>8, <1>9, FullStep

LEMMA EndTypes ==
    ASSUME TypeInv, NEW s \in Subs, ReadFails(s) \/ Crash(s) \/ Exit(s)
    PROVE  TypeInv'
  <1>1. PICK hs \in SUBSET holds : Gone(s, hs)
    BY DEF ReadFails, Crash, Exit, ProcessEnds
  <1>2. faults' \in Nat
    BY ReadTypes, FaultType DEF ReadFails, Crash, Exit
  <1>3. open' \in [Subs -> BOOLEAN]
    BY ReadTypes DEF ReadFails, Crash, Exit, ProcessEnds
  <1>. QED
    BY <1>1, <1>2, <1>3, GoneTypes

LEMMA ShutdownTypes ==
    ASSUME TypeInv, NEW s \in Subs, Shutdown(s) PROVE TypeInv'
  <1>1. /\ open' = [open EXCEPT ![s] = FALSE] /\ Fault
        /\ UNCHANGED <<load, lists, reader, holds, history>>
    BY DEF Shutdown
  <1>2. open' \in [Subs -> BOOLEAN] /\ faults' \in Nat
    BY <1>1, ReadTypes, FaultType
  <1>3. /\ UNCHANGED <<load, pc, due, mine, left, buffer, holds, claims>>
        /\ ListTyped' /\ RecordTyped' /\ CountTyped' /\ BufferTyped'
        /\ HoldTyped' /\ IsFiniteSet(holds')
    BY <1>1, StillTyped DEF lists, reader
  <1>4. OnlyRead(s) /\ Handful(s)'
    BY <1>3, ReadTypes DEF OnlyRead, Handful
  <1>5. /\ claims' \in Nat /\ claims <= claims' /\ load' = load
        /\ pc' \in [Subs -> ReadPc] /\ due' \in [Subs -> Seq(DueOf)]
        /\ mine' \in [Subs -> Seq(Vals)] /\ left' \in [Subs -> Nat]
        /\ Len(due'[s]) <= Batch
        /\ s \in Readers => Len(mine'[s]) + left'[s] <= Larger(1, load.count)
    BY <1>3, ReadTypes
  <1>. QED
    BY <1>2, <1>3, <1>4, <1>5, ReadStep

-----------------------------------------------------------------------------
LEMMA InitTypes == Init => TypeInv
  <1> SUFFICES ASSUME Init PROVE TypeInv
    OBVIOUS
  <1>0. <<>> \in Seq(Vals) /\ <<>> \in Seq(DueOf) /\ <<>> \in Seq(Claimed)
        /\ Len(<<>>) = 0
    BY EmptySeq
  <1>1. ProcessTyped
    BY DEF Init, ProcessTyped, ReadPc
  <1>2. load.count \in Nat /\ Batch \in Nat \ {0}
    BY <1>1, LoadTypes
  <1>3. ListTyped /\ CountTyped
    BY <1>0 DEF Init, ListTyped, CountTyped, Zero
  <1>4. RecordTyped
    <2>1. DOMAIN NoRecord = {} /\ NoRecord \in [{} -> Record]
      BY DEF NoRecord
    <2>. QED
      BY <2>1 DEF Init, RecordTyped
  <1>5. DueTyped /\ BufferTyped
    BY <1>0, <1>2 DEF Init, DueTyped, BufferTyped
  <1>6. HandTyped
    <2>1. Readers \subseteq Subs
      BY <1>1, LoadTypes
    <2>2. 0 + 0 <= Larger(1, load.count)
      BY <1>2 DEF Larger
    <2>. QED
      BY <1>0, <2>1, <2>2 DEF Init, HandTyped
  <1>7. HoldTyped /\ HandsInv
    BY DEF Init, HoldTyped, HandsInv, Handful
  <1>8. FiniteInv
    <2>1. Pushers = {} /\ holds = {}
      BY DEF Init, Pushers
    <2>. QED
      BY <2>1, FS_EmptySet DEF FiniteInv
  <1>. QED
    BY <1>1, <1>3, <1>4, <1>5, <1>6, <1>7, <1>8 DEF TypeInv

LEMMA TypeStep == TypeInv /\ [Next]_vars => TypeInv'
  <1> SUFFICES ASSUME TypeInv, [Next]_vars PROVE TypeInv'
    OBVIOUS
  <1>1. CASE UNCHANGED vars
    BY <1>1 DEF vars, lists, reader, history, TypeInv, ListTyped, RecordTyped,
                DueTyped, DueOf, HandTyped, CountTyped, ProcessTyped,
                BufferTyped, HoldTyped, HandsInv, Handful, FiniteInv, Pushers,
                Readers
  <1>2. ASSUME NEW s \in Subs, Read(s) PROVE TypeInv'
    BY <1>2, ListDueTypes, TakeOffTypes, PushBackTypes, ForgetDueTypes,
       SweepEndsTypes, PopTypes, PopTimesOutTypes, TrackTypes, MoveTypes,
       MovesEndTypes, TrackNextTypes, YieldTypes
    DEF Read
  <1>3. ASSUME NEW h \in holds, Verdict(h) PROVE TypeInv'
    BY <1>3, DecideTypes, RemoveTypes, ForgetTypes, RetryTypes, SettleEndTypes
    DEF Verdict
  <1>4. ASSUME NEW s \in Subs,
               \/ Read(s) \/ Crash(s) \/ ReadFails(s) \/ Exit(s) \/ Shutdown(s)
               \/ MoveFails(s) \/ TrackNext(s, FALSE)
        PROVE  TypeInv'
    BY <1>2, <1>4, EndTypes, ShutdownTypes, MoveTypes, TrackNextTypes
  <1>5. ASSUME NEW h \in holds,
               \/ Verdict(h) \/ Decide(h, "nacked") \/ Retry(h)
               \/ SettleFails(h) \/ RemoveFails(h)
        PROVE  TypeInv'
    BY <1>3, <1>5, DecideTypes, RetryTypes, SettleEndTypes, RemoveFailsTypes
  <1>. QED
    BY <1>1, <1>4, <1>5, PushTypes, AgeTypes, ExpireTypes DEF Next

-----------------------------------------------------------------------------
(* The members of the recovery set.                                        *)

\* The member was made by a process of s that ended, or by the running one.
MadeBy(m, s) ==
    \E k \in Nat :
        /\ m.id = <<s, k>> /\ k <= starts[s]
        /\ k = starts[s] => m.n <= counter[s]
Unique ==
    /\ \A c \in 1..claims :
          members[c].n # 0 => \E s \in Subs : MadeBy(members[c], s)
    /\ \A c, d \in 1..claims :
          members[c].n # 0 /\ members[c] = members[d] => c = d
    /\ \A c \in DOMAIN tracked : members[c].n # 0
SaltInv == SaltTyped /\ (load.ids => Unique)

LEMMA MemberOf ==
    ASSUME TypeInv, SaltTyped, NEW s \in Subs, NEW v \in Vals
    PROVE  /\ ClaimMember(s, v) \in Member
           /\ ClaimMember(s, v).n = counter[s] + 1
           /\ ClaimMember(s, v).val = v
           /\ load.ids => ClaimMember(s, v).id = <<s, starts[s]>>
           /\ NoMember(v) \in Member /\ NoMember(v).n = 0
           /\ counter[s] \in Nat /\ starts[s] \in Nat
  BY DEF SaltTyped, ClaimMember, NoMember, Member

LEMMA MembersAre ==
    ASSUME TypeInv, SaltTyped
    PROVE  /\ claims \in Nat /\ DOMAIN members = 1..claims
           /\ \A c \in 1..claims : members[c] \in Member
           /\ DOMAIN tracked \subseteq 1..claims
  <1>1. claims \in Nat /\ DOMAIN tracked \subseteq 1..claims
    BY DEF TypeInv, RecordTyped
  <1>2. DOMAIN members = 1..claims
    BY LenProperties DEF SaltTyped
  <1>. QED
    BY <1>1, <1>2, ElementOfSeq DEF SaltTyped

\* A step that gives no claim a member: processes may have ended.
LEMMA SaltStays ==
    ASSUME TypeInv, SaltInv, UNCHANGED <<load, claims, members>>,
           starts' \in [Subs -> Nat], counter' \in [Subs -> Nat],
           \A s \in Subs : \/ starts'[s] = starts[s] /\ counter'[s] = counter[s]
                           \/ starts'[s] > starts[s],
           DOMAIN tracked' \subseteq DOMAIN tracked
    PROVE  SaltInv'
  <1>1. SaltTyped'
    BY DEF SaltInv, SaltTyped
  <1>2. ASSUME load.ids PROVE Unique'
    <2>1. Unique
      BY <1>2 DEF SaltInv
    <2>2. ASSUME NEW c \in 1..claims, NEW s \in Subs, MadeBy(members[c], s)
          PROVE  MadeBy(members[c], s)'
      <3>1. PICK k \in Nat : /\ members[c].id = <<s, k>> /\ k <= starts[s]
                             /\ k = starts[s] => members[c].n <= counter[s]
        BY <2>2 DEF MadeBy
      <3>2. starts[s] \in Nat /\ starts'[s] \in Nat
        BY DEF SaltInv, SaltTyped
      <3>3. k <= starts'[s] /\ (k = starts'[s] => members[c].n <= counter'[s])
        BY <3>1, <3>2
      <3>4. members'[c] = members[c]
        OBVIOUS
      <3>. QED
        BY <3>1, <3>3, <3>4 DEF MadeBy
    <2>. QED
      BY <2>1, <2>2 DEF Unique
  <1>. QED
    BY <1>1, <1>2 DEF SaltInv

\* The next claim's member is nobody's: its process did not count that far.
LEMMA NextIsNew ==
    ASSUME TypeInv, SaltInv, load.ids, NEW s \in Subs, NEW v \in Vals,
           NEW c \in 1..claims
    PROVE  members[c] # ClaimMember(s, v)
  <1> SUFFICES ASSUME members[c] = ClaimMember(s, v) PROVE FALSE
    OBVIOUS
  <1>1. /\ members[c].n = counter[s] + 1 /\ members[c].id = <<s, starts[s]>>
        /\ counter[s] \in Nat /\ starts[s] \in Nat
    BY MemberOf DEF SaltInv
  <1>2. PICK r \in Subs, k \in Nat :
            /\ members[c].id = <<r, k>>
            /\ k = starts[r] => members[c].n <= counter[r]
    <2>1. members[c].n # 0
      BY <1>1
    <2>. QED
      BY <2>1 DEF SaltInv, Unique, MadeBy
  <1>3. r = s /\ k = starts[s]
    BY <1>1, <1>2
  <1>. QED
    BY <1>1, <1>2, <1>3

LEMMA CountedSalt ==
    ASSUME TypeInv, SaltInv, NEW s \in Subs, NEW v \in Vals, Counted(s, v),
           UNCHANGED load,
           DOMAIN tracked' \subseteq DOMAIN tracked \cup {claims + 1}
    PROVE  SaltInv'
  <1> DEFINE m == ClaimMember(s, v)
  <1>1. /\ claims' = claims + 1 /\ members' = Append(members, m)
        /\ counter' = [counter EXCEPT ![s] = @ + 1] /\ starts' = starts
    BY DEF Counted
  <1>2. /\ m \in Member /\ m.n = counter[s] + 1
        /\ load.ids => m.id = <<s, starts[s]>>
        /\ counter[s] \in Nat /\ starts[s] \in Nat
    BY MemberOf DEF SaltInv
  <1>3. \A c \in 1..claims : m # members[c] \/ ~load.ids
    BY NextIsNew
  <1> HIDE DEF m
  <1>4. /\ claims \in Nat /\ DOMAIN members = 1..claims
        /\ members \in Seq(Member) /\ Len(members) = claims
        /\ DOMAIN tracked \subseteq 1..claims
    BY MembersAre DEF SaltInv, SaltTyped
  <1>5. /\ members' \in Seq(Member) /\ Len(members') = claims'
        /\ \A c \in 1..claims : members'[c] = members[c]
        /\ members'[claims + 1] = m
    BY <1>1, <1>2, <1>4, AppendProperties
  <1>6. /\ counter \in [Subs -> Nat] /\ starts \in [Subs -> Nat]
        /\ counter' \in [Subs -> Nat]
        /\ counter'[s] = counter[s] + 1
        /\ \A r \in Subs \ {s} : counter'[r] = counter[r]
    BY <1>1, <1>2 DEF SaltInv, SaltTyped
  <1>7. SaltTyped'
    BY <1>1, <1>5, <1>6 DEF SaltTyped
  <1>8. 1..claims' = 1..claims \cup {claims + 1}
    BY <1>1, <1>4
  <1>9. ASSUME load.ids PROVE Unique'
    <2>1. Unique
      BY <1>9 DEF SaltInv
    <2>2. ASSUME NEW c \in 1..claims, members[c].n # 0
          PROVE  \E r \in Subs : MadeBy(members[c], r)'
      <3>1. PICK r \in Subs, k \in Nat :
                /\ members[c].id = <<r, k>> /\ k <= starts[r]
                /\ k = starts[r] => members[c].n <= counter[r]
        BY <2>1, <2>2 DEF Unique, MadeBy
      <3>2. members[c].n \in Nat /\ counter[r] \in Nat
        BY <1>6, MembersAre DEF SaltInv, Member
      <3>3. k = starts[r] => members[c].n <= counter'[r]
        BY <1>6, <3>1, <3>2
      <3>4. members'[c] = members[c] /\ starts' = starts
        BY <1>1, <1>5
      <3>. QED
        BY <3>1, <3>3, <3>4 DEF MadeBy
    <2>3. \E k \in Nat : /\ m.id = <<s, k>> /\ k <= starts'[s]
                         /\ k = starts'[s] => m.n <= counter'[s]
      <3>1. m.id = <<s, starts[s]>> /\ starts' = starts /\ starts[s] \in Nat
        BY <1>1, <1>2, <1>9
      <3>2. starts[s] <= starts'[s] /\ m.n <= counter'[s]
        BY <1>2, <1>6, <3>1
      <3>. QED
        BY <3>1, <3>2
    <2>4. ASSUME NEW c \in 1..claims', members'[c].n # 0
          PROVE  \E r \in Subs : MadeBy(members[c], r)'
      <3>1. CASE c \in 1..claims
        BY <1>5, <2>2, <2>4, <3>1
      <3>2. CASE c = claims + 1
        <4>1. members'[c] = m
          BY <1>5, <3>2
        <4>. QED
          BY <2>3, <4>1 DEF MadeBy
      <3>. QED
        BY <1>8, <3>1, <3>2
    <2>5. \A c, d \in 1..claims' :
             members'[c].n # 0 /\ members'[c] = members'[d] => c = d
      BY <1>3, <1>5, <1>8, <1>9, <2>1 DEF Unique
    <2>6. m.n # 0
      BY <1>2
    <2>7. \A c \in DOMAIN tracked' : members'[c].n # 0
      BY <1>4, <1>5, <2>1, <2>6 DEF Unique
    <2>. QED
      BY <2>4, <2>5, <2>7 DEF Unique
  <1>. QED
    BY <1>7, <1>9 DEF SaltInv

LEMMA MovesEndSalt ==
    ASSUME TypeInv, SaltInv, NEW s \in Subs, MovesEnd(s)
    PROVE  SaltInv'
  <1>1. UNCHANGED <<load, tracked, starts, counter>>
    BY DEF MovesEnd
  <1>2. CASE pc[s] # "lost"
    <2>1. UNCHANGED <<claims, members>>
      BY <1>2 DEF MovesEnd
    <2>2. starts' \in [Subs -> Nat] /\ counter' \in [Subs -> Nat]
      BY <1>1 DEF SaltInv, SaltTyped
    <2>. QED
      BY <1>1, <2>1, <2>2, SaltStays
  <1>3. CASE pc[s] = "lost"
    <2> DEFINE w == [k \in DOMAIN mine[s] |-> NoMember(mine[s][k])]
    <2>1. /\ claims' = claims + Len(mine[s]) /\ members' = members \o w
      BY <1>3 DEF MovesEnd
    <2>2. /\ DOMAIN mine[s] = 1..Len(mine[s]) /\ Len(mine[s]) \in Nat
          /\ \A k \in 1..Len(mine[s]) : mine[s][k] \in Vals
      BY ReadTypes, LenProperties, ElementOfSeq
    <2>3. \A k \in 1..Len(mine[s]) :
             NoMember(mine[s][k]) \in Member /\ NoMember(mine[s][k]).n = 0
      BY <2>2, MemberOf DEF SaltInv
    <2>4. /\ w \in Seq(Member) /\ Len(w) = Len(mine[s])
          /\ \A k \in 1..Len(w) : w[k].n = 0
      <3>1. w \in [1..Len(mine[s]) -> Member]
        BY <2>2, <2>3
      <3>2. w \in Seq(Member)
        BY <2>2, <3>1, SeqDef
      <3>3. Len(w) = Len(mine[s])
        BY <2>2, <3>1, <3>2, LenProperties
      <3>. QED
        BY <2>2, <2>3, <3>1, <3>2, <3>3
    <2> HIDE DEF w
    <2>5. /\ claims \in Nat /\ DOMAIN tracked \subseteq 1..claims
          /\ members \in Seq(Member) /\ Len(members) = claims
      BY MembersAre DEF SaltInv, SaltTyped
    <2>6. /\ members' \in Seq(Member) /\ Len(members') = claims'
          /\ \A c \in 1..claims : members'[c] = members[c]
          /\ \A c \in 1..claims' : c > claims => members'[c].n = 0
      <3>1. /\ members' \in Seq(Member) /\ Len(members') = claims + Len(w)
            /\ \A c \in 1..claims + Len(w) :
                  members'[c] = IF c <= claims THEN members[c]
                                ELSE w[c - claims]
        <4>1. members \o w \in Seq(Member)
              /\ Len(members \o w) = Len(members) + Len(w)
              /\ \A i \in 1..Len(members) + Len(w) : (members \o w)[i] =
                    IF i <= Len(members) THEN members[i]
                    ELSE w[i - Len(members)]
          BY <2>4, <2>5, ConcatProperties
        <4>. QED
          BY <2>1, <2>5, <4>1
      <3>2. claims' = claims + Len(w) /\ Len(w) \in Nat
        BY <2>1, <2>2, <2>4
      <3>3. ASSUME NEW c \in 1..claims', c > claims PROVE members'[c].n = 0
        <4>1. c - claims \in 1..Len(w) /\ c \in 1..claims + Len(w) /\ ~(c <= claims)
          BY <2>5, <3>2, <3>3
        <4>2. members'[c] = w[c - claims]
          BY <3>1, <4>1
        <4>3. w[c - claims].n = 0
          BY <2>4, <4>1
        <4>. QED
          BY <4>2, <4>3
      <3>4. ASSUME NEW c \in 1..claims PROVE members'[c] = members[c]
        BY <2>5, <3>1, <3>2
      <3>. QED
        BY <3>1, <3>2, <3>3, <3>4
    <2>7. claims' \in Nat /\ claims <= claims'
      BY <2>1, <2>2, <2>5
    <2>8. SaltTyped'
      BY <1>1, <2>6 DEF SaltTyped, SaltInv
    <2>9. ASSUME load.ids PROVE Unique'
      <3>1. Unique
        BY <2>9 DEF SaltInv
      <3>2. ASSUME NEW c \in 1..claims', members'[c].n # 0
            PROVE  /\ c \in 1..claims /\ members'[c] = members[c]
                   /\ \E r \in Subs : MadeBy(members[c], r)'
        <4>1. c \in 1..claims /\ members'[c] = members[c]
          BY <2>5, <2>6, <2>7, <3>2
        <4>2. \E r \in Subs : MadeBy(members[c], r)
          BY <3>1, <3>2, <4>1 DEF Unique
        <4>. QED
          BY <1>1, <4>1, <4>2 DEF MadeBy
      <3>3. \A c, d \in 1..claims' :
               members'[c].n # 0 /\ members'[c] = members'[d] => c = d
        BY <3>1, <3>2 DEF Unique
      <3>4. \A c \in DOMAIN tracked' : members'[c].n # 0
        BY <1>1, <2>5, <2>6, <3>1 DEF Unique
      <3>. QED
        BY <3>2, <3>3, <3>4 DEF Unique
    <2>. QED
      BY <1>1, <2>8, <2>9 DEF SaltInv
  <1>. QED
    BY <1>2, <1>3

LEMMA TrackSalt ==
    ASSUME TypeInv, SaltInv, NEW s \in Subs, NEW runs \in BOOLEAN,
           Track(s) \/ TrackNext(s, runs)
    PROVE  SaltInv'
  <1> DEFINE v == Head(mine[s])
  <1>1. /\ pc[s] = "track" /\ Counted(s, v) /\ UNCHANGED load
        /\ tracked' \in {tracked, Recorded(s, v)}
    BY DEF Track, TrackNext
  <1>2. v \in Vals
    BY <1>1, ReadTypes, HeadTailProperties DEF Handful
  <1> HIDE DEF v
  <1>3. DOMAIN tracked' \subseteq DOMAIN tracked \cup {claims + 1}
    BY <1>1 DEF Recorded
  <1>. QED
    BY <1>1, <1>2, <1>3, CountedSalt

LEMMA EndSalt ==
    ASSUME TypeInv, SaltInv, NEW s \in Subs,
           ReadFails(s) \/ Crash(s) \/ Exit(s)
    PROVE  SaltInv'
  <1>1. UNCHANGED <<load, tracked, claims, members>>
    BY DEF ReadFails, Crash, Exit, ProcessEnds, Gone
  <1>2. starts \in [Subs -> Nat] /\ counter \in [Subs -> Nat]
    BY DEF SaltInv, SaltTyped
  <1>3. CASE ReadFails(s)
    <2>1. UNCHANGED <<starts, counter>>
      BY <1>3 DEF ReadFails
    <2>. QED
      BY <1>1, <1>2, <2>1, SaltStays
  <1>4. CASE Crash(s) \/ Exit(s)
    <2>1. /\ starts' = [starts EXCEPT ![s] = @ + 1]
          /\ counter' = [counter EXCEPT ![s] = 0]
      BY <1>4 DEF Crash, Exit, ProcessEnds
    <2>2. starts' \in [Subs -> Nat] /\ counter' \in [Subs -> Nat]
      BY <1>2, <2>1
    <2>3. ASSUME NEW r \in Subs
          PROVE  \/ starts'[r] = starts[r] /\ counter'[r] = counter[r]
                 \/ starts'[r] > starts[r]
      BY <1>2, <2>1
    <2>. QED
      BY <1>1, <2>2, <2>3, SaltStays
  <1>. QED
    BY <1>3, <1>4

LEMMA QuietSalt ==
    ASSUME TypeInv, SaltInv, UNCHANGED <<load, claims, salts>>,
           DOMAIN tracked' \subseteq DOMAIN tracked
    PROVE  SaltInv'
  <1>1. UNCHANGED <<members, starts, counter>>
    BY DEF salts
  <1>2. starts' \in [Subs -> Nat] /\ counter' \in [Subs -> Nat]
    BY <1>1 DEF SaltInv, SaltTyped
  <1>. QED
    BY <1>1, <1>2, SaltStays

LEMMA SaltStep ==
    ASSUME TypeInv, SaltInv, [Next]_vars PROVE SaltInv'
  <1>1. CASE UNCHANGED vars
    BY <1>1, QuietSalt DEF vars, lists
  <1>2. CASE \/ \E v \in Vals : Push(v)
             \/ \E c \in DOMAIN tracked : Age(c)
             \/ Expire
    <2>1. UNCHANGED <<load, claims, salts>>
      BY <1>2 DEF Push, Age, Expire
    <2>2. DOMAIN tracked' \subseteq DOMAIN tracked
      BY <1>2 DEF Push, Age, Expire, NoRecord
    <2>. QED
      BY <2>1, <2>2, QuietSalt
  <1>3. ASSUME NEW s \in Subs,
               \/ ListDue(s) \/ TakeOff(s) \/ PushBack(s) \/ ForgetDue(s)
               \/ SweepEnds(s) \/ Pop(s) \/ PopTimesOut(s) \/ Move(s)
               \/ Yield(s) \/ Shutdown(s) \/ MoveFails(s)
        PROVE  SaltInv'
    <2>1. UNCHANGED <<load, claims, salts>>
      BY <1>3 DEF ListDue, TakeOff, PushBack, ForgetDue, SweepEnds, Pop,
                  PopTimesOut, Move, Yield, Shutdown, MoveFails, lists
    <2>2. DOMAIN tracked' \subseteq DOMAIN tracked
      BY <1>3 DEF ListDue, TakeOff, PushBack, ForgetDue, SweepEnds, Pop,
                  PopTimesOut, Move, Yield, Shutdown, MoveFails, lists,
                  Forgotten
    <2>. QED
      BY <2>1, <2>2, QuietSalt
  <1>4. ASSUME NEW s \in Subs,
               \/ Read(s) \/ Crash(s) \/ ReadFails(s) \/ Exit(s) \/ Shutdown(s)
               \/ MoveFails(s) \/ TrackNext(s, FALSE)
        PROVE  SaltInv'
    BY <1>3, <1>4, TrackSalt, EndSalt, MovesEndSalt DEF Read
  <1>5. ASSUME NEW h \in holds,
               \/ Verdict(h) \/ Decide(h, "nacked") \/ Retry(h)
               \/ SettleFails(h) \/ RemoveFails(h)
        PROVE  SaltInv'
    <2>1. UNCHANGED <<load, claims, salts>>
      BY <1>5 DEF Verdict, Decide, Ack, RemoveRetried, Remove, Forget, Retry,
                  SettleRefused, SettleFails, Leave, RemoveFails, lists
    <2>2. DOMAIN tracked' \subseteq DOMAIN tracked
      BY <1>5 DEF Verdict, Decide, Ack, RemoveRetried, Remove, Forget, Retry,
                  SettleRefused, SettleFails, Leave, RemoveFails, lists,
                  Forgotten
    <2>. QED
      BY <2>1, <2>2, QuietSalt
  <1>. QED
    BY <1>1, <1>2, <1>4, <1>5 DEF Next

LEMMA InitSalt == Init => SaltInv
  <1> SUFFICES ASSUME Init PROVE SaltInv
    OBVIOUS
  <1>1. SaltTyped
    BY EmptySeq DEF Init, SaltTyped
  <1>2. Unique
    BY DEF Init, Unique, NoRecord
  <1>. QED
    BY <1>1, <1>2 DEF SaltInv

LEMMA TypesHold == Spec => [](TypeInv /\ SaltInv)
  <1>1. Init => TypeInv /\ SaltInv
    BY InitTypes, InitSalt
  <1>2. TypeInv /\ SaltInv /\ [Next]_vars => (TypeInv /\ SaltInv)'
    BY TypeStep, SaltStep
  <1>. QED
    BY <1>1, <1>2, PTL DEF Spec

\* Every variable keeps its type; in particular a claim that has a record has a
\* number of its own, a sweep lists no more than its batch, and a pipelined
\* read holds no more than it asked for (list.rs:766-803, recovery.rs:163-190).
THEOREM TypeCorrect == Spec => []TypeOK
  <1>1. TypeInv /\ SaltInv => TypeOK
    BY TypeInvIsTyped DEF SaltInv
  <1>. QED
    BY <1>1, TypesHold, PTL

\* What the steps of the watchdog rest on: the member of a recorded claim is no
\* other claim's, and the next claim's is not in the set.
Own ==
    /\ \A c \in DOMAIN tracked, d \in 1..claims :
          members[c] = members[d] => c = d
    /\ \A c \in DOMAIN tracked, s \in Subs, v \in Vals :
          members[c] # ClaimMember(s, v)

LEMMA OwnMembers == ASSUME TypeInv, SaltInv, load.ids PROVE Own
  <1>1. Unique /\ DOMAIN tracked \subseteq 1..claims
    BY MembersAre DEF SaltInv
  <1>. QED
    BY <1>1, NextIsNew DEF Own, Unique

-----------------------------------------------------------------------------
(* Where the entries are.                                                  *)

QueuedAt(q, v)  == {k \in DOMAIN q : q[k] = v}
ReturnSet(v)    == {s \in Subs : pc[s] = "push" /\ mine[s] = <<v>>}
One(v, w)       == IF v = w THEN 1 ELSE 0

LEMMA QueuedFinite ==
    ASSUME NEW q \in Seq(Vals), NEW v
    PROVE  IsFiniteSet(QueuedAt(q, v)) /\ Cardinality(QueuedAt(q, v)) \in Nat
  <1>1. DOMAIN q = 1..Len(q) /\ Len(q) \in Nat
    BY LenProperties
  <1>2. IsFiniteSet(DOMAIN q)
    BY <1>1, FS_Interval
  <1>. QED
    BY <1>2, FS_Subset, FS_CardinalityType DEF QueuedAt

\* An LPUSH adds one occurrence, whatever it moves the others to.
LEMMA QueuedPushed ==
    ASSUME NEW q \in Seq(Vals), NEW w \in Vals, NEW v
    PROVE  Cardinality(QueuedAt(<<w>> \o q, v))
              = Cardinality(QueuedAt(q, v)) + One(v, w)
  <1> DEFINE r == <<w>> \o q
             old == QueuedAt(q, v)
             shifted == {k \in DOMAIN r : k > 1 /\ r[k] = v}
  <1>1. /\ DOMAIN q = 1..Len(q) /\ Len(q) \in Nat
        /\ r \in Seq(Vals) /\ Len(r) = Len(q) + 1 /\ DOMAIN r = 1..Len(q) + 1
        /\ r[1] = w /\ \A k \in 1..Len(q) : r[k + 1] = q[k]
    <2>1. <<w>> \in Seq(Vals) /\ Len(<<w>>) = 1 /\ <<w>>[1] = w
      OBVIOUS
    <2>2. Len(q) \in Nat /\ DOMAIN q = 1..Len(q)
      BY LenProperties
    <2>3. /\ r \in Seq(Vals) /\ Len(r) = Len(<<w>>) + Len(q)
          /\ \A i \in 1 .. Len(<<w>>) + Len(q) :
                r[i] = IF i <= Len(<<w>>) THEN <<w>>[i] ELSE q[i - Len(<<w>>)]
      BY <2>1, ConcatProperties
    <2>4. DOMAIN r = 1..Len(r)
      BY <2>3, LenProperties
    <2>5. \A i \in 1 .. Len(q) + 1 : r[i] = IF i <= 1 THEN w ELSE q[i - 1]
      BY <2>1, <2>2, <2>3
    <2>6. r[1] = w
      BY <2>2, <2>5
    <2>7. ASSUME NEW k \in 1..Len(q) PROVE r[k + 1] = q[k]
      <3>1. k + 1 \in 1 .. Len(q) + 1 /\ ~(k + 1 <= 1) /\ k + 1 - 1 = k
        BY <2>2
      <3>. QED
        BY <2>5, <3>1
    <2> HIDE DEF r
    <2>. QED
      BY <2>1, <2>2, <2>3, <2>4, <2>6, <2>7
  <1>2. IsFiniteSet(old) /\ Cardinality(old) \in Nat
    BY QueuedFinite
  <1> HIDE DEF r
  <1>3. Cardinality(shifted) = Cardinality(old) /\ IsFiniteSet(shifted)
    <2> DEFINE f == [k \in old |-> k + 1]
    <2>1. old \subseteq Nat /\ shifted \subseteq Nat
      BY <1>1 DEF QueuedAt
    <2>2. \A k \in old : f[k] \in shifted
      BY <1>1 DEF QueuedAt
    <2>3. \A j, k \in old : f[j] = f[k] => j = k
      BY <2>1
    <2>4. ASSUME NEW j \in shifted PROVE \E k \in old : f[k] = j
      <3>1. j - 1 \in 1..Len(q) /\ j - 1 + 1 = j
        BY <1>1
      <3>2. j - 1 \in old
        BY <1>1, <3>1 DEF QueuedAt
      <3>. QED
        BY <3>1, <3>2
    <2>5. f \in Bijection(old, shifted)
      <3>1. f \in [old -> shifted]
        BY <2>2
      <3> HIDE DEF f, old, shifted
      <3>. QED
        BY <2>3, <2>4, <3>1 DEF Bijection, Injection, Surjection, IsInjective
    <2> HIDE DEF f, old, shifted
    <2>. QED
      BY <1>2, <2>5, FS_Bijection DEF ExistsBijection
  <1>4. QueuedAt(r, v) = IF v = w THEN shifted \cup {1} ELSE shifted
    BY <1>1 DEF QueuedAt
  <1>5. 1 \notin shifted
    OBVIOUS
  <1> HIDE DEF shifted, old
  <1>6. Cardinality(QueuedAt(r, v)) = Cardinality(old) + One(v, w)
    <2>1. CASE v = w
      BY <1>2, <1>3, <1>4, <1>5, <2>1, FS_AddElement DEF One
    <2>2. CASE v # w
      BY <1>2, <1>3, <1>4, <2>2 DEF One
    <2>. QED
      BY <2>1, <2>2
  <1>. QED
    BY <1>6 DEF r, old

\* A pop takes one occurrence of what it moves.
LEMMA QueuedPopped ==
    ASSUME ListTyped, queue # <<>>, NEW v
    PROVE  Cardinality(QueuedAt(Others, v))
              = Cardinality(QueuedAt(queue, v)) - One(v, Oldest)
  <1>1. queue \in Seq(Vals) /\ Len(queue) \in Nat \ {0}
        /\ DOMAIN queue = 1..Len(queue)
    BY OldestTypes, LenProperties DEF ListTyped
  <1>2. /\ DOMAIN Others = 1 .. Len(queue) - 1
        /\ \A k \in 1 .. Len(queue) - 1 : Others[k] = queue[k]
    BY OldestTypes, LenProperties
  <1>3. QueuedAt(Others, v) = QueuedAt(queue, v) \ {Len(queue)}
    BY <1>1, <1>2 DEF QueuedAt
  <1>4. Len(queue) \in QueuedAt(queue, v) <=> v = Oldest
    BY <1>1 DEF QueuedAt, Oldest
  <1>5. IsFiniteSet(QueuedAt(queue, v)) /\ Cardinality(QueuedAt(queue, v)) \in Nat
    BY <1>1, QueuedFinite
  <1>. QED
    <2>1. CASE v = Oldest
      BY <1>3, <1>4, <1>5, <2>1, FS_RemoveElement DEF One
    <2>2. CASE v # Oldest
      <3>1. QueuedAt(Others, v) = QueuedAt(queue, v)
        BY <1>3, <1>4, <2>2
      <3>. QED
        BY <1>5, <2>2, <3>1 DEF One
    <2>. QED
      BY <2>1, <2>2

LEMMA Numbers ==
    ASSUME TypeInv, NEW v \in Vals
    PROVE  /\ OnQueue(v) = Cardinality(QueuedAt(queue, v)) /\ OnQueue(v) \in Nat
           /\ Returning(v) = Cardinality(ReturnSet(v)) /\ Returning(v) \in Nat
           /\ IsFiniteSet(ReturnSet(v))
           /\ processing[v] \in Nat /\ pushed[v] \in Nat /\ retried[v] \in Nat
           /\ settled[v] \in Nat /\ taken[v] \in Nat /\ dropped[v] \in Nat
  <1>1. OnQueue(v) = Cardinality(QueuedAt(queue, v))
        /\ Returning(v) = Cardinality(ReturnSet(v))
    BY DEF OnQueue, QueuedAt, Returning, ReturnSet
  <1>2. OnQueue(v) \in Nat
    BY <1>1, QueuedFinite DEF TypeInv, ListTyped
  <1>3. ReturnSet(v) \subseteq Pushers
    BY DEF ReturnSet, Pushers
  <1>4. IsFiniteSet(ReturnSet(v))
    BY <1>3, FS_Subset DEF TypeInv, FiniteInv
  <1>5. Returning(v) \in Nat
    BY <1>1, <1>4, FS_CardinalityType
  <1>. QED
    BY <1>1, <1>2, <1>4, <1>5 DEF TypeInv, ListTyped, CountTyped

LEMMA ReturnsStay ==
    ASSUME NEW s \in Subs, OnlyRead(s), pc[s] # "push", pc'[s] # "push", NEW v
    PROVE  Returning(v)' = Returning(v)
  <1>1. ReturnSet(v)' = ReturnSet(v)
    BY DEF ReturnSet, OnlyRead
  <1>. QED
    BY <1>1 DEF Returning, ReturnSet

LEMMA ReturnBegins ==
    ASSUME TypeInv, NEW s \in Subs, OnlyRead(s), NEW w \in Vals,
           pc[s] # "push", pc'[s] = "push", mine'[s] = <<w>>, NEW v \in Vals
    PROVE  Returning(v)' = Returning(v) + One(v, w)
  <1>1. s \notin ReturnSet(v) /\ IsFiniteSet(ReturnSet(v))
        /\ Cardinality(ReturnSet(v)) \in Nat
        /\ Returning(v) = Cardinality(ReturnSet(v))
    BY Numbers DEF ReturnSet
  <1>2. <<w>> = <<v>> <=> v = w
    OBVIOUS
  <1>3. ReturnSet(v)' = IF v = w THEN ReturnSet(v) \cup {s} ELSE ReturnSet(v)
    BY <1>2 DEF ReturnSet, OnlyRead
  <1>4. Returning(v)' = Cardinality(ReturnSet(v)')
    BY DEF Returning, ReturnSet
  <1>. QED
    <2>1. CASE v = w
      <3>1. Cardinality(ReturnSet(v) \cup {s}) = Cardinality(ReturnSet(v)) + 1
        BY <1>1, FS_AddElement
      <3>2. ReturnSet(v)' = ReturnSet(v) \cup {s} /\ One(v, w) = 1
        BY <1>3, <2>1 DEF One
      <3>. QED
        BY <1>1, <1>4, <3>1, <3>2
    <2>2. CASE v # w
      BY <1>1, <1>3, <1>4, <2>2 DEF One
    <2>. QED
      BY <2>1, <2>2

LEMMA ReturnEnds ==
    ASSUME TypeInv, NEW s \in Subs, OnlyRead(s), NEW w \in Vals,
           pc[s] = "push", mine[s] = <<w>>, pc'[s] # "push", NEW v \in Vals
    PROVE  Returning(v)' = Returning(v) - One(v, w)
  <1>1. IsFiniteSet(ReturnSet(v)) /\ Cardinality(ReturnSet(v)) \in Nat
        /\ Returning(v) = Cardinality(ReturnSet(v))
    BY Numbers
  <1>2. <<w>> = <<v>> <=> v = w
    OBVIOUS
  <1>3. s \in ReturnSet(v) <=> v = w
    BY <1>2 DEF ReturnSet
  <1>4. ReturnSet(v)' = ReturnSet(v) \ {s}
    BY DEF ReturnSet, OnlyRead
  <1>5. Returning(v)' = Cardinality(ReturnSet(v)')
    BY DEF Returning, ReturnSet
  <1>. QED
    <2>1. CASE v = w
      BY <1>1, <1>3, <1>4, <1>5, <2>1, FS_RemoveElement DEF One
    <2>2. CASE v # w
      <3>1. ReturnSet(v)' = ReturnSet(v)
        BY <1>3, <1>4, <2>2
      <3>. QED
        BY <1>1, <1>5, <2>2, <3>1 DEF One
    <2>. QED
      BY <2>1, <2>2

-----------------------------------------------------------------------------
(* What is pushed is conserved.                                            *)

Conserves(v) ==
    pushed[v] + retried[v] =
        OnQueue(v) + processing[v] + Returning(v) + dropped[v] + taken[v]

LEMMA PlusOne ==
    ASSUME NEW f \in [Vals -> Nat], NEW w \in Vals, NEW v \in Vals
    PROVE  Plus(f, w)[v] = f[v] + One(v, w)
  BY Bumped DEF One

LEMMA MinusOne ==
    ASSUME NEW f \in [Vals -> Nat], NEW w \in Vals, NEW v \in Vals, f[w] > 0
    PROVE  Minus(f, w)[v] = f[v] - One(v, w)
  BY Bumped DEF One

LEMMA MinusNone ==
    ASSUME NEW f \in [Vals -> Nat], NEW w \in Vals, NEW v \in Vals, ~(f[w] > 0)
    PROVE  Minus(f, w)[v] = f[v]
  <1>1. f[w] = 0
    OBVIOUS
  <1>. QED
    BY <1>1, Bumped

\* A step of one read that puts nothing back and takes nothing off.
LEMMA StillConserved ==
    ASSUME TypeInv, Conserved, NEW s \in Subs, OnlyRead(s),
           pc[s] # "push", pc'[s] # "push",
           UNCHANGED <<queue, processing, pushed, retried, dropped, taken>>
    PROVE  Conserved'
  <1> SUFFICES ASSUME NEW v \in Vals PROVE Conserves(v)'
    BY DEF Conserved, Conserves
  <1>1. Returning(v)' = Returning(v)
    BY ReturnsStay
  <1>2. OnQueue(v)' = OnQueue(v)
    BY DEF OnQueue
  <1>. QED
    BY <1>1, <1>2 DEF Conserved, Conserves

LEMMA QuietConserved ==
    ASSUME TypeInv, Conserved, UNCHANGED reader,
           UNCHANGED <<queue, processing, pushed, retried, dropped, taken>>
    PROVE  Conserved'
  <1> SUFFICES ASSUME NEW v \in Vals PROVE Conserves(v)'
    BY DEF Conserved, Conserves
  <1>1. Returning(v)' = Returning(v) /\ OnQueue(v)' = OnQueue(v)
    BY DEF Returning, OnQueue, reader
  <1>. QED
    BY <1>1 DEF Conserved, Conserves

\* A push by a producer, and the push of a retry.
LEMMA PushConserved ==
    ASSUME TypeInv, Conserved, NEW w \in Vals, queue' = <<w>> \o queue,
           UNCHANGED <<reader, processing, dropped, taken>>,
           \/ pushed' = Plus(pushed, w) /\ retried' = retried
           \/ pushed' = pushed /\ retried' = Plus(retried, w)
    PROVE  Conserved'
  <1> SUFFICES ASSUME NEW v \in Vals PROVE Conserves(v)'
    BY DEF Conserved, Conserves
  <1>1. OnQueue(v)' = OnQueue(v) + One(v, w)
    <2>1. OnQueue(v)' = Cardinality(QueuedAt(<<w>> \o queue, v))
      BY DEF OnQueue, QueuedAt
    <2>. QED
      BY <2>1, Numbers, QueuedPushed DEF TypeInv, ListTyped
  <1>2. Returning(v)' = Returning(v)
    BY DEF Returning, reader
  <1>3. pushed'[v] + retried'[v] = pushed[v] + retried[v] + One(v, w)
    <2>0. pushed \in [Vals -> Nat] /\ retried \in [Vals -> Nat]
      BY DEF TypeInv, CountTyped
    <2>1. /\ Plus(pushed, w)[v] = pushed[v] + One(v, w)
          /\ Plus(retried, w)[v] = retried[v] + One(v, w)
      BY <2>0, PlusOne
    <2>2. One(v, w) \in Nat
      BY DEF One
    <2>. QED
      BY <2>1, <2>2, Numbers
  <1>4. /\ Conserves(v) /\ One(v, w) \in Nat
        /\ processing'[v] = processing[v] /\ dropped'[v] = dropped[v]
        /\ taken'[v] = taken[v]
    BY DEF Conserved, Conserves, One
  <1>5. /\ pushed[v] \in Nat /\ retried[v] \in Nat /\ OnQueue(v) \in Nat
        /\ processing[v] \in Nat /\ Returning(v) \in Nat
        /\ dropped[v] \in Nat /\ taken[v] \in Nat
    BY Numbers
  <1>6. pushed[v] + retried[v] =
            OnQueue(v) + processing[v] + Returning(v) + dropped[v] + taken[v]
    BY <1>4 DEF Conserves
  <1>7. pushed'[v] + retried'[v] =
            OnQueue(v)' + processing'[v] + Returning(v)' + dropped'[v]
            + taken'[v]
    <2>1. One(v, w) \in Nat
      BY <1>4
    <2>2. pushed'[v] + retried'[v] =
              (OnQueue(v) + One(v, w)) + processing[v] + Returning(v)
              + dropped[v] + taken[v]
      <3> HIDE DEF One, OnQueue, Returning
      <3>. QED
        BY ONLY <1>3, <1>5, <1>6, <2>1
    <2>. QED
      BY <1>1, <1>2, <1>4, <2>2
  <1>. QED
    BY <1>7 DEF Conserves

\* The LREM of a settle: off the list and taken, or not there.
LEMMA RemoveConserved ==
    ASSUME TypeInv, Conserved, NEW h \in holds, Ack(h) \/ RemoveRetried(h)
    PROVE  Conserved'
  <1>1. /\ processing' = Minus(processing, h.val)
        /\ taken' = IF Removed(h.val) THEN Plus(taken, h.val) ELSE taken
        /\ UNCHANGED <<queue, reader, pushed, retried, dropped>>
    BY DEF Ack, RemoveRetried, Remove
  <1> SUFFICES ASSUME NEW v \in Vals PROVE Conserves(v)'
    BY DEF Conserved, Conserves
  <1>2. h.val \in Vals
    BY DEF TypeInv, HoldTyped, Hold
  <1>3. processing'[v] + taken'[v] = processing[v] + taken[v]
    <2>1. /\ processing \in [Vals -> Nat] /\ taken \in [Vals -> Nat]
      BY DEF TypeInv, ListTyped, CountTyped
    <2>2. CASE Removed(h.val)
      <3>1. /\ Minus(processing, h.val)[v] = processing[v] - One(v, h.val)
            /\ Plus(taken, h.val)[v] = taken[v] + One(v, h.val)
        BY <1>2, <2>1, <2>2, PlusOne, MinusOne DEF Removed
      <3>2. One(v, h.val) \in Nat
        BY DEF One
      <3>. QED
        BY <1>1, <2>2, <3>1, <3>2, Numbers
    <2>3. CASE ~Removed(h.val)
      <3>1. Minus(processing, h.val)[v] = processing[v]
        BY <1>2, <2>1, <2>3, MinusNone DEF Removed
      <3>. QED
        BY <1>1, <2>3, <3>1
    <2>. QED
      BY <2>2, <2>3
  <1>4. Returning(v)' = Returning(v) /\ OnQueue(v)' = OnQueue(v)
    BY <1>1 DEF Returning, OnQueue, reader
  <1>5. taken'[v] \in Nat /\ processing'[v] \in Nat
    <2>1. /\ processing \in [Vals -> Nat] /\ taken \in [Vals -> Nat]
      BY DEF TypeInv, ListTyped, CountTyped
    <2>2. processing' \in [Vals -> Nat] /\ taken' \in [Vals -> Nat]
      BY <1>1, <1>2, <2>1, Bumped
    <2>. QED
      BY <2>2
  <1>6. Conserves(v) /\ pushed'[v] = pushed[v] /\ retried'[v] = retried[v]
        /\ dropped'[v] = dropped[v]
    BY <1>1 DEF Conserved, Conserves
  <1>. QED
    BY <1>3, <1>4, <1>5, <1>6, Numbers DEF Conserves

\* The LREM of a sweep: into its hands, or not there.
LEMMA TakeOffConserved ==
    ASSUME TypeInv, Conserved, NEW s \in Subs, TakeOff(s) PROVE Conserved'
  <1> DEFINE w == Head(due[s]).val
  <1>1. /\ pc[s] = "sweep" /\ due[s] # <<>> /\ processing' = Minus(processing, w)
        /\ IF Removed(w)
           THEN /\ mine' = [mine EXCEPT ![s] = <<w>>]
                /\ pc' = [pc EXCEPT ![s] = "push"]
           ELSE /\ pc' = [pc EXCEPT ![s] = "forget"]
                /\ UNCHANGED mine
        /\ UNCHANGED <<queue, due, left, history>>
    BY DEF TakeOff
  <1>2. w \in Vals
    <2>1. due[s] \in Seq(DueOf) /\ due[s] # <<>>
      BY <1>1, ReadTypes
    <2>2. Head(due[s]) \in DueOf
      BY <2>1, HeadTailProperties
    <2>. QED
      BY <2>2 DEF DueOf
  <1> HIDE DEF w
  <1>3. OnlyRead(s)
    BY <1>1, ReadTypes DEF OnlyRead
  <1>4. processing \in [Vals -> Nat]
    BY DEF TypeInv, ListTyped
  <1> SUFFICES ASSUME NEW v \in Vals PROVE Conserves(v)'
    BY DEF Conserved, Conserves
  <1>5. /\ OnQueue(v)' = OnQueue(v) /\ Conserves(v)
        /\ UNCHANGED <<pushed, retried, dropped, taken>>
    BY <1>1 DEF OnQueue, history, Conserved, Conserves
  <1>6. CASE Removed(w)
    <2>1. pc'[s] = "push" /\ mine'[s] = <<w>>
      BY <1>1, <1>6, ReadTypes
    <2>2. Returning(v)' = Returning(v) + One(v, w)
      BY <1>1, <1>2, <1>3, <2>1, ReturnBegins
    <2>3. processing'[v] = processing[v] - One(v, w) /\ processing'[v] \in Nat
      BY <1>1, <1>2, <1>4, <1>6, Bumped DEF Removed, One
    <2>4. One(v, w) \in Nat
      BY DEF One
    <2>. QED
      BY <1>5, <2>2, <2>3, <2>4, Numbers DEF Conserves
  <1>7. CASE ~Removed(w)
    <2>1. pc'[s] # "push" /\ pc[s] # "push"
      BY <1>1, <1>7, ReadTypes
    <2>2. Returning(v)' = Returning(v)
      BY <1>3, <2>1, ReturnsStay
    <2>3. processing'[v] = processing[v]
      BY <1>1, <1>2, <1>4, <1>7, MinusNone DEF Removed
    <2>. QED
      BY <1>5, <2>2, <2>3, Numbers DEF Conserves
  <1>. QED
    BY <1>6, <1>7

\* A sequence of one element.
LEMMA OneElement ==
    ASSUME NEW S, NEW seq \in Seq(S), Len(seq) = 1
    PROVE  seq = <<Head(seq)>> /\ Head(seq) \in S
  <1>1. Head(seq) = seq[1] /\ seq[1] \in S
    BY ElementOfSeq, EmptySeq, HeadTailProperties
  <1>2. <<seq[1]>> \in Seq(S) /\ Len(<<seq[1]>>) = 1 /\ <<seq[1]>>[1] = seq[1]
    BY <1>1
  <1>3. \A i \in 1..1 : seq[i] = <<seq[1]>>[i]
    BY <1>2
  <1>4. seq = <<seq[1]>>
    BY <1>2, <1>3, SeqEqual
  <1>. QED
    BY <1>1, <1>4

LEMMA PushBackConserved ==
    ASSUME TypeInv, Conserved, NEW s \in Subs, PushBack(s) PROVE Conserved'
  <1>1. /\ pc[s] = "push" /\ queue' = mine[s] \o queue
        /\ mine' = [mine EXCEPT ![s] = <<>>]
        /\ pc' = [pc EXCEPT ![s] = "forget"]
        /\ UNCHANGED <<processing, due, left, history>>
    BY DEF PushBack
  <1> DEFINE w == Head(mine[s])
  <1>2. mine[s] = <<w>> /\ w \in Vals
    <2>1. Len(mine[s]) = 1 /\ mine[s] \in Seq(Vals)
      BY <1>1, ReadTypes DEF Handful
    <2>. QED
      BY <2>1, OneElement
  <1> HIDE DEF w
  <1>3. OnlyRead(s) /\ pc'[s] # "push"
    BY <1>1, ReadTypes DEF OnlyRead
  <1> SUFFICES ASSUME NEW v \in Vals PROVE Conserves(v)'
    BY DEF Conserved, Conserves
  <1>4. OnQueue(v)' = OnQueue(v) + One(v, w)
    <2>1. OnQueue(v)' = Cardinality(QueuedAt(<<w>> \o queue, v))
      BY <1>1, <1>2 DEF OnQueue, QueuedAt
    <2>. QED
      BY <1>2, <2>1, Numbers, QueuedPushed DEF TypeInv, ListTyped
  <1>5. Returning(v)' = Returning(v) - One(v, w)
    BY <1>1, <1>2, <1>3, ReturnEnds
  <1>6. Conserves(v) /\ UNCHANGED <<pushed, retried, dropped, taken, processing>>
        /\ One(v, w) \in Nat
    BY <1>1 DEF history, Conserved, Conserves, One
  <1>. QED
    BY <1>4, <1>5, <1>6, Numbers DEF Conserves

\* A BLMOVE or an LMOVE: from the one list to the other.
LEMMA MoveConserved ==
    ASSUME TypeInv, Conserved, NEW s \in Subs,
           Pop(s) \/ Move(s) \/ MoveFails(s)
    PROVE  Conserved'
  <1>1. /\ pc[s] # "push" /\ pc'[s] # "push" /\ OnlyRead(s)
        /\ UNCHANGED <<pushed, retried, dropped, taken>>
    BY ReadTypes DEF Pop, Move, MoveFails, OnlyRead, history
  <1>2. \/ UNCHANGED <<queue, processing>>
        \/ queue # <<>> /\ queue' = Others /\ processing' = Moved
    BY DEF Pop, Move, MoveFails
  <1>3. CASE UNCHANGED <<queue, processing>>
    BY <1>1, <1>3, StillConserved
  <1>4. CASE queue # <<>> /\ queue' = Others /\ processing' = Moved
    <2> SUFFICES ASSUME NEW v \in Vals PROVE Conserves(v)'
      BY DEF Conserved, Conserves
    <2>1. Oldest \in Vals /\ processing \in [Vals -> Nat]
      BY <1>4, OldestTypes DEF TypeInv, ListTyped
    <2>2. OnQueue(v)' = OnQueue(v) - One(v, Oldest)
      <3>1. OnQueue(v)' = Cardinality(QueuedAt(Others, v))
        BY <1>4 DEF OnQueue, QueuedAt
      <3>. QED
        BY <1>4, <3>1, Numbers, QueuedPopped DEF TypeInv
    <2>3. processing'[v] = processing[v] + One(v, Oldest)
      BY <1>4, <2>1, Bumped DEF Moved, One
    <2>4. Returning(v)' = Returning(v)
      BY <1>1, ReturnsStay
    <2>5. Conserves(v) /\ One(v, Oldest) \in Nat
      BY DEF Conserved, Conserves, One
    <2>. QED
      BY <1>1, <2>2, <2>3, <2>4, <2>5, Numbers DEF Conserves
  <1>. QED
    BY <1>2, <1>3, <1>4

\* What a sweep had in its hands is dropped when its read ends.
LEMMA EndConserved ==
    ASSUME TypeInv, Conserved, NEW s \in Subs,
           ReadFails(s) \/ Crash(s) \/ Exit(s)
    PROVE  Conserved'
  <1>1. /\ pc' = [pc EXCEPT ![s] = "read"] /\ due' = [due EXCEPT ![s] = <<>>]
        /\ mine' = [mine EXCEPT ![s] = <<>>] /\ left' = [left EXCEPT ![s] = 0]
        /\ dropped' = IF pc[s] = "push" THEN Plus(dropped, Head(mine[s]))
                                        ELSE dropped
        /\ UNCHANGED <<queue, processing, pushed, retried, taken>>
    BY DEF ReadFails, Crash, Exit, ProcessEnds, Gone, lists
  <1>2. OnlyRead(s) /\ pc'[s] # "push"
    BY <1>1, ReadTypes DEF OnlyRead
  <1>3. CASE pc[s] # "push"
    BY <1>1, <1>2, <1>3, StillConserved
  <1>4. CASE pc[s] = "push"
    <2> DEFINE w == Head(mine[s])
    <2>1. mine[s] = <<w>> /\ w \in Vals
      <3>1. Len(mine[s]) = 1 /\ mine[s] \in Seq(Vals)
        BY <1>4, ReadTypes DEF Handful
      <3>. QED
        BY <3>1, OneElement
    <2>2. dropped' = Plus(dropped, w)
      BY <1>1, <1>4
    <2> HIDE DEF w
    <2> SUFFICES ASSUME NEW v \in Vals PROVE Conserves(v)'
      BY DEF Conserved, Conserves
    <2>3. dropped'[v] = dropped[v] + One(v, w)
      BY <2>1, <2>2, Bumped, Numbers DEF One, TypeInv, CountTyped
    <2>4. Returning(v)' = Returning(v) - One(v, w)
      BY <1>2, <1>4, <2>1, ReturnEnds
    <2>5. Conserves(v) /\ OnQueue(v)' = OnQueue(v) /\ One(v, w) \in Nat
      BY <1>1 DEF Conserved, Conserves, OnQueue, One
    <2>. QED
      BY <1>1, <2>3, <2>4, <2>5, Numbers DEF Conserves
  <1>. QED
    BY <1>3, <1>4

LEMMA ConservedStep ==
    ASSUME TypeInv, Conserved, [Next]_vars PROVE Conserved'
  <1>1. CASE UNCHANGED vars
    BY <1>1, QuietConserved DEF vars, lists, history
  <1>2. ASSUME NEW v \in Vals, Push(v) PROVE Conserved'
    BY <1>2, PushConserved DEF Push
  <1>3. ASSUME NEW c \in DOMAIN tracked, Age(c) PROVE Conserved'
    BY <1>3, QuietConserved DEF Age, history
  <1>4. CASE Expire
    BY <1>4, QuietConserved DEF Expire
  <1>5. ASSUME NEW s \in Subs,
               \/ ListDue(s) \/ ForgetDue(s) \/ SweepEnds(s) \/ PopTimesOut(s)
               \/ MovesEnd(s) \/ Track(s) \/ TrackNext(s, TRUE)
               \/ TrackNext(s, FALSE)
        PROVE  Conserved'
    <2>1. /\ UNCHANGED <<queue, processing, pushed, retried, dropped, taken>>
          /\ pc[s] # "push"
      BY <1>5 DEF ListDue, ForgetDue, SweepEnds, PopTimesOut, MovesEnd, Track,
                  TrackNext, lists, history
    <2>2. pc'[s] # "push"
      BY <1>5, ReadTypes
      DEF ListDue, ForgetDue, SweepEnds, PopTimesOut, MovesEnd, Track, TrackNext
    <2>3. OnlyRead(s)
      BY <1>5, ReadTypes
      DEF ListDue, ForgetDue, SweepEnds, PopTimesOut, MovesEnd, Track,
          TrackNext, OnlyRead
    <2>. QED
      BY <2>1, <2>2, <2>3, StillConserved
  <1>6. ASSUME NEW s \in Subs, Yield(s) \/ Shutdown(s) PROVE Conserved'
    <2>1. /\ UNCHANGED <<queue, processing, pushed, retried, dropped, taken>>
          /\ UNCHANGED <<pc, mine>>
      BY <1>6 DEF Yield, Shutdown, lists, history, reader
    <2> SUFFICES ASSUME NEW v \in Vals PROVE Conserves(v)'
      BY DEF Conserved, Conserves
    <2>2. Returning(v)' = Returning(v) /\ OnQueue(v)' = OnQueue(v)
      BY <2>1 DEF Returning, OnQueue
    <2>. QED
      BY <2>1, <2>2 DEF Conserved, Conserves
  <1>7. ASSUME NEW s \in Subs,
               \/ Read(s) \/ Crash(s) \/ ReadFails(s) \/ Exit(s) \/ Shutdown(s)
               \/ MoveFails(s) \/ TrackNext(s, FALSE)
        PROVE  Conserved'
    BY <1>5, <1>6, <1>7, TakeOffConserved, PushBackConserved, MoveConserved,
       EndConserved
    DEF Read
  <1>8. ASSUME NEW h \in holds,
               \/ Decide(h, "acked") \/ Decide(h, "nacked") \/ Forget(h)
               \/ SettleRefused(h) \/ SettleFails(h) \/ RemoveFails(h)
        PROVE  Conserved'
    <2>1. /\ UNCHANGED reader
          /\ UNCHANGED <<queue, processing, pushed, retried, dropped, taken>>
      BY <1>8 DEF Decide, Forget, SettleRefused, SettleFails, RemoveFails,
                  Leave, lists, history
    <2>. QED
      BY <2>1, QuietConserved
  <1>9. ASSUME NEW h \in holds, Retry(h) PROVE Conserved'
    <2>1. h.val \in Vals
      BY DEF TypeInv, HoldTyped, Hold
    <2>. QED
      BY <1>9, <2>1, PushConserved DEF Retry
  <1>10. ASSUME NEW h \in holds,
               \/ Verdict(h) \/ Decide(h, "nacked") \/ Retry(h)
               \/ SettleFails(h) \/ RemoveFails(h)
        PROVE  Conserved'
    BY <1>8, <1>9, <1>10, RemoveConserved DEF Verdict
  <1>. QED
    BY <1>1, <1>2, <1>3, <1>4, <1>7, <1>10 DEF Next

LEMMA InitConserved == Init => Conserved
  <1> SUFFICES ASSUME Init, NEW v \in Vals PROVE Conserves(v)
    BY DEF Conserved, Conserves
  <1>1. /\ pushed[v] = 0 /\ retried[v] = 0 /\ processing[v] = 0
        /\ dropped[v] = 0 /\ taken[v] = 0
    BY DEF Init, Zero
  <1>2. OnQueue(v) = 0
    <2>1. {k \in DOMAIN queue : queue[k] = v} = {}
      BY DEF Init
    <2>. QED
      BY <2>1, FS_EmptySet DEF OnQueue
  <1>3. Returning(v) = 0
    <2>1. {s \in Subs : pc[s] = "push" /\ mine[s] = <<v>>} = {}
      BY DEF Init
    <2>. QED
      BY <2>1, FS_EmptySet DEF Returning
  <1>. QED
    BY <1>1, <1>2, <1>3 DEF Conserves

(* An entry is on the queue, on the processing list, in the hands of a     *)
(* sweep, lost with one, or was taken off by a verdict, once, for any      *)
(* subscriptions, entries and faults (recovery.rs:176-178,                 *)
(* list.rs:1146-1160).                                                     *)
THEOREM NothingIsLostOrDoubled == Spec => []Conserved
  <1>1. Init => Conserved
    BY InitConserved
  <1>2. TypeInv /\ Conserved /\ [Next]_vars => Conserved'
    BY ConservedStep
  <1>. QED
    BY <1>1, <1>2, TypesHold, PTL DEF Spec

-----------------------------------------------------------------------------
(* What the verdicts took off is no more than the acks, the drops and the  *)
(* retries whose copy is on the queue account for.  The bound is inductive *)
(* only with the retries between their push and their LREM counted.        *)

Retrying(v) == {h \in holds : h.stage = "retrying" /\ h.val = v}
RetryInv ==
    \A v \in Vals :
        taken[v] + Cardinality(Retrying(v)) <= settled[v] + retried[v]

LEMMA RetryNumbers ==
    ASSUME TypeInv, NEW v \in Vals
    PROVE  /\ IsFiniteSet(Retrying(v)) /\ Cardinality(Retrying(v)) \in Nat
           /\ taken[v] \in Nat /\ settled[v] \in Nat /\ retried[v] \in Nat
  <1>1. Retrying(v) \subseteq holds
    BY DEF Retrying
  <1>2. IsFiniteSet(Retrying(v))
    BY <1>1, FS_Subset DEF TypeInv, FiniteInv
  <1>. QED
    BY <1>2, FS_CardinalityType, Numbers

\* A step with no count and no new retry.
LEMMA RetryQuiet ==
    ASSUME TypeInv, RetryInv, UNCHANGED <<taken, settled, retried>>,
           \A h \in holds' : h.stage = "retrying" => h \in holds
    PROVE  RetryInv'
  <1> SUFFICES ASSUME NEW v \in Vals
               PROVE  taken'[v] + Cardinality(Retrying(v)')
                          <= settled'[v] + retried'[v]
    BY DEF RetryInv
  <1>1. Retrying(v)' \subseteq Retrying(v)
    BY DEF Retrying
  <1>2. /\ IsFiniteSet(Retrying(v)) /\ Cardinality(Retrying(v)) \in Nat
        /\ taken[v] \in Nat /\ settled[v] \in Nat /\ retried[v] \in Nat
    BY RetryNumbers
  <1>3. IsFiniteSet(Retrying(v)')
    BY <1>1, <1>2, FS_Subset
  <1>4. /\ Cardinality(Retrying(v)') <= Cardinality(Retrying(v))
        /\ Cardinality(Retrying(v)') \in Nat
    BY <1>1, <1>2, <1>3, FS_Subset, FS_CardinalityType
  <1>5. taken[v] + Cardinality(Retrying(v)) <= settled[v] + retried[v]
    BY DEF RetryInv
  <1>. QED
    BY <1>2, <1>4, <1>5

\* A settle takes off at most what it settles.
LEMMA AckRetry ==
    ASSUME TypeInv, RetryInv, NEW h \in holds, Ack(h)
    PROVE  RetryInv'
  <1>1. /\ holds' = At(h, "removed") /\ retried' = retried
        /\ settled' = Plus(settled, h.val)
        /\ taken' = taken \/ taken' = Plus(taken, h.val)
    BY DEF Ack, Remove
  <1> SUFFICES ASSUME NEW v \in Vals
               PROVE  taken'[v] + Cardinality(Retrying(v)')
                          <= settled'[v] + retried'[v]
    BY DEF RetryInv
  <1>2. Retrying(v)' \subseteq Retrying(v)
    <2>1. [h EXCEPT !.stage = "removed"].stage = "removed"
      BY DEF TypeInv, HoldTyped, Hold
    <2>. QED
      BY <1>1, <2>1 DEF Retrying, At
  <1>3. /\ IsFiniteSet(Retrying(v)) /\ Cardinality(Retrying(v)) \in Nat
        /\ taken[v] \in Nat /\ settled[v] \in Nat /\ retried[v] \in Nat
    BY RetryNumbers
  <1>4. IsFiniteSet(Retrying(v)')
    BY <1>2, <1>3, FS_Subset
  <1>5. /\ Cardinality(Retrying(v)') <= Cardinality(Retrying(v))
        /\ Cardinality(Retrying(v)') \in Nat
    BY <1>2, <1>3, <1>4, FS_Subset, FS_CardinalityType
  <1>6. /\ h.val \in Vals /\ One(v, h.val) \in Nat
        /\ settled \in [Vals -> Nat] /\ taken \in [Vals -> Nat]
    BY DEF TypeInv, HoldTyped, Hold, One, CountTyped
  <1>7. /\ Plus(settled, h.val)[v] = settled[v] + One(v, h.val)
        /\ Plus(taken, h.val)[v] = taken[v] + One(v, h.val)
    BY <1>6, PlusOne
  <1>8. taken'[v] = taken[v] \/ taken'[v] = taken[v] + One(v, h.val)
    BY <1>1, <1>7
  <1>9. settled'[v] = settled[v] + One(v, h.val) /\ retried'[v] = retried[v]
    BY <1>1, <1>7
  <1>10. taken[v] + Cardinality(Retrying(v)) <= settled[v] + retried[v]
    BY DEF RetryInv
  <1> HIDE DEF Retrying, One
  <1>. QED
    BY <1>3, <1>5, <1>6, <1>8, <1>9, <1>10

\* The push of a retry makes room for its LREM.
LEMMA PushRetry ==
    ASSUME TypeInv, RetryInv, NEW h \in holds, Retry(h)
    PROVE  RetryInv'
  <1>1. /\ holds' = At(h, "retrying") /\ taken' = taken /\ settled' = settled
        /\ retried' = Plus(retried, h.val)
    BY DEF Retry
  <1> DEFINE next == [h EXCEPT !.stage = "retrying"]
  <1>2. h.val \in Vals /\ next.val = h.val /\ retried \in [Vals -> Nat]
    BY DEF TypeInv, HoldTyped, Hold, CountTyped
  <1> SUFFICES ASSUME NEW v \in Vals
               PROVE  taken'[v] + Cardinality(Retrying(v)')
                          <= settled'[v] + retried'[v]
    BY DEF RetryInv
  <1>3. /\ IsFiniteSet(Retrying(v)) /\ Cardinality(Retrying(v)) \in Nat
        /\ taken[v] \in Nat /\ settled[v] \in Nat /\ retried[v] \in Nat
    BY RetryNumbers
  <1>4. taken[v] + Cardinality(Retrying(v)) <= settled[v] + retried[v]
    BY DEF RetryInv
  <1>5. retried'[v] = retried[v] + One(v, h.val)
    BY <1>1, <1>2, PlusOne
  <1>6. CASE v = h.val
    <2>1. Retrying(v)' \subseteq Retrying(v) \cup {next}
      BY <1>1 DEF Retrying, At
    <2>2. /\ IsFiniteSet(Retrying(v) \cup {next})
          /\ Cardinality(Retrying(v) \cup {next})
                 <= Cardinality(Retrying(v)) + 1
          /\ Cardinality(Retrying(v) \cup {next}) \in Nat
      <3> HIDE DEF next
      <3>1. IsFiniteSet(Retrying(v) \cup {next})
        BY <1>3, FS_AddElement
      <3>2. \/ Cardinality(Retrying(v) \cup {next}) = Cardinality(Retrying(v))
            \/ Cardinality(Retrying(v) \cup {next})
                   = Cardinality(Retrying(v)) + 1
        BY <1>3, FS_AddElement
      <3>. QED
        BY <1>3, <3>1, <3>2
    <2>3. /\ IsFiniteSet(Retrying(v)')
          /\ Cardinality(Retrying(v)') <= Cardinality(Retrying(v) \cup {next})
      BY <2>1, <2>2, FS_Subset
    <2>4. Cardinality(Retrying(v)') \in Nat
      BY <2>3, FS_CardinalityType
    <2>5. retried'[v] = retried[v] + 1 /\ taken'[v] = taken[v]
          /\ settled'[v] = settled[v]
      BY <1>1, <1>5, <1>6 DEF One
    <2> HIDE DEF Retrying, next
    <2>. QED
      BY <1>3, <1>4, <2>2, <2>3, <2>4, <2>5
  <1>7. CASE v # h.val
    <2>1. Retrying(v)' \subseteq Retrying(v)
      BY <1>1, <1>2, <1>7 DEF Retrying, At
    <2>2. /\ Cardinality(Retrying(v)') <= Cardinality(Retrying(v))
          /\ IsFiniteSet(Retrying(v)')
      BY <1>3, <2>1, FS_Subset
    <2>3. Cardinality(Retrying(v)') \in Nat
      BY <2>2, FS_CardinalityType
    <2>4. retried'[v] = retried[v] /\ taken'[v] = taken[v]
          /\ settled'[v] = settled[v]
      BY <1>1, <1>3, <1>5, <1>7 DEF One
    <2>. QED
      BY <1>3, <1>4, <2>2, <2>3, <2>4
  <1>. QED
    BY <1>6, <1>7

\* The LREM of a retry uses the room its push made.
LEMMA RemoveRetry ==
    ASSUME TypeInv, RetryInv, NEW h \in holds, RemoveRetried(h)
    PROVE  RetryInv'
  <1>1. /\ holds' = At(h, "removed") /\ retried' = retried
        /\ settled' = settled /\ h.stage = "retrying"
        /\ taken' = taken \/ taken' = Plus(taken, h.val)
    BY DEF RemoveRetried, Remove
  <1>2. h.val \in Vals /\ taken \in [Vals -> Nat]
    BY DEF TypeInv, HoldTyped, Hold, CountTyped
  <1> SUFFICES ASSUME NEW v \in Vals
               PROVE  taken'[v] + Cardinality(Retrying(v)')
                          <= settled'[v] + retried'[v]
    BY DEF RetryInv
  <1>3. /\ IsFiniteSet(Retrying(v)) /\ Cardinality(Retrying(v)) \in Nat
        /\ taken[v] \in Nat /\ settled[v] \in Nat /\ retried[v] \in Nat
    BY RetryNumbers
  <1>4. taken[v] + Cardinality(Retrying(v)) <= settled[v] + retried[v]
    BY DEF RetryInv
  <1>5. Retrying(v)' \subseteq Retrying(v) \ {h}
    <2>1. [h EXCEPT !.stage = "removed"].stage = "removed"
      BY DEF TypeInv, HoldTyped, Hold
    <2>. QED
      BY <1>1, <2>1 DEF Retrying, At
  <1>6. taken'[v] = taken[v] \/ taken'[v] = taken[v] + One(v, h.val)
    BY <1>1, <1>2, PlusOne
  <1>7. settled'[v] = settled[v] /\ retried'[v] = retried[v]
    BY <1>1
  <1>8. IsFiniteSet(Retrying(v) \ {h})
    BY <1>3, FS_Subset
  <1>9. /\ Cardinality(Retrying(v)') <= Cardinality(Retrying(v) \ {h})
        /\ IsFiniteSet(Retrying(v)')
    BY <1>5, <1>8, FS_Subset
  <1>10. Cardinality(Retrying(v)') \in Nat
    BY <1>9, FS_CardinalityType
  <1>11. CASE v = h.val
    <2>1. h \in Retrying(v)
      BY <1>1, <1>11 DEF Retrying
    <2>2. Cardinality(Retrying(v) \ {h}) = Cardinality(Retrying(v)) - 1
      BY <1>3, <2>1, FS_RemoveElement
    <2>3. taken'[v] = taken[v] \/ taken'[v] = taken[v] + 1
      BY <1>6, <1>11 DEF One
    <2> HIDE DEF Retrying
    <2>. QED
      BY <1>3, <1>4, <1>7, <1>9, <1>10, <2>2, <2>3
  <1>12. CASE v # h.val
    <2>1. taken'[v] = taken[v]
      BY <1>3, <1>6, <1>12 DEF One
    <2>2. /\ Cardinality(Retrying(v) \ {h}) <= Cardinality(Retrying(v))
          /\ Cardinality(Retrying(v) \ {h}) \in Nat
      BY <1>3, <1>8, FS_Subset, FS_CardinalityType
    <2> HIDE DEF Retrying
    <2>. QED
      BY <1>3, <1>4, <1>7, <1>9, <1>10, <2>1, <2>2
  <1>. QED
    BY <1>11, <1>12

LEMMA RetryStep ==
    ASSUME TypeInv, RetryInv, [Next]_vars PROVE RetryInv'
  <1>1. CASE UNCHANGED vars
    BY <1>1, RetryQuiet DEF vars, history
  <1>2. ASSUME NEW v \in Vals, Push(v) PROVE RetryInv'
    BY <1>2, RetryQuiet DEF Push
  <1>3. ASSUME NEW c \in DOMAIN tracked, Age(c) PROVE RetryInv'
    BY <1>3, RetryQuiet DEF Age, history
  <1>4. CASE Expire
    BY <1>4, RetryQuiet DEF Expire
  <1>5. ASSUME NEW s \in Subs,
               \/ Read(s) \/ MoveFails(s) \/ TrackNext(s, FALSE) \/ Shutdown(s)
        PROVE  RetryInv'
    <2>1. CASE Track(s) \/ Yield(s)
      <3>1. UNCHANGED <<taken, settled, retried>>
        BY <2>1 DEF Track, Yield, history
      <3>2. PICK e : holds' = holds \cup {Delivery(s, e)}
        BY <2>1 DEF Track, Yield
      <3>3. Delivery(s, e).stage # "retrying"
        BY DEF Delivery
      <3>. QED
        BY <3>1, <3>2, <3>3, RetryQuiet
    <2>2. CASE ~(Track(s) \/ Yield(s))
      <3>1. UNCHANGED <<holds, taken, settled, retried>>
        BY <1>5, <2>2
        DEF Read, ListDue, TakeOff, PushBack, ForgetDue, SweepEnds, Pop,
            PopTimesOut, Move, MovesEnd, TrackNext, MoveFails, Shutdown, history
      <3>. QED
        BY <3>1, RetryQuiet
    <2>. QED
      BY <2>1, <2>2
  <1>6. ASSUME NEW s \in Subs, Crash(s) \/ ReadFails(s) \/ Exit(s)
        PROVE  RetryInv'
    <2>1. /\ UNCHANGED <<taken, settled, retried>>
          /\ holds' \subseteq holds
      BY <1>6 DEF Crash, ReadFails, Exit, ProcessEnds, Gone
    <2>. QED
      BY <2>1, RetryQuiet
  <1>7. ASSUME NEW h \in holds, NEW stage \in {"acked", "nacked", "removed"},
               UNCHANGED <<taken, settled, retried>>, holds' = At(h, stage)
        PROVE  RetryInv'
    <2>1. [h EXCEPT !.stage = stage].stage # "retrying"
      BY DEF TypeInv, HoldTyped, Hold
    <2>. QED
      BY <1>7, <2>1, RetryQuiet DEF At
  <1>8. ASSUME NEW h \in holds,
               Decide(h, "acked") \/ Decide(h, "nacked") \/ RemoveFails(h)
        PROVE  RetryInv'
    BY <1>7, <1>8 DEF Decide, RemoveFails, history
  <1>9. ASSUME NEW h \in holds, Forget(h) \/ SettleRefused(h) \/ SettleFails(h)
        PROVE  RetryInv'
    <2>1. /\ UNCHANGED <<taken, settled, retried>>
          /\ holds' \subseteq holds
      BY <1>9 DEF Forget, SettleRefused, SettleFails, Leave, history
    <2>. QED
      BY <2>1, RetryQuiet
  <1>10. ASSUME NEW h \in holds,
               \/ Verdict(h) \/ Decide(h, "nacked") \/ Retry(h)
               \/ SettleFails(h) \/ RemoveFails(h)
        PROVE  RetryInv'
    BY <1>8, <1>9, <1>10, AckRetry, PushRetry, RemoveRetry DEF Verdict
  <1>. QED
    BY <1>1, <1>2, <1>3, <1>4, <1>5, <1>6, <1>10 DEF Next

LEMMA InitRetry == Init => RetryInv
  <1> SUFFICES ASSUME Init, NEW v \in Vals
               PROVE  taken[v] + Cardinality(Retrying(v))
                          <= settled[v] + retried[v]
    BY DEF RetryInv
  <1>1. taken[v] = 0 /\ settled[v] = 0 /\ retried[v] = 0
    BY DEF Init, Zero
  <1>2. Retrying(v) = {}
    BY DEF Init, Retrying
  <1>3. Cardinality(Retrying(v)) = 0
    BY <1>2, FS_EmptySet
  <1>. QED
    BY <1>1, <1>3

LEMMA RetriesAreCopied ==
    TypeInv /\ Conserved /\ RetryInv => AtLeastOnce
  <1> SUFFICES ASSUME TypeInv, Conserved, RetryInv, NEW v \in Vals
               PROVE  pushed[v] <= OnQueue(v) + processing[v] + Returning(v)
                                   + dropped[v] + settled[v]
    BY DEF AtLeastOnce
  <1>1. /\ pushed[v] \in Nat /\ retried[v] \in Nat /\ OnQueue(v) \in Nat
        /\ processing[v] \in Nat /\ Returning(v) \in Nat
        /\ dropped[v] \in Nat /\ taken[v] \in Nat /\ settled[v] \in Nat
    BY Numbers
  <1>2. Cardinality(Retrying(v)) \in Nat
    BY RetryNumbers
  <1>3. pushed[v] + retried[v] =
            OnQueue(v) + processing[v] + Returning(v) + dropped[v] + taken[v]
    BY DEF Conserved
  <1>4. taken[v] + Cardinality(Retrying(v)) <= settled[v] + retried[v]
    BY DEF RetryInv
  <1> HIDE DEF Retrying
  <1>. QED
    BY ONLY <1>1, <1>2, <1>3, <1>4

(* No value is handled less often than it was pushed, whatever verdict     *)
(* takes off whose occurrence: the sum of the two ledgers above            *)
(* (list.rs:1122-1160).                                                    *)
THEOREM HandledAtLeastOnce == Spec => []AtLeastOnce
  <1>1. TypeInv /\ RetryInv /\ [Next]_vars => RetryInv'
    BY RetryStep
  <1>2. Spec => []RetryInv
    BY InitRetry, <1>1, TypesHold, PTL DEF Spec
  <1>. QED
    BY <1>2, RetriesAreCopied, NothingIsLostOrDoubled, TypesHold, PTL

-----------------------------------------------------------------------------
(* Places, and the disjoint union of sets of them.                         *)

In(x, S) == IF x \in S THEN 1 ELSE 0

LEMMA PlacesNone ==
    ASSUME NEW S PROVE Places(<<>>, S) = {} /\ Times(<<>>, S) = 0
  <1>1. Places(<<>>, S) = {}
    BY DEF Places
  <1>. QED
    BY <1>1, FS_EmptySet DEF Times

LEMMA TimesAppend ==
    ASSUME NEW T, NEW q \in Seq(T), NEW x \in T, NEW S
    PROVE  Times(Append(q, x), S) = Times(q, S) + In(x, S)
  <1> DEFINE r == Append(q, x)
             n == Len(q) + 1
  <1>1. /\ Len(q) \in Nat /\ DOMAIN q = 1..Len(q) /\ r \in Seq(T)
        /\ Len(r) = Len(q) + 1
        /\ r[n] = x /\ \A k \in 1..Len(q) : r[k] = q[k]
    BY LenProperties, AppendProperties
  <1>2. DOMAIN r = 1..n
    BY <1>1, LenProperties
  <1>3. IsFiniteSet(Places(q, S)) /\ Cardinality(Places(q, S)) \in Nat
    BY TimesType DEF Times
  <1> HIDE DEF r
  <1>4. n \notin Places(q, S)
    BY <1>1 DEF Places
  <1>5. Places(r, S) = IF x \in S THEN Places(q, S) \cup {n} ELSE Places(q, S)
    BY <1>1, <1>2 DEF Places
  <1>6. Cardinality(Places(r, S)) = Cardinality(Places(q, S)) + In(x, S)
    <2> HIDE DEF n
    <2>1. CASE x \in S
      BY <1>3, <1>4, <1>5, <2>1, FS_AddElement DEF In
    <2>2. CASE x \notin S
      BY <1>3, <1>5, <2>2 DEF In
    <2>. QED
      BY <2>1, <2>2
  <1>. QED
    BY <1>6 DEF Times, r

LEMMA TimesTail ==
    ASSUME NEW T, NEW q \in Seq(T), q # <<>>, NEW S
    PROVE  Times(q, S) = Times(Tail(q), S) + In(Head(q), S)
  <1> DEFINE r == Tail(q)
             old == Places(r, S)
             shifted == {k \in DOMAIN q : k > 1 /\ q[k] \in S}
  <1>1. /\ r \in Seq(T) /\ Len(q) \in Nat \ {0} /\ Len(r) = Len(q) - 1
        /\ DOMAIN q = 1..Len(q) /\ DOMAIN r = 1..Len(q) - 1
        /\ Head(q) = q[1] /\ \A k \in 1..Len(q) - 1 : r[k] = q[k + 1]
    <2>1. r \in Seq(T) /\ Len(q) \in Nat /\ Len(q) # 0 /\ DOMAIN q = 1..Len(q)
      BY HeadTailProperties, LenProperties, EmptySeq
    <2>2. Len(r) = Len(q) - 1 /\ \A k \in 1..Len(r) : r[k] = q[k + 1]
      BY HeadTailProperties, <2>1
    <2>3. DOMAIN r = 1..Len(r)
      BY <2>1, LenProperties
    <2>4. Head(q) = q[1]
      OBVIOUS
    <2>. QED
      BY <2>1, <2>2, <2>3, <2>4
  <1>2. IsFiniteSet(old) /\ Cardinality(old) \in Nat
    BY <1>1, TimesType DEF Times
  <1> HIDE DEF r
  <1>3. Cardinality(shifted) = Cardinality(old) /\ IsFiniteSet(shifted)
    <2> DEFINE f == [k \in old |-> k + 1]
    <2>1. old \subseteq Nat /\ shifted \subseteq Nat
      BY <1>1 DEF Places
    <2>2. \A k \in old : f[k] \in shifted
      BY <1>1 DEF Places
    <2>3. \A j, k \in old : f[j] = f[k] => j = k
      BY <2>1
    <2>4. ASSUME NEW j \in shifted PROVE \E k \in old : f[k] = j
      <3>1. j - 1 \in 1..Len(q) - 1 /\ j - 1 + 1 = j
        BY <1>1
      <3>2. j - 1 \in old
        BY <1>1, <3>1 DEF Places
      <3>. QED
        BY <3>1, <3>2
    <2>5. f \in Bijection(old, shifted)
      <3>1. f \in [old -> shifted]
        BY <2>2
      <3> HIDE DEF f, old, shifted
      <3>. QED
        BY <2>3, <2>4, <3>1 DEF Bijection, Injection, Surjection, IsInjective
    <2> HIDE DEF f, old, shifted
    <2>. QED
      BY <1>2, <2>5, FS_Bijection DEF ExistsBijection
  <1>4. Places(q, S) = IF Head(q) \in S THEN shifted \cup {1} ELSE shifted
    BY <1>1 DEF Places
  <1>5. 1 \notin shifted
    OBVIOUS
  <1> HIDE DEF shifted, old
  <1>6. Cardinality(Places(q, S)) = Cardinality(old) + In(Head(q), S)
    <2>1. CASE Head(q) \in S
      BY <1>2, <1>3, <1>4, <1>5, <2>1, FS_AddElement DEF In
    <2>2. CASE Head(q) \notin S
      BY <1>2, <1>3, <1>4, <2>2 DEF In
    <2>. QED
      BY <2>1, <2>2
  <1>. QED
    BY <1>6 DEF r, old, Times

\* The disjoint union when one of its sets changes.
LEMMA PairsChange ==
    ASSUME NEW f, NEW g, DOMAIN g = DOMAIN f, NEW s \in DOMAIN f,
           \A x \in DOMAIN f : x # s => g[x] = f[x],
           IsFiniteSet(Pairs(f)), IsFiniteSet(f[s]), IsFiniteSet(g[s])
    PROVE  /\ IsFiniteSet(Pairs(g)) /\ Cardinality(Pairs(f)) \in Nat
           /\ Cardinality(Pairs(g)) \in Nat
           /\ Cardinality(f[s]) \in Nat /\ Cardinality(g[s]) \in Nat
           /\ Cardinality(Pairs(g)) + Cardinality(f[s])
                = Cardinality(Pairs(f)) + Cardinality(g[s])
  <1> DEFINE rest == UNION {{x} \X f[x] : x \in DOMAIN f \ {s}}
  <1>1. Pairs(f) = rest \cup ({s} \X f[s])
    BY DEF Pairs
  <1>2. Pairs(g) = rest \cup ({s} \X g[s])
    BY DEF Pairs
  <1>3. rest \cap ({s} \X f[s]) = {} /\ rest \cap ({s} \X g[s]) = {}
    OBVIOUS
  <1> HIDE DEF rest
  <1>4. IsFiniteSet(rest)
    BY <1>1, FS_Subset
  <1>5. ASSUME NEW A, IsFiniteSet(A), rest \cap ({s} \X A) = {}
        PROVE  /\ IsFiniteSet(rest \cup ({s} \X A))
               /\ Cardinality(rest \cup ({s} \X A))
                    = Cardinality(rest) + Cardinality(A)
    <2>1. IsFiniteSet({s}) /\ Cardinality({s}) = 1
      BY FS_Singleton
    <2>2. IsFiniteSet({s} \X A)
          /\ Cardinality({s} \X A) = Cardinality({s}) * Cardinality(A)
      BY <1>5, <2>1, FS_Product
    <2>3. Cardinality(A) \in Nat
      BY <1>5, FS_CardinalityType
    <2>4. Cardinality({s} \X A) = Cardinality(A)
      BY <2>1, <2>2, <2>3
    <2>5. IsFiniteSet(rest \cup ({s} \X A))
          /\ Cardinality(rest \cup ({s} \X A))
               = Cardinality(rest) + Cardinality({s} \X A)
                   - Cardinality(rest \cap ({s} \X A))
      BY <1>4, <2>2, FS_Union
    <2>6. Cardinality(rest \cap ({s} \X A)) = 0
      BY <1>5, FS_EmptySet
    <2>7. Cardinality(rest) \in Nat
      BY <1>4, FS_CardinalityType
    <2>. QED
      BY <2>3, <2>4, <2>5, <2>6, <2>7
  <1>6. /\ Cardinality(Pairs(f)) = Cardinality(rest) + Cardinality(f[s])
        /\ Cardinality(Pairs(g)) = Cardinality(rest) + Cardinality(g[s])
        /\ IsFiniteSet(Pairs(g))
    BY <1>1, <1>2, <1>3, <1>5
  <1>7. /\ Cardinality(rest) \in Nat /\ Cardinality(f[s]) \in Nat
        /\ Cardinality(g[s]) \in Nat
    BY <1>4, FS_CardinalityType
  <1>. QED
    BY <1>6, <1>7

-----------------------------------------------------------------------------
(* Where a read may be with a buffer, and who reads one entry at a time.   *)

Place(s) ==
    /\ pc[s] \notin {"read", "track"} => buffer[s] = <<>>
    /\ ~Pipelined(s) => pc[s] \notin {"moves", "lost"} /\ Len(mine[s]) <= 1
PlaceInv == \A s \in Subs : Place(s)

\* A step of s leaves the other reads where they are.
OthersStay(s) == \A r \in Subs \ {s} :
    pc'[r] = pc[r] /\ mine'[r] = mine[r] /\ buffer'[r] = buffer[r]

LEMMA PlaceOf ==
    ASSUME PlaceInv, NEW s \in Subs, UNCHANGED load, OthersStay(s), Place(s)'
    PROVE  PlaceInv'
  <1> SUFFICES ASSUME NEW r \in Subs PROVE Place(r)'
    BY DEF PlaceInv
  <1>1. CASE r = s
    BY <1>1
  <1>2. CASE r # s
    BY <1>2 DEF PlaceInv, Place, OthersStay, Pipelined
  <1>. QED
    BY <1>1, <1>2

LEMMA PlaceStays ==
    ASSUME PlaceInv, UNCHANGED <<load, pc, mine, buffer>> PROVE PlaceInv'
  BY DEF PlaceInv, Place, Pipelined

LEMMA InitPlace == Init => PlaceInv
  <1> SUFFICES ASSUME Init, NEW s \in Subs PROVE Place(s)
    BY DEF PlaceInv
  <1>1. pc[s] = "read" /\ mine[s] = <<>> /\ buffer[s] = <<>>
    BY DEF Init
  <1>2. Len(mine[s]) = 0
    BY <1>1, EmptySeq
  <1>. QED
    BY <1>1, <1>2 DEF Place

LEMMA ReadPlace ==
    ASSUME TypeInv, PlaceInv, NEW s \in Subs,
           \/ ListDue(s) \/ TakeOff(s) \/ PushBack(s) \/ ForgetDue(s)
           \/ SweepEnds(s) \/ Pop(s) \/ PopTimesOut(s) \/ Track(s) \/ Yield(s)
    PROVE  PlaceInv'
  <1>1. /\ UNCHANGED load /\ OthersStay(s)
    BY ReadTypes DEF ListDue, TakeOff, PushBack, ForgetDue, SweepEnds, Pop,
        PopTimesOut, Track, Yield, OthersStay
  <1>2. Place(s) /\ (Pipelined(s)' <=> Pipelined(s))
    BY <1>1 DEF PlaceInv, Pipelined
  <1>3. Handful(s) /\ pc[s] \in ReadPc
    BY ReadTypes
  <1>4. ASSUME NEW e PROVE Len(<<e>>) <= 1
    OBVIOUS
  <1>5. Len(<<>>) = 0
    BY EmptySeq
  <1>6. Place(s)'
    <2>1. CASE ListDue(s)
      BY <1>2, <2>1, ReadTypes DEF ListDue, Place
    <2>2. CASE TakeOff(s)
      <3>1. /\ pc[s] = "sweep" /\ buffer' = buffer
            /\ pc'[s] \in {"push", "forget"}
        BY <2>2, ReadTypes DEF TakeOff
      <3> DEFINE v == Head(due[s]).val
      <3>2. mine'[s] = <<>> \/ mine'[s] = <<v>>
        BY <1>3, <2>2, ReadTypes DEF TakeOff, Handful
      <3> HIDE DEF v
      <3>3. Len(mine'[s]) <= 1
        <4>1. Len(<<v>>) <= 1
          BY <1>4
        <4>2. CASE mine'[s] = <<>>
          BY <1>5, <4>2
        <4>3. CASE mine'[s] = <<v>>
          BY <4>1, <4>3
        <4>. QED
          BY <3>2, <4>2, <4>3
      <3>4. buffer'[s] = <<>>
        BY <3>1 DEF PlaceInv, Place
      <3>. QED
        BY <3>1, <3>3, <3>4 DEF Place
    <2>3. CASE PushBack(s) \/ ForgetDue(s) \/ SweepEnds(s) \/ PopTimesOut(s)
      BY <1>2, <1>5, <2>3, ReadTypes
      DEF PushBack, ForgetDue, SweepEnds, PopTimesOut, Place
    <2>4. CASE Pop(s)
      BY <1>2, <1>4, <2>4, ReadTypes DEF Pop, Place
    <2>5. CASE Track(s)
      <3>1. pc'[s] = "read" /\ mine'[s] = <<>>
        BY <2>5, ReadTypes DEF Track
      <3>. QED
        BY <1>5, <3>1 DEF Place
    <2>6. CASE Yield(s)
      BY <1>2, <2>6 DEF Yield, Place
    <2>. QED
      BY <1>1, <2>1, <2>2, <2>3, <2>4, <2>5, <2>6
  <1>. QED
    BY <1>1, <1>6, PlaceOf

LEMMA MovePlace ==
    ASSUME TypeInv, PlaceInv, NEW s \in Subs,
           \/ Move(s) \/ MoveFails(s) \/ MovesEnd(s)
           \/ TrackNext(s, TRUE) \/ TrackNext(s, FALSE)
    PROVE  PlaceInv'
  <1>1. /\ UNCHANGED load /\ OthersStay(s)
    BY ReadTypes DEF Move, MoveFails, MovesEnd, TrackNext, OthersStay
  <1>2. Place(s) /\ (Pipelined(s)' <=> Pipelined(s))
    BY <1>1 DEF PlaceInv, Pipelined
  <1>3. Pipelined(s)
    BY <1>2 DEF Move, MoveFails, MovesEnd, TrackNext, Place
  <1>4. Place(s)'
    <2>1. CASE Move(s) \/ MoveFails(s)
      <3>1. buffer'[s] = <<>>
        BY <1>2, <2>1 DEF Move, MoveFails, Place
      <3>. QED
        BY <1>2, <1>3, <3>1 DEF Place
    <2>2. CASE MovesEnd(s)
      <3>1. pc'[s] \in {"read", "track"}
            \/ (pc'[s] = "pop" /\ buffer'[s] = <<>>)
        BY <1>2, <2>2, ReadTypes DEF MovesEnd, Place
      <3>. QED
        BY <1>2, <1>3, <3>1 DEF Place
    <2>3. CASE TrackNext(s, TRUE) \/ TrackNext(s, FALSE)
      <3>1. pc'[s] \in {"read", "track"}
        BY <2>3, ReadTypes DEF TrackNext
      <3>. QED
        BY <1>2, <1>3, <3>1 DEF Place
    <2>. QED
      BY <2>1, <2>2, <2>3
  <1>. QED
    BY <1>1, <1>4, PlaceOf

LEMMA EndPlace ==
    ASSUME TypeInv, PlaceInv, NEW s \in Subs,
           ReadFails(s) \/ Crash(s) \/ Exit(s)
    PROVE  PlaceInv'
  <1>1. /\ pc' = [pc EXCEPT ![s] = "read"]
        /\ mine' = [mine EXCEPT ![s] = <<>>]
        /\ buffer' = [buffer EXCEPT ![s] = <<>>] /\ UNCHANGED load
    BY DEF ReadFails, Crash, Exit, ProcessEnds, Gone
  <1>2. OthersStay(s) /\ pc'[s] = "read" /\ mine'[s] = <<>>
    BY <1>1, ReadTypes DEF OthersStay
  <1>3. Place(s)'
    BY <1>2, EmptySeq DEF Place
  <1>. QED
    BY <1>1, <1>2, <1>3, PlaceOf

LEMMA PlaceStep ==
    ASSUME TypeInv, PlaceInv, [Next]_vars PROVE PlaceInv'
  <1>1. CASE UNCHANGED vars
    BY <1>1, PlaceStays DEF vars, reader
  <1>2. CASE \/ \E v \in Vals : Push(v)
             \/ \E c \in DOMAIN tracked : Age(c)
             \/ Expire
    BY <1>2, PlaceStays DEF Push, Age, Expire, reader
  <1>3. ASSUME NEW s \in Subs,
               \/ Read(s) \/ Crash(s) \/ ReadFails(s) \/ Exit(s) \/ Shutdown(s)
               \/ MoveFails(s) \/ TrackNext(s, FALSE)
        PROVE  PlaceInv'
    <2>1. CASE Shutdown(s)
      BY <2>1, PlaceStays DEF Shutdown, reader
    <2>. QED
      BY <1>3, <2>1, ReadPlace, MovePlace, EndPlace DEF Read
  <1>4. ASSUME NEW h \in holds,
               \/ Verdict(h) \/ Decide(h, "nacked") \/ Retry(h)
               \/ SettleFails(h) \/ RemoveFails(h)
        PROVE  PlaceInv'
    BY <1>4, PlaceStays
    DEF Verdict, Decide, Ack, RemoveRetried, Remove, Forget, Retry,
        SettleRefused, SettleFails, Leave, RemoveFails, reader
  <1>. QED
    BY <1>1, <1>2, <1>3, <1>4 DEF Next

-----------------------------------------------------------------------------
(* Claims: each is at one delivery or in one buffer, and its record, if it  *)
(* has one, is of the same value.                                           *)

Agrees(e) ==
    IF e.recorded
    THEN e.claim \in DOMAIN tracked => tracked[e.claim].val = e.val
    ELSE e.claim \notin DOMAIN tracked
Given(e) == e.claim \in 1..claims

HoldsClaim ==
    /\ \A h \in holds : Agrees(h) /\ Given(h)
    /\ \A g, h \in holds : g.claim = h.claim => g = h
BuffersClaim ==
    /\ \A s \in Subs : \A e \in Range(buffer[s]) : Agrees(e) /\ Given(e)
    /\ \A s \in Subs : \A j, k \in DOMAIN buffer[s] :
          buffer[s][j].claim = buffer[s][k].claim => j = k
    /\ \A r, s \in Subs : r # s =>
          \A e \in Range(buffer[r]), f \in Range(buffer[s]) : e.claim # f.claim
    /\ \A s \in Subs : \A e \in Range(buffer[s]), h \in holds :
          e.claim # h.claim
DueClaim ==
    \A s \in Subs : \A e \in Range(due[s]) :
        e.claim \in DOMAIN tracked => tracked[e.claim].val = e.val
ClaimInv == HoldsClaim /\ BuffersClaim /\ DueClaim

LEMMA RangeEmpty == Range(<<>>) = {}
  BY DEF Range

LEMMA RangeAppend ==
    ASSUME NEW T, NEW q \in Seq(T), NEW x \in T
    PROVE  /\ Range(Append(q, x)) = Range(q) \cup {x}
           /\ DOMAIN Append(q, x) = DOMAIN q \cup {Len(q) + 1}
           /\ Len(q) \in Nat /\ DOMAIN q = 1..Len(q)
           /\ Append(q, x)[Len(q) + 1] = x
           /\ \A k \in DOMAIN q : Append(q, x)[k] = q[k]
  <1> DEFINE r == Append(q, x)
  <1>1. /\ Len(q) \in Nat /\ DOMAIN q = 1..Len(q) /\ r \in Seq(T)
        /\ Len(r) = Len(q) + 1
        /\ r[Len(q) + 1] = x /\ \A k \in 1..Len(q) : r[k] = q[k]
    BY LenProperties, AppendProperties
  <1>2. DOMAIN r = 1 .. Len(q) + 1
    BY <1>1, LenProperties
  <1> HIDE DEF r
  <1>3. DOMAIN r = DOMAIN q \cup {Len(q) + 1}
    BY <1>1, <1>2
  <1>4. Range(r) = Range(q) \cup {x}
    BY <1>1, <1>3 DEF Range
  <1>. QED
    BY <1>1, <1>3, <1>4 DEF r

LEMMA RangeTail ==
    ASSUME NEW T, NEW q \in Seq(T), q # <<>>
    PROVE  /\ Head(q) \in Range(q) /\ Head(q) = q[1] /\ 1 \in DOMAIN q
           /\ Range(Tail(q)) \subseteq Range(q)
           /\ \A k \in DOMAIN Tail(q) :
                 k \in Nat /\ k > 0 /\ k + 1 \in DOMAIN q /\ Tail(q)[k] = q[k + 1]
  <1> DEFINE r == Tail(q)
  <1>1. r \in Seq(T) /\ Len(q) \in Nat /\ Len(q) # 0 /\ DOMAIN q = 1..Len(q)
    BY HeadTailProperties, LenProperties, EmptySeq
  <1>2. Len(r) = Len(q) - 1 /\ \A k \in 1..Len(r) : r[k] = q[k + 1]
    BY HeadTailProperties, <1>1
  <1>3. DOMAIN r = 1..Len(r)
    BY <1>1, LenProperties
  <1>4. Head(q) = q[1] /\ 1 \in DOMAIN q
    BY <1>1
  <1> HIDE DEF r
  <1>5. \A k \in DOMAIN r :
           k \in Nat /\ k > 0 /\ k + 1 \in DOMAIN q /\ r[k] = q[k + 1]
    BY <1>1, <1>2, <1>3
  <1>6. Range(r) \subseteq Range(q)
    BY <1>5 DEF Range
  <1>7. Head(q) \in Range(q)
    BY <1>4 DEF Range
  <1>. QED
    BY <1>4, <1>5, <1>6, <1>7 DEF r

\* A step that makes no claim and no record.
LEMMA ClaimsShrink ==
    ASSUME TypeInv, ClaimInv, claims' \in Nat, claims <= claims',
           DOMAIN tracked' \subseteq DOMAIN tracked,
           \A c \in DOMAIN tracked' : tracked'[c].val = tracked[c].val,
           \A s \in Subs : Range(due'[s]) \subseteq Range(due[s]),
           \A s \in Subs : buffer'[s] = buffer[s] \/ buffer'[s] = <<>>,
           \A h \in holds' : \E g \in holds :
              h.claim = g.claim /\ h.val = g.val /\ h.recorded = g.recorded,
           \A g, h \in holds' : g.claim = h.claim => g = h
    PROVE  ClaimInv'
  <1>1. claims \in Nat /\ DOMAIN tracked \subseteq 1..claims
    BY DEF TypeInv, RecordTyped
  <1>2. \A s \in Subs : \A e \in Range(buffer[s]) : e.claim \in Nat
    <2>1. ASSUME NEW s \in Subs, NEW e \in Range(buffer[s])
          PROVE  e.claim \in Nat
      <3>1. buffer[s] \in Seq(Claimed)
        BY DEF TypeInv, BufferTyped
      <3>2. e \in Claimed
        BY <2>1, <3>1, ElementOfSeq, LenProperties DEF Range
      <3>. QED
        BY <3>2 DEF Claimed
    <2>. QED
      BY <2>1
  <1>3. \A h \in holds : h.claim \in Nat
    BY DEF TypeInv, HoldTyped, Hold
  <1>4. HoldsClaim'
    <2>1. ASSUME NEW h \in holds' PROVE Agrees(h)' /\ Given(h)'
      <3>1. PICK g \in holds :
                 h.claim = g.claim /\ h.val = g.val /\ h.recorded = g.recorded
        OBVIOUS
      <3>2. Agrees(g) /\ Given(g)
        BY DEF ClaimInv, HoldsClaim
      <3>3. Agrees(h)'
        BY <3>1, <3>2 DEF Agrees
      <3>4. Given(h)'
        BY <1>1, <1>3, <3>1, <3>2 DEF Given
      <3>. QED
        BY <3>3, <3>4
    <2>. QED
      BY <2>1 DEF HoldsClaim
  <1>5. \A s \in Subs : Range(buffer'[s]) \subseteq Range(buffer[s])
    BY RangeEmpty
  <1>6. BuffersClaim'
    <2>1. ASSUME NEW s \in Subs, NEW e \in Range(buffer'[s])
          PROVE  Agrees(e)' /\ Given(e)'
      <3>1. Agrees(e) /\ Given(e) /\ e.claim \in Nat
        BY <1>2, <1>5, <2>1 DEF ClaimInv, BuffersClaim
      <3>2. Agrees(e)'
        BY <3>1 DEF Agrees
      <3>3. Given(e)'
        BY <1>1, <3>1 DEF Given
      <3>. QED
        BY <3>2, <3>3
    <2>2. ASSUME NEW s \in Subs, NEW j \in DOMAIN buffer'[s],
                 NEW k \in DOMAIN buffer'[s],
                 buffer'[s][j].claim = buffer'[s][k].claim
          PROVE  j = k
      <3>1. buffer'[s] = buffer[s]
        OBVIOUS
      <3>. QED
        BY <2>2, <3>1 DEF ClaimInv, BuffersClaim
    <2>3. ASSUME NEW r \in Subs, NEW s \in Subs, r # s,
                 NEW e \in Range(buffer'[r]), NEW f \in Range(buffer'[s])
          PROVE  e.claim # f.claim
      BY <1>5, <2>3 DEF ClaimInv, BuffersClaim
    <2>4. ASSUME NEW s \in Subs, NEW e \in Range(buffer'[s]), NEW h \in holds'
          PROVE  e.claim # h.claim
      BY <1>5, <2>4 DEF ClaimInv, BuffersClaim
    <2>. QED
      BY <2>1, <2>2, <2>3, <2>4 DEF BuffersClaim
  <1>7. DueClaim'
    BY DEF ClaimInv, DueClaim
  <1>. QED
    BY <1>4, <1>6, <1>7 DEF ClaimInv

LEMMA InitClaims == Init => ClaimInv
  BY RangeEmpty DEF Init, ClaimInv, HoldsClaim, BuffersClaim, DueClaim, NoRecord

LEMMA ClaimsLess ==
    ASSUME TypeInv, ClaimInv, claims' = claims,
           DOMAIN tracked' \subseteq DOMAIN tracked,
           \A c \in DOMAIN tracked' : tracked'[c].val = tracked[c].val,
           \A s \in Subs : Range(due'[s]) \subseteq Range(due[s]),
           \A s \in Subs : buffer'[s] = buffer[s] \/ buffer'[s] = <<>>,
           holds' \subseteq holds
    PROVE  ClaimInv'
  <1>1. claims' \in Nat /\ claims <= claims'
    BY DEF TypeInv, RecordTyped
  <1>2. \A h \in holds' : \E g \in holds :
              h.claim = g.claim /\ h.val = g.val /\ h.recorded = g.recorded
    OBVIOUS
  <1>3. \A g, h \in holds' : g.claim = h.claim => g = h
    BY DEF ClaimInv, HoldsClaim
  <1>. QED
    BY <1>1, <1>2, <1>3, ClaimsShrink

\* A verdict's stage does not change whose claim a delivery has.
LEMMA ClaimsAt ==
    ASSUME TypeInv, ClaimInv, UNCHANGED <<tracked, claims, reader>>,
           NEW h \in holds, NEW stage \in Stages, holds' = At(h, stage)
    PROVE  ClaimInv'
  <1> DEFINE new == [h EXCEPT !.stage = stage]
  <1>1. new.claim = h.claim /\ new.val = h.val /\ new.recorded = h.recorded
    BY AtTypes
  <1> HIDE DEF new
  <1>2. holds' = (holds \ {h}) \cup {new}
    BY DEF At, new
  <1>3. \A x \in holds' : \E g \in holds :
              x.claim = g.claim /\ x.val = g.val /\ x.recorded = g.recorded
    BY <1>1, <1>2
  <1>4. \A g, x \in holds' : g.claim = x.claim => g = x
    BY <1>1, <1>2 DEF ClaimInv, HoldsClaim
  <1>5. claims' \in Nat /\ claims <= claims'
    BY DEF TypeInv, RecordTyped
  <1>6. \A s \in Subs : buffer'[s] = buffer[s] /\ due'[s] = due[s]
    BY DEF reader
  <1>. QED
    BY <1>3, <1>4, <1>5, <1>6, ClaimsShrink

LEMMA ForgottenLess ==
    ASSUME TypeInv, Own, NEW c \in 1..claims
    PROVE  /\ DOMAIN Forgotten(c) = DOMAIN tracked \ {c}
           /\ \A d \in DOMAIN Forgotten(c) : Forgotten(c)[d] = tracked[d]
  <1>1. DOMAIN tracked \ Same(members[c]) = DOMAIN tracked \ {c}
    BY DEF Own, Same
  <1>. QED
    BY <1>1 DEF Forgotten

LEMMA DueNumber ==
    ASSUME TypeInv, NEW s \in Subs, due[s] # <<>>
    PROVE  Head(due[s]).claim \in 1..claims
  <1>1. due[s] \in Seq(DueOf)
    BY ReadTypes
  <1>2. Head(due[s]) \in DueOf
    BY <1>1, HeadTailProperties
  <1>. QED
    BY <1>2 DEF DueOf

LEMMA VerdictClaims ==
    ASSUME TypeInv, ClaimInv, Own, NEW h \in holds,
           \/ Verdict(h) \/ Decide(h, "nacked") \/ Retry(h)
           \/ SettleFails(h) \/ RemoveFails(h)
    PROVE  ClaimInv'
  <1>1. {"held", "acked", "nacked", "retrying", "removed"} = Stages
    BY DEF Stages
  <1>2. CASE \/ Decide(h, "acked") \/ Decide(h, "nacked") \/ Retry(h)
             \/ Ack(h) \/ RemoveRetried(h) \/ RemoveFails(h)
    <2>1. UNCHANGED <<tracked, claims, reader>>
      BY <1>2 DEF Decide, Retry, Ack, RemoveRetried, Remove, RemoveFails, lists
    <2>2. \E stage \in Stages : holds' = At(h, stage)
      BY <1>1, <1>2 DEF Decide, Retry, Ack, RemoveRetried, Remove, RemoveFails
    <2>. QED
      BY <2>1, <2>2, ClaimsAt
  <1>3. CASE Forget(h)
    <2>1. UNCHANGED <<claims, reader>> /\ tracked' = Forgotten(h.claim)
          /\ holds' \subseteq holds
      BY <1>3 DEF Forget
    <2>2. \A s \in Subs : buffer'[s] = buffer[s] /\ due'[s] = due[s]
      BY <2>1 DEF reader
    <2>3. h.claim \in 1..claims
      BY DEF ClaimInv, HoldsClaim, Given
    <2>. QED
      BY <2>1, <2>2, <2>3, ForgottenLess, ClaimsLess
  <1>4. CASE SettleRefused(h) \/ SettleFails(h)
    <2>1. UNCHANGED <<claims, reader, tracked>> /\ holds' \subseteq holds
      BY <1>4 DEF SettleRefused, SettleFails, Leave, lists
    <2>2. \A s \in Subs : buffer'[s] = buffer[s] /\ due'[s] = due[s]
      BY <2>1 DEF reader
    <2>. QED
      BY <2>1, <2>2, ClaimsLess
  <1>. QED
    BY <1>2, <1>3, <1>4 DEF Verdict

\* Everything a read does but listing, buffering and delivering.
LEMMA QuietClaims ==
    ASSUME TypeInv, ClaimInv, Own, NEW s \in Subs,
           \/ TakeOff(s) \/ PushBack(s) \/ ForgetDue(s) \/ SweepEnds(s)
           \/ Pop(s) \/ PopTimesOut(s) \/ Move(s) \/ MoveFails(s)
           \/ Shutdown(s)
           \/ ReadFails(s) \/ Crash(s) \/ Exit(s)
    PROVE  ClaimInv'
  <1>1. CASE \/ TakeOff(s) \/ PushBack(s) \/ SweepEnds(s) \/ Pop(s)
             \/ PopTimesOut(s) \/ Move(s) \/ MoveFails(s) \/ Shutdown(s)
    <2>1. UNCHANGED <<tracked, claims, due, buffer, holds>>
      BY <1>1 DEF TakeOff, PushBack, SweepEnds, Pop, PopTimesOut, Move,
                  MoveFails, Shutdown, lists, reader
    <2>. QED
      BY <2>1, ClaimsLess
  <1>2. CASE ForgetDue(s)
    <2>1. /\ UNCHANGED <<claims, buffer, holds>> /\ due[s] # <<>>
          /\ tracked' = Forgotten(Head(due[s]).claim)
          /\ due' = [due EXCEPT ![s] = Tail(@)]
      BY <1>2, ReadTypes DEF ForgetDue, Handful
    <2>2. Range(Tail(due[s])) \subseteq Range(due[s])
      BY <2>1, RangeTail, ReadTypes
    <2>3. \A r \in Subs : Range(due'[r]) \subseteq Range(due[r])
      BY <2>1, <2>2, ReadTypes
    <2>. QED
      BY <2>1, <2>3, DueNumber, ForgottenLess, ClaimsLess
  <1>3. CASE ReadFails(s) \/ Crash(s) \/ Exit(s)
    <2>1. /\ UNCHANGED <<tracked, claims>> /\ holds' \subseteq holds
          /\ due' = [due EXCEPT ![s] = <<>>]
          /\ buffer' = [buffer EXCEPT ![s] = <<>>]
      BY <1>3 DEF ReadFails, Crash, Exit, ProcessEnds, Gone, lists
    <2>2. \A r \in Subs : buffer'[r] = buffer[r] \/ buffer'[r] = <<>>
      BY <2>1, ReadTypes
    <2>3. \A r \in Subs : Range(due'[r]) \subseteq Range(due[r])
      BY <2>1, RangeEmpty, ReadTypes
    <2>. QED
      BY <2>1, <2>2, <2>3, ClaimsLess
  <1>. QED
    BY <1>1, <1>2, <1>3

LEMMA ListDueClaims ==
    ASSUME TypeInv, ClaimInv, NEW s \in Subs, ListDue(s) PROVE ClaimInv'
  <1>1. PICK q \in Listings :
            due' = [due EXCEPT ![s] =
                       [k \in DOMAIN q |-> [claim |-> q[k],
                                            val |-> tracked[q[k]].val]]]
    BY DEF ListDue
  <1>2. UNCHANGED <<tracked, claims, buffer, holds>>
    BY DEF ListDue, lists
  <1>3. \A k \in DOMAIN q : q[k] \in DOMAIN tracked
    <2>1. q \in [1..Cardinality(Listed) -> Listed] /\ Listed \subseteq DOMAIN tracked
      BY DEF Listings, Listed, Due
    <2>. QED
      BY <2>1
  <1>4. HoldsClaim' /\ BuffersClaim'
    BY <1>2 DEF ClaimInv, HoldsClaim, BuffersClaim, Agrees, Given
  <1>5. DueClaim'
    <2>1. ASSUME NEW r \in Subs, NEW e \in Range(due'[r]),
                 e.claim \in DOMAIN tracked
          PROVE  tracked[e.claim].val = e.val
      <3>1. CASE r = s
        <4>1. due'[s] = [k \in DOMAIN q |-> [claim |-> q[k],
                                             val |-> tracked[q[k]].val]]
          BY <1>1, ReadTypes
        <4>2. PICK k \in DOMAIN q :
                  e = [claim |-> q[k], val |-> tracked[q[k]].val]
          BY <2>1, <3>1, <4>1 DEF Range
        <4>. QED
          BY <4>2
      <3>2. CASE r # s
        <4>1. due'[r] = due[r]
          BY <1>1, <3>2, ReadTypes
        <4>. QED
          BY <2>1, <4>1 DEF ClaimInv, DueClaim
      <3>. QED
        BY <3>1, <3>2
    <2>. QED
      BY <1>2, <2>1 DEF DueClaim
  <1>. QED
    BY <1>4, <1>5 DEF ClaimInv

-----------------------------------------------------------------------------
(* Steps that give claims, and the delivery of a buffered one.             *)

\* claims' may be larger, and a claim that is recorded now is a new one.
Grows ==
    /\ claims' \in Nat /\ claims <= claims'
    /\ \A c \in DOMAIN tracked :
          c \in DOMAIN tracked' /\ tracked'[c].val = tracked[c].val
    /\ \A c \in DOMAIN tracked' : c \in DOMAIN tracked \/ c > claims

LEMMA OldAgree ==
    ASSUME TypeInv, Grows, NEW e, e.claim \in Nat, Agrees(e), Given(e)
    PROVE  Agrees(e)' /\ Given(e)'
  <1>1. claims \in Nat
    BY DEF TypeInv, RecordTyped
  <1>2. e.claim <= claims /\ e.claim <= claims'
    BY <1>1 DEF Given, Grows
  <1>3. e.claim \in DOMAIN tracked' <=> e.claim \in DOMAIN tracked
    BY <1>1, <1>2 DEF Grows
  <1>4. Agrees(e)'
    BY <1>3 DEF Agrees, Grows
  <1>. QED
    BY <1>2, <1>4 DEF Given

LEMMA ClaimNumbers ==
    ASSUME TypeInv
    PROVE  /\ \A h \in holds : h.claim \in Nat
           /\ \A s \in Subs : \A e \in Range(buffer[s]) : e.claim \in Nat
           /\ \A s \in Subs : \A e \in Range(due[s]) :
                 e.claim \in Nat /\ e.claim <= claims /\ e.val \in Vals
           /\ claims \in Nat
  <1>1. ASSUME NEW s \in Subs, NEW e \in Range(buffer[s]) PROVE e.claim \in Nat
    <2>1. buffer[s] \in Seq(Claimed)
      BY DEF TypeInv, BufferTyped
    <2>2. e \in Claimed
      BY <1>1, <2>1, ElementOfSeq, LenProperties DEF Range
    <2>. QED
      BY <2>2 DEF Claimed
  <1>2. ASSUME NEW s \in Subs, NEW e \in Range(due[s])
        PROVE  e.claim \in Nat /\ e.claim <= claims /\ e.val \in Vals
    <2>1. due[s] \in Seq(DueOf) /\ claims \in Nat
      BY DEF TypeInv, DueTyped, RecordTyped
    <2>2. e \in DueOf
      BY <1>2, <2>1, ElementOfSeq, LenProperties DEF Range
    <2>. QED
      BY <2>1, <2>2 DEF DueOf
  <1>. QED
    BY <1>1, <1>2 DEF TypeInv, HoldTyped, Hold, RecordTyped

LEMMA GrowsDue ==
    ASSUME TypeInv, ClaimInv, Grows,
           \A s \in Subs : Range(due'[s]) \subseteq Range(due[s])
    PROVE  DueClaim'
  <1> SUFFICES ASSUME NEW s \in Subs, NEW e \in Range(due'[s]),
                      e.claim \in DOMAIN tracked'
               PROVE  tracked'[e.claim].val = e.val
    BY DEF DueClaim
  <1>1. e \in Range(due[s])
    OBVIOUS
  <1>2. e.claim \in Nat /\ e.claim <= claims /\ claims \in Nat
    BY <1>1, ClaimNumbers
  <1>3. e.claim \in DOMAIN tracked
    BY <1>2 DEF Grows
  <1>. QED
    BY <1>1, <1>3 DEF ClaimInv, DueClaim, Grows

\* A claim that is given now: no delivery and no buffer has it.
LEMMA NewIsNobodys ==
    ASSUME TypeInv, ClaimInv, NEW c, c > claims, c \in Nat
    PROVE  /\ \A h \in holds : h.claim # c
           /\ \A s \in Subs : \A e \in Range(buffer[s]) : e.claim # c
           /\ c \notin DOMAIN tracked
  <1>1. claims \in Nat /\ DOMAIN tracked \subseteq 1..claims
    BY DEF TypeInv, RecordTyped
  <1>. QED
    BY <1>1, ClaimNumbers DEF ClaimInv, HoldsClaim, BuffersClaim, Given

LEMMA NoneSame ==
    ASSUME Own, NEW s \in Subs, NEW v \in Vals
    PROVE  Same(ClaimMember(s, v)) = {}
  BY DEF Own, Same

\* What a read that records has: a value, and a next claim.
LEMMA TrackHas ==
    ASSUME TypeInv, NEW s \in Subs, pc[s] = "track"
    PROVE  Head(mine[s]) \in Vals /\ claims \in Nat /\ claims + 1 \in Nat
  <1>1. mine[s] # <<>> /\ mine[s] \in Seq(Vals) /\ claims \in Nat
    BY ReadTypes DEF Handful
  <1>. QED
    BY <1>1, HeadTailProperties

LEMMA RecordedGrows ==
    ASSUME TypeInv, NEW s \in Subs, NEW v \in Vals, Own,
           claims' = claims + 1, tracked' = Recorded(s, v)
    PROVE  /\ Grows /\ claims' \in DOMAIN tracked' /\ tracked'[claims'].val = v
           /\ DOMAIN tracked' = DOMAIN tracked \cup {claims'}
           /\ claims' \in Nat /\ claims' > claims
  <1> DEFINE c == claims + 1
  <1>0. Same(ClaimMember(s, v)) = {}
    BY NoneSame
  <1>1. claims \in Nat /\ DOMAIN tracked \subseteq 1..claims
    BY DEF TypeInv, RecordTyped
  <1>2. c \notin DOMAIN tracked /\ c \in Nat /\ c > claims
    BY <1>1
  <1>3. DOMAIN tracked' = DOMAIN tracked \cup {c}
        /\ \A d \in DOMAIN tracked : tracked'[d] = tracked[d]
    BY <1>0, <1>2 DEF Recorded
  <1>4. tracked'[c] = [val |-> v, idle |-> FALSE]
    BY <1>3 DEF Recorded
  <1>5. tracked'[c].val = v
    BY <1>4
  <1>. QED
    BY <1>1, <1>2, <1>3, <1>5 DEF Grows

LEMMA TrackClaims ==
    ASSUME TypeInv, ClaimInv, Own, NEW s \in Subs, Track(s) PROVE ClaimInv'
  <1>0. PICK v, c, d : v = Head(mine[s]) /\ c = claims + 1
                       /\ d = Delivery(s, Claim(v, c, TRUE))
    OBVIOUS
  <1>1. /\ tracked' = Recorded(s, v) /\ holds' = holds \cup {d}
        /\ claims' = c /\ UNCHANGED <<due, buffer>>
    BY <1>0 DEF Track, Counted
  <1>2. d.claim = c /\ d.val = v /\ d.recorded = TRUE
    BY <1>0 DEF Delivery, Claim
  <1>3. /\ Grows /\ c \in DOMAIN tracked' /\ tracked'[c].val = v
        /\ c \in Nat /\ c > claims /\ c <= claims' /\ claims \in Nat
    <2>1. v \in Vals /\ claims \in Nat
      BY <1>0, TrackHas DEF Track
    <2>2. claims' = claims + 1 /\ tracked' = Recorded(s, v) /\ c = claims'
      BY <1>0, <1>1
    <2>3. /\ Grows /\ claims' \in DOMAIN tracked' /\ tracked'[claims'].val = v
          /\ claims' \in Nat /\ claims' > claims
      BY <2>1, <2>2, RecordedGrows
    <2>. QED
      BY <2>1, <2>2, <2>3
  <1>4. /\ \A h \in holds : h.claim # c
        /\ \A r \in Subs : \A e \in Range(buffer[r]) : e.claim # c
    BY <1>3, NewIsNobodys
  <1>5. Agrees(d)' /\ Given(d)'
    BY <1>2, <1>3 DEF Agrees, Given
  <1>6. \A h \in holds : Agrees(h)' /\ Given(h)'
    BY <1>3, OldAgree, ClaimNumbers DEF ClaimInv, HoldsClaim
  <1>7. HoldsClaim'
    BY <1>1, <1>2, <1>4, <1>5, <1>6 DEF ClaimInv, HoldsClaim
  <1>8. \A r \in Subs : \A e \in Range(buffer[r]) : Agrees(e)' /\ Given(e)'
    BY <1>3, OldAgree, ClaimNumbers DEF ClaimInv, BuffersClaim
  <1>9. BuffersClaim'
    BY <1>1, <1>2, <1>4, <1>8 DEF ClaimInv, BuffersClaim
  <1>10. DueClaim'
    BY <1>1, <1>3, GrowsDue
  <1>. QED
    BY <1>7, <1>9, <1>10 DEF ClaimInv

LEMMA TrackNextClaims ==
    ASSUME TypeInv, ClaimInv, Own, NEW s \in Subs, NEW runs \in BOOLEAN,
           TrackNext(s, runs)
    PROVE  ClaimInv'
  <1>0. PICK v, c, e : v = Head(mine[s]) /\ c = claims + 1
                       /\ e = Claim(v, c, runs)
    OBVIOUS
  <1> DEFINE q == buffer[s]
  <1>1. /\ tracked' = IF runs THEN Recorded(s, v) ELSE tracked
        /\ buffer' = [buffer EXCEPT ![s] = Append(@, e)]
        /\ claims' = c /\ UNCHANGED <<due, holds>>
    BY <1>0 DEF TrackNext, Counted
  <1>2. e.claim = c /\ e.val = v /\ e.recorded = runs
    BY <1>0 DEF Claim
  <1>3. c \in Nat /\ c > claims /\ c <= claims' /\ claims \in Nat
    BY <1>0, <1>1, ClaimNumbers
  <1>4. e \in Claimed /\ q \in Seq(Claimed)
    <2>1. v \in Vals
      <3>1. mine[s] # <<>> /\ mine[s] \in Seq(Vals)
        BY ReadTypes DEF TrackNext, Handful
      <3>. QED
        BY <1>0, <3>1, HeadTailProperties
    <2>. QED
      BY <1>0, <1>3, <2>1, ReadTypes DEF Claimed, Claim
  <1>5. buffer'[s] = Append(q, e) /\ \A r \in Subs \ {s} : buffer'[r] = buffer[r]
    BY <1>1, ReadTypes
  <1>6. c \notin DOMAIN tracked
    BY <1>3, NewIsNobodys
  <1>7. Grows /\ Agrees(e)' /\ Given(e)'
    <2>1. CASE runs
      <3>1. tracked' = Recorded(s, v)
        BY <1>1, <2>1
      <3>2. v \in Vals /\ claims' = claims + 1 /\ c = claims'
        BY <1>0, <1>1, TrackHas DEF TrackNext
      <3>3. Grows /\ c \in DOMAIN tracked' /\ tracked'[c].val = v
        BY <3>1, <3>2, RecordedGrows
      <3>. QED
        BY <1>2, <1>3, <2>1, <3>3 DEF Agrees, Given
    <2>2. CASE ~runs
      <3>1. tracked' = tracked
        BY <1>1, <2>2
      <3>2. Grows
        BY <1>1, <1>3, <3>1, ClaimNumbers DEF Grows
      <3>. QED
        BY <1>2, <1>3, <1>6, <2>2, <3>1, <3>2 DEF Agrees, Given
    <2>. QED
      BY <2>1, <2>2
  <1>8. /\ \A h \in holds : h.claim # c
        /\ \A r \in Subs : \A f \in Range(buffer[r]) : f.claim # c
    BY <1>3, NewIsNobodys
  <1>9. HoldsClaim'
    <2>1. \A h \in holds : Agrees(h)' /\ Given(h)'
      BY <1>7, OldAgree, ClaimNumbers DEF ClaimInv, HoldsClaim
    <2>. QED
      BY <1>1, <2>1 DEF ClaimInv, HoldsClaim
  <1>10. Range(buffer'[s]) = Range(q) \cup {e}
    BY <1>4, <1>5, RangeAppend
  <1>11. BuffersClaim'
    <2>1. \A r \in Subs : \A f \in Range(buffer[r]) : Agrees(f)' /\ Given(f)'
      BY <1>7, OldAgree, ClaimNumbers DEF ClaimInv, BuffersClaim
    <2>2. \A r \in Subs : \A f \in Range(buffer'[r]) : Agrees(f)' /\ Given(f)'
      BY <1>5, <1>7, <1>10, <2>1
    <2>3. ASSUME NEW r \in Subs, NEW j \in DOMAIN buffer'[r],
                 NEW k \in DOMAIN buffer'[r],
                 buffer'[r][j].claim = buffer'[r][k].claim
          PROVE  j = k
      <3>1. CASE r = s
        <4> DEFINE n == Len(q) + 1
        <4>1. /\ DOMAIN buffer'[s] = DOMAIN q \cup {n}
              /\ buffer'[s][n] = e
              /\ \A i \in DOMAIN q : buffer'[s][i] = q[i]
          BY <1>4, <1>5, RangeAppend
        <4>2. \A i \in DOMAIN q : q[i].claim # c
          BY <1>8 DEF Range
        <4> HIDE DEF n
        <4>. QED
          BY <1>2, <2>3, <3>1, <4>1, <4>2 DEF ClaimInv, BuffersClaim
      <3>2. CASE r # s
        BY <1>5, <2>3, <3>2 DEF ClaimInv, BuffersClaim
      <3>. QED
        BY <3>1, <3>2
    <2>4. ASSUME NEW r \in Subs, NEW t \in Subs, r # t,
                 NEW f \in Range(buffer'[r]), NEW g \in Range(buffer'[t])
          PROVE  f.claim # g.claim
      <3>1. CASE r # s /\ t # s
        BY <1>5, <2>4, <3>1 DEF ClaimInv, BuffersClaim
      <3>2. CASE r = s
        <4>1. t # s /\ g \in Range(buffer[t])
          BY <1>5, <2>4, <3>2
        <4>2. f = e \/ f \in Range(buffer[s])
          BY <1>10, <2>4, <3>2
        <4>. QED
          BY <1>2, <1>8, <4>1, <4>2 DEF ClaimInv, BuffersClaim
      <3>3. CASE t = s
        <4>1. r # s /\ f \in Range(buffer[r])
          BY <1>5, <2>4, <3>3
        <4>2. g = e \/ g \in Range(buffer[s])
          BY <1>10, <2>4, <3>3
        <4>. QED
          BY <1>2, <1>8, <4>1, <4>2 DEF ClaimInv, BuffersClaim
      <3>. QED
        BY <3>1, <3>2, <3>3
    <2>5. ASSUME NEW r \in Subs, NEW f \in Range(buffer'[r]), NEW h \in holds'
          PROVE  f.claim # h.claim
      BY <1>1, <1>2, <1>5, <1>8, <1>10, <2>5 DEF ClaimInv, BuffersClaim
    <2>. QED
      BY <2>2, <2>3, <2>4, <2>5 DEF BuffersClaim
  <1>12. DueClaim'
    BY <1>1, <1>7, GrowsDue
  <1>. QED
    BY <1>9, <1>11, <1>12 DEF ClaimInv

\* What a pipeline moved before an error is buffered under claims of its own,
\* and nothing records them.
LEMMA MovesEndClaims ==
    ASSUME TypeInv, ClaimInv, NEW s \in Subs, MovesEnd(s) PROVE ClaimInv'
  <1>1. UNCHANGED <<tracked, due, holds>>
    BY DEF MovesEnd
  <1>2. CASE pc[s] # "lost"
    <2>1. UNCHANGED <<claims, buffer>>
      BY <1>2 DEF MovesEnd
    <2>. QED
      BY <1>1, <2>1, ClaimsLess
  <1>3. CASE pc[s] = "lost"
    <2>0. PICK m, n : m = mine[s] /\ n = claims
      OBVIOUS
    <2>1. /\ buffer' = [buffer EXCEPT ![s] =
                           [k \in DOMAIN m |-> Claim(m[k], n + k, FALSE)]]
          /\ claims' = n + Len(m)
      BY <1>3, <2>0 DEF MovesEnd
    <2>2. /\ m \in Seq(Vals) /\ Len(m) \in Nat /\ DOMAIN m = 1..Len(m)
          /\ n \in Nat
      BY <2>0, ReadTypes, LenProperties
    <2> DEFINE b == [k \in DOMAIN m |-> Claim(m[k], n + k, FALSE)]
    <2>3. buffer'[s] = b /\ \A r \in Subs \ {s} : buffer'[r] = buffer[r]
      BY <2>1, ReadTypes
    <2>4. /\ DOMAIN b = 1..Len(m)
          /\ \A k \in 1..Len(m) : b[k].claim = n + k /\ b[k].recorded = FALSE
      BY <2>2 DEF Claim
    <2> HIDE DEF b
    <2>5. ASSUME NEW e \in Range(b)
          PROVE  /\ e.claim \in Nat /\ e.claim > n /\ e.claim <= claims'
                 /\ e.recorded = FALSE
      <3>1. PICK k \in 1..Len(m) : e = b[k]
        BY <2>4, <2>5 DEF Range
      <3>2. e.claim = n + k /\ e.recorded = FALSE
        BY <2>4, <3>1
      <3>. QED
        BY <2>1, <2>2, <3>2
    <2>6. Grows
      BY <1>1, <2>0, <2>1, <2>2 DEF Grows
    <2>7. ASSUME NEW e \in Range(b)
          PROVE  /\ \A h \in holds : h.claim # e.claim
                 /\ \A r \in Subs : \A f \in Range(buffer[r]) :
                       f.claim # e.claim
                 /\ e.claim \notin DOMAIN tracked
      BY <2>0, <2>5, NewIsNobodys
    <2>8. ASSUME NEW e \in Range(b) PROVE Agrees(e)' /\ Given(e)'
      <3>1. e.claim \notin DOMAIN tracked'
        BY <1>1, <2>7
      <3>2. e.claim \in 1..claims'
        <4>1. e.claim \in Nat /\ e.claim > n /\ e.claim <= claims'
          BY <2>5
        <4>2. n \in Nat /\ claims' \in Nat
          BY <2>1, <2>2
        <4>. QED
          BY <4>1, <4>2
      <3>3. Given(e)'
        BY <3>2 DEF Given
      <3>4. e.recorded = FALSE
        BY <2>5
      <3>. QED
        BY <3>1, <3>3, <3>4 DEF Agrees
    <2>9. HoldsClaim'
      <3>1. \A h \in holds : Agrees(h)' /\ Given(h)'
        BY <2>6, OldAgree, ClaimNumbers DEF ClaimInv, HoldsClaim
      <3>. QED
        BY <1>1, <3>1 DEF ClaimInv, HoldsClaim
    <2>10. BuffersClaim'
      <3>1. \A r \in Subs : \A f \in Range(buffer[r]) : Agrees(f)' /\ Given(f)'
        BY <2>6, OldAgree, ClaimNumbers DEF ClaimInv, BuffersClaim
      <3>2. \A r \in Subs : \A f \in Range(buffer'[r]) :
               Agrees(f)' /\ Given(f)'
        BY <2>3, <2>8, <3>1
      <3>3. ASSUME NEW r \in Subs, NEW j \in DOMAIN buffer'[r],
                   NEW k \in DOMAIN buffer'[r],
                   buffer'[r][j].claim = buffer'[r][k].claim
            PROVE  j = k
        <4>1. CASE r = s
          <5>1. j \in 1..Len(m) /\ k \in 1..Len(m) /\ b[j].claim = b[k].claim
            BY <2>3, <2>4, <3>3, <4>1
          <5>2. n + j = n + k
            BY <2>4, <5>1
          <5>. QED
            BY <2>2, <5>1, <5>2
        <4>2. CASE r # s
          BY <2>3, <3>3, <4>2 DEF ClaimInv, BuffersClaim
        <4>. QED
          BY <4>1, <4>2
      <3>4. ASSUME NEW r \in Subs, NEW t \in Subs, r # t,
                   NEW f \in Range(buffer'[r]), NEW g \in Range(buffer'[t])
            PROVE  f.claim # g.claim
        <4>1. CASE r # s /\ t # s
          BY <2>3, <3>4, <4>1 DEF ClaimInv, BuffersClaim
        <4>2. CASE r = s
          BY <2>3, <2>7, <3>4, <4>2
        <4>3. CASE t = s
          BY <2>3, <2>7, <3>4, <4>3
        <4>. QED
          BY <4>1, <4>2, <4>3
      <3>5. ASSUME NEW r \in Subs, NEW f \in Range(buffer'[r]), NEW h \in holds'
            PROVE  f.claim # h.claim
        BY <1>1, <2>3, <2>7, <3>5 DEF ClaimInv, BuffersClaim
      <3>. QED
        BY <3>2, <3>3, <3>4, <3>5 DEF BuffersClaim
    <2>11. DueClaim'
      BY <1>1, <2>6, GrowsDue
    <2>. QED
      BY <2>9, <2>10, <2>11 DEF ClaimInv
  <1>. QED
    BY <1>2, <1>3

\* The delivery takes the claim of the entry over from the buffer.
LEMMA YieldClaims ==
    ASSUME TypeInv, ClaimInv, NEW s \in Subs, Yield(s) PROVE ClaimInv'
  <1>0. PICK e, d, q : /\ q = buffer[s] /\ e = Head(q) /\ d = Delivery(s, e)
    OBVIOUS
  <1>1. /\ q # <<>> /\ holds' = holds \cup {d}
        /\ buffer' = [buffer EXCEPT ![s] = Tail(q)]
        /\ UNCHANGED <<tracked, claims, due>>
    BY <1>0 DEF Yield, lists
  <1>2. /\ q \in Seq(Claimed) /\ buffer'[s] = Tail(q)
        /\ \A r \in Subs \ {s} : buffer'[r] = buffer[r]
    BY <1>0, <1>1, ReadTypes
  <1>3. d.claim = e.claim /\ d.val = e.val /\ d.recorded = e.recorded
    BY <1>0 DEF Delivery
  <1>4. /\ e \in Range(q) /\ e = q[1] /\ 1 \in DOMAIN q
        /\ Range(Tail(q)) \subseteq Range(q)
        /\ \A k \in DOMAIN Tail(q) :
              k \in Nat /\ k > 0 /\ k + 1 \in DOMAIN q /\ Tail(q)[k] = q[k + 1]
    BY <1>0, <1>1, <1>2, RangeTail
  <1>5. Agrees(e) /\ Given(e)
    BY <1>0, <1>4 DEF ClaimInv, BuffersClaim
  <1>6. \A h \in holds : h.claim # e.claim
    BY <1>0, <1>4 DEF ClaimInv, BuffersClaim
  <1>7. HoldsClaim'
    <2>1. \A h \in holds \cup {d} : Agrees(h) /\ Given(h)
      BY <1>3, <1>5 DEF ClaimInv, HoldsClaim, Agrees, Given
    <2>2. \A h \in holds' : Agrees(h)' /\ Given(h)'
      BY <1>1, <2>1 DEF Agrees, Given
    <2>. QED
      BY <1>1, <1>3, <1>6, <2>2 DEF ClaimInv, HoldsClaim
  <1>8. \A r \in Subs : Range(buffer'[r]) \subseteq Range(buffer[r])
    BY <1>0, <1>2, <1>4
  <1>9. ASSUME NEW f \in Range(Tail(q)) PROVE f.claim # e.claim
    <2>1. PICK k \in DOMAIN Tail(q) : f = Tail(q)[k]
      BY <1>9 DEF Range
    <2>2. k + 1 \in DOMAIN q /\ f = q[k + 1] /\ k + 1 # 1
      BY <1>4, <2>1
    <2>3. \A i, j \in DOMAIN q : q[i].claim = q[j].claim => i = j
      BY <1>0 DEF ClaimInv, BuffersClaim
    <2>. QED
      BY <1>4, <2>2, <2>3
  <1>10. BuffersClaim'
    <2>1. \A r \in Subs : \A f \in Range(buffer'[r]) : Agrees(f)' /\ Given(f)'
      BY <1>1, <1>8 DEF ClaimInv, BuffersClaim, Agrees, Given
    <2>2. ASSUME NEW r \in Subs, NEW j \in DOMAIN buffer'[r],
                 NEW k \in DOMAIN buffer'[r],
                 buffer'[r][j].claim = buffer'[r][k].claim
          PROVE  j = k
      <3>1. CASE r = s
        <4>1. /\ j \in Nat /\ k \in Nat
              /\ j + 1 \in DOMAIN q /\ k + 1 \in DOMAIN q
              /\ q[j + 1].claim = q[k + 1].claim
          BY <1>2, <1>4, <2>2, <3>1
        <4>2. j + 1 = k + 1
          BY <1>0, <4>1 DEF ClaimInv, BuffersClaim
        <4>. QED
          BY <4>1, <4>2
      <3>2. CASE r # s
        BY <1>2, <2>2, <3>2 DEF ClaimInv, BuffersClaim
      <3>. QED
        BY <3>1, <3>2
    <2>3. ASSUME NEW r \in Subs, NEW t \in Subs, r # t,
                 NEW f \in Range(buffer'[r]), NEW g \in Range(buffer'[t])
          PROVE  f.claim # g.claim
      BY <1>8, <2>3 DEF ClaimInv, BuffersClaim
    <2>4. ASSUME NEW r \in Subs, NEW f \in Range(buffer'[r]), NEW h \in holds'
          PROVE  f.claim # h.claim
      <3>1. CASE h \in holds
        BY <1>8, <2>4, <3>1 DEF ClaimInv, BuffersClaim
      <3>2. CASE h = d
        <4>1. CASE r = s
          BY <1>2, <1>3, <1>9, <2>4, <3>2, <4>1
        <4>2. CASE r # s
          <5>1. f \in Range(buffer[r]) /\ e \in Range(buffer[s])
            BY <1>0, <1>4, <1>8, <2>4
          <5>. QED
            BY <1>3, <3>2, <4>2, <5>1 DEF ClaimInv, BuffersClaim
        <4>. QED
          BY <4>1, <4>2
      <3>. QED
        BY <1>1, <2>4, <3>1, <3>2
    <2>. QED
      BY <2>1, <2>2, <2>3, <2>4 DEF BuffersClaim
  <1>11. DueClaim'
    BY <1>1 DEF ClaimInv, DueClaim
  <1>. QED
    BY <1>7, <1>10, <1>11 DEF ClaimInv

LEMMA ClaimStep ==
    ASSUME TypeInv, ClaimInv, Own, [Next]_vars PROVE ClaimInv'
  <1>1. CASE \/ UNCHANGED vars
             \/ \E v \in Vals : Push(v)
    <2>1. UNCHANGED <<tracked, claims, due, buffer, holds>>
      BY <1>1 DEF vars, lists, reader, Push
    <2>. QED
      BY <2>1, ClaimsLess
  <1>2. ASSUME NEW c \in DOMAIN tracked, Age(c) PROVE ClaimInv'
    <2>1. /\ tracked' = [tracked EXCEPT ![c].idle = TRUE]
          /\ UNCHANGED <<claims, reader, holds>>
      BY <1>2 DEF Age
    <2>2. \A r \in Subs : buffer'[r] = buffer[r] /\ due'[r] = due[r]
      BY <2>1 DEF reader
    <2>3. /\ DOMAIN tracked' = DOMAIN tracked
          /\ \A d \in DOMAIN tracked' : tracked'[d].val = tracked[d].val
      BY <2>1 DEF TypeInv, RecordTyped, Record
    <2>. QED
      BY <2>1, <2>2, <2>3, ClaimsLess
  <1>3. CASE Expire
    <2>1. /\ tracked' = NoRecord /\ UNCHANGED <<claims, reader, holds>>
      BY <1>3 DEF Expire
    <2>2. \A r \in Subs : buffer'[r] = buffer[r] /\ due'[r] = due[r]
      BY <2>1 DEF reader
    <2>3. DOMAIN tracked' = {}
      BY <2>1 DEF NoRecord
    <2>. QED
      BY <2>1, <2>2, <2>3, ClaimsLess
  <1>4. ASSUME NEW s \in Subs,
               \/ Read(s) \/ Crash(s) \/ ReadFails(s) \/ Exit(s) \/ Shutdown(s)
               \/ MoveFails(s) \/ TrackNext(s, FALSE)
        PROVE  ClaimInv'
    BY <1>4, QuietClaims, ListDueClaims, TrackClaims, TrackNextClaims,
       MovesEndClaims, YieldClaims
    DEF Read
  <1>. QED
    BY <1>1, <1>2, <1>3, <1>4, VerdictClaims DEF Next

-----------------------------------------------------------------------------
(* What watches the occurrences of a value on the processing list.         *)

\* Its record goes next, and what it recorded is off the list.
Doomed(c) ==
    \/ \E s \in Subs : pc[s] \in {"push", "forget"} /\ Head(due[s]).claim = c
    \/ \E h \in holds : h.stage = "removed" /\ h.claim = c
KeptOf(v) == {c \in DOMAIN tracked : tracked[c].val = v /\ ~Doomed(c)}
Kept(v)   == Cardinality(KeptOf(v))
Watched(v) ==
    processing[v] <= Kept(v) + Popped(v) + Bare(holds, v) + Buffered(v)
                     + stranded[v]
CountsFinite == \A v \in Vals :
    IsFiniteSet(Pairs(InHands(v))) /\ IsFiniteSet(Pairs(InBuffers(v)))
WatchInv == CountsFinite /\ \A v \in Vals : Watched(v)

LEMMA WatchNumbers ==
    ASSUME TypeInv, CountsFinite, NEW v \in Vals
    PROVE  /\ Kept(v) \in Nat /\ Popped(v) \in Nat /\ Buffered(v) \in Nat
           /\ Bare(holds, v) \in Nat /\ stranded[v] \in Nat
           /\ processing[v] \in Nat
           /\ Kept(v) <= Tracked(v) /\ Tracked(v) \in Nat
  <1>1. IsFiniteSet(DOMAIN tracked) /\ Tracked(v) \in Nat
    BY TrackedType DEF TypeInv
  <1>2. IsFiniteSet({c \in DOMAIN tracked : tracked[c].val = v})
    BY <1>1, FS_Subset
  <1>3. KeptOf(v) \subseteq {c \in DOMAIN tracked : tracked[c].val = v}
    BY DEF KeptOf
  <1>4. Kept(v) \in Nat /\ Kept(v) <= Tracked(v)
    BY <1>2, <1>3, FS_Subset, FS_CardinalityType DEF Kept, Tracked
  <1>5. Popped(v) \in Nat /\ Buffered(v) \in Nat
    BY FS_CardinalityType DEF CountsFinite, Popped, Buffered
  <1>6. Bare(holds, v) \in Nat
    BY BareType DEF TypeInv
  <1>. QED
    BY <1>1, <1>4, <1>5, <1>6 DEF TypeInv, CountTyped, ListTyped

LEMMA KeptCount ==
    ASSUME TypeInv, TypeInv', NEW v
    PROVE  /\ Kept(v) \in Nat /\ Kept(v)' \in Nat
           /\ KeptOf(v) \subseteq KeptOf(v)' => Kept(v) <= Kept(v)'
           /\ \A c : KeptOf(v) \ {c} \subseteq KeptOf(v)' =>
                 Kept(v) - 1 <= Kept(v)'
           /\ \A c : c \notin KeptOf(v) /\ KeptOf(v) \cup {c} \subseteq KeptOf(v)'
                 => Kept(v) + 1 <= Kept(v)'
  <1> DEFINE A == KeptOf(v)
             B == KeptOf(v)'
  <1>1. IsFiniteSet(A)
    <2>1. A \subseteq DOMAIN tracked
      BY DEF KeptOf
    <2>. QED
      BY <2>1, TrackedType, FS_Subset DEF TypeInv
  <1>2. IsFiniteSet(B)
    <2>1. B \subseteq DOMAIN tracked'
      BY DEF KeptOf
    <2>2. IsFiniteSet(DOMAIN tracked')
      <3>1. DOMAIN tracked' \subseteq 1..claims' /\ claims' \in Nat
        BY DEF TypeInv, RecordTyped
      <3>2. IsFiniteSet(1..claims')
        BY <3>1, FS_Interval
      <3>. QED
        BY <3>1, <3>2, FS_Subset
    <2>. QED
      BY <2>1, <2>2, FS_Subset
  <1>3. Kept(v) = Cardinality(A) /\ Kept(v)' = Cardinality(B)
    BY DEF Kept
  <1> HIDE DEF A, B
  <1>4. Cardinality(A) \in Nat /\ Cardinality(B) \in Nat
    BY <1>1, <1>2, FS_CardinalityType
  <1>5. A \subseteq B => Cardinality(A) <= Cardinality(B)
    BY <1>2, FS_Subset
  <1>6. ASSUME NEW c, A \ {c} \subseteq B
        PROVE  Cardinality(A) - 1 <= Cardinality(B)
    <2>1. Cardinality(A \ {c}) <= Cardinality(B)
      BY <1>2, <1>6, FS_Subset
    <2>2. Cardinality(A \ {c}) = Cardinality(A)
          \/ Cardinality(A \ {c}) = Cardinality(A) - 1
      BY <1>1, FS_RemoveElement
    <2>. QED
      BY <1>4, <2>1, <2>2
  <1>7. ASSUME NEW c, c \notin A, A \cup {c} \subseteq B
        PROVE  Cardinality(A) + 1 <= Cardinality(B)
    <2>1. Cardinality(A \cup {c}) <= Cardinality(B)
      BY <1>2, <1>7, FS_Subset
    <2>2. Cardinality(A \cup {c}) = Cardinality(A) + 1
      BY <1>1, <1>7, FS_AddElement
    <2>. QED
      BY <2>1, <2>2
  <1>. QED
    BY <1>3, <1>4, <1>5, <1>6, <1>7 DEF A, B

\* A step that dooms no record, and takes off none that is not doomed.
LEMMA KeptStays ==
    ASSUME \A c \in DOMAIN tracked : ~Doomed(c) =>
              c \in DOMAIN tracked' /\ tracked'[c].val = tracked[c].val,
           \A r \in Subs : pc'[r] \in {"push", "forget"} =>
              pc[r] \in {"push", "forget"} /\ due'[r] = due[r],
           \A h \in holds' : h.stage = "removed" =>
              \E g \in holds : g.stage = "removed" /\ g.claim = h.claim,
           NEW v
    PROVE  KeptOf(v) \subseteq KeptOf(v)'
  <1> SUFFICES ASSUME NEW c \in KeptOf(v) PROVE c \in KeptOf(v)'
    OBVIOUS
  <1>1. c \in DOMAIN tracked /\ tracked[c].val = v /\ ~Doomed(c)
    BY DEF KeptOf
  <1>2. c \in DOMAIN tracked' /\ tracked'[c].val = v
    BY <1>1
  <1>3. ~Doomed(c)'
    BY <1>1 DEF Doomed
  <1>. QED
    BY <1>2, <1>3 DEF KeptOf

\* The counts when the hands, or the buffer, of one read change.
LEMMA HandsChange ==
    ASSUME TypeInv, TypeInv', CountsFinite, NEW s \in Subs,
           \A r \in Subs \ {s} : Moving(r)' = Moving(r), NEW v \in Vals
    PROVE  /\ IsFiniteSet(Pairs(InHands(v)))'
           /\ Times(Moving(s), {v}) \in Nat /\ Times(Moving(s)', {v}) \in Nat
           /\ Popped(v)' + Times(Moving(s), {v})
                = Popped(v) + Times(Moving(s)', {v})
  <1> DEFINE f == InHands(v)
             g == InHands(v)'
  <1>1. Moving(s) \in Seq(Vals)
    BY ReadTypes DEF Moving
  <1>2. Moving(s)' \in Seq(Vals)
    BY EmptySeq DEF TypeInv, HandTyped, Moving
  <1>3. DOMAIN f = Subs /\ DOMAIN g = Subs
        /\ f[s] = Places(Moving(s), {v}) /\ g[s] = Places(Moving(s)', {v})
    BY DEF InHands
  <1>4. \A r \in Subs : r # s => g[r] = f[r]
    BY DEF InHands
  <1>5. IsFiniteSet(f[s]) /\ IsFiniteSet(g[s]) /\ IsFiniteSet(Pairs(f))
    BY <1>1, <1>2, <1>3, TimesType DEF CountsFinite
  <1>6. Popped(v) = Cardinality(Pairs(f)) /\ Popped(v)' = Cardinality(Pairs(g))
    BY DEF Popped, Pairs
  <1>7. IsFiniteSet(Pairs(InHands(v)))' <=> IsFiniteSet(Pairs(g))
    BY DEF Pairs
  <1> HIDE DEF f, g
  <1>8. /\ IsFiniteSet(Pairs(g))
        /\ Cardinality(f[s]) \in Nat /\ Cardinality(g[s]) \in Nat
        /\ Cardinality(Pairs(g)) + Cardinality(f[s])
              = Cardinality(Pairs(f)) + Cardinality(g[s])
    BY <1>3, <1>4, <1>5, PairsChange
  <1>9. Times(Moving(s), {v}) = Cardinality(f[s])
        /\ Times(Moving(s)', {v}) = Cardinality(g[s])
    BY <1>3 DEF Times
  <1>. QED
    BY <1>6, <1>7, <1>8, <1>9

LEMMA BuffersChange ==
    ASSUME TypeInv, TypeInv', CountsFinite, NEW s \in Subs,
           \A r \in Subs \ {s} : buffer'[r] = buffer[r], NEW v \in Vals
    PROVE  /\ IsFiniteSet(Pairs(InBuffers(v)))'
           /\ Times(buffer[s], BareClaims(v)) \in Nat
           /\ Times(buffer'[s], BareClaims(v)) \in Nat
           /\ Buffered(v)' + Times(buffer[s], BareClaims(v))
                = Buffered(v) + Times(buffer'[s], BareClaims(v))
  <1> DEFINE f == InBuffers(v)
             g == InBuffers(v)'
  <1>1. buffer[s] \in Seq(Claimed)
    BY ReadTypes
  <1>2. buffer'[s] \in Seq(Claimed)
    BY DEF TypeInv, BufferTyped
  <1>3. DOMAIN f = Subs /\ DOMAIN g = Subs
        /\ f[s] = Places(buffer[s], BareClaims(v))
        /\ g[s] = Places(buffer'[s], BareClaims(v))
    BY DEF InBuffers
  <1>4. \A r \in Subs : r # s => g[r] = f[r]
    BY DEF InBuffers
  <1>5. IsFiniteSet(f[s]) /\ IsFiniteSet(g[s]) /\ IsFiniteSet(Pairs(f))
    BY <1>1, <1>2, <1>3, TimesType DEF CountsFinite
  <1>6. Buffered(v) = Cardinality(Pairs(f))
        /\ Buffered(v)' = Cardinality(Pairs(g))
    BY DEF Buffered, Pairs
  <1>7. IsFiniteSet(Pairs(InBuffers(v)))' <=> IsFiniteSet(Pairs(g))
    BY DEF Pairs
  <1> HIDE DEF f, g
  <1>8. /\ IsFiniteSet(Pairs(g))
        /\ Cardinality(f[s]) \in Nat /\ Cardinality(g[s]) \in Nat
        /\ Cardinality(Pairs(g)) + Cardinality(f[s])
              = Cardinality(Pairs(f)) + Cardinality(g[s])
    BY <1>3, <1>4, <1>5, PairsChange
  <1>9. Times(buffer[s], BareClaims(v)) = Cardinality(f[s])
        /\ Times(buffer'[s], BareClaims(v)) = Cardinality(g[s])
    BY <1>3 DEF Times
  <1>. QED
    BY <1>6, <1>7, <1>8, <1>9

LEMMA HandsStay ==
    ASSUME CountsFinite, \A s \in Subs : Moving(s)' = Moving(s), NEW v \in Vals
    PROVE  IsFiniteSet(Pairs(InHands(v)))' /\ Popped(v)' = Popped(v)
  <1>1. InHands(v)' = InHands(v)
    BY DEF InHands
  <1>2. Pairs(InHands(v))' = Pairs(InHands(v))
    BY <1>1 DEF Pairs
  <1>. QED
    BY <1>2 DEF CountsFinite, Popped

LEMMA BuffersStay ==
    ASSUME CountsFinite, \A s \in Subs : buffer'[s] = buffer[s], NEW v \in Vals
    PROVE  IsFiniteSet(Pairs(InBuffers(v)))' /\ Buffered(v)' = Buffered(v)
  <1>1. InBuffers(v)' = InBuffers(v)
    BY DEF InBuffers
  <1>2. Pairs(InBuffers(v))' = Pairs(InBuffers(v))
    BY <1>1 DEF Pairs
  <1>. QED
    BY <1>2 DEF CountsFinite, Buffered

-----------------------------------------------------------------------------
(* Deliveries without a record.                                            *)

BareOf(hs, v) ==
    {h \in hs : ~h.recorded /\ h.stage # "removed" /\ h.val = v}
BareOne(h, v) == IF ~h.recorded /\ h.val = v THEN 1 ELSE 0

LEMMA BareFinite ==
    ASSUME TypeInv, NEW v
    PROVE  /\ IsFiniteSet(BareOf(holds, v))
           /\ Bare(holds, v) = Cardinality(BareOf(holds, v))
           /\ Bare(holds, v) \in Nat
  <1>1. IsFiniteSet(BareOf(holds, v))
    BY FS_Subset DEF TypeInv, FiniteInv, BareOf
  <1>2. Bare(holds, v) = Cardinality(BareOf(holds, v))
    BY DEF Bare, BareOf
  <1>. QED
    BY <1>1, <1>2, FS_CardinalityType

LEMMA BareStays ==
    ASSUME TypeInv, ClaimInv, NEW h \in holds, NEW stage \in Stages,
           h.stage # "removed", stage # "removed", NEW v
    PROVE  Bare(At(h, stage), v) = Bare(holds, v)
  <1>0. PICK x : x = [h EXCEPT !.stage = stage]
    OBVIOUS
  <1>1. /\ x.val = h.val /\ x.stage = stage /\ x.recorded = h.recorded
        /\ x.claim = h.claim /\ At(h, stage) = (holds \ {h}) \cup {x}
    BY <1>0, AtTypes DEF At
  <1>2. x \in holds => x = h
    BY <1>1 DEF ClaimInv, HoldsClaim
  <1> DEFINE B == BareOf(holds, v)
             C == BareOf(At(h, stage), v)
  <1>3. CASE h \notin B
    <2>1. C = B
      BY <1>1, <1>3 DEF BareOf
    <2>. QED
      BY <2>1 DEF Bare, BareOf
  <1>4. CASE h \in B
    <2>1. C = (B \ {h}) \cup {x} /\ x \notin B \ {h}
      BY <1>1, <1>2, <1>4 DEF BareOf
    <2>2. IsFiniteSet(B) /\ Cardinality(B) \in Nat
      BY BareFinite
    <2> HIDE DEF B, C
    <2>3. IsFiniteSet(B \ {h}) /\ Cardinality(B \ {h}) = Cardinality(B) - 1
      BY <1>4, <2>2, FS_RemoveElement
    <2>4. Cardinality(C) = Cardinality(B \ {h}) + 1
      BY <2>1, <2>3, FS_AddElement
    <2>5. Cardinality(C) = Cardinality(B)
      BY <2>2, <2>3, <2>4
    <2>. QED
      BY <2>5 DEF Bare, BareOf, B, C
  <1>. QED
    BY <1>3, <1>4

LEMMA BareRemoved ==
    ASSUME TypeInv, NEW h \in holds, h.stage # "removed", NEW v
    PROVE  Bare(At(h, "removed"), v) = Bare(holds, v) - BareOne(h, v)
  <1>0. PICK x : x = [h EXCEPT !.stage = "removed"]
    OBVIOUS
  <1>1. x.stage = "removed" /\ At(h, "removed") = (holds \ {h}) \cup {x}
    BY <1>0, AtTypes DEF At, Stages
  <1> DEFINE B == BareOf(holds, v)
             C == BareOf(At(h, "removed"), v)
  <1>2. C = B \ {h} /\ (h \in B <=> ~h.recorded /\ h.val = v)
    BY <1>1 DEF BareOf
  <1>3. IsFiniteSet(B) /\ Cardinality(B) \in Nat
    BY BareFinite
  <1>4. Bare(At(h, "removed"), v) = Cardinality(C)
        /\ Bare(holds, v) = Cardinality(B)
    BY DEF Bare, BareOf
  <1> HIDE DEF B, C
  <1>5. CASE h \in B
    <2>1. Cardinality(C) = Cardinality(B) - 1
      BY <1>2, <1>3, <1>5, FS_RemoveElement
    <2>. QED
      BY <1>2, <1>4, <1>5, <2>1 DEF BareOne
  <1>6. CASE h \notin B
    <2>1. C = B
      BY <1>2, <1>6
    <2>. QED
      BY <1>2, <1>3, <1>4, <1>6, <2>1 DEF BareOne
  <1>. QED
    BY <1>5, <1>6

LEMMA BareLeaves ==
    ASSUME TypeInv, NEW hs, hs \subseteq holds, NEW v
    PROVE  /\ Bare(holds \ hs, v) = Bare(holds, v) - Bare(hs, v)
           /\ Bare(hs, v) \in Nat
  <1> DEFINE B == BareOf(holds, v)
             C == BareOf(hs, v)
  <1>1. BareOf(holds \ hs, v) = B \ C /\ C = B \cap C
    BY DEF BareOf
  <1>2. IsFiniteSet(B)
    BY BareFinite
  <1>3. /\ Bare(holds \ hs, v) = Cardinality(BareOf(holds \ hs, v))
        /\ Bare(holds, v) = Cardinality(B) /\ Bare(hs, v) = Cardinality(C)
    BY DEF Bare, BareOf
  <1> HIDE DEF B, C
  <1>4. Cardinality(B \ C) = Cardinality(B) - Cardinality(C)
    BY <1>1, <1>2, FS_Difference
  <1>5. C \subseteq B
    BY <1>1
  <1>6. IsFiniteSet(C)
    BY <1>2, <1>5, FS_Subset
  <1>7. Cardinality(C) \in Nat
    BY <1>6, FS_CardinalityType
  <1>. QED
    BY <1>1, <1>3, <1>4, <1>7

LEMMA BareGains ==
    ASSUME TypeInv, NEW d, d \notin holds, d.stage = "held", NEW v
    PROVE  Bare(holds \cup {d}, v) = Bare(holds, v) + BareOne(d, v)
  <1> DEFINE B == BareOf(holds, v)
             C == BareOf(holds \cup {d}, v)
  <1>1. C = (IF ~d.recorded /\ d.val = v THEN B \cup {d} ELSE B) /\ d \notin B
    BY DEF BareOf
  <1>2. IsFiniteSet(B) /\ Cardinality(B) \in Nat
    BY BareFinite
  <1>3. Bare(holds \cup {d}, v) = Cardinality(C)
        /\ Bare(holds, v) = Cardinality(B)
    BY DEF Bare, BareOf
  <1> HIDE DEF B, C
  <1>4. CASE ~d.recorded /\ d.val = v
    <2>1. Cardinality(B \cup {d}) = Cardinality(B) + 1
      BY <1>1, <1>2, FS_AddElement
    <2>. QED
      BY <1>1, <1>3, <1>4, <2>1 DEF BareOne
  <1>5. CASE ~(~d.recorded /\ d.val = v)
    BY <1>1, <1>2, <1>3, <1>5 DEF BareOne
  <1>. QED
    BY <1>4, <1>5

-----------------------------------------------------------------------------
(* Every step keeps the occurrences watched.                               *)

\* A step that moves no occurrence and takes no record that counts.
LEMMA WatchStays ==
    ASSUME TypeInv, TypeInv', WatchInv,
           \A s \in Subs : Moving(s)' = Moving(s),
           UNCHANGED <<processing, buffer, stranded>>,
           \A v \in Vals : Bare(holds', v) = Bare(holds, v),
           \A v \in Vals : KeptOf(v) \subseteq KeptOf(v)'
    PROVE  WatchInv'
  <1>1. ASSUME NEW v \in Vals
        PROVE  /\ IsFiniteSet(Pairs(InHands(v)))'
               /\ IsFiniteSet(Pairs(InBuffers(v)))'
               /\ Watched(v)'
    <2>1. IsFiniteSet(Pairs(InHands(v)))' /\ Popped(v)' = Popped(v)
      BY HandsStay DEF WatchInv
    <2>2. IsFiniteSet(Pairs(InBuffers(v)))' /\ Buffered(v)' = Buffered(v)
      BY BuffersStay DEF WatchInv
    <2>3. Kept(v) <= Kept(v)' /\ Kept(v)' \in Nat
      BY KeptCount
    <2>4. Bare(holds, v)' = Bare(holds, v)
      BY DEF Bare
    <2>5. Watched(v)
      BY DEF WatchInv
    <2>. QED
      BY <2>1, <2>2, <2>3, <2>4, <2>5, WatchNumbers DEF WatchInv, Watched
  <1>. QED
    BY <1>1 DEF WatchInv, CountsFinite

\* The steps that leave the readers and the records alone.
LEMMA QuietWatch ==
    ASSUME TypeInv, TypeInv', WatchInv,
           UNCHANGED <<processing, reader, stranded>>,
           \A c \in DOMAIN tracked : ~Doomed(c) =>
              c \in DOMAIN tracked' /\ tracked'[c].val = tracked[c].val,
           \A h \in holds' : h.stage = "removed" =>
              \E g \in holds : g.stage = "removed" /\ g.claim = h.claim,
           \A v \in Vals : Bare(holds', v) = Bare(holds, v)
    PROVE  WatchInv'
  <1>1. UNCHANGED <<pc, due, mine, buffer>>
    BY DEF reader
  <1>2. \A s \in Subs : Moving(s)' = Moving(s)
    BY <1>1 DEF Moving
  <1>3. \A r \in Subs : pc'[r] \in {"push", "forget"} =>
           pc[r] \in {"push", "forget"} /\ due'[r] = due[r]
    BY <1>1
  <1>4. \A v \in Vals : KeptOf(v) \subseteq KeptOf(v)'
    BY <1>3, KeptStays
  <1>. QED
    BY <1>1, <1>2, <1>4, WatchStays

LEMMA AgeWatch ==
    ASSUME TypeInv, TypeInv', WatchInv, NEW c \in DOMAIN tracked, Age(c)
    PROVE  WatchInv'
  <1>1. /\ tracked' = [tracked EXCEPT ![c].idle = TRUE]
        /\ UNCHANGED <<processing, reader, stranded, holds>>
    BY DEF Age, history
  <1>2. \A d \in DOMAIN tracked :
           d \in DOMAIN tracked' /\ tracked'[d].val = tracked[d].val
    BY <1>1 DEF TypeInv, RecordTyped, Record
  <1>. QED
    BY <1>1, <1>2, QuietWatch

LEMMA ExpireWatch ==
    ASSUME TypeInv, TypeInv', WatchInv, Expire PROVE WatchInv'
  <1>1. /\ stranded' = [v \in Vals |-> stranded[v] + Tracked(v)]
        /\ UNCHANGED <<processing, reader, holds>>
    BY DEF Expire
  <1>2. UNCHANGED <<pc, mine, buffer>>
    BY <1>1 DEF reader
  <1>3. ASSUME NEW v \in Vals
        PROVE  /\ IsFiniteSet(Pairs(InHands(v)))'
               /\ IsFiniteSet(Pairs(InBuffers(v)))'
               /\ Watched(v)'
    <2>1. IsFiniteSet(Pairs(InHands(v)))' /\ Popped(v)' = Popped(v)
      BY <1>2, HandsStay DEF WatchInv, Moving
    <2>2. IsFiniteSet(Pairs(InBuffers(v)))' /\ Buffered(v)' = Buffered(v)
      BY <1>2, BuffersStay DEF WatchInv
    <2>3. Kept(v)' \in Nat
      BY KeptCount
    <2>4. Bare(holds, v)' = Bare(holds, v)
      BY <1>1 DEF Bare
    <2>5. Watched(v) /\ stranded'[v] = stranded[v] + Tracked(v)
      BY <1>1 DEF WatchInv
    <2>. QED
      BY <1>1, <2>1, <2>2, <2>3, <2>4, <2>5, WatchNumbers DEF WatchInv, Watched
  <1>. QED
    BY <1>3 DEF WatchInv, CountsFinite

\* The steps of a read that move nothing.
LEMMA ReadQuietWatch ==
    ASSUME TypeInv, TypeInv', Own, WatchInv, NEW s \in Subs,
           \/ ListDue(s) \/ PushBack(s) \/ ForgetDue(s) \/ SweepEnds(s)
           \/ PopTimesOut(s) \/ Shutdown(s)
    PROVE  WatchInv'
  <1>1. UNCHANGED <<processing, buffer, stranded, holds>>
    BY DEF ListDue, PushBack, ForgetDue, SweepEnds, PopTimesOut, Shutdown,
           lists, reader, history
  <1>2. /\ \A r \in Subs : Moving(r)' = Moving(r)
        /\ \A r \in Subs : pc'[r] \in {"push", "forget"} =>
              pc[r] \in {"push", "forget"} /\ due'[r] = due[r]
    <2>1. CASE ListDue(s)
      BY <2>1, ReadTypes DEF ListDue, Moving
    <2>2. CASE PushBack(s)
      BY <2>2, ReadTypes DEF PushBack, Moving
    <2>3. CASE ForgetDue(s)
      BY <2>3, ReadTypes DEF ForgetDue, Moving
    <2>4. CASE SweepEnds(s)
      BY <2>4, ReadTypes DEF SweepEnds, Moving
    <2>5. CASE PopTimesOut(s)
      BY <2>5, ReadTypes DEF PopTimesOut, Moving
    <2>6. CASE Shutdown(s)
      BY <2>6 DEF Shutdown, Moving, reader
    <2>. QED
      BY <2>1, <2>2, <2>3, <2>4, <2>5, <2>6
  <1>3. \A c \in DOMAIN tracked : ~Doomed(c) =>
           c \in DOMAIN tracked' /\ tracked'[c].val = tracked[c].val
    <2>1. CASE ~ForgetDue(s)
      BY <2>1 DEF ListDue, PushBack, SweepEnds, PopTimesOut, Shutdown, lists
    <2>2. CASE ForgetDue(s)
      <3>1. pc[s] = "forget" /\ tracked' = Forgotten(Head(due[s]).claim)
        BY <2>2 DEF ForgetDue
      <3>2. Doomed(Head(due[s]).claim)
        BY <3>1 DEF Doomed
      <3>3. Head(due[s]).claim \in 1..claims
        BY <3>1, ReadTypes, DueNumber DEF Handful
      <3>. QED
        BY <3>1, <3>2, <3>3, ForgottenLess
    <2>. QED
      BY <2>1, <2>2
  <1>4. \A v \in Vals : KeptOf(v) \subseteq KeptOf(v)'
    BY <1>1, <1>2, <1>3, KeptStays
  <1>. QED
    BY <1>1, <1>2, <1>4, WatchStays

LEMMA VerdictQuietWatch ==
    ASSUME TypeInv, TypeInv', ClaimInv, Own, WatchInv, NEW h \in holds,
           \/ Decide(h, "acked") \/ Decide(h, "nacked") \/ Retry(h) \/ Forget(h)
    PROVE  WatchInv'
  <1>1. UNCHANGED <<processing, reader, stranded>>
    BY DEF Decide, Retry, Forget, lists, history
  <1>2. CASE Forget(h)
    <2>1. /\ h.stage = "removed" /\ holds' = holds \ {h}
          /\ tracked' = Forgotten(h.claim)
      BY <1>2 DEF Forget
    <2>2. Doomed(h.claim)
      BY <2>1 DEF Doomed
    <2>3. \A v \in Vals : Bare(holds', v) = Bare(holds, v)
      <3>1. ASSUME NEW v \in Vals PROVE BareOf(holds', v) = BareOf(holds, v)
        BY <2>1 DEF BareOf
      <3>. QED
        BY <3>1 DEF Bare, BareOf
    <2>4. h.claim \in 1..claims
      BY DEF ClaimInv, HoldsClaim, Given
    <2>. QED
      BY <1>1, <2>1, <2>2, <2>3, <2>4, ForgottenLess, QuietWatch
  <1>3. CASE Decide(h, "acked") \/ Decide(h, "nacked") \/ Retry(h)
    <2>1. UNCHANGED tracked /\ h.stage \in {"held", "nacked"}
      BY <1>3 DEF Decide, Retry, lists, Begins
    <2>2. PICK stage \in {"acked", "nacked", "retrying"} :
              holds' = At(h, stage)
      BY <1>3 DEF Decide, Retry
    <2>3. stage \in Stages /\ stage # "removed" /\ h.stage # "removed"
      BY <2>1 DEF Stages
    <2>4. \A v \in Vals : Bare(holds', v) = Bare(holds, v)
      BY <2>2, <2>3, BareStays
    <2>5. [h EXCEPT !.stage = stage].stage = stage
      BY <2>3, AtTypes
    <2>6. \A g \in holds' : g.stage = "removed" => g \in holds
      BY <2>2, <2>3, <2>5 DEF At
    <2>. QED
      BY <1>1, <2>1, <2>4, <2>6, QuietWatch
  <1>. QED
    BY <1>2, <1>3

\* A sweep's LREM: the record of the value it took off is doomed with it.
LEMMA TakeOffWatch ==
    ASSUME TypeInv, TypeInv', ClaimInv, WatchInv, NEW s \in Subs, TakeOff(s)
    PROVE  WatchInv'
  <1>0. PICK e, w, c : e = Head(due[s]) /\ w = e.val /\ c = e.claim
    OBVIOUS
  <1>1. /\ pc[s] = "sweep" /\ due[s] # <<>>
        /\ processing' = Minus(processing, w)
        /\ UNCHANGED <<tracked, due, buffer, holds, stranded>>
        /\ pc' \in {[pc EXCEPT ![s] = "push"], [pc EXCEPT ![s] = "forget"]}
    BY <1>0 DEF TakeOff, history
  <1>2. /\ mine' = mine /\ pc'[s] = "forget"
        \/ /\ mine' = [mine EXCEPT ![s] = <<w>>] /\ pc'[s] = "push"
    BY <1>0, ReadTypes DEF TakeOff
  <1>3. /\ w \in Vals /\ (c \in DOMAIN tracked => tracked[c].val = w)
        /\ e \in Range(due[s])
    <2>1. e \in Range(due[s])
      BY <1>0, <1>1, RangeTail, ReadTypes
    <2>. QED
      BY <1>0, <2>1, ClaimNumbers DEF ClaimInv, DueClaim
  <1>4. \A r \in Subs : Moving(r)' = Moving(r)
    <2>1. mine[s] = <<>>
      BY <1>1, ReadTypes DEF Handful
    <2>2. Moving(s) = <<>> /\ Moving(s)' = <<>>
      BY <1>1, <1>2, <2>1 DEF Moving
    <2>3. \A r \in Subs \ {s} : pc'[r] = pc[r] /\ mine'[r] = mine[r]
      BY <1>1, <1>2, ReadTypes
    <2>. QED
      BY <2>2, <2>3 DEF Moving
  <1>5. ASSUME NEW v \in Vals PROVE KeptOf(v) \ {c} \subseteq KeptOf(v)'
    <2> SUFFICES ASSUME NEW d \in KeptOf(v), d # c PROVE d \in KeptOf(v)'
      OBVIOUS
    <2>1. d \in DOMAIN tracked /\ tracked[d].val = v /\ ~Doomed(d)
      BY DEF KeptOf
    <2>2. ASSUME NEW r \in Subs, pc'[r] \in {"push", "forget"},
                 Head(due'[r]).claim = d
          PROVE  FALSE
      <3>1. CASE r = s
        BY <1>0, <1>1, <2>2, <3>1
      <3>2. CASE r # s
        <4>1. pc'[r] = pc[r] /\ due'[r] = due[r]
          BY <1>1, <3>2, ReadTypes
        <4>. QED
          BY <2>1, <2>2, <4>1 DEF Doomed
      <3>. QED
        BY <3>1, <3>2
    <2>3. ~Doomed(d)'
      BY <1>1, <2>1, <2>2 DEF Doomed
    <2>. QED
      BY <1>1, <2>1, <2>3 DEF KeptOf
  <1>6. ASSUME NEW v \in Vals
        PROVE  /\ IsFiniteSet(Pairs(InHands(v)))'
               /\ IsFiniteSet(Pairs(InBuffers(v)))'
               /\ Watched(v)'
    <2>1. IsFiniteSet(Pairs(InHands(v)))' /\ Popped(v)' = Popped(v)
      BY <1>4, HandsStay DEF WatchInv
    <2>2. IsFiniteSet(Pairs(InBuffers(v)))' /\ Buffered(v)' = Buffered(v)
      BY <1>1, BuffersStay DEF WatchInv
    <2>3. /\ Bare(holds, v)' = Bare(holds, v) /\ stranded'[v] = stranded[v]
          /\ Watched(v)
      BY <1>1 DEF Bare, WatchInv
    <2>4. Kept(v)' \in Nat /\ Kept(v) - 1 <= Kept(v)'
      BY <1>5, KeptCount
    <2>5. v # w => Kept(v) <= Kept(v)'
      <3>1. v # w => c \notin KeptOf(v)
        BY <1>3 DEF KeptOf
      <3>2. v # w => KeptOf(v) \subseteq KeptOf(v)'
        BY <1>5, <3>1
      <3>. QED
        BY <3>2, KeptCount
    <2>6. processing \in [Vals -> Nat]
      BY DEF TypeInv, ListTyped
    <2>7. CASE v # w
      <3>1. processing'[v] = processing[v]
        BY <1>1, <1>3, <2>6, <2>7, Bumped
      <3>. QED
        BY <2>1, <2>2, <2>3, <2>4, <2>5, <2>7, <3>1, WatchNumbers
        DEF WatchInv, Watched
    <2>8. CASE v = w
      <3>1. processing'[v] = IF processing[v] = 0 THEN 0 ELSE processing[v] - 1
        BY <1>1, <1>3, <2>6, <2>8, Bumped
      <3>. QED
        BY <2>1, <2>2, <2>3, <2>4, <3>1, WatchNumbers DEF WatchInv, Watched
    <2>. QED
      BY <2>7, <2>8
  <1>. QED
    BY <1>6 DEF WatchInv, CountsFinite

\* BLMOVE and LMOVE: what comes onto the processing list is in the hands of
\* the read, or stranded.
LEMMA MoveWatch ==
    ASSUME TypeInv, TypeInv', WatchInv, NEW s \in Subs,
           Pop(s) \/ Move(s) \/ MoveFails(s)
    PROVE  WatchInv'
  <1>0. PICK w : w = Oldest
    OBVIOUS
  <1>1. /\ UNCHANGED <<tracked, due, buffer, holds>>
        /\ pc[s] \in {"pop", "moves", "lost"}
        /\ pc'[s] \in {"track", "moves", "lost"}
        /\ \A r \in Subs \ {s} : pc'[r] = pc[r] /\ mine'[r] = mine[r]
    BY ReadTypes DEF Pop, Move, MoveFails, lists
  <1>2. Moving(s) = mine[s] /\ Moving(s)' = mine'[s]
    BY <1>1 DEF Moving
  <1>3. \A r \in Subs \ {s} : Moving(r)' = Moving(r)
    BY <1>1 DEF Moving
  <1>4. \A v \in Vals : KeptOf(v) \subseteq KeptOf(v)'
    <2>1. \A r \in Subs : pc'[r] \in {"push", "forget"} =>
             pc[r] \in {"push", "forget"} /\ due'[r] = due[r]
      BY <1>1
    <2>. QED
      BY <1>1, <2>1, KeptStays
  <1>5. \/ /\ UNCHANGED <<processing, stranded>> /\ mine'[s] = mine[s]
        \/ /\ processing' = Plus(processing, w) /\ w \in Vals
           /\ stranded' = Plus(stranded, w) /\ mine'[s] = mine[s]
        \/ /\ processing' = Plus(processing, w) /\ w \in Vals
           /\ stranded' = stranded /\ mine'[s] = Append(mine[s], w)
    <2>1. CASE Pop(s)
      <3>1. mine[s] = <<>>
        BY <2>1, ReadTypes DEF Pop, Handful
      <3>2. <<w>> = Append(<<>>, w)
        OBVIOUS
      <3>3. mine'[s] = <<w>>
        BY <1>0, <2>1, ReadTypes DEF Pop
      <3>4. processing' = Plus(processing, w) /\ stranded' = stranded
        BY <1>0, <2>1 DEF Pop, Moved, history
      <3>5. w \in Vals
        BY <1>0, <2>1, OldestTypes DEF Pop, TypeInv
      <3>. QED
        BY <3>1, <3>2, <3>3, <3>4, <3>5
    <2>2. CASE Move(s) /\ queue = <<>>
      BY <2>2 DEF Move
    <2>3. CASE Move(s) /\ queue # <<>>
      <3>1. w \in Vals
        BY <1>0, <2>3, OldestTypes DEF TypeInv
      <3>2. processing' = Plus(processing, w)
        BY <1>0, <2>3 DEF Move, Moved
      <3>3. \/ stranded' = Plus(stranded, w) /\ mine'[s] = mine[s]
            \/ stranded' = stranded /\ mine'[s] = Append(mine[s], w)
        BY <1>0, <2>3, ReadTypes DEF Move
      <3>. QED
        BY <3>1, <3>2, <3>3
    <2>4. CASE MoveFails(s)
      <3>1. UNCHANGED mine
        BY <2>4 DEF MoveFails
      <3>2. \/ UNCHANGED <<processing, stranded>>
            \/ /\ queue # <<>> /\ processing' = Plus(processing, w)
               /\ stranded' = Plus(stranded, w)
        BY <1>0, <2>4 DEF MoveFails, Moved
      <3>3. queue # <<>> => w \in Vals
        BY <1>0, OldestTypes DEF TypeInv
      <3>. QED
        BY <3>1, <3>2, <3>3
    <2>. QED
      BY <2>1, <2>2, <2>3, <2>4
  <1>6. ASSUME NEW v \in Vals
        PROVE  /\ IsFiniteSet(Pairs(InHands(v)))'
               /\ IsFiniteSet(Pairs(InBuffers(v)))'
               /\ Watched(v)'
    <2>1. /\ IsFiniteSet(Pairs(InHands(v)))'
          /\ Times(mine[s], {v}) \in Nat /\ Times(mine'[s], {v}) \in Nat
          /\ Popped(v)' + Times(mine[s], {v}) = Popped(v) + Times(mine'[s], {v})
      BY <1>2, <1>3, HandsChange DEF WatchInv
    <2>2. IsFiniteSet(Pairs(InBuffers(v)))' /\ Buffered(v)' = Buffered(v)
      BY <1>1, BuffersStay DEF WatchInv
    <2>3. Bare(holds, v)' = Bare(holds, v) /\ Watched(v)
      BY <1>1 DEF Bare, WatchInv
    <2>4. Kept(v)' \in Nat /\ Kept(v) <= Kept(v)'
      BY <1>4, KeptCount
    <2>5. Popped(v)' \in Nat
      BY <2>1, FS_CardinalityType DEF Popped
    <2>6. processing \in [Vals -> Nat] /\ stranded \in [Vals -> Nat]
          /\ mine[s] \in Seq(Vals)
      BY ReadTypes DEF ListTyped, CountTyped
    <2>7. CASE UNCHANGED <<processing, stranded>> /\ mine'[s] = mine[s]
      <3>1. Popped(v)' = Popped(v)
        BY <2>1, <2>5, <2>7, WatchNumbers DEF WatchInv
      <3>. QED
        BY <2>1, <2>2, <2>3, <2>4, <2>7, <3>1, WatchNumbers
        DEF WatchInv, Watched
    <2>8. CASE /\ processing' = Plus(processing, w) /\ w \in Vals
               /\ stranded' = Plus(stranded, w) /\ mine'[s] = mine[s]
      <3>1. Popped(v)' = Popped(v)
        BY <2>1, <2>5, <2>8, WatchNumbers DEF WatchInv
      <3>2. /\ processing'[v] = processing[v] + One(v, w)
            /\ stranded'[v] = stranded[v] + One(v, w) /\ One(v, w) \in Nat
        BY <2>6, <2>8, PlusOne DEF One
      <3>. QED
        BY <2>1, <2>2, <2>3, <2>4, <3>1, <3>2, WatchNumbers
        DEF WatchInv, Watched
    <2>9. CASE /\ processing' = Plus(processing, w) /\ w \in Vals
               /\ stranded' = stranded /\ mine'[s] = Append(mine[s], w)
      <3>1. Times(mine'[s], {v}) = Times(mine[s], {v}) + In(w, {v})
        BY <2>6, <2>9, TimesAppend
      <3>2. In(w, {v}) = One(v, w) /\ One(v, w) \in Nat
        BY DEF In, One
      <3>3. Popped(v)' = Popped(v) + One(v, w)
        BY <2>1, <2>5, <3>1, <3>2, WatchNumbers DEF WatchInv
      <3>4. processing'[v] = processing[v] + One(v, w)
        BY <2>6, <2>9, PlusOne
      <3>5. stranded'[v] = stranded[v]
        BY <2>9
      <3>6. Watched(v)'
        BY <2>2, <2>3, <2>4, <3>2, <3>3, <3>4, <3>5, WatchNumbers
        DEF WatchInv, Watched
      <3>. QED
        BY <2>1, <2>2, <3>6
    <2>. QED
      BY <1>5, <2>7, <2>8, <2>9
  <1>. QED
    BY <1>6 DEF WatchInv, CountsFinite

LEMMA InBare ==
    ASSUME NEW e \in Claimed, NEW v
    PROVE  In(e, BareClaims(v)) = BareOne(e, v) /\ BareOne(e, v) \in Nat
  <1>1. e \in BareClaims(v) <=> (~e.recorded /\ e.val = v)
    BY DEF Claimed, BareClaims
  <1>. QED
    BY <1>1 DEF In, BareOne

\* Every LMOVE of the pipeline is answered.
LEMMA MovesEndWatch ==
    ASSUME TypeInv, TypeInv', PlaceInv, WatchInv, NEW s \in Subs, MovesEnd(s)
    PROVE  WatchInv'
  <1>1. /\ UNCHANGED <<processing, tracked, due, holds, stranded>>
        /\ pc[s] \in {"moves", "lost"} /\ pc'[s] \in {"read", "pop", "track"}
        /\ \A r \in Subs \ {s} :
              /\ pc'[r] = pc[r] /\ mine'[r] = mine[r]
              /\ buffer'[r] = buffer[r]
    BY ReadTypes DEF MovesEnd, history
  <1>2. \A v \in Vals : KeptOf(v) \subseteq KeptOf(v)'
    <2>1. \A r \in Subs : pc'[r] \in {"push", "forget"} =>
             pc[r] \in {"push", "forget"} /\ due'[r] = due[r]
      BY <1>1
    <2>. QED
      BY <1>1, <2>1, KeptStays
  <1>3. /\ Moving(s) = mine[s] /\ Moving(s)' = mine'[s]
        /\ \A r \in Subs \ {s} : Moving(r)' = Moving(r)
    BY <1>1 DEF Moving
  <1>4. CASE pc[s] # "lost"
    <2>1. UNCHANGED <<mine, buffer>>
      BY <1>4 DEF MovesEnd
    <2>2. \A r \in Subs : Moving(r)' = Moving(r)
      BY <1>3, <2>1
    <2>. QED
      BY <1>1, <1>2, <2>1, <2>2, WatchStays
  <1>5. CASE pc[s] = "lost"
    <2>0. PICK m, n, b : /\ m = mine[s] /\ n = claims
                         /\ b = [k \in DOMAIN m |-> Claim(m[k], n + k, FALSE)]
      OBVIOUS
    <2>1. buffer'[s] = b /\ mine'[s] = <<>>
      <3>1. buffer' = [buffer EXCEPT ![s] =
                          [k \in DOMAIN m |-> Claim(m[k], n + k, FALSE)]]
        BY <1>5, <2>0 DEF MovesEnd
      <3>2. buffer' = [buffer EXCEPT ![s] = b]
        BY <2>0, <3>1
      <3>3. mine' = [mine EXCEPT ![s] = <<>>]
        BY <1>5 DEF MovesEnd
      <3>. QED
        BY <3>2, <3>3, ReadTypes
    <2>2. buffer[s] = <<>>
      BY <1>5 DEF PlaceInv, Place
    <2>3. m \in Seq(Vals) /\ n \in Nat /\ DOMAIN m = 1..Len(m) /\ Len(m) \in Nat
      BY <2>0, ReadTypes, LenProperties
    <2>4. ASSUME NEW v \in Vals
          PROVE  Times(b, BareClaims(v)) = Times(m, {v})
      <3>1. ASSUME NEW k \in DOMAIN m
            PROVE  b[k] \in BareClaims(v) <=> m[k] = v
        <4>1. b[k] = [val |-> m[k], claim |-> n + k, recorded |-> FALSE]
          BY <2>0 DEF Claim
        <4>2. n + k \in Nat
          BY <2>3
        <4>. QED
          BY <4>1, <4>2 DEF BareClaims
      <3>2. DOMAIN b = DOMAIN m
        BY <2>0
      <3>3. Places(b, BareClaims(v)) = Places(m, {v})
        BY <3>1, <3>2 DEF Places
      <3>. QED
        BY <3>3 DEF Times
    <2>5. ASSUME NEW v \in Vals
          PROVE  /\ IsFiniteSet(Pairs(InHands(v)))'
                 /\ IsFiniteSet(Pairs(InBuffers(v)))'
                 /\ Watched(v)'
      <3>1. /\ IsFiniteSet(Pairs(InHands(v)))' /\ Times(m, {v}) \in Nat
            /\ Popped(v)' + Times(m, {v}) = Popped(v) + Times(<<>>, {v})
        BY <1>3, <2>0, <2>1, HandsChange DEF WatchInv
      <3>2. /\ IsFiniteSet(Pairs(InBuffers(v)))'
            /\ Buffered(v)' + Times(<<>>, BareClaims(v))
                 = Buffered(v) + Times(b, BareClaims(v))
        BY <1>1, <2>1, <2>2, BuffersChange DEF WatchInv
      <3>3. Popped(v)' \in Nat /\ Buffered(v)' \in Nat
        BY <3>1, <3>2, FS_CardinalityType DEF Popped, Buffered
      <3>4. Times(<<>>, {v}) = 0 /\ Times(<<>>, BareClaims(v)) = 0
        BY PlacesNone
      <3>5. Popped(v)' + Buffered(v)' = Popped(v) + Buffered(v)
        BY <2>4, <3>1, <3>2, <3>3, <3>4, WatchNumbers DEF WatchInv
      <3>6. /\ Bare(holds, v)' = Bare(holds, v) /\ Watched(v)
            /\ processing'[v] = processing[v] /\ stranded'[v] = stranded[v]
        BY <1>1 DEF Bare, WatchInv
      <3>7. Kept(v)' \in Nat /\ Kept(v) <= Kept(v)'
        BY <1>2, KeptCount
      <3>8. Watched(v)'
        BY <3>3, <3>5, <3>6, <3>7, WatchNumbers DEF WatchInv, Watched
      <3>. QED
        BY <3>1, <3>2, <3>8
    <2>. QED
      BY <2>5 DEF WatchInv, CountsFinite
  <1>. QED
    BY <1>4, <1>5

\* A record that is made now is not doomed.
LEMMA NewIsKept ==
    ASSUME TypeInv, TypeInv', ClaimInv, Own, NEW s \in Subs, NEW v \in Vals,
           NEW c, c = claims + 1, claims' = claims + 1,
           tracked' = Recorded(s, v), UNCHANGED due,
           \A r \in Subs : pc'[r] \in {"push", "forget"} => pc'[r] = pc[r],
           \A h \in holds' : h.stage = "removed" => h \in holds
    PROVE  /\ \A w : KeptOf(w) \subseteq KeptOf(w)'
           /\ c \notin KeptOf(v) /\ KeptOf(v) \cup {c} \subseteq KeptOf(v)'
  <1>1. /\ Grows /\ c \in DOMAIN tracked' /\ tracked'[c].val = v
        /\ c \in Nat /\ c > claims
    <2>1. TypeInv /\ Own /\ s \in Subs /\ v \in Vals /\ claims' = claims + 1
          /\ tracked' = Recorded(s, v)
      OBVIOUS
    <2>2. /\ Grows /\ claims' \in DOMAIN tracked' /\ tracked'[claims'].val = v
          /\ claims' \in Nat /\ claims' > claims
      BY <2>1, RecordedGrows
    <2>. QED
      BY <2>2
  <1>2. \A w : KeptOf(w) \subseteq KeptOf(w)'
    <2>1. \A r \in Subs : pc'[r] \in {"push", "forget"} =>
             pc[r] \in {"push", "forget"} /\ due'[r] = due[r]
      OBVIOUS
    <2>. QED
      BY <1>1, <2>1, KeptStays DEF Grows
  <1>3. c \notin KeptOf(v)
    BY <1>1, NewIsNobodys DEF KeptOf
  <1>4. ~Doomed(c)'
    <2>1. ASSUME NEW r \in Subs, pc'[r] \in {"push", "forget"},
                 Head(due'[r]).claim = c
          PROVE  FALSE
      <3>1. pc[r] \in {"push", "forget"} /\ due'[r] = due[r]
        BY <2>1
      <3>2. due[r] # <<>> /\ due[r] \in Seq(DueOf)
        BY <3>1, ReadTypes DEF Handful
      <3>3. Head(due[r]) \in Range(due[r])
        BY <3>2, RangeTail
      <3>4. Head(due[r]).claim <= claims /\ claims \in Nat
        BY <3>3, ClaimNumbers
      <3>. QED
        BY <1>1, <2>1, <3>1, <3>4
    <2>2. ASSUME NEW h \in holds', h.stage = "removed", h.claim = c PROVE FALSE
      BY <1>1, <2>2, NewIsNobodys
    <2>. QED
      BY <2>1, <2>2 DEF Doomed
  <1>5. c \in KeptOf(v)'
    BY <1>1, <1>4 DEF KeptOf
  <1>. QED
    BY <1>2, <1>3, <1>5

LEMMA TrackWatch ==
    ASSUME TypeInv, TypeInv', ClaimInv, Own, PlaceInv, WatchInv, NEW s \in Subs,
           Track(s)
    PROVE  WatchInv'
  <1>0. PICK w, c, d : w = Head(mine[s]) /\ c = claims + 1
                       /\ d = Delivery(s, Claim(w, c, TRUE))
    OBVIOUS
  <1>1. /\ tracked' = Recorded(s, w) /\ holds' = holds \cup {d}
        /\ claims' = claims + 1 /\ pc[s] = "track" /\ ~Pipelined(s)
        /\ UNCHANGED <<processing, due, buffer, stranded>>
    BY <1>0 DEF Track, Counted, history
  <1>2. /\ mine'[s] = <<>> /\ pc'[s] = "read"
        /\ \A r \in Subs \ {s} : pc'[r] = pc[r] /\ mine'[r] = mine[r]
    BY ReadTypes DEF Track
  <1>3. /\ d.claim = c /\ d.recorded = TRUE /\ d.stage = "held"
    BY <1>0 DEF Delivery, Claim
  <1>4. mine[s] \in Seq(Vals) /\ mine[s] # <<>> /\ mine[s] = <<w>> /\ w \in Vals
    <2>1. mine[s] \in Seq(Vals) /\ mine[s] # <<>> /\ Len(mine[s]) \in Nat
      BY <1>1, ReadTypes DEF Handful
    <2>2. Len(mine[s]) # 0
      BY <2>1, EmptySeq
    <2>3. Len(mine[s]) <= 1
      BY <1>1 DEF PlaceInv, Place, Pipelined
    <2>4. Len(mine[s]) = 1
      <3>1. PICK n : n = Len(mine[s])
        OBVIOUS
      <3>2. n \in Nat /\ n # 0 /\ n <= 1
        BY <2>1, <2>2, <2>3, <3>1
      <3>3. n = 1
        BY <3>2
      <3>. QED
        BY <3>1, <3>3
    <2>. QED
      BY <1>0, <2>1, <2>4, OneElement
  <1>5. d \notin holds
    <2>1. c \in Nat /\ c > claims
      BY <1>0, ClaimNumbers
    <2>. QED
      BY <1>3, <2>1, NewIsNobodys
  <1>6. /\ Moving(s) = mine[s] /\ Moving(s)' = <<>>
        /\ \A r \in Subs \ {s} : Moving(r)' = Moving(r)
    BY <1>1, <1>2 DEF Moving
  <1>7. /\ \A x : KeptOf(x) \subseteq KeptOf(x)'
        /\ c \notin KeptOf(w) /\ KeptOf(w) \cup {c} \subseteq KeptOf(w)'
    <2>1. \A r \in Subs : pc'[r] \in {"push", "forget"} => pc'[r] = pc[r]
      BY <1>2
    <2>2. \A h \in holds' : h.stage = "removed" => h \in holds
      BY <1>1, <1>3
    <2>. QED
      BY <1>0, <1>1, <1>4, <2>1, <2>2, NewIsKept
  <1>8. ASSUME NEW v \in Vals
        PROVE  /\ IsFiniteSet(Pairs(InHands(v)))'
               /\ IsFiniteSet(Pairs(InBuffers(v)))'
               /\ Watched(v)'
    <2>1. /\ IsFiniteSet(Pairs(InHands(v)))' /\ Times(mine[s], {v}) \in Nat
          /\ Popped(v)' + Times(mine[s], {v}) = Popped(v) + Times(<<>>, {v})
      BY <1>6, HandsChange DEF WatchInv
    <2>2. Times(<<>>, {v}) = 0 /\ Times(mine[s], {v}) = One(v, w)
          /\ One(v, w) \in Nat
      <3>1. Times(Tail(mine[s]), {v}) = 0
        <4>1. Tail(mine[s]) = <<>>
          BY <1>4
        <4>. QED
          BY <4>1, PlacesNone
      <3>2. Times(mine[s], {v}) = 0 + In(w, {v})
        BY <1>0, <1>4, <3>1, TimesTail
      <3>. QED
        BY <3>2, PlacesNone DEF In, One
    <2>3. Popped(v)' \in Nat
      BY <2>1, FS_CardinalityType DEF Popped
    <2>4. Popped(v)' + One(v, w) = Popped(v)
      BY <2>1, <2>2, <2>3, WatchNumbers DEF WatchInv
    <2>5. IsFiniteSet(Pairs(InBuffers(v)))' /\ Buffered(v)' = Buffered(v)
      BY <1>1, BuffersStay DEF WatchInv
    <2>6. Bare(holds, v)' = Bare(holds, v)
      <3>1. Bare(holds \cup {d}, v) = Bare(holds, v) + BareOne(d, v)
        BY <1>3, <1>5, BareGains
      <3>2. BareOne(d, v) = 0
        BY <1>3 DEF BareOne
      <3>3. Bare(holds, v)' = Bare(holds \cup {d}, v)
        BY <1>1 DEF Bare
      <3>. QED
        BY <3>1, <3>2, <3>3, WatchNumbers DEF WatchInv
    <2>7. Kept(v)' \in Nat /\ Kept(v) + One(v, w) <= Kept(v)'
      BY <1>7, KeptCount DEF One
    <2>8. /\ Watched(v) /\ processing'[v] = processing[v]
          /\ stranded'[v] = stranded[v]
      BY <1>1 DEF WatchInv
    <2>9. Watched(v)'
      <3>1. /\ Kept(v) \in Nat /\ Popped(v) \in Nat /\ Buffered(v) \in Nat
            /\ Bare(holds, v) \in Nat /\ stranded[v] \in Nat
            /\ processing[v] \in Nat
        BY WatchNumbers DEF WatchInv
      <3>2. One(v, w) \in Nat
        BY DEF One
      <3>3. Kept(v) + Popped(v) <= Kept(v)' + Popped(v)'
        BY <2>3, <2>4, <2>7, <3>1, <3>2
      <3>. QED
        BY <2>3, <2>5, <2>6, <2>7, <2>8, <3>1, <3>3 DEF Watched
    <2>. QED
      BY <2>1, <2>5, <2>9
  <1>. QED
    BY <1>8 DEF WatchInv, CountsFinite

\* One ZADD of a pipeline: the entry has a record from here on, or is buffered
\* without one.
LEMMA TrackNextWatch ==
    ASSUME TypeInv, TypeInv', ClaimInv, Own, PlaceInv, WatchInv, NEW s \in Subs,
           NEW runs \in BOOLEAN, TrackNext(s, runs)
    PROVE  WatchInv'
  <1>0. PICK w, c, e, q, m : /\ w = Head(mine[s]) /\ c = claims + 1
                             /\ e = Claim(w, c, runs)
                             /\ q = buffer[s] /\ m = mine[s]
    OBVIOUS
  <1>1. /\ tracked' = IF runs THEN Recorded(s, w) ELSE tracked
        /\ claims' = claims + 1 /\ pc[s] = "track"
        /\ UNCHANGED <<processing, due, holds, stranded>>
    BY <1>0 DEF TrackNext, Counted, history
  <1>2. /\ mine'[s] = Tail(m) /\ pc'[s] \in {"read", "track"}
        /\ buffer'[s] = Append(q, e)
        /\ \A r \in Subs \ {s} :
              /\ pc'[r] = pc[r] /\ mine'[r] = mine[r]
              /\ buffer'[r] = buffer[r]
    <2>1. /\ mine' = [mine EXCEPT ![s] = Tail(@)]
          /\ pc' = [pc EXCEPT ![s] = IF Len(mine[s]) = 1 THEN "read" ELSE @]
          /\ buffer' = [buffer EXCEPT ![s] = Append(@, e)]
      BY <1>0 DEF TrackNext, Counted
    <2>. QED
      BY <1>0, <1>1, <2>1, ReadTypes
  <1>3. m \in Seq(Vals) /\ m # <<>> /\ w = Head(m) /\ w \in Vals
    <2>1. m \in Seq(Vals) /\ m # <<>> /\ w = Head(m)
      BY <1>0, <1>1, ReadTypes DEF Handful
    <2>. QED
      BY <2>1, HeadTailProperties
  <1>4. /\ e \in Claimed /\ q \in Seq(Claimed)
        /\ e.val = w /\ e.recorded = runs /\ e.claim = c
    <2>1. e = [val |-> w, claim |-> c, recorded |-> runs]
      BY <1>0 DEF Claim
    <2>2. c \in Nat /\ q \in Seq(Claimed)
      BY <1>0, ReadTypes
    <2>. QED
      BY <1>3, <2>1, <2>2 DEF Claimed
  <1>5. /\ Moving(s) = m /\ Moving(s)' = mine'[s]
        /\ \A r \in Subs \ {s} : Moving(r)' = Moving(r)
    BY <1>0, <1>1, <1>2 DEF Moving
  <1>6. \A r \in Subs : pc'[r] \in {"push", "forget"} => pc'[r] = pc[r]
    BY <1>2
  <1>7. ASSUME NEW v \in Vals
        PROVE  Kept(v)' \in Nat /\ Kept(v)' + BareOne(e, v) >= Kept(v) + One(v, w)
    <2>1. CASE runs
      <3>1. tracked' = Recorded(s, w)
        BY <1>1, <2>1
      <3>2. \A h \in holds' : h.stage = "removed" => h \in holds
        BY <1>1
      <3>3. /\ \A x : KeptOf(x) \subseteq KeptOf(x)'
            /\ c \notin KeptOf(w) /\ KeptOf(w) \cup {c} \subseteq KeptOf(w)'
        BY <1>0, <1>1, <1>3, <1>6, <3>1, <3>2, NewIsKept
      <3>4. Kept(v)' \in Nat /\ Kept(v) \in Nat /\ Kept(v) + One(v, w) <= Kept(v)'
        BY <3>3, KeptCount DEF One
      <3>5. BareOne(e, v) = 0 /\ One(v, w) \in Nat
        BY <1>4, <2>1 DEF BareOne, One
      <3>. QED
        BY <3>4, <3>5
    <2>2. CASE ~runs
      <3>1. tracked' = tracked
        BY <1>1, <2>2
      <3>2. \A r \in Subs : pc'[r] \in {"push", "forget"} =>
               pc[r] \in {"push", "forget"} /\ due'[r] = due[r]
        BY <1>1, <1>6
      <3>3. KeptOf(v) \subseteq KeptOf(v)'
        BY <1>1, <3>1, <3>2, KeptStays
      <3>4. Kept(v)' \in Nat /\ Kept(v) \in Nat /\ Kept(v) <= Kept(v)'
        BY <3>3, KeptCount
      <3>5. BareOne(e, v) = One(v, w) /\ One(v, w) \in Nat
        BY <1>4, <2>2 DEF BareOne, One
      <3>. QED
        BY <3>4, <3>5
    <2>. QED
      BY <2>1, <2>2
  <1>8. ASSUME NEW v \in Vals
        PROVE  /\ IsFiniteSet(Pairs(InHands(v)))'
               /\ IsFiniteSet(Pairs(InBuffers(v)))'
               /\ Watched(v)'
    <2>1. /\ IsFiniteSet(Pairs(InHands(v)))'
          /\ Times(m, {v}) \in Nat /\ Times(Tail(m), {v}) \in Nat
          /\ Popped(v)' + Times(m, {v}) = Popped(v) + Times(Tail(m), {v})
      BY <1>2, <1>5, HandsChange DEF WatchInv
    <2>2. Times(m, {v}) = Times(Tail(m), {v}) + One(v, w) /\ One(v, w) \in Nat
      <3>1. Times(m, {v}) = Times(Tail(m), {v}) + In(w, {v})
        BY <1>3, TimesTail
      <3>. QED
        BY <3>1 DEF In, One
    <2>3. /\ IsFiniteSet(Pairs(InBuffers(v)))'
          /\ Times(q, BareClaims(v)) \in Nat
          /\ Buffered(v)' + Times(q, BareClaims(v))
               = Buffered(v) + Times(buffer'[s], BareClaims(v))
      BY <1>0, <1>2, BuffersChange DEF WatchInv
    <2>4. Times(buffer'[s], BareClaims(v))
            = Times(q, BareClaims(v)) + BareOne(e, v)
          /\ BareOne(e, v) \in Nat
      BY <1>2, <1>4, TimesAppend, InBare
    <2>5. Popped(v)' \in Nat /\ Buffered(v)' \in Nat
      BY <2>1, <2>3, FS_CardinalityType DEF Popped, Buffered
    <2>6. /\ Kept(v) \in Nat /\ Popped(v) \in Nat /\ Buffered(v) \in Nat
          /\ Bare(holds, v) \in Nat /\ stranded[v] \in Nat
          /\ processing[v] \in Nat
      BY WatchNumbers DEF WatchInv
    <2>7. Popped(v)' + One(v, w) = Popped(v)
      BY <2>1, <2>2, <2>5, <2>6
    <2>8. Buffered(v)' = Buffered(v) + BareOne(e, v)
      BY <2>3, <2>4, <2>5, <2>6
    <2>9. Kept(v) + Popped(v) + Buffered(v)
            <= Kept(v)' + Popped(v)' + Buffered(v)'
      <3>1. One(v, w) \in Nat /\ BareOne(e, v) \in Nat
        BY <2>2, <2>4
      <3>. QED
        BY <1>7, <2>5, <2>6, <2>7, <2>8, <3>1
    <2>10. /\ Watched(v) /\ processing'[v] = processing[v]
           /\ stranded'[v] = stranded[v] /\ Bare(holds, v)' = Bare(holds, v)
      BY <1>1 DEF WatchInv, Bare
    <2>11. Watched(v)'
      BY <1>7, <2>5, <2>6, <2>9, <2>10 DEF Watched
    <2>. QED
      BY <2>1, <2>3, <2>11
  <1>. QED
    BY <1>8 DEF WatchInv, CountsFinite

\* An entry without a record is handled without one.
LEMMA YieldWatch ==
    ASSUME TypeInv, TypeInv', ClaimInv, WatchInv, NEW s \in Subs, Yield(s)
    PROVE  WatchInv'
  <1>0. PICK e, d, q : q = buffer[s] /\ e = Head(q) /\ d = Delivery(s, e)
    OBVIOUS
  <1>1. /\ q # <<>> /\ holds' = holds \cup {d}
        /\ UNCHANGED <<processing, tracked, pc, due, mine, stranded>>
    BY <1>0 DEF Yield, lists, history
  <1>2. /\ q \in Seq(Claimed) /\ buffer'[s] = Tail(q)
        /\ \A r \in Subs \ {s} : buffer'[r] = buffer[r]
    BY <1>0, ReadTypes DEF Yield
  <1>3. /\ d.claim = e.claim /\ d.val = e.val /\ d.recorded = e.recorded
        /\ d.stage = "held"
    BY <1>0 DEF Delivery
  <1>4. e \in Range(q) /\ e \in Claimed
    <2>1. e \in Range(q)
      BY <1>0, <1>1, <1>2, RangeTail
    <2>2. e \in Claimed
      BY <1>0, <1>1, <1>2, HeadTailProperties
    <2>. QED
      BY <2>1, <2>2
  <1>5. d \notin holds
    BY <1>0, <1>3, <1>4 DEF ClaimInv, BuffersClaim
  <1>6. \A v \in Vals : KeptOf(v) \subseteq KeptOf(v)'
    <2>1. \A h \in holds' : h.stage = "removed" => h \in holds
      BY <1>1, <1>3
    <2>. QED
      BY <1>1, <2>1, KeptStays
  <1>7. \A r \in Subs : Moving(r)' = Moving(r)
    BY <1>1 DEF Moving
  <1>8. ASSUME NEW v \in Vals
        PROVE  /\ IsFiniteSet(Pairs(InHands(v)))'
               /\ IsFiniteSet(Pairs(InBuffers(v)))'
               /\ Watched(v)'
    <2>1. IsFiniteSet(Pairs(InHands(v)))' /\ Popped(v)' = Popped(v)
      BY <1>7, HandsStay DEF WatchInv
    <2>2. /\ IsFiniteSet(Pairs(InBuffers(v)))'
          /\ Times(q, BareClaims(v)) \in Nat /\ Times(Tail(q), BareClaims(v)) \in Nat
          /\ Buffered(v)' + Times(q, BareClaims(v))
               = Buffered(v) + Times(Tail(q), BareClaims(v))
      BY <1>0, <1>2, BuffersChange DEF WatchInv
    <2>3. /\ Times(q, BareClaims(v))
                = Times(Tail(q), BareClaims(v)) + BareOne(e, v)
          /\ BareOne(e, v) \in Nat
      BY <1>0, <1>1, <1>2, <1>4, TimesTail, InBare
    <2>4. Buffered(v)' \in Nat
      BY <2>2, FS_CardinalityType DEF Buffered
    <2>5. /\ Kept(v) \in Nat /\ Popped(v) \in Nat /\ Buffered(v) \in Nat
          /\ Bare(holds, v) \in Nat /\ stranded[v] \in Nat
          /\ processing[v] \in Nat
      BY WatchNumbers DEF WatchInv
    <2>6. Buffered(v)' + BareOne(e, v) = Buffered(v)
      BY <2>2, <2>3, <2>4, <2>5
    <2>7. Bare(holds, v)' = Bare(holds, v) + BareOne(e, v)
      <3>1. Bare(holds \cup {d}, v) = Bare(holds, v) + BareOne(d, v)
        BY <1>3, <1>5, BareGains
      <3>2. BareOne(d, v) = BareOne(e, v)
        BY <1>3 DEF BareOne
      <3>3. Bare(holds, v)' = Bare(holds \cup {d}, v)
        BY <1>1 DEF Bare
      <3>. QED
        BY <3>1, <3>2, <3>3
    <2>8. Kept(v)' \in Nat /\ Kept(v) <= Kept(v)'
      BY <1>6, KeptCount
    <2>9. /\ Watched(v) /\ processing'[v] = processing[v]
          /\ stranded'[v] = stranded[v]
      BY <1>1 DEF WatchInv
    <2>10. BareOne(e, v) \in Nat
      BY <2>3
    <2>11. Watched(v)'
      BY <2>1, <2>4, <2>5, <2>6, <2>7, <2>8, <2>9, <2>10 DEF Watched
    <2>. QED
      BY <2>1, <2>2, <2>11
  <1>. QED
    BY <1>8 DEF WatchInv, CountsFinite

\* The LREM of a verdict, run or failed: the record of the claim is doomed, or
\* it had none and the delivery no longer counts.
LEMMA RemovedCounts ==
    ASSUME TypeInv, TypeInv', ClaimInv, CountsFinite, NEW h \in holds,
           h.stage # "removed", holds' = At(h, "removed"),
           UNCHANGED <<tracked, reader>>, NEW v \in Vals
    PROVE  /\ Kept(v)' \in Nat /\ Bare(holds, v)' \in Nat
           /\ Kept(v) + Bare(holds, v) - One(v, h.val)
                <= Kept(v)' + Bare(holds, v)'
  <1>0. PICK x : x = [h EXCEPT !.stage = "removed"]
    OBVIOUS
  <1>1. /\ x.claim = h.claim /\ holds' = (holds \ {h}) \cup {x}
    BY <1>0, AtTypes DEF At, Stages
  <1>2. KeptOf(v) \ {h.claim} \subseteq KeptOf(v)'
    <2> SUFFICES ASSUME NEW d \in KeptOf(v), d # h.claim PROVE d \in KeptOf(v)'
      OBVIOUS
    <2>1. d \in DOMAIN tracked /\ tracked[d].val = v /\ ~Doomed(d)
      BY DEF KeptOf
    <2>2. ~Doomed(d)'
      BY <1>1, <2>1 DEF Doomed, reader
    <2>. QED
      BY <2>1, <2>2 DEF KeptOf
  <1>3. Agrees(h)
    BY DEF ClaimInv, HoldsClaim
  <1>4. Bare(holds, v)' = Bare(holds, v) - BareOne(h, v)
    <2>1. Bare(At(h, "removed"), v) = Bare(holds, v) - BareOne(h, v)
      BY BareRemoved
    <2>2. Bare(holds, v)' = Bare(At(h, "removed"), v)
      BY DEF Bare
    <2>. QED
      BY <2>1, <2>2
  <1>5. Bare(holds, v)' \in Nat
    <2>1. IsFiniteSet(BareOf(holds', v))
      BY FS_Subset DEF TypeInv, FiniteInv, BareOf
    <2>2. Bare(holds, v)' = Cardinality(BareOf(holds', v))
      BY DEF Bare, BareOf
    <2>. QED
      BY <2>1, <2>2, FS_CardinalityType
  <1>6. Kept(v)' \in Nat /\ Kept(v) \in Nat /\ Bare(holds, v) \in Nat
    BY KeptCount, WatchNumbers
  <1>7. CASE h.claim \in KeptOf(v)
    <2>1. h.recorded /\ h.val = v
      BY <1>3, <1>7 DEF Agrees, KeptOf
    <2>2. BareOne(h, v) = 0 /\ One(v, h.val) = 1
      BY <2>1 DEF BareOne, One
    <2>3. Kept(v) - 1 <= Kept(v)'
      BY <1>2, KeptCount
    <2>. QED
      BY <1>4, <1>5, <1>6, <2>2, <2>3
  <1>8. CASE h.claim \notin KeptOf(v)
    <2>1. Kept(v) <= Kept(v)'
      <3>1. KeptOf(v) \subseteq KeptOf(v)'
        BY <1>2, <1>8
      <3>. QED
        BY <3>1, KeptCount
    <2>2. BareOne(h, v) <= One(v, h.val) /\ BareOne(h, v) \in Nat
          /\ One(v, h.val) \in Nat
      BY DEF BareOne, One
    <2>. QED
      BY <1>4, <1>5, <1>6, <2>1, <2>2
  <1>. QED
    BY <1>7, <1>8

LEMMA RemoveWatch ==
    ASSUME TypeInv, TypeInv', ClaimInv, WatchInv, NEW h \in holds,
           Ack(h) \/ RemoveRetried(h) \/ RemoveFails(h)
    PROVE  WatchInv'
  <1>0. PICK w : w = h.val
    OBVIOUS
  <1>1. /\ h.stage # "removed" /\ holds' = At(h, "removed")
        /\ UNCHANGED <<tracked, reader>>
        /\ \/ processing' = Minus(processing, w) /\ stranded' = stranded
           \/ processing' = processing /\ stranded' = Plus(stranded, w)
    BY <1>0 DEF Ack, RemoveRetried, RemoveFails, Remove, Begins, lists
  <1>2. UNCHANGED <<pc, mine, buffer>>
    BY <1>1 DEF reader
  <1>3. w \in Vals
    BY <1>0 DEF TypeInv, HoldTyped, Hold
  <1>4. ASSUME NEW v \in Vals
        PROVE  /\ IsFiniteSet(Pairs(InHands(v)))'
               /\ IsFiniteSet(Pairs(InBuffers(v)))'
               /\ Watched(v)'
    <2>1. IsFiniteSet(Pairs(InHands(v)))' /\ Popped(v)' = Popped(v)
      BY <1>2, HandsStay DEF WatchInv, Moving
    <2>2. IsFiniteSet(Pairs(InBuffers(v)))' /\ Buffered(v)' = Buffered(v)
      BY <1>2, BuffersStay DEF WatchInv
    <2>3. /\ Kept(v)' \in Nat /\ Bare(holds, v)' \in Nat
          /\ Kept(v) + Bare(holds, v) - One(v, w) <= Kept(v)' + Bare(holds, v)'
      BY <1>0, <1>1, RemovedCounts DEF WatchInv
    <2>4. /\ Kept(v) \in Nat /\ Popped(v) \in Nat /\ Buffered(v) \in Nat
          /\ Bare(holds, v) \in Nat /\ stranded[v] \in Nat
          /\ processing[v] \in Nat
      BY WatchNumbers DEF WatchInv
    <2>5. /\ Watched(v) /\ One(v, w) \in Nat
          /\ processing \in [Vals -> Nat] /\ stranded \in [Vals -> Nat]
      BY DEF WatchInv, One, TypeInv, ListTyped, CountTyped
    <2>6. \/ /\ processing'[v] = 0 /\ stranded'[v] = stranded[v]
          \/ /\ processing'[v] = processing[v] - One(v, w)
             /\ stranded'[v] = stranded[v]
          \/ /\ processing'[v] = processing[v]
             /\ stranded'[v] = stranded[v] + One(v, w)
      <3>1. CASE processing' = Minus(processing, w) /\ stranded' = stranded
        <4>1. v = w \/ v # w
          OBVIOUS
        <4>2. CASE v # w
          <5>1. processing'[v] = processing[v] /\ One(v, w) = 0
            BY <1>3, <2>5, <3>1, <4>2, Bumped DEF One
          <5>. QED
            BY <2>4, <3>1, <5>1
        <4>3. CASE v = w
          <5>1. /\ processing'[v] =
                      IF processing[v] = 0 THEN 0 ELSE processing[v] - 1
                /\ One(v, w) = 1
            BY <1>3, <2>5, <3>1, <4>3, Bumped DEF One
          <5>. QED
            BY <3>1, <5>1
        <4>. QED
          BY <4>1, <4>2, <4>3
      <3>2. CASE processing' = processing /\ stranded' = Plus(stranded, w)
        BY <1>3, <2>5, <3>2, PlusOne
      <3>. QED
        BY <1>1, <3>1, <3>2
    <2>7. Watched(v)'
      BY <2>1, <2>2, <2>3, <2>4, <2>5, <2>6 DEF Watched
    <2>. QED
      BY <2>1, <2>2, <2>7
  <1>. QED
    BY <1>4 DEF WatchInv, CountsFinite

\* A delivery that ends unsettled strands the entry if nothing recorded it.
LEMMA LeaveWatch ==
    ASSUME TypeInv, TypeInv', WatchInv, NEW h \in holds, Leave({h})
    PROVE  WatchInv'
  <1>1. /\ holds' = holds \ {h}
        /\ stranded' = [v \in Vals |-> stranded[v] + Bare({h}, v)]
        /\ UNCHANGED <<processing, tracked, reader>>
    BY DEF Leave, lists
  <1>2. UNCHANGED <<pc, due, mine, buffer>>
    BY <1>1 DEF reader
  <1>3. \A v \in Vals : KeptOf(v) \subseteq KeptOf(v)'
    <2>1. \A g \in holds' : g.stage = "removed" => g \in holds
      BY <1>1
    <2>. QED
      BY <1>1, <1>2, <2>1, KeptStays
  <1>4. ASSUME NEW v \in Vals
        PROVE  /\ IsFiniteSet(Pairs(InHands(v)))'
               /\ IsFiniteSet(Pairs(InBuffers(v)))'
               /\ Watched(v)'
    <2>1. IsFiniteSet(Pairs(InHands(v)))' /\ Popped(v)' = Popped(v)
      BY <1>2, HandsStay DEF WatchInv, Moving
    <2>2. IsFiniteSet(Pairs(InBuffers(v)))' /\ Buffered(v)' = Buffered(v)
      BY <1>2, BuffersStay DEF WatchInv
    <2>3. Kept(v)' \in Nat /\ Kept(v) <= Kept(v)'
      BY <1>3, KeptCount
    <2>4. /\ Kept(v) \in Nat /\ Popped(v) \in Nat /\ Buffered(v) \in Nat
          /\ Bare(holds, v) \in Nat /\ stranded[v] \in Nat
          /\ processing[v] \in Nat
      BY WatchNumbers DEF WatchInv
    <2>5. /\ Bare(holds, v)' = Bare(holds, v) - Bare({h}, v)
          /\ Bare({h}, v) \in Nat
      <3>1. /\ Bare(holds \ {h}, v) = Bare(holds, v) - Bare({h}, v)
            /\ Bare({h}, v) \in Nat
        BY BareLeaves
      <3>2. Bare(holds, v)' = Bare(holds \ {h}, v)
        BY <1>1 DEF Bare
      <3>. QED
        BY <3>1, <3>2
    <2>6. /\ Watched(v) /\ processing'[v] = processing[v]
          /\ stranded'[v] = stranded[v] + Bare({h}, v)
      BY <1>1 DEF WatchInv
    <2>7. Watched(v)'
      BY <2>1, <2>2, <2>3, <2>4, <2>5, <2>6 DEF Watched
    <2>. QED
      BY <2>1, <2>2, <2>7
  <1>. QED
    BY <1>4 DEF WatchInv, CountsFinite

\* What a read had in its hands and its buffer is stranded when it ends.
LEMMA GoneWatch ==
    ASSUME TypeInv, TypeInv', WatchInv, NEW s \in Subs, NEW hs,
           hs \subseteq holds, Gone(s, hs)
    PROVE  WatchInv'
  <1>1. /\ holds' = holds \ hs
        /\ stranded' = [v \in Vals |->
                       stranded[v] + Times(Moving(s), {v})
                       + Times(buffer[s], BareClaims(v)) + Bare(hs, v)]
        /\ UNCHANGED <<processing, tracked>>
    BY DEF Gone, lists
  <1>2. /\ pc'[s] = "read" /\ mine'[s] = <<>> /\ buffer'[s] = <<>>
        /\ \A r \in Subs \ {s} :
              /\ pc'[r] = pc[r] /\ mine'[r] = mine[r]
              /\ buffer'[r] = buffer[r] /\ due'[r] = due[r]
    BY ReadTypes DEF Gone
  <1>3. \A v \in Vals : KeptOf(v) \subseteq KeptOf(v)'
    <2>1. \A r \in Subs : pc'[r] \in {"push", "forget"} =>
             pc[r] \in {"push", "forget"} /\ due'[r] = due[r]
      BY <1>2
    <2>2. \A g \in holds' : g.stage = "removed" => g \in holds
      BY <1>1
    <2>. QED
      BY <1>1, <2>1, <2>2, KeptStays
  <1>4. Moving(s)' = <<>> /\ \A r \in Subs \ {s} : Moving(r)' = Moving(r)
    BY <1>2 DEF Moving
  <1>5. ASSUME NEW v \in Vals
        PROVE  /\ IsFiniteSet(Pairs(InHands(v)))'
               /\ IsFiniteSet(Pairs(InBuffers(v)))'
               /\ Watched(v)'
    <2>1. /\ IsFiniteSet(Pairs(InHands(v)))' /\ Times(Moving(s), {v}) \in Nat
          /\ Popped(v)' + Times(Moving(s), {v}) = Popped(v) + Times(<<>>, {v})
      BY <1>4, HandsChange DEF WatchInv
    <2>2. /\ IsFiniteSet(Pairs(InBuffers(v)))'
          /\ Times(buffer[s], BareClaims(v)) \in Nat
          /\ Buffered(v)' + Times(buffer[s], BareClaims(v))
               = Buffered(v) + Times(<<>>, BareClaims(v))
      BY <1>2, BuffersChange DEF WatchInv
    <2>3. Times(<<>>, {v}) = 0 /\ Times(<<>>, BareClaims(v)) = 0
      BY PlacesNone
    <2>4. Popped(v)' \in Nat /\ Buffered(v)' \in Nat
      BY <2>1, <2>2, FS_CardinalityType DEF Popped, Buffered
    <2>5. /\ Kept(v) \in Nat /\ Popped(v) \in Nat /\ Buffered(v) \in Nat
          /\ Bare(holds, v) \in Nat /\ stranded[v] \in Nat
          /\ processing[v] \in Nat
      BY WatchNumbers DEF WatchInv
    <2>6. Popped(v)' + Times(Moving(s), {v}) = Popped(v)
      BY <2>1, <2>3, <2>5
    <2>7. Buffered(v)' + Times(buffer[s], BareClaims(v)) = Buffered(v)
      BY <2>2, <2>3, <2>5
    <2>8. /\ Bare(holds, v)' = Bare(holds, v) - Bare(hs, v)
          /\ Bare(hs, v) \in Nat
      <3>1. /\ Bare(holds \ hs, v) = Bare(holds, v) - Bare(hs, v)
            /\ Bare(hs, v) \in Nat
        BY BareLeaves
      <3>2. Bare(holds, v)' = Bare(holds \ hs, v)
        BY <1>1 DEF Bare
      <3>. QED
        BY <3>1, <3>2
    <2>9. /\ Watched(v) /\ processing'[v] = processing[v]
          /\ stranded'[v] = stranded[v] + Times(Moving(s), {v})
                + Times(buffer[s], BareClaims(v)) + Bare(hs, v)
      BY <1>1 DEF WatchInv
    <2>10. Kept(v)' \in Nat /\ Kept(v) <= Kept(v)'
      BY <1>3, KeptCount
    <2>11. Times(Moving(s), {v}) \in Nat
           /\ Times(buffer[s], BareClaims(v)) \in Nat
      BY <2>1, <2>2
    <2>12. Watched(v)'
      BY <2>4, <2>5, <2>6, <2>7, <2>8, <2>9, <2>10, <2>11 DEF Watched
    <2>. QED
      BY <2>1, <2>2, <2>12
  <1>. QED
    BY <1>5 DEF WatchInv, CountsFinite

LEMMA WatchStep ==
    ASSUME TypeInv, TypeInv', ClaimInv, Own, PlaceInv, WatchInv, [Next]_vars
    PROVE  WatchInv'
  <1>1. CASE \/ UNCHANGED vars
             \/ \E v \in Vals : Push(v)
    <2>1. UNCHANGED <<processing, tracked, reader, holds, stranded>>
      BY <1>1 DEF vars, lists, history, Push
    <2>. QED
      BY <2>1, QuietWatch
  <1>2. ASSUME NEW s \in Subs, ReadFails(s) \/ Crash(s) \/ Exit(s)
        PROVE  WatchInv'
    <2>1. \E hs \in SUBSET holds : Gone(s, hs)
      <3>1. {h \in holds : h.sub = s} \in SUBSET holds /\ {} \in SUBSET holds
        OBVIOUS
      <3>. QED
        BY <1>2, <3>1 DEF ReadFails, Crash, Exit, ProcessEnds
    <2>. QED
      BY <2>1, GoneWatch
  <1>3. ASSUME NEW s \in Subs,
               \/ Read(s) \/ Crash(s) \/ ReadFails(s) \/ Exit(s) \/ Shutdown(s)
               \/ MoveFails(s) \/ TrackNext(s, FALSE)
        PROVE  WatchInv'
    BY <1>2, <1>3, ReadQuietWatch, TakeOffWatch, MoveWatch, MovesEndWatch,
       TrackWatch, TrackNextWatch, YieldWatch
    DEF Read
  <1>4. ASSUME NEW h \in holds, SettleRefused(h) \/ SettleFails(h)
        PROVE  WatchInv'
    BY <1>4, LeaveWatch DEF SettleRefused, SettleFails
  <1>5. ASSUME NEW h \in holds,
               \/ Verdict(h) \/ Decide(h, "nacked") \/ Retry(h)
               \/ SettleFails(h) \/ RemoveFails(h)
        PROVE  WatchInv'
    BY <1>4, <1>5, VerdictQuietWatch, RemoveWatch DEF Verdict
  <1>. QED
    BY <1>1, <1>3, <1>5, AgeWatch, ExpireWatch DEF Next

LEMMA InitWatch == Init => WatchInv
  <1> SUFFICES ASSUME Init PROVE WatchInv
    OBVIOUS
  <1>1. TypeInv
    BY InitTypes
  <1>2. ASSUME NEW v \in Vals
        PROVE  /\ IsFiniteSet(Pairs(InHands(v)))
               /\ IsFiniteSet(Pairs(InBuffers(v)))
    <2>1. \A s \in Subs : mine[s] = <<>> /\ buffer[s] = <<>> /\ pc[s] = "read"
      BY DEF Init
    <2>2. \A s \in Subs : InHands(v)[s] = {} /\ InBuffers(v)[s] = {}
      BY <2>1, PlacesNone DEF InHands, InBuffers, Moving
    <2>3. DOMAIN InHands(v) = Subs /\ DOMAIN InBuffers(v) = Subs
      BY DEF InHands, InBuffers
    <2>4. Pairs(InHands(v)) = {} /\ Pairs(InBuffers(v)) = {}
      BY <2>2, <2>3 DEF Pairs
    <2>. QED
      BY <2>4, FS_EmptySet
  <1>3. CountsFinite
    BY <1>2 DEF CountsFinite
  <1>4. ASSUME NEW v \in Vals PROVE Watched(v)
    <2>1. processing[v] = 0
      BY DEF Init, Zero
    <2>. QED
      BY <1>1, <1>3, <2>1, WatchNumbers DEF Watched
  <1>. QED
    BY <1>3, <1>4 DEF WatchInv

\* Every process of every behaviour has an id of its own: none comes back with
\* a restart, and no two containers have the same.
OwnIds == \A ld \in Loads : ld.ids

LEMMA WatchHolds ==
    ASSUME OwnIds
    PROVE  Spec => [](TypeInv /\ SaltInv /\ ClaimInv /\ PlaceInv /\ WatchInv)
  <1> DEFINE Inv == TypeInv /\ SaltInv /\ ClaimInv /\ PlaceInv /\ WatchInv
  <1>1. Init => Inv
    BY InitTypes, InitSalt, InitClaims, InitPlace, InitWatch
  <1>2. Inv /\ [Next]_vars => Inv'
    <2> SUFFICES ASSUME Inv, [Next]_vars PROVE Inv'
      OBVIOUS
    <2>1. TypeInv' /\ SaltInv'
      BY TypeStep, SaltStep
    <2>2. load.ids
      BY DEF OwnIds, TypeInv, ProcessTyped
    <2>3. Own
      BY <2>2, OwnMembers
    <2>. QED
      BY <2>1, <2>3, ClaimStep, PlaceStep, WatchStep
  <1> HIDE DEF Inv
  <1>3. Spec => []Inv
    BY <1>1, <1>2, PTL DEF Spec
  <1>. QED
    BY <1>3 DEF Inv

\* Where every process has an id of its own, every occurrence on the processing
\* list has a record whose entry is still to be taken off, is in the hands or
\* the buffer of a read or at a handler that will take it off, or is one of
\* those that a failing command, a crash or an expiry left behind
\* (recovery.rs:78-89, recovery.rs:163-190, list.rs:766-803).
THEOREM WatchdogKnowsEveryClaim ==
    ASSUME OwnIds PROVE Spec => []ClaimsAreWatched
  <1>1. TypeInv /\ WatchInv => ClaimsAreWatched
    <2> SUFFICES ASSUME TypeInv, WatchInv, NEW v \in Vals
                 PROVE  processing[v] <=
                           Tracked(v) + Popped(v) + Unrecorded(v) + stranded[v]
      BY DEF ClaimsAreWatched
    <2>1. Watched(v)
      BY DEF WatchInv
    <2>. QED
      BY <2>1, WatchNumbers DEF WatchInv, Watched, Unrecorded
  <1>. QED
    BY <1>1, WatchHolds, PTL

=============================================================================
