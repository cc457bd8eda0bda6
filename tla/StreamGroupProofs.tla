-------------------------- MODULE StreamGroupProofs --------------------------
(***************************************************************************)
(* Proofs about StreamGroup, for every set of subscriptions, every read     *)
(* mode, every COUNT and every bound.                                       *)
(***************************************************************************)
EXTENDS StreamGroup, SequenceTheorems, WellFoundedInduction, TLAPS

\* Every id the group or a client holds is the id of an entry of the log, and
\* the cursor stays between the entries that are gone and the last one.
ServerIds == base <= cursor /\ cursor <= Len(log) /\ DOMAIN pel \subseteq Ids
ReaderIds ==
    /\ \A s \in Subs : \A k \in DOMAIN reply[s] : reply[s][k].id \in Ids
    /\ \A s \in Subs : \A k \in DOMAIN buffer[s] : buffer[s][k].id \in Ids
HandlerIds == \A d \in deliveries : d.id \in Ids
IdsKnown == ServerIds /\ ReaderIds /\ HandlerIds

TypeInv == TypeOK /\ IdsKnown

-----------------------------------------------------------------------------
(* Lemmas about the operators.                                             *)

LEMMA IdsType == ASSUME log \in Seq(Msgs)
                 PROVE  Ids \subseteq Nat /\ Len(log) \in Nat
  BY LenProperties DEF Ids

LEMMA PickType ==
    ASSUME Count \in Nat, NEW from, NEW pick \in Picks(from)
    PROVE  /\ pick \in Seq(from)
           /\ Len(pick) \in 0..Count
           /\ pick \in [1..Len(pick) -> from]
           /\ DOMAIN pick = 1..Len(pick)
           /\ Elems(pick) \subseteq from
  <1>1. PICK n \in 0..Count : pick \in [1..n -> from]
    BY DEF Picks
  <1>2. n \in Nat
    BY <1>1
  <1>3. pick \in Seq(from)
    BY <1>1, <1>2, SeqDef
  <1>4. Len(pick) = n
    BY <1>1, <1>2, <1>3, LenProperties
  <1>. QED
    BY <1>1, <1>3, <1>4 DEF Elems

LEMMA SeqOfFunction ==
    ASSUME NEW S, NEW n \in Nat, NEW f \in [1..n -> S]
    PROVE  f \in Seq(S) /\ Len(f) = n
  <1>1. f \in Seq(S)
    BY SeqDef
  <1>. QED
    BY <1>1, LenProperties

LEMMA ClaimedType ==
    ASSUME NEW list, DOMAIN list \subseteq Nat,
           list \in [DOMAIN list -> Pending], NEW s \in Subs, NEW ids
    PROVE  /\ DOMAIN Claimed(list, ids, s) = DOMAIN list
           /\ Claimed(list, ids, s) \in [DOMAIN list -> Pending]
  BY DEF Claimed, Pending

LEMMA HandedOutType ==
    ASSUME NEW list, DOMAIN list \subseteq Nat,
           list \in [DOMAIN list -> Pending], NEW s \in Subs,
           NEW ids, ids \subseteq Nat
    PROVE  /\ DOMAIN HandedOut(list, ids, s) = DOMAIN list \cup ids
           /\ HandedOut(list, ids, s) \in [DOMAIN list \cup ids -> Pending]
  BY DEF HandedOut, Pending

LEMMA AckedType ==
    ASSUME NEW list, list \in [DOMAIN list -> Pending], NEW ids
    PROVE  /\ DOMAIN Acked(list, ids) = DOMAIN list \ ids
           /\ Acked(list, ids) \in [DOMAIN list \ ids -> Pending]
  BY DEF Acked

\* Two answers one after the other: every entry comes from one of them.
LEMMA ConcatEntries ==
    ASSUME NEW s1 \in Seq(Entry), NEW s2 \in Seq(Entry)
    PROVE  /\ s1 \o s2 \in Seq(Entry)
           /\ \A k \in DOMAIN (s1 \o s2) :
                 \/ \E j \in DOMAIN s1 : (s1 \o s2)[k] = s1[j]
                 \/ \E j \in DOMAIN s2 : (s1 \o s2)[k] = s2[j]
  <1>1. /\ Len(s1) \in Nat /\ DOMAIN s1 = 1..Len(s1)
        /\ Len(s2) \in Nat /\ DOMAIN s2 = 1..Len(s2)
    BY LenProperties
  <1>2. /\ s1 \o s2 \in Seq(Entry)
        /\ Len(s1 \o s2) = Len(s1) + Len(s2)
        /\ \A k \in 1..Len(s1) + Len(s2) :
              (s1 \o s2)[k] = IF k <= Len(s1) THEN s1[k] ELSE s2[k - Len(s1)]
    BY ConcatProperties
  <1>3. DOMAIN (s1 \o s2) = 1..Len(s1) + Len(s2)
    BY <1>2, LenProperties
  <1>4. ASSUME NEW k \in 1..Len(s1) + Len(s2)
        PROVE  \/ \E j \in DOMAIN s1 : (s1 \o s2)[k] = s1[j]
               \/ \E j \in DOMAIN s2 : (s1 \o s2)[k] = s2[j]
    <2>1. CASE k <= Len(s1)
      BY <1>1, <1>2, <2>1
    <2>2. CASE ~(k <= Len(s1))
      <3>1. k - Len(s1) \in DOMAIN s2
        BY <1>1, <2>2
      <3>. QED
        BY <1>2, <2>2, <3>1
    <2>. QED
      BY <2>1, <2>2
  <1>. QED
    BY <1>2, <1>3, <1>4

-----------------------------------------------------------------------------
(* Type correctness.                                                       *)

LEMMA ServerFrame == ServerTyped /\ UNCHANGED server => ServerTyped'
  BY DEF ServerTyped, server

LEMMA ReaderFrame == ReaderTyped /\ UNCHANGED reader => ReaderTyped'
  BY DEF ReaderTyped, reader

LEMMA ClientFrame ==
    ClientTyped /\ UNCHANGED <<generation, open, deliveries, seeks>>
        => ClientTyped'
  BY DEF ClientTyped

LEMMA HistoryFrame ==
    HistoryTyped /\ UNCHANGED <<history, bounds>> => HistoryTyped'
  BY DEF HistoryTyped, history, bounds

LEMMA InitTyped == Init => TypeInv
  <1> SUFFICES ASSUME Init PROVE TypeInv
    OBVIOUS
  <1>1. <<>> \in Seq(Msgs) /\ <<>> \in Seq(Entry) /\ Len(<<>>) = 0
    BY EmptySeq
  <1>2. ServerTyped /\ ReaderTyped
    BY <1>1 DEF Init, ServerTyped, ReaderTyped, ReadPc, NoPending
  <1>3. ClientTyped /\ HistoryTyped
    BY DEF Init, ClientTyped, HistoryTyped
  <1>4. IdsKnown
    BY <1>1 DEF Init, IdsKnown, ServerIds, ReaderIds, HandlerIds, Ids, NoPending
  <1>. QED
    BY <1>2, <1>3, <1>4 DEF TypeInv, TypeOK

\* What the answer to a read does, whichever of the three reads it is.
LEMMA AnswerTyped ==
    ASSUME TypeInv, Count \in Nat \ {0},
           NEW s \in Subs, NEW claimed, NEW from,
           from \subseteq DOMAIN pel, claimed \in Picks(from),
           NEW n \in Nat, n <= Len(log) - cursor, NEW next \in ReadPc,
           Answer(s, claimed, n, next)
    PROVE  /\ ServerTyped' /\ ClientTyped' /\ HistoryTyped'
           /\ pc' \in [Subs -> ReadPc]
           /\ reply' \in [Subs -> Seq(Entry)]
           /\ UNCHANGED <<buffer, bufGen, selAt>>
           /\ cursor' = cursor + n
           /\ DOMAIN pel' = DOMAIN pel \cup (cursor + 1 .. cursor + n)
           /\ \A k \in DOMAIN reply'[s] : reply'[s][k].id \in Ids
           /\ \A k \in DOMAIN reply'[s] : reply'[s][k].epoch = epoch
           /\ \A r \in Subs : r # s => reply'[r] = reply[r]
  <1> USE DEF TypeInv, TypeOK
  <1>0. Len(log) \in Nat /\ cursor \in Nat
    BY IdsType DEF ServerTyped
  <1>1. /\ claimed \in [1..Len(claimed) -> from]
        /\ DOMAIN claimed = 1..Len(claimed)
        /\ Elems(claimed) \subseteq from
        /\ Len(claimed) \in Nat
    BY PickType
  <1> DEFINE list == HandedOut(Claimed(pel, Elems(claimed), s),
                               cursor + 1 .. cursor + n, s)
             told(i) == IF Mode[s] = "claiming" THEN Annotated(i) ELSE {}
             tailTold == IF Mode[s] = "claiming" THEN {1} ELSE {}
             first == [k \in DOMAIN claimed |->
                         Make(claimed[k], told(claimed[k]),
                              pel[claimed[k]].count + 1)]
             rest == [k \in 1..n |-> Make(cursor + k, tailTold, 1)]
  <1>2. /\ pel' = list
        /\ reply' = [reply EXCEPT ![s] = first \o rest]
        /\ cursor' = cursor + n
        /\ pc' = [pc EXCEPT ![s] = next]
        /\ UNCHANGED <<log, base, grouped, buffer, bufGen, selAt>>
        /\ UNCHANGED <<generation, open, deliveries, seeks>>
        /\ UNCHANGED <<history, bounds>>
    BY DEF Answer
  <1>3. /\ DOMAIN list = DOMAIN pel \cup (cursor + 1 .. cursor + n)
        /\ list \in [DOMAIN list -> Pending]
        /\ DOMAIN list \subseteq Nat
    <2>1. Elems(claimed) \subseteq Nat /\ cursor + 1 .. cursor + n \subseteq Nat
      BY <1>0, <1>1 DEF ServerTyped
    <2> DEFINE list1 == Claimed(pel, Elems(claimed), s)
    <2>2. /\ DOMAIN list1 = DOMAIN pel
          /\ list1 \in [DOMAIN list1 -> Pending]
      BY ClaimedType DEF ServerTyped
    <2>3. DOMAIN list1 \subseteq Nat
      BY <2>2 DEF ServerTyped
    <2>4. list = HandedOut(list1, cursor + 1 .. cursor + n, s)
      OBVIOUS
    <2> HIDE DEF list1, list
    <2>5. /\ DOMAIN list = DOMAIN list1 \cup (cursor + 1 .. cursor + n)
          /\ list \in [DOMAIN list1 \cup (cursor + 1 .. cursor + n) -> Pending]
      BY <2>1, <2>2, <2>3, <2>4, HandedOutType
    <2>. QED
      BY <2>1, <2>2, <2>3, <2>5
  <1>4. first \in [1..Len(claimed) -> Entry] /\ rest \in [1..n -> Entry]
    <2>1. \A i \in from : pel[i].count \in Nat /\ i \in Nat
      BY DEF ServerTyped, Pending
    <2>2. epoch \in Nat
      BY DEF HistoryTyped
    <2>. QED
      BY <1>0, <1>1, <2>1, <2>2 DEF Make, Entry, Annotated
  <1>5. /\ first \in Seq(Entry) /\ Len(first) = Len(claimed)
        /\ rest \in Seq(Entry) /\ Len(rest) = n
    BY <1>1, <1>4, SeqOfFunction
  <1>6. \A k \in DOMAIN first : first[k].id \in Ids /\ first[k].epoch = epoch
    BY <1>1 DEF Make, IdsKnown, ServerIds
  <1>7. \A k \in DOMAIN rest : rest[k].id \in Ids /\ rest[k].epoch = epoch
    BY <1>0 DEF Make, Ids
  <1> HIDE DEF list, first, rest
  <1>8. /\ first \o rest \in Seq(Entry)
        /\ \A k \in DOMAIN (first \o rest) :
              /\ (first \o rest)[k].id \in Ids
              /\ (first \o rest)[k].epoch = epoch
    BY <1>5, <1>6, <1>7, ConcatEntries
  <1>9. ServerTyped'
    BY <1>0, <1>2, <1>3 DEF ServerTyped
  <1>10. ClientTyped' /\ HistoryTyped'
    BY <1>2, ClientFrame, HistoryFrame
  <1>11. pc' \in [Subs -> ReadPc] /\ reply' \in [Subs -> Seq(Entry)]
    BY <1>2, <1>8 DEF ReaderTyped
  <1>12. reply'[s] = first \o rest /\ \A r \in Subs : r # s => reply'[r] = reply[r]
    BY <1>2 DEF ReaderTyped
  <1>. QED
    BY <1>2, <1>3, <1>8, <1>9, <1>10, <1>11, <1>12

\* XPENDING changes what the entries were told, and nothing else of them.
LEMMA EnrichedReply ==
    ASSUME TypeInv, NEW s \in Subs, Enrich(s)
    PROVE  /\ reply' \in [Subs -> Seq(Entry)]
           /\ DOMAIN reply'[s] = DOMAIN reply[s]
           /\ \A k \in DOMAIN reply[s] :
                 /\ reply'[s][k].id = reply[s][k].id
                 /\ reply'[s][k].epoch = reply[s][k].epoch
                 /\ reply'[s][k].count = reply[s][k].count
           /\ \A r \in Subs : r # s => reply'[r] = reply[r]
  <1> USE DEF TypeInv, TypeOK
  <1> DEFINE told(e) == ListedCount(Listed(s), e.id)
             new == [k \in DOMAIN reply[s] |->
                        [reply[s][k] EXCEPT !.told = told(reply[s][k])]]
  <1>1. /\ reply[s] \in [1..Len(reply[s]) -> Entry]
        /\ Len(reply[s]) \in Nat
        /\ DOMAIN reply[s] = 1..Len(reply[s])
    BY LenProperties DEF ReaderTyped
  <1>2. \A e \in Entry : told(e) \in SUBSET Nat
    BY DEF ListedCount, Listed, ServerTyped, Pending
  <1>3. new \in [1..Len(reply[s]) -> Entry]
    BY <1>1, <1>2 DEF Entry
  <1>4. new \in Seq(Entry)
    BY <1>1, <1>3, SeqOfFunction
  <1>5. \A k \in DOMAIN reply[s] : /\ new[k].id = reply[s][k].id
                                  /\ new[k].epoch = reply[s][k].epoch
                                  /\ new[k].count = reply[s][k].count
    BY <1>1 DEF Entry
  <1>6. reply' = [reply EXCEPT ![s] = new]
    BY DEF Enrich
  <1>7. DOMAIN new = DOMAIN reply[s]
    OBVIOUS
  <1> HIDE DEF told, new
  <1>. QED
    BY <1>4, <1>5, <1>6, <1>7 DEF ReaderTyped

LEMMA EmptyPick == <<>> \in Picks({}) /\ {} \subseteq DOMAIN pel
  <1>1. <<>> \in [1..0 -> {}] /\ DOMAIN <<>> = {} /\ Elems(<<>>) = {}
    BY DEF Elems
  <1>2. 0 \in 0..Count
    BY ConstantsAssumption
  <1>. QED
    BY <1>1, <1>2 DEF Picks

\* The part of the buffer a yield takes, and the part it leaves.
LEMMA YieldedEntries ==
    ASSUME ReaderTyped, NEW s \in Subs, NEW n \in 1..Count, Yield(s, n)
    PROVE  /\ n \in 1..Len(buffer[s])
           /\ SubSeq(buffer[s], n + 1, Len(buffer[s])) \in Seq(Entry)
           /\ Elems(SubSeq(buffer[s], n + 1, Len(buffer[s])))
                 \subseteq Elems(buffer[s])
           /\ Elems(SubSeq(buffer[s], 1, n)) \subseteq Elems(buffer[s])
           /\ Elems(SubSeq(buffer[s], 1, n)) \subseteq Entry
  <1>1. /\ buffer[s] \in Seq(Entry) /\ Len(buffer[s]) \in Nat
        /\ DOMAIN buffer[s] = 1..Len(buffer[s])
        /\ \A k \in 1..Len(buffer[s]) : buffer[s][k] \in Entry
    BY LenProperties DEF ReaderTyped
  <1>2. Len(buffer[s]) # 0
    BY <1>1, EmptySeq DEF Yield, Current
  <1>3. n \in 1..Len(buffer[s])
    BY <1>1, <1>2, ConstantsAssumption DEF Yield, Smaller
  <1>4. ASSUME NEW i \in 1..Len(buffer[s]) + 1, NEW j \in 0..Len(buffer[s])
        PROVE  /\ SubSeq(buffer[s], i, j) \in Seq(Entry)
               /\ Elems(SubSeq(buffer[s], i, j)) \subseteq Elems(buffer[s])
    <2>1. /\ SubSeq(buffer[s], i, j) \in Seq(Entry)
          /\ Len(SubSeq(buffer[s], i, j)) = IF i <= j THEN j - i + 1 ELSE 0
          /\ \A k \in 1..j - i + 1 :
                SubSeq(buffer[s], i, j)[k] = buffer[s][i + k - 1]
      BY <1>1, SubSeqProperties
    <2>2. DOMAIN SubSeq(buffer[s], i, j)
            = 1..(IF i <= j THEN j - i + 1 ELSE 0)
      BY <2>1, LenProperties
    <2>3. ASSUME NEW k \in DOMAIN SubSeq(buffer[s], i, j)
          PROVE  SubSeq(buffer[s], i, j)[k] \in Elems(buffer[s])
      <3>1. k \in 1..j - i + 1 /\ i + k - 1 \in 1..Len(buffer[s])
        BY <1>1, <2>2
      <3>. QED
        BY <1>1, <2>1, <3>1 DEF Elems
    <2>. QED
      BY <2>1, <2>3 DEF Elems
  <1>5. Elems(buffer[s]) \subseteq Entry
    BY <1>1 DEF Elems
  <1>. QED
    BY <1>1, <1>3, <1>4, <1>5

LEMMA TypeStep == ASSUME TypeInv, [Next]_vars PROVE TypeOK'
  <1> USE ConstantsAssumption DEF TypeInv, TypeOK
  <1>a. Ids \subseteq Nat /\ Len(log) \in Nat
    BY IdsType DEF ServerTyped
  <1>b. <<>> \in Seq(Entry)
    BY EmptySeq
  <1>1. ASSUME NEW m \in Msgs, Publish(m) PROVE TypeOK'
    <2>1. ReaderTyped' /\ ClientTyped' /\ HistoryTyped'
      BY <1>1, ReaderFrame, ClientFrame, HistoryFrame DEF Publish
    <2>2. ServerTyped'
      BY <1>1, <1>a, <1>b, AppendProperties DEF Publish, ServerTyped, server
    <2>. QED
      BY <2>1, <2>2
  <1>2. ASSUME NEW i \in DOMAIN pel, Age(i) PROVE TypeOK'
    <2>1. ReaderTyped' /\ ClientTyped' /\ HistoryTyped'
      BY <1>2, ReaderFrame, ClientFrame, HistoryFrame DEF Age, Pending
    <2>2. ServerTyped'
      BY <1>2, <1>a, <1>b DEF Age, Pending, ServerTyped, server
    <2>. QED
      BY <2>1, <2>2
  <1>3. ASSUME LoseServer PROVE TypeOK'
    <2>1. ReaderTyped' /\ ClientTyped'
      BY <1>3, ReaderFrame, ClientFrame DEF LoseServer, NoPending
    <2>2. ServerTyped'
      BY <1>3, <1>a, <1>b DEF LoseServer, NoPending, ServerTyped, server
    <2>3. HistoryTyped'
      BY <1>3, <1>a, <1>b DEF LoseServer, NoPending, HistoryTyped, history, bounds
    <2>. QED
      BY <2>1, <2>2, <2>3
  <1>4. ASSUME NEW s \in Subs, Subscribe(s) PROVE TypeOK'
    <2>1. ClientTyped'
      BY <1>4, ClientFrame DEF Subscribe, EnsureGroup, Passed
    <2>2. ServerTyped'
      BY <1>4, <1>a, <1>b DEF Subscribe, EnsureGroup, Passed, ServerTyped, server
    <2>3. ReaderTyped'
      BY <1>4, <1>a, <1>b DEF Subscribe, EnsureGroup, Passed, ReaderTyped, reader, ReadPc
    <2>4. HistoryTyped'
      BY <1>4, <1>a, <1>b DEF Subscribe, EnsureGroup, Passed, ServerTyped, HistoryTyped, history, bounds
    <2>. QED
      BY <2>1, <2>2, <2>3, <2>4
  <1>5. ASSUME NEW s \in Subs, Crash(s) PROVE TypeOK'
    <2>1. ServerTyped'
      BY <1>5, ServerFrame DEF Crash, ProcessEnds
    <2>2. ReaderTyped'
      BY <1>5, <1>a, <1>b DEF Crash, ProcessEnds, ReaderTyped, reader, ReadPc
    <2>3. ClientTyped'
      BY <1>5, <1>a, <1>b DEF Crash, ProcessEnds, ClientTyped
    <2>4. HistoryTyped'
      BY <1>5, <1>a, <1>b DEF Crash, ProcessEnds, HistoryTyped, history, bounds
    <2>. QED
      BY <2>1, <2>2, <2>3, <2>4
  <1>6. ASSUME NEW s \in Subs, Exit(s) PROVE TypeOK'
    <2>1. ServerTyped'
      BY <1>6, ServerFrame DEF Exit, ProcessEnds
    <2>2. ReaderTyped'
      BY <1>6, <1>a, <1>b DEF Exit, ProcessEnds, ReaderTyped, reader, ReadPc
    <2>3. ClientTyped'
      BY <1>6, <1>a, <1>b DEF Exit, ProcessEnds, ClientTyped
    <2>4. HistoryTyped'
      BY <1>6, <1>a, <1>b DEF Exit, ProcessEnds, HistoryTyped, history, bounds
    <2>. QED
      BY <2>1, <2>2, <2>3, <2>4
  <1>7. ASSUME NEW s \in Subs, Shutdown(s) PROVE TypeOK'
    <2>1. ServerTyped' /\ ReaderTyped'
      BY <1>7, ServerFrame, ReaderFrame DEF Shutdown
    <2>2. ClientTyped'
      BY <1>7, <1>a, <1>b DEF Shutdown, ClientTyped
    <2>3. HistoryTyped'
      BY <1>7, <1>a, <1>b DEF Shutdown, HistoryTyped, history, bounds
    <2>. QED
      BY <2>1, <2>2, <2>3
  <1>8. ASSUME NEW s \in Subs, ReadLost(s) PROVE TypeOK'
    <2>1. ServerTyped' /\ ClientTyped'
      BY <1>8, ServerFrame, ClientFrame DEF ReadLost
    <2>2. ReaderTyped'
      BY <1>8, <1>a, <1>b DEF ReadLost, ReaderTyped, reader, ReadPc
    <2>3. HistoryTyped'
      BY <1>8, <1>a, <1>b DEF ReadLost, HistoryTyped, history, bounds
    <2>. QED
      BY <2>1, <2>2, <2>3
  <1>9. ASSUME NEW s \in Subs, StartFetch(s) PROVE TypeOK'
    <2>1. ServerTyped' /\ ClientTyped' /\ HistoryTyped'
      BY <1>9, ServerFrame, ClientFrame, HistoryFrame DEF StartFetch
    <2>2. ReaderTyped'
      BY <1>9, <1>a, <1>b DEF StartFetch, ClientTyped, ReaderTyped, reader, ReadPc
    <2>. QED
      BY <2>1, <2>2
  <1>10. ASSUME NEW s \in Subs, Ask(s) PROVE TypeOK'
    <2>1. ServerTyped' /\ ClientTyped' /\ HistoryTyped'
      BY <1>10, ServerFrame, ClientFrame, HistoryFrame DEF Ask, ClientTyped
    <2>2. ReaderTyped'
      BY <1>10, <1>a, <1>b DEF Ask, ClientTyped, ReaderTyped, reader, ReadPc
    <2>. QED
      BY <2>1, <2>2
  <1>11. ASSUME NEW s \in Subs, Refused(s) PROVE TypeOK'
    <2>1. ServerTyped' /\ ClientTyped' /\ HistoryTyped'
      BY <1>11, ServerFrame, ClientFrame, HistoryFrame DEF Refused
    <2>2. ReaderTyped'
      BY <1>11, <1>a, <1>b DEF Refused, ReaderTyped, reader, ReadPc
    <2>. QED
      BY <2>1, <2>2
  <1>12. ASSUME NEW s \in Subs, RecreateGroup(s) PROVE TypeOK'
    <2>1. ClientTyped'
      BY <1>12, ClientFrame DEF RecreateGroup, RecreatedAt, EnsureGroup, Passed
    <2>2. ServerTyped'
      BY <1>12, <1>a, <1>b DEF RecreateGroup, RecreatedAt, EnsureGroup, Passed, ServerTyped, server
    <2>3. ReaderTyped'
      BY <1>12, <1>a, <1>b DEF RecreateGroup, RecreatedAt, EnsureGroup, Passed, ReaderTyped, reader, ReadPc
    <2>4. HistoryTyped'
      BY <1>12, <1>a, <1>b DEF RecreateGroup, RecreatedAt, EnsureGroup, Passed, ServerTyped, HistoryTyped, history, bounds
    <2>. QED
      BY <2>1, <2>2, <2>3, <2>4
  <1>13. ASSUME NEW s \in Subs, FetchFresh(s) PROVE TypeOK'
    <2>1. <<>> \in Picks({}) /\ {} \subseteq DOMAIN pel
      BY EmptyPick
    <2>2. /\ Smaller(Count, Unread) \in Nat
          /\ Smaller(Count, Unread) <= Len(log) - cursor
      BY <1>a DEF Smaller, Unread, IdsKnown, ServerIds, ServerTyped
    <2>3. Answer(s, <<>>, Smaller(Count, Unread), "answered")
          /\ UNCHANGED rcursor
      BY <1>13 DEF FetchFresh
    <2>4. ServerTyped' /\ ClientTyped' /\ HistoryTyped'
          /\ pc' \in [Subs -> ReadPc] /\ reply' \in [Subs -> Seq(Entry)]
          /\ UNCHANGED <<buffer, bufGen, selAt>>
      BY <2>1, <2>2, <2>3, AnswerTyped DEF ReadPc
    <2>. QED
      BY <2>3, <2>4 DEF ReaderTyped
  <1>14. ASSUME NEW s \in Subs, FetchClaiming(s) PROVE TypeOK'
    <2>1. PICK pick \in Picks(Idle) :
            Answer(s, pick, Smaller(Count - Len(pick), Unread), "answered")
      BY <1>14 DEF FetchClaiming
    <2>2. Idle \subseteq DOMAIN pel
      BY DEF Idle
    <2>3. Len(pick) \in 0..Count
      BY PickType
    <2>4. /\ Smaller(Count - Len(pick), Unread) \in Nat
          /\ Smaller(Count - Len(pick), Unread) <= Len(log) - cursor
      BY <1>a, <2>3 DEF Smaller, Unread, IdsKnown, ServerIds, ServerTyped
    <2>5. ServerTyped' /\ ClientTyped' /\ HistoryTyped'
          /\ pc' \in [Subs -> ReadPc] /\ reply' \in [Subs -> Seq(Entry)]
          /\ UNCHANGED <<buffer, bufGen, selAt>>
      BY <2>1, <2>2, <2>4, AnswerTyped DEF ReadPc
    <2>6. UNCHANGED rcursor
      BY <1>14 DEF FetchClaiming
    <2>. QED
      BY <2>5, <2>6 DEF ReaderTyped
  <1>15. ASSUME NEW s \in Subs, FetchReclaim(s) PROVE TypeOK'
    <2> DEFINE from == {i \in Idle : i >= rcursor[s]}
    <2>1. PICK pick \in Picks(from), next \in {"answered", "listing"} :
            /\ Answer(s, pick, 0, next)
            /\ \E at \in ReclaimNext(from \ Elems(pick)) :
                  rcursor' = [rcursor EXCEPT ![s] = at]
      BY <1>15 DEF FetchReclaim
    <2>0. ReclaimNext(from \ Elems(pick)) \subseteq Nat
      BY DEF ReclaimNext, Idle, ServerTyped
    <2>2. from \subseteq DOMAIN pel
      BY DEF Idle
    <2>3. 0 <= Len(log) - cursor
      BY <1>a DEF IdsKnown, ServerIds, ServerTyped
    <2> HIDE DEF from
    <2>6. next \in ReadPc /\ 0 \in Nat /\ Count \in Nat \ {0} /\ pick \in Picks(from)
      BY <2>1 DEF ReadPc
    <2>7. Answer(s, pick, 0, next)
      BY <2>1
    <2>4. ServerTyped' /\ ClientTyped' /\ HistoryTyped'
          /\ pc' \in [Subs -> ReadPc] /\ reply' \in [Subs -> Seq(Entry)]
          /\ UNCHANGED <<buffer, bufGen, selAt>>
      BY <2>2, <2>3, <2>6, <2>7, AnswerTyped
    <2>5. rcursor' \in [Subs -> Nat]
      BY <2>0, <2>1 DEF ReaderTyped
    <2>. QED
      BY <2>4, <2>5 DEF ReaderTyped
  <1>16. ASSUME NEW s \in Subs, Enrich(s) PROVE TypeOK'
    <2>1. ServerTyped' /\ ClientTyped' /\ HistoryTyped'
      BY <1>16, ServerFrame, ClientFrame, HistoryFrame DEF Enrich
    <2>2. reply' \in [Subs -> Seq(Entry)]
      BY <1>16, EnrichedReply
    <2>3. ReaderTyped'
      BY <1>16, <2>2 DEF Enrich, ReaderTyped, ReadPc
    <2>. QED
      BY <2>1, <2>3
  <1>17. ASSUME NEW s \in Subs, ReadReturns(s) PROVE TypeOK'
    <2>1. ServerTyped' /\ ClientTyped' /\ HistoryTyped'
      BY <1>17, ServerFrame, ClientFrame, HistoryFrame DEF ReadReturns
    <2>2. buffer[s] \o reply[s] \in Seq(Entry)
      BY ConcatProperties DEF ReaderTyped
    <2>3. ReaderTyped'
      BY <1>17, <1>b, <2>2 DEF ReadReturns, ReaderTyped, ReadPc
    <2>. QED
      BY <2>1, <2>3
  <1>18. ASSUME NEW s \in Subs, NEW n \in 1..Count, Yield(s, n)
         PROVE  TypeOK'
    <2>1. /\ SubSeq(buffer[s], n + 1, Len(buffer[s])) \in Seq(Entry)
          /\ Elems(SubSeq(buffer[s], 1, n)) \subseteq Entry
      BY <1>18, YieldedEntries DEF ReaderTyped
    <2>2. ServerTyped'
      BY <1>18, ServerFrame DEF Yield
    <2>3. ReaderTyped'
      BY <1>18, <2>1 DEF Yield, Rest, ReaderTyped
    <2>4. /\ deliveries' = deliveries \cup
                {Deliver(s, e) : e \in Elems(SubSeq(buffer[s], 1, n))}
          /\ yielded' \subseteq yielded \cup
                {e.id : e \in Elems(SubSeq(buffer[s], 1, n))}
          /\ UNCHANGED <<generation, open, seeks, epoch, seekDone, settled,
                         skipped, bounds>>
      BY <1>18 DEF Yield
    <2>5. ClientTyped'
      BY <2>1, <2>4 DEF ClientTyped, Deliver, Delivery, Entry
    <2>6. HistoryTyped'
      BY <2>1, <2>4 DEF HistoryTyped, Entry, bounds
    <2>. QED
      BY <2>2, <2>3, <2>5, <2>6
  <1>19. ASSUME NEW d \in deliveries, Ack(d) PROVE TypeOK'
    <2>1. ReaderTyped'
      BY <1>19, ReaderFrame DEF Ack, Acknowledge
    <2>0. pel' = Acked(pel, {d.id})
      BY <1>19 DEF Ack, Acknowledge
    <2>2. DOMAIN pel' \subseteq Nat /\ pel' \in [DOMAIN pel' -> Pending]
      <3>1. pel \in [DOMAIN pel -> Pending] /\ DOMAIN pel \subseteq Nat
        BY DEF ServerTyped
      <3>2. /\ DOMAIN Acked(pel, {d.id}) = DOMAIN pel \ {d.id}
            /\ Acked(pel, {d.id}) \in [DOMAIN pel \ {d.id} -> Pending]
        BY <3>1, AckedType
      <3>. QED
        BY <2>0, <3>1, <3>2
    <2>3. ServerTyped'
      BY <1>19, <2>2 DEF Ack, Acknowledge, ServerTyped
    <2>4. ClientTyped'
      BY <1>19 DEF Ack, Acknowledge, ClientTyped
    <2>5. log[d.id] \in Msgs
      BY ElementOfSeq DEF IdsKnown, HandlerIds, Ids, ServerTyped
    <2>6. HistoryTyped'
      BY <1>19, <2>5 DEF Ack, Acknowledge, HistoryTyped, bounds
    <2>. QED
      BY <2>1, <2>3, <2>4, <2>6
  <1>21. ASSUME NEW d \in deliveries, AckCopied(d) PROVE TypeOK'
    <2>1. ReaderTyped'
      BY <1>21, ReaderFrame DEF AckCopied, Acknowledge
    <2>0. pel' = Acked(pel, {d.id})
      BY <1>21 DEF AckCopied, Acknowledge
    <2>2. DOMAIN pel' \subseteq Nat /\ pel' \in [DOMAIN pel' -> Pending]
      <3>1. pel \in [DOMAIN pel -> Pending] /\ DOMAIN pel \subseteq Nat
        BY DEF ServerTyped
      <3>2. /\ DOMAIN Acked(pel, {d.id}) = DOMAIN pel \ {d.id}
            /\ Acked(pel, {d.id}) \in [DOMAIN pel \ {d.id} -> Pending]
        BY <3>1, AckedType
      <3>. QED
        BY <2>0, <3>1, <3>2
    <2>3. ServerTyped'
      BY <1>21, <2>2 DEF AckCopied, Acknowledge, ServerTyped
    <2>4. ClientTyped'
      BY <1>21 DEF AckCopied, Acknowledge, ClientTyped
    <2>5. log[d.id] \in Msgs
      BY ElementOfSeq DEF IdsKnown, HandlerIds, Ids, ServerTyped
    <2>6. HistoryTyped'
      BY <1>21, <2>5 DEF AckCopied, Acknowledge, HistoryTyped, bounds
    <2>. QED
      BY <2>1, <2>3, <2>4, <2>6
  <1>20. ASSUME NEW d \in deliveries, Requeue(d) PROVE TypeOK'
    <2>1. ReaderTyped' /\ HistoryTyped'
      BY <1>20, ReaderFrame, HistoryFrame DEF Requeue, Republished
    <2>2. log[d.id] \in Msgs
      BY ElementOfSeq DEF IdsKnown, HandlerIds, Ids, ServerTyped
    <2>3. ServerTyped'
      BY <1>20, <2>2, AppendProperties DEF Requeue, Republished, ServerTyped
    <2>4. ClientTyped'
      BY <1>20 DEF Requeue, Republished, ClientTyped, Delivery
    <2>. QED
      BY <2>1, <2>3, <2>4
  <1>22. ASSUME NEW d \in deliveries, LeavePending(d) \/ SettleRefused(d)
         PROVE  TypeOK'
    <2>1. ServerTyped' /\ ReaderTyped' /\ HistoryTyped'
      BY <1>22, ServerFrame, ReaderFrame, HistoryFrame
      DEF LeavePending, SettleRefused
    <2>2. ClientTyped'
      BY <1>22 DEF LeavePending, SettleRefused, ClientTyped
    <2>. QED
      BY <2>1, <2>2
  <1>23. ASSUME NEW d \in deliveries, SettleFails(d) PROVE TypeOK'
    <2>1. ServerTyped' /\ ReaderTyped'
      BY <1>23, ServerFrame, ReaderFrame DEF SettleFails
    <2>2. ClientTyped' /\ HistoryTyped'
      BY <1>23 DEF SettleFails, ClientTyped, HistoryTyped, history
    <2>. QED
      BY <2>1, <2>2
  <1>24. ASSUME NEW s \in Subs, NEW kind \in SeekKinds,
                NEW to \in Positions(kind), SeekSetId(s, kind, to)
         PROVE  TypeOK'
    <2>1. to \in Nat
      BY <1>a, ConstantsAssumption DEF Positions, ServerTyped
    <2>2. ReaderTyped'
      BY <1>24, ReaderFrame DEF SeekSetId
    <2>3. ServerTyped'
      BY <1>24, <2>1 DEF SeekSetId, ServerTyped
    <2>4. ClientTyped'
      BY <1>24 DEF SeekSetId, ClientTyped, HistoryTyped
    <2>6. cursor \in Nat /\ Passed(cursor, to) \subseteq Nat
      BY <2>1 DEF Passed, ServerTyped
    <2>7. /\ skipped' = skipped \cup Passed(cursor, to)
          /\ epoch' = epoch + 1 /\ yielded' = {}
          /\ UNCHANGED <<seekDone, settled, faults, losses>>
      BY <1>24 DEF SeekSetId, bounds
    <2>8. /\ epoch \in Nat /\ skipped \subseteq Nat /\ settled \subseteq Msgs
          /\ seekDone \in [Subs -> Nat] /\ faults \in Nat /\ losses \in Nat
      BY DEF HistoryTyped
    <2> HIDE DEF TypeInv, TypeOK
    <2>9. epoch' \in Nat /\ skipped' \subseteq Nat /\ yielded' \subseteq Nat
      <3>1. epoch' \in Nat
        BY <2>7, <2>8
      <3>2. skipped' \subseteq Nat
        BY <2>6, <2>7, <2>8
      <3>3. yielded' \subseteq Nat
        BY <2>7
      <3>. QED
        BY <3>1, <3>2, <3>3
    <2>10. /\ settled' \subseteq Msgs /\ seekDone' \in [Subs -> Nat]
           /\ faults' \in Nat /\ losses' \in Nat
      BY <2>7, <2>8
    <2>5. HistoryTyped'
      BY <2>9, <2>10 DEF HistoryTyped
    <2> USE DEF TypeInv, TypeOK
    <2>. QED
      BY <2>2, <2>3, <2>4, <2>5
  <1>25. ASSUME NEW k \in seeks, SeekBump(k) PROVE TypeOK'
    <2>1. ServerTyped' /\ ReaderTyped'
      BY <1>25, ServerFrame, ReaderFrame DEF SeekBump
    <2>2. ClientTyped'
      BY <1>25 DEF SeekBump, ClientTyped
    <2>3. HistoryTyped'
      BY <1>25 DEF SeekBump, ClientTyped, HistoryTyped, Larger, bounds
    <2>. QED
      BY <2>1, <2>2, <2>3
  <1>26. ASSUME NEW k \in seeks, SeekFails(k) PROVE TypeOK'
    <2>1. ServerTyped' /\ ReaderTyped'
      BY <1>26, ServerFrame, ReaderFrame DEF SeekFails
    <2>2. ClientTyped' /\ HistoryTyped'
      BY <1>26 DEF SeekFails, ClientTyped, HistoryTyped, history
    <2>. QED
      BY <2>1, <2>2
  <1>28. ASSUME NEW s \in Subs, ClaimLost(s) PROVE TypeOK'
    <2>1. PICK ids : pel' = Claimed(pel, ids, s)
      BY <1>28 DEF ClaimLost
    <2>2. DOMAIN pel' = DOMAIN pel /\ pel' \in [DOMAIN pel -> Pending]
      BY <2>1, ClaimedType DEF ServerTyped
    <2>3. ServerTyped'
      BY <1>28, <2>2 DEF ClaimLost, ServerTyped
    <2>4. ReaderTyped'
      BY <1>28 DEF ClaimLost, ReaderTyped, ReadPc
    <2>5. ClientTyped'
      BY <1>28, ClientFrame DEF ClaimLost
    <2>6. HistoryTyped'
      BY <1>28 DEF ClaimLost, HistoryTyped, history
    <2>. QED
      BY <2>3, <2>4, <2>5, <2>6
  <1>27. CASE UNCHANGED vars
    BY <1>27, ServerFrame, ReaderFrame, ClientFrame, HistoryFrame DEF vars
  <1>. QED
    BY <1>1, <1>2, <1>3, <1>4, <1>5, <1>6, <1>7, <1>8, <1>9, <1>10, <1>11,
       <1>12, <1>13, <1>14, <1>15, <1>16, <1>17, <1>18, <1>19, <1>20, <1>21,
       <1>22, <1>23, <1>24, <1>25, <1>26, <1>27, <1>28
    DEF Next, Read, Settle

-----------------------------------------------------------------------------
(* The ids: what a step keeps of IdsKnown.                                 *)

LEMMA ServerIdsFrame ==
    ServerIds /\ UNCHANGED <<log, base, cursor, pel>> => ServerIds'
  BY DEF ServerIds, Ids

LEMMA ReaderIdsFrame ==
    ReaderIds /\ UNCHANGED <<log, reply, buffer>> => ReaderIds'
  BY DEF ReaderIds, Ids

LEMMA HandlerIdsFrame ==
    HandlerIds /\ log' = log /\ deliveries' \subseteq deliveries => HandlerIds'
  BY DEF HandlerIds, Ids

\* An append changes no entry and no id.
LEMMA AppendIds ==
    ASSUME TypeInv, NEW m \in Msgs, log' = Append(log, m)
    PROVE  /\ Len(log') = Len(log) + 1
           /\ Ids \subseteq Ids'
           /\ Ids' = Ids \cup {Len(log) + 1}
           /\ \A i \in Ids : log'[i] = log[i]
           /\ log'[Len(log) + 1] = m
  <1>1. log \in Seq(Msgs) /\ Len(log) \in Nat
    BY LenProperties DEF TypeInv, TypeOK, ServerTyped
  <1>2. /\ Len(log') = Len(log) + 1
        /\ \A i \in 1..Len(log) : log'[i] = log[i]
        /\ log'[Len(log) + 1] = m
    BY <1>1, AppendProperties
  <1>. QED
    BY <1>1, <1>2 DEF Ids

LEMMA IdsStep == ASSUME TypeInv, [Next]_vars PROVE IdsKnown'
  <1> USE ConstantsAssumption DEF TypeInv, TypeOK, IdsKnown
  <1>a. Ids \subseteq Nat /\ Len(log) \in Nat /\ Ids = 1..Len(log)
        /\ base \in Nat /\ cursor \in Nat
    BY IdsType DEF ServerTyped, Ids
  <1>1. ASSUME NEW m \in Msgs, Publish(m) PROVE IdsKnown'
    <2>1. Len(log') = Len(log) + 1 /\ Ids \subseteq Ids'
      BY <1>1, AppendIds DEF Publish
    <2>2. UNCHANGED <<base, cursor, pel, reply, buffer, deliveries>>
      BY <1>1 DEF Publish, reader
    <2>3. ServerIds'
      BY <1>a, <2>1, <2>2 DEF ServerIds
    <2>4. ReaderIds'
      BY <2>1, <2>2 DEF ReaderIds
    <2>. QED
      BY <2>1, <2>2, <2>3, <2>4 DEF HandlerIds
  <1>2. ASSUME NEW i \in DOMAIN pel, Age(i) PROVE IdsKnown'
    <2>1. /\ DOMAIN pel' = DOMAIN pel
          /\ UNCHANGED <<log, base, cursor, reply, buffer, deliveries>>
      BY <1>2 DEF Age, reader
    <2>. QED
      BY <2>1, ReaderIdsFrame, HandlerIdsFrame DEF ServerIds, Ids
  <1>3. ASSUME LoseServer PROVE IdsKnown'
    <2>1. /\ DOMAIN pel' = {} /\ cursor' = Len(log) /\ base' = Len(log)
          /\ UNCHANGED <<log, reply, buffer, deliveries>>
      BY <1>3 DEF LoseServer, reader, NoPending
    <2>2. ServerIds'
      BY <1>a, <2>1 DEF ServerIds
    <2>. QED
      BY <2>1, <2>2, ReaderIdsFrame, HandlerIdsFrame
  <1>4. ASSUME NEW s \in Subs, Subscribe(s) PROVE IdsKnown'
    <2>1. UNCHANGED <<log, base, pel, reply, buffer, deliveries>>
      BY <1>4 DEF Subscribe
    <2>2. cursor' \in {cursor, Len(log), base}
      BY <1>4 DEF Subscribe, EnsureGroup
    <2>3. ServerIds'
      BY <1>a, <2>1, <2>2 DEF ServerIds, Ids
    <2>. QED
      BY <2>1, <2>3, ReaderIdsFrame, HandlerIdsFrame
  <1>5. ASSUME NEW s \in Subs, ProcessEnds(s) PROVE IdsKnown'
    <2>1. /\ UNCHANGED <<log, base, cursor, pel>>
          /\ deliveries' \subseteq deliveries
          /\ reply' = [reply EXCEPT ![s] = <<>>]
          /\ buffer' = [buffer EXCEPT ![s] = <<>>]
      BY <1>5 DEF ProcessEnds, server
    <2>2. DOMAIN <<>> = {}
      OBVIOUS
    <2>3. ReaderIds'
      BY <2>1, <2>2 DEF ReaderIds, ReaderTyped, Ids
    <2>. QED
      BY <2>1, <2>3, ServerIdsFrame, HandlerIdsFrame
  <1>6. ASSUME NEW s \in Subs, Shutdown(s) PROVE IdsKnown'
    BY <1>6, ServerIdsFrame, ReaderIdsFrame, HandlerIdsFrame
    DEF Shutdown, server, reader
  <1>7. ASSUME NEW s \in Subs, Refused(s) \/ ReadLost(s) PROVE IdsKnown'
    <2>1. /\ UNCHANGED <<log, base, cursor, pel, buffer, deliveries>>
          /\ reply' = [reply EXCEPT ![s] = <<>>]
      BY <1>7 DEF Refused, ReadLost, server
    <2>2. ReaderIds'
      BY <2>1 DEF ReaderIds, ReaderTyped, Ids
    <2>. QED
      BY <2>1, <2>2, ServerIdsFrame, HandlerIdsFrame
  <1>8. ASSUME NEW s \in Subs, StartFetch(s) PROVE IdsKnown'
    <2>1. /\ UNCHANGED <<log, base, cursor, pel, reply, deliveries>>
          /\ buffer' = [buffer EXCEPT ![s] = <<>>]
      BY <1>8 DEF StartFetch, server
    <2>2. ReaderIds'
      BY <2>1 DEF ReaderIds, ReaderTyped, Ids
    <2>. QED
      BY <2>1, <2>2, ServerIdsFrame, HandlerIdsFrame
  <1>9. ASSUME NEW s \in Subs, Ask(s) PROVE IdsKnown'
    BY <1>9, ServerIdsFrame, ReaderIdsFrame, HandlerIdsFrame DEF Ask, server
  <1>10. ASSUME NEW s \in Subs, RecreateGroup(s) PROVE IdsKnown'
    <2>1. UNCHANGED <<log, base, pel, reply, buffer, deliveries>>
      BY <1>10 DEF RecreateGroup
    <2>2. cursor' \in {cursor, base}
      BY <1>10 DEF RecreateGroup, RecreatedAt, EnsureGroup
    <2>3. ServerIds'
      BY <1>a, <2>1, <2>2 DEF ServerIds, Ids
    <2>. QED
      BY <2>1, <2>3, ReaderIdsFrame, HandlerIdsFrame
  <1>b. ASSUME NEW s \in Subs, NEW claimed, NEW from,
               from \subseteq DOMAIN pel, claimed \in Picks(from),
               NEW n \in Nat, n <= Len(log) - cursor, NEW next \in ReadPc,
               Answer(s, claimed, n, next)
        PROVE  IdsKnown'
    <2>1. UNCHANGED <<log, base, deliveries, buffer>>
      BY <1>b DEF Answer
    <2>2. /\ cursor' = cursor + n
          /\ DOMAIN pel' = DOMAIN pel \cup (cursor + 1 .. cursor + n)
          /\ \A k \in DOMAIN reply'[s] : reply'[s][k].id \in Ids
          /\ \A r \in Subs : r # s => reply'[r] = reply[r]
      BY <1>b, AnswerTyped
    <2>3. ServerIds'
      BY <1>a, <1>b, <2>1, <2>2 DEF ServerIds, Ids
    <2>4. ReaderIds'
      BY <2>1, <2>2 DEF ReaderIds, Ids
    <2>. QED
      BY <2>1, <2>3, <2>4, HandlerIdsFrame
  <1>11. ASSUME NEW s \in Subs, FetchFresh(s) PROVE IdsKnown'
    <2>1. /\ Smaller(Count, Unread) \in Nat
          /\ Smaller(Count, Unread) <= Len(log) - cursor
      BY <1>a DEF Smaller, Unread, ServerIds
    <2>2. "answered" \in ReadPc
      BY DEF ReadPc
    <2>. QED
      BY <1>11, <1>b, <2>1, <2>2, EmptyPick DEF FetchFresh
  <1>12. ASSUME NEW s \in Subs, FetchClaiming(s) PROVE IdsKnown'
    <2>1. PICK pick \in Picks(Idle) :
            Answer(s, pick, Smaller(Count - Len(pick), Unread), "answered")
      BY <1>12 DEF FetchClaiming
    <2>2. Idle \subseteq DOMAIN pel /\ "answered" \in ReadPc
      BY DEF Idle, ReadPc
    <2>3. Len(pick) \in 0..Count
      BY PickType
    <2>4. /\ Smaller(Count - Len(pick), Unread) \in Nat
          /\ Smaller(Count - Len(pick), Unread) <= Len(log) - cursor
      BY <1>a, <2>3 DEF Smaller, Unread, ServerIds
    <2>. QED
      BY <1>b, <2>1, <2>2, <2>4
  <1>13. ASSUME NEW s \in Subs, FetchReclaim(s) PROVE IdsKnown'
    <2> DEFINE from == {i \in Idle : i >= rcursor[s]}
    <2>1. PICK pick \in Picks(from), next \in {"answered", "listing"} :
            Answer(s, pick, 0, next)
      BY <1>13 DEF FetchReclaim
    <2>2. from \subseteq DOMAIN pel /\ next \in ReadPc
      BY <2>1 DEF Idle, ReadPc
    <2>3. 0 \in Nat /\ 0 <= Len(log) - cursor
      BY <1>a DEF ServerIds
    <2> HIDE DEF from
    <2>. QED
      BY <1>b, <2>1, <2>2, <2>3
  <1>14. ASSUME NEW s \in Subs, Enrich(s) PROVE IdsKnown'
    <2>1. UNCHANGED <<log, base, cursor, pel, buffer, deliveries>>
      BY <1>14 DEF Enrich, server
    <2>2. /\ DOMAIN reply'[s] = DOMAIN reply[s]
          /\ \A k \in DOMAIN reply[s] : reply'[s][k].id = reply[s][k].id
          /\ \A r \in Subs : r # s => reply'[r] = reply[r]
      BY <1>14, EnrichedReply
    <2>3. ReaderIds'
      BY <2>1, <2>2 DEF ReaderIds, Ids
    <2>. QED
      BY <2>1, <2>3, ServerIdsFrame, HandlerIdsFrame
  <1>15. ASSUME NEW s \in Subs, ReadReturns(s) PROVE IdsKnown'
    <2>1. /\ UNCHANGED <<log, base, cursor, pel, deliveries>>
          /\ reply' = [reply EXCEPT ![s] = <<>>]
          /\ \/ buffer' = buffer
             \/ buffer' = [buffer EXCEPT ![s] = buffer[s] \o reply[s]]
      BY <1>15 DEF ReadReturns, server
    <2>2. \A k \in DOMAIN (buffer[s] \o reply[s]) :
             (buffer[s] \o reply[s])[k].id \in Ids
      <3>1. /\ buffer[s] \in Seq(Entry) /\ reply[s] \in Seq(Entry)
        BY DEF ReaderTyped
      <3>2. \A k \in DOMAIN (buffer[s] \o reply[s]) :
               \/ \E j \in DOMAIN buffer[s] :
                     (buffer[s] \o reply[s])[k] = buffer[s][j]
               \/ \E j \in DOMAIN reply[s] :
                     (buffer[s] \o reply[s])[k] = reply[s][j]
        BY <3>1, ConcatEntries
      <3>. QED
        BY <3>2 DEF ReaderIds
    <2>3. Ids' = Ids
      BY <2>1 DEF Ids
    <2>4. \A r \in Subs : \A k \in DOMAIN reply'[r] : reply'[r][k].id \in Ids
      BY <2>1 DEF ReaderIds, ReaderTyped
    <2>5. ASSUME NEW r \in Subs
          PROVE  \/ buffer'[r] = buffer[r]
                 \/ r = s /\ buffer'[r] = buffer[s] \o reply[s]
      BY <2>1 DEF ReaderTyped
    <2>6. \A r \in Subs : \A k \in DOMAIN buffer'[r] : buffer'[r][k].id \in Ids
      BY <2>2, <2>5 DEF ReaderIds
    <2>7. ReaderIds'
      BY <2>3, <2>4, <2>6 DEF ReaderIds
    <2>. QED
      BY <2>1, <2>7, ServerIdsFrame, HandlerIdsFrame
  <1>16. ASSUME NEW s \in Subs, NEW n \in 1..Count, Yield(s, n)
         PROVE  IdsKnown'
    <2> DEFINE left == SubSeq(buffer[s], n + 1, Len(buffer[s]))
               out == Elems(SubSeq(buffer[s], 1, n))
    <2>1. /\ UNCHANGED <<log, base, cursor, pel, reply>>
          /\ buffer' = [buffer EXCEPT ![s] = left]
          /\ deliveries' = deliveries \cup {Deliver(s, e) : e \in out}
      BY <1>16 DEF Yield, Rest, server
    <2>2. Elems(left) \subseteq Elems(buffer[s]) /\ out \subseteq Elems(buffer[s])
      BY <1>16, YieldedEntries
    <2>3. \A e \in Elems(buffer[s]) : e.id \in Ids
      BY DEF Elems, ReaderIds
    <2>4. \A k \in DOMAIN left : left[k].id \in Ids
      BY <2>2, <2>3 DEF Elems
    <2>5. \A e \in out : Deliver(s, e).id \in Ids
      BY <2>2, <2>3 DEF Deliver
    <2> HIDE DEF left, out
    <2>6. ReaderIds'
      BY <2>1, <2>4 DEF ReaderIds, ReaderTyped, Ids
    <2>7. HandlerIds'
      BY <2>1, <2>5 DEF HandlerIds, Ids
    <2>. QED
      BY <2>1, <2>6, <2>7, ServerIdsFrame
  <1>17. ASSUME NEW d \in deliveries, Acknowledge(d) PROVE IdsKnown'
    <2>1. /\ UNCHANGED <<log, base, cursor, reply, buffer>>
          /\ deliveries' \subseteq deliveries
      BY <1>17 DEF Acknowledge, reader
    <2>2. DOMAIN pel' \subseteq DOMAIN pel
      BY <1>17 DEF Acknowledge, Acked
    <2>. QED
      BY <2>1, <2>2, ReaderIdsFrame, HandlerIdsFrame DEF ServerIds, Ids
  <1>18. ASSUME NEW d \in deliveries, Requeue(d) PROVE IdsKnown'
    <2>1. log[d.id] \in Msgs
      BY ElementOfSeq DEF HandlerIds, Ids, ServerTyped
    <2>2. Len(log') = Len(log) + 1 /\ Ids \subseteq Ids'
      BY <1>18, <2>1, AppendIds DEF Requeue, Republished
    <2>3. UNCHANGED <<base, cursor, pel, reply, buffer>>
      BY <1>18 DEF Requeue, Republished, reader
    <2>4. ServerIds'
      BY <1>a, <2>2, <2>3 DEF ServerIds
    <2>5. ReaderIds'
      BY <2>2, <2>3 DEF ReaderIds
    <2>6. d.id \in Ids /\ [d EXCEPT !.stage = "copied"].id = d.id
      BY DEF HandlerIds, ClientTyped, Delivery
    <2>7. HandlerIds'
      BY <1>18, <2>2, <2>6 DEF Requeue, Republished, HandlerIds
    <2>. QED
      BY <2>4, <2>5, <2>7
  <1>19. ASSUME NEW d \in deliveries,
                LeavePending(d) \/ SettleRefused(d) \/ SettleFails(d)
         PROVE  IdsKnown'
    BY <1>19, ServerIdsFrame, ReaderIdsFrame, HandlerIdsFrame
    DEF LeavePending, SettleRefused, SettleFails, server, reader
  <1>20. ASSUME NEW s \in Subs, NEW kind \in SeekKinds,
                NEW to \in Positions(kind), SeekSetId(s, kind, to)
         PROVE  IdsKnown'
    <2>1. base <= to /\ to <= Len(log)
      BY <1>a DEF Positions, ServerIds
    <2>2. UNCHANGED <<log, base, pel, reply, buffer, deliveries>> /\ cursor' = to
      BY <1>20 DEF SeekSetId, reader
    <2>. QED
      BY <2>1, <2>2, ReaderIdsFrame, HandlerIdsFrame DEF ServerIds, Ids
  <1>21. ASSUME NEW k \in seeks, SeekBump(k) \/ SeekFails(k) PROVE IdsKnown'
    BY <1>21, ServerIdsFrame, ReaderIdsFrame, HandlerIdsFrame
    DEF SeekBump, SeekFails, server, reader
  <1>23. ASSUME NEW s \in Subs, ClaimLost(s) PROVE IdsKnown'
    <2>1. /\ DOMAIN pel' = DOMAIN pel
          /\ UNCHANGED <<log, base, cursor, reply, buffer, deliveries>>
      BY <1>23 DEF ClaimLost, Claimed
    <2>. QED
      BY <2>1, ReaderIdsFrame, HandlerIdsFrame DEF ServerIds, Ids
  <1>22. CASE UNCHANGED vars
    BY <1>22, ServerIdsFrame, ReaderIdsFrame, HandlerIdsFrame
    DEF vars, server, reader
  <1>. QED
    BY <1>1, <1>2, <1>3, <1>4, <1>5, <1>6, <1>7, <1>8, <1>9, <1>10, <1>11,
       <1>12, <1>13, <1>14, <1>15, <1>16, <1>17, <1>18, <1>19, <1>20, <1>21,
       <1>22, <1>23
    DEF Next, Read, Settle, Crash, Exit, Ack, AckCopied

LEMMA InvariantHolds == Spec => []TypeInv
  <1>1. Init => TypeInv
    BY InitTyped
  <1>2. TypeInv /\ [Next]_vars => TypeInv'
    BY TypeStep, IdsStep DEF TypeInv
  <1>. QED
    BY <1>1, <1>2, PTL DEF Spec

\* Every variable keeps its type, and every id a reader, a handler or the
\* pending entries list holds names an entry of the log.
THEOREM TypeCorrect == Spec => []TypeOK
  BY InvariantHolds, PTL DEF TypeInv

-----------------------------------------------------------------------------
(* Nothing is lost.  EntriesAccounted alone is not inductive: the XACK that *)
(* follows a republish is safe because the copy is in the log already.      *)

CopiesExist ==
    \A d \in deliveries :
        d.stage = "copied" => \E j \in Ids : j > d.id /\ log[j] = log[d.id]

AccountedInv == TypeInv /\ EntriesAccounted /\ CopiesExist

\* The log only grows.
LogKept ==
    /\ Ids \subseteq Ids'
    /\ \A i \in Ids : log'[i] = log[i]

LEMMA LogUnchanged == log' = log => LogKept /\ Ids' = Ids
  BY DEF LogKept, Ids

\* It is enough to look at the entries that were live before the step.
LEMMA AccountedKept ==
    ASSUME AccountedInv, LogKept, base' \in Nat, base <= base',
           skipped \subseteq skipped', settled \subseteq settled',
           \A i \in Ids : Live(i) => Accounted(i)'
    PROVE  \A i \in Ids : Accounted(i)'
  <1>1. SUFFICES ASSUME NEW i \in Ids PROVE Accounted(i)'
    OBVIOUS
  <1>2. Ids \subseteq Nat /\ base \in Nat /\ i \in Nat
    BY IdsType DEF AccountedInv, TypeInv, TypeOK, ServerTyped
  <1>3. Accounted(i)
    BY DEF AccountedInv, EntriesAccounted
  <1>4. CASE Live(i)
    BY <1>4
  <1>5. CASE i \in skipped \/ i <= base \/ log[i] \in settled
    BY <1>2, <1>5 DEF Accounted, LogKept
  <1>6. CASE \E j \in Ids : j > i /\ log[j] = log[i]
    BY <1>2, <1>6 DEF Accounted, LogKept
  <1>. QED
    BY <1>3, <1>4, <1>5, <1>6 DEF Accounted

LEMMA CopiesKept ==
    ASSUME AccountedInv, LogKept,
           \A d \in deliveries' \ deliveries : d.stage = "held"
    PROVE  CopiesExist'
  BY DEF AccountedInv, CopiesExist, LogKept, TypeInv, IdsKnown, HandlerIds

\* A step that touches neither the group nor the log keeps what is accounted.
LEMMA AccountedFrame ==
    AccountedInv /\ UNCHANGED <<log, base, cursor, skipped, settled>>
        /\ DOMAIN pel' = DOMAIN pel
      => EntriesAccounted'
  BY DEF AccountedInv, EntriesAccounted, Accounted, Live, Ids

LEMMA AccountedStep ==
    ASSUME AccountedInv, [Next]_vars PROVE EntriesAccounted' /\ CopiesExist'
  <1> USE ConstantsAssumption DEF AccountedInv
  <1> DEFINE Goal == EntriesAccounted' /\ CopiesExist'
  <1>a. /\ Ids \subseteq Nat /\ Len(log) \in Nat /\ Ids = 1..Len(log)
        /\ base \in Nat /\ cursor \in Nat /\ base <= cursor
        /\ cursor <= Len(log)
    BY IdsType DEF TypeInv, TypeOK, ServerTyped, IdsKnown, ServerIds, Ids
  \* A step that leaves the log, the group and the verdicts alone.
  <1>b. ASSUME UNCHANGED <<log, base, cursor, skipped, settled>>,
               DOMAIN pel' = DOMAIN pel,
               \A d \in deliveries' \ deliveries : d.stage = "held"
        PROVE  Goal
    BY <1>b, AccountedFrame, LogUnchanged, CopiesKept
  <1>1. ASSUME NEW m \in Msgs, Publish(m) PROVE Goal
    <2>1. /\ log' = Append(log, m)
          /\ UNCHANGED <<base, cursor, pel, skipped, settled, deliveries>>
      BY <1>1 DEF Publish, history
    <2>2. Len(log') = Len(log) + 1 /\ LogKept /\ Ids' = Ids \cup {Len(log) + 1}
      BY <2>1, AppendIds DEF LogKept
    <2>3. \A i \in Ids : Live(i) => Accounted(i)'
      BY <2>1 DEF Live, Accounted
    <2>4. \A i \in Ids : Accounted(i)'
      BY <1>a, <2>1, <2>2, <2>3, AccountedKept
    <2>5. \A i : i = Len(log) + 1 => Accounted(i)'
      BY <1>a, <2>1 DEF Live, Accounted
    <2>6. EntriesAccounted'
      BY <2>2, <2>4, <2>5 DEF EntriesAccounted
    <2>. QED
      BY <2>1, <2>2, <2>6, CopiesKept
  <1>2. ASSUME NEW i \in DOMAIN pel, Age(i) PROVE Goal
    BY <1>2, <1>b DEF Age, history
  <1>3. ASSUME LoseServer PROVE Goal
    <2>1. base' = Len(log) /\ UNCHANGED <<log, skipped, settled, deliveries>>
      BY <1>3 DEF LoseServer, history
    <2>2. EntriesAccounted'
      BY <1>a, <2>1 DEF EntriesAccounted, Accounted, Ids
    <2>. QED
      BY <2>1, <2>2, LogUnchanged, CopiesKept
  \* The group is created at a position if it does not exist.
  <1>c. ASSUME NEW at \in {base, Len(log)}, EnsureGroup(at),
               UNCHANGED <<log, base, pel, settled, deliveries>>
        PROVE  Goal
    <2>1. LogKept /\ Ids' = Ids
      BY <1>c, LogUnchanged
    <2>2. skipped \subseteq skipped'
      BY <1>c DEF EnsureGroup
    <2>3. ASSUME NEW i \in Ids, Live(i) PROVE Accounted(i)'
      <3>1. CASE i \in DOMAIN pel
        BY <1>c, <2>3, <3>1 DEF Live, Accounted
      <3>2. CASE i \notin DOMAIN pel /\ i > cursor'
        BY <1>c, <2>3, <3>2 DEF Live, Accounted
      <3>3. CASE i \notin DOMAIN pel /\ ~(i > cursor')
        <4>1. i > cursor /\ i > base /\ i \in Nat
          BY <1>a, <2>3, <3>3 DEF Live
        <4>2. cursor' # cursor
          BY <3>3, <4>1
        <4>3. cursor' = at /\ skipped' = skipped \cup Passed(base, at)
          BY <1>c, <4>2 DEF EnsureGroup
        <4>4. i \in base + 1 .. at
          BY <1>a, <3>3, <4>1, <4>3
        <4>. QED
          BY <3>3, <4>3, <4>4 DEF Passed, Accounted
      <3>. QED
        BY <3>1, <3>2, <3>3
    <2>4. \A i \in Ids : Accounted(i)'
      BY <1>a, <1>c, <2>1, <2>2, <2>3, AccountedKept
    <2>. QED
      BY <1>c, <2>1, <2>4, CopiesKept DEF EntriesAccounted
  <1>4. ASSUME NEW s \in Subs, Subscribe(s) PROVE Goal
    BY <1>4, <1>c DEF Subscribe
  <1>5. ASSUME NEW s \in Subs, RecreateGroup(s) PROVE Goal
    BY <1>5, <1>c DEF RecreateGroup, RecreatedAt
  <1>6. ASSUME NEW s \in Subs, ProcessEnds(s) PROVE Goal
    BY <1>6, <1>b DEF ProcessEnds, server, history
  <1>7. ASSUME NEW s \in Subs,
               \/ Shutdown(s) \/ ReadLost(s) \/ StartFetch(s) \/ Ask(s)
               \/ Refused(s) \/ Enrich(s) \/ ReadReturns(s)
        PROVE  Goal
    <2>1. UNCHANGED <<server, deliveries, history>>
      BY <1>7 DEF Shutdown, ReadLost, StartFetch, Ask, Refused, Enrich,
                  ReadReturns
    <2>. QED
      BY <2>1, <1>b DEF server, history
  \* An answer moves the cursor over what it hands out, and over nothing else.
  <1>d. ASSUME NEW s \in Subs, NEW claimed, NEW from,
               from \subseteq DOMAIN pel, claimed \in Picks(from),
               NEW n \in Nat, n <= Len(log) - cursor, NEW next \in ReadPc,
               Answer(s, claimed, n, next)
        PROVE  Goal
    <2>1. UNCHANGED <<log, base, deliveries, skipped, settled>>
      BY <1>d DEF Answer, history
    <2>2. /\ cursor' = cursor + n
          /\ DOMAIN pel' = DOMAIN pel \cup (cursor + 1 .. cursor + n)
      BY <1>d, AnswerTyped
    <2>3. LogKept /\ Ids' = Ids
      BY <2>1, LogUnchanged
    <2>4. ASSUME NEW i \in Ids, Live(i) PROVE Accounted(i)'
      BY <1>a, <2>1, <2>2, <2>4 DEF Live, Accounted
    <2>5. \A i \in Ids : Accounted(i)'
      BY <1>a, <2>1, <2>3, <2>4, AccountedKept
    <2>. QED
      BY <2>1, <2>3, <2>5, CopiesKept DEF EntriesAccounted
  <1>8. ASSUME NEW s \in Subs, FetchFresh(s) PROVE Goal
    <2>1. /\ Smaller(Count, Unread) \in Nat
          /\ Smaller(Count, Unread) <= Len(log) - cursor
      BY <1>a DEF Smaller, Unread
    <2>2. "answered" \in ReadPc
      BY DEF ReadPc
    <2>. QED
      BY <1>8, <1>d, <2>1, <2>2, EmptyPick DEF FetchFresh
  <1>9. ASSUME NEW s \in Subs, FetchClaiming(s) PROVE Goal
    <2>1. PICK pick \in Picks(Idle) :
            Answer(s, pick, Smaller(Count - Len(pick), Unread), "answered")
      BY <1>9 DEF FetchClaiming
    <2>2. Idle \subseteq DOMAIN pel /\ "answered" \in ReadPc
      BY DEF Idle, ReadPc
    <2>3. Len(pick) \in 0..Count
      BY PickType
    <2>4. /\ Smaller(Count - Len(pick), Unread) \in Nat
          /\ Smaller(Count - Len(pick), Unread) <= Len(log) - cursor
      BY <1>a, <2>3 DEF Smaller, Unread
    <2>. QED
      BY <1>d, <2>1, <2>2, <2>4
  <1>10. ASSUME NEW s \in Subs, FetchReclaim(s) PROVE Goal
    <2> DEFINE from == {i \in Idle : i >= rcursor[s]}
    <2>1. PICK pick \in Picks(from), next \in {"answered", "listing"} :
            Answer(s, pick, 0, next)
      BY <1>10 DEF FetchReclaim
    <2>2. from \subseteq DOMAIN pel /\ next \in ReadPc
      BY <2>1 DEF Idle, ReadPc
    <2>3. 0 \in Nat /\ 0 <= Len(log) - cursor
      BY <1>a
    <2> HIDE DEF from
    <2>. QED
      BY <1>d, <2>1, <2>2, <2>3
  <1>11. ASSUME NEW s \in Subs, NEW n \in 1..Count, Yield(s, n) PROVE Goal
    <2>1. /\ UNCHANGED <<log, base, cursor, pel, skipped, settled>>
          /\ \A d \in deliveries' \ deliveries : d.stage = "held"
      BY <1>11 DEF Yield, server, Deliver
    <2>. QED
      BY <2>1, <1>b
  \* An XACK is safe for an entry that is settled or has its copy.
  <1>e. ASSUME NEW d \in deliveries, Acknowledge(d),
               settled \subseteq settled',
               \/ log[d.id] \in settled'
               \/ \E j \in Ids : j > d.id /\ log[j] = log[d.id]
        PROVE  Goal
    <2>1. /\ UNCHANGED <<log, base, cursor, skipped>>
          /\ deliveries' \subseteq deliveries
          /\ DOMAIN pel' = DOMAIN pel \ {d.id}
      BY <1>e DEF Acknowledge, Acked
    <2>2. LogKept /\ Ids' = Ids
      BY <2>1, LogUnchanged
    <2>3. ASSUME NEW i \in Ids, Live(i) PROVE Accounted(i)'
      <3>1. CASE i # d.id
        BY <2>1, <2>3, <3>1 DEF Live, Accounted
      <3>2. CASE i = d.id
        BY <1>e, <2>1, <2>2, <3>2 DEF Accounted
      <3>. QED
        BY <3>1, <3>2
    <2>4. \A i \in Ids : Accounted(i)'
      BY <1>a, <1>e, <2>1, <2>2, <2>3, AccountedKept
    <2>. QED
      BY <2>1, <2>2, <2>4, CopiesKept DEF EntriesAccounted
  <1>12. ASSUME NEW d \in deliveries, Ack(d) PROVE Goal
    BY <1>12, <1>e DEF Ack
  <1>13. ASSUME NEW d \in deliveries, AckCopied(d) PROVE Goal
    BY <1>13, <1>e DEF AckCopied, CopiesExist
  <1>14. ASSUME NEW d \in deliveries, Requeue(d) PROVE Goal
    <2>0. d.id \in Ids /\ log[d.id] \in Msgs
      BY ElementOfSeq
      DEF TypeInv, TypeOK, IdsKnown, HandlerIds, Ids, ServerTyped
    <2>1. /\ log' = Append(log, log[d.id])
          /\ UNCHANGED <<base, cursor, pel, skipped, settled>>
          /\ deliveries' = (deliveries \ {d})
                             \cup {[d EXCEPT !.stage = "copied"]}
      BY <1>14 DEF Requeue, Republished, history
    <2>2. /\ Len(log') = Len(log) + 1 /\ LogKept
          /\ Ids' = Ids \cup {Len(log) + 1} /\ log'[Len(log) + 1] = log[d.id]
      BY <2>0, <2>1, AppendIds DEF LogKept
    <2>3. \A i \in Ids : Live(i) => Accounted(i)'
      BY <2>1 DEF Live, Accounted
    <2>4. \A i \in Ids : Accounted(i)'
      BY <1>a, <2>1, <2>2, <2>3, AccountedKept
    <2>5. \A i : i = Len(log) + 1 => Accounted(i)'
      BY <1>a, <2>1 DEF Live, Accounted
    <2>6. EntriesAccounted'
      BY <2>2, <2>4, <2>5 DEF EntriesAccounted
    <2>7. ASSUME NEW e \in deliveries', e.stage = "copied"
          PROVE  \E j \in Ids' : j > e.id /\ log'[j] = log'[e.id]
      <3>1. CASE e \in deliveries
        BY <2>2, <2>7, <3>1
        DEF CopiesExist, LogKept, TypeInv, IdsKnown, HandlerIds
      <3>2. CASE e = [d EXCEPT !.stage = "copied"]
        <4>1. e.id = d.id
          BY <3>2 DEF TypeInv, TypeOK, ClientTyped, Delivery
        <4>2. Len(log) + 1 > e.id /\ Len(log) + 1 \in Ids'
          BY <1>a, <2>0, <2>2, <4>1
        <4>3. log'[e.id] = log[d.id]
          BY <2>0, <2>2, <4>1 DEF LogKept
        <4>. QED
          BY <2>2, <4>2, <4>3
      <3>. QED
        BY <2>1, <3>1, <3>2
    <2>. QED
      BY <2>6, <2>7 DEF CopiesExist
  <1>15. ASSUME NEW d \in deliveries,
                LeavePending(d) \/ SettleRefused(d) \/ SettleFails(d)
         PROVE  Goal
    <2>1. UNCHANGED <<server, history>> /\ deliveries' \subseteq deliveries
      BY <1>15 DEF LeavePending, SettleRefused, SettleFails
    <2>. QED
      BY <2>1, <1>b DEF server, history
  <1>16. ASSUME NEW s \in Subs, NEW kind \in SeekKinds,
                NEW to \in Positions(kind), SeekSetId(s, kind, to)
         PROVE  Goal
    <2>1. /\ UNCHANGED <<log, base, pel, settled, deliveries>>
          /\ cursor' = to /\ skipped' = skipped \cup Passed(cursor, to)
      BY <1>16 DEF SeekSetId
    <2>2. LogKept /\ Ids' = Ids
      BY <2>1, LogUnchanged
    <2>3. to \in Nat
      BY <1>a DEF Positions
    <2>4. ASSUME NEW i \in Ids, Live(i) PROVE Accounted(i)'
      BY <1>a, <2>1, <2>3, <2>4 DEF Live, Accounted, Passed
    <2>5. \A i \in Ids : Accounted(i)'
      BY <1>a, <2>1, <2>2, <2>4, AccountedKept
    <2>. QED
      BY <2>1, <2>2, <2>5, CopiesKept DEF EntriesAccounted
  <1>17. ASSUME NEW k \in seeks, SeekBump(k) \/ SeekFails(k) PROVE Goal
    <2>1. UNCHANGED <<server, deliveries, settled, skipped>>
      BY <1>17 DEF SeekBump, SeekFails, history
    <2>. QED
      BY <2>1, <1>b DEF server
  <1>19. ASSUME NEW s \in Subs, ClaimLost(s) PROVE Goal
    BY <1>19, <1>b DEF ClaimLost, Claimed, history
  <1>18. CASE UNCHANGED vars
    <2>1. UNCHANGED <<server, deliveries, history>>
      BY <1>18 DEF vars
    <2>. QED
      BY <2>1, <1>b DEF server, history
  <1>. QED
    BY <1>1, <1>2, <1>3, <1>4, <1>5, <1>6, <1>7, <1>8, <1>9, <1>10, <1>11,
       <1>12, <1>13, <1>14, <1>15, <1>16, <1>17, <1>18, <1>19
    DEF Next, Read, Settle, Crash, Exit

LEMMA AccountedHolds == Spec => []AccountedInv
  <1>1. Init => AccountedInv
    <2>1. Init => EntriesAccounted /\ CopiesExist
      BY EmptySeq DEF Init, EntriesAccounted, CopiesExist, Ids
    <2>. QED
      BY <2>1, InitTyped DEF AccountedInv
  <1>2. AccountedInv /\ [Next]_vars => AccountedInv'
    BY AccountedStep, TypeStep, IdsStep DEF AccountedInv, TypeInv
  <1>. QED
    BY <1>1, <1>2, PTL DEF Spec

\* Whatever crashes, is lost or is sought: each entry of the stream is still
\* the group's, or was given up, settled, or superseded by a later copy.
THEOREM EntriesAreAccounted == Spec => []EntriesAccounted
  BY AccountedHolds, PTL DEF AccountedInv

\* The last entry of a message has no later copy, so it answers for it.
LEMMA LastEntry ==
    ASSUME TypeInv, NEW m \in Elems(log)
    PROVE  \E i \in Ids : log[i] = m /\ \A j \in Ids : j > i => log[j] # m
  <1>1. /\ Ids = 1..Len(log) /\ Len(log) \in Nat /\ DOMAIN log = Ids
    BY LenProperties DEF TypeInv, TypeOK, ServerTyped, Ids
  <1> DEFINE T == {n \in Nat : n < Len(log) /\ log[Len(log) - n] = m}
  <1>2. T # {}
    <2>1. PICK i \in Ids : log[i] = m
      BY <1>1 DEF Elems
    <2>2. Len(log) - i \in T
      BY <1>1, <2>1
    <2>. QED
      BY <2>2
  <1>3. PICK n \in T : \A k \in T : <<k, n>> \notin OpToRel(<, Nat)
    <2>1. T \subseteq Nat
      OBVIOUS
    <2>. QED
      BY <1>2, <2>1, NatLessThanWellFounded, WFMin
  <1>4. \A k \in T : ~(k < n)
    BY <1>3 DEF OpToRel
  <1>5. n \in Nat /\ n < Len(log) /\ log[Len(log) - n] = m
    BY <1>3
  <1>6. Len(log) - n \in Ids
    BY <1>1, <1>5
  <1>7. ASSUME NEW j \in Ids, j > Len(log) - n, log[j] = m PROVE FALSE
    <2>1. Len(log) - j \in Nat /\ Len(log) - j < n /\ Len(log) - (Len(log) - j) = j
      BY <1>1, <1>5, <1>7
    <2>2. Len(log) - j \in T
      BY <1>1, <1>7, <2>1
    <2>. QED
      BY <1>4, <2>1, <2>2
  <1>. QED
    BY <1>5, <1>6, <1>7

LEMMA AccountedMeansKept == AccountedInv => NothingLost
  <1>1. SUFFICES ASSUME AccountedInv, NEW m \in Elems(log)
                 PROVE  \/ m \in settled
                        \/ \E i \in Ids : log[i] = m
                              /\ (Live(i) \/ i \in skipped \/ i <= base)
    BY DEF NothingLost
  <1>2. PICK i \in Ids : log[i] = m /\ \A j \in Ids : j > i => log[j] # m
    BY <1>1, LastEntry DEF AccountedInv
  <1>3. Accounted(i)
    BY <1>1 DEF AccountedInv, EntriesAccounted
  <1>. QED
    BY <1>2, <1>3 DEF Accounted

\* At-least-once: no published message is forgotten, for any number of
\* subscriptions, crashes, lost commands, seeks and restarts of the server.
THEOREM NothingIsLost == Spec => []NothingLost
  BY AccountedHolds, AccountedMeansKept, PTL

-----------------------------------------------------------------------------
(* No delivery from before a seek.  The buffer and the answer in flight are *)
(* worth yielding only while no seek bumped the generation they were read   *)
(* under; a seek that bumped is one whose SETID the entries followed.       *)

Fresh(s) ==
    /\ bufGen[s] <= generation[s] /\ selAt[s] <= generation[s]
    /\ seekDone[s] <= epoch
    /\ pc[s] # "poll" => buffer[s] = <<>>
    /\ pc[s] \notin {"listing", "answered"} => reply[s] = <<>>
    /\ bufGen[s] = generation[s] =>
          \A k \in DOMAIN buffer[s] : buffer[s][k].epoch >= seekDone[s]
    /\ selAt[s] = generation[s] =>
          \A k \in DOMAIN reply[s] : reply[s][k].epoch >= seekDone[s]

SeekInv ==
    /\ TypeInv
    /\ \A s \in Subs : Fresh(s)
    /\ \A k \in seeks : k.epoch <= epoch

\* A step of another subscription, which only may run a SETID.
LEMMA FreshFrame ==
    ASSUME SeekInv, NEW s \in Subs, epoch' \in Nat, epoch <= epoch',
           pc'[s] = pc[s], reply'[s] = reply[s], buffer'[s] = buffer[s],
           bufGen'[s] = bufGen[s], selAt'[s] = selAt[s],
           generation'[s] = generation[s], seekDone'[s] = seekDone[s]
    PROVE  Fresh(s)'
  BY DEF SeekInv, Fresh, TypeInv, TypeOK, HistoryTyped

LEMMA SeekStep ==
    ASSUME SeekInv, [Next]_vars
    PROVE  (\A s \in Subs : Fresh(s))' /\ (\A k \in seeks : k.epoch <= epoch)'
  <1> USE ConstantsAssumption
  <1> DEFINE Goal == /\ (\A s \in Subs : Fresh(s))'
                     /\ (\A k \in seeks : k.epoch <= epoch)'
  <1>a. /\ epoch \in Nat /\ seekDone \in [Subs -> Nat]
        /\ generation \in [Subs -> Nat] /\ bufGen \in [Subs -> Nat]
        /\ selAt \in [Subs -> Nat] /\ pc \in [Subs -> ReadPc]
        /\ reply \in [Subs -> Seq(Entry)] /\ buffer \in [Subs -> Seq(Entry)]
    BY DEF SeekInv, TypeInv, TypeOK, HistoryTyped, ClientTyped, ReaderTyped
  <1>b. \A s \in Subs : Fresh(s)
    BY DEF SeekInv
  <1>c. DOMAIN <<>> = {}
    OBVIOUS
  \* Steps that leave the readers and the seeks as they are.
  <1>d. ASSUME UNCHANGED <<pc, reply, buffer, bufGen, selAt, generation, epoch,
                           seekDone>>,
               seeks' \subseteq seeks
        PROVE  Goal
    BY <1>a, <1>d, FreshFrame DEF SeekInv
  \* Steps of the reader s.
  <1>e. ASSUME NEW s \in Subs, Fresh(s)', seeks' \subseteq seeks,
               UNCHANGED <<epoch, seekDone>>,
               \A r \in Subs : r # s =>
                  /\ pc'[r] = pc[r] /\ reply'[r] = reply[r]
                  /\ buffer'[r] = buffer[r] /\ bufGen'[r] = bufGen[r]
                  /\ selAt'[r] = selAt[r] /\ generation'[r] = generation[r]
        PROVE  Goal
    <2>1. ASSUME NEW r \in Subs, r # s PROVE Fresh(r)'
      BY <1>a, <1>e, <2>1, FreshFrame
    <2>2. (\A k \in seeks : k.epoch <= epoch)'
      BY <1>e DEF SeekInv
    <2>. QED
      BY <1>e, <2>1, <2>2
  <1>1. ASSUME NEW m \in Msgs, Publish(m) PROVE Goal
    BY <1>1, <1>d DEF Publish, reader, history
  <1>2. ASSUME NEW i \in DOMAIN pel, Age(i) PROVE Goal
    BY <1>2, <1>d DEF Age, reader, history
  <1>3. ASSUME LoseServer PROVE Goal
    BY <1>3, <1>d DEF LoseServer, reader, history
  <1>4. ASSUME NEW s \in Subs, Subscribe(s) PROVE Goal
    <2>1. /\ pc[s] = "down" /\ pc' = [pc EXCEPT ![s] = "poll"]
          /\ UNCHANGED <<reply, buffer, bufGen, selAt, generation, epoch,
                         seekDone, seeks>>
      BY <1>4 DEF Subscribe
    <2>2. Fresh(s)'
      BY <1>a, <1>b, <2>1 DEF Fresh
    <2>. QED
      BY <1>a, <2>1, <2>2, <1>e
  <1>5. ASSUME NEW s \in Subs, ProcessEnds(s) PROVE Goal
    <2>1. /\ pc' = [pc EXCEPT ![s] = "down"]
          /\ reply' = [reply EXCEPT ![s] = <<>>]
          /\ buffer' = [buffer EXCEPT ![s] = <<>>]
          /\ generation' = [generation EXCEPT ![s] = 0]
          /\ bufGen' = [bufGen EXCEPT ![s] = 0]
          /\ selAt' = [selAt EXCEPT ![s] = 0]
          /\ seeks' \subseteq seeks /\ UNCHANGED <<epoch, seekDone>>
      BY <1>5 DEF ProcessEnds, history
    <2>2. Fresh(s)'
      BY <1>a, <1>b, <1>c, <2>1 DEF Fresh
    <2>3. \A r \in Subs : r # s =>
             /\ pc'[r] = pc[r] /\ reply'[r] = reply[r]
             /\ buffer'[r] = buffer[r] /\ bufGen'[r] = bufGen[r]
             /\ selAt'[r] = selAt[r] /\ generation'[r] = generation[r]
      BY <1>a, <2>1
    <2>. QED
      BY <2>1, <2>2, <2>3, <1>e
  <1>6. ASSUME NEW s \in Subs, Shutdown(s) PROVE Goal
    BY <1>6, <1>d DEF Shutdown, reader, history
  <1>7. ASSUME NEW s \in Subs, Refused(s) \/ ReadLost(s) PROVE Goal
    <2>1. /\ pc[s] # "poll" /\ pc' \in {[pc EXCEPT ![s] = "poll"],
                                       [pc EXCEPT ![s] = "nogroup"]}
          /\ reply' = [reply EXCEPT ![s] = <<>>]
          /\ UNCHANGED <<buffer, bufGen, selAt, generation, epoch, seekDone,
                         seeks>>
      BY <1>7 DEF Refused, ReadLost, history
    <2>2. Fresh(s)'
      BY <1>a, <1>b, <1>c, <2>1 DEF Fresh
    <2>3. \A r \in Subs : r # s => pc'[r] = pc[r] /\ reply'[r] = reply[r]
      BY <1>a, <2>1
    <2>. QED
      BY <2>1, <2>2, <2>3, <1>e
  <1>8. ASSUME NEW s \in Subs, StartFetch(s) PROVE Goal
    <2>1. /\ pc[s] = "poll" /\ pc' \in {pc, [pc EXCEPT ![s] = "sweep"]}
          /\ buffer' = [buffer EXCEPT ![s] = <<>>]
          /\ bufGen' = [bufGen EXCEPT ![s] = generation[s]]
          /\ UNCHANGED <<reply, selAt, generation, epoch, seekDone, seeks>>
      BY <1>a, <1>8 DEF StartFetch, history
    <2>4. buffer'[s] = <<>> /\ bufGen'[s] = generation[s]
      BY <1>a, <2>1
    <2>5. reply[s] = <<>>
      BY <1>b, <2>1 DEF Fresh
    <2>2. Fresh(s)'
      BY <1>a, <1>b, <1>c, <2>1, <2>4, <2>5 DEF Fresh
    <2>3. \A r \in Subs : r # s => /\ pc'[r] = pc[r] /\ buffer'[r] = buffer[r]
                                  /\ bufGen'[r] = bufGen[r]
      BY <1>a, <2>1
    <2>. QED
      BY <2>1, <2>2, <2>3, <1>e
  <1>9. ASSUME NEW s \in Subs, Ask(s) PROVE Goal
    <2>1. /\ pc[s] = "sweep" /\ pc' = [pc EXCEPT ![s] = "asked"]
          /\ selAt' = [selAt EXCEPT ![s] = generation[s]]
          /\ UNCHANGED <<reply, buffer, bufGen, generation, epoch, seekDone,
                         seeks>>
      BY <1>9 DEF Ask, history
    <2>4. pc'[s] = "asked" /\ selAt'[s] = generation[s]
      BY <1>a, <2>1
    <2>5. reply[s] = <<>> /\ buffer[s] = <<>>
      BY <1>b, <2>1 DEF Fresh
    <2>2. Fresh(s)'
      BY <1>a, <1>b, <1>c, <2>1, <2>4, <2>5 DEF Fresh
    <2>3. \A r \in Subs : r # s => pc'[r] = pc[r] /\ selAt'[r] = selAt[r]
      BY <1>a, <2>1
    <2>. QED
      BY <2>1, <2>2, <2>3, <1>e
  <1>10. ASSUME NEW s \in Subs, RecreateGroup(s) PROVE Goal
    <2>1. /\ pc[s] = "nogroup" /\ pc' = [pc EXCEPT ![s] = "poll"]
          /\ UNCHANGED <<reply, buffer, bufGen, selAt, generation, epoch,
                         seekDone, seeks>>
      BY <1>10 DEF RecreateGroup
    <2>2. Fresh(s)'
      BY <1>a, <1>b, <2>1 DEF Fresh
    <2>3. \A r \in Subs : r # s => pc'[r] = pc[r]
      BY <1>a, <2>1
    <2>. QED
      BY <2>1, <2>2, <2>3, <1>e
  \* What the server answers now was selected after every seek that returned.
  <1>f. ASSUME NEW s \in Subs, NEW claimed, NEW from, pc[s] = "asked",
               from \subseteq DOMAIN pel, claimed \in Picks(from),
               NEW n \in Nat, n <= Len(log) - cursor,
               NEW next \in {"answered", "listing"},
               Answer(s, claimed, n, next)
        PROVE  Goal
    <2>1. /\ pc' = [pc EXCEPT ![s] = next]
          /\ UNCHANGED <<buffer, bufGen, selAt, generation, epoch, seekDone,
                         seeks>>
      BY <1>f DEF Answer, history
    <2>2. next \in ReadPc /\ Count \in Nat \ {0} /\ TypeInv
      BY DEF ReadPc, SeekInv
    <2>3. /\ \A k \in DOMAIN reply'[s] : reply'[s][k].epoch = epoch
          /\ \A r \in Subs : r # s => reply'[r] = reply[r]
      BY <1>f, <2>2, AnswerTyped
    <2>4. Fresh(s)'
      BY <1>a, <1>b, <1>f, <2>1, <2>3 DEF Fresh
    <2>5. \A r \in Subs : r # s => pc'[r] = pc[r]
      BY <1>a, <2>1
    <2>. QED
      BY <2>1, <2>3, <2>4, <2>5, <1>e
  <1>g. /\ Len(log) \in Nat /\ cursor \in Nat /\ cursor <= Len(log)
    BY IdsType DEF SeekInv, TypeInv, TypeOK, ServerTyped, IdsKnown, ServerIds
  <1>11. ASSUME NEW s \in Subs, FetchFresh(s) PROVE Goal
    <2>1. /\ Smaller(Count, Unread) \in Nat
          /\ Smaller(Count, Unread) <= Len(log) - cursor
      BY <1>g DEF Smaller, Unread
    <2>. QED
      BY <1>11, <1>f, <2>1, EmptyPick DEF FetchFresh
  <1>12. ASSUME NEW s \in Subs, FetchClaiming(s) PROVE Goal
    <2>1. PICK pick \in Picks(Idle) :
            Answer(s, pick, Smaller(Count - Len(pick), Unread), "answered")
      BY <1>12 DEF FetchClaiming
    <2>2. Idle \subseteq DOMAIN pel /\ pc[s] = "asked"
      BY <1>12 DEF Idle, FetchClaiming
    <2>3. Len(pick) \in 0..Count
      BY PickType
    <2>4. /\ Smaller(Count - Len(pick), Unread) \in Nat
          /\ Smaller(Count - Len(pick), Unread) <= Len(log) - cursor
      BY <1>g, <2>3 DEF Smaller, Unread
    <2>. QED
      BY <1>f, <2>1, <2>2, <2>4
  <1>13. ASSUME NEW s \in Subs, FetchReclaim(s) PROVE Goal
    <2> DEFINE from == {i \in Idle : i >= rcursor[s]}
    <2>1. PICK pick \in Picks(from), next \in {"answered", "listing"} :
            Answer(s, pick, 0, next)
      BY <1>13 DEF FetchReclaim
    <2>2. from \subseteq DOMAIN pel /\ pc[s] = "asked"
      BY <1>13 DEF Idle, FetchReclaim
    <2>3. 0 \in Nat /\ 0 <= Len(log) - cursor
      BY <1>g
    <2> HIDE DEF from
    <2>. QED
      BY <1>f, <2>1, <2>2, <2>3
  <1>14. ASSUME NEW s \in Subs, Enrich(s) PROVE Goal
    <2>1. /\ pc[s] = "listing" /\ pc' = [pc EXCEPT ![s] = "answered"]
          /\ UNCHANGED <<buffer, bufGen, selAt, generation, epoch, seekDone,
                         seeks>>
      BY <1>14 DEF Enrich, history
    <2>2. /\ DOMAIN reply'[s] = DOMAIN reply[s]
          /\ \A k \in DOMAIN reply[s] : reply'[s][k].epoch = reply[s][k].epoch
          /\ \A r \in Subs : r # s => reply'[r] = reply[r]
      BY <1>14, EnrichedReply DEF SeekInv
    <2>3. Fresh(s)'
      BY <1>a, <1>b, <2>1, <2>2 DEF Fresh
    <2>4. \A r \in Subs : r # s => pc'[r] = pc[r]
      BY <1>a, <2>1
    <2>. QED
      BY <2>1, <2>2, <2>3, <2>4, <1>e
  <1>15. ASSUME NEW s \in Subs, ReadReturns(s) PROVE Goal
    <2>1. /\ pc[s] = "answered" /\ pc' = [pc EXCEPT ![s] = "poll"]
          /\ reply' = [reply EXCEPT ![s] = <<>>]
          /\ UNCHANGED <<selAt, generation, epoch, seekDone, seeks>>
          /\ \/ UNCHANGED <<buffer, bufGen>>
             \/ /\ selAt[s] = generation[s]
                /\ buffer' = [buffer EXCEPT ![s] = buffer[s] \o reply[s]]
                /\ bufGen' = [bufGen EXCEPT ![s] = selAt[s]]
      BY <1>15 DEF ReadReturns, history
    <2>2. buffer[s] = <<>>
      BY <1>b, <2>1 DEF Fresh
    <2>3. buffer[s] \o reply[s] = reply[s]
      BY <1>a, <2>2, ConcatEmptySeq
    <2>4. Fresh(s)'
      <3>1. CASE UNCHANGED <<buffer, bufGen>>
        BY <1>a, <1>b, <1>c, <2>1, <2>2, <3>1 DEF Fresh
      <3>2. CASE ~UNCHANGED <<buffer, bufGen>>
        <4>1. /\ selAt[s] = generation[s] /\ buffer'[s] = reply[s]
              /\ bufGen'[s] = selAt[s] /\ reply'[s] = <<>> /\ pc'[s] = "poll"
          BY <1>a, <2>1, <2>3, <3>2
        <4>. QED
          BY <1>a, <1>b, <1>c, <2>1, <4>1 DEF Fresh
      <3>. QED
        BY <3>1, <3>2
    <2>5. \A r \in Subs : r # s => /\ pc'[r] = pc[r] /\ reply'[r] = reply[r]
                                  /\ buffer'[r] = buffer[r]
                                  /\ bufGen'[r] = bufGen[r]
      BY <1>a, <2>1
    <2>. QED
      BY <2>1, <2>4, <2>5, <1>e
  <1>16. ASSUME NEW s \in Subs, NEW n \in 1..Count, Yield(s, n) PROVE Goal
    <2> DEFINE left == SubSeq(buffer[s], n + 1, Len(buffer[s]))
    <2>1. /\ buffer' = [buffer EXCEPT ![s] = left] /\ pc[s] = "poll"
          /\ UNCHANGED <<pc, reply, bufGen, selAt, generation, epoch, seekDone,
                         seeks>>
      BY <1>16 DEF Yield, Rest
    <2>2. Elems(left) \subseteq Elems(buffer[s])
      BY <1>16, YieldedEntries DEF SeekInv, TypeInv, TypeOK
    <2>3. \A k \in DOMAIN left : \E j \in DOMAIN buffer[s] : left[k] = buffer[s][j]
      BY <2>2 DEF Elems
    <2> HIDE DEF left
    <2>4. Fresh(s)'
      BY <1>a, <1>b, <2>1, <2>3 DEF Fresh
    <2>5. \A r \in Subs : r # s => buffer'[r] = buffer[r]
      BY <1>a, <2>1
    <2>. QED
      BY <2>1, <2>4, <2>5, <1>e
  <1>17. ASSUME NEW d \in deliveries, Settle(d) \/ SettleFails(d) PROVE Goal
    BY <1>17, <1>d
    DEF Settle, Ack, Requeue, AckCopied, LeavePending, SettleRefused,
        SettleFails, Acknowledge, reader, history
  <1>18. ASSUME NEW s \in Subs, NEW kind \in SeekKinds,
                NEW to \in Positions(kind), SeekSetId(s, kind, to)
         PROVE  Goal
    <2>1. /\ epoch' = epoch + 1
          /\ seeks' = seeks \cup {[sub |-> s, epoch |-> epoch + 1]}
          /\ UNCHANGED <<pc, reply, buffer, bufGen, selAt, generation, seekDone>>
      BY <1>18 DEF SeekSetId, reader
    <2>2. \A r \in Subs : Fresh(r)'
      BY <1>a, <2>1, FreshFrame
    <2>3. \A k \in seeks : k.epoch \in Nat /\ k.epoch <= epoch
      BY DEF SeekInv, TypeInv, TypeOK, ClientTyped
    <2>. QED
      BY <1>a, <2>1, <2>2, <2>3
  \* The bump outdates whatever the subscription holds.
  <1>19. ASSUME NEW k \in seeks, SeekBump(k) PROVE Goal
    <2>1. /\ generation' = [generation EXCEPT ![k.sub] = generation[k.sub] + 1]
          /\ seekDone' = [seekDone EXCEPT ![k.sub] =
                             Larger(seekDone[k.sub], k.epoch)]
          /\ seeks' \subseteq seeks
          /\ UNCHANGED <<pc, reply, buffer, bufGen, selAt, epoch>>
      BY <1>19 DEF SeekBump, reader
    <2>2. k.sub \in Subs /\ k.epoch \in Nat /\ k.epoch <= epoch
      BY DEF SeekInv, TypeInv, TypeOK, ClientTyped
    <2>3. Fresh(k.sub)
      BY <1>b, <2>2
    <2>4. ASSUME NEW r \in Subs, r = k.sub PROVE Fresh(r)'
      <3>1. /\ generation'[r] = generation[r] + 1
            /\ seekDone'[r] = Larger(seekDone[r], k.epoch)
        BY <1>a, <2>1, <2>4
      <3>. QED
        BY <1>a, <2>1, <2>2, <2>3, <2>4, <3>1 DEF Fresh, Larger
    <2>5. ASSUME NEW r \in Subs, r # k.sub PROVE Fresh(r)'
      BY <1>a, <2>1, <2>2, <2>5, FreshFrame
    <2>6. (\A j \in seeks : j.epoch <= epoch)'
      BY <2>1 DEF SeekInv
    <2>. QED
      BY <2>4, <2>5, <2>6
  <1>20. ASSUME NEW k \in seeks, SeekFails(k) PROVE Goal
    BY <1>20, <1>d DEF SeekFails, reader, history
  <1>22. ASSUME NEW s \in Subs, ClaimLost(s) PROVE Goal
    <2>1. /\ pc[s] = "asked" /\ pc' = [pc EXCEPT ![s] = "poll"]
          /\ UNCHANGED <<reply, buffer, bufGen, selAt, generation, epoch,
                         seekDone, seeks>>
      BY <1>22 DEF ClaimLost, history
    <2>2. Fresh(s)'
      BY <1>a, <1>b, <2>1 DEF Fresh
    <2>3. \A r \in Subs : r # s => pc'[r] = pc[r]
      BY <1>a, <2>1
    <2>. QED
      BY <2>1, <2>2, <2>3, <1>e
  <1>21. CASE UNCHANGED vars
    BY <1>21, <1>d DEF vars, reader, history
  <1>. QED
    BY <1>1, <1>2, <1>3, <1>4, <1>5, <1>6, <1>7, <1>8, <1>9, <1>10, <1>11,
       <1>12, <1>13, <1>14, <1>15, <1>16, <1>17, <1>18, <1>19, <1>20, <1>21,
       <1>22
    DEF Next, Read, Crash, Exit

\* Only a yield adds a held delivery, and it takes the entry from a buffer
\* no seek outdated.
LEMMA YieldIsFresh ==
    ASSUME SeekInv, [Next]_vars,
           NEW d \in deliveries' \ deliveries, d.stage = "held"
    PROVE  d.epoch >= seekDone[d.sub]
  <1>1. ASSUME deliveries' \subseteq deliveries PROVE FALSE
    BY <1>1
  <1>2. ASSUME NEW e \in deliveries, Requeue(e) PROVE FALSE
    BY <1>2 DEF Requeue, Republished, SeekInv, TypeInv, TypeOK, ClientTyped, Delivery
  <1>3. ASSUME NEW s \in Subs, NEW n \in 1..Count, Yield(s, n)
        PROVE  d.epoch >= seekDone[d.sub]
    <2>1. Elems(SubSeq(buffer[s], 1, n)) \subseteq Elems(buffer[s])
      BY <1>3, YieldedEntries DEF SeekInv, TypeInv, TypeOK
    <2>2. PICK e \in Elems(buffer[s]) : d = Deliver(s, e)
      BY <1>3, <2>1 DEF Yield
    <2>3. bufGen[s] = generation[s]
      BY <1>3 DEF Yield, Current
    <2>4. e.epoch >= seekDone[s]
      BY <2>3 DEF Elems, SeekInv, Fresh
    <2>. QED
      BY <2>2, <2>4 DEF Deliver
  <1>4. CASE UNCHANGED vars
    BY <1>1, <1>4 DEF vars
  <1>. QED
    BY <1>1, <1>2, <1>3, <1>4
    DEF Next, Read, Settle, Publish, Age, LoseServer, Subscribe, Crash,
        Shutdown, Exit, ProcessEnds, ReadLost, ClaimLost, StartFetch, Ask, FetchFresh,
        FetchClaiming, FetchReclaim, Answer, Enrich, ReadReturns, Refused,
        RecreateGroup, Ack, AckCopied, Acknowledge, LeavePending,
        SettleRefused, SettleFails, SeekSetId, SeekBump, SeekFails

LEMMA SeekHolds == Spec => []SeekInv
  <1>1. Init => SeekInv
    BY InitTyped DEF Init, SeekInv, Fresh
  <1>2. SeekInv /\ [Next]_vars => SeekInv'
    BY SeekStep, TypeStep, IdsStep DEF SeekInv, TypeInv
  <1>. QED
    BY <1>1, <1>2, PTL DEF Spec

\* Once a seek through its own seeker returned, a subscription yields nothing
\* the server selected before that seek, however the seek, its bump and the
\* read in flight fell in time.
THEOREM NoStaleIsYielded == Spec => NoStaleDelivery
  <1>1. SeekInv /\ [Next]_vars =>
          [\A d \in deliveries' \ deliveries :
              d.stage = "held" => d.epoch >= seekDone[d.sub]]_vars
    BY YieldIsFresh
  <1>. QED
    BY <1>1, SeekHolds, PTL DEF Spec, NoStaleDelivery

-----------------------------------------------------------------------------
(* StreamGroup implements AtLeastOnce, for any subscriptions, messages,      *)
(* seeks, faults and losses.                                                *)

\* What the instance Promise substitutes for the abstract variables.
LiveIds   == {i \in Ids : Live(i)}
HeldIds   == {d.id : d \in deliveries}
WaivedIds == {i \in Ids : i \in skipped \/ i <= base}
Sent   == Elems(log)
Owed   == MsgsOf(LiveIds)
Held   == MsgsOf(HeldIds)
Waived == MsgsOf(WaivedIds)

AbstractStep == [Promise!Next]_(Promise!vars)

LEMMA LogTypes ==
    ASSUME TypeInv
    PROVE  /\ log \in Seq(Msgs) /\ Len(log) \in Nat /\ DOMAIN log = Ids
           /\ Ids = 1..Len(log)
           /\ \A i \in Ids : log[i] \in Sent /\ log[i] \in Msgs
           /\ Sent \subseteq Msgs
           /\ LiveIds \subseteq Ids /\ HeldIds \subseteq Ids
           /\ WaivedIds \subseteq Ids
           /\ base \in Nat /\ cursor \in Nat /\ base <= cursor
           /\ cursor <= Len(log) /\ DOMAIN pel \subseteq Ids
  <1>1. log \in Seq(Msgs) /\ base \in Nat /\ cursor \in Nat
    BY DEF TypeInv, TypeOK, ServerTyped
  <1>2. Len(log) \in Nat /\ DOMAIN log = Ids /\ Ids = 1..Len(log)
    BY <1>1, LenProperties DEF Ids
  <1>3. \A i \in Ids : log[i] \in Msgs
    BY <1>1, <1>2, ElementOfSeq
  <1>. QED
    BY <1>1, <1>2, <1>3
       DEF Sent, Elems, LiveIds, HeldIds, WaivedIds, TypeInv, IdsKnown,
           ServerIds, HandlerIds

\* The five abstract variables, and what it takes to leave them as they are.
LEMMA Stutters ==
    ASSUME UNCHANGED <<log, LiveIds, HeldIds, settled, WaivedIds>>
    PROVE  AbstractStep
  BY DEF AbstractStep, Promise!vars, MsgsOf, Elems, LiveIds, HeldIds, WaivedIds

LEMMA MoveStep ==
    ASSUME TypeInv, UNCHANGED <<log, HeldIds, settled>>,
           Waived \subseteq Waived', Owed \subseteq Owed' \cup Waived',
           Owed' \subseteq Sent, Waived' \subseteq Sent
    PROVE  AbstractStep
  <1>1. Promise!Move(Waived', Owed')
    BY DEF Promise!Move, MsgsOf, Elems, Sent, Owed, Held, Waived, HeldIds,
           LiveIds, WaivedIds
  <1>2. Waived' \in SUBSET Msgs /\ Owed' \in SUBSET Msgs
    BY LogTypes
  <1>. QED
    BY <1>1, <1>2 DEF AbstractStep, Promise!Next

LEMMA LetGoStep ==
    ASSUME TypeInv, UNCHANGED <<log, LiveIds, settled, WaivedIds>>,
           HeldIds' \subseteq HeldIds
    PROVE  AbstractStep
  <1>1. Held' \subseteq Held /\ Held \subseteq Sent
    BY LogTypes DEF Held, MsgsOf
  <1>2. Promise!LetGo(Held \ Held')
    BY <1>1 DEF Promise!LetGo, MsgsOf, Elems, Sent, Owed, Held, Waived, HeldIds,
                LiveIds, WaivedIds
  <1>3. (Held \ Held') \in SUBSET Msgs
    BY <1>1, LogTypes
  <1>. QED
    BY <1>2, <1>3 DEF AbstractStep, Promise!Next

\* A message leaves the debt with the one entry that is acked, if at all.
LEMMA AckedIds ==
    ASSUME TypeInv, NEW d \in deliveries, Acknowledge(d)
    PROVE  /\ UNCHANGED <<log, WaivedIds>>
           /\ Owed' \in {Owed, Owed \ {log[d.id]}}
           /\ Held' \in {Held, Held \ {log[d.id]}}
           /\ d.id \in Ids /\ log[d.id] \in Held /\ log[d.id] \in Sent
           /\ log[d.id] \in Msgs
  <1>1. /\ UNCHANGED <<log, base, cursor, skipped>>
        /\ deliveries' = deliveries \ {d}
        /\ DOMAIN pel' = DOMAIN pel \ {d.id}
    BY DEF Acknowledge, Acked
  <1>2. d.id \in Ids /\ d.id \in HeldIds
    BY LogTypes DEF HeldIds
  <1>3. Ids' = Ids /\ WaivedIds' = WaivedIds
    BY <1>1 DEF Ids, WaivedIds
  <1>4. LiveIds' \subseteq LiveIds /\ LiveIds \ {d.id} \subseteq LiveIds'
    BY <1>1, <1>3 DEF LiveIds, Live
  <1>5. Owed' \in {Owed, Owed \ {log[d.id]}}
    BY <1>1, <1>4 DEF Owed, MsgsOf
  <1>6. HeldIds' \subseteq HeldIds /\ HeldIds \ {d.id} \subseteq HeldIds'
    BY <1>1 DEF HeldIds
  <1>7. Held' \in {Held, Held \ {log[d.id]}}
    BY <1>1, <1>6 DEF Held, MsgsOf
  <1>8. log[d.id] \in Held
    BY <1>2 DEF Held, MsgsOf
  <1>. QED
    BY <1>1, <1>2, <1>3, <1>5, <1>7, <1>8, LogTypes

\* An append makes its own message owed, and no other.
LEMMA AppendedIds ==
    ASSUME TypeInv, skipped \subseteq Ids, NEW m \in Msgs,
           log' = Append(log, m),
           UNCHANGED <<base, cursor, pel, skipped>>, HeldIds' = HeldIds
    PROVE  /\ Sent' = Sent \cup {m}
           /\ Owed' = Owed \cup {m}
           /\ Held' = Held /\ Waived' = Waived
  <1> DEFINE new == Len(log) + 1
  <1>1. /\ Ids' = Ids \cup {new} /\ log'[new] = m
        /\ \A i \in Ids : log'[i] = log[i]
    BY AppendIds
  <1>2. /\ new \in Nat /\ new > cursor /\ new > base /\ new \notin Ids
        /\ DOMAIN log = Ids
    BY LogTypes
  <1>3. DOMAIN log' = Ids'
    BY LogTypes, LenProperties, AppendProperties, <1>1
  <1> HIDE DEF new
  <1>4. Sent' = Sent \cup {m}
    BY <1>1, <1>2, <1>3 DEF Sent, Elems
  <1>5. LiveIds' = LiveIds \cup {new} /\ LiveIds \subseteq Ids
    BY <1>1, <1>2, LogTypes DEF LiveIds, Live
  <1>6. Owed' = Owed \cup {m}
    BY <1>1, <1>5 DEF Owed, MsgsOf
  <1>7. HeldIds' = HeldIds /\ HeldIds \subseteq Ids
    BY LogTypes
  <1>8. Held' = Held
    BY <1>1, <1>7 DEF Held, MsgsOf
  <1>9. WaivedIds' = WaivedIds /\ WaivedIds \subseteq Ids
    <2>1. new \notin skipped /\ ~(new <= base)
      BY <1>2, LogTypes
    <2>. QED
      BY <1>1, <2>1 DEF WaivedIds
  <1>10. Waived' = Waived
    BY <1>1, <1>9 DEF Waived, MsgsOf
  <1>. QED
    BY <1>4, <1>6, <1>8, <1>10

\* Only entries the log has are given up, so a new one never is.
LEMMA SkippedStep ==
    ASSUME TypeInv, skipped \subseteq Ids, [Next]_vars
    PROVE  skipped' \subseteq Ids'
  <1> DEFINE Goal == skipped' \subseteq Ids'
  <1>0. /\ Len(log) \in Nat /\ base \in Nat /\ cursor \in Nat
        /\ Ids = 1..Len(log) /\ base <= Len(log)
    BY LogTypes
  <1>1. \A from, to \in 0..Len(log) : Passed(from, to) \subseteq Ids
    BY <1>0 DEF Passed
  <1>2. CASE UNCHANGED <<log, skipped>>
    BY <1>2 DEF Ids
  <1>3. ASSUME NEW m \in Msgs, Publish(m) PROVE Goal
    BY <1>3, AppendIds DEF Publish, history
  <1>4. ASSUME NEW d \in deliveries, Requeue(d) PROVE Goal
    <2>1. d.id \in Ids /\ log[d.id] \in Msgs
      BY LogTypes DEF TypeInv, IdsKnown, HandlerIds
    <2>. QED
      BY <1>4, <2>1, AppendIds DEF Requeue, Republished, history
  <1>5. ASSUME NEW at \in 0..Len(log), EnsureGroup(at), log' = log
        PROVE  Goal
    <2>1. skipped' \in {skipped, skipped \cup Passed(base, at)}
      BY <1>5 DEF EnsureGroup
    <2>2. Ids' = Ids
      BY <1>5 DEF Ids
    <2>. QED
      BY <1>0, <1>1, <2>1, <2>2
  <1>6. ASSUME NEW s \in Subs, Subscribe(s) PROVE Goal
    BY <1>0, <1>5, <1>6 DEF Subscribe
  <1>7. ASSUME NEW s \in Subs, RecreateGroup(s) PROVE Goal
    BY <1>0, <1>5, <1>7 DEF RecreateGroup, RecreatedAt
  <1>8. ASSUME NEW s \in Subs, NEW kind \in SeekKinds,
               NEW to \in Positions(kind), SeekSetId(s, kind, to)
        PROVE  Goal
    <2>1. to \in 0..Len(log) /\ cursor \in 0..Len(log)
      BY <1>0, LogTypes, ConstantsAssumption DEF Positions
    <2>2. skipped' = skipped \cup Passed(cursor, to) /\ log' = log
      BY <1>8 DEF SeekSetId
    <2>. QED
      BY <1>1, <2>1, <2>2 DEF Ids
  <1>9. ASSUME NEW s \in Subs,
               \/ Crash(s) \/ Shutdown(s) \/ Exit(s) \/ ReadLost(s)
               \/ ClaimLost(s) \/ StartFetch(s) \/ Ask(s) \/ FetchFresh(s)
               \/ FetchClaiming(s) \/ FetchReclaim(s) \/ Enrich(s)
               \/ ReadReturns(s) \/ Refused(s)
               \/ \E n \in 1..Count : Yield(s, n)
        PROVE  UNCHANGED <<log, skipped>>
    BY <1>9
    DEF Crash, Shutdown, Exit, ProcessEnds, ReadLost, ClaimLost, StartFetch,
        Ask, FetchFresh, FetchClaiming, FetchReclaim, Answer, Enrich,
        ReadReturns, Refused, Yield, server, history
  <1>10. ASSUME NEW d \in deliveries,
                \/ Ack(d) \/ AckCopied(d) \/ LeavePending(d)
                \/ SettleRefused(d) \/ SettleFails(d)
         PROVE  UNCHANGED <<log, skipped>>
    BY <1>10
    DEF Ack, AckCopied, Acknowledge, LeavePending, SettleRefused, SettleFails,
        server, history
  <1>11. ASSUME NEW k \in seeks, SeekBump(k) \/ SeekFails(k)
         PROVE  UNCHANGED <<log, skipped>>
    BY <1>11 DEF SeekBump, SeekFails, server, history
  <1>12. ASSUME NEW i \in DOMAIN pel, Age(i) PROVE UNCHANGED <<log, skipped>>
    BY <1>12 DEF Age, history
  <1>13. CASE LoseServer \/ UNCHANGED vars
    BY <1>2, <1>13 DEF LoseServer, vars, server, history
  <1> HIDE DEF Goal
  <1>14. Goal
    BY <1>2, <1>3, <1>4, <1>6, <1>7, <1>8, <1>9, <1>10, <1>11, <1>12, <1>13
    DEF Next, Read, Settle, Goal
  <1>. QED
    BY <1>14 DEF Goal

-----------------------------------------------------------------------------
(* Each step of the group is a step of the promise, or a stutter.           *)

RefinementInv == AccountedInv /\ skipped \subseteq Ids

LEMMA RefinementStep ==
    ASSUME RefinementInv, AccountedInv', [Next]_vars PROVE AbstractStep
  <1>0. /\ TypeInv /\ TypeInv' /\ skipped \subseteq Ids /\ NothingLost'
        /\ Ids = 1..Len(log) /\ Len(log) \in Nat
        /\ base \in Nat /\ cursor \in Nat /\ base <= cursor
        /\ cursor <= Len(log) /\ Ids \subseteq Nat
    <2>1. (AccountedInv => NothingLost)'
      BY AccountedMeansKept, PTL
    <2>2. TypeInv /\ TypeInv' /\ skipped \subseteq Ids /\ NothingLost'
      BY <2>1 DEF RefinementInv, AccountedInv
    <2>3. Ids \subseteq Nat
      BY <2>2, IdsType DEF TypeInv, TypeOK, ServerTyped
    <2>. QED
      BY <2>2, <2>3, LogTypes
  \* A step that touches neither the entries, the verdicts nor the handlers.
  <1>a. ASSUME UNCHANGED <<log, base, cursor, skipped, settled, deliveries>>,
               DOMAIN pel' = DOMAIN pel
        PROVE  AbstractStep
    <2>1. UNCHANGED <<Ids, LiveIds, HeldIds, WaivedIds>>
      BY <1>a DEF Ids, LiveIds, Live, HeldIds, WaivedIds
    <2>. QED
      BY <1>a, <2>1, Stutters
  \* A step that only takes deliveries from handlers.
  <1>b. ASSUME UNCHANGED <<log, base, cursor, skipped, settled, pel>>,
               deliveries' \subseteq deliveries
        PROVE  AbstractStep
    <2>1. UNCHANGED <<Ids, LiveIds, WaivedIds>> /\ HeldIds' \subseteq HeldIds
      BY <1>b DEF Ids, LiveIds, Live, HeldIds, WaivedIds
    <2>. QED
      BY <1>0, <1>b, <2>1, LetGoStep
  \* A step that moves the group: an entry it no longer has was given up.
  <1>c. ASSUME UNCHANGED <<log, settled, deliveries>>,
               base <= base', base' \in Nat, skipped \subseteq skipped',
               \A i \in Ids : Live(i) =>
                    Live(i)' \/ i \in skipped' \/ i <= base'
        PROVE  AbstractStep
    <2>1. UNCHANGED <<Ids, HeldIds>>
      BY <1>c DEF Ids, HeldIds
    <2>2. WaivedIds \subseteq WaivedIds' /\ LiveIds \subseteq LiveIds' \cup WaivedIds'
      BY <1>0, <1>c, <2>1 DEF WaivedIds, LiveIds
    <2>3. Waived \subseteq Waived' /\ Owed \subseteq Owed' \cup Waived'
      BY <1>c, <2>2 DEF Waived, Owed, MsgsOf
    <2>4. LiveIds' \subseteq Ids /\ WaivedIds' \subseteq Ids
      BY <2>1 DEF LiveIds, WaivedIds
    <2>5. \A i \in Ids : log'[i] \in Sent
      BY <1>0, <1>c, LogTypes
    <2>6. Owed' \subseteq Sent /\ Waived' \subseteq Sent
      BY <2>4, <2>5 DEF Owed, Waived, MsgsOf
    <2>. QED
      BY <1>0, <1>c, <2>1, <2>3, <2>6, MoveStep
  <1>1. ASSUME NEW m \in Msgs, Publish(m) PROVE AbstractStep
    <2>1. /\ log' = Append(log, m) /\ m \notin Sent
          /\ UNCHANGED <<base, cursor, pel, skipped, deliveries, settled>>
      BY <1>1 DEF Publish, history, Sent
    <2>2. HeldIds' = HeldIds
      BY <2>1 DEF HeldIds
    <2>3. /\ Sent' = Sent \cup {m} /\ Owed' = Owed \cup {m}
          /\ Held' = Held /\ Waived' = Waived
      BY <1>0, <2>1, <2>2, AppendedIds
    <2>4. Promise!Send(m)
      BY <2>1, <2>3 DEF Promise!Send, Sent, Owed, Held, Waived, LiveIds,
                        HeldIds, WaivedIds
    <2>. QED
      BY <2>4 DEF AbstractStep, Promise!Next
  <1>2. ASSUME NEW i \in DOMAIN pel, Age(i) PROVE AbstractStep
    BY <1>2, <1>a DEF Age, history
  <1>3. ASSUME LoseServer PROVE AbstractStep
    <2>1. base' = Len(log) /\ UNCHANGED <<log, skipped, settled, deliveries>>
      BY <1>3 DEF LoseServer, history
    <2>2. \A i \in Ids : i <= base'
      BY <1>0, <2>1
    <2>3. base <= base' /\ base' \in Nat
      BY <1>0, <2>1
    <2>. QED
      BY <1>c, <2>1, <2>2, <2>3
  <1>d. ASSUME NEW at \in {base, Len(log)}, EnsureGroup(at),
               UNCHANGED <<log, base, pel, settled, deliveries>>
        PROVE  AbstractStep
    <2>1. skipped \subseteq skipped'
      BY <1>d DEF EnsureGroup
    <2>2. ASSUME NEW i \in Ids, Live(i) PROVE Live(i)' \/ i \in skipped'
      <3>1. CASE i \in DOMAIN pel \/ i > cursor'
        BY <1>d, <2>2, <3>1 DEF Live
      <3>2. CASE i \notin DOMAIN pel /\ ~(i > cursor')
        <4>1. i > cursor /\ i > base /\ i \in Nat
          BY <1>0, <2>2, <3>2 DEF Live
        <4>2. cursor' # cursor
          BY <3>2, <4>1
        <4>3. cursor' = at /\ skipped' = skipped \cup Passed(base, at)
          BY <1>d, <4>2 DEF EnsureGroup
        <4>4. i \in base + 1 .. at
          BY <1>0, <3>2, <4>1, <4>3
        <4>. QED
          BY <3>2, <4>3, <4>4 DEF Passed
      <3>. QED
        BY <3>1, <3>2
    <2>. QED
      BY <1>0, <1>c, <1>d, <2>1, <2>2
  <1>4. ASSUME NEW s \in Subs, Subscribe(s) PROVE AbstractStep
    BY <1>4, <1>d DEF Subscribe
  <1>5. ASSUME NEW s \in Subs, RecreateGroup(s) PROVE AbstractStep
    BY <1>5, <1>d DEF RecreateGroup, RecreatedAt
  <1>6. ASSUME NEW s \in Subs, NEW kind \in SeekKinds,
               NEW to \in Positions(kind), SeekSetId(s, kind, to)
        PROVE  AbstractStep
    <2>1. /\ UNCHANGED <<log, base, pel, settled, deliveries>>
          /\ cursor' = to /\ skipped' = skipped \cup Passed(cursor, to)
      BY <1>6 DEF SeekSetId
    <2>2. to \in Nat
      BY <1>0, ConstantsAssumption DEF Positions
    <2>3. ASSUME NEW i \in Ids, Live(i) PROVE Live(i)' \/ i \in skipped'
      BY <1>0, <2>1, <2>2, <2>3 DEF Live, Passed
    <2>. QED
      BY <1>0, <1>c, <2>1, <2>3
  <1>7. ASSUME NEW s \in Subs, ProcessEnds(s) PROVE AbstractStep
    BY <1>7, <1>b DEF ProcessEnds, server, history
  <1>8. ASSUME NEW s \in Subs,
               \/ Shutdown(s) \/ ReadLost(s) \/ StartFetch(s) \/ Ask(s)
               \/ Refused(s) \/ Enrich(s) \/ ReadReturns(s)
        PROVE  AbstractStep
    <2>1. UNCHANGED <<server, deliveries, history>>
      BY <1>8 DEF Shutdown, ReadLost, StartFetch, Ask, Refused, Enrich,
                  ReadReturns
    <2>. QED
      BY <2>1, <1>a DEF server, history
  \* What an answer moves the cursor over becomes pending.
  <1>e. ASSUME NEW s \in Subs, NEW claimed, NEW from,
               from \subseteq DOMAIN pel, claimed \in Picks(from),
               NEW n \in Nat, n <= Len(log) - cursor, NEW next \in ReadPc,
               Answer(s, claimed, n, next)
        PROVE  AbstractStep
    <2>1. UNCHANGED <<log, base, deliveries, skipped, settled>>
      BY <1>e DEF Answer, history
    <2>2. /\ cursor' = cursor + n
          /\ DOMAIN pel' = DOMAIN pel \cup (cursor + 1 .. cursor + n)
      BY <1>0, <1>e, ConstantsAssumption, AnswerTyped DEF TypeInv
    <2>3. \A i \in Ids : Live(i) => Live(i)'
      BY <1>0, <2>1, <2>2 DEF Live
    <2>. QED
      BY <1>0, <1>c, <2>1, <2>3
  <1>9. ASSUME NEW s \in Subs, FetchFresh(s) PROVE AbstractStep
    <2>1. /\ Smaller(Count, Unread) \in Nat
          /\ Smaller(Count, Unread) <= Len(log) - cursor
      BY <1>0, ConstantsAssumption DEF Smaller, Unread
    <2>2. "answered" \in ReadPc
      BY DEF ReadPc
    <2>. QED
      BY <1>9, <1>e, <2>1, <2>2, EmptyPick DEF FetchFresh
  <1>10. ASSUME NEW s \in Subs, FetchClaiming(s) PROVE AbstractStep
    <2>1. PICK pick \in Picks(Idle) :
            Answer(s, pick, Smaller(Count - Len(pick), Unread), "answered")
      BY <1>10 DEF FetchClaiming
    <2>2. Idle \subseteq DOMAIN pel /\ "answered" \in ReadPc
      BY DEF Idle, ReadPc
    <2>3. Len(pick) \in 0..Count
      BY <1>0, ConstantsAssumption, PickType
    <2>4. /\ Smaller(Count - Len(pick), Unread) \in Nat
          /\ Smaller(Count - Len(pick), Unread) <= Len(log) - cursor
      BY <1>0, <2>3, ConstantsAssumption DEF Smaller, Unread
    <2>. QED
      BY <1>e, <2>1, <2>2, <2>4
  <1>11. ASSUME NEW s \in Subs, FetchReclaim(s) PROVE AbstractStep
    <2> DEFINE from == {i \in Idle : i >= rcursor[s]}
    <2>1. PICK pick \in Picks(from), next \in {"answered", "listing"} :
            Answer(s, pick, 0, next)
      BY <1>11 DEF FetchReclaim
    <2>2. from \subseteq DOMAIN pel /\ next \in ReadPc
      BY <2>1 DEF Idle, ReadPc
    <2>3. 0 \in Nat /\ 0 <= Len(log) - cursor
      BY <1>0
    <2> HIDE DEF from
    <2>. QED
      BY <1>e, <2>1, <2>2, <2>3
  <1>12. ASSUME NEW s \in Subs, ClaimLost(s) PROVE AbstractStep
    BY <1>12, <1>a DEF ClaimLost, Claimed, history
  <1>13. ASSUME NEW s \in Subs, NEW n \in 1..Count, Yield(s, n)
         PROVE  AbstractStep
    <2>1. /\ UNCHANGED <<log, base, cursor, pel, skipped, settled>>
          /\ deliveries \subseteq deliveries'
      BY <1>13 DEF Yield, server
    <2>2. UNCHANGED <<Ids, LiveIds, WaivedIds>>
      BY <2>1 DEF Ids, LiveIds, Live, WaivedIds
    <2>3. HeldIds \subseteq HeldIds'
      BY <2>1 DEF HeldIds
    <2>4. HeldIds' \subseteq Ids
      BY <1>0, <2>2 DEF HeldIds, TypeInv, IdsKnown, HandlerIds
    <2>5. Held' = Held \cup Held' /\ Held' \subseteq Sent
      BY <2>1, <2>3, <2>4, <1>0, LogTypes DEF Held, MsgsOf
    <2>6. Promise!Hand(Held')
      BY <2>1, <2>2, <2>5 DEF Promise!Hand, Sent, Held, MsgsOf, Elems,
                              LiveIds, HeldIds, WaivedIds
    <2>7. Held' \in SUBSET Msgs
      BY <1>0, <2>5, LogTypes
    <2>. QED
      BY <2>6, <2>7 DEF AbstractStep, Promise!Next
  <1>14. ASSUME NEW d \in deliveries, Ack(d) PROVE AbstractStep
    <2> DEFINE m == log[d.id]
    <2>1. Acknowledge(d) /\ settled' = settled \cup {m}
      BY <1>14 DEF Ack
    <2>2. /\ UNCHANGED <<log, WaivedIds>>
          /\ Owed' \in {Owed, Owed \ {m}} /\ Held' \in {Held, Held \ {m}}
          /\ m \in Held /\ m \in Msgs
      BY <1>0, <2>1, AckedIds
    <2> HIDE DEF m
    <2>3. Promise!Settle(m)
      BY <2>1, <2>2 DEF Promise!Settle, MsgsOf, Elems, Owed, Held, LiveIds,
                        HeldIds, WaivedIds
    <2>. QED
      BY <2>2, <2>3 DEF AbstractStep, Promise!Next
  \* The copy answers for the original: the message stays owed, or somebody
  \* settled it already.
  <1>15. ASSUME NEW d \in deliveries, AckCopied(d) PROVE AbstractStep
    <2> DEFINE m == log[d.id]
    <2>1. Acknowledge(d) /\ settled' = settled
      BY <1>15 DEF AckCopied
    <2>2. /\ UNCHANGED <<log, WaivedIds>>
          /\ Owed' \in {Owed, Owed \ {m}} /\ Held' \in {Held, Held \ {m}}
          /\ m \in Held /\ m \in Msgs /\ m \in Sent
      BY <1>0, <2>1, AckedIds
    <2>3. CASE m \notin Owed'
      <3>1. m \in settled' \/ \E i \in Ids' : log'[i] = m
                /\ (Live(i)' \/ i \in skipped' \/ i <= base')
        BY <1>0, <2>2 DEF NothingLost, Sent, Elems
      <3>2. m \in settled \/ m \in Waived'
        BY <2>1, <2>3, <3>1 DEF Owed, Waived, LiveIds, WaivedIds, MsgsOf
      <3>3. Waived' = Waived /\ Owed' = Owed \ {m}
        BY <2>2, <2>3 DEF Waived, MsgsOf
      <3> HIDE DEF m
      <3>4. Promise!Clear(m)
        BY <2>1, <2>2, <3>2, <3>3
        DEF Promise!Clear, MsgsOf, Elems, Owed, Held, Waived, LiveIds,
            HeldIds, WaivedIds
      <3>. QED
        BY <2>2, <3>4 DEF AbstractStep, Promise!Next
    <2>4. CASE m \in Owed'
      <3>1. Owed' = Owed /\ Held' \subseteq Held /\ Held \subseteq Msgs
        BY <2>2, <2>4, <1>0, LogTypes DEF Held, MsgsOf
      <3>2. Promise!LetGo(Held \ Held')
        BY <2>1, <2>2, <3>1
        DEF Promise!LetGo, MsgsOf, Elems, Owed, Held, LiveIds, HeldIds,
            WaivedIds
      <3>3. (Held \ Held') \in SUBSET Msgs
        BY <3>1
      <3>. QED
        BY <3>2, <3>3 DEF AbstractStep, Promise!Next
    <2>. QED
      BY <2>3, <2>4
  <1>16. ASSUME NEW d \in deliveries, Requeue(d) PROVE AbstractStep
    <2> DEFINE m == log[d.id]
               copied == [d EXCEPT !.stage = "copied"]
    <2>1. /\ log' = Append(log, m)
          /\ UNCHANGED <<base, cursor, pel, skipped, settled>>
          /\ deliveries' = (deliveries \ {d}) \cup {copied}
      BY <1>16 DEF Requeue, Republished, history
    <2>2. d.id \in Ids /\ m \in Msgs /\ m \in Sent
      BY <1>0, LogTypes DEF TypeInv, IdsKnown, HandlerIds
    <2>3. copied.id = d.id
      BY <1>0 DEF TypeInv, TypeOK, ClientTyped, Delivery
    <2> HIDE DEF m, copied
    <2>4. HeldIds' = HeldIds
      BY <2>1, <2>3 DEF HeldIds
    <2>5. /\ Sent' = Sent \cup {m} /\ Owed' = Owed \cup {m}
          /\ Held' = Held /\ Waived' = Waived
      BY <1>0, <2>1, <2>2, <2>4, AppendedIds
    <2>6. Promise!Move({}, {m})
      BY <2>1, <2>2, <2>5
      DEF Promise!Move, Sent, Owed, Held, Waived, LiveIds, HeldIds, WaivedIds
    <2>7. {} \in SUBSET Msgs /\ {m} \in SUBSET Msgs
      BY <2>2
    <2>. QED
      BY <2>6, <2>7 DEF AbstractStep, Promise!Next
  <1>17. ASSUME NEW d \in deliveries,
                LeavePending(d) \/ SettleRefused(d) \/ SettleFails(d)
         PROVE  AbstractStep
    <2>1. UNCHANGED <<server, history>> /\ deliveries' \subseteq deliveries
      BY <1>17 DEF LeavePending, SettleRefused, SettleFails
    <2>. QED
      BY <2>1, <1>b DEF server, history
  <1>18. ASSUME NEW k \in seeks, SeekBump(k) \/ SeekFails(k)
         PROVE  AbstractStep
    <2>1. UNCHANGED <<server, deliveries, settled, skipped>>
      BY <1>18 DEF SeekBump, SeekFails, history
    <2>. QED
      BY <2>1, <1>a DEF server
  <1>19. CASE UNCHANGED vars
    <2>1. UNCHANGED <<server, deliveries, history>>
      BY <1>19 DEF vars
    <2>. QED
      BY <2>1, <1>a DEF server, history
  <1>. QED
    BY <1>1, <1>2, <1>3, <1>4, <1>5, <1>6, <1>7, <1>8, <1>9, <1>10, <1>11,
       <1>12, <1>13, <1>14, <1>15, <1>16, <1>17, <1>18, <1>19
    DEF Next, Read, Settle, Crash, Exit

LEMMA InitialStates == Init => Promise!Init /\ RefinementInv
  <1>1. SUFFICES ASSUME Init PROVE Promise!Init /\ RefinementInv
    OBVIOUS
  <1>2. /\ log = <<>> /\ Len(log) = 0 /\ DOMAIN log = {} /\ Ids = {}
        /\ deliveries = {} /\ settled = {} /\ skipped = {}
    BY <1>1 DEF Init, Ids
  <1>3. Promise!Init
    BY <1>2 DEF Promise!Init, Elems, MsgsOf
  <1>4. EntriesAccounted /\ CopiesExist
    BY <1>2 DEF EntriesAccounted, CopiesExist
  <1>. QED
    BY <1>1, <1>2, <1>3, <1>4, InitTyped DEF RefinementInv, AccountedInv

\* The consumer group keeps the promise of AtLeastOnce: whatever the readers,
\* handlers, seeks, crashes and losses do, a message stops being owed only by
\* the verdict of a handler that held it, or by being given up.
THEOREM GroupImplementsPromise == Spec => ImplementsPromise
  <1>1. RefinementInv /\ AccountedInv' /\ [Next]_vars => RefinementInv'
    BY SkippedStep DEF RefinementInv, AccountedInv
  <1>2. RefinementInv /\ AccountedInv' /\ [Next]_vars
            => [Promise!Next]_(Promise!vars)
    BY RefinementStep DEF AbstractStep
  <1>. QED
    BY <1>1, <1>2, InitialStates, AccountedHolds, PTL
    DEF Spec, ImplementsPromise, Promise!Spec

-----------------------------------------------------------------------------
(* What the runtime is told of an entry is what the server counted.  The    *)
(* reclaim mode is why this is no assignment: its count comes from a second *)
(* command, and other consumers may claim the entry in between.             *)

ToldBy(mode, e) ==
    /\ mode = "claiming" => e.told = {e.count}
    /\ mode = "reclaim" => e.told \subseteq {0, e.count}
    /\ mode = "fresh" => e.told = {}

\* Between its two commands a reclaiming reader is owed the count of every
\* entry it still owns: who else claims one takes it over.
CountKept(s) ==
    \A k \in DOMAIN reply[s] :
        LET i == reply[s][k].id
        IN  (i \in DOMAIN pel /\ pel[i].owner = s)
               => pel[i].count = reply[s][k].count

Told(s) ==
    /\ \A k \in DOMAIN buffer[s] : ToldBy(Mode[s], buffer[s][k])
    /\ \A k \in DOMAIN reply[s] : ToldBy(Mode[s], reply[s][k])
    /\ pc[s] = "listing" => Mode[s] = "reclaim" /\ CountKept(s)

ToldInv == SeekInv /\ \A s \in Subs : Told(s)

\* What another consumer or the server does to the list of s: entries leave
\* it, or become idle.
OthersMay(s) ==
    \A i \in DOMAIN pel' :
        pel'[i].owner = s =>
            /\ i \in DOMAIN pel /\ pel[i].owner = s
            /\ pel'[i].count = pel[i].count

LEMMA ToldFrame ==
    ASSUME NEW s \in Subs, Told(s), OthersMay(s), pc'[s] = pc[s],
           reply'[s] = reply[s], buffer'[s] = buffer[s]
    PROVE  Told(s)'
  <1>1. /\ (\A k \in DOMAIN buffer[s] : ToldBy(Mode[s], buffer[s][k]))'
        /\ (\A k \in DOMAIN reply[s] : ToldBy(Mode[s], reply[s][k]))'
    BY DEF Told, ToldBy
  <1>2. pc[s] = "listing" => CountKept(s)'
    BY DEF Told, CountKept, OthersMay
  <1>. QED
    BY <1>1, <1>2 DEF Told

\* A reader whose reply went away, whatever else it does.
LEMMA ToldEmpty ==
    ASSUME NEW s \in Subs, Told(s), pc'[s] # "listing", reply'[s] = <<>>,
           \A k \in DOMAIN buffer'[s] : ToldBy(Mode[s], buffer'[s][k])
    PROVE  Told(s)'
  <1>1. DOMAIN <<>> = {}
    OBVIOUS
  <1>. QED
    BY <1>1 DEF Told

\* The same list: nothing that was claimed or acked was claimed by s.
LEMMA ClaimedByOthers ==
    ASSUME TypeInv, NEW s \in Subs, NEW r \in Subs, r # s, NEW old, NEW tail,
           tail \subseteq Nat,
           pel' = HandedOut(Claimed(pel, old, r), tail, r)
    PROVE  OthersMay(s)
  <1> DEFINE list == Claimed(pel, old, r)
  <1>1. /\ DOMAIN list = DOMAIN pel
        /\ \A i \in DOMAIN pel : i \notin old => list[i] = pel[i]
        /\ \A i \in DOMAIN pel : i \in old => list[i].owner = r
    BY DEF Claimed
  <1> HIDE DEF list
  <1>2. /\ DOMAIN pel' = DOMAIN list \cup tail
        /\ \A i \in DOMAIN pel' : i \notin tail => pel'[i] = list[i]
        /\ \A i \in DOMAIN pel' : i \in tail => pel'[i].owner = r
    BY DEF HandedOut, list
  <1>. QED
    BY <1>1, <1>2 DEF OthersMay

\* What an answer says of its entries, in every mode.
LEMMA AnswerTold ==
    ASSUME TypeInv, Count \in Nat \ {0},
           NEW s \in Subs, NEW claimed, NEW from,
           from \subseteq DOMAIN pel, claimed \in Picks(from),
           NEW n \in Nat, n <= Len(log) - cursor, NEW next \in ReadPc,
           Mode[s] = "fresh" => claimed = <<>>,
           Mode[s] = "reclaim" => n = 0,
           Answer(s, claimed, n, next)
    PROVE  /\ \A k \in DOMAIN reply'[s] : ToldBy(Mode[s], reply'[s][k])
           /\ Mode[s] = "reclaim" => CountKept(s)'
  <1> USE DEF TypeInv, TypeOK
  <1>0. Len(log) \in Nat /\ cursor \in Nat
    BY IdsType DEF ServerTyped
  <1>1. /\ claimed \in [1..Len(claimed) -> from]
        /\ DOMAIN claimed = 1..Len(claimed)
        /\ Elems(claimed) \subseteq from
        /\ Len(claimed) \in Nat
    BY PickType
  <1> DEFINE told(i) == IF Mode[s] = "claiming" THEN Annotated(i) ELSE {}
             tailTold == IF Mode[s] = "claiming" THEN {1} ELSE {}
             first == [k \in DOMAIN claimed |->
                         Make(claimed[k], told(claimed[k]),
                              pel[claimed[k]].count + 1)]
             rest == [k \in 1..n |-> Make(cursor + k, tailTold, 1)]
  <1>2. /\ pel' = HandedOut(Claimed(pel, Elems(claimed), s),
                            cursor + 1 .. cursor + n, s)
        /\ reply' = [reply EXCEPT ![s] = first \o rest]
    BY DEF Answer
  <1>3. first \in [1..Len(claimed) -> Entry] /\ rest \in [1..n -> Entry]
    <2>1. \A i \in from : pel[i].count \in Nat /\ i \in Nat
      BY DEF ServerTyped, Pending
    <2>2. epoch \in Nat
      BY DEF HistoryTyped
    <2>. QED
      BY <1>0, <1>1, <2>1, <2>2 DEF Make, Entry, Annotated
  <1>4. /\ first \in Seq(Entry) /\ Len(first) = Len(claimed)
        /\ rest \in Seq(Entry) /\ Len(rest) = n
    BY <1>1, <1>3, SeqOfFunction
  <1>5. reply'[s] = first \o rest
    BY <1>2 DEF ReaderTyped
  <1>6. \A k \in DOMAIN first : ToldBy(Mode[s], first[k])
    <2>1. CASE Mode[s] = "claiming"
      BY <2>1 DEF Make, ToldBy, Annotated
    <2>2. CASE Mode[s] = "reclaim"
      BY <2>2 DEF Make, ToldBy
    <2>3. CASE Mode[s] = "fresh"
      BY <2>3 DEF Make, ToldBy
    <2>. QED
      BY <2>1, <2>2, <2>3 DEF ToldBy
  <1>7. \A k \in DOMAIN rest : ToldBy(Mode[s], rest[k])
    <2>1. CASE Mode[s] = "claiming"
      BY <2>1 DEF Make, ToldBy
    <2>2. CASE Mode[s] = "reclaim"
      BY <2>2 DEF Make, ToldBy
    <2>3. CASE Mode[s] = "fresh"
      BY <2>3 DEF Make, ToldBy
    <2>. QED
      BY <2>1, <2>2, <2>3 DEF ToldBy
  <1>8. \A k \in DOMAIN first :
           /\ first[k].id \in Elems(claimed) /\ first[k].id \in DOMAIN pel
           /\ first[k].count = pel[first[k].id].count + 1
    BY <1>1 DEF Make, Elems
  <1> HIDE DEF first, rest
  <1>9. \A k \in DOMAIN (first \o rest) : ToldBy(Mode[s], (first \o rest)[k])
    BY <1>4, <1>6, <1>7, ConcatEntries
  <1>10. ASSUME Mode[s] = "reclaim" PROVE CountKept(s)'
    <2>1. n = 0 /\ Len(rest) = 0 /\ DOMAIN rest = {}
      BY <1>4, <1>10 DEF rest
    <2>2. \A k \in DOMAIN (first \o rest) :
             \E j \in DOMAIN first : (first \o rest)[k] = first[j]
      BY <1>4, <2>1, ConcatEntries
    <2>3. cursor + 1 .. cursor + n = {}
      BY <1>0, <2>1
    <2>4. \A i \in Elems(claimed) : i \in DOMAIN pel =>
             pel'[i].count = pel[i].count + 1
      BY <1>2, <2>3 DEF HandedOut, Claimed
    <2>. QED
      BY <1>5, <1>8, <2>2, <2>4 DEF CountKept
  <1>. QED
    BY <1>5, <1>9, <1>10

\* XPENDING tells an entry still owned the count of the claim, and one that
\* was lost to another consumer, or is too far down the list, none.
LEMMA EnrichTold ==
    ASSUME ToldInv, NEW s \in Subs, Enrich(s)
    PROVE  \A k \in DOMAIN reply'[s] : ToldBy(Mode[s], reply'[s][k])
  <1> USE DEF ToldInv, SeekInv, TypeInv, TypeOK
  <1>1. Mode[s] = "reclaim" /\ CountKept(s)
    BY DEF Enrich, Told
  <1>2. /\ reply[s] \in Seq(Entry)
        /\ \A k \in DOMAIN reply[s] : reply[s][k] \in Entry
    BY LenProperties DEF ReaderTyped
  <1>3. ASSUME NEW k \in DOMAIN reply[s]
        PROVE  reply'[s][k].told \subseteq {0, reply[s][k].count}
    <2> DEFINE i == reply[s][k].id
    <2>1. reply'[s][k] = [reply[s][k] EXCEPT !.told = ListedCount(Listed(s), i)]
      BY <1>3 DEF Enrich, ReaderTyped
    <2>2. reply'[s][k].told = ListedCount(Listed(s), i)
      BY <1>2, <2>1 DEF Entry
    <2>3. i \in Listed(s) => pel[i].count = reply[s][k].count
      BY <1>1, <1>3 DEF Listed, CountKept
    <2>. QED
      BY <2>2, <2>3 DEF ListedCount
  <1>4. /\ DOMAIN reply'[s] = DOMAIN reply[s]
        /\ \A k \in DOMAIN reply[s] : reply'[s][k].count = reply[s][k].count
    BY EnrichedReply
  <1>. QED
    BY <1>1, <1>3, <1>4 DEF ToldBy

LEMMA ToldStep ==
    ASSUME ToldInv, [Next]_vars PROVE (\A s \in Subs : Told(s))'
  <1> USE ConstantsAssumption
  <1> DEFINE Goal == (\A s \in Subs : Told(s))'
  <1>a. /\ pc \in [Subs -> ReadPc] /\ reply \in [Subs -> Seq(Entry)]
        /\ buffer \in [Subs -> Seq(Entry)] /\ TypeInv
    BY DEF ToldInv, SeekInv, TypeInv, TypeOK, ReaderTyped
  <1>b. \A s \in Subs : Told(s) /\ Fresh(s)
    BY DEF ToldInv, SeekInv
  <1>c. DOMAIN <<>> = {}
    OBVIOUS
  \* Steps that leave the readers as they are.
  <1>d. ASSUME UNCHANGED <<pc, reply, buffer>>, \A s \in Subs : OthersMay(s)
        PROVE  Goal
    BY <1>b, <1>d, ToldFrame
  \* Steps of the reader s.
  <1>e. ASSUME NEW s \in Subs, Told(s)', \A r \in Subs : r # s => OthersMay(r),
               \A r \in Subs : r # s =>
                  /\ pc'[r] = pc[r] /\ reply'[r] = reply[r]
                  /\ buffer'[r] = buffer[r]
        PROVE  Goal
    <2>1. ASSUME NEW r \in Subs, r # s PROVE Told(r)'
      BY <1>b, <1>e, <2>1, ToldFrame
    <2>. QED
      BY <1>e, <2>1
  <1>f. pel' = pel => \A s \in Subs : OthersMay(s)
    BY DEF OthersMay
  <1>1. ASSUME NEW m \in Msgs, Publish(m) PROVE Goal
    BY <1>1, <1>d, <1>f DEF Publish, reader
  <1>2. ASSUME NEW i \in DOMAIN pel, Age(i) PROVE Goal
    <2>1. DOMAIN pel' = DOMAIN pel /\ \A j \in DOMAIN pel :
             pel'[j].owner = pel[j].owner /\ pel'[j].count = pel[j].count
      <3>1. pel' = [pel EXCEPT ![i].idle = TRUE]
        BY <1>2 DEF Age
      <3>2. \A j \in DOMAIN pel : pel[j] \in Pending
        BY <1>a DEF TypeInv, TypeOK, ServerTyped
      <3>. QED
        BY <3>1, <3>2 DEF Pending
    <2>2. UNCHANGED <<pc, reply, buffer>>
      BY <1>2 DEF Age, reader
    <2>. QED
      BY <1>d, <2>1, <2>2 DEF OthersMay
  <1>3. ASSUME LoseServer PROVE Goal
    <2>1. DOMAIN pel' = {} /\ UNCHANGED <<pc, reply, buffer>>
      BY <1>3 DEF LoseServer, NoPending, reader
    <2>. QED
      BY <1>d, <2>1 DEF OthersMay
  <1>4. ASSUME NEW s \in Subs, Subscribe(s) \/ RecreateGroup(s) PROVE Goal
    <2>1. /\ pc[s] # "listing" /\ pc' = [pc EXCEPT ![s] = "poll"]
          /\ pc[s] \notin {"listing", "answered"}
          /\ UNCHANGED <<pel, reply, buffer>>
      BY <1>4 DEF Subscribe, RecreateGroup
    <2>2. Told(s)'
      BY <1>a, <1>b, <2>1, <1>f, ToldEmpty DEF Fresh, Told
    <2>3. \A r \in Subs : r # s => pc'[r] = pc[r]
      BY <1>a, <2>1
    <2>. QED
      BY <1>e, <1>f, <2>1, <2>2, <2>3
  <1>5. ASSUME NEW s \in Subs, ProcessEnds(s) PROVE Goal
    <2>1. /\ pc' = [pc EXCEPT ![s] = "down"]
          /\ reply' = [reply EXCEPT ![s] = <<>>]
          /\ buffer' = [buffer EXCEPT ![s] = <<>>]
          /\ pel' = pel
      BY <1>5 DEF ProcessEnds, server
    <2>2. /\ pc'[s] = "down" /\ reply'[s] = <<>> /\ buffer'[s] = <<>>
          /\ \A r \in Subs : r # s =>
                /\ pc'[r] = pc[r] /\ reply'[r] = reply[r]
                /\ buffer'[r] = buffer[r]
      BY <1>a, <2>1
    <2>3. Told(s)'
      BY <1>b, <1>c, <2>2, ToldEmpty
    <2>. QED
      BY <1>e, <1>f, <2>1, <2>2, <2>3
  <1>6. ASSUME NEW s \in Subs, Shutdown(s) PROVE Goal
    BY <1>6, <1>d, <1>f DEF Shutdown, reader, server
  <1>7. ASSUME NEW s \in Subs, Refused(s) \/ ReadLost(s) PROVE Goal
    <2>1. /\ pc' \in {[pc EXCEPT ![s] = "poll"], [pc EXCEPT ![s] = "nogroup"]}
          /\ reply' = [reply EXCEPT ![s] = <<>>]
          /\ UNCHANGED <<buffer, pel>>
      BY <1>7 DEF Refused, ReadLost, server
    <2>2. /\ pc'[s] # "listing" /\ reply'[s] = <<>>
          /\ \A r \in Subs : r # s => pc'[r] = pc[r] /\ reply'[r] = reply[r]
      BY <1>a, <2>1
    <2>3. Told(s)'
      BY <1>b, <2>1, <2>2, ToldEmpty DEF Told
    <2>. QED
      BY <1>e, <1>f, <2>1, <2>2, <2>3
  <1>8. ASSUME NEW s \in Subs, StartFetch(s) PROVE Goal
    <2>1. /\ pc[s] = "poll" /\ pc' \in {pc, [pc EXCEPT ![s] = "sweep"]}
          /\ buffer' = [buffer EXCEPT ![s] = <<>>]
          /\ UNCHANGED <<reply, pel>>
      BY <1>a, <1>8 DEF StartFetch, server
    <2>2. /\ pc'[s] # "listing" /\ buffer'[s] = <<>>
          /\ \A r \in Subs : r # s => pc'[r] = pc[r] /\ buffer'[r] = buffer[r]
      BY <1>a, <2>1
    <2>3. reply'[s] = <<>>
      BY <1>b, <2>1 DEF Fresh
    <2>4. Told(s)'
      BY <1>b, <1>c, <2>2, <2>3, ToldEmpty
    <2>. QED
      BY <1>e, <1>f, <2>1, <2>2, <2>4
  <1>9. ASSUME NEW s \in Subs, Ask(s) PROVE Goal
    <2>1. /\ pc[s] = "sweep" /\ pc' = [pc EXCEPT ![s] = "asked"]
          /\ UNCHANGED <<reply, buffer, pel>>
      BY <1>9 DEF Ask, server
    <2>2. pc'[s] = "asked" /\ \A r \in Subs : r # s => pc'[r] = pc[r]
      BY <1>a, <2>1
    <2>3. reply'[s] = <<>>
      BY <1>b, <2>1 DEF Fresh
    <2>4. Told(s)'
      BY <1>b, <2>1, <2>2, <2>3, ToldEmpty DEF Told
    <2>. QED
      BY <1>e, <1>f, <2>1, <2>2, <2>4
  <1>g. ASSUME NEW s \in Subs, NEW claimed, NEW from, pc[s] = "asked",
               from \subseteq DOMAIN pel, claimed \in Picks(from),
               NEW n \in Nat, n <= Len(log) - cursor,
               NEW next \in {"answered", "listing"},
               Mode[s] = "fresh" => claimed = <<>>,
               Mode[s] = "reclaim" => n = 0,
               next = "listing" => Mode[s] = "reclaim",
               Answer(s, claimed, n, next)
        PROVE  Goal
    <2>1. /\ pc' = [pc EXCEPT ![s] = next] /\ buffer' = buffer
          /\ pel' = HandedOut(Claimed(pel, Elems(claimed), s),
                              cursor + 1 .. cursor + n, s)
      BY <1>g DEF Answer
    <2>2. next \in ReadPc /\ Count \in Nat \ {0}
      BY DEF ReadPc
    <2>3. /\ \A k \in DOMAIN reply'[s] : ToldBy(Mode[s], reply'[s][k])
          /\ Mode[s] = "reclaim" => CountKept(s)'
      BY <1>a, <1>g, <2>2, AnswerTold
    <2>4. \A r \in Subs : r # s => reply'[r] = reply[r]
      BY <1>a, <1>g, <2>2, AnswerTyped
    <2>5. pc'[s] = next /\ \A r \in Subs : r # s => pc'[r] = pc[r]
      BY <1>a, <2>1
    <2>6. Told(s)'
      BY <1>b, <1>g, <2>1, <2>3, <2>5 DEF Told
    <2>7. cursor + 1 .. cursor + n \subseteq Nat
      BY <1>a, <1>g DEF TypeInv, TypeOK, ServerTyped
    <2>8. \A r \in Subs : r # s => OthersMay(r)
      BY <1>a, <2>1, <2>7, ClaimedByOthers
    <2>. QED
      BY <1>e, <2>1, <2>4, <2>5, <2>6, <2>8
  <1>h. /\ Len(log) \in Nat /\ cursor \in Nat /\ cursor <= Len(log)
    BY <1>a, IdsType DEF TypeInv, TypeOK, ServerTyped, IdsKnown, ServerIds
  <1>10. ASSUME NEW s \in Subs, FetchFresh(s) PROVE Goal
    <2>1. /\ Smaller(Count, Unread) \in Nat
          /\ Smaller(Count, Unread) <= Len(log) - cursor
      BY <1>h DEF Smaller, Unread
    <2>. QED
      BY <1>10, <1>g, <2>1, EmptyPick DEF FetchFresh
  <1>11. ASSUME NEW s \in Subs, FetchClaiming(s) PROVE Goal
    <2>1. PICK pick \in Picks(Idle) :
            Answer(s, pick, Smaller(Count - Len(pick), Unread), "answered")
      BY <1>11 DEF FetchClaiming
    <2>2. Idle \subseteq DOMAIN pel /\ pc[s] = "asked" /\ Mode[s] = "claiming"
      BY <1>11 DEF Idle, FetchClaiming
    <2>3. Len(pick) \in 0..Count
      BY PickType
    <2>4. /\ Smaller(Count - Len(pick), Unread) \in Nat
          /\ Smaller(Count - Len(pick), Unread) <= Len(log) - cursor
      BY <1>h, <2>3 DEF Smaller, Unread
    <2>. QED
      BY <1>g, <2>1, <2>2, <2>4
  <1>12. ASSUME NEW s \in Subs, FetchReclaim(s) PROVE Goal
    <2> DEFINE from == {i \in Idle : i >= rcursor[s]}
    <2>1. PICK pick \in Picks(from), next \in {"answered", "listing"} :
            Answer(s, pick, 0, next)
      BY <1>12 DEF FetchReclaim
    <2>2. from \subseteq DOMAIN pel /\ pc[s] = "asked" /\ Mode[s] = "reclaim"
      BY <1>12 DEF Idle, FetchReclaim
    <2>3. 0 \in Nat /\ 0 <= Len(log) - cursor
      BY <1>h
    <2> HIDE DEF from
    <2>. QED
      BY <1>g, <2>1, <2>2, <2>3
  <1>13. ASSUME NEW s \in Subs, ClaimLost(s) PROVE Goal
    <2> DEFINE from == {i \in Idle : i >= rcursor[s]}
    <2>1. PICK pick \in Picks(from) : pel' = Claimed(pel, Elems(pick), s)
      BY <1>13 DEF ClaimLost
    <2>2. /\ pc[s] = "asked" /\ pc' = [pc EXCEPT ![s] = "poll"]
          /\ UNCHANGED <<reply, buffer>>
      BY <1>13 DEF ClaimLost
    <2>3. pc'[s] = "poll" /\ \A r \in Subs : r # s => pc'[r] = pc[r]
      BY <1>a, <2>2
    <2>4. reply'[s] = <<>>
      BY <1>b, <2>2 DEF Fresh
    <2>5. Told(s)'
      BY <1>b, <2>2, <2>3, <2>4, ToldEmpty DEF Told
    <2>6. \A r \in Subs : r # s => OthersMay(r)
      BY <2>1 DEF Claimed, OthersMay
    <2>. QED
      BY <1>e, <2>2, <2>3, <2>5, <2>6
  <1>14. ASSUME NEW s \in Subs, Enrich(s) PROVE Goal
    <2>1. /\ pc[s] = "listing" /\ pc' = [pc EXCEPT ![s] = "answered"]
          /\ UNCHANGED <<buffer, pel>>
      BY <1>14 DEF Enrich, server
    <2>2. \A k \in DOMAIN reply'[s] : ToldBy(Mode[s], reply'[s][k])
      BY <1>14, EnrichTold
    <2>3. \A r \in Subs : r # s => reply'[r] = reply[r]
      BY <1>14, <1>a, EnrichedReply
    <2>4. pc'[s] = "answered" /\ \A r \in Subs : r # s => pc'[r] = pc[r]
      BY <1>a, <2>1
    <2>5. Told(s)'
      BY <1>b, <2>1, <2>2, <2>4 DEF Told
    <2>. QED
      BY <1>e, <1>f, <2>1, <2>3, <2>4, <2>5
  <1>15. ASSUME NEW s \in Subs, ReadReturns(s) PROVE Goal
    <2>1. /\ pc[s] = "answered" /\ pc' = [pc EXCEPT ![s] = "poll"]
          /\ reply' = [reply EXCEPT ![s] = <<>>]
          /\ pel' = pel
          /\ \/ buffer' = buffer
             \/ buffer' = [buffer EXCEPT ![s] = buffer[s] \o reply[s]]
      BY <1>15 DEF ReadReturns, server
    <2>2. buffer[s] = <<>>
      BY <1>b, <2>1 DEF Fresh
    <2>3. buffer[s] \o reply[s] = reply[s]
      BY <1>a, <2>2, ConcatEmptySeq
    <2>4. /\ buffer'[s] = buffer[s] \/ buffer'[s] = reply[s]
          /\ pc'[s] = "poll" /\ reply'[s] = <<>>
          /\ \A r \in Subs : r # s => /\ pc'[r] = pc[r]
                                     /\ reply'[r] = reply[r]
                                     /\ buffer'[r] = buffer[r]
      BY <1>a, <2>1, <2>3
    <2>5. Told(s)'
      BY <1>b, <2>4, ToldEmpty DEF Told
    <2>. QED
      BY <1>e, <1>f, <2>1, <2>4, <2>5
  <1>16. ASSUME NEW s \in Subs, NEW n \in 1..Count, Yield(s, n) PROVE Goal
    <2> DEFINE left == SubSeq(buffer[s], n + 1, Len(buffer[s]))
    <2>1. /\ buffer' = [buffer EXCEPT ![s] = left] /\ pc[s] = "poll"
          /\ UNCHANGED <<pc, reply, pel>>
      BY <1>16 DEF Yield, Rest, server
    <2>2. Elems(left) \subseteq Elems(buffer[s])
      BY <1>16, YieldedEntries DEF ToldInv, SeekInv, TypeInv, TypeOK
    <2>3. \A k \in DOMAIN left : \E j \in DOMAIN buffer[s] : left[k] = buffer[s][j]
      BY <2>2 DEF Elems
    <2> HIDE DEF left
    <2>4. /\ buffer'[s] = left /\ reply'[s] = <<>> /\ pc'[s] = "poll"
          /\ \A r \in Subs : r # s => buffer'[r] = buffer[r]
      BY <1>a, <1>b, <2>1 DEF Fresh
    <2>5. Told(s)'
      BY <1>b, <2>3, <2>4, ToldEmpty DEF Told
    <2>. QED
      BY <1>e, <1>f, <2>1, <2>4, <2>5
  <1>17. ASSUME NEW d \in deliveries, Settle(d) \/ SettleFails(d) PROVE Goal
    <2>1. UNCHANGED <<pc, reply, buffer>>
      BY <1>17 DEF Settle, Ack, Requeue, AckCopied, LeavePending,
                   SettleRefused, SettleFails, Acknowledge, reader
    <2>2. pel' = pel \/ pel' = Acked(pel, {d.id})
      BY <1>17 DEF Settle, Ack, Requeue, AckCopied, LeavePending,
                   SettleRefused, SettleFails, Acknowledge, server
    <2>. QED
      BY <1>d, <1>f, <2>1, <2>2 DEF Acked, OthersMay
  <1>18. ASSUME NEW s \in Subs, NEW kind \in SeekKinds,
                NEW to \in Positions(kind), SeekSetId(s, kind, to)
         PROVE  Goal
    BY <1>18, <1>d, <1>f DEF SeekSetId, reader
  <1>19. ASSUME NEW k \in seeks, SeekBump(k) \/ SeekFails(k) PROVE Goal
    BY <1>19, <1>d, <1>f DEF SeekBump, SeekFails, reader, server
  <1>20. CASE UNCHANGED vars
    BY <1>20, <1>d, <1>f DEF vars, reader, server
  <1>. QED
    BY <1>1, <1>2, <1>3, <1>4, <1>5, <1>6, <1>7, <1>8, <1>9, <1>10, <1>11,
       <1>12, <1>13, <1>14, <1>15, <1>16, <1>17, <1>18, <1>19, <1>20
    DEF Next, Read, Crash, Exit

\* The count a handler's runtime caps retries on is the server's count of
\* hand-outs, or zero where a reclaimed entry had already changed hands.
THEOREM ToldCountIsTrue == Spec => []ToldCountIsTheServers
  <1>1. Init => ToldInv
    <2>1. DOMAIN <<>> = {}
      OBVIOUS
    <2>. QED
      BY <2>1, InitTyped DEF Init, ToldInv, SeekInv, Fresh, Told
  <1>2. ToldInv /\ [Next]_vars => ToldInv'
    BY ToldStep, SeekStep, TypeStep, IdsStep DEF ToldInv, SeekInv, TypeInv
  <1>3. ToldInv => ToldCountIsTheServers
    BY DEF ToldInv, Told, ToldBy, ToldCountIsTheServers, Elems
  <1>. QED
    BY <1>1, <1>2, <1>3, PTL DEF Spec

-----------------------------------------------------------------------------
(* The tail of the stream is handed out once between two seeks.  An entry   *)
(* read off the tail is the one with a count of one; it is in one place.    *)

\* What a subscription holds: the answer it has not looked at, or its buffer.
Hands ==
    [s \in Subs |-> IF pc[s] \in {"listing", "answered"} THEN reply[s]
                                                         ELSE buffer[s]]

OffTail(e, now) == e.count = 1 /\ e.epoch = now

\* No two hands, and no two places of one hand, hold the same entry off the
\* tail, none was yielded before, and all are behind the cursor.
TailOnce(hands, now, at, seen) ==
    /\ \A i \in seen : i <= at
    /\ \A s \in Subs : \A k \in DOMAIN hands[s] :
          /\ hands[s][k].epoch <= now
          /\ OffTail(hands[s][k], now) =>
                hands[s][k].id <= at /\ hands[s][k].id \notin seen
    /\ \A r, s \in Subs : \A j \in DOMAIN hands[r], k \in DOMAIN hands[s] :
          (/\ OffTail(hands[r][j], now) /\ OffTail(hands[s][k], now)
           /\ hands[r][j].id = hands[s][k].id) => r = s /\ j = k

Counted == \A i \in DOMAIN pel : pel[i].count >= 1

\* Without a group the cursor is where the next group may begin at the least.
NoGroupAtBase == ~grouped => cursor = base

TailInv ==
    /\ SeekInv
    /\ Counted /\ NoGroupAtBase
    /\ TailOnce(Hands, epoch, cursor, yielded)

\* q2 holds what q held, without the first n entries or more.
Shifted(q, q2, n) ==
    \A k \in DOMAIN q2 :
        /\ k + n \in DOMAIN q
        /\ q2[k].id = q[k + n].id
        /\ q2[k].count = q[k + n].count
        /\ q2[k].epoch = q[k + n].epoch

\* Hands that let go of entries at their front, under a cursor that moves on.
LEMMA TailShift ==
    ASSUME NEW now, NEW at \in Nat, NEW at2 \in Nat, at <= at2,
           NEW seen, seen \subseteq Nat,
           NEW hands \in [Subs -> Seq(Entry)],
           NEW hands2 \in [Subs -> Seq(Entry)],
           TailOnce(hands, now, at, seen),
           NEW shift \in [Subs -> Nat],
           \A s \in Subs : Shifted(hands[s], hands2[s], shift[s])
    PROVE  TailOnce(hands2, now, at2, seen)
  <1>1. \A s \in Subs : \A k \in DOMAIN hands[s] : hands[s][k].id \in Nat
    <2>1. ASSUME NEW s \in Subs, NEW k \in DOMAIN hands[s]
          PROVE  hands[s][k] \in Entry
      BY LenProperties
    <2>. QED
      BY <2>1 DEF Entry
  <1>2. \A s \in Subs : \A k \in DOMAIN hands2[s] : k \in Nat
    BY LenProperties
  <1>3. \A i \in seen : i <= at2
    BY DEF TailOnce
  <1>4. ASSUME NEW s \in Subs, NEW k \in DOMAIN hands2[s]
        PROVE  /\ hands2[s][k].epoch <= now
               /\ OffTail(hands2[s][k], now) =>
                     hands2[s][k].id <= at2 /\ hands2[s][k].id \notin seen
    <2> DEFINE j == k + shift[s]
    <2>1. /\ hands[s][j].epoch <= now /\ hands[s][j].id \in Nat
          /\ OffTail(hands[s][j], now) =>
                hands[s][j].id <= at /\ hands[s][j].id \notin seen
      BY <1>1 DEF TailOnce, Shifted
    <2>2. /\ hands2[s][k].id = hands[s][j].id
          /\ hands2[s][k].count = hands[s][j].count
          /\ hands2[s][k].epoch = hands[s][j].epoch
      BY DEF Shifted
    <2>. QED
      BY <2>1, <2>2 DEF OffTail
  <1>5. ASSUME NEW r \in Subs, NEW s \in Subs,
               NEW j \in DOMAIN hands2[r], NEW k \in DOMAIN hands2[s],
               OffTail(hands2[r][j], now), OffTail(hands2[s][k], now),
               hands2[r][j].id = hands2[s][k].id
        PROVE  r = s /\ j = k
    <2> DEFINE x == j + shift[r]
               y == k + shift[s]
    <2>1. /\ x \in DOMAIN hands[r] /\ OffTail(hands[r][x], now)
          /\ y \in DOMAIN hands[s] /\ OffTail(hands[s][y], now)
          /\ hands[r][x].id = hands[s][y].id
      BY <1>5 DEF OffTail, Shifted
    <2>2. r = s /\ x = y
      BY <2>1 DEF TailOnce
    <2>. QED
      BY <1>2, <2>2
  <1>. QED
    BY <1>3, <1>4, <1>5 DEF TailOnce

\* What a sequence keeps when its first n entries left it.
LEMMA AfterTheFirst ==
    ASSUME NEW q \in Seq(Entry), NEW n \in 1..Len(q)
    PROVE  /\ SubSeq(q, n + 1, Len(q)) \in Seq(Entry)
           /\ DOMAIN SubSeq(q, n + 1, Len(q)) = 1..(Len(q) - n)
           /\ \A k \in 1..(Len(q) - n) : SubSeq(q, n + 1, Len(q))[k] = q[k + n]
  <1>1. /\ Len(q) \in Nat /\ DOMAIN q = 1..Len(q)
        /\ \A k \in 1..Len(q) : q[k] \in Entry
    BY LenProperties
  <1>2. n + 1 \in Int /\ Len(q) \in Int
    BY <1>1
  <1>3. SUFFICES ASSUME NEW i \in Int, NEW j \in Int, i = n + 1, j = Len(q)
                 PROVE  /\ SubSeq(q, i, j) \in Seq(Entry)
                        /\ DOMAIN SubSeq(q, i, j) = 1..(j - n)
                        /\ \A k \in 1..(j - n) : SubSeq(q, i, j)[k] = q[k + n]
    BY <1>2
  <1>5. j \in Nat /\ \A k \in i..j : q[k] \in Entry
    BY <1>1, <1>3
  <1> DEFINE left == SubSeq(q, i, j)
  <1>6. /\ left \in Seq(Entry)
        /\ Len(left) = IF i <= j THEN j - i + 1 ELSE 0
        /\ \A k \in 1..j - i + 1 : left[k] = q[i + k - 1]
    BY <1>5, SubSeqProperties
  <1> HIDE DEF left
  <1>7. Len(left) = j - n
    BY <1>3, <1>5, <1>6
  <1>8. DOMAIN left = 1..(j - n)
    BY <1>6, <1>7, LenProperties
  <1>9. ASSUME NEW k \in 1..(j - n) PROVE left[k] = q[k + n]
    <2>1. k \in 1..j - i + 1 /\ i + k - 1 = k + n
      BY <1>3, <1>5
    <2>. QED
      BY <1>6, <2>1
  <1>. QED
    BY <1>6, <1>8, <1>9 DEF left

\* What leaves it is what came first.
LEMMA BeforeTheRest ==
    ASSUME NEW q \in Seq(Entry), NEW n \in 1..Len(q),
           NEW e \in Elems(SubSeq(q, 1, n))
    PROVE  \E j \in 1..n : e = q[j]
  <1>1. /\ Len(q) \in Nat /\ 1 \in Int /\ n \in Int
        /\ \A k \in 1..n : q[k] \in Entry
    BY LenProperties
  <1>2. /\ SubSeq(q, 1, n) \in Seq(Entry)
        /\ Len(SubSeq(q, 1, n)) = IF 1 <= n THEN n - 1 + 1 ELSE 0
        /\ \A k \in 1..n - 1 + 1 : SubSeq(q, 1, n)[k] = q[1 + k - 1]
    BY <1>1, SubSeqProperties
  <1>3. Len(SubSeq(q, 1, n)) = n
    BY <1>1, <1>2
  <1>4. DOMAIN SubSeq(q, 1, n) = 1..n
    BY <1>2, <1>3, LenProperties
  <1>5. PICK k \in 1..n : e = SubSeq(q, 1, n)[k]
    BY <1>4 DEF Elems
  <1>6. k \in 1..n - 1 + 1 /\ 1 + k - 1 = k
    BY <1>1
  <1>. QED
    BY <1>2, <1>5, <1>6

\* The entries of a yield leave the hand as they join what was seen.
LEMMA TailYield ==
    ASSUME NEW now, NEW at \in Nat, NEW seen, seen \subseteq Nat,
           NEW hands \in [Subs -> Seq(Entry)],
           TailOnce(hands, now, at, seen),
           NEW s \in Subs, NEW n \in 1..Len(hands[s]),
           NEW more, \A i \in more : \E j \in 1..n :
              OffTail(hands[s][j], now) /\ hands[s][j].id = i
    PROVE  TailOnce([hands EXCEPT ![s] = SubSeq(@, n + 1, Len(@))],
                    now, at, seen \cup more)
  <1> DEFINE left == SubSeq(hands[s], n + 1, Len(hands[s]))
             hands2 == [hands EXCEPT ![s] = left]
             shift == [r \in Subs |-> IF r = s THEN n ELSE 0]
  <1>1. /\ hands[s] \in Seq(Entry) /\ Len(hands[s]) \in Nat
        /\ DOMAIN hands[s] = 1..Len(hands[s])
    BY LenProperties
  <1>2. /\ left \in Seq(Entry) /\ DOMAIN left = 1..(Len(hands[s]) - n)
        /\ \A k \in DOMAIN left : left[k] = hands[s][k + n]
    BY <1>1, AfterTheFirst
  <1> HIDE DEF left
  <1>3. hands2 \in [Subs -> Seq(Entry)]
    BY <1>2
  <1>4. /\ hands2[s] = left
        /\ \A r \in Subs : r # s => hands2[r] = hands[r]
    OBVIOUS
  <1>5. \A r \in Subs : \A k \in DOMAIN hands2[r] :
           /\ k + shift[r] \in DOMAIN hands[r]
           /\ hands2[r][k] = hands[r][k + shift[r]]
    <2>1. ASSUME NEW r \in Subs, r # s, NEW k \in DOMAIN hands2[r]
          PROVE  /\ k + shift[r] \in DOMAIN hands[r]
                 /\ hands2[r][k] = hands[r][k + shift[r]]
      <3>1. k \in DOMAIN hands[r] /\ k \in Nat /\ shift[r] = 0
        BY <1>4, <2>1, LenProperties
      <3>2. k + shift[r] = k
        BY <3>1
      <3>. QED
        BY <1>4, <2>1, <3>1, <3>2
    <2>2. ASSUME NEW k \in DOMAIN hands2[s]
          PROVE  /\ k + shift[s] \in DOMAIN hands[s]
                 /\ hands2[s][k] = hands[s][k + shift[s]]
      <3>1. shift[s] = n /\ k \in DOMAIN left
        BY <1>4, <2>2
      <3>. QED
        BY <1>1, <1>2, <1>4, <3>1
    <2>. QED
      BY <2>1, <2>2
  <1>6. shift \in [Subs -> Nat]
    BY <1>1
  <1>7. TailOnce(hands2, now, at, seen)
    <2> HIDE DEF hands2, shift
    <2>1. at <= at
      OBVIOUS
    <2>2. \A r \in Subs : Shifted(hands[r], hands2[r], shift[r])
      BY <1>5 DEF Shifted
    <2>. QED
      BY <1>3, <1>6, <2>1, <2>2, TailShift
  <1>8. \A i \in more : i <= at
    BY <1>1 DEF TailOnce
  <1>9. ASSUME NEW r \in Subs, NEW k \in DOMAIN hands2[r],
               OffTail(hands2[r][k], now)
        PROVE  hands2[r][k].id \notin more
    <2>1. SUFFICES ASSUME NEW j \in 1..n, OffTail(hands[s][j], now),
                          hands[s][j].id = hands2[r][k].id
                   PROVE  FALSE
      OBVIOUS
    <2>2. /\ k + shift[r] \in DOMAIN hands[r]
          /\ hands2[r][k] = hands[r][k + shift[r]]
      BY <1>5
    <2>3. r = s /\ k + shift[r] = j
      <3> HIDE DEF shift, hands2
      <3>1. j \in DOMAIN hands[s]
        BY <1>1
      <3>. QED
        BY <1>9, <2>1, <2>2, <3>1 DEF TailOnce
    <2>4. k \in 1..(Len(hands[s]) - n) /\ shift[r] = n
      BY <1>2, <2>3
    <2>. QED
      BY <1>1, <2>3, <2>4
  <1>10. hands2 = [hands EXCEPT ![s] = SubSeq(@, n + 1, Len(@))]
    BY DEF left
  <1> HIDE DEF hands2
  <1>11. TailOnce(hands2, now, at, seen \cup more)
    BY <1>7, <1>8, <1>9 DEF TailOnce
  <1>. QED
    BY <1>10, <1>11

\* An answer: claimed entries, then those behind the cursor in their order.
LEMMA TailAnswer ==
    ASSUME NEW now \in Nat, NEW at \in Nat, NEW seen, seen \subseteq Nat,
           NEW hands \in [Subs -> Seq(Entry)],
           TailOnce(hands, now, at, seen),
           NEW s \in Subs, NEW q \in Seq(Entry), NEW m \in Nat, NEW n \in Nat,
           \A k \in DOMAIN q :
              /\ q[k].epoch = now
              /\ q[k].count = 1 => k > m /\ k - m <= n /\ q[k].id = at + (k - m)
    PROVE  TailOnce([hands EXCEPT ![s] = q], now, at + n, seen)
  <1> DEFINE hands2 == [hands EXCEPT ![s] = q]
  <1>1. /\ hands2[s] = q /\ \A r \in Subs : r # s => hands2[r] = hands[r]
    OBVIOUS
  <1>2. \A r \in Subs : \A k \in DOMAIN hands[r] : hands[r][k].id \in Nat
    <2>1. ASSUME NEW r \in Subs, NEW k \in DOMAIN hands[r]
          PROVE  hands[r][k] \in Entry
      BY LenProperties
    <2>. QED
      BY <2>1 DEF Entry
  <1>3. \A k \in DOMAIN q : k \in Nat
    BY LenProperties
  <1>4. \A i \in seen : i <= at /\ i <= at + n
    BY DEF TailOnce
  <1>5. \A k \in DOMAIN q : OffTail(q[k], now) =>
           q[k].id > at /\ q[k].id <= at + n /\ q[k].id \notin seen
    BY <1>3, <1>4 DEF OffTail
  <1>6. ASSUME NEW r \in Subs, NEW k \in DOMAIN hands[r]
        PROVE  /\ hands[r][k].epoch <= now
               /\ OffTail(hands[r][k], now) =>
                     /\ hands[r][k].id <= at /\ hands[r][k].id <= at + n
                     /\ hands[r][k].id \notin seen
    BY <1>2 DEF TailOnce
  <1>7. ASSUME NEW r \in Subs, NEW k \in DOMAIN hands2[r]
        PROVE  /\ hands2[r][k].epoch <= now
               /\ OffTail(hands2[r][k], now) =>
                     /\ hands2[r][k].id <= at + n
                     /\ hands2[r][k].id \notin seen
    BY <1>1, <1>5, <1>6
  <1>8. ASSUME NEW r \in Subs, NEW t \in Subs,
               NEW j \in DOMAIN hands2[r], NEW k \in DOMAIN hands2[t],
               OffTail(hands2[r][j], now), OffTail(hands2[t][k], now),
               hands2[r][j].id = hands2[t][k].id
        PROVE  r = t /\ j = k
    <2>1. CASE r = s /\ t = s
      BY <1>1, <1>3, <1>8, <2>1 DEF OffTail
    <2>2. CASE r # s /\ t = s
      BY <1>1, <1>2, <1>5, <1>6, <1>8, <2>2
    <2>3. CASE r = s /\ t # s
      BY <1>1, <1>2, <1>5, <1>6, <1>8, <2>3
    <2>4. CASE r # s /\ t # s
      BY <1>1, <1>8, <2>4 DEF TailOnce
    <2>. QED
      BY <2>1, <2>2, <2>3, <2>4
  <1> HIDE DEF hands2
  <1>9. TailOnce(hands2, now, at + n, seen)
    BY <1>4, <1>7, <1>8 DEF TailOnce
  <1>. QED
    BY <1>9 DEF hands2

\* What a read off the tail or a claim of it answers, entry by entry.
LEMMA AnswerTail ==
    ASSUME TypeInv, Counted, Count \in Nat \ {0},
           NEW s \in Subs, NEW claimed, NEW from,
           from \subseteq DOMAIN pel, claimed \in Picks(from),
           NEW n \in Nat, n <= Len(log) - cursor, NEW next \in ReadPc,
           Answer(s, claimed, n, next)
    PROVE  \E m \in Nat : \A k \in DOMAIN reply'[s] :
              /\ reply'[s][k].epoch = epoch
              /\ reply'[s][k].count = 1 =>
                    k > m /\ k - m <= n /\ reply'[s][k].id = cursor + (k - m)
  <1> USE DEF TypeInv, TypeOK
  <1>0. Len(log) \in Nat /\ cursor \in Nat
    BY IdsType DEF ServerTyped
  <1>1. /\ claimed \in [1..Len(claimed) -> from]
        /\ DOMAIN claimed = 1..Len(claimed)
        /\ Len(claimed) \in Nat
    BY PickType
  <1> DEFINE told(i) == IF Mode[s] = "claiming" THEN Annotated(i) ELSE {}
             tailTold == IF Mode[s] = "claiming" THEN {1} ELSE {}
             first == [k \in DOMAIN claimed |->
                         Make(claimed[k], told(claimed[k]),
                              pel[claimed[k]].count + 1)]
             rest == [k \in 1..n |-> Make(cursor + k, tailTold, 1)]
  <1>2. reply' = [reply EXCEPT ![s] = first \o rest]
    BY DEF Answer
  <1>3. \A i \in from : /\ pel[i].count \in Nat /\ pel[i].count >= 1
                       /\ i \in Nat
    BY DEF ServerTyped, Pending, Counted
  <1>4. first \in [1..Len(claimed) -> Entry] /\ rest \in [1..n -> Entry]
    <2>1. epoch \in Nat
      BY DEF HistoryTyped
    <2>. QED
      BY <1>0, <1>1, <1>3, <2>1 DEF Make, Entry, Annotated
  <1>5. /\ first \in Seq(Entry) /\ Len(first) = Len(claimed)
        /\ rest \in Seq(Entry) /\ Len(rest) = n
    BY <1>1, <1>4, SeqOfFunction
  <1>6. \A k \in 1..Len(claimed) : first[k].epoch = epoch /\ first[k].count # 1
    BY <1>1, <1>3 DEF Make
  <1>7. \A k \in 1..n : rest[k].epoch = epoch /\ rest[k].id = cursor + k
    BY DEF Make
  <1> HIDE DEF first, rest
  <1>8. /\ Len(first \o rest) = Len(claimed) + n
        /\ first \o rest \in Seq(Entry)
        /\ \A k \in 1..Len(claimed) + n :
              (first \o rest)[k] = IF k <= Len(claimed) THEN first[k]
                                   ELSE rest[k - Len(claimed)]
    BY <1>5, ConcatProperties
  <1>9. DOMAIN (first \o rest) = 1..Len(claimed) + n
    BY <1>8, LenProperties
  <1>10. ASSUME NEW k \in 1..Len(claimed) + n
         PROVE  /\ (first \o rest)[k].epoch = epoch
                /\ (first \o rest)[k].count = 1 =>
                      /\ k > Len(claimed) /\ k - Len(claimed) <= n
                      /\ (first \o rest)[k].id = cursor + (k - Len(claimed))
    <2>1. CASE k <= Len(claimed)
      BY <1>1, <1>6, <1>8, <2>1
    <2>2. CASE ~(k <= Len(claimed))
      <3>1. PICK j \in 1..n : j = k - Len(claimed)
        BY <1>1, <2>2
      <3>2. k > Len(claimed) /\ j <= n
        BY <1>1, <2>2
      <3>3. (first \o rest)[k] = rest[j]
        BY <1>8, <2>2, <3>1
      <3>4. rest[j].epoch = epoch /\ rest[j].id = cursor + j
        BY <1>7
      <3>. QED
        BY <3>1, <3>2, <3>3, <3>4
    <2>. QED
      BY <2>1, <2>2
  <1>11. reply'[s] = first \o rest
    BY <1>2 DEF ReaderTyped
  <1>. QED
    BY <1>1, <1>9, <1>10, <1>11

\* The server's side: counts start at one, and the cursor never goes back
\* but by a SETID.
LEMMA ServerTailStep ==
    ASSUME TailInv, [Next]_vars
    PROVE  /\ Counted' /\ NoGroupAtBase'
           /\ epoch' = epoch => cursor <= cursor'
  <1> USE ConstantsAssumption
  <1> DEFINE Goal == /\ Counted' /\ NoGroupAtBase'
                     /\ epoch' = epoch => cursor <= cursor'
  <1>a. /\ Len(log) \in Nat /\ cursor \in Nat /\ base \in Nat
        /\ base <= cursor /\ cursor <= Len(log) /\ TypeInv
    BY IdsType DEF TailInv, SeekInv, TypeInv, TypeOK, ServerTyped, IdsKnown,
                   ServerIds
  <1>b. \A i \in DOMAIN pel : /\ pel[i] \in Pending /\ pel[i].count \in Nat
                             /\ pel[i].count >= 1
    BY <1>a DEF TypeInv, TypeOK, ServerTyped, Pending, TailInv, Counted
  <1>c. Counted /\ NoGroupAtBase
    BY DEF TailInv
  <1>d. ASSUME UNCHANGED <<base, grouped, cursor, pel>> PROVE Goal
    BY <1>a, <1>c, <1>d DEF Counted, NoGroupAtBase
  <1>1. ASSUME NEW m \in Msgs, Publish(m) PROVE Goal
    BY <1>1, <1>d DEF Publish
  <1>2. ASSUME NEW i \in DOMAIN pel, Age(i) PROVE Goal
    <2>1. /\ pel' = [pel EXCEPT ![i].idle = TRUE]
          /\ UNCHANGED <<base, grouped, cursor>>
      BY <1>2 DEF Age
    <2>2. \A j \in DOMAIN pel' : j \in DOMAIN pel /\ pel'[j].count = pel[j].count
      BY <1>b, <2>1 DEF Pending
    <2>. QED
      BY <1>a, <1>c, <2>1, <2>2 DEF Counted, NoGroupAtBase
  <1>3. ASSUME LoseServer PROVE Goal
    <2>1. /\ cursor' = Len(log) /\ base' = Len(log) /\ DOMAIN pel' = {}
      BY <1>3 DEF LoseServer, NoPending
    <2>. QED
      BY <1>a, <2>1 DEF Counted, NoGroupAtBase
  <1>4. ASSUME NEW s \in Subs, Subscribe(s) \/ RecreateGroup(s) PROVE Goal
    <2>1. /\ UNCHANGED <<base, pel>>
          /\ \/ UNCHANGED <<grouped, cursor>>
             \/ ~grouped /\ grouped' = TRUE /\ cursor' \in {base, Len(log)}
      BY <1>4 DEF Subscribe, RecreateGroup, EnsureGroup, RecreatedAt
    <2>. QED
      BY <1>a, <1>c, <2>1 DEF Counted, NoGroupAtBase
  <1>e. ASSUME NEW s \in Subs, NEW claimed, NEW n \in Nat, NEW next, grouped,
               Answer(s, claimed, n, next)
        PROVE  Goal
    <2> DEFINE tail == cursor + 1 .. cursor + n
               list == Claimed(pel, Elems(claimed), s)
    <2>1. /\ pel' = HandedOut(list, tail, s)
          /\ cursor' = cursor + n /\ UNCHANGED <<base, grouped>>
      BY <1>e DEF Answer
    <2>2. \A i \in DOMAIN list : list[i].count >= 1
      BY <1>b DEF Claimed
    <2> HIDE DEF list, tail
    <2>3. \A i \in DOMAIN pel' : pel'[i].count >= 1
      BY <2>1, <2>2 DEF HandedOut
    <2>. QED
      BY <1>a, <1>c, <1>e, <2>1, <2>3 DEF Counted, NoGroupAtBase
  <1>5. ASSUME NEW s \in Subs, FetchFresh(s) PROVE Goal
    <2>1. Smaller(Count, Unread) \in Nat
      BY <1>a DEF Smaller, Unread
    <2>. QED
      BY <1>5, <1>e, <2>1 DEF FetchFresh
  <1>6. ASSUME NEW s \in Subs, FetchClaiming(s) PROVE Goal
    <2>1. PICK pick \in Picks(Idle) :
            Answer(s, pick, Smaller(Count - Len(pick), Unread), "answered")
      BY <1>6 DEF FetchClaiming
    <2>2. Len(pick) \in 0..Count
      BY PickType
    <2>3. Smaller(Count - Len(pick), Unread) \in Nat /\ grouped
      BY <1>a, <1>6, <2>2 DEF Smaller, Unread, FetchClaiming
    <2>. QED
      BY <1>e, <2>1, <2>3
  <1>7. ASSUME NEW s \in Subs, FetchReclaim(s) PROVE Goal
    <2>1. /\ grouped
          /\ \E pick : \E next : Answer(s, pick, 0, next)
      BY <1>7 DEF FetchReclaim
    <2>2. 0 \in Nat
      OBVIOUS
    <2>. QED
      BY <1>e, <2>1, <2>2
  <1>8. ASSUME NEW s \in Subs, ClaimLost(s) PROVE Goal
    <2>1. /\ \E pick : pel' = Claimed(pel, Elems(pick), s)
          /\ UNCHANGED <<base, grouped, cursor>>
      BY <1>8 DEF ClaimLost
    <2>2. \A i \in DOMAIN pel' : pel'[i].count >= 1
      BY <1>b, <2>1 DEF Claimed
    <2>. QED
      BY <1>a, <1>c, <2>1, <2>2 DEF Counted, NoGroupAtBase
  <1>9. ASSUME NEW s \in Subs,
               \/ ProcessEnds(s) \/ Shutdown(s) \/ ReadLost(s) \/ StartFetch(s)
               \/ Ask(s) \/ Refused(s) \/ Enrich(s) \/ ReadReturns(s)
        PROVE  Goal
    <2>1. UNCHANGED server
      BY <1>9 DEF ProcessEnds, Shutdown, ReadLost, StartFetch, Ask, Refused,
                  Enrich, ReadReturns
    <2>. QED
      BY <1>d, <2>1 DEF server
  <1>10. ASSUME NEW s \in Subs, NEW n \in 1..Count, Yield(s, n) PROVE Goal
    BY <1>10, <1>d DEF Yield, server
  <1>11. ASSUME NEW d \in deliveries, Settle(d) \/ SettleFails(d) PROVE Goal
    <2>1. /\ UNCHANGED <<base, grouped, cursor>>
          /\ pel' = pel \/ pel' = Acked(pel, {d.id})
      BY <1>11 DEF Settle, Ack, Requeue, AckCopied, LeavePending,
                   SettleRefused, SettleFails, Acknowledge, server
    <2>2. \A i \in DOMAIN pel' : pel'[i].count >= 1
      BY <1>b, <2>1 DEF Acked
    <2>. QED
      BY <1>a, <1>c, <2>1, <2>2 DEF Counted, NoGroupAtBase
  <1>12. ASSUME NEW s \in Subs, NEW kind, NEW to, SeekSetId(s, kind, to)
         PROVE  Goal
    <2>1. /\ epoch' = epoch + 1 /\ grouped /\ UNCHANGED <<base, grouped, pel>>
      BY <1>12 DEF SeekSetId
    <2>2. epoch \in Nat
      BY <1>a DEF TypeInv, TypeOK, HistoryTyped
    <2>. QED
      BY <1>c, <2>1, <2>2 DEF Counted, NoGroupAtBase
  <1>13. ASSUME NEW k \in seeks, SeekBump(k) \/ SeekFails(k) PROVE Goal
    BY <1>13, <1>d DEF SeekBump, SeekFails, server
  <1>14. CASE UNCHANGED vars
    BY <1>14, <1>d DEF vars, server
  <1>. QED
    BY <1>1, <1>2, <1>3, <1>4, <1>5, <1>6, <1>7, <1>8, <1>9, <1>10, <1>11,
       <1>12, <1>13, <1>14
    DEF Next, Read, Crash, Exit

\* The readers' side.
LEMMA ReaderTailStep ==
    ASSUME TailInv, [Next]_vars, TypeInv', cursor <= cursor' \/ epoch' # epoch
    PROVE  TailOnce(Hands, epoch, cursor, yielded)'
  <1> USE ConstantsAssumption
  <1> DEFINE Goal == TailOnce(Hands, epoch, cursor, yielded)'
  <1>a. /\ pc \in [Subs -> ReadPc] /\ reply \in [Subs -> Seq(Entry)]
        /\ buffer \in [Subs -> Seq(Entry)] /\ TypeInv
        /\ epoch \in Nat /\ cursor \in Nat /\ yielded \subseteq Nat
    BY DEF TailInv, SeekInv, TypeInv, TypeOK, ReaderTyped, ServerTyped,
           HistoryTyped
  <1>b. /\ pc' \in [Subs -> ReadPc] /\ reply' \in [Subs -> Seq(Entry)]
        /\ buffer' \in [Subs -> Seq(Entry)] /\ epoch' \in Nat /\ cursor' \in Nat
    BY DEF TypeInv, TypeOK, ReaderTyped, ServerTyped, HistoryTyped
  <1>c. /\ Hands \in [Subs -> Seq(Entry)] /\ Hands' \in [Subs -> Seq(Entry)]
    BY <1>a, <1>b DEF Hands
  <1>d. /\ \A s \in Subs : Fresh(s)
        /\ TailOnce(Hands, epoch, cursor, yielded)
        /\ DOMAIN <<>> = {}
    BY DEF TailInv, SeekInv
  \* Steps that take nothing into a hand.
  <1>e. ASSUME UNCHANGED <<epoch, yielded>>,
               \A s \in Subs : \A k \in DOMAIN Hands'[s] :
                  /\ k \in DOMAIN Hands[s]
                  /\ Hands'[s][k].id = Hands[s][k].id
                  /\ Hands'[s][k].count = Hands[s][k].count
                  /\ Hands'[s][k].epoch = Hands[s][k].epoch
        PROVE  Goal
    <2> DEFINE shift == [s \in Subs |-> 0]
    <2>1. shift \in [Subs -> Nat] /\ cursor <= cursor'
      BY <1>e
    <2>2. \A s \in Subs : \A k \in DOMAIN Hands'[s] : k + shift[s] = k
      BY <1>c, LenProperties
    <2> HIDE DEF shift
    <2>3. \A s \in Subs : Shifted(Hands[s], Hands'[s], shift[s])
      BY <1>e, <2>2 DEF Shifted
    <2>4. /\ cursor \in Nat /\ cursor' \in Nat
          /\ yielded \subseteq Nat /\ TailOnce(Hands, epoch, cursor, yielded)
      BY <1>a, <1>b, <1>d
    <2>5. TailOnce(Hands', epoch, cursor', yielded)
      BY <1>c, <2>1, <2>3, <2>4, TailShift
    <2>. QED
      BY <1>e, <2>5
  <1>f. ASSUME UNCHANGED <<epoch, yielded>>,
               \A s \in Subs : Hands'[s] = Hands[s] \/ Hands'[s] = <<>>
        PROVE  Goal
    BY <1>d, <1>e, <1>f
  <1>g. ASSUME UNCHANGED <<pc, reply, buffer, epoch, yielded>> PROVE Goal
    BY <1>f, <1>g DEF Hands
  <1>1. ASSUME NEW m \in Msgs, Publish(m) PROVE Goal
    BY <1>1, <1>g DEF Publish, reader, history
  <1>2. ASSUME NEW i \in DOMAIN pel, Age(i) PROVE Goal
    BY <1>2, <1>g DEF Age, reader, history
  <1>3. ASSUME LoseServer PROVE Goal
    BY <1>3, <1>g DEF LoseServer, reader, history
  <1>4. ASSUME NEW s \in Subs, Subscribe(s) \/ RecreateGroup(s) \/ Ask(s)
        PROVE  Goal
    <2>1. /\ pc[s] \notin {"listing", "answered"}
          /\ \E p \in ReadPc \ {"listing", "answered"} : pc' = [pc EXCEPT ![s] = p]
          /\ UNCHANGED <<reply, buffer, epoch, yielded>>
      BY <1>4 DEF Subscribe, RecreateGroup, Ask, ReadPc, history
    <2>2. \A r \in Subs : Hands'[r] = Hands[r]
      BY <1>a, <2>1 DEF Hands
    <2>. QED
      BY <1>f, <2>1, <2>2
  <1>5. ASSUME NEW s \in Subs, ProcessEnds(s) PROVE Goal
    <2>1. /\ pc' = [pc EXCEPT ![s] = "down"]
          /\ reply' = [reply EXCEPT ![s] = <<>>]
          /\ buffer' = [buffer EXCEPT ![s] = <<>>]
          /\ UNCHANGED <<epoch, yielded>>
      BY <1>5 DEF ProcessEnds, history
    <2>2. \A r \in Subs : Hands'[r] = Hands[r] \/ Hands'[r] = <<>>
      BY <1>a, <2>1 DEF Hands
    <2>. QED
      BY <1>f, <2>1, <2>2
  <1>6. ASSUME NEW s \in Subs, Shutdown(s) PROVE Goal
    BY <1>6, <1>g DEF Shutdown, reader, history
  <1>7. ASSUME NEW s \in Subs, Refused(s) \/ ReadLost(s) PROVE Goal
    <2>1. /\ pc[s] # "poll"
          /\ pc' \in {[pc EXCEPT ![s] = "poll"], [pc EXCEPT ![s] = "nogroup"]}
          /\ reply' = [reply EXCEPT ![s] = <<>>]
          /\ UNCHANGED <<buffer, epoch, yielded>>
      BY <1>7 DEF Refused, ReadLost, history
    <2>2. buffer[s] = <<>>
      BY <1>d, <2>1 DEF Fresh
    <2>3. \A r \in Subs : Hands'[r] = Hands[r] \/ Hands'[r] = <<>>
      BY <1>a, <2>1, <2>2 DEF Hands
    <2>. QED
      BY <1>f, <2>1, <2>3
  <1>8. ASSUME NEW s \in Subs, StartFetch(s) PROVE Goal
    <2>1. /\ pc[s] = "poll" /\ pc' \in {pc, [pc EXCEPT ![s] = "sweep"]}
          /\ buffer' = [buffer EXCEPT ![s] = <<>>]
          /\ UNCHANGED <<reply, epoch, yielded>>
      BY <1>a, <1>8 DEF StartFetch, history
    <2>2. \A r \in Subs : Hands'[r] = Hands[r] \/ Hands'[r] = <<>>
      BY <1>a, <2>1 DEF Hands
    <2>. QED
      BY <1>f, <2>1, <2>2
  <1>h. ASSUME NEW s \in Subs, NEW claimed, NEW from, pc[s] = "asked",
               from \subseteq DOMAIN pel, claimed \in Picks(from),
               NEW n \in Nat, n <= Len(log) - cursor,
               NEW next \in {"answered", "listing"},
               Answer(s, claimed, n, next)
        PROVE  Goal
    <2>1. /\ pc' = [pc EXCEPT ![s] = next] /\ cursor' = cursor + n
          /\ UNCHANGED <<buffer, epoch, yielded>>
      BY <1>h DEF Answer, history
    <2>2. next \in ReadPc /\ Count \in Nat \ {0} /\ Counted
      BY DEF ReadPc, TailInv
    <2>3. \A r \in Subs : r # s => reply'[r] = reply[r]
      BY <1>a, <1>h, <2>2, AnswerTyped
    <2>4. PICK m \in Nat : \A k \in DOMAIN reply'[s] :
             /\ reply'[s][k].epoch = epoch
             /\ reply'[s][k].count = 1 =>
                   k > m /\ k - m <= n /\ reply'[s][k].id = cursor + (k - m)
      BY <1>a, <1>h, <2>2, AnswerTail
    <2>5. \A r \in Subs : Hands'[r] = IF r = s THEN reply'[s] ELSE Hands[r]
      BY <1>a, <1>h, <2>1, <2>3 DEF Hands
    <2>6. Hands' = [Hands EXCEPT ![s] = reply'[s]]
      BY <1>c, <2>5
    <2>7. reply'[s] \in Seq(Entry)
      BY <1>b
    <2>8. TailOnce([Hands EXCEPT ![s] = reply'[s]], epoch, cursor + n, yielded)
      BY <1>a, <1>c, <1>d, <2>4, <2>7, TailAnswer
    <2>. QED
      BY <2>1, <2>6, <2>8
  <1>i. /\ Len(log) \in Nat /\ cursor <= Len(log)
    BY <1>a, IdsType DEF TypeInv, TypeOK, ServerTyped, IdsKnown, ServerIds
  <1>10. ASSUME NEW s \in Subs, FetchFresh(s) PROVE Goal
    <2>1. /\ Smaller(Count, Unread) \in Nat
          /\ Smaller(Count, Unread) <= Len(log) - cursor
      BY <1>a, <1>i DEF Smaller, Unread
    <2>. QED
      BY <1>10, <1>h, <2>1, EmptyPick DEF FetchFresh
  <1>11. ASSUME NEW s \in Subs, FetchClaiming(s) PROVE Goal
    <2>1. PICK pick \in Picks(Idle) :
            Answer(s, pick, Smaller(Count - Len(pick), Unread), "answered")
      BY <1>11 DEF FetchClaiming
    <2>2. Idle \subseteq DOMAIN pel /\ pc[s] = "asked"
      BY <1>11 DEF Idle, FetchClaiming
    <2>3. Len(pick) \in 0..Count
      BY PickType
    <2>4. /\ Smaller(Count - Len(pick), Unread) \in Nat
          /\ Smaller(Count - Len(pick), Unread) <= Len(log) - cursor
      BY <1>a, <1>i, <2>3 DEF Smaller, Unread
    <2>. QED
      BY <1>h, <2>1, <2>2, <2>4
  <1>12. ASSUME NEW s \in Subs, FetchReclaim(s) PROVE Goal
    <2> DEFINE from == {i \in Idle : i >= rcursor[s]}
    <2>1. PICK pick \in Picks(from), next \in {"answered", "listing"} :
            Answer(s, pick, 0, next)
      BY <1>12 DEF FetchReclaim
    <2>2. from \subseteq DOMAIN pel /\ pc[s] = "asked"
      BY <1>12 DEF Idle, FetchReclaim
    <2>3. 0 \in Nat /\ 0 <= Len(log) - cursor
      BY <1>a, <1>i
    <2> HIDE DEF from
    <2>. QED
      BY <1>h, <2>1, <2>2, <2>3
  <1>13. ASSUME NEW s \in Subs, ClaimLost(s) PROVE Goal
    <2>1. /\ pc[s] = "asked" /\ pc' = [pc EXCEPT ![s] = "poll"]
          /\ UNCHANGED <<reply, buffer, epoch, yielded>>
      BY <1>13 DEF ClaimLost, history
    <2>2. \A r \in Subs : Hands'[r] = Hands[r]
      BY <1>a, <2>1 DEF Hands
    <2>. QED
      BY <1>f, <2>1, <2>2
  <1>14. ASSUME NEW s \in Subs, Enrich(s) PROVE Goal
    <2>1. /\ pc[s] = "listing" /\ pc' = [pc EXCEPT ![s] = "answered"]
          /\ UNCHANGED <<buffer, epoch, yielded>>
      BY <1>14 DEF Enrich, history
    <2>2. /\ DOMAIN reply'[s] = DOMAIN reply[s]
          /\ \A k \in DOMAIN reply[s] :
                /\ reply'[s][k].id = reply[s][k].id
                /\ reply'[s][k].epoch = reply[s][k].epoch
                /\ reply'[s][k].count = reply[s][k].count
          /\ \A r \in Subs : r # s => reply'[r] = reply[r]
      BY <1>14, <1>a, EnrichedReply
    <2>3. /\ Hands[s] = reply[s] /\ Hands'[s] = reply'[s]
          /\ \A r \in Subs : r # s => Hands'[r] = Hands[r]
      BY <1>a, <2>1, <2>2 DEF Hands
    <2>. QED
      BY <1>e, <2>1, <2>2, <2>3
  <1>15. ASSUME NEW s \in Subs, ReadReturns(s) PROVE Goal
    <2>1. /\ pc[s] = "answered" /\ pc' = [pc EXCEPT ![s] = "poll"]
          /\ reply' = [reply EXCEPT ![s] = <<>>]
          /\ UNCHANGED <<epoch, yielded>>
          /\ \/ buffer' = buffer
             \/ buffer' = [buffer EXCEPT ![s] = buffer[s] \o reply[s]]
      BY <1>15 DEF ReadReturns, history
    <2>2. buffer[s] = <<>>
      BY <1>d, <2>1 DEF Fresh
    <2>3. buffer[s] \o reply[s] = reply[s]
      BY <1>a, <2>2, ConcatEmptySeq
    <2>4. /\ buffer'[s] = <<>> \/ buffer'[s] = reply[s]
          /\ pc'[s] = "poll"
          /\ \A r \in Subs : r # s => /\ pc'[r] = pc[r]
                                     /\ reply'[r] = reply[r]
                                     /\ buffer'[r] = buffer[r]
      BY <1>a, <2>1, <2>2, <2>3
    <2>5. \A r \in Subs : Hands'[r] = Hands[r] \/ Hands'[r] = <<>>
      BY <2>1, <2>4 DEF Hands
    <2>. QED
      BY <1>f, <2>1, <2>5
  <1>16. ASSUME NEW s \in Subs, NEW n \in 1..Count, Yield(s, n) PROVE Goal
    <2> DEFINE left == SubSeq(buffer[s], n + 1, Len(buffer[s]))
               out  == Elems(SubSeq(buffer[s], 1, n))
               more == {e.id : e \in {x \in out : x.epoch = epoch /\ x.count = 1}}
    <2>1. /\ buffer' = [buffer EXCEPT ![s] = left] /\ pc[s] = "poll"
          /\ yielded' = yielded \cup more
          /\ UNCHANGED <<pc, reply, epoch, cursor>>
      BY <1>16 DEF Yield, Rest, server
    <2>2. n \in 1..Len(buffer[s])
      BY <1>16, <1>a, YieldedEntries DEF TypeInv, TypeOK
    <2>3. \A i \in more : \E j \in 1..n :
             OffTail(buffer[s][j], epoch) /\ buffer[s][j].id = i
      <3>1. \A e \in out : \E j \in 1..n : e = buffer[s][j]
        BY <1>a, <2>2, BeforeTheRest
      <3>. QED
        BY <3>1 DEF OffTail
    <2> HIDE DEF more, left
    <2>4. /\ Hands[s] = buffer[s] /\ Hands'[s] = left
          /\ \A r \in Subs : r # s => Hands'[r] = Hands[r]
      BY <1>a, <2>1 DEF Hands
    <2>5. Hands' = [Hands EXCEPT ![s] = left]
      BY <1>c, <2>4
    <2>6. TailOnce([Hands EXCEPT ![s] = SubSeq(@, n + 1, Len(@))],
                   epoch, cursor, yielded \cup more)
      BY <1>a, <1>c, <1>d, <2>2, <2>3, <2>4, TailYield
    <2>7. [Hands EXCEPT ![s] = SubSeq(@, n + 1, Len(@))] = Hands'
      BY <2>4, <2>5 DEF left
    <2>. QED
      BY <2>1, <2>6, <2>7
  <1>17. ASSUME NEW d \in deliveries, Settle(d) \/ SettleFails(d) PROVE Goal
    BY <1>17, <1>g
    DEF Settle, Ack, Requeue, AckCopied, LeavePending, SettleRefused,
        SettleFails, Acknowledge, reader, history
  \* A SETID begins anew: what is held was selected before it.
  <1>18. ASSUME NEW s \in Subs, NEW kind, NEW to, SeekSetId(s, kind, to)
         PROVE  Goal
    <2>1. epoch' = epoch + 1 /\ yielded' = {} /\ UNCHANGED <<pc, reply, buffer>>
      BY <1>18 DEF SeekSetId, reader
    <2>2. Hands' = Hands
      BY <2>1 DEF Hands
    <2>3. \A r \in Subs : \A k \in DOMAIN Hands[r] :
             Hands[r][k].epoch \in Nat /\ Hands[r][k].epoch <= epoch
      <3>1. ASSUME NEW r \in Subs, NEW k \in DOMAIN Hands[r]
            PROVE  Hands[r][k] \in Entry
        BY <1>c, LenProperties
      <3>. QED
        BY <1>d, <3>1 DEF TailOnce, Entry
    <2>4. \A r \in Subs : \A k \in DOMAIN Hands[r] :
             /\ ~OffTail(Hands[r][k], epoch + 1)
             /\ Hands[r][k].epoch <= epoch + 1
      BY <1>a, <2>3 DEF OffTail
    <2>5. TailOnce(Hands, epoch + 1, cursor', {})
      BY <2>4 DEF TailOnce
    <2>. QED
      BY <2>1, <2>2, <2>5
  <1>19. ASSUME NEW k \in seeks, SeekBump(k) \/ SeekFails(k) PROVE Goal
    BY <1>19, <1>g DEF SeekBump, SeekFails, reader, history
  <1>20. CASE UNCHANGED vars
    BY <1>20, <1>g DEF vars, reader, history
  <1>. QED
    BY <1>1, <1>2, <1>3, <1>4, <1>5, <1>6, <1>7, <1>8, <1>10, <1>11,
       <1>12, <1>13, <1>14, <1>15, <1>16, <1>17, <1>18, <1>19, <1>20
    DEF Next, Read, Crash, Exit

\* A yield hands out what no yield since the last SETID did.
LEMMA YieldsOffTailOnce ==
    ASSUME TailInv, [Next]_vars,
           NEW d \in deliveries' \ deliveries, d.stage = "held",
           d.count = 1, d.epoch = epoch
    PROVE  d.id \notin yielded
  <1>1. ASSUME deliveries' \subseteq deliveries PROVE FALSE
    BY <1>1
  <1>2. ASSUME NEW e \in deliveries, Requeue(e) PROVE FALSE
    BY <1>2 DEF Requeue, Republished, TailInv, SeekInv, TypeInv, TypeOK,
                ClientTyped, Delivery
  <1>3. ASSUME NEW s \in Subs, NEW n \in 1..Count, Yield(s, n)
        PROVE  d.id \notin yielded
    <2>1. Elems(SubSeq(buffer[s], 1, n)) \subseteq Elems(buffer[s])
      BY <1>3, YieldedEntries DEF TailInv, SeekInv, TypeInv, TypeOK
    <2>2. PICK k \in DOMAIN buffer[s] : d = Deliver(s, buffer[s][k])
      BY <1>3, <2>1 DEF Yield, Elems
    <2>3. Hands[s] = buffer[s]
      BY <1>3 DEF Yield, Hands
    <2>4. /\ OffTail(Hands[s][k], epoch) /\ Hands[s][k].id = d.id
          /\ k \in DOMAIN Hands[s]
      BY <2>2, <2>3 DEF Deliver, OffTail
    <2>. QED
      BY <2>4 DEF TailInv, TailOnce
  <1>4. CASE UNCHANGED vars
    BY <1>1, <1>4 DEF vars
  <1>. QED
    BY <1>1, <1>2, <1>3, <1>4
    DEF Next, Read, Settle, Publish, Age, LoseServer, Subscribe, Crash,
        Shutdown, Exit, ProcessEnds, ReadLost, ClaimLost, StartFetch, Ask,
        FetchFresh, FetchClaiming, FetchReclaim, Answer, Enrich, ReadReturns,
        Refused, RecreateGroup, Ack, AckCopied, Acknowledge, LeavePending,
        SettleRefused, SettleFails, SeekSetId, SeekBump, SeekFails

\* One group shares its tail: whichever subscriptions read it, crash, lose
\* replies or find the group gone, between two seeks no entry read off the
\* tail is yielded twice.
THEOREM TailIsYieldedOnce == Spec => TailYieldedOnce
  <1>1. Init => TailInv
    <2>1. DOMAIN <<>> = {}
      OBVIOUS
    <2>2. Init => SeekInv
      BY InitTyped DEF Init, SeekInv, Fresh
    <2>3. Init => Counted /\ NoGroupAtBase
      BY DEF Init, Counted, NoGroupAtBase, NoPending
    <2>4. Init => TailOnce(Hands, epoch, cursor, yielded)
      BY <2>1 DEF Init, TailOnce, Hands
    <2>. QED
      BY <2>2, <2>3, <2>4 DEF TailInv
  <1>2. TailInv /\ [Next]_vars => TailInv'
    <2>1. SUFFICES ASSUME TailInv, [Next]_vars PROVE TailInv'
      OBVIOUS
    <2>2. SeekInv'
      BY <2>1, SeekStep, TypeStep, IdsStep DEF TailInv, SeekInv, TypeInv
    <2>3. Counted' /\ NoGroupAtBase' /\ (epoch' = epoch => cursor <= cursor')
      BY <2>1, ServerTailStep
    <2>4. TailOnce(Hands, epoch, cursor, yielded)'
      BY <2>1, <2>2, <2>3, ReaderTailStep DEF SeekInv
    <2>. QED
      BY <2>2, <2>3, <2>4 DEF TailInv
  <1>3. TailInv /\ [Next]_vars =>
          [\A d \in deliveries' \ deliveries :
              (d.stage = "held" /\ d.count = 1 /\ d.epoch = epoch)
                  => d.id \notin yielded]_vars
    BY YieldsOffTailOnce
  <1>. QED
    BY <1>1, <1>2, <1>3, PTL DEF Spec, TailYieldedOnce
==============================================================================
