--------------------------- MODULE PublisherProofs ---------------------------
(***************************************************************************)
(* Proofs about Publisher, for any tasks, deliveries and bounds.            *)
(***************************************************************************)
EXTENDS Publisher, SequenceTheorems, TLAPS

-----------------------------------------------------------------------------
(* What sequences hold.                                                    *)

LEMMA ElemsOf ==
    ASSUME NEW S, NEW s \in Seq(S)
    PROVE  Elems(s) \subseteq S
  BY ElementOfSeq, LenProperties DEF Elems

LEMMA AppendElems ==
    ASSUME NEW S, NEW s \in Seq(S), NEW m \in S
    PROVE  /\ Append(s, m) \in Seq(S)
           /\ Elems(Append(s, m)) = Elems(s) \cup {m}
           /\ Len(Append(s, m)) = Len(s) + 1 /\ Len(s) \in Nat
           /\ \A i \in 1..Len(s) : Append(s, m)[i] = s[i]
  <1>1. /\ Append(s, m) \in Seq(S) /\ Len(Append(s, m)) = Len(s) + 1
        /\ \A i \in 1..Len(s) : Append(s, m)[i] = s[i]
        /\ Append(s, m)[Len(s) + 1] = m
    BY AppendProperties
  <1>2. /\ Len(s) \in Nat /\ DOMAIN s = 1..Len(s)
        /\ DOMAIN Append(s, m) = 1..(Len(s) + 1)
    BY <1>1, LenProperties
  <1>3. ASSUME NEW x \in Elems(Append(s, m)) PROVE x \in Elems(s) \cup {m}
    <2>1. PICK i \in 1..(Len(s) + 1) : x = Append(s, m)[i]
      BY <1>2, <1>3 DEF Elems
    <2>2. CASE i = Len(s) + 1
      BY <1>1, <2>1, <2>2
    <2>3. CASE i \in 1..Len(s)
      BY <1>1, <1>2, <2>1, <2>3 DEF Elems
    <2>. QED
      BY <1>2, <2>2, <2>3
  <1>4. ASSUME NEW x \in Elems(s) PROVE x \in Elems(Append(s, m))
    <2>1. PICK i \in 1..Len(s) : x = s[i]
      BY <1>2, <1>4 DEF Elems
    <2>2. i \in 1..(Len(s) + 1) /\ x = Append(s, m)[i]
      BY <1>1, <1>2, <2>1
    <2>. QED
      BY <1>2, <2>2 DEF Elems
  <1>5. m \in Elems(Append(s, m))
    <2>1. Len(s) + 1 \in 1..(Len(s) + 1)
      BY <1>2
    <2>. QED
      BY <1>1, <1>2, <2>1 DEF Elems
  <1>. QED
    BY <1>1, <1>2, <1>3, <1>4, <1>5

LEMMA ConcatElems ==
    ASSUME NEW S, NEW s \in Seq(S), NEW t \in Seq(S)
    PROVE  /\ s \o t \in Seq(S)
           /\ Elems(s \o t) = Elems(s) \cup Elems(t)
           /\ Len(s \o t) = Len(s) + Len(t)
           /\ Len(s) \in Nat /\ Len(t) \in Nat
           /\ \A i \in 1..Len(s) : (s \o t)[i] = s[i]
           /\ \A i \in 1..Len(t) : (s \o t)[Len(s) + i] = t[i]
  <1>1. /\ s \o t \in Seq(S) /\ Len(s \o t) = Len(s) + Len(t)
        /\ Len(s) \in Nat /\ DOMAIN s = 1..Len(s)
        /\ Len(t) \in Nat /\ DOMAIN t = 1..Len(t)
        /\ DOMAIN (s \o t) = 1..(Len(s) + Len(t))
    BY ConcatProperties, LenProperties
  <1>2. \A i \in 1..(Len(s) + Len(t)) : (s \o t)[i] =
           IF i <= Len(s) THEN s[i] ELSE t[i - Len(s)]
    BY ConcatProperties
  <1>3. \A i \in 1..Len(s) : i \in 1..(Len(s) + Len(t)) /\ (s \o t)[i] = s[i]
    BY <1>1, <1>2
  <1>4. ASSUME NEW i \in 1..Len(t)
        PROVE  /\ Len(s) + i \in 1..(Len(s) + Len(t))
               /\ (s \o t)[Len(s) + i] = t[i]
    BY <1>1, <1>2
  <1>5. ASSUME NEW x \in Elems(s \o t) PROVE x \in Elems(s) \cup Elems(t)
    <2>1. PICK i \in 1..(Len(s) + Len(t)) : x = (s \o t)[i]
      BY <1>1, <1>5 DEF Elems
    <2>2. CASE i <= Len(s)
      BY <1>1, <1>2, <2>1, <2>2 DEF Elems
    <2>3. CASE ~(i <= Len(s))
      <3>1. i - Len(s) \in 1..Len(t) /\ x = t[i - Len(s)]
        BY <1>1, <1>2, <2>1, <2>3
      <3>. QED
        BY <1>1, <3>1 DEF Elems
    <2>. QED
      BY <2>2, <2>3
  <1>6. ASSUME NEW x \in Elems(s) PROVE x \in Elems(s \o t)
    BY <1>1, <1>3, <1>6 DEF Elems
  <1>7. ASSUME NEW x \in Elems(t) PROVE x \in Elems(s \o t)
    BY <1>1, <1>4, <1>7 DEF Elems
  <1>. QED
    BY <1>1, <1>3, <1>4, <1>5, <1>6, <1>7

LEMMA TailElems ==
    ASSUME NEW S, NEW s \in Seq(S), s # <<>>
    PROVE  /\ Head(s) \in S /\ Tail(s) \in Seq(S)
           /\ Elems(s) = {Head(s)} \cup Elems(Tail(s))
  <1>1. /\ Head(s) \in S /\ Tail(s) \in Seq(S) /\ Len(Tail(s)) = Len(s) - 1
        /\ \A i \in 1..Len(Tail(s)) : Tail(s)[i] = s[i + 1]
    BY HeadTailProperties
  <1>2. /\ Len(s) \in Nat /\ Len(s) # 0 /\ DOMAIN s = 1..Len(s)
        /\ DOMAIN Tail(s) = 1..(Len(s) - 1) /\ Head(s) = s[1]
    BY <1>1, LenProperties, EmptySeq
  <1>3. ASSUME NEW x \in Elems(s) PROVE x \in {Head(s)} \cup Elems(Tail(s))
    <2>1. PICK i \in 1..Len(s) : x = s[i]
      BY <1>2, <1>3 DEF Elems
    <2>2. CASE i # 1
      <3>1. i - 1 \in 1..(Len(s) - 1) /\ Tail(s)[i - 1] = x
        BY <1>1, <1>2, <2>1, <2>2
      <3>. QED
        BY <1>2, <3>1 DEF Elems
    <2>. QED
      BY <1>2, <2>1, <2>2
  <1>4. ASSUME NEW x \in Elems(Tail(s)) PROVE x \in Elems(s)
    <2>1. PICK i \in 1..(Len(s) - 1) : x = Tail(s)[i]
      BY <1>2, <1>4 DEF Elems
    <2>2. i + 1 \in 1..Len(s) /\ x = s[i + 1]
      BY <1>1, <1>2, <2>1
    <2>. QED
      BY <1>2, <2>2 DEF Elems
  <1>5. Head(s) \in Elems(s)
    BY <1>2 DEF Elems
  <1>. QED
    BY <1>1, <1>3, <1>4, <1>5

\* What is left of a sequence is a sequence of some of its members.
LEMMA PartOf ==
    ASSUME NEW S, NEW s \in Seq(S), NEW b \in Parts(s)
    PROVE  b \in Seq(S) /\ Elems(b) \subseteq Elems(s)
  <1>0. PICK n \in 0..Len(s) :
           \E at \in Rising(n, Len(s)) : b = [i \in 1..n |-> s[at[i]]]
    BY DEF Parts
  <1>1. PICK at \in Rising(n, Len(s)) : b = [i \in 1..n |-> s[at[i]]]
    BY <1>0
  <1>2. Len(s) \in Nat /\ DOMAIN s = 1..Len(s) /\ \A k \in 1..Len(s) : s[k] \in S
    BY LenProperties, ElementOfSeq
  <1>3. at \in [1..n -> 1..Len(s)]
    BY <1>1 DEF Rising
  <1>4. \A i \in 1..n : at[i] \in 1..Len(s)
    BY <1>3
  <1>5. b \in [1..n -> S] /\ n \in Nat
    BY <1>1, <1>2, <1>4
  <1>6. Elems(b) \subseteq Elems(s)
    BY <1>1, <1>2, <1>4 DEF Elems
  <1>. QED
    BY <1>5, <1>6, SeqDef

LEMMA NothingOf ==
    ASSUME NEW S, NEW s \in Seq(S)
    PROVE  <<>> \in Parts(s) /\ Elems(<<>>) = {}
  <1>. DEFINE at == [i \in 1..0 |-> i]
  <1>1. Len(s) \in Nat
    BY LenProperties
  <1>2. at \in [1..0 -> 1..Len(s)]
    OBVIOUS
  <1>3. at \in Rising(0, Len(s))
    BY <1>2 DEF Rising
  <1>4. [i \in 1..0 |-> s[at[i]]] \in Parts(s) /\ 0 \in 0..Len(s)
    BY <1>1, <1>3 DEF Parts
  <1>5. <<>> = [i \in 1..0 |-> s[at[i]]]
    OBVIOUS
  <1>6. Elems(<<>>) = {}
    BY EmptySeq DEF Elems
  <1>. QED
    BY <1>4, <1>5, <1>6

-----------------------------------------------------------------------------
(* The round registry.                                                     *)

Unique(es) == \A j, k \in DOMAIN es : es[j].round = es[k].round => j = k

\* Leaving takes the entry of the round, and only that one, out.
LEMMA LeftEntries ==
    ASSUME entries \in Seq(Entry), Unique(entries), NEW d
    PROVE  /\ Left(d) \in Seq(Entry) /\ Unique(Left(d))
           /\ \A k \in DOMAIN Left(d) : \E j \in DOMAIN entries :
                 Left(d)[k] = entries[j] /\ entries[j].round # d
  <1>. DEFINE n == Place(d)
              size == Len(entries)
              front == SubSeq(entries, 1, n - 1)
              back == SubSeq(entries, n + 1, size)
  <1>1. size \in Nat /\ DOMAIN entries = 1..size
    BY LenProperties
  <1>2. CASE ~HasEntry(d)
    BY <1>2 DEF Left, HasEntry
  <1>3. CASE HasEntry(d)
    <2>1. n \in 1..size /\ entries[n].round = d
      BY <1>1, <1>3 DEF HasEntry, Place
    <2>. HIDE DEF n
    <2>2. \A i \in 1..(n - 1) : entries[i] \in Entry
      BY <1>1, <2>1, ElementOfSeq
    <2>3. \A i \in (n + 1)..size : entries[i] \in Entry
      BY <1>1, <2>1, ElementOfSeq
    <2>4. /\ front \in Seq(Entry) /\ Len(front) = n - 1
          /\ \A i \in 1..(n - 1) : front[i] = entries[i]
      <3>1. 1 \in Int /\ n - 1 \in Int /\ n \in Nat /\ n >= 1
        BY <1>1, <2>1
      <3>2. /\ SubSeq(entries, 1, n - 1) \in Seq(Entry)
            /\ Len(SubSeq(entries, 1, n - 1)) =
                  IF 1 <= n - 1 THEN (n - 1) - 1 + 1 ELSE 0
            /\ \A i \in 1..((n - 1) - 1 + 1) :
                  SubSeq(entries, 1, n - 1)[i] = entries[1 + i - 1]
        BY <2>2, <3>1, SubSeqProperties
      <3>. QED
        BY <3>1, <3>2
    <2>5. /\ back \in Seq(Entry) /\ Len(back) = size - n
          /\ \A i \in 1..(size - n) : back[i] = entries[n + i]
      <3>1. n + 1 \in Int /\ size \in Int /\ n \in Nat /\ n <= size
        BY <1>1, <2>1
      <3>2. /\ SubSeq(entries, n + 1, size) \in Seq(Entry)
            /\ Len(SubSeq(entries, n + 1, size)) =
                  IF n + 1 <= size THEN size - (n + 1) + 1 ELSE 0
            /\ \A i \in 1..(size - (n + 1) + 1) :
                  SubSeq(entries, n + 1, size)[i] = entries[(n + 1) + i - 1]
        BY <2>3, <3>1, SubSeqProperties
      <3>. QED
        BY <3>1, <3>2
    <2>6. Left(d) = front \o back
      BY <1>3 DEF Left, n
    <2>7. /\ Left(d) \in Seq(Entry) /\ Len(Left(d)) = size - 1
          /\ DOMAIN Left(d) = 1..(size - 1)
      <3>1. front \o back \in Seq(Entry) /\ Len(front \o back) = (n - 1) + (size - n)
        BY <2>4, <2>5, ConcatProperties
      <3>2. (n - 1) + (size - n) = size - 1
        BY <1>1, <2>1
      <3>. QED
        BY <2>6, <3>1, <3>2, LenProperties
    <2>8. ASSUME NEW k \in 1..(size - 1)
          PROVE  Left(d)[k] = entries[IF k < n THEN k ELSE k + 1]
      <3>1. (front \o back)[k] = IF k <= Len(front) THEN front[k]
                                 ELSE back[k - Len(front)]
        <4>1. \A i \in 1..(Len(front) + Len(back)) :
                 (front \o back)[i] = IF i <= Len(front) THEN front[i]
                                      ELSE back[i - Len(front)]
          <5>1. front \in Seq(Entry) /\ back \in Seq(Entry)
            BY <2>4, <2>5
          <5>. HIDE DEF front, back
          <5>. QED
            BY <5>1, ConcatProperties
        <4>2. Len(front) = n - 1 /\ Len(back) = size - n
          BY <2>4, <2>5
        <4>. HIDE DEF front, back, size
        <4>3. k \in 1..(Len(front) + Len(back))
          BY ONLY <1>1, <2>1, <4>2, k \in 1..(size - 1)
        <4>. QED
          BY ONLY <4>1, <4>3
      <3>2. CASE k < n
        <4>1. k \in 1..(n - 1)
          BY <1>1, <2>1, <3>2
        <4>. QED
          BY <2>4, <2>6, <3>1, <3>2, <4>1
      <3>3. CASE ~(k < n)
        <4>1. k - (n - 1) \in 1..(size - n) /\ n + (k - (n - 1)) = k + 1
              /\ ~(k <= n - 1)
          BY <1>1, <2>1, <3>3
        <4>. QED
          BY <2>4, <2>5, <2>6, <3>1, <3>3, <4>1
      <3>. QED
        BY <3>2, <3>3
    <2>9. ASSUME NEW k \in 1..(size - 1)
          PROVE  LET j == IF k < n THEN k ELSE k + 1
                 IN  j \in 1..size /\ j # n
      BY <1>1, <2>1
    <2>10. \A k \in DOMAIN Left(d) : \E j \in DOMAIN entries :
              Left(d)[k] = entries[j] /\ entries[j].round # d
      <3> SUFFICES ASSUME NEW k \in 1..(size - 1)
                   PROVE  \E j \in DOMAIN entries :
                             Left(d)[k] = entries[j] /\ entries[j].round # d
        BY <2>7
      <3>1. PICK j \in 1..size : j # n /\ Left(d)[k] = entries[j]
        BY <2>8, <2>9
      <3>2. entries[j].round # d
        BY <1>1, <2>1, <3>1 DEF Unique
      <3>. QED
        BY <1>1, <3>1, <3>2
    <2>11. Unique(Left(d))
      <3> SUFFICES ASSUME NEW j \in 1..(size - 1), NEW k \in 1..(size - 1),
                          Left(d)[j].round = Left(d)[k].round
                   PROVE  j = k
        BY <2>7 DEF Unique
      <3>1. (IF j < n THEN j ELSE j + 1) = (IF k < n THEN k ELSE k + 1)
        BY <1>1, <2>8, <2>9 DEF Unique
      <3>. QED
        BY <1>1, <2>1, <3>1
    <2>. QED
      BY <2>7, <2>10, <2>11
  <1>. QED
    BY <1>2, <1>3

\* The rounds that are recorded belong to deliveries a task handles: those in
\* hand, or, where a handler keeps its pipeline, those it handled.
RegTypes ==
    /\ entries \in Seq(Entry) /\ Unique(entries)
    /\ stage \in [Deliveries -> {"waiting", "held", "acked", "refused",
                             "stuck"}]
    /\ worker \in [Deliveries -> {{}} \cup {{t} : t \in Tasks}]
Own(e) == /\ worker[e.round] = {e.task} /\ stage[e.round] # "waiting"
          /\ Keeps = FALSE => Open(e.round)
EntriesOwn == \A k \in DOMAIN entries : Own(entries[k])
\* A task handles one delivery at a time.
OneInHand == \A t \in Tasks : \A d, e \in Handles(t) : d = e
\* No task has a delivery that is not taken.
WaitingFree == \A d \in Deliveries : stage[d] = "waiting" => worker[d] = {}
RegInv == RegTypes /\ EntriesOwn /\ OneInHand /\ WaitingFree

LEMMA RecordedEntries ==
    ASSUME RegTypes, NEW t \in Tasks, NEW d \in Deliveries,
           NEW bound \in SUBSET Publishers
    PROVE  /\ Recorded(t, d, bound) \in Seq(Entry)
           /\ Unique(Recorded(t, d, bound))
           /\ \A k \in DOMAIN Recorded(t, d, bound) :
                 LET e == Recorded(t, d, bound)[k] IN
                 \/ e.round = d /\ e.task = t
                 \/ /\ e.round # d
                    /\ \E j \in DOMAIN entries : e = entries[j]
  <1>1. /\ entries \in Seq(Entry) /\ Len(entries) \in Nat
        /\ DOMAIN entries = 1..Len(entries) /\ Unique(entries)
        /\ \A k \in DOMAIN entries : entries[k] \in Entry
    BY LenProperties, ElementOfSeq DEF RegTypes
  <1>2. CASE HasEntry(d)
    <2>. DEFINE new == [k \in DOMAIN entries |->
                           IF entries[k].round = d
                           THEN [entries[k] EXCEPT !.task = t, !.bound = @ \cup bound]
                           ELSE entries[k]]
    <2>1. Recorded(t, d, bound) = new
      BY <1>2 DEF Recorded
    <2>2. ASSUME NEW k \in DOMAIN entries
          PROVE  /\ new[k] \in Entry /\ new[k].round = entries[k].round
                 /\ entries[k].round = d => new[k].task = t
                 /\ entries[k].round # d => new[k] = entries[k]
      BY <1>1 DEF Entry
    <2>3. new \in Seq(Entry)
      <3>1. new \in [1..Len(entries) -> Entry]
        BY <1>1, <2>2
      <3>. QED
        BY <1>1, <3>1, SeqDef
    <2>4. DOMAIN new = DOMAIN entries
      OBVIOUS
    <2>. HIDE DEF new
    <2>5. Unique(new)
      BY <1>1, <2>2, <2>4 DEF Unique
    <2>. QED
      BY <2>1, <2>2, <2>3, <2>4, <2>5
  <1>3. CASE ~HasEntry(d)
    <2>. DEFINE e == [task |-> t, round |-> d, bound |-> bound]
                new == Append(entries, e)
    <2>1. Recorded(t, d, bound) = new
      BY <1>3 DEF Recorded
    <2>2. e \in Entry /\ e.round = d /\ e.task = t
      BY DEF Entry
    <2>. HIDE DEF e
    <2>3. /\ new \in Seq(Entry) /\ Len(new) = Len(entries) + 1
          /\ \A i \in 1..Len(entries) : new[i] = entries[i]
          /\ new[Len(entries) + 1] = e
      BY <1>1, <2>2, AppendProperties
    <2>4. DOMAIN new = 1..(Len(entries) + 1)
      BY <2>3, LenProperties
    <2>. HIDE DEF new
    <2>5. \A k \in DOMAIN new : \/ k \in DOMAIN entries /\ new[k] = entries[k]
                                                        /\ entries[k].round # d
                                \/ k = Len(entries) + 1 /\ new[k] = e
      BY <1>1, <1>3, <2>3, <2>4 DEF HasEntry
    <2>6. Unique(new)
      BY <1>1, <2>2, <2>5 DEF Unique
    <2>. QED
      BY <2>1, <2>2, <2>3, <2>5, <2>6
  <1>. QED
    BY <1>2, <1>3

LEMMA RegStep == RegInv /\ [Next]_vars => RegInv'
  <1> SUFFICES ASSUME RegInv, [Next]_vars PROVE RegInv'
    OBVIOUS
  <1>a. RegTypes /\ EntriesOwn /\ OneInHand /\ WaitingFree
    BY DEF RegInv
  <1>b. ASSUME UNCHANGED <<entries, stage, worker>> PROVE RegInv'
    BY <1>a, <1>b DEF RegInv, RegTypes, EntriesOwn, Own, Open, OneInHand,
                      Handles, WaitingFree
  <1>1. ASSUME NEW t \in Tasks, NEW d \in Deliveries, Take(t, d) PROVE RegInv'
    <2>1. /\ Handles(t) = {} /\ stage[d] = "waiting"
          /\ stage' = [stage EXCEPT ![d] = "held"]
          /\ worker' = [worker EXCEPT ![d] = {t}]
          /\ entries' = Recorded(t, d, {})
      BY <1>1 DEF Take
    <2>2. /\ entries' \in Seq(Entry) /\ Unique(entries')
          /\ \A k \in DOMAIN entries' :
                \/ entries'[k].round = d /\ entries'[k].task = t
                \/ /\ entries'[k].round # d
                   /\ \E j \in DOMAIN entries : entries'[k] = entries[j]
      BY <1>a, <2>1, RecordedEntries
    <2>3. RegTypes'
      BY <1>a, <2>1, <2>2 DEF RegTypes, Unique
    <2>4. EntriesOwn'
      <3> SUFFICES ASSUME NEW k \in DOMAIN entries' PROVE Own(entries[k])'
        BY DEF EntriesOwn
      <3>1. CASE entries'[k].round = d /\ entries'[k].task = t
        BY <1>a, <2>1, <3>1 DEF RegTypes, Own, Open
      <3>2. CASE entries'[k].round # d
        <4>1. PICK j \in DOMAIN entries : entries'[k] = entries[j]
          BY <2>2, <3>2
        <4>2. Own(entries[j])
          BY <1>a DEF EntriesOwn
        <4>. QED
          BY <1>a, <2>1, <3>2, <4>1, <4>2 DEF RegTypes, Own, Open
      <3>. QED
        BY <2>2, <3>1, <3>2
    <2>5. OneInHand'
      <3> SUFFICES ASSUME NEW u \in Tasks, NEW e \in Handles(u)',
                          NEW f \in Handles(u)'
                   PROVE  e = f
        BY DEF OneInHand
      <3>1. /\ e \in Deliveries /\ stage'[e] = "held" /\ worker'[e] = {u}
            /\ f \in Deliveries /\ stage'[f] = "held" /\ worker'[f] = {u}
        BY DEF Handles
      <3>2. e # d => e \in Handles(u)
        BY <1>a, <2>1, <3>1 DEF RegTypes, Handles, Open
      <3>3. f # d => f \in Handles(u)
        BY <1>a, <2>1, <3>1 DEF RegTypes, Handles, Open
      <3>4. (e = d \/ f = d) => u = t
        BY <1>a, <2>1, <3>1 DEF RegTypes
      <3>. QED
        BY <1>a, <2>1, <3>2, <3>3, <3>4 DEF OneInHand
    <2>6. WaitingFree'
      BY <1>a, <2>1 DEF RegTypes, WaitingFree
    <2>. QED
      BY <2>3, <2>4, <2>5, <2>6 DEF RegInv
  <1>2. ASSUME NEW t \in Tasks, NEW d \in Deliveries, NEW p \in Publishers,
               Bind(t, d, p)
        PROVE  RegInv'
    <2>1. /\ worker[d] = {t} /\ (Open(d) \/ Keeps)
          /\ entries' = Recorded(t, d, {p}) /\ UNCHANGED <<stage, worker>>
      BY <1>2 DEF Bind, Handles, Open
    <2>2. /\ entries' \in Seq(Entry) /\ Unique(entries')
          /\ \A k \in DOMAIN entries' :
                \/ entries'[k].round = d /\ entries'[k].task = t
                \/ /\ entries'[k].round # d
                   /\ \E j \in DOMAIN entries : entries'[k] = entries[j]
      <3>1. {p} \in SUBSET Publishers
        OBVIOUS
      <3>2. RegTypes
        BY <1>a
      <3>. DEFINE new == Recorded(t, d, {p})
      <3>3. /\ new \in Seq(Entry) /\ Unique(new)
            /\ \A k \in DOMAIN new :
                  \/ new[k].round = d /\ new[k].task = t
                  \/ /\ new[k].round # d
                     /\ \E j \in DOMAIN entries : new[k] = entries[j]
        BY ONLY <3>1, <3>2, RecordedEntries, t \in Tasks, d \in Deliveries
      <3>4. entries' = new
        BY <2>1
      <3>. QED
        BY ONLY <3>3, <3>4
    <2>3. RegTypes'
      BY <1>a, <2>1, <2>2 DEF RegTypes, Unique
    <2>4. EntriesOwn'
      <3> SUFFICES ASSUME NEW k \in DOMAIN entries' PROVE Own(entries[k])'
        BY DEF EntriesOwn
      <3>1. CASE entries'[k].round = d /\ entries'[k].task = t
        BY <1>a, <2>1, <3>1 DEF RegTypes, Own, Open, WaitingFree
      <3>2. CASE entries'[k].round # d
        <4>1. PICK j \in DOMAIN entries : entries'[k] = entries[j]
          BY <2>2, <3>2
        <4>. QED
          BY <1>a, <2>1, <4>1 DEF EntriesOwn, Own, Open
      <3>. QED
        BY <2>2, <3>1, <3>2
    <2>. QED
      BY <1>a, <2>1, <2>3, <2>4 DEF RegInv, OneInHand, Handles, Open, WaitingFree
  <1>3. ASSUME NEW t \in Tasks, NEW d \in Deliveries,
               Refuse(t, d) \/ \E kept \in BOOLEAN : Acknowledge(t, d, kept)
        PROVE  RegInv'
    <2>1. PICK s \in {"acked", "refused"} :
             /\ d \in Handles(t) /\ entries' = Left(d) /\ worker' = worker
             /\ stage' = [stage EXCEPT ![d] = s]
      BY <1>3 DEF Acknowledge, Refuse
    <2>2. /\ entries' \in Seq(Entry) /\ Unique(entries')
          /\ \A k \in DOMAIN entries' : \E j \in DOMAIN entries :
                entries'[k] = entries[j] /\ entries[j].round # d
      BY <1>a, <2>1, LeftEntries DEF RegTypes
    <2>3. RegTypes'
      BY <1>a, <2>1, <2>2 DEF RegTypes, Unique
    <2>4. EntriesOwn'
      <3> SUFFICES ASSUME NEW k \in DOMAIN entries' PROVE Own(entries[k])'
        BY DEF EntriesOwn
      <3>1. PICK j \in DOMAIN entries :
               entries'[k] = entries[j] /\ entries[j].round # d
        BY <2>2
      <3>2. Own(entries[j])
        BY <1>a DEF EntriesOwn
      <3>3. /\ worker'[entries[j].round] = worker[entries[j].round]
            /\ stage'[entries[j].round] = stage[entries[j].round]
        BY <1>a, <2>1, <3>1 DEF RegTypes
      <3>. QED
        BY <3>1, <3>2, <3>3 DEF Own, Open
    <2>5. OneInHand'
      BY <1>a, <2>1 DEF RegTypes, OneInHand, Handles, Open
    <2>6. WaitingFree'
      BY <1>a, <2>1 DEF RegTypes, WaitingFree
    <2>. QED
      BY <2>3, <2>4, <2>5, <2>6 DEF RegInv
  <1>4. ASSUME NEW t \in Tasks, NEW d \in Deliveries, SettleRefused(t, d)
        PROVE  RegInv'
    <2>1. /\ d \in Handles(t) /\ entries' = entries /\ worker' = worker
          /\ stage' = [stage EXCEPT ![d] = "stuck"]
      BY <1>4 DEF SettleRefused
    <2>2. stage[d] = "held" /\ stage'[d] = "stuck"
          /\ \A e \in Deliveries : e # d => stage'[e] = stage[e]
      BY <1>a, <2>1 DEF RegTypes, Handles
    <2>3. RegTypes'
      BY <1>a, <2>1 DEF RegTypes, Unique
    <2>4. EntriesOwn'
      <3> SUFFICES ASSUME NEW k \in DOMAIN entries PROVE Own(entries[k])'
        BY <2>1 DEF EntriesOwn
      <3>1. Own(entries[k])
        BY <1>a DEF EntriesOwn
      <3>2. entries[k].round \in Deliveries
        <4>1. entries[k] \in Entry
          BY <1>a, ElementOfSeq, LenProperties DEF RegTypes
        <4>. QED
          BY <4>1 DEF Entry
      <3>. QED
        BY <2>1, <2>2, <3>1, <3>2 DEF Own, Open
    <2>5. OneInHand'
      BY <1>a, <2>1, <2>2 DEF OneInHand, Handles
    <2>6. WaitingFree'
      BY <1>a, <2>1, <2>2 DEF WaitingFree
    <2>. QED
      BY <2>3, <2>4, <2>5, <2>6 DEF RegInv
  <1>. QED
    BY <1>b, <1>1, <1>2, <1>3, <1>4
       DEF Next, vars, transactions, publishes, rounds, Carry, PublishInRound,
           PublishBuffered, PublishAtOnce, Make, XaddAnswered, Begin, Begun,
           BeginOwned, PublishOwned, Flush, Commit, CommitOwned, ExecAnswered,
           Abort, AbortOwned, Shutdown

-----------------------------------------------------------------------------
(* Types.                                                                  *)

LEMMA InitReg == Init => RegInv
  <1> SUFFICES ASSUME Init PROVE RegInv
    OBVIOUS
  <1>1. /\ entries = <<>> /\ stage = [d \in Deliveries |-> "waiting"]
        /\ worker = [d \in Deliveries |-> {}]
    BY DEF Init
  <1>2. entries \in Seq(Entry) /\ DOMAIN entries = {}
    BY <1>1, EmptySeq
  <1>. QED
    BY <1>1, <1>2 DEF RegInv, RegTypes, Unique, EntriesOwn, OneInHand, Handles,
                      Open, WaitingFree

\* A publish is the next message, and fits its types.
LEMMA MakeTypes ==
    ASSUME TypeOK, NEW t \in Tasks, NEW how \in Path,
           NEW said \in {"none", "ok", "error"}, Make(t, how, said)
    PROVE  /\ made + 1 \in Messages /\ made' = made + 1
           /\ made' \in 0..MaxMessages
           /\ path' \in [Messages -> Path]
           /\ answer' \in [Messages -> {"none", "ok", "error"}]
           /\ during' \in [Messages -> SUBSET Deliveries]
  <1>1. load.messages \in 0..MaxMessages /\ MaxMessages \in Nat
    BY PublisherAssumption DEF TypeOK, Load
  <1>2. made \in Nat /\ made < MaxMessages
    BY <1>1 DEF TypeOK, Make
  <1>. QED
    BY <1>1, <1>2 DEF TypeOK, Make, Messages, Handles

Types1 == /\ load \in Loads
          /\ begun \in 0..MaxTransactions /\ handle \in 0..begun
          /\ owned \in [Tasks -> 0..begun]
          /\ fate \in [Transactions -> {"none", "open", "flushing", "committed",
                                        "failed", "aborted"}]
          /\ closed \in BOOLEAN
Types2 == /\ made \in 0..MaxMessages
          /\ path \in [Messages -> Path]
          /\ answer \in [Messages -> {"none", "ok", "error"}]
          /\ during \in [Messages -> SUBSET Deliveries]
          /\ doing \in [Tasks -> Awaited]
Types3 == /\ held \in [Transactions -> Seq(Messages)]
          /\ log \in Seq(Messages)
          /\ segment \in [Deliveries -> Seq(Messages)]
          /\ sealed \in Seq(Messages)
          /\ lost \subseteq Messages

LEMMA TypeParts == TypeOK <=> Types1 /\ Types2 /\ Types3 /\ RegTypes
  BY DEF TypeOK, Types1, Types2, Types3, RegTypes, Unique

\* What a task does of a transaction names one.
LEMMA OpenTypes ==
    ASSUME TypeOK
    PROVE  /\ handle # 0 => handle \in Transactions
           /\ \A t \in Tasks : owned[t] # 0 => owned[t] \in Transactions
           /\ \A t \in Tasks : doing[t].await = "exec" => doing[t].of \in Transactions
           /\ \A t \in Tasks : doing[t].await = "xadd" => doing[t].of \in Messages
  <1>1. MaxTransactions \in Nat
    BY PublisherAssumption
  <1>2. begun \in Nat /\ begun <= MaxTransactions
    BY <1>1 DEF TypeOK
  <1>3. \A h \in 0..begun : h # 0 => h \in Transactions
    BY <1>1, <1>2 DEF Transactions
  <1>4. \A t \in Tasks : doing[t] \in Awaited /\ owned[t] \in 0..begun
    BY DEF TypeOK
  <1>5. \A a \in Awaited : /\ a.await = "exec" => a.of \in Transactions
                          /\ a.await = "xadd" => a.of \in Messages
    BY DEF Awaited
  <1>6. handle \in 0..begun
    BY DEF TypeOK
  <1>7. \A t \in Tasks : owned[t] # 0 => owned[t] \in Transactions
    BY <1>3, <1>4
  <1>8. \A t \in Tasks : doing[t].await = "exec" => doing[t].of \in Transactions
    <2> SUFFICES ASSUME NEW t \in Tasks
                 PROVE  doing[t].await = "exec" => doing[t].of \in Transactions
      OBVIOUS
    <2>1. doing[t] \in Awaited
      BY <1>4
    <2>. QED
      BY <2>1 DEF Awaited
  <1>9. \A t \in Tasks : doing[t].await = "xadd" => doing[t].of \in Messages
    <2> SUFFICES ASSUME NEW t \in Tasks
                 PROVE  doing[t].await = "xadd" => doing[t].of \in Messages
      OBVIOUS
    <2>1. doing[t] \in Awaited
      BY <1>4
    <2>. QED
      BY <2>1 DEF Awaited
  <1>10. handle # 0 => handle \in Transactions
    BY <1>3, <1>6
  <1>. QED
    BY ONLY <1>7, <1>8, <1>9, <1>10

LEMMA Types1Step == TypeOK /\ [Next]_vars => Types1'
  <1> SUFFICES ASSUME TypeOK, [Next]_vars PROVE Types1'
    OBVIOUS
  <1>1. Types1 /\ MaxTransactions \in Nat
    BY TypeParts, PublisherAssumption
  <1>2. ASSUME UNCHANGED <<load, begun, handle, owned, fate, closed>>
        PROVE  Types1'
    BY <1>1, <1>2 DEF Types1
  <1>3. ASSUME NEW t \in Tasks, Begin(t) \/ BeginOwned(t) PROVE Types1'
    <2>1. begun < load.transactions /\ load \in Loads
      BY <1>1, <1>3 DEF Begin, BeginOwned, Begun, Types1
    <2>2. load.transactions \in 0..MaxTransactions
      BY <2>1, PublisherAssumption DEF Load
    <2>3. /\ begun \in Nat /\ begun + 1 \in 0..MaxTransactions
          /\ \A h \in 0..begun : h \in 0..(begun + 1)
          /\ begun + 1 \in 0..(begun + 1)
      BY <1>1, <2>1, <2>2 DEF Types1
    <2>4. begun' = begun + 1 /\ UNCHANGED <<load, closed>>
          /\ fate' = [fate EXCEPT ![begun + 1] = "open"]
          /\ (handle' = handle \/ handle' = begun + 1)
          /\ (owned' = owned \/ owned' = [owned EXCEPT ![t] = begun + 1])
      BY <1>3 DEF Begin, BeginOwned, Begun, NextTransaction
    <2>. QED
      BY <1>1, <2>3, <2>4 DEF Types1
  <1>4. ASSUME NEW t \in Tasks,
               Commit(t) \/ CommitOwned(t) \/ Abort(t) \/ AbortOwned(t)
        PROVE  Types1'
    <2>1. /\ UNCHANGED <<load, begun, closed>>
          /\ (handle' = handle \/ handle' = 0)
          /\ (owned' = owned \/ owned' = [owned EXCEPT ![t] = 0])
      BY <1>4 DEF Commit, CommitOwned, Abort, AbortOwned, Flush, AfterCommit
    <2>2. PICK x \in {handle, owned[t]},
               f \in {"committed", "failed", "flushing", "aborted"} :
             fate' = [fate EXCEPT ![x] = f]
      <3>1. CASE Commit(t) \/ CommitOwned(t)
        <4>1. PICK x \in {handle, owned[t]} : Flush(t, x)
          BY <3>1 DEF Commit, CommitOwned
        <4>. QED
          BY <4>1 DEF Flush
      <3>2. CASE Abort(t) \/ AbortOwned(t)
        BY <3>2 DEF Abort, AbortOwned
      <3>. QED
        BY <1>4, <3>1, <3>2
    <2>3. fate' \in [Transactions -> {"none", "open", "flushing", "committed",
                                     "failed", "aborted"}]
      BY <1>1, <2>2 DEF Types1
    <2>4. handle' \in 0..begun' /\ owned' \in [Tasks -> 0..begun']
      <3>1. 0 \in 0..begun /\ begun' = begun
        BY <1>1, <2>1 DEF Types1
      <3>. QED
        BY <1>1, <2>1, <3>1 DEF Types1
    <2>. QED
      BY <1>1, <2>1, <2>3, <2>4 DEF Types1
  <1>5. ASSUME NEW t \in Tasks, NEW x \in Transactions, NEW block \in Parts(held[x]),
               NEW said \in {"committed", "failed"},
               ExecAnswered(t, x, block, said)
        PROVE  Types1'
    BY <1>1, <1>5 DEF ExecAnswered, Types1
  <1>6. ASSUME Shutdown PROVE Types1'
    BY <1>1, <1>6 DEF Shutdown, transactions, Types1
  <1>. QED
    BY <1>2, <1>3, <1>4, <1>5, <1>6
       DEF Next, vars, transactions, Carry, PublishInRound, Take, Bind, Refuse, SettleRefused,
           Acknowledge, PublishBuffered, PublishAtOnce, XaddAnswered, PublishOwned

LEMMA Types2Step == TypeOK /\ [Next]_vars => Types2'
  <1> SUFFICES ASSUME TypeOK, [Next]_vars PROVE Types2'
    OBVIOUS
  <1>1. Types2 /\ MaxMessages \in Nat
    BY TypeParts, PublisherAssumption
  <1>2. ASSUME UNCHANGED <<publishes, doing>> PROVE Types2'
    BY <1>1, <1>2 DEF Types2, publishes
  <1>3. ASSUME NEW t \in Tasks, NEW how \in Path,
               NEW said \in {"none", "ok", "error"}, Make(t, how, said),
               \/ UNCHANGED doing
               \/ doing' = [doing EXCEPT ![t] = [await |-> "xadd", of |-> made + 1]]
        PROVE  Types2'
    <2>1. /\ made + 1 \in Messages
          /\ made' \in 0..MaxMessages
          /\ path' \in [Messages -> Path]
          /\ answer' \in [Messages -> {"none", "ok", "error"}]
          /\ during' \in [Messages -> SUBSET Deliveries]
      BY <1>3, MakeTypes
    <2>2. doing' \in [Tasks -> Awaited]
      <3>1. [await |-> "xadd", of |-> made + 1] \in Awaited
        BY <2>1 DEF Awaited
      <3>. QED
        BY <1>1, <1>3, <3>1 DEF Types2
    <2>. QED
      BY <2>1, <2>2 DEF Types2
  <1>4. ASSUME NEW t \in Tasks, NEW p \in Publishers, NEW reply \in BOOLEAN,
               PublishInRound(t, p, reply)
        PROVE  Types2'
    <2>1. PICK k \in DOMAIN entries :
             /\ UNCHANGED doing
             /\ \/ Make(t, [via |-> "round", of |-> entries[k].round], "ok")
                \/ Make(t, [via |-> "round", of |-> entries[k].round], "error")
      BY <1>4 DEF PublishInRound
    <2>2. entries[k].round \in Deliveries
      <3>1. entries \in Seq(Entry)
        BY DEF TypeOK
      <3>2. entries[k] \in Entry
        BY <3>1, ElementOfSeq, LenProperties
      <3>. QED
        BY <3>2 DEF Entry
    <2>3. [via |-> "round", of |-> entries[k].round] \in Path
      BY <2>2 DEF Path
    <2>. QED
      BY <1>3, <2>1, <2>3
  <1>5. ASSUME NEW t \in Tasks, NEW p \in Publishers, NEW reply \in BOOLEAN,
               PublishAtOnce(t, p, reply)
        PROVE  Types2'
    <2>1. [via |-> "pool", of |-> t] \in Path
      BY DEF Path
    <2>. QED
      BY <1>3, <1>5, <2>1 DEF PublishAtOnce
  <1>6. ASSUME NEW t \in Tasks, NEW reply \in BOOLEAN, PublishBuffered(t, reply)
        PROVE  Types2'
    <2>1. [via |-> "transaction", of |-> handle] \in Path
      BY <1>6, OpenTypes DEF PublishBuffered, Path
    <2>. QED
      BY <1>3, <1>6, <2>1 DEF PublishBuffered
  <1>7. ASSUME NEW t \in Tasks, PublishOwned(t) PROVE Types2'
    <2>1. [via |-> "transaction", of |-> owned[t]] \in Path
      BY <1>7, OpenTypes DEF PublishOwned, Path
    <2>. QED
      BY <1>3, <1>7, <2>1 DEF PublishOwned
  <1>8. ASSUME NEW t \in Tasks, NEW runs \in BOOLEAN,
               NEW said \in {"ok", "error"}, XaddAnswered(t, runs, said)
        PROVE  Types2'
    BY <1>1, <1>8 DEF XaddAnswered, Types2, Awaited, Nothing
  <1>9. ASSUME NEW t \in Tasks, NEW x \in Transactions, NEW block \in Parts(held[x]),
               NEW said \in {"committed", "failed"},
               ExecAnswered(t, x, block, said)
        PROVE  Types2'
    BY <1>1, <1>9 DEF ExecAnswered, Types2, Awaited, Nothing, publishes
  <1>10. ASSUME NEW t \in Tasks, NEW x \in Transactions, Flush(t, x) PROVE Types2'
    BY <1>1, <1>10 DEF Flush, Types2, Awaited, Nothing, publishes
  <1>11. ASSUME NEW t \in Tasks, Commit(t) \/ CommitOwned(t) PROVE Types2'
    BY <1>10, <1>11, OpenTypes DEF Commit, CommitOwned
  <1>. QED
    BY <1>2, <1>4, <1>5, <1>6, <1>7, <1>8, <1>9, <1>11
       DEF Next, vars, Carry, Take, Bind, Refuse, SettleRefused, Acknowledge, Begin, BeginOwned,
           Abort, AbortOwned, Shutdown

LEMMA Types3Step == TypeOK /\ [Next]_vars => Types3'
  <1> SUFFICES ASSUME TypeOK, [Next]_vars PROVE Types3'
    OBVIOUS
  <1>1. Types3
    BY TypeParts
  <1>2. ASSUME UNCHANGED <<held, log, segment, sealed, lost>> PROVE Types3'
    BY <1>1, <1>2 DEF Types3
  <1>3. ASSUME NEW t \in Tasks, NEW d \in Deliveries, NEW kept \in BOOLEAN,
               Acknowledge(t, d, kept)
        PROVE  Types3'
    <2>1. segment[d] \in Seq(Messages) /\ sealed \in Seq(Messages)
      BY <1>1 DEF Types3
    <2>2. sealed \o segment[d] \in Seq(Messages) /\ Elems(segment[d]) \subseteq Messages
      BY <2>1, ConcatElems, ElemsOf
    <2>3. /\ sealed' = sealed \/ sealed' = sealed \o segment[d]
          /\ lost' = lost \/ lost' = lost \cup Elems(segment[d])
          /\ UNCHANGED <<held, log, segment>>
      BY <1>3 DEF Acknowledge, transactions
    <2>. QED
      BY <1>1, <2>2, <2>3 DEF Types3
  <1>4. ASSUME NEW runs \in BOOLEAN, Carry(runs) PROVE Types3'
    <2>1. Head(sealed) \in Messages /\ Tail(sealed) \in Seq(Messages)
      BY <1>1, <1>4, TailElems DEF Carry, Types3
    <2>2. Append(log, Head(sealed)) \in Seq(Messages)
      BY <1>1, <2>1, AppendElems DEF Types3
    <2>. QED
      BY <1>1, <1>4, <2>1, <2>2 DEF Carry, transactions, Types3
  <1>5. ASSUME NEW t \in Tasks, NEW how \in Path,
               NEW said \in {"none", "ok", "error"}, Make(t, how, said)
        PROVE  /\ \A x \in Transactions : Append(held[x], made + 1) \in Seq(Messages)
               /\ \A d \in Deliveries : Append(segment[d], made + 1) \in Seq(Messages)
    <2>1. made + 1 \in Messages
      BY <1>5, MakeTypes
    <2>2. \A s \in Seq(Messages) : Append(s, made + 1) \in Seq(Messages)
      BY <2>1, AppendElems
    <2>. QED
      BY <1>1, <2>2 DEF Types3
  <1>6. ASSUME NEW t \in Tasks, NEW p \in Publishers, NEW reply \in BOOLEAN,
               PublishInRound(t, p, reply)
        PROVE  Types3'
    <2>1. PICK k \in DOMAIN entries :
             /\ UNCHANGED <<held, log, sealed, lost>>
             /\ \/ UNCHANGED segment
                \/ /\ Make(t, [via |-> "round", of |-> entries[k].round], "ok")
                   /\ segment' = [segment EXCEPT ![entries[k].round] =
                                      Append(@, made + 1)]
      BY <1>6 DEF PublishInRound, transactions
    <2>2. entries[k].round \in Deliveries
      <3>1. entries \in Seq(Entry)
        BY DEF TypeOK
      <3>2. entries[k] \in Entry
        BY <3>1, ElementOfSeq, LenProperties
      <3>. QED
        BY <3>2 DEF Entry
    <2>3. [via |-> "round", of |-> entries[k].round] \in Path
      BY <2>2 DEF Path
    <2>4. ASSUME Make(t, [via |-> "round", of |-> entries[k].round], "ok")
          PROVE  Append(segment[entries[k].round], made + 1) \in Seq(Messages)
      BY <1>5, <2>2, <2>3, <2>4
    <2>. QED
      BY <1>1, <2>1, <2>4 DEF Types3
  <1>7. ASSUME NEW t \in Tasks, NEW x \in Transactions,
               Make(t, [via |-> "transaction", of |-> x], "ok"),
               held' = [held EXCEPT ![x] = Append(@, made + 1)],
               UNCHANGED <<log, segment, sealed, lost>>
        PROVE  Types3'
    <2>1. [via |-> "transaction", of |-> x] \in Path
      BY DEF Path
    <2>2. Append(held[x], made + 1) \in Seq(Messages)
      BY <1>5, <1>7, <2>1
    <2>. QED
      BY <1>1, <1>7, <2>2 DEF Types3
  <1>8. ASSUME NEW t \in Tasks, NEW reply \in BOOLEAN, PublishBuffered(t, reply)
        PROVE  Types3'
    BY <1>7, <1>8, OpenTypes DEF PublishBuffered, rounds
  <1>9. ASSUME NEW t \in Tasks, PublishOwned(t) PROVE Types3'
    BY <1>7, <1>9, OpenTypes DEF PublishOwned, rounds
  <1>10. ASSUME NEW t \in Tasks, NEW runs \in BOOLEAN,
                NEW said \in {"ok", "error"}, XaddAnswered(t, runs, said)
         PROVE  Types3'
    <2>1. doing[t].of \in Messages
      BY <1>10, OpenTypes DEF XaddAnswered
    <2>2. Append(log, doing[t].of) \in Seq(Messages)
      BY <1>1, <2>1, AppendElems DEF Types3
    <2>. QED
      BY <1>1, <1>10, <2>2 DEF XaddAnswered, transactions, rounds, Types3
  <1>11. ASSUME NEW t \in Tasks, NEW x \in Transactions, NEW block \in Parts(held[x]),
                NEW said \in {"committed", "failed"},
                ExecAnswered(t, x, block, said)
         PROVE  Types3'
    <2>1. held[x] \in Seq(Messages) /\ log \in Seq(Messages)
      BY <1>1 DEF Types3
    <2>2. block \in Seq(Messages)
      BY <2>1, PartOf
    <2>3. log \o block \in Seq(Messages)
      BY <2>1, <2>2, ConcatElems
    <2>. QED
      BY <1>1, <1>11, <2>3 DEF ExecAnswered, rounds, Types3
  <1>. QED
    BY <1>2, <1>3, <1>4, <1>6, <1>8, <1>9, <1>10, <1>11
       DEF Next, vars, transactions, rounds, Take, Bind, Refuse, SettleRefused, PublishAtOnce,
           Begin, BeginOwned, Flush, Commit, CommitOwned, Abort, AbortOwned,
           Shutdown

LEMMA InitTypes == Init => TypeOK
  <1> SUFFICES ASSUME Init PROVE TypeOK
    OBVIOUS
  <1>1. Types1 /\ Types2
    <2>1. 0 \in 0..MaxTransactions /\ 0 \in 0..MaxMessages /\ 0 \in 0..0
      BY PublisherAssumption
    <2>2. Nowhere \in Path /\ Nothing \in Awaited
      BY DEF Path, Nowhere, Awaited, Nothing
    <2>3. Types1
      BY <2>1 DEF Init, Types1
    <2>4. Types2
      BY <2>1, <2>2 DEF Init, Types2
    <2>. QED
      BY <2>3, <2>4
  <1>2. Types3
    BY EmptySeq DEF Init, Types3
  <1>3. RegTypes
    BY InitReg DEF RegInv
  <1>. QED
    BY <1>1, <1>2, <1>3, TypeParts

LEMMA TypeStep == TypeOK /\ RegInv /\ [Next]_vars => TypeOK'
  <1> SUFFICES ASSUME TypeOK, RegInv, [Next]_vars PROVE TypeOK'
    OBVIOUS
  <1>1. Types1' /\ Types2' /\ Types3' /\ RegTypes'
    BY Types1Step, Types2Step, Types3Step, RegStep DEF RegInv
  <1>2. (TypeOK <=> Types1 /\ Types2 /\ Types3 /\ RegTypes)'
    BY TypeParts, PTL
  <1>. QED
    BY <1>1, <1>2

\* TypeOK is an invariant: of the registry with no round twice in it, which
\* the settle that takes one out relies on, and of the buffers and the log.
THEOREM TypeCorrect == Spec => []TypeOK
  <1>1. Init => TypeOK /\ RegInv
    BY InitTypes, InitReg
  <1>2. TypeOK /\ RegInv /\ [Next]_vars => (TypeOK /\ RegInv)'
    BY TypeStep, RegStep
  <1>. QED
    BY <1>1, <1>2, PTL DEF Spec

-----------------------------------------------------------------------------
(* Transactions.                                                           *)

\* A transaction that is open belongs to the handle or to one value, and one
\* that is flushing to one task: no commit, abort or buffered publish of one
\* reaches the transaction of another.
TxnInv ==
    /\ handle # 0 => fate[handle] = "open"
    /\ \A t \in Tasks : owned[t] # 0 => fate[owned[t]] = "open" /\ owned[t] # handle
    /\ \A t, u \in Tasks : t # u /\ owned[t] # 0 => owned[t] # owned[u]
    /\ \A t \in Tasks : doing[t].await = "exec" => fate[doing[t].of] = "flushing"
    /\ \A t, u \in Tasks :
          /\ t # u /\ doing[t].await = "exec" /\ doing[u].await = "exec"
          => doing[t].of # doing[u].of
    /\ \A x \in Transactions : x > begun => fate[x] = "none"

LEMMA TxnStep == TypeOK /\ TxnInv /\ [Next]_vars => TxnInv'
  <1> SUFFICES ASSUME TypeOK, TxnInv, [Next]_vars PROVE TxnInv'
    OBVIOUS
  <1>1. /\ fate \in [Transactions -> {"none", "open", "flushing", "committed",
                                       "failed", "aborted"}]
        /\ owned \in [Tasks -> 0..begun] /\ handle \in 0..begun
        /\ doing \in [Tasks -> Awaited] /\ begun \in Nat
    BY DEF TypeOK
  <1>2. ASSUME UNCHANGED <<begun, handle, owned, fate, doing>> PROVE TxnInv'
    BY <1>2 DEF TxnInv
  <1>3. ASSUME NEW t \in Tasks, Begin(t) \/ BeginOwned(t) PROVE TxnInv'
    <2>1. begun < load.transactions /\ load \in Loads
      BY <1>3 DEF Begin, BeginOwned, Begun, TypeOK
    <2>2. load.transactions \in 0..MaxTransactions /\ MaxTransactions \in Nat
      BY <2>1, PublisherAssumption DEF Load
    <2>. DEFINE new == begun + 1
    <2>3. /\ new \in Transactions /\ new # 0
          /\ \A h \in 0..begun : h # new
          /\ \A x \in Transactions : x > new => x > begun /\ x # new
          /\ new > begun
      BY <1>1, <2>1, <2>2 DEF Transactions
    <2>4. begun' = new /\ UNCHANGED doing
          /\ fate' = [fate EXCEPT ![new] = "open"]
          /\ \/ handle' = handle /\ owned' = [owned EXCEPT ![t] = new]
             \/ handle' = new /\ owned' = owned
      BY <1>3 DEF Begin, BeginOwned, Begun, NextTransaction
    <2>. HIDE DEF new
    <2>5. fate'[new] = "open" /\ \A x \in Transactions : x # new => fate'[x] = fate[x]
      BY <1>1, <2>3, <2>4
    <2>6. \A u \in Tasks : doing[u].await = "exec" =>
             doing[u].of \in Transactions /\ doing[u].of # new
      <3>1. fate[new] = "none"
        BY <2>3 DEF TxnInv
      <3>. QED
        BY <3>1, OpenTypes DEF TxnInv
    <2>7. /\ handle # 0 => handle \in Transactions /\ handle # new
          /\ \A u \in Tasks : owned[u] # new /\ (owned[u] # 0 => owned[u] \in Transactions)
      BY <1>1, <2>3, OpenTypes
    <2>8. handle' # 0 => fate'[handle'] = "open"
      BY <2>4, <2>5, <2>7 DEF TxnInv
    <2>9. \A u \in Tasks : owned'[u] # 0 => fate'[owned'[u]] = "open" /\ owned'[u] # handle'
      <3> SUFFICES ASSUME NEW u \in Tasks, owned'[u] # 0
                   PROVE  fate'[owned'[u]] = "open" /\ owned'[u] # handle'
        OBVIOUS
      <3>1. CASE owned'[u] = owned[u]
        BY <2>4, <2>5, <2>7, <3>1, <1>1 DEF TxnInv
      <3>2. CASE owned'[u] # owned[u]
        <4>1. owned'[u] = new /\ handle' = handle
          BY <1>1, <2>4, <3>2
        <4>2. handle # new
          BY <1>1, <2>3
        <4>. QED
          BY <2>5, <4>1, <4>2
      <3>. QED
        BY <3>1, <3>2
    <2>10. \A u, v \in Tasks : u # v /\ owned'[u] # 0 => owned'[u] # owned'[v]
      BY <1>1, <2>3, <2>4, <2>7 DEF TxnInv
    <2>11. \A u \in Tasks : doing'[u].await = "exec" => fate'[doing'[u].of] = "flushing"
      BY <2>4, <2>5, <2>6 DEF TxnInv
    <2>12. \A u, v \in Tasks :
             /\ u # v /\ doing'[u].await = "exec" /\ doing'[v].await = "exec"
             => doing'[u].of # doing'[v].of
      BY <2>4 DEF TxnInv
    <2>13. \A x \in Transactions : x > begun' => fate'[x] = "none"
      BY <2>3, <2>4, <2>5 DEF TxnInv
    <2>. QED
      BY <2>8, <2>9, <2>10, <2>11, <2>12, <2>13 DEF TxnInv
  <1>4. ASSUME NEW t \in Tasks, NEW x \in Transactions,
               fate[x] = "open", doing[t].await # "exec",
               UNCHANGED begun,
               NEW f \in {"committed", "failed", "flushing", "aborted"},
               fate' = [fate EXCEPT ![x] = f],
               \/ doing'[t].await # "exec"
               \/ f = "flushing" /\ doing'[t].of = x,
               \A u \in Tasks \ {t} : doing'[u] = doing[u],
               \/ handle = x /\ handle' = 0 /\ owned' = owned
               \/ owned[t] = x /\ handle' = handle /\ owned' = [owned EXCEPT ![t] = 0]
        PROVE  TxnInv'
    <2>1. fate'[x] = f /\ \A y \in Transactions : y # x => fate'[y] = fate[y]
      BY <1>1, <1>4
    <2>2. /\ handle # 0 => handle \in Transactions
          /\ \A u \in Tasks : owned[u] # 0 => owned[u] \in Transactions
          /\ \A u \in Tasks : doing[u].await = "exec" =>
                doing[u].of \in Transactions /\ doing[u].of # x
      BY <1>4, OpenTypes DEF TxnInv
    <2>0. x # 0
      BY DEF Transactions
    <2>3. handle' # 0 => handle' = handle /\ handle # x
      BY <1>4, <2>0 DEF TxnInv
    <2>4. \A u \in Tasks : owned'[u] # 0 => owned'[u] = owned[u] /\ owned[u] # x
      BY <1>1, <1>4, <2>0 DEF TxnInv
    <2>5. handle' # 0 => fate'[handle'] = "open"
      BY <2>1, <2>2, <2>3 DEF TxnInv
    <2>6. \A u \in Tasks : owned'[u] # 0 => fate'[owned'[u]] = "open" /\ owned'[u] # handle'
      BY <2>1, <2>2, <2>3, <2>4 DEF TxnInv
    <2>7. \A u, v \in Tasks : u # v /\ owned'[u] # 0 => owned'[u] # owned'[v]
      BY <2>4 DEF TxnInv
    <2>8. \A u \in Tasks : doing'[u].await = "exec" => fate'[doing'[u].of] = "flushing"
      BY <1>4, <2>1, <2>2 DEF TxnInv
    <2>9. \A u, v \in Tasks :
             /\ u # v /\ doing'[u].await = "exec" /\ doing'[v].await = "exec"
             => doing'[u].of # doing'[v].of
      BY <1>4, <2>2 DEF TxnInv
    <2>10. \A y \in Transactions : y > begun' => fate'[y] = "none"
      BY <1>4, <2>1 DEF TxnInv
    <2>. QED
      BY <2>5, <2>6, <2>7, <2>8, <2>9, <2>10 DEF TxnInv
  <1>5. ASSUME NEW t \in Tasks,
               Commit(t) \/ CommitOwned(t) \/ Abort(t) \/ AbortOwned(t)
        PROVE  TxnInv'
    <2>1. PICK x \in {handle, owned[t]} :
             /\ x # 0 /\ Idle(t) /\ UNCHANGED begun
             /\ \/ Flush(t, x)
                \/ UNCHANGED doing /\ fate' = [fate EXCEPT ![x] = "aborted"]
             /\ \/ handle = x /\ handle' = 0 /\ owned' = owned
                \/ owned[t] = x /\ handle' = handle /\ owned' = [owned EXCEPT ![t] = 0]
      BY <1>5 DEF Commit, CommitOwned, Abort, AbortOwned, Flush, AfterCommit
    <2>2. x \in Transactions /\ fate[x] = "open" /\ doing[t].await # "exec"
      BY <2>1, OpenTypes DEF TxnInv, Idle, Nothing
    <2>3. CASE Flush(t, x)
      <3>1. PICK f \in {"committed", "failed", "flushing"} :
               /\ fate' = [fate EXCEPT ![x] = f]
               /\ \/ doing' = [doing EXCEPT ![t] = Nothing]
                  \/ f = "flushing" /\ doing' = [doing EXCEPT ![t] = [await |-> "exec", of |-> x]]
        BY <2>3 DEF Flush
      <3>2. /\ \/ doing'[t].await # "exec"
               \/ f = "flushing" /\ doing'[t].of = x
            /\ \A u \in Tasks \ {t} : doing'[u] = doing[u]
        <4>1. CASE doing' = [doing EXCEPT ![t] = Nothing]
          <5>1. doing'[t] = Nothing /\ Nothing.await # "exec"
            BY <1>1, <4>1 DEF Nothing
          <5>2. \A u \in Tasks \ {t} : doing'[u] = doing[u]
            BY <1>1, <4>1
          <5>3. doing'[t].await # "exec"
            BY ONLY <5>1
          <5>. QED
            BY ONLY <5>2, <5>3
        <4>2. CASE /\ f = "flushing"
                   /\ doing' = [doing EXCEPT ![t] = [await |-> "exec", of |-> x]]
          <5>1. doing'[t].of = x
            BY <1>1, <4>2
          <5>. QED
            BY <1>1, <4>2, <5>1
        <4>. QED
          BY <3>1, <4>1, <4>2
      <3>. QED
        BY <1>4, <2>1, <2>2, <3>1, <3>2
    <2>4. CASE UNCHANGED doing /\ fate' = [fate EXCEPT ![x] = "aborted"]
      BY <1>4, <2>1, <2>2, <2>4
    <2>. QED
      BY <2>1, <2>3, <2>4
  <1>6. ASSUME NEW t \in Tasks, NEW x \in Transactions, NEW block \in Parts(held[x]),
               NEW said \in {"committed", "failed"},
               ExecAnswered(t, x, block, said)
        PROVE  TxnInv'
    <2>1. /\ doing[t].of = x /\ doing[t].await = "exec"
          /\ UNCHANGED <<handle, owned, begun>>
          /\ fate' = [fate EXCEPT ![x] = said]
          /\ doing' = [doing EXCEPT ![t] = Nothing]
      BY <1>6, OpenTypes DEF ExecAnswered
    <2>2. fate[x] = "flushing"
      BY <2>1 DEF TxnInv
    <2>3. fate'[x] = said /\ \A y \in Transactions : y # x => fate'[y] = fate[y]
      BY <1>1, <2>1
    <2>4. \A u \in Tasks : doing'[u].await = "exec" =>
             u # t /\ doing'[u] = doing[u] /\ doing[u].of # x /\ doing[u].of \in Transactions
      BY <1>1, <2>1, OpenTypes DEF TxnInv, Nothing
    <2>5. /\ handle # 0 => handle \in Transactions /\ handle # x
          /\ \A u \in Tasks : owned[u] # 0 => owned[u] \in Transactions /\ owned[u] # x
      BY <2>2, OpenTypes DEF TxnInv
    <2>6. handle' # 0 => fate'[handle'] = "open"
      BY <2>1, <2>3, <2>5 DEF TxnInv
    <2>7. \A u \in Tasks : owned'[u] # 0 => fate'[owned'[u]] = "open" /\ owned'[u] # handle'
      BY <2>1, <2>3, <2>5 DEF TxnInv
    <2>8. \A u, v \in Tasks : u # v /\ owned'[u] # 0 => owned'[u] # owned'[v]
      BY <2>1 DEF TxnInv
    <2>9. \A u \in Tasks : doing'[u].await = "exec" => fate'[doing'[u].of] = "flushing"
      BY <2>3, <2>4 DEF TxnInv
    <2>10. \A u, v \in Tasks :
             /\ u # v /\ doing'[u].await = "exec" /\ doing'[v].await = "exec"
             => doing'[u].of # doing'[v].of
      BY <2>4 DEF TxnInv
    <2>11. \A y \in Transactions : y > begun' => fate'[y] = "none"
      BY <2>1, <2>2, <2>3 DEF TxnInv
    <2>. QED
      BY <2>6, <2>7, <2>8, <2>9, <2>10, <2>11 DEF TxnInv
  <1>7. ASSUME NEW t \in Tasks, UNCHANGED <<begun, handle, owned, fate>>,
               NEW new, new.await # "exec", doing' = [doing EXCEPT ![t] = new]
        PROVE  TxnInv'
    <2>1. \A u \in Tasks : doing'[u].await = "exec" => doing'[u] = doing[u]
      BY <1>1, <1>7
    <2>. QED
      BY <1>7, <2>1 DEF TxnInv
  <1>8. ASSUME NEW t \in Tasks, NEW p \in Publishers, NEW reply \in BOOLEAN,
               PublishAtOnce(t, p, reply)
        PROVE  TxnInv'
    <2>1. UNCHANGED transactions
      BY <1>8 DEF PublishAtOnce
    <2>2. CASE UNCHANGED doing
      BY <1>2, <2>1, <2>2 DEF transactions
    <2>3. CASE doing' = [doing EXCEPT ![t] = [await |-> "xadd", of |-> made + 1]]
      BY <1>7, <2>1, <2>3 DEF transactions
    <2>. QED
      BY <1>8, <2>2, <2>3 DEF PublishAtOnce
  <1>9. ASSUME NEW t \in Tasks, NEW runs \in BOOLEAN,
               NEW said \in {"ok", "error"}, XaddAnswered(t, runs, said)
        PROVE  TxnInv'
    <2>1. Nothing.await # "exec"
      BY DEF Nothing
    <2>. QED
      BY <1>7, <1>9, <2>1 DEF XaddAnswered, transactions
  <1>. QED
    BY <1>2, <1>3, <1>5, <1>6, <1>8, <1>9
       DEF Next, vars, transactions, Carry, PublishInRound, Take, Bind, Refuse, SettleRefused,
           Acknowledge, PublishBuffered, PublishOwned, Shutdown

-----------------------------------------------------------------------------
(* Where each message is.                                                  *)

\* What is held, queued, sealed, run or sent was made, along its path.
HeldMade == \A x \in Transactions : \A m \in Elems(held[x]) :
    m <= made /\ path[m].via = "transaction" /\ path[m].of = x
QueuedMade == \A d \in Deliveries : \A m \in Elems(segment[d]) :
    /\ m <= made /\ path[m].via = "round" /\ path[m].of = d
    /\ stage[d] # "stuck" => during[m] = {d}
SealedMade == \A m \in Elems(sealed) : m <= made /\ path[m].via = "round"
LogMade    == \A m \in Elems(log) : m <= made
SentMade   == \A t \in Tasks : doing[t].await = "xadd" =>
    doing[t].of <= made /\ path[doing[t].of].via = "pool"
Places == HeldMade /\ QueuedMade /\ SealedMade /\ LogMade /\ SentMade

\* What was made is where it went.
KeptOne(m) ==
    \/ path[m].via = "pool" /\ (answer[m] = "ok" => m \in Elems(log))
    \/ /\ path[m].via = "transaction"
       /\ m \in Elems(held[path[m].of]) /\ fate[path[m].of] # "none"
    \/ /\ path[m].via = "round"
       /\ answer[m] = "ok" => m \in Elems(segment[path[m].of])
       /\ Keeps = FALSE => answer[m] = "ok"
Kept == \A m \in Messages : m <= made => KeptOne(m)

\* What an acknowledged round queued is in the window, run or lost.
Carried == \A d \in Deliveries : stage[d] = "acked" =>
               Elems(segment[d]) \subseteq Elems(log) \cup Elems(sealed) \cup lost

\* s is in g with nothing between; of s this part is.
In(s, g) == \E k \in 0..Len(g) : /\ k + Len(s) <= Len(g)
                                 /\ \A i \in DOMAIN s : g[k + i] = s[i]
RanPart(s, part, g) ==
    In(part, g) /\ Elems(s) \cap Elems(g) \subseteq Elems(part)
Whole(x) ==
    /\ fate[x] = "committed" => In(held[x], log)
    /\ fate[x] = "failed" => \E part \in Parts(held[x]) :
                                RanPart(held[x], part, log)
    /\ fate[x] \in {"none", "open", "flushing", "aborted"} =>
          Elems(held[x]) \cap Elems(log) = {}

\* What a publish changes: the next message, and no earlier one.
LEMMA MakeKeeps ==
    ASSUME TypeOK, NEW t \in Tasks, NEW how \in Path,
           NEW said \in {"none", "ok", "error"}, Make(t, how, said)
    PROVE  /\ made \in Nat /\ made' = made + 1 /\ made + 1 \in Messages
           /\ \A m \in Messages : m <= made => m # made + 1
           /\ \A m \in Messages : m <= made' => m <= made \/ m = made + 1
           /\ path'[made + 1] = how /\ answer'[made + 1] = said
           /\ during'[made + 1] = Handles(t)
           /\ \A m \in Messages : m # made + 1 =>
                 /\ path'[m] = path[m] /\ answer'[m] = answer[m]
                 /\ during'[m] = during[m]
  <1>1. made + 1 \in Messages /\ made' = made + 1
    BY MakeTypes
  <1>2. made \in Nat /\ Messages \subseteq Nat
    BY PublisherAssumption DEF TypeOK, Messages
  <1>3. /\ path \in [Messages -> Path]
        /\ answer \in [Messages -> {"none", "ok", "error"}]
        /\ during \in [Messages -> SUBSET Deliveries]
        /\ path' = [path EXCEPT ![made + 1] = how]
        /\ answer' = [answer EXCEPT ![made + 1] = said]
        /\ during' = [during EXCEPT ![made + 1] = Handles(t)]
    BY DEF TypeOK, Make
  <1>4. \A m \in Messages : /\ m <= made => m # made + 1
                           /\ m <= made' => m <= made \/ m = made + 1
    BY <1>1, <1>2
  <1>. QED
    BY <1>1, <1>2, <1>3, <1>4

\* The ways a step can be about messages.
Published(t) ==
    \E how \in Path, said \in {"none", "ok", "error"} : Make(t, how, said)
LEMMA MessagesOnce ==
    ASSUME TypeOK, [Next]_vars
    PROVE  \/ UNCHANGED publishes
           \/ \E t \in Tasks : Published(t)
           \/ \E t \in Tasks, runs \in BOOLEAN, said \in {"ok", "error"} :
                 XaddAnswered(t, runs, said)
  <1>1. ASSUME NEW t \in Tasks, NEW p \in Publishers, NEW reply \in BOOLEAN,
               PublishInRound(t, p, reply)
        PROVE  Published(t)
    <2>1. PICK k \in DOMAIN entries :
             \/ Make(t, [via |-> "round", of |-> entries[k].round], "ok")
             \/ Make(t, [via |-> "round", of |-> entries[k].round], "error")
      BY <1>1 DEF PublishInRound
    <2>2. entries[k] \in Entry
      BY ElementOfSeq, LenProperties DEF TypeOK
    <2>3. [via |-> "round", of |-> entries[k].round] \in Path
      BY <2>2 DEF Path, Entry
    <2>. QED
      BY <2>1, <2>3 DEF Published
  <1>2. ASSUME NEW t \in Tasks, NEW p \in Publishers, NEW reply \in BOOLEAN,
               PublishAtOnce(t, p, reply)
        PROVE  Published(t)
    <2>1. [via |-> "pool", of |-> t] \in Path
      BY DEF Path
    <2>. QED
      BY <1>2, <2>1 DEF PublishAtOnce, Published
  <1>3. ASSUME NEW t \in Tasks, NEW reply \in BOOLEAN, PublishBuffered(t, reply)
        PROVE  Published(t)
    <2>1. [via |-> "transaction", of |-> handle] \in Path
      BY <1>3, OpenTypes DEF Path, PublishBuffered
    <2>. QED
      BY <1>3, <2>1 DEF PublishBuffered, Published
  <1>4. ASSUME NEW t \in Tasks, PublishOwned(t) PROVE Published(t)
    <2>1. [via |-> "transaction", of |-> owned[t]] \in Path
      BY <1>4, OpenTypes DEF Path, PublishOwned
    <2>. QED
      BY <1>4, <2>1 DEF PublishOwned, Published
  <1>. QED
    BY <1>1, <1>2, <1>3, <1>4
       DEF Next, vars, Carry, Take, Bind, Refuse, SettleRefused, Acknowledge, Begin, BeginOwned, Flush, Commit, CommitOwned,
           ExecAnswered, Abort, AbortOwned, Shutdown

\* No step touches what was made before: only its answer may come.
LEMMA MadeKept ==
    ASSUME TypeOK, [Next]_vars
    PROVE  /\ made <= made' /\ made \in Nat
           /\ \A m \in Messages : m <= made =>
                 m <= made' /\ path'[m] = path[m] /\ during'[m] = during[m]
  <1>1. made \in Nat /\ Messages \subseteq Nat
    BY PublisherAssumption DEF TypeOK, Messages
  <1>2. CASE UNCHANGED <<made, path, during>>
    BY <1>1, <1>2
  <1>3. ASSUME NEW t \in Tasks, Published(t)
        PROVE  /\ made' = made + 1
               /\ \A m \in Messages : m <= made =>
                     path'[m] = path[m] /\ during'[m] = during[m]
    <2>1. PICK how \in Path, said \in {"none", "ok", "error"} : Make(t, how, said)
      BY <1>3 DEF Published
    <2>. QED
      BY <2>1, MakeKeeps
  <1>4. ASSUME made' = made + 1
        PROVE  made <= made' /\ \A m \in Messages : m <= made => m <= made'
    BY <1>1, <1>4
  <1>5. ASSUME NEW t \in Tasks, NEW runs \in BOOLEAN,
               NEW said \in {"ok", "error"}, XaddAnswered(t, runs, said)
        PROVE  UNCHANGED <<made, path, during>>
    BY <1>5 DEF XaddAnswered
  <1>6. UNCHANGED publishes => UNCHANGED <<made, path, during>>
    BY DEF publishes
  <1>. QED
    BY <1>1, <1>2, <1>3, <1>4, <1>5, <1>6, MessagesOnce

\* A task that handles a delivery handles no other.
LEMMA OwnHandled ==
    ASSUME RegInv, NEW k \in DOMAIN entries, stage[entries[k].round] = "held"
    PROVE  /\ entries[k].round \in Deliveries
           /\ Handles(entries[k].task) = {entries[k].round}
  <1>1. entries[k] \in Entry
    BY ElementOfSeq, LenProperties DEF RegInv, RegTypes
  <1>2. entries[k].round \in Deliveries /\ entries[k].task \in Tasks
    BY <1>1 DEF Entry
  <1>3. entries[k].round \in Handles(entries[k].task)
    BY <1>2 DEF RegInv, EntriesOwn, Own, Handles
  <1>. QED
    BY <1>2, <1>3 DEF RegInv, OneInHand

\* A publish that joins a round.
LEMMA JoinedRound ==
    ASSUME TypeOK, RegInv, NEW t \in Tasks, NEW p \in Publishers,
           NEW reply \in BOOLEAN, PublishInRound(t, p, reply)
    PROVE  \E d \in Deliveries :
              /\ [via |-> "round", of |-> d] \in Path
              /\ \/ /\ Open(d) /\ (stage[d] = "held" => Handles(t) = {d})
                    /\ Make(t, [via |-> "round", of |-> d], "ok")
                    /\ segment' = [segment EXCEPT ![d] = Append(@, made + 1)]
                 \/ /\ Keeps # FALSE
                    /\ Make(t, [via |-> "round", of |-> d], "error")
                    /\ UNCHANGED segment
  <1>1. PICK k \in DOMAIN entries :
           /\ entries[k].task = t
           /\ \/ /\ Open(entries[k].round)
                 /\ Make(t, [via |-> "round", of |-> entries[k].round], "ok")
                 /\ segment' = [segment EXCEPT ![entries[k].round] =
                                   Append(@, made + 1)]
              \/ /\ ~Open(entries[k].round)
                 /\ Make(t, [via |-> "round", of |-> entries[k].round], "error")
                 /\ UNCHANGED segment
    BY DEF PublishInRound, Joins, MayJoin
  <1>2. entries[k] \in Entry
    BY ElementOfSeq, LenProperties DEF TypeOK
  <1>3. entries[k].round \in Deliveries
    BY <1>2 DEF Entry
  <1>4. [via |-> "round", of |-> entries[k].round] \in Path
    BY <1>3 DEF Path
  <1>5. ~Open(entries[k].round) => Keeps # FALSE
    BY DEF RegInv, EntriesOwn, Own
  <1>6. stage[entries[k].round] = "held" => Handles(t) = {entries[k].round}
    BY <1>1, OwnHandled
  <1>. QED
    BY <1>1, <1>3, <1>4, <1>5, <1>6

\* A publish that joins a transaction.
LEMMA HeldSteps ==
    ASSUME TypeOK, TxnInv, [Next]_vars
    PROVE  \/ UNCHANGED held
           \/ \E t \in Tasks, x \in Transactions :
                 /\ Make(t, [via |-> "transaction", of |-> x], "ok")
                 /\ [via |-> "transaction", of |-> x] \in Path
                 /\ held' = [held EXCEPT ![x] = Append(@, made + 1)]
                 /\ fate[x] = "open"
                 /\ UNCHANGED <<fate, doing, log, segment, sealed, stage>>
  <1>0. \A x \in Transactions : [via |-> "transaction", of |-> x] \in Path
    BY DEF Path
  <1>1. ASSUME NEW t \in Tasks, NEW reply \in BOOLEAN, PublishBuffered(t, reply)
        PROVE  /\ handle \in Transactions /\ fate[handle] = "open"
               /\ Make(t, [via |-> "transaction", of |-> handle], "ok")
               /\ held' = [held EXCEPT ![handle] = Append(@, made + 1)]
               /\ UNCHANGED <<fate, doing, log, segment, sealed, stage>>
    BY <1>1, OpenTypes DEF PublishBuffered, TxnInv, rounds
  <1>2. ASSUME NEW t \in Tasks, PublishOwned(t)
        PROVE  /\ owned[t] \in Transactions /\ fate[owned[t]] = "open"
               /\ Make(t, [via |-> "transaction", of |-> owned[t]], "ok")
               /\ held' = [held EXCEPT ![owned[t]] = Append(@, made + 1)]
               /\ UNCHANGED <<fate, doing, log, segment, sealed, stage>>
    BY <1>2, OpenTypes DEF PublishOwned, TxnInv, rounds
  <1>. QED
    BY <1>0, <1>1, <1>2
       DEF Next, vars, transactions, Carry, PublishInRound, PublishAtOnce, Take,
           Bind, Refuse, SettleRefused, Acknowledge, XaddAnswered, Begin, BeginOwned, Flush,
           Commit, CommitOwned, ExecAnswered, Abort, AbortOwned, Shutdown

LEMMA HeldMadeStep ==
    ASSUME TypeOK, TxnInv, HeldMade, [Next]_vars
    PROVE  HeldMade'
  <1>1. ASSUME NEW x \in Transactions, NEW m \in Elems(held[x])
        PROVE  m \in Messages /\ m <= made' /\ path'[m].via = "transaction"
               /\ path'[m].of = x
    <2>1. m \in Messages
      BY <1>1, ElemsOf DEF TypeOK
    <2>. QED
      BY <1>1, <2>1, MadeKept DEF HeldMade
  <1>2. CASE UNCHANGED held
    BY <1>1, <1>2 DEF HeldMade, Elems
  <1>3. ASSUME NEW t \in Tasks, NEW x \in Transactions,
               Make(t, [via |-> "transaction", of |-> x], "ok"),
               [via |-> "transaction", of |-> x] \in Path,
               held' = [held EXCEPT ![x] = Append(@, made + 1)]
        PROVE  HeldMade'
    <2>1. /\ made' = made + 1 /\ made + 1 \in Messages
          /\ path'[made + 1] = [via |-> "transaction", of |-> x] /\ made + 1 <= made'
      BY <1>3, MakeKeeps
    <2>2. Elems(held'[x]) = Elems(held[x]) \cup {made + 1}
      BY <1>3, <2>1, AppendElems DEF TypeOK
    <2>3. \A y \in Transactions : y # x => held'[y] = held[y]
      BY <1>3 DEF TypeOK
    <2>4. path'[made + 1].via = "transaction" /\ path'[made + 1].of = x
      BY <2>1
    <2> SUFFICES ASSUME NEW y \in Transactions, NEW m \in Elems(held'[y])
                 PROVE  m <= made' /\ path'[m].via = "transaction" /\ path'[m].of = y
      BY DEF HeldMade, Elems
    <2>5. CASE m \in Elems(held[y])
      BY <1>1, <2>5
    <2>6. CASE y = x /\ m = made + 1
      BY <2>1, <2>4, <2>6
    <2>. QED
      BY <2>2, <2>3, <2>5, <2>6
  <1>. QED
    BY <1>2, <1>3, HeldSteps

\* A publish that joins a round, or nothing queued.
LEMMA SegmentSteps ==
    ASSUME TypeOK, RegInv, [Next]_vars
    PROVE  \/ UNCHANGED segment
           \/ \E t \in Tasks, d \in Deliveries :
                 /\ Make(t, [via |-> "round", of |-> d], "ok")
                 /\ [via |-> "round", of |-> d] \in Path
                 /\ Open(d) /\ (stage[d] = "held" => Handles(t) = {d})
                 /\ UNCHANGED stage
                 /\ segment' = [segment EXCEPT ![d] = Append(@, made + 1)]
  <1>1. ASSUME NEW t \in Tasks, NEW p \in Publishers, NEW reply \in BOOLEAN,
               PublishInRound(t, p, reply)
        PROVE  \/ UNCHANGED segment
               \/ \E d \in Deliveries :
                     /\ Make(t, [via |-> "round", of |-> d], "ok")
                     /\ [via |-> "round", of |-> d] \in Path
                     /\ Open(d) /\ (stage[d] = "held" => Handles(t) = {d})
                     /\ UNCHANGED stage
                     /\ segment' = [segment EXCEPT ![d] = Append(@, made + 1)]
    <2>1. UNCHANGED stage
      BY <1>1 DEF PublishInRound
    <2>. QED
      BY <1>1, <2>1, JoinedRound
  <1>. QED
    BY <1>1
       DEF Next, vars, rounds, Carry, PublishBuffered, PublishOwned,
           PublishAtOnce, Take, Bind, Refuse, SettleRefused, Acknowledge, XaddAnswered, Begin,
           BeginOwned, Flush, Commit, CommitOwned, ExecAnswered, Abort,
           AbortOwned, Shutdown

\* The round of a settle that was refused stays as it is.
LEMMA StuckStays ==
    ASSUME TypeOK, [Next]_vars, NEW d \in Deliveries, stage[d] = "stuck"
    PROVE  stage'[d] = "stuck"
  <1>1. ASSUME NEW e \in Deliveries, NEW new, stage[e] # "stuck",
               stage' = [stage EXCEPT ![e] = new]
        PROVE  stage'[d] = "stuck"
    BY <1>1 DEF TypeOK
  <1>2. ASSUME NEW t \in Tasks, NEW e \in Deliveries,
               \/ Take(t, e) \/ Refuse(t, e) \/ SettleRefused(t, e)
               \/ \E kept \in BOOLEAN : Acknowledge(t, e, kept)
        PROVE  stage'[d] = "stuck"
    <2>1. /\ stage[e] # "stuck"
          /\ \E new : stage' = [stage EXCEPT ![e] = new]
      BY <1>2 DEF Take, Refuse, SettleRefused, Acknowledge, Handles
    <2>. QED
      BY <1>1, <2>1
  <1>3. CASE UNCHANGED stage
    BY <1>3
  <1>. QED
    BY <1>2, <1>3
       DEF Next, vars, rounds, PublishInRound, PublishBuffered, PublishOwned,
           PublishAtOnce, Bind, Carry, XaddAnswered, Begin, BeginOwned, Flush,
           Commit, CommitOwned, ExecAnswered, Abort, AbortOwned, Shutdown

LEMMA QueuedMadeStep ==
    ASSUME TypeOK, RegInv, QueuedMade, [Next]_vars
    PROVE  QueuedMade'
  <1>1. ASSUME NEW d \in Deliveries, NEW m \in Elems(segment[d])
        PROVE  /\ m \in Messages /\ m <= made' /\ path'[m].via = "round"
               /\ path'[m].of = d /\ (stage'[d] # "stuck" => during'[m] = {d})
    <2>1. m \in Messages
      BY <1>1, ElemsOf DEF TypeOK
    <2>. QED
      BY <1>1, <2>1, MadeKept, StuckStays DEF QueuedMade
  <1>2. CASE UNCHANGED segment
    BY <1>1, <1>2 DEF QueuedMade, Elems
  <1>3. ASSUME NEW t \in Tasks, NEW d \in Deliveries,
               Open(d), stage[d] = "held" => Handles(t) = {d}, UNCHANGED stage,
               Make(t, [via |-> "round", of |-> d], "ok"),
               [via |-> "round", of |-> d] \in Path,
               segment' = [segment EXCEPT ![d] = Append(@, made + 1)]
        PROVE  QueuedMade'
    <2>1. /\ made' = made + 1 /\ made + 1 \in Messages /\ made + 1 <= made'
          /\ path'[made + 1] = [via |-> "round", of |-> d]
          /\ stage'[d] # "stuck" => during'[made + 1] = {d}
      BY <1>3, MakeKeeps DEF Open
    <2>2. Elems(segment'[d]) = Elems(segment[d]) \cup {made + 1}
      BY <1>3, <2>1, AppendElems DEF TypeOK
    <2>3. \A e \in Deliveries : e # d => segment'[e] = segment[e]
      BY <1>3 DEF TypeOK
    <2>4. path'[made + 1].via = "round" /\ path'[made + 1].of = d
      BY <2>1
    <2> SUFFICES ASSUME NEW e \in Deliveries, NEW m \in Elems(segment'[e])
                 PROVE  /\ m <= made' /\ path'[m].via = "round" /\ path'[m].of = e
                        /\ stage'[e] # "stuck" => during'[m] = {e}
      BY DEF QueuedMade, Elems
    <2>5. CASE m \in Elems(segment[e])
      BY <1>1, <2>5
    <2>6. CASE e = d /\ m = made + 1
      BY <2>1, <2>4, <2>6
    <2>. QED
      BY <2>2, <2>3, <2>5, <2>6
  <1>. QED
    BY <1>2, <1>3, SegmentSteps

LEMMA SealedMadeStep ==
    ASSUME TypeOK, QueuedMade, SealedMade, [Next]_vars
    PROVE  SealedMade'
  <1>1. ASSUME NEW m \in Elems(sealed)
        PROVE  m <= made' /\ path'[m].via = "round"
    <2>1. m \in Messages
      BY ElemsOf DEF TypeOK
    <2>. QED
      BY <2>1, MadeKept DEF SealedMade
  <1>2. ASSUME NEW d \in Deliveries, NEW m \in Elems(segment[d])
        PROVE  m <= made' /\ path'[m].via = "round"
    <2>1. m \in Messages
      BY ElemsOf DEF TypeOK
    <2>. QED
      BY <2>1, MadeKept DEF QueuedMade
  <1>3. CASE UNCHANGED sealed
    BY <1>1, <1>3 DEF SealedMade, Elems
  <1>4. ASSUME NEW t \in Tasks, NEW d \in Deliveries, NEW kept \in BOOLEAN,
               Acknowledge(t, d, kept)
        PROVE  SealedMade'
    <2>1. sealed \in Seq(Messages) /\ segment[d] \in Seq(Messages)
      BY DEF TypeOK
    <2>2. Elems(sealed') \subseteq Elems(sealed) \cup Elems(segment[d])
      <3>1. Elems(sealed \o segment[d]) = Elems(sealed) \cup Elems(segment[d])
        BY <2>1, ConcatElems
      <3>2. sealed' = sealed \/ sealed' = sealed \o segment[d]
        BY <1>4 DEF Acknowledge
      <3>. QED
        BY <3>1, <3>2
    <2>. QED
      BY <1>1, <1>2, <2>2 DEF SealedMade, Elems
  <1>5. ASSUME NEW runs \in BOOLEAN, Carry(runs) PROVE SealedMade'
    <2>1. Elems(sealed') \subseteq Elems(sealed)
      BY <1>5, TailElems DEF Carry, TypeOK
    <2>. QED
      BY <1>1, <2>1 DEF SealedMade, Elems
  <1>. QED
    BY <1>3, <1>4, <1>5
       DEF Next, vars, rounds, PublishInRound, PublishBuffered, PublishOwned,
           PublishAtOnce, Take, Bind, Refuse, SettleRefused, XaddAnswered, Begin, BeginOwned,
           Flush, Commit, CommitOwned, ExecAnswered, Abort, AbortOwned, Shutdown

\* What a step runs: the head of the window, an XADD, a block, or nothing.
RunBy(m) ==
    \/ m \in Elems(sealed)
    \/ \E t \in Tasks : doing[t].await = "xadd" /\ m = doing[t].of
    \/ \E t \in Tasks :
          /\ doing[t].await = "exec" /\ m \in Elems(held[doing[t].of])
          /\ fate'[doing[t].of] # "flushing"
LEMMA LogSteps ==
    ASSUME TypeOK, [Next]_vars
    PROVE  /\ Len(log) \in Nat /\ Len(log') \in Nat /\ Len(log) <= Len(log')
           /\ \A i \in 1..Len(log) : log'[i] = log[i]
           /\ Elems(log) \subseteq Elems(log')
           /\ \A m \in Elems(log') : m \in Elems(log) \/ RunBy(m)
  <1>. DEFINE Goal == /\ Len(log) \in Nat /\ Len(log') \in Nat
                      /\ Len(log) <= Len(log')
                      /\ \A i \in 1..Len(log) : log'[i] = log[i]
                      /\ Elems(log) \subseteq Elems(log')
                      /\ \A m \in Elems(log') : m \in Elems(log) \/ RunBy(m)
  <1>1. log \in Seq(Messages) /\ Len(log) \in Nat
    BY LenProperties DEF TypeOK
  <1>2. CASE UNCHANGED log
    BY <1>1, <1>2 DEF Elems
  <1>3. ASSUME NEW m \in Messages, log' = Append(log, m), RunBy(m) PROVE Goal
    <2>1. /\ Len(log') = Len(log) + 1 /\ \A i \in 1..Len(log) : log'[i] = log[i]
          /\ Elems(log') = Elems(log) \cup {m}
      BY <1>1, <1>3, AppendElems
    <2>2. Len(log') \in Nat /\ Len(log) <= Len(log')
      BY ONLY <1>1, <2>1
    <2>. QED
      BY <1>1, <1>3, <2>1, <2>2
  <1>4. ASSUME NEW runs \in BOOLEAN, Carry(runs) PROVE Goal
    <2>1. Head(sealed) \in Messages /\ Head(sealed) \in Elems(sealed)
      BY <1>4, TailElems DEF Carry, TypeOK
    <2>2. UNCHANGED log \/ log' = Append(log, Head(sealed))
      BY <1>4 DEF Carry
    <2>. QED
      BY <1>2, <1>3, <2>1, <2>2 DEF RunBy
  <1>5. ASSUME NEW t \in Tasks, NEW runs \in BOOLEAN,
               NEW said \in {"ok", "error"}, XaddAnswered(t, runs, said)
        PROVE  Goal
    <2>1. doing[t].of \in Messages /\ RunBy(doing[t].of)
      BY <1>5, OpenTypes DEF XaddAnswered, RunBy
    <2>2. UNCHANGED log \/ log' = Append(log, doing[t].of)
      BY <1>5 DEF XaddAnswered
    <2>. QED
      BY <1>2, <1>3, <2>1, <2>2
  <1>6. ASSUME NEW t \in Tasks, NEW x \in Transactions, NEW block \in Parts(held[x]),
               NEW said \in {"committed", "failed"},
               ExecAnswered(t, x, block, said)
        PROVE  Goal
    <2>1. /\ doing[t].await = "exec" /\ doing[t].of = x
          /\ log' = log \o block
          /\ fate' = [fate EXCEPT ![x] = said]
      BY <1>6 DEF ExecAnswered
    <2>2. block \in Seq(Messages) /\ Elems(block) \subseteq Elems(held[x])
      BY PartOf DEF TypeOK
    <2>3. /\ Len(log') = Len(log) + Len(block) /\ Len(block) \in Nat
          /\ \A i \in 1..Len(log) : log'[i] = log[i]
          /\ Elems(log') = Elems(log) \cup Elems(block)
      BY <1>1, <2>1, <2>2, ConcatElems
    <2>4. Len(log') \in Nat /\ Len(log) <= Len(log')
      BY ONLY <1>1, <2>3
    <2>5. fate'[x] # "flushing"
      BY <2>1 DEF TypeOK
    <2>6. \A m \in Elems(block) : RunBy(m)
      BY <2>1, <2>2, <2>5 DEF RunBy
    <2>. QED
      BY <1>1, <2>3, <2>4, <2>6
  <1>. QED
    BY <1>2, <1>4, <1>5, <1>6
       DEF Next, vars, PublishInRound, PublishBuffered, PublishOwned,
           PublishAtOnce, Take, Bind, Refuse, SettleRefused, Acknowledge, Begin, BeginOwned,
           Flush, Commit, CommitOwned, Abort, AbortOwned, Shutdown

LEMMA LogMadeStep ==
    ASSUME TypeOK, Places, [Next]_vars
    PROVE  LogMade'
  <1>1. ASSUME NEW m \in Elems(log') PROVE m <= made'
    <2>1. m \in Messages /\ m <= made
      <3>1. CASE m \in Elems(log)
        BY <3>1, ElemsOf DEF TypeOK, Places, LogMade
      <3>2. CASE m \in Elems(sealed)
        BY <3>2, ElemsOf DEF TypeOK, Places, SealedMade
      <3>3. ASSUME NEW t \in Tasks, doing[t].await = "xadd", m = doing[t].of
            PROVE  m \in Messages /\ m <= made
        BY <3>3, OpenTypes DEF Places, SentMade
      <3>4. ASSUME NEW t \in Tasks, doing[t].await = "exec",
                   m \in Elems(held[doing[t].of])
            PROVE  m \in Messages /\ m <= made
        <4>1. doing[t].of \in Transactions
          BY <3>4, OpenTypes
        <4>. QED
          BY <3>4, <4>1, ElemsOf DEF TypeOK, Places, HeldMade
      <3>. QED
        BY <3>1, <3>2, <3>3, <3>4, LogSteps DEF RunBy
    <2>. QED
      BY <2>1, MadeKept
  <1>. QED
    BY <1>1 DEF LogMade, Elems

LEMMA SentMadeStep ==
    ASSUME TypeOK, SentMade, [Next]_vars
    PROVE  SentMade'
  <1>1. ASSUME NEW t \in Tasks, doing[t].await = "xadd"
        PROVE  doing[t].of <= made' /\ path'[doing[t].of].via = "pool"
    BY <1>1, OpenTypes, MadeKept DEF SentMade
  <1>2. doing \in [Tasks -> Awaited]
    BY DEF TypeOK
  <1>3. ASSUME NEW u \in Tasks, NEW new, doing' = [doing EXCEPT ![u] = new],
               new.await # "xadd"
        PROVE  SentMade'
    BY <1>1, <1>2, <1>3 DEF SentMade
  <1>4. CASE UNCHANGED doing
    BY <1>1, <1>4 DEF SentMade
  <1>5. ASSUME NEW t \in Tasks, NEW p \in Publishers, NEW reply \in BOOLEAN,
               PublishAtOnce(t, p, reply)
        PROVE  SentMade'
    <2>1. CASE /\ Make(t, [via |-> "pool", of |-> t], "none")
               /\ doing' = [doing EXCEPT ![t] = [await |-> "xadd", of |-> made + 1]]
      <3>1. [via |-> "pool", of |-> t] \in Path
        BY DEF Path
      <3>2. /\ made + 1 <= made'
            /\ path'[made + 1] = [via |-> "pool", of |-> t]
        BY <2>1, <3>1, MakeKeeps
      <3>3. path'[made + 1].via = "pool"
        BY <3>2
      <3>4. doing'[t].of = made + 1 /\ \A u \in Tasks : u # t => doing'[u] = doing[u]
        BY <1>2, <2>1
      <3>. QED
        BY <1>1, <3>2, <3>3, <3>4 DEF SentMade
    <2>. QED
      BY <1>4, <1>5, <2>1 DEF PublishAtOnce
  <1>6. ASSUME NEW t \in Tasks,
               \/ doing' = [doing EXCEPT ![t] = Nothing]
               \/ \E x \in Transactions :
                     doing' = [doing EXCEPT ![t] = [await |-> "exec", of |-> x]]
        PROVE  SentMade'
    <2>1. Nothing.await # "xadd"
      BY DEF Nothing
    <2>. QED
      BY <1>3, <1>6, <2>1
  <1>7. ASSUME NEW t \in Tasks, NEW x \in Transactions, Flush(t, x) PROVE SentMade'
    <2>1. \/ doing' = [doing EXCEPT ![t] = Nothing]
          \/ doing' = [doing EXCEPT ![t] = [await |-> "exec", of |-> x]]
      BY <1>7 DEF Flush
    <2>. QED
      BY <1>6, <2>1
  <1>8. ASSUME NEW t \in Tasks, Commit(t) \/ CommitOwned(t) PROVE SentMade'
    BY <1>7, <1>8, OpenTypes DEF Commit, CommitOwned
  <1>. QED
    BY <1>4, <1>5, <1>6, <1>8
       DEF Next, vars, PublishInRound, PublishBuffered, PublishOwned, Carry,
           Take, Bind, Refuse, SettleRefused, Acknowledge, XaddAnswered, Begin, BeginOwned,
           ExecAnswered, Abort, AbortOwned, Shutdown

LEMMA PlacesStep == TypeOK /\ RegInv /\ TxnInv /\ Places /\ [Next]_vars => Places'
  BY HeldMadeStep, QueuedMadeStep, SealedMadeStep, LogMadeStep, SentMadeStep
     DEF Places

-----------------------------------------------------------------------------
(* What becomes of each message and each transaction.                      *)

\* The ways a step changes what became of a transaction.
LEMMA FateSteps ==
    ASSUME TypeOK, TxnInv, [Next]_vars, NEW x \in Transactions
    PROVE  \/ fate'[x] = fate[x]
           \/ fate[x] = "none" /\ fate'[x] = "open" /\ UNCHANGED <<log, held>>
           \/ /\ fate[x] = "open" /\ UNCHANGED <<log, held>>
              /\ \/ fate'[x] = "committed" /\ held[x] = <<>>
                 \/ fate'[x] \in {"failed", "flushing", "aborted"}
           \/ /\ fate[x] = "flushing" /\ UNCHANGED held
              /\ fate'[x] \in {"committed", "failed"}
              /\ \E part \in Parts(held[x]) :
                    /\ log' = log \o part
                    /\ fate'[x] = "committed" => part = held[x]
  <1>. DEFINE Goal ==
           \/ fate'[x] = fate[x]
           \/ fate[x] = "none" /\ fate'[x] = "open" /\ UNCHANGED <<log, held>>
           \/ /\ fate[x] = "open" /\ UNCHANGED <<log, held>>
              /\ \/ fate'[x] = "committed" /\ held[x] = <<>>
                 \/ fate'[x] \in {"failed", "flushing", "aborted"}
           \/ /\ fate[x] = "flushing" /\ UNCHANGED held
              /\ fate'[x] \in {"committed", "failed"}
              /\ \E part \in Parts(held[x]) :
                    /\ log' = log \o part
                    /\ fate'[x] = "committed" => part = held[x]
  <1>1. fate \in [Transactions -> {"none", "open", "flushing", "committed",
                                   "failed", "aborted"}]
    BY DEF TypeOK
  <1>2. ASSUME NEW y \in Transactions, NEW f, fate' = [fate EXCEPT ![y] = f]
        PROVE  /\ fate'[y] = f
               /\ x # y => fate'[x] = fate[x]
    BY <1>1, <1>2
  <1>3. ASSUME NEW t \in Tasks, Begin(t) \/ BeginOwned(t) PROVE Goal
    <2>1. /\ begun < load.transactions /\ load \in Loads /\ begun \in Nat
          /\ UNCHANGED <<log, held>>
          /\ fate' = [fate EXCEPT ![begun + 1] = "open"]
      BY <1>3 DEF Begin, BeginOwned, Begun, TypeOK, NextTransaction
    <2>2. load.transactions \in 0..MaxTransactions /\ MaxTransactions \in Nat
      BY <2>1, PublisherAssumption DEF Load
    <2>3. begun + 1 \in Transactions /\ begun + 1 > begun
      BY ONLY <2>1, <2>2 DEF Transactions
    <2>4. fate[begun + 1] = "none"
      BY <2>3 DEF TxnInv
    <2>. QED
      BY <1>2, <2>1, <2>3, <2>4
  <1>4. ASSUME NEW t \in Tasks,
               Commit(t) \/ CommitOwned(t) \/ Abort(t) \/ AbortOwned(t)
        PROVE  Goal
    <2>1. PICK y \in {handle, owned[t]} :
             /\ y # 0
             /\ Flush(t, y) \/ (UNCHANGED <<log, held>>
                               /\ fate' = [fate EXCEPT ![y] = "aborted"])
      BY <1>4 DEF Commit, CommitOwned, Abort, AbortOwned
    <2>2. y \in Transactions /\ fate[y] = "open"
      BY <2>1, OpenTypes DEF TxnInv
    <2>3. CASE UNCHANGED <<log, held>> /\ fate' = [fate EXCEPT ![y] = "aborted"]
      BY <1>2, <2>2, <2>3
    <2>4. CASE Flush(t, y)
      <3>1. /\ UNCHANGED <<log, held>>
            /\ \/ held[y] = <<>> /\ fate' = [fate EXCEPT ![y] = "committed"]
               \/ fate' = [fate EXCEPT ![y] = "failed"]
               \/ fate' = [fate EXCEPT ![y] = "flushing"]
        BY <2>4 DEF Flush
      <3>. QED
        BY <1>2, <2>2, <3>1
    <2>. QED
      BY <2>1, <2>3, <2>4
  <1>5. ASSUME NEW t \in Tasks, NEW y \in Transactions, NEW block \in Parts(held[y]),
               NEW said \in {"committed", "failed"},
               ExecAnswered(t, y, block, said)
        PROVE  Goal
    <2>1. /\ doing[t].await = "exec" /\ doing[t].of = y
          /\ UNCHANGED held /\ fate' = [fate EXCEPT ![y] = said]
          /\ log' = log \o block /\ (said = "committed" => block = held[y])
      BY <1>5 DEF ExecAnswered, Succeeded
    <2>2. fate[y] = "flushing"
      BY <2>1 DEF TxnInv
    <2>. QED
      BY <1>2, <2>1, <2>2
  <1>6. CASE UNCHANGED fate
    BY <1>6
  <1>. QED
    BY <1>3, <1>4, <1>5, <1>6
       DEF Next, vars, transactions, PublishInRound, PublishBuffered,
           PublishOwned, PublishAtOnce, Carry, Take, Bind, Refuse, SettleRefused, Acknowledge,
           XaddAnswered, Shutdown

LEMMA InKept ==
    ASSUME TypeOK, [Next]_vars, NEW s \in Seq(Messages), In(s, log)
    PROVE  In(s, log')
  <1>1. /\ Len(log) \in Nat /\ Len(log') \in Nat /\ Len(log) <= Len(log')
        /\ \A i \in 1..Len(log) : log'[i] = log[i]
    BY LogSteps
  <1>2. Len(s) \in Nat /\ DOMAIN s = 1..Len(s)
    BY LenProperties
  <1>3. PICK k \in 0..Len(log) : /\ k + Len(s) <= Len(log)
                                 /\ \A i \in DOMAIN s : log[k + i] = s[i]
    BY DEF In
  <1>4. k \in 0..Len(log') /\ k + Len(s) <= Len(log')
    BY ONLY <1>1, <1>2, <1>3
  <1>5. ASSUME NEW i \in DOMAIN s PROVE log'[k + i] = s[i]
    <2>1. k + i \in 1..Len(log)
      BY ONLY <1>1, <1>2, <1>3, <1>5
    <2>. QED
      BY <1>1, <1>3, <2>1
  <1>. QED
    BY <1>4, <1>5 DEF In

\* Of a transaction only its own flush runs anything.
LEMMA NoneAdded ==
    ASSUME TypeOK, TxnInv, Places, [Next]_vars, NEW x \in Transactions,
           fate[x] # "flushing" \/ fate'[x] = fate[x]
    PROVE  Elems(held[x]) \cap Elems(log') \subseteq Elems(log)
  <1> SUFFICES ASSUME NEW m \in Elems(held[x]), m \in Elems(log'),
                      m \notin Elems(log)
               PROVE  FALSE
    OBVIOUS
  <1>1. path[m].via = "transaction" /\ path[m].of = x
    BY DEF Places, HeldMade
  <1>2. RunBy(m)
    BY LogSteps
  <1>3. CASE m \in Elems(sealed)
    BY <1>1, <1>3 DEF Places, SealedMade
  <1>4. ASSUME NEW t \in Tasks, doing[t].await = "xadd", m = doing[t].of
        PROVE  FALSE
    BY <1>1, <1>4 DEF Places, SentMade
  <1>5. ASSUME NEW t \in Tasks, doing[t].await = "exec",
               m \in Elems(held[doing[t].of]), fate'[doing[t].of] # "flushing"
        PROVE  FALSE
    <2>1. doing[t].of \in Transactions /\ fate[doing[t].of] = "flushing"
      BY <1>5, OpenTypes DEF TxnInv
    <2>2. doing[t].of = x
      BY <1>1, <1>5, <2>1 DEF Places, HeldMade
    <2>. QED
      BY <1>5, <2>1, <2>2
  <1>. QED
    BY <1>2, <1>3, <1>4, <1>5 DEF RunBy

\* A sequence put behind another is in the whole.
LEMMA InAppended ==
    ASSUME NEW g \in Seq(Messages), NEW s \in Seq(Messages)
    PROVE  In(s, g \o s)
  <1>1. /\ Len(g) \in Nat /\ Len(s) \in Nat
        /\ Len(g \o s) = Len(g) + Len(s) /\ DOMAIN s = 1..Len(s)
        /\ \A i \in 1..Len(s) : (g \o s)[Len(g) + i] = s[i]
    BY ConcatElems, LenProperties
  <1>2. Len(g) \in 0..Len(g \o s) /\ Len(g) + Len(s) <= Len(g \o s)
    BY ONLY <1>1
  <1>. QED
    BY <1>1, <1>2 DEF In

LEMMA InEmpty ==
    ASSUME NEW g \in Seq(Messages)
    PROVE  In(<<>>, g)
  <1>1. Len(<<>>) = 0 /\ DOMAIN <<>> = {} /\ Len(g) \in Nat
    BY EmptySeq, LenProperties
  <1>2. 0 \in 0..Len(g) /\ 0 + Len(<<>>) <= Len(g)
    BY ONLY <1>1
  <1>. QED
    BY <1>1, <1>2 DEF In

\* Whole of the next state.
LEMMA WholeThen ==
    ASSUME NEW x \in Transactions,
           fate'[x] = "committed" => In(held'[x], log'),
           fate'[x] = "failed" =>
              \E part \in Parts(held'[x]) : RanPart(held'[x], part, log'),
           fate'[x] \in {"none", "open", "flushing", "aborted"} =>
              Elems(held'[x]) \cap Elems(log') = {}
    PROVE  Whole(x)'
  BY DEF Whole, In, RanPart, Parts, Rising, Elems

LEMMA WholeStep ==
    ASSUME TypeOK, TxnInv, Places, [Next]_vars, NEW x \in Transactions, Whole(x)
    PROVE  Whole(x)'
  <1>0. /\ log \in Seq(Messages) /\ log' \in Seq(Messages)
        /\ held[x] \in Seq(Messages)
        /\ held \in [Transactions -> Seq(Messages)]
        /\ fate[x] \in {"none", "open", "flushing", "committed", "failed", "aborted"}
    BY Types3Step DEF TypeOK, Types3
  <1>1. ASSUME held'[x] = held[x], fate[x] # "flushing",
               Elems(held[x]) \cap Elems(log) = {}
        PROVE  Elems(held'[x]) \cap Elems(log') = {}
    BY <1>1, NoneAdded
  <1>2. CASE held'[x] = held[x] /\ fate'[x] = fate[x]
    <2>1. fate'[x] = "committed" => In(held'[x], log')
      BY <1>0, <1>2, InKept DEF Whole
    <2>2. fate'[x] \in {"none", "open", "flushing", "aborted"} =>
             Elems(held'[x]) \cap Elems(log') = {}
      BY <1>2, NoneAdded DEF Whole
    <2>3. ASSUME fate'[x] = "failed"
          PROVE  \E part \in Parts(held'[x]) : RanPart(held'[x], part, log')
      <3>1. PICK part \in Parts(held[x]) : RanPart(held[x], part, log)
        BY <1>2, <2>3 DEF Whole
      <3>2. part \in Seq(Messages)
        BY <1>0, PartOf
      <3>3. In(part, log')
        BY <3>1, <3>2, InKept DEF RanPart
      <3>4. Elems(held[x]) \cap Elems(log') \subseteq Elems(part)
        BY <1>2, <3>1, NoneAdded DEF RanPart
      <3>. QED
        BY <1>2, <3>3, <3>4 DEF RanPart
    <2>. QED
      BY <2>1, <2>2, <2>3, WholeThen
  <1>3. CASE held'[x] # held[x]
    <2>1. PICK t \in Tasks, y \in Transactions :
             /\ Make(t, [via |-> "transaction", of |-> y], "ok")
             /\ [via |-> "transaction", of |-> y] \in Path
             /\ held' = [held EXCEPT ![y] = Append(@, made + 1)]
             /\ fate[y] = "open" /\ UNCHANGED <<fate, log>>
      BY <1>3, HeldSteps
    <2>2. y = x /\ held'[x] = Append(held[x], made + 1)
      BY <1>0, <1>3, <2>1
    <2>3. made + 1 \in Messages /\ made \in Nat
      BY <2>1, MakeKeeps
    <2>4. Elems(held'[x]) = Elems(held[x]) \cup {made + 1}
      BY <1>0, <2>2, <2>3, AppendElems
    <2>5. made + 1 \notin Elems(log)
      <3>1. ~(made + 1 <= made)
        BY ONLY <2>3
      <3>. QED
        BY <3>1 DEF Places, LogMade
    <2>6. Elems(held[x]) \cap Elems(log) = {}
      BY <2>1, <2>2 DEF Whole
    <2>7. Elems(held'[x]) \cap Elems(log') = {} /\ fate'[x] = "open"
      BY <2>1, <2>2, <2>4, <2>5, <2>6
    <2>. QED
      BY <2>7, WholeThen
  <1>4. CASE held'[x] = held[x] /\ fate'[x] # fate[x]
    <2>0. <<>> \in Parts(held[x]) /\ Elems(<<>>) = {} /\ In(<<>>, log')
      BY <1>0, NothingOf, InEmpty
    <2>1. CASE \/ fate[x] = "none" /\ fate'[x] = "open"
               \/ fate[x] = "open" /\ fate'[x] \in {"flushing", "aborted"}
      <3>1. Elems(held'[x]) \cap Elems(log') = {}
        BY <1>1, <1>4, <2>1 DEF Whole
      <3>. QED
        BY <2>1, <3>1, WholeThen
    <2>2. CASE fate[x] = "open" /\ fate'[x] = "failed"
      <3>1. Elems(held'[x]) \cap Elems(log') = {}
        BY <1>1, <1>4, <2>2 DEF Whole
      <3>2. RanPart(held'[x], <<>>, log')
        BY <2>0, <3>1 DEF RanPart
      <3>. QED
        BY <1>4, <2>0, <2>2, <3>2, WholeThen
    <2>3. CASE fate'[x] = "committed" /\ held[x] = <<>>
      BY <1>4, <2>0, <2>3, WholeThen
    <2>4. CASE /\ fate[x] = "flushing" /\ fate'[x] \in {"committed", "failed"}
               /\ \E part \in Parts(held[x]) :
                     /\ log' = log \o part
                     /\ fate'[x] = "committed" => part = held[x]
      <3>1. PICK part \in Parts(held[x]) :
               /\ log' = log \o part
               /\ fate'[x] = "committed" => part = held[x]
        BY <2>4
      <3>2. part \in Seq(Messages)
        BY <1>0, PartOf
      <3>3. In(part, log') /\ Elems(log') = Elems(log) \cup Elems(part)
        BY <1>0, <3>1, <3>2, InAppended, ConcatElems
      <3>4. RanPart(held'[x], part, log')
        BY <1>4, <2>4, <3>3 DEF Whole, RanPart
      <3>5. fate'[x] = "committed" => In(held'[x], log')
        BY <1>4, <3>1, <3>3
      <3>. QED
        BY <1>4, <2>4, <3>4, <3>5, WholeThen
    <2>. QED
      BY <1>4, <2>1, <2>2, <2>3, <2>4, FateSteps
  <1>. QED
    BY <1>2, <1>3, <1>4

LEMMA HeldKept ==
    ASSUME TypeOK, TxnInv, [Next]_vars, NEW x \in Transactions
    PROVE  Elems(held[x]) \subseteq Elems(held'[x])
  <1>1. CASE UNCHANGED held
    BY <1>1 DEF Elems
  <1>2. ASSUME NEW t \in Tasks, NEW y \in Transactions,
               Make(t, [via |-> "transaction", of |-> y], "ok"),
               [via |-> "transaction", of |-> y] \in Path,
               held' = [held EXCEPT ![y] = Append(@, made + 1)]
        PROVE  Elems(held[x]) \subseteq Elems(held'[x])
    <2>1. made + 1 \in Messages
      BY <1>2, MakeKeeps
    <2>2. /\ Elems(Append(held[x], made + 1)) = Elems(held[x]) \cup {made + 1}
          /\ held \in [Transactions -> Seq(Messages)]
      BY <2>1, AppendElems DEF TypeOK
    <2>3. held'[x] = held[x] \/ held'[x] = Append(held[x], made + 1)
      BY <1>2, <2>2
    <2>. QED
      BY <2>2, <2>3 DEF Elems
  <1>. QED
    BY <1>1, <1>2, HeldSteps

LEMMA SegmentKept ==
    ASSUME TypeOK, RegInv, [Next]_vars, NEW d \in Deliveries
    PROVE  /\ Elems(segment[d]) \subseteq Elems(segment'[d])
           /\ ~Open(d) => segment'[d] = segment[d]
  <1>1. CASE UNCHANGED segment
    BY <1>1 DEF Elems
  <1>2. ASSUME NEW t \in Tasks, NEW e \in Deliveries,
               Make(t, [via |-> "round", of |-> e], "ok"),
               [via |-> "round", of |-> e] \in Path, Open(e),
               segment' = [segment EXCEPT ![e] = Append(@, made + 1)]
        PROVE  /\ Elems(segment[d]) \subseteq Elems(segment'[d])
               /\ ~Open(d) => segment'[d] = segment[d]
    <2>1. made + 1 \in Messages
      BY <1>2, MakeKeeps
    <2>2. /\ Elems(Append(segment[d], made + 1)) = Elems(segment[d]) \cup {made + 1}
          /\ segment \in [Deliveries -> Seq(Messages)]
      BY <2>1, AppendElems DEF TypeOK
    <2>3. /\ segment'[d] = segment[d] \/ segment'[d] = Append(segment[d], made + 1)
          /\ d # e => segment'[d] = segment[d]
      BY <1>2, <2>2
    <2>. QED
      BY <1>2, <2>2, <2>3 DEF Elems
  <1>. QED
    BY <1>1, <1>2, SegmentSteps

\* What the window carries leaves it to be run, or is lost.
LEMMA SealedKept ==
    ASSUME TypeOK, [Next]_vars
    PROVE  /\ Elems(sealed) \subseteq Elems(sealed') \cup Elems(log') \cup lost'
           /\ lost \subseteq lost'
  <1>1. CASE UNCHANGED <<sealed, lost>>
    BY <1>1 DEF Elems
  <1>2. ASSUME NEW t \in Tasks, NEW d \in Deliveries, NEW kept \in BOOLEAN,
               Acknowledge(t, d, kept)
        PROVE  Elems(sealed) \subseteq Elems(sealed') /\ lost \subseteq lost'
    <2>1. sealed \in Seq(Messages) /\ segment[d] \in Seq(Messages)
      BY DEF TypeOK
    <2>2. Elems(sealed) \subseteq Elems(sealed \o segment[d])
      BY <2>1, ConcatElems
    <2>3. /\ sealed' = sealed \/ sealed' = sealed \o segment[d]
          /\ lost \subseteq lost'
      BY <1>2 DEF Acknowledge
    <2>. QED
      BY <2>2, <2>3
  <1>3. ASSUME NEW runs \in BOOLEAN, Carry(runs)
        PROVE  /\ Elems(sealed) \subseteq Elems(sealed') \cup Elems(log') \cup lost'
               /\ lost \subseteq lost'
    <2>1. /\ Head(sealed) \in Messages /\ sealed' = Tail(sealed)
          /\ Elems(sealed) = {Head(sealed)} \cup Elems(Tail(sealed))
      BY <1>3, TailElems DEF Carry, TypeOK
    <2>2. Head(sealed) \in Elems(Append(log, Head(sealed)))
      BY <2>1, AppendElems DEF TypeOK
    <2>3. /\ log' = Append(log, Head(sealed)) \/ Head(sealed) \in lost'
          /\ lost \subseteq lost'
      BY <1>3 DEF Carry
    <2>. QED
      BY <2>1, <2>2, <2>3
  <1>. QED
    BY <1>1, <1>2, <1>3
       DEF Next, vars, rounds, PublishInRound, PublishBuffered, PublishOwned,
           PublishAtOnce, Take, Bind, Refuse, SettleRefused, XaddAnswered, Begin,
           BeginOwned, Flush, Commit, CommitOwned, ExecAnswered, Abort,
           AbortOwned, Shutdown

LEMMA CarriedStep ==
    ASSUME TypeOK, RegInv, Carried, [Next]_vars
    PROVE  Carried'
  <1>0. stage \in [Deliveries -> {"waiting", "held", "acked", "refused",
                             "stuck"}]
    BY DEF TypeOK
  <1>1. ASSUME NEW d \in Deliveries, stage[d] = "acked"
        PROVE  Elems(segment'[d]) \subseteq Elems(log') \cup Elems(sealed') \cup lost'
    <2>1. segment'[d] = segment[d]
      BY <1>1, SegmentKept DEF Open
    <2>2. Elems(segment[d]) \subseteq Elems(log) \cup Elems(sealed) \cup lost
      BY <1>1 DEF Carried
    <2>3. Elems(segment'[d]) = Elems(segment[d])
      BY <2>1 DEF Elems
    <2>. QED
      BY <2>2, <2>3, SealedKept, LogSteps
  <1>2. CASE \A d \in Deliveries : stage'[d] = "acked" => stage[d] = "acked"
    BY <1>1, <1>2 DEF Carried, Elems
  <1>3. ASSUME NEW t \in Tasks, NEW e \in Deliveries, NEW kept \in BOOLEAN,
               Acknowledge(t, e, kept)
        PROVE  Carried'
    <2>1. /\ stage' = [stage EXCEPT ![e] = "acked"] /\ UNCHANGED segment
          /\ sealed' = sealed \o segment[e] \/ Elems(segment[e]) \subseteq lost'
      BY <1>3 DEF Acknowledge
    <2>2. Elems(segment'[e]) \subseteq Elems(sealed') \cup lost'
      <3>1. sealed \in Seq(Messages) /\ segment[e] \in Seq(Messages)
        BY DEF TypeOK
      <3>2. sealed' = sealed \o segment[e] =>
               Elems(sealed') = Elems(sealed) \cup Elems(segment[e])
        BY <3>1, ConcatElems
      <3>3. Elems(segment'[e]) = Elems(segment[e])
        BY <2>1 DEF Elems
      <3>. QED
        BY <2>1, <3>2, <3>3
    <2>3. \A d \in Deliveries : d # e => stage'[d] = stage[d]
      BY <1>0, <2>1
    <2> SUFFICES ASSUME NEW d \in Deliveries, stage'[d] = "acked"
                 PROVE  Elems(segment'[d]) \subseteq
                           Elems(log') \cup Elems(sealed') \cup lost'
      BY DEF Carried, Elems
    <2>4. CASE d = e
      BY <2>2, <2>4
    <2>5. CASE d # e
      BY <1>1, <2>3, <2>5
    <2>. QED
      BY <2>4, <2>5
  <1>4. ASSUME NEW t \in Tasks, NEW e \in Deliveries,
               Take(t, e) \/ Refuse(t, e) \/ SettleRefused(t, e)
        PROVE  Carried'
    <2>1. \A d \in Deliveries : stage'[d] = "acked" => stage[d] = "acked"
      BY <1>0, <1>4 DEF Take, Refuse, SettleRefused
    <2>. QED
      BY <1>2, <2>1
  <1>5. CASE UNCHANGED stage
    BY <1>2, <1>5
  <1>. QED
    BY <1>3, <1>4, <1>5
       DEF Next, vars, rounds, PublishInRound, PublishBuffered, PublishOwned,
           PublishAtOnce, Bind, Carry, XaddAnswered, Begin, BeginOwned, Flush,
           Commit, CommitOwned, ExecAnswered, Abort, AbortOwned, Shutdown

\* A publish that was made is where it went, whatever its answer was.
LEMMA NewKept ==
    ASSUME TypeOK, RegInv, TxnInv, [Next]_vars
    PROVE  \/ UNCHANGED made
           \/ made' = made + 1 /\ \A m \in Messages : m = made + 1 => KeptOne(m)'
  <1>. DEFINE Goal == made' = made + 1 /\ \A m \in Messages : m = made + 1 => KeptOne(m)'
  <1>1. ASSUME NEW t \in Tasks, NEW p \in Publishers, NEW reply \in BOOLEAN,
               PublishInRound(t, p, reply)
        PROVE  Goal
    <2>1. PICK d \in Deliveries :
             /\ [via |-> "round", of |-> d] \in Path
             /\ \/ /\ Make(t, [via |-> "round", of |-> d], "ok")
                   /\ segment' = [segment EXCEPT ![d] = Append(@, made + 1)]
                \/ /\ Keeps # FALSE
                   /\ Make(t, [via |-> "round", of |-> d], "error")
      BY <1>1, JoinedRound
    <2>2. /\ made' = made + 1 /\ made + 1 \in Messages
          /\ path'[made + 1] = [via |-> "round", of |-> d]
      BY <2>1, MakeKeeps
    <2>3. path'[made + 1].via = "round" /\ path'[made + 1].of = d
      BY <2>2
    <2>4. CASE /\ Make(t, [via |-> "round", of |-> d], "ok")
               /\ segment' = [segment EXCEPT ![d] = Append(@, made + 1)]
      <3>1. answer'[made + 1] = "ok"
        BY <2>1, <2>4, MakeKeeps
      <3>2. segment'[d] = Append(segment[d], made + 1)
        BY <2>4 DEF TypeOK
      <3>3. segment[d] \in Seq(Messages)
        BY DEF TypeOK
      <3>4. made + 1 \in Elems(segment'[d])
        BY <2>2, <3>2, <3>3, AppendElems
      <3>5. made + 1 \in Elems(segment[d])'
        BY <3>4 DEF Elems
      <3>. QED
        BY <2>2, <2>3, <3>1, <3>5 DEF KeptOne
    <2>5. CASE /\ Keeps # FALSE
               /\ Make(t, [via |-> "round", of |-> d], "error")
      <3>1. answer'[made + 1] = "error"
        BY <2>1, <2>5, MakeKeeps
      <3>. QED
        BY <2>2, <2>3, <2>5, <3>1 DEF KeptOne
    <2>. QED
      BY <2>1, <2>4, <2>5
  <1>2. ASSUME NEW t \in Tasks, NEW p \in Publishers, NEW reply \in BOOLEAN,
               PublishAtOnce(t, p, reply)
        PROVE  Goal
    <2>1. PICK said \in {"none", "error"} : Make(t, [via |-> "pool", of |-> t], said)
      BY <1>2 DEF PublishAtOnce
    <2>2. [via |-> "pool", of |-> t] \in Path
      BY DEF Path
    <2>3. /\ made' = made + 1 /\ answer'[made + 1] = said
          /\ path'[made + 1] = [via |-> "pool", of |-> t]
      BY <2>1, <2>2, MakeKeeps
    <2>4. path'[made + 1].via = "pool"
      BY <2>3
    <2>. QED
      BY <2>3, <2>4 DEF KeptOne
  <1>4. ASSUME NEW t \in Tasks, NEW x \in Transactions, fate[x] = "open",
               Make(t, [via |-> "transaction", of |-> x], "ok"),
               held' = [held EXCEPT ![x] = Append(@, made + 1)], UNCHANGED fate
        PROVE  Goal
    <2>1. [via |-> "transaction", of |-> x] \in Path
      BY DEF Path
    <2>2. /\ made' = made + 1 /\ made + 1 \in Messages
          /\ path'[made + 1] = [via |-> "transaction", of |-> x]
      BY <1>4, <2>1, MakeKeeps
    <2>3. path'[made + 1].via = "transaction" /\ path'[made + 1].of = x
      BY <2>2
    <2>4. held'[x] = Append(held[x], made + 1)
      BY <1>4 DEF TypeOK
    <2>5. held[x] \in Seq(Messages)
      BY DEF TypeOK
    <2>6. made + 1 \in Elems(held'[x])
      BY <2>2, <2>4, <2>5, AppendElems
    <2>7. made + 1 \in Elems(held[x])' /\ fate'[x] # "none"
      BY <1>4, <2>6 DEF Elems
    <2>. QED
      BY <2>2, <2>3, <2>7 DEF KeptOne
  <1>5. ASSUME NEW t \in Tasks, NEW reply \in BOOLEAN, PublishBuffered(t, reply)
        PROVE  Goal
    BY <1>4, <1>5, OpenTypes DEF PublishBuffered, TxnInv
  <1>6. ASSUME NEW t \in Tasks, PublishOwned(t) PROVE Goal
    BY <1>4, <1>6, OpenTypes DEF PublishOwned, TxnInv
  <1>. QED
    BY <1>1, <1>2, <1>5, <1>6
       DEF Next, vars, publishes, Carry, Take, Bind, Refuse, SettleRefused, Acknowledge,
           XaddAnswered, Begin, BeginOwned, Flush, Commit, CommitOwned,
           ExecAnswered, Abort, AbortOwned, Shutdown

\* The only answers that come later are of XADDs, and Ok means it ran.
LEMMA AnswerSteps ==
    ASSUME TypeOK, [Next]_vars, NEW m \in Messages, m <= made
    PROVE  \/ answer'[m] = answer[m]
           \/ \E t \in Tasks :
                 /\ doing[t].await = "xadd" /\ doing[t].of = m
                 /\ answer'[m] = "ok" => m \in Elems(log')
  <1>. DEFINE Goal == \/ answer'[m] = answer[m]
                      \/ \E t \in Tasks :
                            /\ doing[t].await = "xadd" /\ doing[t].of = m
                            /\ answer'[m] = "ok" => m \in Elems(log')
  <1>1. ASSUME NEW t \in Tasks, Published(t) PROVE Goal
    <2>1. PICK how \in Path, said \in {"none", "ok", "error"} : Make(t, how, said)
      BY <1>1 DEF Published
    <2>. QED
      BY <2>1, MakeKeeps
  <1>2. ASSUME NEW t \in Tasks, NEW runs \in BOOLEAN,
               NEW said \in {"ok", "error"}, XaddAnswered(t, runs, said)
        PROVE  Goal
    <2>1. /\ doing[t].await = "xadd"
          /\ said = "ok" => runs
          /\ log' = IF runs THEN Append(log, doing[t].of) ELSE log
          /\ answer' = [answer EXCEPT ![doing[t].of] = said]
      BY <1>2 DEF XaddAnswered
    <2>2. CASE doing[t].of # m
      BY <2>1, <2>2 DEF TypeOK
    <2>3. CASE doing[t].of = m
      <3>1. answer'[m] = said
        BY <2>1, <2>3 DEF TypeOK
      <3>2. said = "ok" => m \in Elems(log')
        <4>1. log \in Seq(Messages)
          BY DEF TypeOK
        <4>2. m \in Elems(Append(log, m))
          BY <4>1, AppendElems
        <4>. QED
          BY <2>1, <2>3, <4>2
      <3>. QED
        BY <2>1, <2>3, <3>1, <3>2
    <2>. QED
      BY <2>2, <2>3
  <1>3. CASE UNCHANGED answer
    BY <1>3
  <1>4. UNCHANGED publishes => UNCHANGED answer
    BY DEF publishes
  <1>. QED
    BY <1>1, <1>2, <1>3, <1>4, MessagesOnce

LEMMA KeptStep ==
    ASSUME TypeOK, RegInv, TxnInv, Places, Kept, [Next]_vars
    PROVE  Kept'
  <1>1. ASSUME NEW m \in Messages, m <= made PROVE KeptOne(m)'
    <2>1. path'[m] = path[m] /\ path[m] \in Path
      BY <1>1, MadeKept DEF TypeOK
    <2>2. KeptOne(m)
      BY <1>1 DEF Kept
    <2>3. ASSUME NEW t \in Tasks, doing[t].await = "xadd", doing[t].of = m
          PROVE  path[m].via = "pool"
      BY <2>3 DEF Places, SentMade
    <2>4. answer'[m] = answer[m] \/
          (path[m].via = "pool" /\ (answer'[m] = "ok" => m \in Elems(log')))
      BY <1>1, <2>3, AnswerSteps
    <2>5. CASE path[m].via = "pool"
      <3>1. answer'[m] = "ok" => m \in Elems(log')
        BY <2>2, <2>4, <2>5, LogSteps DEF KeptOne
      <3>2. answer'[m] = "ok" => m \in Elems(log)'
        BY <3>1 DEF Elems
      <3>. QED
        BY <2>1, <2>5, <3>2 DEF KeptOne
    <2>6. CASE path[m].via = "transaction"
      <3>1. path[m].of \in Transactions
        BY <2>1, <2>6 DEF Path
      <3>2. m \in Elems(held[path[m].of]) /\ fate[path[m].of] # "none"
        BY <2>2, <2>6 DEF KeptOne
      <3>3. m \in Elems(held'[path[m].of])
        BY <3>1, <3>2, HeldKept
      <3>4. fate'[path[m].of] # "none"
        BY <3>1, <3>2, FateSteps
      <3>5. m \in Elems(held[path[m].of])' /\ fate'[path'[m].of] # "none"
        BY <2>1, <3>3, <3>4 DEF Elems
      <3>. QED
        BY <2>1, <2>6, <3>5 DEF KeptOne
    <2>7. CASE path[m].via = "round"
      <3>1. path[m].of \in Deliveries
        BY <2>1, <2>7 DEF Path
      <3>2. answer'[m] = answer[m]
        BY <2>4, <2>7
      <3>3. answer[m] = "ok" => m \in Elems(segment'[path[m].of])
        BY <2>2, <2>7, <3>1, SegmentKept DEF KeptOne
      <3>4. answer'[m] = "ok" => m \in Elems(segment[path[m].of])'
        BY <2>1, <3>2, <3>3 DEF Elems
      <3>5. Keeps = FALSE => answer'[m] = "ok"
        BY <2>2, <2>7, <3>2 DEF KeptOne
      <3>. QED
        BY <2>1, <2>7, <3>4, <3>5 DEF KeptOne
    <2>. QED
      BY <2>2, <2>5, <2>6, <2>7 DEF KeptOne
  <1>2. CASE UNCHANGED made
    BY <1>1, <1>2 DEF Kept
  <1>3. CASE /\ made' = made + 1
             /\ \A m \in Messages : m = made + 1 => KeptOne(m)'
    <2>1. \A m \in Messages : m <= made' => m <= made \/ m = made + 1
      BY <1>3, PublisherAssumption DEF TypeOK, Messages
    <2>. QED
      BY <1>1, <1>3, <2>1 DEF Kept
  <1>. QED
    BY <1>2, <1>3, NewKept

-----------------------------------------------------------------------------
(* The theorems.                                                           *)

Inv == /\ TypeOK /\ RegInv /\ TxnInv /\ Places /\ Kept /\ Carried
       /\ \A x \in Transactions : Whole(x)

LEMMA InitInv == Init => Inv
  <1> SUFFICES ASSUME Init PROVE Inv
    OBVIOUS
  <1>1. TypeOK /\ RegInv
    BY InitTypes, InitReg
  <1>2. \A m \in Messages : ~(m <= 0)
    BY PublisherAssumption DEF Messages
  <1>3. /\ made = 0 /\ log = <<>> /\ sealed = <<>> /\ begun = 0 /\ handle = 0
        /\ held = [x \in Transactions |-> <<>>]
        /\ segment = [d \in Deliveries |-> <<>>]
        /\ owned = [t \in Tasks |-> 0] /\ doing = [t \in Tasks |-> Nothing]
        /\ fate = [x \in Transactions |-> "none"]
        /\ stage = [d \in Deliveries |-> "waiting"]
    BY DEF Init
  <1>4. Elems(<<>>) = {}
    BY EmptySeq DEF Elems
  <1>5. Nothing.await = "nothing"
    BY DEF Nothing
  <1>6. TxnInv
    BY <1>3, <1>5 DEF TxnInv
  <1>7. HeldMade /\ QueuedMade /\ SealedMade /\ LogMade
    BY <1>3, <1>4 DEF HeldMade, QueuedMade, SealedMade, LogMade
  <1>8. SentMade
    BY <1>3, <1>5 DEF SentMade
  <1>9. Kept /\ Carried
    BY <1>2, <1>3, <1>4 DEF Kept, Carried
  <1>10. \A x \in Transactions : Whole(x)
    BY <1>3, <1>4 DEF Whole
  <1>. QED
    BY <1>1, <1>6, <1>7, <1>8, <1>9, <1>10 DEF Inv, Places

LEMMA InvStep == Inv /\ [Next]_vars => Inv'
  <1> SUFFICES ASSUME Inv, [Next]_vars PROVE Inv'
    OBVIOUS
  <1>1. /\ TypeOK /\ RegInv /\ TxnInv /\ Places /\ Kept /\ Carried
        /\ \A x \in Transactions : Whole(x)
    BY DEF Inv
  <1>2. TypeOK' /\ RegInv' /\ TxnInv' /\ Places'
    BY <1>1, TypeStep, RegStep, TxnStep, PlacesStep
  <1>3. Kept' /\ Carried'
    BY <1>1, KeptStep, CarriedStep
  <1>4. \A x \in Transactions : Whole(x)'
    BY <1>1, WholeStep
  <1>. QED
    BY <1>2, <1>3, <1>4 DEF Inv, Transactions

LEMMA Invariant == Spec => []Inv
  BY InitInv, InvStep, PTL DEF Spec

\* WholeOrNothing is an invariant: what a commit runs is contiguous in what the
\* server ran, whatever tasks publish beside the commit, whichever of its
\* commands fail and whichever of the answers is lost, and it is the whole when
\* the commit returned Ok.  It needs that a transaction is one task's to flush.
THEOREM AllOrNone == Spec => []WholeOrNothing
  <1>1. Inv => WholeOrNothing
    <2> SUFFICES ASSUME Inv, NEW x \in Transactions
                 PROVE  CASE fate[x] = "committed" -> Together(held[x])
                          [] fate[x] = "failed"    ->
                                \E part \in Parts(held[x]) : RanOf(held[x], part)
                          [] OTHER                 -> Absent(held[x])
      BY DEF WholeOrNothing
    <2>1. /\ Whole(x)
          /\ fate[x] \in {"none", "open", "flushing", "committed", "failed", "aborted"}
      BY DEF Inv, TypeOK
    <2>2. CASE fate[x] = "committed"
      BY <2>1, <2>2 DEF Whole, In, Together
    <2>3. CASE fate[x] = "failed"
      BY <2>1, <2>3 DEF Whole, RanPart, RanOf, In, Together
    <2>4. CASE fate[x] \in {"none", "open", "flushing", "aborted"}
      BY <2>1, <2>4 DEF Whole, Absent
    <2>. QED
      BY <2>1, <2>2, <2>3, <2>4
  <1>. QED
    BY <1>1, Invariant, PTL

\* OkIsKept is an invariant: a publish that returned Ok is run or waits in
\* its buffer, its round or the window, or what it waited in was given up, or
\* it is a command the window lost.
THEOREM NothingLost == Spec => []OkIsKept
  <1>1. Inv => OkIsKept
    <2> SUFFICES ASSUME Inv, NEW m \in 1..made, answer[m] = "ok"
                 PROVE  \/ m \in Elems(log) \cup Elems(sealed)
                        \/ /\ path[m].via = "transaction"
                           /\ fate[path[m].of] \in {"open", "flushing", "aborted", "failed"}
                        \/ /\ path[m].via = "round"
                           /\ stage[path[m].of] = "acked" => m \in lost
      BY DEF OkIsKept
    <2>1. m \in Messages /\ m <= made
      <3>1. made \in 0..MaxMessages /\ MaxMessages \in Nat
        BY PublisherAssumption DEF Inv, TypeOK
      <3>. QED
        BY ONLY <3>1, m \in 1..made DEF Messages
    <2>2. KeptOne(m) /\ path[m] \in Path
      BY <2>1 DEF Inv, Kept, TypeOK
    <2>3. CASE path[m].via = "pool"
      BY <2>2, <2>3 DEF KeptOne
    <2>4. CASE path[m].via = "transaction"
      <3>. DEFINE x == path[m].of
      <3>1. x \in Transactions
        BY <2>2, <2>4 DEF Path
      <3>2. m \in Elems(held[x]) /\ fate[x] # "none"
        BY <2>2, <2>4 DEF KeptOne
      <3>3. fate[x] \in {"open", "flushing", "committed", "failed", "aborted"}
        BY <3>1, <3>2 DEF Inv, TypeOK
      <3>4. CASE fate[x] = "committed"
        <4>1. In(held[x], log)
          BY <3>1, <3>4 DEF Inv, Whole
        <4>2. /\ Len(log) \in Nat /\ DOMAIN log = 1..Len(log)
              /\ Len(held[x]) \in Nat /\ DOMAIN held[x] = 1..Len(held[x])
          <5>1. log \in Seq(Messages) /\ held[x] \in Seq(Messages)
            BY <3>1 DEF Inv, TypeOK
          <5>. QED
            BY <5>1, LenProperties
        <4>3. PICK k \in 0..Len(log) :
                 /\ k + Len(held[x]) <= Len(log)
                 /\ \A i \in DOMAIN held[x] : log[k + i] = held[x][i]
          BY <4>1 DEF In
        <4>4. PICK i \in DOMAIN held[x] : held[x][i] = m
          BY <3>2 DEF Elems
        <4>5. k + i \in 1..Len(log)
          BY ONLY <4>2, <4>3, <4>4
        <4>6. log[k + i] = m
          BY <4>3, <4>4
        <4>7. m \in Elems(log)
          BY <4>2, <4>5, <4>6 DEF Elems
        <4>. QED
          BY <4>7
      <3>. QED
        BY <2>4, <3>3, <3>4
    <2>5. CASE path[m].via = "round"
      <3>1. path[m].of \in Deliveries
        BY <2>2, <2>5 DEF Path
      <3>2. m \in Elems(segment[path[m].of])
        BY <2>2, <2>5 DEF KeptOne
      <3>3. CASE stage[path[m].of] = "acked"
        BY <2>5, <3>1, <3>2, <3>3 DEF Inv, Carried
      <3>. QED
        BY <2>5, <3>3
    <2>. QED
      BY <2>2, <2>3, <2>4, <2>5 DEF KeptOne
  <1>. QED
    BY <1>1, Invariant, PTL

\* NoStaleRound is an invariant where no handler keeps its pipeline past the
\* delivery: every entry of the registry is of an open delivery.
THEOREM NoneStale == ASSUME Keeps = FALSE PROVE Spec => []NoStaleRound
  <1>1. Inv => NoStaleRound
    <2> SUFFICES ASSUME Inv, NEW m \in 1..made, path[m].via = "round"
                 PROVE  answer[m] = "ok"
      BY DEF NoStaleRound
    <2>1. m \in Messages /\ m <= made
      <3>1. made \in 0..MaxMessages /\ MaxMessages \in Nat
        BY PublisherAssumption DEF Inv, TypeOK
      <3>. QED
        BY ONLY <3>1, m \in 1..made DEF Messages
    <2>. QED
      BY <2>1 DEF Inv, Kept, KeptOne
  <1>. QED
    BY <1>1, Invariant, PTL

-----------------------------------------------------------------------------
(* The order of a round's commands.                                        *)

\* Messages of one round, by their paths p: in order in s, and in s before t.
InOrder(p, s) == \A j, k \in DOMAIN s :
    j < k /\ p[s[j]].via = "round" /\ p[s[j]] = p[s[k]] => s[j] < s[k]
Ahead(p, s, t) == \A j \in DOMAIN s, k \in DOMAIN t :
    p[s[j]].via = "round" /\ p[s[j]] = p[t[k]] => s[j] < t[k]

\* The same sequence with messages of no round behind it.
Extends(p, s, g) == \A i \in DOMAIN g :
    (i \in DOMAIN s /\ g[i] = s[i]) \/ p[g[i]].via # "round"

Ordered == /\ InOrder(path, log) /\ InOrder(path, sealed)
           /\ Ahead(path, log, sealed)
           /\ \A d \in Deliveries : InOrder(path, segment[d])
\* What left with a round was queued by it, and it is acknowledged.
AckedOnly == \A m \in Elems(log) \cup Elems(sealed) \cup lost :
    path[m].via = "round" =>
       stage[path[m].of] = "acked" /\ m \in Elems(segment[path[m].of])
QueuedOk == \A d \in Deliveries : \A m \in Elems(segment[d]) : answer[m] = "ok"
\* What is lost was a command of a round, and is nowhere else.
LostMade == \A m \in lost : m <= made /\ path[m].via = "round"
LostApart == lost \cap (Elems(log) \cup Elems(sealed)) = {}
\* Only the shutdown refuses a settle.
StuckClosed == \A d \in Deliveries : stage[d] = "stuck" => closed
OrderInv == /\ Ordered /\ AckedOnly /\ QueuedOk
            /\ LostMade /\ LostApart /\ StuckClosed

LEMMA InOrderKept ==
    ASSUME NEW p, NEW q, NEW s, NEW g, InOrder(p, s), Extends(q, s, g),
           \A m \in Elems(s) : q[m] = p[m]
    PROVE  InOrder(q, g)
  <1>1. \A i \in DOMAIN s : q[s[i]] = p[s[i]]
    BY DEF Elems
  <1>. QED
    BY <1>1 DEF InOrder, Extends

LEMMA AheadKept ==
    ASSUME NEW p, NEW q, NEW s, NEW g, NEW t, Ahead(p, s, t), Extends(q, s, g),
           \A m \in Elems(s) \cup Elems(t) : q[m] = p[m]
    PROVE  Ahead(q, g, t)
  <1>1. /\ \A i \in DOMAIN s : q[s[i]] = p[s[i]]
        /\ \A i \in DOMAIN t : q[t[i]] = p[t[i]]
    BY DEF Elems
  <1>. QED
    BY <1>1 DEF Ahead, Extends

\* What is run, sealed or queued keeps its path.
LEMMA PathsKept ==
    ASSUME TypeOK, Places, LostMade, [Next]_vars
    PROVE  /\ \A m \in Elems(log) \cup Elems(sealed) \cup lost :
                 m \in Messages /\ m <= made /\ path'[m] = path[m]
           /\ \A d \in Deliveries : \A m \in Elems(segment[d]) :
                 m \in Messages /\ m <= made /\ path'[m] = path[m]
  <1>1. ASSUME NEW m \in Elems(log) \cup Elems(sealed) \cup lost
        PROVE  m \in Messages /\ m <= made
    BY ElemsOf DEF TypeOK, Places, LogMade, SealedMade, LostMade
  <1>2. ASSUME NEW d \in Deliveries, NEW m \in Elems(segment[d])
        PROVE  m \in Messages /\ m <= made
    BY ElemsOf DEF TypeOK, Places, QueuedMade
  <1>. QED
    BY <1>1, <1>2, MadeKept

\* Beside the window the server runs messages of no round.
LEMMA LogExtends ==
    ASSUME TypeOK, Places, [Next]_vars, ~\E runs \in BOOLEAN : Carry(runs)
    PROVE  Extends(path', log, log')
  <1>1. log \in Seq(Messages) /\ DOMAIN log = 1..Len(log) /\ Len(log) \in Nat
    BY LenProperties DEF TypeOK
  <1>2. CASE UNCHANGED log
    BY <1>2 DEF Extends
  <1>3. ASSUME NEW t \in Tasks, NEW runs \in BOOLEAN,
               NEW said \in {"ok", "error"}, XaddAnswered(t, runs, said)
        PROVE  Extends(path', log, log')
    <2>. DEFINE m == doing[t].of
    <2>1. m \in Messages /\ path'[m].via # "round"
      BY <1>3, OpenTypes DEF XaddAnswered, Places, SentMade
    <2>2. CASE log' = Append(log, m)
      <3>1. /\ Len(log') = Len(log) + 1 /\ log'[Len(log) + 1] = m
            /\ \A i \in 1..Len(log) : log'[i] = log[i]
            /\ DOMAIN log' = 1..(Len(log) + 1)
        BY <1>1, <2>1, <2>2, AppendProperties, LenProperties
      <3>2. \A i \in 1..(Len(log) + 1) : i \in 1..Len(log) \/ i = Len(log) + 1
        BY <1>1
      <3>. QED
        BY <1>1, <2>1, <3>1, <3>2 DEF Extends
    <2>. QED
      BY <1>2, <1>3, <2>2 DEF XaddAnswered
  <1>4. ASSUME NEW t \in Tasks, NEW x \in Transactions, NEW block \in Parts(held[x]),
               NEW said \in {"committed", "failed"}, ExecAnswered(t, x, block, said)
        PROVE  Extends(path', log, log')
    <2>1. path' = path /\ log' = log \o block
      BY <1>4 DEF ExecAnswered, publishes
    <2>2. block \in Seq(Messages) /\ Elems(block) \subseteq Elems(held[x])
      BY PartOf DEF TypeOK
    <2>3. Len(block) \in Nat /\ DOMAIN block = 1..Len(block)
      BY <2>2, LenProperties
    <2>4. \A i \in 1..Len(block) : path'[block[i]].via # "round"
      BY <2>1, <2>2, <2>3 DEF Places, HeldMade, Elems
    <2>. QED
      <3>1. DOMAIN log' = 1..(Len(log) + Len(block))
            /\ \A i \in 1..(Len(log) + Len(block)) :
                  log'[i] = IF i <= Len(log) THEN log[i] ELSE block[i - Len(log)]
        BY <1>1, <2>1, <2>2, <2>3, ConcatProperties, LenProperties
      <3>2. \A i \in 1..(Len(log) + Len(block)) :
               IF i <= Len(log) THEN i \in 1..Len(log)
               ELSE i - Len(log) \in 1..Len(block)
        BY ONLY <1>1, <2>3
      <3>. QED
        BY <1>1, <2>4, <3>1, <3>2 DEF Extends
  <1>. QED
    BY <1>2, <1>3, <1>4
       DEF Next, vars, PublishInRound, PublishBuffered, PublishOwned,
           PublishAtOnce, Take, Bind, Refuse, SettleRefused, Acknowledge, Begin, BeginOwned,
           Flush, Commit, CommitOwned, Abort, AbortOwned, Shutdown

LEMMA SegmentsInOrder ==
    ASSUME TypeOK, RegInv, Places, LostMade, Ordered, [Next]_vars,
           NEW e \in Deliveries
    PROVE  InOrder(path', segment'[e])
  <1>1. segment[e] \in Seq(Messages) /\ Len(segment[e]) \in Nat
        /\ DOMAIN segment[e] = 1..Len(segment[e])
    BY LenProperties DEF TypeOK
  <1>2. \A m \in Elems(segment[e]) :
           m \in Messages /\ m <= made /\ path'[m] = path[m]
    BY PathsKept
  <1>3. InOrder(path, segment[e])
    BY DEF Ordered
  <1>4. CASE segment'[e] = segment[e]
    BY <1>2, <1>3, <1>4, InOrderKept DEF Extends
  <1>5. ASSUME NEW t \in Tasks, NEW d \in Deliveries,
               Make(t, [via |-> "round", of |-> d], "ok"),
               [via |-> "round", of |-> d] \in Path,
               segment' = [segment EXCEPT ![d] = Append(@, made + 1)]
        PROVE  InOrder(path', segment'[e])
    <2>1. made + 1 \in Messages /\ made \in Nat
      BY <1>5, MakeKeeps
    <2>2. CASE e = d
      <3>. DEFINE s == segment[e]
                  g == segment'[e]
                  n == Len(segment[e])
      <3>1. g = Append(s, made + 1)
        BY <1>5, <2>2 DEF TypeOK
      <3>2. /\ DOMAIN g = 1..(n + 1) /\ g[n + 1] = made + 1
            /\ \A i \in 1..n : g[i] = s[i]
        BY <1>1, <2>1, <3>1, AppendProperties, LenProperties
      <3>3. \A i \in 1..n : /\ s[i] \in Messages /\ s[i] <= made
                            /\ path'[s[i]] = path[s[i]]
        BY <1>1, <1>2 DEF Elems
      <3>4. \A m \in Messages : m <= made => m < made + 1
        BY <2>1 DEF Messages
      <3>. HIDE DEF s, g
      <3>5. InOrder(path, s) /\ DOMAIN s = 1..n /\ n \in Nat
        BY <1>1, <1>3 DEF s
      <3>. HIDE DEF n
      <3>6. \A j, k \in 1..(n + 1) : j < k =>
               j \in 1..n /\ (k \in 1..n \/ k = n + 1)
        BY <3>5
      <3>7. InOrder(path', g)
        BY <3>2, <3>3, <3>4, <3>5, <3>6 DEF InOrder
      <3>. QED
        BY <3>7 DEF g
    <2>. QED
      BY <1>4, <1>5, <2>2 DEF TypeOK
  <1>. QED
    BY <1>4, <1>5, SegmentSteps

\* The head of the window is run or lost: the order of the rest stays.
LEMMA CarryOrdered ==
    ASSUME TypeOK, Places, Ordered, [Next]_vars,
           NEW runs \in BOOLEAN, Carry(runs)
    PROVE  InOrder(path', log') /\ InOrder(path', sealed')
           /\ Ahead(path', log', sealed')
  <1>. DEFINE l == log
              s == sealed
              n == Len(log)
              g == Append(log, Head(sealed))
              t == Tail(sealed)
  <1>1. /\ s \in Seq(Messages) /\ s # <<>> /\ l \in Seq(Messages)
        /\ log' = g \/ log' = l
        /\ sealed' = t /\ path' = path
    BY DEF Carry, TypeOK, publishes
  <1>2. /\ Len(s) \in Nat /\ Len(s) # 0 /\ DOMAIN s = 1..Len(s)
        /\ Head(s) = s[1] /\ s[1] \in Messages
        /\ DOMAIN t = 1..(Len(s) - 1)
        /\ \A i \in 1..(Len(s) - 1) : t[i] = s[i + 1]
    BY <1>1, HeadTailProperties, LenProperties, EmptySeq
  <1>3. /\ n \in Nat /\ DOMAIN l = 1..n /\ DOMAIN g = 1..(n + 1)
        /\ \A i \in 1..n : g[i] = l[i]
        /\ g[n + 1] = s[1]
    BY <1>1, <1>2, AppendProperties, LenProperties
  <1>4. InOrder(path, l) /\ InOrder(path, s) /\ Ahead(path, l, s)
    BY DEF Ordered
  <1>. HIDE DEF l, s, n, g, t
  <1>5. 1 \in DOMAIN s /\ \A i \in 1..(Len(s) - 1) : i + 1 \in DOMAIN s /\ 1 < i + 1
    BY <1>2
  <1>6. InOrder(path, t)
    <2> SUFFICES ASSUME NEW j \in 1..(Len(s) - 1), NEW k \in 1..(Len(s) - 1), j < k,
                        path[t[j]].via = "round", path[t[j]] = path[t[k]]
                 PROVE  t[j] < t[k]
      BY <1>2 DEF InOrder
    <2>1. j + 1 \in DOMAIN s /\ k + 1 \in DOMAIN s /\ j + 1 < k + 1
      BY <1>2, <1>5
    <2>2. t[j] = s[j + 1] /\ t[k] = s[k + 1]
      BY <1>2
    <2>. QED
      BY <1>4, <2>1, <2>2 DEF InOrder
  <1>7. \A j \in 1..(n + 1) : j \in 1..n \/ j = n + 1
    BY <1>3
  <1>8. InOrder(path, g)
    <2>1. \A j, k \in 1..(n + 1) : j < k => j \in 1..n
      BY <1>3
    <2>. QED
      BY <1>3, <1>4, <1>5, <1>7, <2>1 DEF InOrder, Ahead
  <1>9. Ahead(path, g, t)
    <2> SUFFICES ASSUME NEW j \in 1..(n + 1), NEW k \in 1..(Len(s) - 1),
                        path[g[j]].via = "round", path[g[j]] = path[t[k]]
                 PROVE  g[j] < t[k]
      BY <1>2, <1>3 DEF Ahead
    <2>1. k + 1 \in DOMAIN s /\ t[k] = s[k + 1]
      BY <1>2, <1>5
    <2>2. CASE j \in 1..n
      BY <1>3, <1>4, <2>1, <2>2 DEF Ahead
    <2>3. CASE j = n + 1
      BY <1>3, <1>4, <1>5, <2>1, <2>3 DEF InOrder
    <2>. QED
      BY <1>7, <2>2, <2>3
  <1>10. Ahead(path, l, t)
    BY <1>2, <1>4, <1>5 DEF Ahead
  <1>. QED
    BY <1>1, <1>4, <1>6, <1>8, <1>9, <1>10

\* An ack puts a round behind those that are sealed; none of it left before.
LEMMA AcknowledgeOrdered ==
    ASSUME TypeOK, Places, Ordered, AckedOnly, [Next]_vars,
           NEW t \in Tasks, NEW d \in Deliveries, NEW kept \in BOOLEAN,
           Acknowledge(t, d, kept)
    PROVE  InOrder(path', log') /\ InOrder(path', sealed')
           /\ Ahead(path', log', sealed')
  <1>. DEFINE l == log
              s == sealed
              q == segment[d]
              g == sealed \o segment[d]
  <1>1. /\ s \in Seq(Messages) /\ q \in Seq(Messages)
        /\ log' = l /\ path' = path /\ stage[d] # "acked"
        /\ sealed' = g \/ sealed' = s
    BY DEF Acknowledge, TypeOK, publishes, Handles
  <1>2. /\ Len(s) \in Nat /\ DOMAIN s = 1..Len(s)
        /\ Len(q) \in Nat /\ DOMAIN q = 1..Len(q)
        /\ DOMAIN g = 1..(Len(s) + Len(q))
        /\ \A i \in 1..(Len(s) + Len(q)) :
              g[i] = IF i <= Len(s) THEN s[i] ELSE q[i - Len(s)]
    BY <1>1, ConcatProperties, LenProperties
  <1>3. InOrder(path, l) /\ InOrder(path, s) /\ Ahead(path, l, s)
        /\ InOrder(path, q)
    BY DEF Ordered
  <1>4. \A i \in DOMAIN q : path[q[i]].via = "round" /\ path[q[i]].of = d
    BY DEF Places, QueuedMade, Elems
  <1>5. /\ \A i \in DOMAIN l : path[l[i]].via = "round" => path[l[i]].of # d
        /\ \A i \in DOMAIN s : path[s[i]].via = "round" => path[s[i]].of # d
    BY <1>1 DEF AckedOnly, Elems
  <1>. HIDE DEF l, s, q, g
  <1>6. \A i \in DOMAIN g :
           \/ i \in DOMAIN s /\ g[i] = s[i]
           \/ i - Len(s) \in DOMAIN q /\ g[i] = q[i - Len(s)]
    BY <1>2
  <1>7. InOrder(path, g)
    <2> SUFFICES ASSUME NEW j \in DOMAIN g, NEW k \in DOMAIN g, j < k,
                        path[g[j]].via = "round", path[g[j]] = path[g[k]]
                 PROVE  g[j] < g[k]
      BY DEF InOrder
    <2>1. CASE j <= Len(s) /\ k <= Len(s)
      BY <1>2, <1>3, <2>1 DEF InOrder
    <2>2. CASE ~(j <= Len(s)) /\ ~(k <= Len(s))
      <3>1. /\ j - Len(s) \in DOMAIN q /\ k - Len(s) \in DOMAIN q
            /\ j - Len(s) < k - Len(s)
        BY <1>2, <2>2
      <3>2. g[j] = q[j - Len(s)] /\ g[k] = q[k - Len(s)]
        BY <1>2, <2>2
      <3>. QED
        BY <1>3, <3>1, <3>2 DEF InOrder
    <2>3. CASE j <= Len(s) /\ ~(k <= Len(s))
      <3>1. /\ j \in DOMAIN s /\ g[j] = s[j]
            /\ k - Len(s) \in DOMAIN q /\ g[k] = q[k - Len(s)]
        BY <1>2, <2>3
      <3>. QED
        BY <1>4, <1>5, <3>1
    <2>4. CASE ~(j <= Len(s)) /\ k <= Len(s)
      BY <1>2, <2>4
    <2>. QED
      BY <2>1, <2>2, <2>3, <2>4
  <1>8. Ahead(path, l, g)
    BY <1>3, <1>4, <1>5, <1>6 DEF Ahead
  <1>. QED
    BY <1>1, <1>3, <1>7, <1>8

LEMMA OrderedStep ==
    ASSUME TypeOK, RegInv, Places, LostMade, Ordered, AckedOnly, [Next]_vars
    PROVE  Ordered'
  <1>1. \A d \in Deliveries : InOrder(path', segment'[d])
    BY SegmentsInOrder
  <1>2. ASSUME NEW runs \in BOOLEAN, Carry(runs) PROVE Ordered'
    BY <1>1, <1>2, CarryOrdered DEF Ordered
  <1>3. ASSUME NEW t \in Tasks, NEW d \in Deliveries, NEW kept \in BOOLEAN,
               Acknowledge(t, d, kept)
        PROVE  Ordered'
    BY <1>1, <1>3, AcknowledgeOrdered DEF Ordered
  <1>4. CASE (~\E runs \in BOOLEAN : Carry(runs)) /\ UNCHANGED sealed
    <2>1. Extends(path', log, log')
      BY <1>4, LogExtends
    <2>2. \A m \in Elems(log) \cup Elems(sealed) : path'[m] = path[m]
      BY PathsKept
    <2>3. Extends(path', sealed, sealed)
      BY DEF Extends
    <2>4. InOrder(path, log) /\ InOrder(path, sealed) /\ Ahead(path, log, sealed)
      BY DEF Ordered
    <2>5. InOrder(path', log') /\ Ahead(path', log', sealed)
      BY <2>1, <2>2, <2>4, InOrderKept, AheadKept
    <2>6. InOrder(path', sealed)
      BY <2>2, <2>3, <2>4, InOrderKept
    <2>. QED
      BY <1>1, <1>4, <2>5, <2>6 DEF Ordered
  <1>. QED
    BY <1>2, <1>3, <1>4
       DEF Next, vars, rounds, PublishInRound, PublishBuffered, PublishOwned,
           PublishAtOnce, Take, Bind, Refuse, SettleRefused, XaddAnswered, Begin,
           BeginOwned, Flush, Commit, CommitOwned, ExecAnswered, Abort,
           AbortOwned, Shutdown

\* What an ack takes out of its segment is of its round.
LEMMA AckedGood ==
    ASSUME TypeOK, RegInv, Places, LostMade, [Next]_vars,
           NEW t \in Tasks, NEW d \in Deliveries, NEW kept \in BOOLEAN,
           Acknowledge(t, d, kept), NEW m \in Elems(segment[d])
    PROVE  /\ path'[m].via = "round"
           /\ stage'[path'[m].of] = "acked" /\ m \in Elems(segment'[path'[m].of])
  <1>1. path[m].of = d /\ path[m].via = "round" /\ path'[m] = path[m]
    BY PathsKept DEF Places, QueuedMade
  <1>2. stage'[d] = "acked"
    BY DEF Acknowledge, TypeOK
  <1>. QED
    BY <1>1, <1>2, SegmentKept

\* Only the window and the ack of a block lose commands.
LEMMA LostSteps ==
    ASSUME [Next]_vars
    PROVE  \/ UNCHANGED <<lost, sealed>>
           \/ \E runs \in BOOLEAN : Carry(runs)
           \/ \E t \in Tasks, d \in Deliveries, kept \in BOOLEAN :
                 Acknowledge(t, d, kept)
  BY DEF Next, vars, rounds, PublishInRound, PublishBuffered, PublishOwned,
         PublishAtOnce, Take, Bind, Refuse, SettleRefused, XaddAnswered, Begin,
         BeginOwned, Flush, Commit, CommitOwned, ExecAnswered, Abort,
         AbortOwned, Shutdown

LEMMA AckedOnlyStep ==
    ASSUME TypeOK, RegInv, Places, LostMade, AckedOnly, [Next]_vars
    PROVE  AckedOnly'
  <1>. DEFINE Good(m) == path'[m].via = "round" =>
                  stage'[path'[m].of] = "acked" /\ m \in Elems(segment'[path'[m].of])
  <1>1. \A d \in Deliveries : stage[d] = "acked" => stage'[d] = "acked"
    <2>1. ASSUME NEW t \in Tasks, NEW d \in Deliveries,
                 \/ Take(t, d) \/ Refuse(t, d) \/ SettleRefused(t, d)
                 \/ \E kept \in BOOLEAN : Acknowledge(t, d, kept)
          PROVE  \A e \in Deliveries : stage[e] = "acked" => stage'[e] = "acked"
      <3>1. stage[d] # "acked" /\ \E x : stage' = [stage EXCEPT ![d] = x]
        BY <2>1 DEF Take, Acknowledge, Refuse, SettleRefused, Handles
      <3>. QED
        BY <3>1 DEF TypeOK
    <2>. QED
      BY <2>1
         DEF Next, vars, rounds, PublishInRound, PublishBuffered, PublishOwned,
             PublishAtOnce, Bind, Carry, XaddAnswered, Begin, BeginOwned, Flush,
             Commit, CommitOwned, ExecAnswered, Abort, AbortOwned, Shutdown
  <1>2. ASSUME NEW m \in Elems(log) \cup Elems(sealed) \cup lost PROVE Good(m)
    <2>1. m \in Messages /\ path'[m] = path[m]
      BY PathsKept
    <2>2. path[m].via = "round" => path[m].of \in Deliveries
      <3>1. path[m] \in Path
        BY <2>1 DEF TypeOK
      <3>. QED
        BY <3>1 DEF Path
    <2>. QED
      BY <1>1, <2>1, <2>2, SegmentKept DEF AckedOnly
  <1>3. ASSUME NEW m \in Elems(log') PROVE Good(m)
    <2>1. ASSUME NEW t \in Tasks, doing[t].await = "xadd", m = doing[t].of
          PROVE  Good(m)
      BY <2>1, OpenTypes, MadeKept DEF Places, SentMade
    <2>2. ASSUME NEW t \in Tasks, doing[t].await = "exec",
                 m \in Elems(held[doing[t].of])
          PROVE  Good(m)
      <3>1. doing[t].of \in Transactions
        BY <2>2, OpenTypes
      <3>2. m \in Messages /\ m <= made /\ path[m].via = "transaction"
        BY <2>2, <3>1, ElemsOf DEF TypeOK, Places, HeldMade
      <3>. QED
        BY <3>2, MadeKept
    <2>. QED
      BY <1>2, <2>1, <2>2, LogSteps DEF RunBy
  <1>4. ASSUME NEW m \in Elems(sealed') PROVE Good(m)
    <2>1. CASE UNCHANGED sealed
      BY <1>2, <2>1 DEF Elems
    <2>2. ASSUME NEW t \in Tasks, NEW d \in Deliveries, NEW kept \in BOOLEAN,
                 Acknowledge(t, d, kept)
          PROVE  Good(m)
      <3>1. sealed \in Seq(Messages) /\ segment[d] \in Seq(Messages)
        BY DEF TypeOK
      <3>2. m \in Elems(sealed) \/ m \in Elems(segment[d])
        <4>1. Elems(sealed \o segment[d]) = Elems(sealed) \cup Elems(segment[d])
          BY <3>1, ConcatElems
        <4>. QED
          BY <2>2, <4>1 DEF Acknowledge, Elems
      <3>. QED
        BY <1>2, <2>2, <3>2, AckedGood
    <2>3. ASSUME NEW runs \in BOOLEAN, Carry(runs) PROVE Good(m)
      <3>1. m \in Elems(sealed)
        BY <2>3, TailElems DEF Carry, TypeOK, Elems
      <3>. QED
        BY <1>2, <3>1
    <2>. QED
      BY <2>1, <2>2, <2>3
         DEF Next, vars, rounds, PublishInRound, PublishBuffered, PublishOwned,
             PublishAtOnce, Take, Bind, Refuse, SettleRefused, XaddAnswered,
             Begin, BeginOwned, Flush, Commit, CommitOwned, ExecAnswered, Abort,
             AbortOwned, Shutdown
  <1>5. ASSUME NEW m \in lost' PROVE Good(m)
    <2>1. ASSUME NEW runs \in BOOLEAN, Carry(runs) PROVE Good(m)
      <3>1. m \in lost \/ m \in Elems(sealed)
        BY <2>1, TailElems DEF Carry, TypeOK
      <3>. QED
        BY <1>2, <3>1
    <2>2. ASSUME NEW t \in Tasks, NEW d \in Deliveries, NEW kept \in BOOLEAN,
                 Acknowledge(t, d, kept)
          PROVE  Good(m)
      <3>1. m \in lost \/ m \in Elems(segment[d])
        BY <2>2 DEF Acknowledge
      <3>. QED
        BY <1>2, <2>2, <3>1, AckedGood
    <2>. QED
      BY <1>2, <2>1, <2>2, LostSteps
  <1>. QED
    BY <1>3, <1>4, <1>5 DEF AckedOnly, Elems

LEMMA QueuedOkStep ==
    ASSUME TypeOK, RegInv, Places, LostMade, QueuedOk, [Next]_vars
    PROVE  QueuedOk'
  <1>1. ASSUME NEW d \in Deliveries, NEW m \in Elems(segment[d])
        PROVE  answer'[m] = "ok"
    <2>1. m \in Messages /\ m <= made /\ path[m].via = "round"
      BY PathsKept DEF Places, QueuedMade
    <2>2. ~\E t \in Tasks : doing[t].await = "xadd" /\ doing[t].of = m
      BY <2>1 DEF Places, SentMade
    <2>. QED
      BY <2>1, <2>2, AnswerSteps DEF QueuedOk
  <1>2. CASE UNCHANGED segment
    BY <1>1, <1>2 DEF QueuedOk, Elems
  <1>3. ASSUME NEW t \in Tasks, NEW d \in Deliveries,
               Make(t, [via |-> "round", of |-> d], "ok"),
               [via |-> "round", of |-> d] \in Path,
               segment' = [segment EXCEPT ![d] = Append(@, made + 1)]
        PROVE  QueuedOk'
    <2>1. made + 1 \in Messages /\ answer'[made + 1] = "ok"
      BY <1>3, MakeKeeps
    <2>2. Elems(segment'[d]) = Elems(segment[d]) \cup {made + 1}
      BY <1>3, <2>1, AppendElems DEF TypeOK
    <2>3. \A e \in Deliveries : e # d => segment'[e] = segment[e]
      BY <1>3 DEF TypeOK
    <2> SUFFICES ASSUME NEW e \in Deliveries, NEW m \in Elems(segment'[e])
                 PROVE  answer'[m] = "ok"
      BY DEF QueuedOk, Elems
    <2>. QED
      BY <1>1, <2>1, <2>2, <2>3
  <1>. QED
    BY <1>2, <1>3, SegmentSteps

LEMMA LostMadeStep ==
    ASSUME TypeOK, RegInv, Places, LostMade, [Next]_vars
    PROVE  LostMade'
  <1>1. \A m \in lost : m <= made' /\ path'[m].via = "round"
    BY PathsKept, MadeKept DEF LostMade
  <1>2. \A m \in Elems(sealed) : m <= made' /\ path'[m].via = "round"
    BY PathsKept, MadeKept DEF Places, SealedMade
  <1>3. \A d \in Deliveries : \A m \in Elems(segment[d]) :
           m <= made' /\ path'[m].via = "round"
    BY PathsKept, MadeKept DEF Places, QueuedMade
  <1>4. ASSUME NEW runs \in BOOLEAN, Carry(runs) PROVE LostMade'
    <2>1. Head(sealed) \in Elems(sealed)
      BY <1>4, TailElems DEF Carry, TypeOK
    <2>2. lost' \subseteq lost \cup {Head(sealed)}
      BY <1>4 DEF Carry
    <2>. QED
      BY <1>1, <1>2, <2>1, <2>2 DEF LostMade
  <1>5. ASSUME NEW t \in Tasks, NEW d \in Deliveries, NEW kept \in BOOLEAN,
               Acknowledge(t, d, kept)
        PROVE  LostMade'
    <2>1. lost' \subseteq lost \cup Elems(segment[d])
      BY <1>5 DEF Acknowledge
    <2>. QED
      BY <1>1, <1>3, <2>1 DEF LostMade
  <1>. QED
    BY <1>1, <1>4, <1>5, LostSteps DEF LostMade

\* A command is before those of its round behind it, so it is not one of them.
LEMMA CarriedOnce ==
    ASSUME TypeOK, Places, Ordered, sealed # <<>>
    PROVE  Head(sealed) \notin Elems(log) \cup Elems(Tail(sealed))
  <1>. DEFINE s == sealed
              h == Head(sealed)
              t == Tail(sealed)
  <1>1. s \in Seq(Messages) /\ s # <<>>
    BY DEF TypeOK
  <1>2. /\ Len(s) \in Nat /\ Len(s) # 0 /\ DOMAIN s = 1..Len(s)
        /\ h = s[1] /\ s[1] \in Messages
        /\ DOMAIN t = 1..(Len(s) - 1)
        /\ \A i \in 1..(Len(s) - 1) : t[i] = s[i + 1]
    BY <1>1, HeadTailProperties, LenProperties, EmptySeq
  <1>3. 1 \in DOMAIN s /\ \A i \in 1..(Len(s) - 1) : i + 1 \in DOMAIN s /\ 1 < i + 1
    BY <1>2
  <1>4. path[h].via = "round" /\ ~(h < h)
    BY <1>2, <1>3 DEF Places, SealedMade, Elems, Messages
  <1>5. InOrder(path, s) /\ Ahead(path, log, s)
    BY DEF Ordered
  <1>. HIDE DEF s, h, t
  <1>6. h \notin Elems(t)
    <2> SUFFICES ASSUME NEW i \in DOMAIN t, t[i] = h PROVE FALSE
      BY DEF Elems
    <2>1. i + 1 \in DOMAIN s /\ 1 < i + 1 /\ s[i + 1] = h
      BY <1>2, <1>3
    <2>2. s[1] < s[i + 1]
      BY <1>2, <1>3, <1>4, <1>5, <2>1 DEF InOrder
    <2>. QED
      BY <1>2, <1>4, <2>1, <2>2
  <1>7. h \notin Elems(log)
    <2> SUFFICES ASSUME NEW i \in DOMAIN log, log[i] = h PROVE FALSE
      BY DEF Elems
    <2>1. log[i] < s[1]
      BY <1>2, <1>3, <1>4, <1>5 DEF Ahead
    <2>. QED
      BY <1>2, <1>4, <2>1
  <1>. QED
    BY <1>6, <1>7 DEF h, t

LEMMA LostApartStep ==
    ASSUME TypeOK, Places, Ordered, AckedOnly, LostMade, LostApart, [Next]_vars
    PROVE  LostApart'
  <1>1. sealed \in Seq(Messages) /\ log \in Seq(Messages)
    BY DEF TypeOK
  <1>2. ASSUME NEW runs \in BOOLEAN, Carry(runs) PROVE LostApart'
    <2>1. /\ Head(sealed) \in Messages
          /\ Elems(sealed) = {Head(sealed)} \cup Elems(Tail(sealed))
      BY <1>1, <1>2, TailElems DEF Carry
    <2>2. Elems(Append(log, Head(sealed))) = Elems(log) \cup {Head(sealed)}
      BY <1>1, <2>1, AppendElems
    <2>3. Head(sealed) \notin Elems(log) \cup Elems(Tail(sealed))
      BY <1>2, CarriedOnce DEF Carry
    <2>4. /\ sealed' = Tail(sealed)
          /\ \/ log' = Append(log, Head(sealed)) /\ lost' = lost
             \/ log' = log /\ lost' = lost \cup {Head(sealed)}
      BY <1>2 DEF Carry
    <2>5. lost' \cap (Elems(log') \cup Elems(sealed')) = {}
      BY <2>1, <2>2, <2>3, <2>4 DEF LostApart
    <2>. QED
      BY <2>5 DEF LostApart, Elems
  <1>3. ASSUME NEW t \in Tasks, NEW d \in Deliveries, NEW kept \in BOOLEAN,
               Acknowledge(t, d, kept)
        PROVE  LostApart'
    <2>1. stage[d] = "held" /\ log' = log
          /\ \/ sealed' = sealed \o segment[d] /\ lost' = lost
             \/ sealed' = sealed /\ lost' = lost \cup Elems(segment[d])
      BY <1>3 DEF Acknowledge, Handles
    <2>2. Elems(sealed \o segment[d]) = Elems(sealed) \cup Elems(segment[d])
      BY <1>1, ConcatElems DEF TypeOK
    <2>3. \A m \in Elems(segment[d]) :
             m \notin Elems(log) \cup Elems(sealed) \cup lost
      BY <2>1 DEF AckedOnly, Places, QueuedMade
    <2>4. lost' \cap (Elems(log') \cup Elems(sealed')) = {}
      BY <2>1, <2>2, <2>3 DEF LostApart
    <2>. QED
      BY <2>4 DEF LostApart, Elems
  <1>4. CASE UNCHANGED <<lost, sealed>>
    <2>1. ASSUME NEW m \in lost, m \in Elems(log') PROVE FALSE
      <3>1. path[m].via = "round" /\ m \notin Elems(log)
        BY <2>1 DEF LostMade, LostApart
      <3>2. m \notin Elems(sealed)
        BY <2>1 DEF LostApart
      <3>3. ASSUME NEW t \in Tasks, doing[t].await = "xadd", m = doing[t].of
            PROVE  FALSE
        BY <3>1, <3>3 DEF Places, SentMade
      <3>4. ASSUME NEW t \in Tasks, doing[t].await = "exec",
                   m \in Elems(held[doing[t].of])
            PROVE  FALSE
        BY <3>1, <3>4, OpenTypes DEF Places, HeldMade
      <3>. QED
        BY <2>1, <3>1, <3>2, <3>3, <3>4, LogSteps DEF RunBy
    <2>. QED
      BY <1>4, <2>1 DEF LostApart, Elems
  <1>. QED
    BY <1>2, <1>3, <1>4, LostSteps

LEMMA StuckClosedStep ==
    ASSUME TypeOK, StuckClosed, [Next]_vars
    PROVE  StuckClosed'
  <1>1. closed => closed'
    BY DEF Next, vars, PublishInRound, PublishBuffered, PublishOwned,
           PublishAtOnce, Take, Bind, Refuse, SettleRefused, Acknowledge, Carry,
           XaddAnswered, Begin, BeginOwned, Flush, Commit, CommitOwned,
           ExecAnswered, Abort, AbortOwned, Shutdown
  <1>2. ASSUME NEW t \in Tasks, NEW d \in Deliveries,
               \/ Take(t, d) \/ Refuse(t, d)
               \/ \E kept \in BOOLEAN : Acknowledge(t, d, kept)
        PROVE  StuckClosed'
    <2>1. \E new \in {"held", "refused", "acked"} :
             stage' = [stage EXCEPT ![d] = new]
      BY <1>2 DEF Take, Refuse, Acknowledge
    <2>2. \A e \in Deliveries : stage'[e] = "stuck" => stage[e] = "stuck"
      BY <2>1 DEF TypeOK
    <2>. QED
      BY <1>1, <2>2 DEF StuckClosed
  <1>3. ASSUME NEW t \in Tasks, NEW d \in Deliveries, SettleRefused(t, d)
        PROVE  StuckClosed'
    BY <1>1, <1>3 DEF SettleRefused, StuckClosed
  <1>4. CASE UNCHANGED stage
    BY <1>1, <1>4 DEF StuckClosed
  <1>. QED
    BY <1>2, <1>3, <1>4
       DEF Next, vars, rounds, PublishInRound, PublishBuffered, PublishOwned,
           PublishAtOnce, Bind, Carry, XaddAnswered, Begin, BeginOwned, Flush,
           Commit, CommitOwned, ExecAnswered, Abort, AbortOwned, Shutdown

LEMMA OrderStep ==
    ASSUME TypeOK, RegInv, Places, OrderInv, [Next]_vars
    PROVE  OrderInv'
  BY OrderedStep, AckedOnlyStep, QueuedOkStep, LostMadeStep, LostApartStep,
     StuckClosedStep
     DEF OrderInv

LEMMA InitOrder == Init => OrderInv
  <1> SUFFICES ASSUME Init PROVE OrderInv
    OBVIOUS
  <1>1. /\ log = <<>> /\ sealed = <<>> /\ lost = {}
        /\ \A d \in Deliveries : segment[d] = <<>> /\ stage[d] = "waiting"
    BY DEF Init
  <1>2. DOMAIN <<>> = {} /\ Elems(<<>>) = {}
    BY EmptySeq DEF Elems
  <1>. QED
    BY <1>1, <1>2
       DEF OrderInv, Ordered, AckedOnly, QueuedOk, InOrder, Ahead, LostMade,
           LostApart, StuckClosed

LEMMA OrderInvariant == Spec => [](Inv /\ OrderInv)
  <1>1. Inv /\ OrderInv /\ [Next]_vars => OrderInv'
    BY OrderStep DEF Inv
  <1>. QED
    BY <1>1, InitOrder, Invariant, PTL DEF Spec

\* OnlyOwnRound is an invariant, also where handlers keep their pipelines: an
\* entry of the registry that is open is of the delivery its task handles, or
\* of one whose settle the shutdown refused, and of that nothing is ever sealed.
THEOREM RoundIsOwn == Spec => []OnlyOwnRound
  <1>1. Inv /\ OrderInv => OnlyOwnRound
    <2> SUFFICES ASSUME Inv, OrderInv, NEW d \in Deliveries
                 PROVE  IF stage[d] = "stuck"
                        THEN closed /\ Elems(segment[d]) \cap (Elems(Sent) \cup lost) = {}
                        ELSE \A m \in Elems(segment[d]) : during[m] = {d}
      BY DEF OnlyOwnRound
    <2>1. \A m \in Elems(segment[d]) :
             /\ path[m].via = "round" /\ path[m].of = d
             /\ stage[d] # "stuck" => during[m] = {d}
      BY DEF Inv, Places, QueuedMade
    <2>2. Elems(Sent) = Elems(log) \cup Elems(sealed)
      BY ConcatElems DEF Inv, TypeOK, Sent
    <2>3. ASSUME stage[d] = "stuck"
          PROVE  closed /\ Elems(segment[d]) \cap (Elems(Sent) \cup lost) = {}
      BY <2>1, <2>2, <2>3 DEF OrderInv, StuckClosed, AckedOnly
    <2>. QED
      BY <2>1, <2>3
  <1>. QED
    BY <1>1, OrderInvariant, PTL

\* RoundsInOrder is an invariant, also where handlers keep their pipelines: what
\* an acknowledged delivery queued is sealed once, behind nothing of its round,
\* and the window runs or loses each command in that order, whatever others run
\* in between.
THEOREM OrderOfRounds == Spec => []RoundsInOrder
  <1>1. Inv /\ OrderInv => RoundsInOrder
    <2> SUFFICES ASSUME Inv, OrderInv, NEW d \in Deliveries
                 PROVE  LET here   == [via |-> "round", of |-> d]
                            places == {k \in DOMAIN Sent : path[Sent[k]] = here}
                            gone   == {m \in lost : path[m] = here}
                        IN /\ {Sent[k] : k \in places} \cup gone =
                                 {m \in 1..made :
                                     /\ path[m] = here /\ answer[m] = "ok"
                                     /\ stage[d] = "acked"}
                           /\ {Sent[k] : k \in places} \cap gone = {}
                           /\ \A j, k \in places : j < k => Sent[j] < Sent[k]
      BY DEF RoundsInOrder
    <2>. DEFINE here   == [via |-> "round", of |-> d]
                places == {k \in DOMAIN Sent : path[Sent[k]] = here}
                gone   == {m \in lost : path[m] = here}
    <2>t. TypeOK /\ Places /\ Kept /\ Carried
      BY DEF Inv
    <2>1. /\ log \in Seq(Messages) /\ sealed \in Seq(Messages)
          /\ Len(log) \in Nat /\ DOMAIN log = 1..Len(log)
          /\ Len(sealed) \in Nat /\ DOMAIN sealed = 1..Len(sealed)
      BY <2>t, LenProperties DEF TypeOK
    <2>2. /\ DOMAIN Sent = 1..(Len(log) + Len(sealed))
          /\ Elems(Sent) = Elems(log) \cup Elems(sealed)
          /\ \A i \in 1..(Len(log) + Len(sealed)) :
                Sent[i] = IF i <= Len(log) THEN log[i] ELSE sealed[i - Len(log)]
      BY <2>1, ConcatElems, ConcatProperties, LenProperties DEF Sent
    <2>3. ASSUME NEW m \in Elems(Sent) \cup lost, path[m] = here
          PROVE  /\ m \in 1..made /\ answer[m] = "ok" /\ stage[d] = "acked"
      <3>1. path[m].via = "round" /\ path[m].of = d
        BY <2>3
      <3>2. stage[d] = "acked" /\ m \in Elems(segment[d])
        BY <2>2, <3>1 DEF OrderInv, AckedOnly
      <3>3. m \in Messages /\ m <= made /\ made \in Nat
        BY <2>t, <3>2, ElemsOf, PublisherAssumption DEF TypeOK, Places, QueuedMade
      <3>4. m \in 1..made
        BY <3>3 DEF Messages
      <3>. QED
        BY <3>2, <3>4 DEF OrderInv, QueuedOk
    <2>4. ASSUME NEW m \in 1..made, path[m] = here, answer[m] = "ok",
                 stage[d] = "acked"
          PROVE  m \in Elems(Sent) \cup lost
      <3>1. m \in Messages /\ m <= made
        <4>1. made \in 0..MaxMessages /\ MaxMessages \in Nat
          BY <2>t, PublisherAssumption DEF TypeOK
        <4>. QED
          BY ONLY <4>1, m \in 1..made DEF Messages
      <3>2. path[m].via = "round" /\ path[m].of = d
        BY <2>4
      <3>3. m \in Elems(segment[d])
        BY <2>t, <2>4, <3>1, <3>2 DEF Kept, KeptOne
      <3>. QED
        BY <2>t, <2>2, <2>4, <3>3 DEF Carried
    <2>5. /\ {Sent[k] : k \in places} \cup gone =
                {m \in 1..made : /\ path[m] = here /\ answer[m] = "ok"
                                 /\ stage[d] = "acked"}
          /\ {Sent[k] : k \in places} \cap gone = {}
      <3>1. {Sent[k] : k \in places} = {m \in Elems(Sent) : path[m] = here}
        BY DEF Elems
      <3>2. lost \cap Elems(Sent) = {}
        BY <2>2 DEF OrderInv, LostApart
      <3>. QED
        BY <2>3, <2>4, <3>1, <3>2
    <2>6. \A j, k \in places : j < k => Sent[j] < Sent[k]
      <3> SUFFICES ASSUME NEW j \in DOMAIN Sent, NEW k \in DOMAIN Sent, j < k,
                          path[Sent[j]] = here, path[Sent[k]] = here
                   PROVE  Sent[j] < Sent[k]
        OBVIOUS
      <3>1. path[Sent[j]].via = "round" /\ path[Sent[j]] = path[Sent[k]]
        OBVIOUS
      <3>2. InOrder(path, log) /\ InOrder(path, sealed) /\ Ahead(path, log, sealed)
        BY DEF OrderInv, Ordered
      <3>3. CASE k <= Len(log)
        <4>1. j \in DOMAIN log /\ k \in DOMAIN log
              /\ Sent[j] = log[j] /\ Sent[k] = log[k]
          BY <2>1, <2>2, <3>3
        <4>. QED
          BY <3>1, <3>2, <4>1 DEF InOrder
      <3>4. CASE j <= Len(log) /\ ~(k <= Len(log))
        <4>1. j \in DOMAIN log /\ k - Len(log) \in DOMAIN sealed
              /\ Sent[j] = log[j] /\ Sent[k] = sealed[k - Len(log)]
          BY <2>1, <2>2, <3>4
        <4>. QED
          BY <3>1, <3>2, <4>1 DEF Ahead
      <3>5. CASE ~(j <= Len(log))
        <4>1. /\ j - Len(log) \in DOMAIN sealed /\ k - Len(log) \in DOMAIN sealed
              /\ j - Len(log) < k - Len(log)
              /\ Sent[j] = sealed[j - Len(log)] /\ Sent[k] = sealed[k - Len(log)]
          BY <2>1, <2>2, <3>5
        <4>. QED
          BY <3>1, <3>2, <4>1 DEF InOrder
      <3>. QED
        BY <3>3, <3>4, <3>5
    <2>. QED
      BY <2>5, <2>6
  <1>. QED
    BY <1>1, OrderInvariant, PTL
=============================================================================
