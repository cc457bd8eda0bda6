----------------------------- MODULE PubSubProofs -----------------------------
(***************************************************************************)
(* Proofs about PubSub, for any sizes, capacities, workers and bounds.      *)
(***************************************************************************)
EXTENDS PubSub, FiniteSetTheorems, SequenceTheorems, TLAPS

-----------------------------------------------------------------------------
(* Sequences that grow.                                                    *)

Grows(s) == \A j, k \in DOMAIN s : j < k => s[j] < s[k]
Below(s, t) == \A j \in DOMAIN s, k \in DOMAIN t : s[j] < t[k]

LEMMA TailGrows ==
    ASSUME NEW s \in Seq(Nat), s # <<>>
    PROVE  /\ Tail(s) \in Seq(Nat)
           /\ \A t : Below(s, t) => Below(Tail(s), t)
           /\ \A t : Below(t, s) => Below(t, Tail(s))
           /\ Grows(s) => Grows(Tail(s))
  <1>1. /\ Tail(s) \in Seq(Nat) /\ Len(Tail(s)) = Len(s) - 1
        /\ \A i \in 1..Len(Tail(s)) : Tail(s)[i] = s[i + 1]
        /\ Len(s) \in Nat /\ DOMAIN s = 1..Len(s)
        /\ DOMAIN Tail(s) = 1..Len(Tail(s))
    BY HeadTailProperties, LenProperties
  <1>2. \A i \in DOMAIN Tail(s) : i + 1 \in DOMAIN s /\ Tail(s)[i] = s[i + 1]
    BY <1>1
  <1>3. ASSUME Grows(s) PROVE Grows(Tail(s))
    <2> SUFFICES ASSUME NEW j \in DOMAIN Tail(s), NEW k \in DOMAIN Tail(s), j < k
                 PROVE  Tail(s)[j] < Tail(s)[k]
      BY DEF Grows
    <2>1. j + 1 < k + 1
      BY <1>1
    <2>. QED
      BY <1>2, <1>3, <2>1 DEF Grows
  <1>. QED
    BY <1>1, <1>2, <1>3 DEF Below

LEMMA HeadBelow ==
    ASSUME NEW s \in Seq(Nat), s # <<>>, Grows(s)
    PROVE  /\ Head(s) \in Nat
           /\ \A k \in DOMAIN Tail(s) : Head(s) < Tail(s)[k]
           /\ \A t : Below(t, s) => \A j \in DOMAIN t : t[j] < Head(s)
           /\ \A t : Below(s, t) => \A k \in DOMAIN t : Head(s) < t[k]
  <1>1. /\ Head(s) \in Nat /\ Head(s) = s[1]
        /\ Tail(s) \in Seq(Nat) /\ Len(Tail(s)) = Len(s) - 1
        /\ \A i \in 1..Len(Tail(s)) : Tail(s)[i] = s[i + 1]
        /\ Len(s) \in Nat /\ DOMAIN s = 1..Len(s) /\ Len(s) # 0
        /\ DOMAIN Tail(s) = 1..Len(Tail(s))
    BY HeadTailProperties, LenProperties, EmptySeq
  <1>2. 1 \in DOMAIN s
    BY <1>1
  <1>3. ASSUME NEW k \in DOMAIN Tail(s) PROVE Head(s) < Tail(s)[k]
    <2>1. k + 1 \in DOMAIN s /\ 1 < k + 1 /\ Tail(s)[k] = s[k + 1]
      BY <1>1
    <2>. QED
      BY <1>1, <1>2, <2>1 DEF Grows
  <1>. QED
    BY <1>1, <1>2, <1>3 DEF Below

LEMMA AppendGrows ==
    ASSUME NEW s \in Seq(Nat), NEW m \in Nat
    PROVE  /\ Append(s, m) \in Seq(Nat)
           /\ Grows(s) /\ (\A j \in DOMAIN s : s[j] < m) => Grows(Append(s, m))
           /\ \A t : Below(s, t) /\ (\A k \in DOMAIN t : m < t[k])
                        => Below(Append(s, m), t)
           /\ \A t : Below(t, s) /\ (\A k \in DOMAIN t : t[k] < m)
                        => Below(t, Append(s, m))
  <1>1. /\ Append(s, m) \in Seq(Nat) /\ Len(Append(s, m)) = Len(s) + 1
        /\ \A i \in 1..Len(s) : Append(s, m)[i] = s[i]
        /\ Append(s, m)[Len(s) + 1] = m
        /\ Len(s) \in Nat /\ DOMAIN s = 1..Len(s)
        /\ DOMAIN Append(s, m) = 1..Len(Append(s, m))
    BY AppendProperties, LenProperties
  <1>2. \A i \in DOMAIN Append(s, m) :
           \/ i \in DOMAIN s /\ Append(s, m)[i] = s[i]
           \/ i = Len(s) + 1 /\ Append(s, m)[i] = m
    BY <1>1
  <1>3. ASSUME Grows(s), \A j \in DOMAIN s : s[j] < m PROVE Grows(Append(s, m))
    <2> SUFFICES ASSUME NEW j \in DOMAIN Append(s, m),
                        NEW k \in DOMAIN Append(s, m), j < k
                 PROVE  Append(s, m)[j] < Append(s, m)[k]
      BY DEF Grows
    <2>1. j \in DOMAIN s /\ Append(s, m)[j] = s[j]
      BY <1>1, <1>2
    <2>. QED
      BY <1>2, <1>3, <2>1 DEF Grows
  <1>. QED
    BY <1>1, <1>2, <1>3 DEF Below

LEMMA ConcatGrows ==
    ASSUME NEW s \in Seq(Nat), NEW t \in Seq(Nat)
    PROVE  /\ s \o t \in Seq(Nat)
           /\ Grows(s) /\ Grows(t) /\ Below(s, t) => Grows(s \o t)
           /\ \A u : Below(s, u) /\ Below(t, u) => Below(s \o t, u)
           /\ \A u : Below(u, s) /\ Below(u, t) => Below(u, s \o t)
  <1>1. /\ s \o t \in Seq(Nat) /\ Len(s \o t) = Len(s) + Len(t)
        /\ Len(s) \in Nat /\ DOMAIN s = 1..Len(s)
        /\ Len(t) \in Nat /\ DOMAIN t = 1..Len(t)
        /\ DOMAIN (s \o t) = 1..Len(s \o t)
    BY ConcatProperties, LenProperties
  <1>2. \A i \in 1 .. Len(s) + Len(t) :
           (s \o t)[i] = IF i <= Len(s) THEN s[i] ELSE t[i - Len(s)]
    BY ConcatProperties
  <1>3. \A i \in DOMAIN (s \o t) :
           \/ i \in DOMAIN s /\ (s \o t)[i] = s[i]
           \/ i > Len(s) /\ i - Len(s) \in DOMAIN t /\ (s \o t)[i] = t[i - Len(s)]
    BY <1>1, <1>2
  <1>4. ASSUME Grows(s), Grows(t), Below(s, t) PROVE Grows(s \o t)
    <2> SUFFICES ASSUME NEW j \in DOMAIN (s \o t), NEW k \in DOMAIN (s \o t), j < k
                 PROVE  (s \o t)[j] < (s \o t)[k]
      BY DEF Grows
    <2>1. CASE j \in DOMAIN s /\ k \in DOMAIN s
      BY <1>1, <1>3, <1>4, <2>1 DEF Grows
    <2>2. CASE j \in DOMAIN s /\ k \notin DOMAIN s
      <3>1. (s \o t)[j] = s[j]
        BY <1>1, <1>3, <2>2
      <3>2. k - Len(s) \in DOMAIN t /\ (s \o t)[k] = t[k - Len(s)]
        BY <1>3, <2>2
      <3>. QED
        BY <1>4, <2>2, <3>1, <3>2 DEF Below
    <2>3. CASE j \notin DOMAIN s
      <3>1. /\ j - Len(s) \in DOMAIN t /\ (s \o t)[j] = t[j - Len(s)]
            /\ k - Len(s) \in DOMAIN t /\ (s \o t)[k] = t[k - Len(s)]
            /\ j - Len(s) < k - Len(s)
        BY <1>1, <1>3, <2>3
      <3>. QED
        BY <1>4, <3>1 DEF Grows
    <2>. QED
      BY <2>1, <2>2, <2>3
  <1>. QED
    BY <1>1, <1>3, <1>4 DEF Below

-----------------------------------------------------------------------------
(* The order of what is on its way to a handler.                           *)

Fits(s) == s \in Seq(1..sent) /\ Grows(s)

OrderInv ==
    /\ sent \in 0..MaxMessages
    /\ Fits(got) /\ Fits(hand) /\ Fits(buffer) /\ Fits(wire)
    /\ Below(got, hand) /\ Below(got, buffer) /\ Below(got, wire)
    /\ Below(hand, buffer) /\ Below(hand, wire)
    /\ Below(buffer, wire)

LEMMA EmptyFits ==
    /\ DOMAIN <<>> = {} /\ Fits(<<>>)
    /\ \A t : Below(<<>>, t) /\ Below(t, <<>>)
  <1>1. DOMAIN <<>> = {} /\ <<>> \in Seq(1..sent)
    BY EmptySeq
  <1>. QED
    BY <1>1 DEF Fits, Grows, Below

LEMMA FitsIsNat ==
    ASSUME sent \in 0..MaxMessages, NEW s, Fits(s)
    PROVE  s \in Seq(Nat) /\ Grows(s) /\ DOMAIN s = 1..Len(s) /\ Len(s) \in Nat
  <1>1. s \in Seq(1..sent) /\ 1..sent \subseteq Nat
    BY DEF Fits
  <1>2. s \in Seq(Nat)
    BY <1>1, SeqMonotonic
  <1>. QED
    BY <1>1, <1>2, LenProperties DEF Fits

LEMMA TailFits ==
    ASSUME sent \in 0..MaxMessages, NEW s, Fits(s), s # <<>>
    PROVE  /\ Fits(Tail(s)) /\ Head(s) \in 1..sent
           /\ \A t : Below(s, t) => Below(Tail(s), t)
           /\ \A t : Below(t, s) => Below(t, Tail(s))
           /\ \A k \in DOMAIN Tail(s) : Head(s) < Tail(s)[k]
           /\ \A t : Below(t, s) => \A j \in DOMAIN t : t[j] < Head(s)
           /\ \A t : Below(s, t) => \A k \in DOMAIN t : Head(s) < t[k]
  <1>1. s \in Seq(Nat) /\ Grows(s)
    BY FitsIsNat
  <1>2. s \in Seq(1..sent)
    BY DEF Fits
  <1>3. Head(s) \in 1..sent /\ Tail(s) \in Seq(1..sent)
    BY <1>2, HeadTailProperties
  <1>4. Fits(Tail(s))
    BY <1>1, <1>3, TailGrows DEF Fits
  <1>. QED
    BY <1>1, <1>3, <1>4, TailGrows, HeadBelow

LEMMA AppendFits ==
    ASSUME sent \in 0..MaxMessages, NEW s, Fits(s), NEW m \in 1..sent,
           \A j \in DOMAIN s : s[j] < m
    PROVE  /\ Fits(Append(s, m))
           /\ \A t : Below(s, t) /\ (\A k \in DOMAIN t : m < t[k])
                        => Below(Append(s, m), t)
           /\ \A t : Below(t, s) /\ (\A k \in DOMAIN t : t[k] < m)
                        => Below(t, Append(s, m))
  <1>1. s \in Seq(Nat) /\ Grows(s)
    BY FitsIsNat
  <1>2. Append(s, m) \in Seq(1..sent)
    BY AppendProperties DEF Fits
  <1>. QED
    BY <1>1, <1>2, AppendGrows DEF Fits

LEMMA ConcatFits ==
    ASSUME sent \in 0..MaxMessages, NEW s, Fits(s), NEW t, Fits(t), Below(s, t)
    PROVE  /\ Fits(s \o t)
           /\ \A u : Below(s, u) /\ Below(t, u) => Below(s \o t, u)
           /\ \A u : Below(u, s) /\ Below(u, t) => Below(u, s \o t)
  <1>1. s \in Seq(Nat) /\ Grows(s) /\ t \in Seq(Nat) /\ Grows(t)
    BY FitsIsNat
  <1>2. s \o t \in Seq(1..sent)
    BY ConcatProperties DEF Fits
  <1>. QED
    BY <1>1, <1>2, ConcatGrows DEF Fits

\* What the buffer is after a message: it follows what was there.
LEMMA PushedFits ==
    ASSUME OrderInv, wire # <<>>, capacity \in Nat \ {0}
    PROVE  LET new == Pushed(Head(wire)) IN
           /\ Fits(new)
           /\ Below(got, new) /\ Below(hand, new) /\ Below(new, Tail(wire))
           /\ Len(new) = IF Len(buffer) = capacity THEN Len(buffer) ELSE Len(buffer) + 1
  <1>. DEFINE m == Head(wire)
              rest == IF Len(buffer) = capacity THEN Tail(buffer) ELSE buffer
  <1>1. /\ sent \in 0..MaxMessages /\ Fits(buffer) /\ Fits(wire)
        /\ Below(got, buffer) /\ Below(hand, buffer) /\ Below(buffer, wire)
        /\ Below(got, wire) /\ Below(hand, wire)
    BY DEF OrderInv
  <1>2. Len(buffer) = capacity => buffer # <<>>
    BY EmptySeq
  <1>3. /\ Fits(rest) /\ Below(got, rest) /\ Below(hand, rest)
        /\ Below(rest, wire)
    BY <1>1, <1>2, TailFits
  <1>4. /\ m \in 1..sent
        /\ \A j \in DOMAIN got : got[j] < m
        /\ \A j \in DOMAIN hand : hand[j] < m
        /\ \A j \in DOMAIN rest : rest[j] < m
        /\ \A k \in DOMAIN Tail(wire) : m < Tail(wire)[k]
        /\ Below(rest, Tail(wire))
    BY <1>1, <1>3, TailFits
  <1>5. Len(Append(rest, m)) = IF Len(buffer) = capacity THEN Len(buffer)
                               ELSE Len(buffer) + 1
    <2>1. rest \in Seq(1..sent) /\ buffer \in Seq(1..sent)
      BY <1>1, <1>3 DEF Fits
    <2>2. Len(Append(rest, m)) = Len(rest) + 1
      BY <1>4, <2>1, AppendProperties
    <2>3. Len(rest) = IF Len(buffer) = capacity THEN Len(buffer) - 1 ELSE Len(buffer)
      BY <1>2, <2>1, HeadTailProperties
    <2>4. Len(buffer) \in Nat
      BY <2>1, LenProperties
    <2>. QED
      BY <2>2, <2>3, <2>4
  <1>6. Pushed(m) = Append(rest, m)
    BY DEF Pushed
  <1>. HIDE DEF m, rest
  <1>7. /\ Fits(Append(rest, m)) /\ Below(got, Append(rest, m))
        /\ Below(hand, Append(rest, m)) /\ Below(Append(rest, m), Tail(wire))
    BY <1>1, <1>3, <1>4, AppendFits
  <1>. QED
    BY <1>5, <1>6, <1>7 DEF m

LEMMA SettingsStay ==
    ASSUME mode \in Modes, size \in Sizes, capacity \in Capacities, [Next]_vars
    PROVE  UNCHANGED <<mode, size, capacity>> /\ size \in Nat \ {0}
           /\ capacity \in Nat \ {0}
  <1>. USE DEF subscription, settings
  <1>6. size \in Nat \ {0} /\ capacity \in Nat \ {0}
    BY PubSubAssumption
  <1>1. CASE Publish \/ Arrive \/ Break \/ Reconnect \/ Serve
    BY <1>1, <1>6 DEF Publish, Arrive, Break, Reconnect, Serve
  <1>2. CASE Listen \/ Ask \/ Open \/ OpenFails \/ Resubscribe
    BY <1>2, <1>6 DEF Listen, Ask, Open, OpenFails, Resubscribe
  <1>3. CASE SkipLag \/ Receive \/ Yield \/ Drop \/ Quit
    BY <1>3, <1>6 DEF SkipLag, Receive, Yield, Drop, Quit
  <1>4. ASSUME NEW m \in Messages, NEW v \in {"ack", "nack", "leave"}, Settles(m, v)
        PROVE  UNCHANGED <<mode, size, capacity>>
    BY <1>4 DEF Settles, Settle
  <1>5. CASE UNCHANGED vars
    BY <1>5, <1>6 DEF vars
  <1>. QED
    BY <1>1, <1>2, <1>3, <1>4, <1>5, <1>6 DEF Next

LEMMA OrderStep ==
    ASSUME OrderInv, capacity \in Nat \ {0}, [Next]_vars
    PROVE  OrderInv'
  <1>a. /\ sent \in 0..MaxMessages
        /\ Fits(got) /\ Fits(hand) /\ Fits(buffer) /\ Fits(wire)
        /\ Below(got, hand) /\ Below(got, buffer) /\ Below(got, wire)
        /\ Below(hand, buffer) /\ Below(hand, wire) /\ Below(buffer, wire)
    BY DEF OrderInv
  <1>b. ASSUME UNCHANGED <<sent, got, hand, buffer, wire>> PROVE OrderInv'
    BY <1>b DEF OrderInv, Fits
  <1>1. CASE Publish
    <2>1. /\ sent' = sent + 1 /\ sent' \in 0..MaxMessages
          /\ UNCHANGED <<got, hand, buffer>>
          /\ wire' = Append(wire, sent') \/ wire' = wire
      BY <1>1, <1>a, PubSubAssumption DEF Publish, received
    <2>2. ASSUME NEW s, Fits(s)
          PROVE  /\ s \in Seq(1..sent') /\ Grows(s)
                 /\ \A j \in DOMAIN s : s[j] < sent'
      <3>1. 1..sent \subseteq 1..sent'
        BY <1>a, <2>1
      <3>2. s \in Seq(1..sent) /\ DOMAIN s = 1..Len(s)
        BY <2>2, <1>a, FitsIsNat DEF Fits
      <3>3. s \in Seq(1..sent')
        BY <3>1, <3>2, SeqMonotonic
      <3>4. \A j \in DOMAIN s : s[j] \in 1..sent
        BY <3>2, ElementOfSeq
      <3>. QED
        BY <1>a, <2>1, <2>2, <3>3, <3>4 DEF Fits
    <2>3. Fits(got)' /\ Fits(hand)' /\ Fits(buffer)'
      BY <1>a, <2>1, <2>2 DEF Fits
    <2>4. Fits(wire)' /\ Below(got, wire)' /\ Below(hand, wire)' /\ Below(buffer, wire)'
      <3>1. CASE wire' = wire
        BY <1>a, <2>1, <2>2, <3>1 DEF Fits
      <3>2. CASE wire' = Append(wire, sent')
        <4>1. sent' \in 1..sent' /\ sent' \in Nat
          BY <1>a, <2>1
        <4>2. Append(wire, sent') \in Seq(1..sent')
          BY <1>a, <2>2, <4>1, AppendProperties
        <4>3. wire \in Seq(Nat)
          BY <1>a, FitsIsNat
        <4>4. /\ Grows(Append(wire, sent'))
              /\ Below(got, Append(wire, sent'))
              /\ Below(hand, Append(wire, sent'))
              /\ Below(buffer, Append(wire, sent'))
          BY <1>a, <2>2, <4>1, <4>3, AppendGrows
        <4>. QED
          BY <2>1, <3>2, <4>2, <4>4 DEF Fits
      <3>. QED
        BY <2>1, <3>1, <3>2
    <2>. QED
      BY <1>a, <2>1, <2>3, <2>4 DEF OrderInv
  <1>2. CASE Arrive
    <2>1. wire # <<>> /\ wire' = Tail(wire) /\ UNCHANGED <<sent, got, hand>>
      BY <1>2 DEF Arrive
    <2>2. /\ Fits(Tail(wire)) /\ Below(got, Tail(wire)) /\ Below(hand, Tail(wire))
          /\ Below(buffer, Tail(wire))
      BY <1>a, <2>1, TailFits
    <2>3. /\ Fits(buffer') /\ Below(got, buffer') /\ Below(hand, buffer')
          /\ Below(buffer', Tail(wire))
      <3>1. CASE buffer' = buffer
        BY <1>a, <2>2, <3>1
      <3>2. CASE buffer' = Pushed(Head(wire))
        BY <2>1, <3>2, PushedFits
      <3>. QED
        BY <1>2, <3>1, <3>2 DEF Arrive
    <2>. QED
      BY <1>a, <2>1, <2>2, <2>3 DEF OrderInv, Fits
  <1>3. CASE Break \/ Quit
    <2>1. wire' = <<>> /\ UNCHANGED <<sent, got, hand, buffer>>
      BY <1>3 DEF Break, Quit, received
    <2>. QED
      BY <1>a, <2>1, EmptyFits DEF OrderInv, Fits
  <1>4. CASE Receive
    <2>1. /\ buffer # <<>> /\ hand' = Append(hand, Head(buffer))
          /\ buffer' = Tail(buffer) /\ UNCHANGED <<sent, got, wire>>
      BY <1>4 DEF Receive, Oldest, connection
    <2>2. /\ Fits(Tail(buffer)) /\ Below(got, Tail(buffer))
          /\ Below(hand, Tail(buffer)) /\ Below(Tail(buffer), wire)
          /\ Head(buffer) \in 1..sent
          /\ \A j \in DOMAIN got : got[j] < Head(buffer)
          /\ \A j \in DOMAIN hand : hand[j] < Head(buffer)
          /\ \A k \in DOMAIN Tail(buffer) : Head(buffer) < Tail(buffer)[k]
          /\ \A k \in DOMAIN wire : Head(buffer) < wire[k]
      BY <1>a, <2>1, TailFits
    <2>3. /\ Fits(Append(hand, Head(buffer)))
          /\ Below(got, Append(hand, Head(buffer)))
          /\ Below(Append(hand, Head(buffer)), Tail(buffer))
          /\ Below(Append(hand, Head(buffer)), wire)
      BY <1>a, <2>2, AppendFits
    <2>. QED
      BY <1>a, <2>1, <2>2, <2>3 DEF OrderInv, Fits
  <1>5. CASE Yield
    <2>1. /\ got' = got \o hand /\ hand' = <<>>
          /\ UNCHANGED <<sent, wire, buffer>>
      BY <1>5 DEF Yield, connection
    <2>2. /\ Fits(got \o hand) /\ Below(got \o hand, buffer)
          /\ Below(got \o hand, wire)
      BY <1>a, ConcatFits
    <2>. QED
      BY <1>a, <2>1, <2>2, EmptyFits DEF OrderInv, Fits
  <1>6. CASE Drop
    <2>1. buffer' = <<>> /\ hand' = <<>> /\ UNCHANGED <<sent, got, wire>>
      BY <1>6 DEF Drop, connection
    <2>. QED
      BY <1>a, <2>1, EmptyFits DEF OrderInv, Fits
  <1>7. CASE \/ Reconnect \/ Serve \/ Listen \/ Ask \/ Open \/ OpenFails
             \/ Resubscribe \/ SkipLag
    BY <1>7, <1>b DEF Reconnect, Serve, Listen, Ask, Open, OpenFails, Resubscribe,
       SkipLag, connection, received
  <1>8. ASSUME NEW m \in Messages, NEW v \in {"ack", "nack", "leave"}, Settles(m, v)
        PROVE  OrderInv'
    BY <1>8, <1>b DEF Settles, Settle, connection, received
  <1>9. CASE UNCHANGED vars
    BY <1>9, <1>b DEF vars, connection, received
  <1>. QED
    BY <1>1, <1>2, <1>3, <1>4, <1>5, <1>6, <1>7, <1>8, <1>9 DEF Next

ChosenInv == mode \in Modes /\ size \in Sizes /\ capacity \in Capacities

LEMMA ChosenStep == ChosenInv /\ [Next]_vars => ChosenInv'
  BY SettingsStay DEF ChosenInv

LEMMA OrderHolds == Spec => [](ChosenInv /\ OrderInv)
  <1>1. Init => ChosenInv /\ OrderInv
    <2> SUFFICES ASSUME Init PROVE ChosenInv /\ OrderInv
      OBVIOUS
    <2>1. sent \in 0..MaxMessages
      BY PubSubAssumption DEF Init
    <2>. QED
      BY <2>1, EmptyFits DEF Init, ChosenInv, OrderInv
  <1>2. ChosenInv /\ OrderInv /\ [Next]_vars => OrderInv'
    BY OrderStep, PubSubAssumption DEF ChosenInv
  <1>. QED
    BY <1>1, <1>2, ChosenStep, PTL DEF Spec

\* For any buffer, batch and number of messages, and whatever breaks and lags:
\* what is yielded, and what still will be, is in the order it was published
\* (pubsub.rs's round_stream and round_batches).
THEOREM OrderKept == Spec => []YieldedInOrder
  <1>1. OrderInv => YieldedInOrder
    <2> SUFFICES ASSUME OrderInv PROVE Grows((got \o hand) \o buffer)
      BY DEF YieldedInOrder, Grows
    <2>1. /\ sent \in 0..MaxMessages /\ Fits(got) /\ Fits(hand) /\ Fits(buffer)
          /\ Below(got, hand) /\ Below(got, buffer) /\ Below(hand, buffer)
      BY DEF OrderInv
    <2>2. Fits(got \o hand) /\ Below(got \o hand, buffer)
      BY <2>1, ConcatFits
    <2>. QED
      BY <2>1, <2>2, ConcatFits DEF Fits
  <1>. QED
    BY <1>1, OrderHolds, PTL

-----------------------------------------------------------------------------
(* What is lost.                                                           *)

\* While it listens, what arrived is yielded, taken, waiting or lost.
LossInv ==
    /\ arrived \in Nat /\ lag \in Nat /\ reported \in Nat
    /\ Listens =>
          Len(got) + Len(hand) + Len(buffer) + lag + reported = arrived
    /\ stage = "new" => /\ Len(got) = 0 /\ Len(hand) = 0 /\ Len(buffer) = 0
                        /\ lag = 0 /\ reported = 0 /\ arrived = 0

LEMMA Lengths ==
    ASSUME OrderInv
    PROVE  /\ Len(got) \in Nat /\ Len(hand) \in Nat /\ Len(buffer) \in Nat
           /\ got \in Seq(Nat) /\ hand \in Seq(Nat) /\ buffer \in Seq(Nat)
  BY FitsIsNat DEF OrderInv

LEMMA LossStep ==
    ASSUME OrderInv, LossInv, capacity \in Nat \ {0}, [Next]_vars
    PROVE  LossInv'
  <1>a. /\ arrived \in Nat /\ lag \in Nat /\ reported \in Nat
        /\ Len(got) \in Nat /\ Len(hand) \in Nat /\ Len(buffer) \in Nat
        /\ got \in Seq(Nat) /\ hand \in Seq(Nat) /\ buffer \in Seq(Nat)
    BY Lengths DEF LossInv
  <1>b. ASSUME UNCHANGED <<arrived, buffer, lag, reported, hand, got>>,
               Listens' => Listens \/ stage = "new",
               stage' = "new" => stage = "new"
        PROVE  LossInv'
    BY <1>b, <1>a DEF LossInv
  <1>1. CASE Arrive
    <2>1. CASE Listens
      <3>1. /\ arrived' = arrived + 1 /\ wire # <<>>
            /\ buffer' = Pushed(Head(wire)) /\ stage' = stage
            /\ lag' = IF Len(buffer) = capacity THEN lag + 1 ELSE lag
            /\ UNCHANGED <<reported, hand, got>>
        BY <1>1, <2>1 DEF Arrive, subscription
      <3>2. Len(buffer') = IF Len(buffer) = capacity THEN Len(buffer)
                           ELSE Len(buffer) + 1
        BY <3>1, PushedFits
      <3>3. stage # "new"
        BY <2>1 DEF Listens
      <3>4. Len(got) + Len(hand) + Len(buffer) + lag + reported = arrived
        BY <2>1 DEF LossInv
      <3>5. /\ arrived' \in Nat /\ lag' \in Nat /\ reported' \in Nat
            /\ Len(got') + Len(hand') + Len(buffer') + lag' + reported' = arrived'
        BY ONLY <1>a, <3>1, <3>2, <3>4
      <3>. QED
        BY <3>1, <3>3, <3>5 DEF LossInv
    <2>2. CASE ~Listens
      BY <1>1, <2>2, <1>b DEF Arrive, subscription, Listens
    <2>. QED
      BY <2>1, <2>2
  <1>2. CASE SkipLag
    <2>1. /\ stage = "open" /\ stage' = stage
          /\ reported' = reported + lag /\ lag' = 0
          /\ UNCHANGED <<arrived, buffer, hand, got>>
      BY <1>2 DEF SkipLag, Said, subscription
    <2>. QED
      BY <1>a, <2>1 DEF LossInv, Listens
  <1>3. CASE Receive
    <2>1. /\ stage = "open" /\ stage' = stage /\ buffer # <<>>
          /\ hand' = Append(hand, Head(buffer)) /\ buffer' = Tail(buffer)
          /\ UNCHANGED <<arrived, lag, reported, got>>
      BY <1>3 DEF Receive, Oldest, subscription
    <2>2. Head(buffer) \in Nat /\ Len(Tail(buffer)) = Len(buffer) - 1
      BY <1>a, <2>1, HeadTailProperties
    <2>3. Len(Append(hand, Head(buffer))) = Len(hand) + 1
      BY <1>a, <2>2, AppendProperties
    <2>4. Len(got) + Len(hand) + Len(buffer) + lag + reported = arrived
      BY <2>1 DEF LossInv, Listens
    <2>a. Len(hand') = Len(hand) + 1 /\ Len(buffer') = Len(buffer) - 1
      BY <2>1, <2>2, <2>3
    <2>b. UNCHANGED <<arrived, lag, reported, got>>
      BY <2>1
    <2>5. Len(got') + Len(hand') + Len(buffer') + lag' + reported' = arrived'
      <3>1. ASSUME NEW a \in Nat, NEW b \in Nat, NEW c \in Nat, NEW d \in Nat,
                   NEW e \in Nat, NEW f, NEW g, NEW n,
                   a + b + c + d + e = n, f = b + 1, g = c - 1
            PROVE  a + f + g + d + e = n
        BY ONLY <3>1
      <3>2. /\ Len(got) \in Nat /\ Len(hand) \in Nat /\ Len(buffer) \in Nat
            /\ lag \in Nat /\ reported \in Nat
        BY <1>a
      <3>3. /\ Len(got') = Len(got) /\ lag' = lag /\ reported' = reported
            /\ arrived' = arrived
        BY <2>b
      <3>. QED
        BY ONLY <2>a, <2>4, <3>1, <3>2, <3>3
    <2>. QED
      BY <1>a, <2>1, <2>5 DEF LossInv
  <1>4. CASE Yield
    <2>1. /\ got' = got \o hand /\ hand' = <<>> /\ hand # <<>> /\ stage' = stage
          /\ UNCHANGED <<arrived, lag, reported, buffer>>
      BY <1>4 DEF Yield, subscription
    <2>2. Len(got \o hand) = Len(got) + Len(hand) /\ Len(hand') = 0 /\ Len(hand) # 0
      BY <1>a, <2>1, ConcatProperties, EmptySeq
    <2>. QED
      BY <1>a, <2>1, <2>2 DEF LossInv, Listens
  <1>5. CASE Drop
    <2>1. /\ stage' = "dropped" /\ lag' = 0 /\ UNCHANGED <<arrived, reported>>
      BY <1>5 DEF Drop
    <2>. QED
      BY <1>a, <2>1 DEF LossInv, Listens
  <1>6. CASE Publish \/ Break \/ Reconnect \/ Serve \/ Resubscribe
    BY <1>6, <1>b DEF Publish, Break, Reconnect, Serve, Resubscribe, received,
       subscription, Listens
  <1>7. CASE Listen \/ Ask \/ Open \/ OpenFails \/ Quit
    BY <1>7, <1>b DEF Listen, Ask, Open, OpenFails, Quit, received, Listens
  <1>8. ASSUME NEW m \in Messages, NEW v \in {"ack", "nack", "leave"}, Settles(m, v)
        PROVE  LossInv'
    BY <1>8, <1>b DEF Settles, Settle, received, subscription, Listens
  <1>9. CASE UNCHANGED vars
    BY <1>9, <1>b DEF vars, received, subscription, Listens
  <1>. QED
    BY <1>1, <1>2, <1>3, <1>4, <1>5, <1>6, <1>7, <1>8, <1>9 DEF Next

\* Whatever the buffer holds and however far the receiver falls behind: no
\* message that reached it goes missing without a word (pubsub.rs:888).
THEOREM LossTold == Spec => []LossIsReported
  <1>1. Init => LossInv
    BY EmptySeq DEF Init, LossInv, Listens
  <1>2. LossInv => LossIsReported
    BY DEF LossInv, LossIsReported, Listens
  <1>3. ChosenInv /\ OrderInv /\ LossInv /\ [Next]_vars => LossInv'
    BY LossStep, PubSubAssumption DEF ChosenInv
  <1>. QED
    BY <1>1, <1>2, <1>3, OrderHolds, PTL DEF Spec

-----------------------------------------------------------------------------
(* The subscribe after a reconnect.                                        *)

\* From the subscribe of the opening on.
ToldInv ==
    /\ notices \in Nat
    /\ stage \in {"asked", "open"} /\ link =>
          subscribed \/ asking \/ notices > 0 \/ refused

LEMMA ToldStep == ASSUME ToldInv, [Next]_vars PROVE ToldInv'
  <1>b. ASSUME UNCHANGED <<notices, link, subscribed, asking, refused>>,
               stage' \in {"asked", "open"} => stage \in {"asked", "open"}
        PROVE  ToldInv'
    BY <1>b DEF ToldInv
  <1>1. CASE Publish \/ Arrive \/ SkipLag \/ Receive \/ Yield
    BY <1>1, <1>b DEF Publish, Arrive, SkipLag, Receive, Yield, subscription,
       connection
  <1>2. CASE Break
    BY <1>2 DEF Break, subscription, ToldInv
  <1>3. CASE Reconnect
    BY <1>3 DEF Reconnect, Listens, ToldInv
  <1>4. CASE Serve
    BY <1>4 DEF Serve, subscription, ToldInv
  <1>5. CASE Ask
    BY <1>5 DEF Ask, ToldInv
  <1>6. CASE Listen \/ Open \/ Drop
    BY <1>6, <1>b DEF Listen, Open, Drop, connection
  <1>7. CASE OpenFails \/ Quit
    BY <1>7 DEF OpenFails, Quit, ToldInv
  <1>8. CASE Resubscribe
    BY <1>8 DEF Resubscribe, ToldInv
  <1>9. ASSUME NEW m \in Messages, NEW v \in {"ack", "nack", "leave"}, Settles(m, v)
        PROVE  ToldInv'
    BY <1>9, <1>b DEF Settles, Settle, subscription, connection
  <1>10. CASE UNCHANGED vars
    BY <1>10, <1>b DEF vars, subscription, connection
  <1>. QED
    BY <1>1, <1>2, <1>3, <1>4, <1>5, <1>6, <1>7, <1>8, <1>9, <1>10 DEF Next

\* However often the connection breaks, while the subscription opens too: with
\* a connection it is subscribed or will be, unless it was refused.
THEOREM ReconnectTold == Spec => []SubscribedOrTold
  <1>1. Init => ToldInv
    BY DEF Init, ToldInv
  <1>2. ToldInv => SubscribedOrTold
    BY DEF ToldInv, SubscribedOrTold
  <1>. QED
    BY <1>1, <1>2, ToldStep, PTL DEF Spec
=============================================================================
