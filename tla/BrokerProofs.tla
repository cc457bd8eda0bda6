----------------------------- MODULE BrokerProofs -----------------------------
(***************************************************************************)
(* Proofs about Broker, for any subscriptions with any definitions.         *)
(***************************************************************************)
EXTENDS Broker, FiniteSetTheorems, TLAPS

-----------------------------------------------------------------------------
(* Type correctness.                                                       *)

LEMMA DefTyped ==
    ASSUME TypeOK, NEW s \in Subscriptions
    PROVE  /\ def[s] \in Definition
           /\ Routes(s) => Writes(s) \in Route
           /\ Writing(s) \subseteq Names
           /\ \A n : Times(s, n) \in {1, 2}
  <1>1. def[s] \in Definition
    BY BrokerAssumption DEF TypeOK
  <1>. QED
    BY <1>1 DEF Definition, Route, Routes, Writes, Writing, Times

RoutesTyped == /\ DOMAIN table \subseteq Names
               /\ \A n \in DOMAIN table :
                     table[n] \in [route: Route, holders: Nat \ {0}]

LEMMA RecordedTyped ==
    ASSUME TypeOK, NEW s \in Subscriptions, Routes(s)
    PROVE  /\ DOMAIN Recorded(s) = DOMAIN table \cup Writing(s)
           /\ \A n \in DOMAIN table \cup Writing(s) :
                 /\ Recorded(s)[n] \in [route: Route, holders: Nat \ {0}]
                 /\ n \notin DOMAIN table =>
                       Recorded(s)[n] = [route |-> Writes(s), holders |-> Times(s, n)]
                 /\ n \in DOMAIN table =>
                       /\ Recorded(s)[n].route = table[n].route
                       /\ Recorded(s)[n].holders =
                             IF n \in Writing(s) THEN table[n].holders + Times(s, n)
                             ELSE table[n].holders
  <1>1. DOMAIN Recorded(s) = DOMAIN table \cup Writing(s)
    BY DEF Recorded
  <1>2. ASSUME NEW n \in DOMAIN table \cup Writing(s), n \notin DOMAIN table
        PROVE  Recorded(s)[n] = [route |-> Writes(s), holders |-> Times(s, n)]
    BY <1>2 DEF Recorded
  <1>3. ASSUME NEW n \in DOMAIN table, n \in Writing(s)
        PROVE  Recorded(s)[n] = [table[n] EXCEPT !.holders = @ + Times(s, n)]
    BY <1>3 DEF Recorded
  <1>4. ASSUME NEW n \in DOMAIN table, n \notin Writing(s)
        PROVE  Recorded(s)[n] = table[n]
    BY <1>4 DEF Recorded
  <1>5. \A n \in DOMAIN table : table[n] \in [route: Route, holders: Nat \ {0}]
    BY DEF TypeOK
  <1>6. Writes(s) \in Route /\ \A n : Times(s, n) \in {1, 2}
    BY DefTyped
  <1>. QED
    BY <1>1, <1>2, <1>3, <1>4, <1>5, <1>6

LEMMA ForgottenTyped ==
    ASSUME TypeOK, NEW s \in Subscriptions
    PROVE  /\ DOMAIN Forgotten(s) =
                 {m \in DOMAIN table : \/ m \notin Writing(s)
                                       \/ table[m].holders > Times(s, m)}
           /\ \A n \in DOMAIN Forgotten(s) :
                 /\ Forgotten(s)[n] \in [route: Route, holders: Nat \ {0}]
                 /\ Forgotten(s)[n].route = table[n].route
                 /\ Forgotten(s)[n].holders =
                       IF n \in Writing(s) THEN table[n].holders - Times(s, n)
                       ELSE table[n].holders
  <1>1. DOMAIN Forgotten(s) =
           {m \in DOMAIN table : \/ m \notin Writing(s)
                                 \/ table[m].holders > Times(s, m)}
    BY DEF Forgotten
  <1>2. ASSUME NEW n \in DOMAIN Forgotten(s)
        PROVE  Forgotten(s)[n] =
                   IF n \in Writing(s)
                   THEN [table[n] EXCEPT !.holders = @ - Times(s, n)]
                   ELSE table[n]
    BY <1>1, <1>2 DEF Forgotten
  <1>5. \A n \in DOMAIN table : table[n] \in [route: Route, holders: Nat \ {0}]
    BY DEF TypeOK
  <1>6. \A n : Times(s, n) \in {1, 2}
    BY DefTyped
  <1>7. ASSUME NEW n \in DOMAIN Forgotten(s)
        PROVE  /\ Forgotten(s)[n] \in [route: Route, holders: Nat \ {0}]
               /\ Forgotten(s)[n].route = table[n].route
               /\ Forgotten(s)[n].holders =
                     IF n \in Writing(s) THEN table[n].holders - Times(s, n)
                     ELSE table[n].holders
    <2>1. /\ n \in DOMAIN table
          /\ n \in Writing(s) => table[n].holders > Times(s, n)
      BY <1>1, <1>7
    <2>2. table[n] \in [route: Route, holders: Nat \ {0}] /\ Times(s, n) \in {1, 2}
      BY <1>5, <1>6, <2>1
    <2>3. CASE n \in Writing(s)
      BY <1>2, <1>7, <2>1, <2>2, <2>3
    <2>4. CASE n \notin Writing(s)
      BY <1>2, <1>7, <2>1, <2>2, <2>4
    <2>. QED
      BY <2>3, <2>4
  <1>. QED
    BY <1>1, <1>7

LEMMA TypeStep == TypeOK /\ [Next]_vars => TypeOK'
  <1> SUFFICES ASSUME TypeOK, [Next]_vars PROVE TypeOK'
    OBVIOUS
  <1>a. RoutesTyped
    BY DEF TypeOK, RoutesTyped
  <1>b. ASSUME RoutesTyped', def' = def,
               UNCHANGED <<foreign, stage, read, close, closing, awaits, broker,
                           early, messages>>
        PROVE  TypeOK'
    BY <1>b DEF TypeOK, RoutesTyped
  <1>c. ASSUME UNCHANGED <<table, def>> PROVE RoutesTyped'
    BY <1>a, <1>c DEF RoutesTyped
  <1>1. ASSUME NEW s \in Subscriptions, Record(s) PROVE TypeOK'
    <2>1. CASE Agrees(s)
      <3>1. RoutesTyped'
        BY <1>1, <2>1, RecordedTyped, DefTyped DEF Record, RoutesTyped, TypeOK
      <3>2. foreign' \in BOOLEAN
        BY <1>1, <2>1 DEF Record, TypeOK, Differs
      <3>. QED
        BY <1>1, <2>1, <3>1, <3>2
        DEF Record, TypeOK, RoutesTyped, reads, ending
    <2>2. CASE ~Agrees(s)
      BY <1>1, <2>2 DEF Record, TypeOK, routes, reads, ending
    <2>. QED
      BY <2>1, <2>2
  <1>2. ASSUME NEW s \in Subscriptions, Connect(s) PROVE TypeOK'
    BY <1>2 DEF Connect, TypeOK, routes, ending
  <1>3. ASSUME NEW s \in Subscriptions, Fail(s) PROVE TypeOK'
    <2>1. RoutesTyped'
      <3>1. CASE table' = table
        BY <1>a, <3>1 DEF RoutesTyped
      <3>2. CASE table' = Forgotten(s)
        BY <1>a, <3>2, ForgottenTyped DEF RoutesTyped
      <3>. QED
        BY <1>3, <3>1, <3>2 DEF Fail
    <2>. QED
      BY <1>3, <2>1 DEF Fail, TypeOK, RoutesTyped, reads, ending
  <1>4. ASSUME NEW s \in Subscriptions,
               Read(s) \/ Arrive(s) \/ TakeMessage(s) \/ TimeOut(s)
        PROVE  TypeOK'
    BY <1>4, BrokerAssumption
    DEF Read, Arrive, TakeMessage, TimeOut, TypeOK, routes, ending
  <1>5. ASSUME NEW s \in Subscriptions, Drop(s) PROVE TypeOK'
    BY <1>5 DEF Drop, Tracked, TypeOK, routes, ending
  <1>6. ASSUME NEW s \in Subscriptions, Unblock(s) \/ Quit(s) PROVE TypeOK'
    BY <1>6 DEF Unblock, Unblocked, Quit, TypeOK, routes, ending
  <1>7. ASSUME Produce PROVE TypeOK'
    BY <1>7, BrokerAssumption DEF Produce, TypeOK, routes, reads, ending
  <1>8. ASSUME Shutdown \/ Finish PROVE TypeOK'
    BY <1>8 DEF Shutdown, Finish, TypeOK, routes, reads
  <1>9. ASSUME UNCHANGED vars PROVE TypeOK'
    BY <1>9 DEF vars, TypeOK, routes, reads, ending
  <1>. QED
    BY <1>1, <1>2, <1>3, <1>4, <1>5, <1>6, <1>7, <1>8, <1>9 DEF Next

LEMMA InitTyped == Init => TypeOK
  <1> SUFFICES ASSUME Init PROVE TypeOK
    OBVIOUS
  <1>1. DOMAIN table = {}
    BY DEF Init
  <1>2. /\ def \in Mounts
        /\ foreign \in BOOLEAN
        /\ broker \in {"up", "finishing", "down"}
    BY DEF Init
  <1>3. /\ closing \in SUBSET Subscriptions
        /\ awaits \in SUBSET Subscriptions
        /\ early \in SUBSET Subscriptions
    BY DEF Init
  <1>4. messages \in 0..MaxMessages
    BY BrokerAssumption DEF Init
  <1>5. /\ stage \in [Subscriptions -> {"new", "recorded", "failed", "open",
                                        "dropped"}]
        /\ read \in [Subscriptions -> {"none", "idle", "sent", "blocked", "over"}]
        /\ close \in [Subscriptions -> {"none", "unblock", "quit", "done"}]
    BY DEF Init
  <1>. QED
    BY <1>1, <1>2, <1>3, <1>4, <1>5 DEF TypeOK

\* Every variable keeps its type: in particular a name is in the table with its
\* route and a positive number of holders or not at all (route.rs:94-112).
THEOREM TypeCorrect == Spec => []TypeOK
  <1>. QED
    BY InitTyped, TypeStep, PTL DEF Spec

-----------------------------------------------------------------------------
(* The shutdown and the closes it waits for.                               *)

\* A close is known to the broker, or done, from the drop that spawned it on:
\* in closing until the shutdown takes it, and then among those it awaits.
DoneIsOver == \A s \in Subscriptions : close[s] = "done" => read[s] = "over"
UndroppedOpen ==
    \A s \in Subscriptions : stage[s] # "dropped" => close[s] = "none"
DroppedTracked ==
    broker = "up" => \A s \in Subscriptions :
        stage[s] = "dropped" /\ Reads(s) => s \in closing \/ close[s] = "done"
EarlyAwaited ==
    /\ \A s \in early : stage[s] = "dropped"
    /\ broker = "up" => early = {}
    /\ broker = "finishing" => \A s \in early :
          Reads(s) => s \in awaits \/ close[s] = "done"
    /\ broker = "down" => \A s \in early : Reads(s) => close[s] = "done"
CloseInv == DoneIsOver /\ UndroppedOpen /\ DroppedTracked /\ EarlyAwaited

LEMMA DefStays == [Next]_vars => def' = def /\ \A s : Reads(s)' = Reads(s)
  <1>1. ASSUME Next PROVE def' = def
    BY <1>1 DEF Next, Record, Connect, Fail, Read, Arrive, TakeMessage, TimeOut,
                Drop, Unblock, Quit, Produce, Shutdown, Finish
  <1>2. ASSUME UNCHANGED vars PROVE def' = def
    BY <1>2 DEF vars
  <1>3. ASSUME def' = def PROVE \A s : Reads(s)' = Reads(s)
    BY <1>3 DEF Reads
  <1>. QED
    BY <1>1, <1>2, <1>3

LEMMA CloseStep == TypeOK /\ CloseInv /\ [Next]_vars => CloseInv'
  <1> SUFFICES ASSUME TypeOK, CloseInv, [Next]_vars PROVE CloseInv'
    OBVIOUS
  <1>. USE DEF CloseInv, DoneIsOver, UndroppedOpen, DroppedTracked, EarlyAwaited
  <1>a. \A s : Reads(s)' = Reads(s)
    BY DefStays
  <1>b. /\ stage \in [Subscriptions -> {"new", "recorded", "failed", "open",
                                        "dropped"}]
        /\ read \in [Subscriptions -> {"none", "idle", "sent", "blocked", "over"}]
        /\ close \in [Subscriptions -> {"none", "unblock", "quit", "done"}]
        /\ early \subseteq Subscriptions
        /\ awaits \subseteq Subscriptions
    BY DEF TypeOK
  <1>c. ASSUME UNCHANGED <<reads, ending>>, NEW s \in Subscriptions,
               stage[s] # "dropped",
               NEW v \in {"failed", "recorded", "open"},
               stage' = [stage EXCEPT ![s] = v]
        PROVE  CloseInv'
    BY <1>a, <1>b, <1>c DEF reads, ending
  <1>1. ASSUME NEW s \in Subscriptions, Record(s) PROVE CloseInv'
    BY <1>1, <1>c DEF Record
  <1>2. ASSUME NEW s \in Subscriptions, Connect(s) PROVE CloseInv'
    BY <1>2, <1>a, <1>b DEF Connect, ending
  <1>3. ASSUME NEW s \in Subscriptions, Fail(s) PROVE CloseInv'
    BY <1>3, <1>c DEF Fail
  <1>4. ASSUME NEW s \in Subscriptions,
               Read(s) \/ Arrive(s) \/ TakeMessage(s) \/ TimeOut(s)
        PROVE  CloseInv'
    <2>1. UNCHANGED <<stage, close, closing, ending>>
      BY <1>4 DEF Read, Arrive, TakeMessage, TimeOut
    <2>2. /\ read[s] # "over"
          /\ \E v \in {"sent", "blocked", "idle"} : read' = [read EXCEPT ![s] = v]
      BY <1>4 DEF Read, Arrive, TakeMessage, TimeOut
    <2>. QED
      BY <1>a, <1>b, <2>1, <2>2 DEF ending
  <1>5. ASSUME NEW s \in Subscriptions, Drop(s) PROVE CloseInv'
    BY <1>5, <1>a, <1>b DEF Drop, Tracked, ending
  <1>6. ASSUME NEW s \in Subscriptions, Unblock(s) \/ Quit(s) PROVE CloseInv'
    <2>1. CASE Unblock(s)
      BY <2>1, <1>a, <1>b DEF Unblock, Unblocked, ending
    <2>2. CASE Quit(s)
      BY <2>2, <1>a, <1>b DEF Quit, ending
    <2>. QED
      BY <1>6, <2>1, <2>2
  <1>7. ASSUME Produce PROVE CloseInv'
    BY <1>7, <1>a DEF Produce, reads, ending
  <1>8. ASSUME Shutdown PROVE CloseInv'
    BY <1>8, <1>a, <1>b DEF Shutdown
  <1>9. ASSUME Finish PROVE CloseInv'
    BY <1>9, <1>a DEF Finish, Finished, reads
  <1>10. ASSUME UNCHANGED vars PROVE CloseInv'
    BY <1>10, <1>a DEF vars, reads, ending
  <1>. QED
    BY <1>1, <1>2, <1>3, <1>4, <1>5, <1>6, <1>7, <1>8, <1>9, <1>10 DEF Next

\* Whatever subscriptions were dropped before the shutdown, and however their
\* closes ran beside it: once it returns their reads are over
\* (connection.rs:124-148, broker.rs's wait for the tracked closes).
THEOREM ShutdownEnds == Spec => []ShutdownEndsReads
  <1>1. Init => CloseInv
    BY DEF Init, CloseInv, DoneIsOver, UndroppedOpen, DroppedTracked, EarlyAwaited
  <1>2. TypeOK /\ CloseInv => ShutdownEndsReads
    BY DEF CloseInv, DoneIsOver, EarlyAwaited, ShutdownEndsReads, TypeOK
  <1>. QED
    BY <1>1, <1>2, InitTyped, TypeStep, CloseStep, PTL DEF Spec

-----------------------------------------------------------------------------
(* The routes and who holds them.                                          *)

\* A subscription holds a route once for its name and once for its dead
\* letter, from the recording on until it fails.
Holding(s) == stage[s] \in {"recorded", "open", "dropped"} /\ Routes(s)
Named(p) == IF p[2] = "name" THEN def[p[1]].name ELSE def[p[1]].dead
Holds(n) == {p \in Subscriptions \X {"name", "dead"} :
                Holding(p[1]) /\ Named(p) = n}
HoldsOf(s, n) == {p \in {<<s, "name">>, <<s, "dead">>} : Named(p) = n}

\* The count of a name is at least its holds, and exactly those unless the
\* opening of a list can fail; a name that is held is in the table.
Counted(n) ==
    /\ IsFiniteSet(Holds(n))
    /\ IF n \in DOMAIN table
       THEN /\ Cardinality(Holds(n)) <= table[n].holders
            /\ ListsFail = FALSE => Cardinality(Holds(n)) = table[n].holders
       ELSE Holds(n) = {}
HoldInv == \A n \in Names : Counted(n)
\* Whoever holds a name agrees with the route in the table.
AgreeInv == \A s \in Subscriptions : Holding(s) =>
               \A n \in Writing(s) \cap DOMAIN table : table[n].route = Writes(s)
ForeignInv == \A n \in DOMAIN table : table[n].route # STREAM => foreign
RouteInv == HoldInv /\ AgreeInv /\ ForeignInv

LEMMA HoldsOfSize ==
    ASSUME TypeOK, NEW s \in Subscriptions, NEW n \in Names
    PROVE  /\ IsFiniteSet(HoldsOf(s, n))
           /\ Cardinality(HoldsOf(s, n)) =
                 IF n \in Writing(s) THEN Times(s, n) ELSE 0
           /\ HoldsOf(s, n) # {} <=> n \in Writing(s)
  <1>. DEFINE x == <<s, "name">>
              y == <<s, "dead">>
  <1>1. x # y
    OBVIOUS
  <1>2. Named(x) = def[s].name /\ Named(y) = def[s].dead
    BY DEF Named
  <1>3. n # NoName
    BY BrokerAssumption
  <1>4. /\ IsFiniteSet({}) /\ Cardinality({}) = 0
        /\ IsFiniteSet({x}) /\ Cardinality({x}) = 1
        /\ IsFiniteSet({y}) /\ Cardinality({y}) = 1
    BY FS_EmptySet, FS_Singleton
  <1>5. IsFiniteSet({x} \cup {y}) /\ Cardinality({x} \cup {y}) = 2
    <2>. HIDE DEF x, y
    <2>1. y \notin {x}
      BY <1>1
    <2>2. IsFiniteSet({x}) /\ Cardinality({x}) = 1
      BY <1>4
    <2>. QED
      BY <2>1, <2>2, FS_AddElement
  <1>6. CASE def[s].name = n /\ def[s].dead = n
    <2>1. HoldsOf(s, n) = {x} \cup {y}
      BY <1>2, <1>6 DEF HoldsOf
    <2>. QED
      BY <1>3, <1>5, <1>6, <2>1 DEF Writing, Times
  <1>7. CASE def[s].name = n /\ def[s].dead # n
    <2>1. HoldsOf(s, n) = {x}
      BY <1>2, <1>7 DEF HoldsOf
    <2>. QED
      BY <1>3, <1>4, <1>7, <2>1 DEF Writing, Times
  <1>8. CASE def[s].name # n /\ def[s].dead = n
    <2>1. HoldsOf(s, n) = {y}
      BY <1>2, <1>8 DEF HoldsOf
    <2>. QED
      BY <1>3, <1>4, <1>8, <2>1 DEF Writing, Times
  <1>9. CASE def[s].name # n /\ def[s].dead # n
    <2>1. HoldsOf(s, n) = {}
      BY <1>2, <1>9 DEF HoldsOf
    <2>. QED
      BY <1>3, <1>4, <1>9, <2>1 DEF Writing, Times
  <1>. QED
    BY <1>6, <1>7, <1>8, <1>9

\* A hold of a subscription that holds is one of the name's, and no other is.
LEMMA HoldsSplit ==
    ASSUME NEW s \in Subscriptions, NEW n
    PROVE  /\ Holding(s) => HoldsOf(s, n) \subseteq Holds(n)
           /\ ~Holding(s) => HoldsOf(s, n) \cap Holds(n) = {}
  BY DEF HoldsOf, Holds

LEMMA HoldsStay ==
    ASSUME def' = def, \A s \in Subscriptions : Holding(s)' <=> Holding(s), NEW n
    PROVE  Holds(n)' = Holds(n)
  BY DEF Holds, Named

LEMMA HoldsGrow ==
    ASSUME def' = def, NEW s \in Subscriptions, ~Holding(s), Holding(s)',
           \A r \in Subscriptions \ {s} : Holding(r)' <=> Holding(r), NEW n
    PROVE  Holds(n)' = Holds(n) \cup HoldsOf(s, n)
  BY DEF Holds, HoldsOf, Named

LEMMA HoldsShrink ==
    ASSUME def' = def, NEW s \in Subscriptions, Holding(s), ~Holding(s)',
           \A r \in Subscriptions \ {s} : Holding(r)' <=> Holding(r), NEW n
    PROVE  Holds(n)' = Holds(n) \ HoldsOf(s, n)
  BY DEF Holds, HoldsOf, Named

\* A step that leaves the routes and the holding alone.
LEMMA RoutesStay ==
    ASSUME RouteInv, UNCHANGED <<def, table, foreign>>,
           \A s \in Subscriptions : Holding(s)' <=> Holding(s)
    PROVE  RouteInv'
  <1>1. HoldInv'
    BY HoldsStay DEF RouteInv, HoldInv, Counted
  <1>2. AgreeInv' /\ ForeignInv'
    BY DEF RouteInv, AgreeInv, ForeignInv, Writing, Writes
  <1>. QED
    BY <1>1, <1>2 DEF RouteInv

LEMMA RecordRoutes ==
    ASSUME TypeOK, RouteInv, NEW s \in Subscriptions, Record(s), Agrees(s)
    PROVE  RouteInv'
  <1>1. /\ def' = def /\ Routes(s) /\ table' = Recorded(s)
        /\ foreign' = (foreign \/ Differs(s))
        /\ ~Holding(s) /\ Holding(s)'
        /\ \A r \in Subscriptions \ {s} : Holding(r)' <=> Holding(r)
    BY DEF Record, Holding, TypeOK, Routes
  <1>2. DOMAIN table' = DOMAIN table \cup Writing(s)
    BY <1>1, RecordedTyped
  <1>6. ASSUME NEW n \in Writing(s), n \notin DOMAIN table
        PROVE  table'[n].route = Writes(s) /\ table'[n].holders = Times(s, n)
    <2>1. table'[n] = [route |-> Writes(s), holders |-> Times(s, n)]
      BY <1>1, <1>6, RecordedTyped
    <2>. QED
      BY <2>1
  <1>7. ASSUME NEW n \in DOMAIN table
        PROVE  /\ table'[n].route = table[n].route
               /\ n \in Writing(s) =>
                     table'[n].holders = table[n].holders + Times(s, n)
               /\ n \notin Writing(s) => table'[n].holders = table[n].holders
    BY <1>1, RecordedTyped
  <1>3. ASSUME NEW n \in Names PROVE Counted(n)'
    <2>1. Holds(n)' = Holds(n) \cup HoldsOf(s, n)
      BY <1>1, HoldsGrow
    <2>2. /\ IsFiniteSet(HoldsOf(s, n))
          /\ Cardinality(HoldsOf(s, n)) = IF n \in Writing(s) THEN Times(s, n) ELSE 0
          /\ HoldsOf(s, n) # {} <=> n \in Writing(s)
      BY HoldsOfSize
    <2>3. Counted(n)
      BY DEF RouteInv, HoldInv
    <2>4. /\ IsFiniteSet(Holds(n)')
          /\ Cardinality(Holds(n)') =
                Cardinality(Holds(n)) + Cardinality(HoldsOf(s, n))
      <3>1. IsFiniteSet(Holds(n)) /\ Holds(n) \cap HoldsOf(s, n) = {}
        BY <1>1, <2>3, HoldsSplit DEF Counted
      <3>2. Cardinality(Holds(n)) \in Nat /\ Cardinality(HoldsOf(s, n)) \in Nat
        BY <2>2, <3>1, FS_CardinalityType
      <3>3. /\ IsFiniteSet(Holds(n) \cup HoldsOf(s, n))
            /\ Cardinality(Holds(n) \cup HoldsOf(s, n)) =
                  Cardinality(Holds(n)) + Cardinality(HoldsOf(s, n)) - Cardinality({})
        BY <2>2, <3>1, FS_Union
      <3>. QED
        BY ONLY <2>1, <3>2, <3>3, FS_EmptySet
    <2>5. Cardinality(Holds(n)) \in Nat /\ Times(s, n) \in {1, 2}
      BY <2>3, FS_CardinalityType, DefTyped DEF Counted
    <2>6. CASE n \in DOMAIN table
      <3>1. table[n].holders \in Nat
        BY <2>6 DEF TypeOK
      <3>2. n \in DOMAIN table'
        BY <1>2, <2>6
      <3>3. CASE n \in Writing(s)
        <4>1. /\ table'[n].holders = table[n].holders + Times(s, n)
              /\ Cardinality(Holds(n)') = Cardinality(Holds(n)) + Times(s, n)
          BY <1>7, <2>2, <2>4, <2>6, <3>3
        <4>. QED
          BY <2>3, <2>4, <2>5, <2>6, <3>1, <3>2, <4>1 DEF Counted
      <3>4. CASE n \notin Writing(s)
        <4>1. /\ table'[n].holders = table[n].holders
              /\ Cardinality(Holds(n)') = Cardinality(Holds(n))
          BY <1>7, <2>2, <2>4, <2>5, <2>6, <3>4
        <4>. QED
          BY <2>3, <2>4, <2>6, <3>2, <4>1 DEF Counted
      <3>. QED
        BY <3>3, <3>4
    <2>7. CASE n \notin DOMAIN table /\ n \in Writing(s)
      <3>1. Cardinality(Holds(n)) = 0
        BY <2>3, <2>7, FS_EmptySet DEF Counted
      <3>2. n \in DOMAIN table' /\ table'[n].holders = Times(s, n)
        BY <1>2, <1>6, <2>7
      <3>3. Cardinality(Holds(n)') = Times(s, n)
        BY <2>2, <2>4, <2>5, <2>7, <3>1
      <3>. QED
        BY <2>4, <2>5, <3>2, <3>3 DEF Counted
    <2>8. CASE n \notin DOMAIN table /\ n \notin Writing(s)
      BY <1>2, <2>1, <2>2, <2>3, <2>4, <2>8 DEF Counted
    <2>. QED
      BY <2>6, <2>7, <2>8
  <1>4. AgreeInv'
    <2> SUFFICES ASSUME NEW r \in Subscriptions, Holding(r)',
                        NEW n \in Writing(r), n \in DOMAIN table'
                 PROVE  table'[n].route = Writes(r)
      BY <1>1 DEF AgreeInv, Writing, Writes
    <2>1. CASE r = s
      <3>1. CASE n \in DOMAIN table
        BY <1>7, <2>1, <3>1 DEF Agrees
      <3>2. CASE n \notin DOMAIN table
        BY <1>6, <2>1, <3>2
      <3>. QED
        BY <3>1, <3>2
    <2>2. CASE r # s
      <3>1. Holding(r)
        BY <1>1, <2>2
      <3>2. n \in Names /\ HoldsOf(r, n) # {} /\ HoldsOf(r, n) \subseteq Holds(n)
        BY <3>1, DefTyped, HoldsOfSize, HoldsSplit
      <3>3. n \in DOMAIN table
        BY <3>2 DEF RouteInv, HoldInv, Counted
      <3>. QED
        BY <1>7, <3>1, <3>3 DEF RouteInv, AgreeInv
    <2>. QED
      BY <2>1, <2>2
  <1>5. ForeignInv'
    <2> SUFFICES ASSUME NEW n \in DOMAIN table', table'[n].route # STREAM
                 PROVE  foreign'
      BY DEF ForeignInv
    <2>1. CASE n \in DOMAIN table
      BY <1>1, <1>7, <2>1 DEF RouteInv, ForeignInv
    <2>2. CASE n \notin DOMAIN table
      <3>1. n \in Writing(s) /\ table'[n].route = Writes(s)
        BY <1>2, <1>6, <2>2
      <3>. QED
        BY <1>1, <2>2, <3>1 DEF Differs
    <2>. QED
      BY <2>1, <2>2
  <1>. QED
    BY <1>3, <1>4, <1>5 DEF RouteInv, HoldInv

LEMMA FailRoutes ==
    ASSUME TypeOK, RouteInv, NEW s \in Subscriptions, Fail(s), Routes(s)
    PROVE  RouteInv'
  <1>1. /\ def' = def /\ foreign' = foreign
        /\ IF def[s].form = "list" THEN table' = table /\ ListsFail = TRUE
           ELSE table' = Forgotten(s)
        /\ Holding(s) /\ ~Holding(s)'
        /\ \A r \in Subscriptions \ {s} : Holding(r)' <=> Holding(r)
    BY BrokerAssumption DEF Fail, Holding, TypeOK, Routes
  <1>2. ASSUME NEW n \in Names PROVE Counted(n)'
    <2>1. Holds(n)' = Holds(n) \ HoldsOf(s, n)
      BY <1>1, HoldsShrink
    <2>2. /\ IsFiniteSet(HoldsOf(s, n))
          /\ Cardinality(HoldsOf(s, n)) = IF n \in Writing(s) THEN Times(s, n) ELSE 0
          /\ HoldsOf(s, n) # {} <=> n \in Writing(s)
      BY HoldsOfSize
    <2>3. Counted(n)
      BY DEF RouteInv, HoldInv
    <2>4. IsFiniteSet(Holds(n)) /\ Holds(n) \cap HoldsOf(s, n) = HoldsOf(s, n)
      BY <1>1, <2>3, HoldsSplit DEF Counted
    <2>5. /\ IsFiniteSet(Holds(n)')
          /\ Cardinality(Holds(n)') =
                Cardinality(Holds(n)) - Cardinality(HoldsOf(s, n))
      BY <2>1, <2>4, FS_Difference
    <2>6. /\ Cardinality(Holds(n)) \in Nat /\ Cardinality(Holds(n)') \in Nat
          /\ Times(s, n) \in {1, 2}
      BY <2>4, <2>5, FS_CardinalityType, DefTyped
    <2>7. CASE n \notin DOMAIN table
      <3>1. n \notin DOMAIN table'
        BY <1>1, <2>7, ForgottenTyped
      <3>. QED
        BY <2>1, <2>3, <2>5, <2>7, <3>1 DEF Counted
    <2>8. CASE n \in DOMAIN table /\ table' = table /\ ListsFail = TRUE
      <3>1. table[n].holders \in Nat /\ Cardinality(Holds(n)) <= table[n].holders
        BY <2>3, <2>8 DEF TypeOK, Counted
      <3>2. Cardinality(Holds(n)') <= Cardinality(Holds(n))
        BY <2>2, <2>5, <2>6
      <3>. QED
        BY <2>5, <2>6, <2>8, <3>1, <3>2 DEF Counted
    <2>9. CASE n \in DOMAIN table /\ table' = Forgotten(s)
      <3>1. table[n].holders \in Nat /\ Cardinality(Holds(n)) <= table[n].holders
        BY <2>3, <2>9 DEF TypeOK, Counted
      <3>2. CASE n \in Writing(s) /\ ~(table[n].holders > Times(s, n))
        <4>1. n \notin DOMAIN table'
          BY <2>9, <3>2, ForgottenTyped
        <4>2. Cardinality(Holds(n)') = 0
          BY <2>2, <2>5, <2>6, <3>1, <3>2
        <4>3. Holds(n)' = {}
          BY <2>5, <4>2, FS_EmptySet
        <4>. QED
          BY <2>5, <4>1, <4>3 DEF Counted
      <3>3. CASE n \notin Writing(s) \/ table[n].holders > Times(s, n)
        <4>1. /\ n \in DOMAIN table'
              /\ table'[n].holders =
                    IF n \in Writing(s) THEN table[n].holders - Times(s, n)
                    ELSE table[n].holders
          BY <2>9, <3>3, ForgottenTyped
        <4>2. CASE n \in Writing(s)
          BY <2>2, <2>3, <2>5, <2>6, <2>9, <3>1, <4>1, <4>2 DEF Counted
        <4>3. CASE n \notin Writing(s)
          BY <2>2, <2>3, <2>5, <2>6, <2>9, <3>1, <4>1, <4>3 DEF Counted
        <4>. QED
          BY <4>2, <4>3
      <3>. QED
        BY <3>2, <3>3
    <2>. QED
      BY <1>1, <2>7, <2>8, <2>9
  <1>3. /\ DOMAIN table' \subseteq DOMAIN table
        /\ \A n \in DOMAIN table' : table'[n].route = table[n].route
    BY <1>1, ForgottenTyped
  <1>4. AgreeInv'
    <2> SUFFICES ASSUME NEW r \in Subscriptions, Holding(r)',
                        NEW n \in Writing(r), n \in DOMAIN table'
                 PROVE  table'[n].route = Writes(r)
      BY <1>1 DEF AgreeInv, Writing, Writes
    <2>. QED
      BY <1>1, <1>3 DEF RouteInv, AgreeInv
  <1>5. ForeignInv'
    BY <1>1, <1>3 DEF RouteInv, ForeignInv
  <1>. QED
    BY <1>2, <1>4, <1>5 DEF RouteInv, HoldInv

\* Only an opening with routes is ever recorded.
RecordedRoutes == \A s \in Subscriptions : stage[s] = "recorded" => Routes(s)

LEMMA RouteStep ==
    TypeOK /\ RouteInv /\ RecordedRoutes /\ [Next]_vars
        => RouteInv' /\ RecordedRoutes'
  <1> SUFFICES ASSUME TypeOK, RouteInv, RecordedRoutes, [Next]_vars
               PROVE  RouteInv' /\ RecordedRoutes'
    OBVIOUS
  <1>a. stage \in [Subscriptions -> {"new", "recorded", "failed", "open", "dropped"}]
    BY DEF TypeOK
  <1>b. def' = def
    BY DefStays
  <1>c. ASSUME UNCHANGED <<routes, stage>> PROVE RouteInv' /\ RecordedRoutes'
    BY <1>b, <1>c, RoutesStay DEF routes, Holding, Routes, RecordedRoutes
  <1>1. ASSUME NEW s \in Subscriptions, Record(s)
        PROVE  RouteInv' /\ RecordedRoutes'
    <2>1. CASE Agrees(s)
      BY <1>1, <2>1, <1>a, <1>b, RecordRoutes DEF Record, RecordedRoutes, Routes
    <2>2. CASE ~Agrees(s)
      <3>1. UNCHANGED <<table, foreign>> /\ stage' = [stage EXCEPT ![s] = "failed"]
            /\ stage[s] \in {"new", "failed"}
        BY <1>1, <2>2 DEF Record, routes
      <3>. QED
        BY <3>1, <1>a, <1>b, RoutesStay DEF Holding, Routes, RecordedRoutes
    <2>. QED
      BY <2>1, <2>2
  <1>2. ASSUME NEW s \in Subscriptions, Connect(s)
        PROVE  RouteInv' /\ RecordedRoutes'
    BY <1>2, <1>a, <1>b, RoutesStay
    DEF Connect, routes, Holding, Routes, RecordedRoutes
  <1>3. ASSUME NEW s \in Subscriptions, Fail(s)
        PROVE  RouteInv' /\ RecordedRoutes'
    BY <1>3, <1>a, <1>b, FailRoutes DEF Fail, RecordedRoutes, Routes
  <1>4. ASSUME NEW s \in Subscriptions, Drop(s)
        PROVE  RouteInv' /\ RecordedRoutes'
    BY <1>4, <1>a, <1>b, RoutesStay
    DEF Drop, routes, Holding, Routes, RecordedRoutes
  <1>5. ASSUME NEW s \in Subscriptions,
               \/ Read(s) \/ Arrive(s) \/ TakeMessage(s) \/ TimeOut(s)
               \/ Unblock(s) \/ Quit(s)
        PROVE  RouteInv' /\ RecordedRoutes'
    BY <1>5, <1>c DEF Read, Arrive, TakeMessage, TimeOut, Unblock, Quit
  <1>6. ASSUME Produce \/ Shutdown \/ Finish \/ UNCHANGED vars
        PROVE  RouteInv' /\ RecordedRoutes'
    BY <1>6, <1>c DEF Produce, Shutdown, Finish, vars
  <1>. QED
    BY <1>1, <1>2, <1>3, <1>4, <1>5, <1>6 DEF Next

LEMMA RouteInit == Init => RouteInv /\ RecordedRoutes
  <1> SUFFICES ASSUME Init PROVE RouteInv /\ RecordedRoutes
    OBVIOUS
  <1>1. DOMAIN table = {} /\ \A s \in Subscriptions : stage[s] = "new"
    BY DEF Init
  <1>2. \A n : Holds(n) = {}
    BY <1>1 DEF Holds, Holding
  <1>. QED
    BY <1>1, <1>2, FS_EmptySet
    DEF RouteInv, HoldInv, Counted, AgreeInv, ForeignInv, Holding, RecordedRoutes

LEMMA RoutesHeld == Spec => [](TypeOK /\ RouteInv)
  BY InitTyped, TypeStep, RouteInit, RouteStep, PTL DEF Spec

\* However openings of any number of subscriptions overlap, fail and are tried
\* again, what an open subscription reads is written to its names
\* (route.rs:81-123).
THEOREM WritesAreRead == Spec => []WrittenAsRead
  <1>1. TypeOK /\ RouteInv => WrittenAsRead
    <2> SUFFICES ASSUME TypeOK, RouteInv, NEW s \in Subscriptions,
                        stage[s] \in {"open", "dropped"}, Routes(s),
                        NEW n \in Writing(s)
                 PROVE  RouteOf(n) = Writes(s)
      BY DEF WrittenAsRead
    <2>1. Holding(s)
      BY DEF Holding
    <2>2. n \in Names /\ HoldsOf(s, n) # {} /\ HoldsOf(s, n) \subseteq Holds(n)
      BY <2>1, DefTyped, HoldsOfSize, HoldsSplit
    <2>3. n \in DOMAIN table
      BY <2>2 DEF RouteInv, HoldInv, Counted
    <2>. QED
      BY <2>1, <2>3 DEF RouteInv, AgreeInv, ForeignInv, RouteOf
  <1>. QED
    BY <1>1, RoutesHeld, PTL

\* Where no opening of a list fails after it recorded its routes, the table
\* holds no name for a subscription that did not open: each count is exactly
\* the holds of the subscriptions that are opening or opened.
THEOREM FailedHoldNothing ==
    ASSUME ListsFail = FALSE PROVE Spec => []OnlyOpenedHold
  <1>1. TypeOK /\ RouteInv => OnlyOpenedHold
    <2> SUFFICES ASSUME TypeOK, RouteInv, NEW n \in DOMAIN table
                 PROVE  \E s \in Subscriptions :
                           stage[s] \in {"recorded", "open", "dropped"}
                           /\ Routes(s) /\ n \in Writing(s)
      BY DEF OnlyOpenedHold
    <2>1. n \in Names /\ table[n].holders \in Nat \ {0}
      BY DEF TypeOK
    <2>2. IsFiniteSet(Holds(n)) /\ Cardinality(Holds(n)) # 0
      BY <2>1 DEF RouteInv, HoldInv, Counted
    <2>3. PICK p \in Holds(n) : TRUE
      BY <2>2, FS_EmptySet
    <2>4. p[1] \in Subscriptions /\ Holding(p[1]) /\ Named(p) = n
      BY <2>3 DEF Holds
    <2>5. n # NoName
      BY <2>1, BrokerAssumption
    <2>. QED
      BY <2>4, <2>5 DEF Holding, Named, Writing
  <1>. QED
    BY <1>1, RoutesHeld, PTL
=============================================================================
