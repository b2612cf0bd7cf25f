------------------------------- MODULE LSQProofs --------------------------------
(***************************************************************************)
(* For queues of every size, every set of addresses and every program: each *)
(* memory operation is accounted for from dispatch to retirement, and a    *)
(* load waits for the youngest older store to its address.                 *)
(***************************************************************************)
EXTENDS LSQ, FiniteSetTheorems, SequenceTheorems, WellFoundedInduction, TLAPS

-----------------------------------------------------------------------------
(* Numbers and sequences.                                                  *)

(* A set of numbers that is not empty has a first one. *)
LEMMA FirstFound ==
  ASSUME NEW S, S \subseteq Nat, S # {}
  PROVE  FirstOf(S) \in S /\ \A y \in S : FirstOf(S) <= y
<1>. DEFINE R == OpToRel(<, Nat)
<1>1. \A x, y \in Nat : x < y => <<x, y>> \in R
  BY DEF OpToRel
<1>2. IsWellFoundedOn(R, Nat)
  BY NatLessThanWellFounded
<1>. HIDE DEF R
<1>3. PICK x \in S : \A y \in S : <<y, x>> \notin R
  BY <1>2, WFMin
<1>4. \A y \in S : ~(y < x)
  BY <1>1, <1>3
<1>5. \A y \in S : x <= y
  BY <1>4
<1>. QED  BY <1>5 DEF FirstOf

LEMMA SeqParts ==
  ASSUME NEW S, NEW s \in Seq(S)
  PROVE  /\ Len(s) \in Nat /\ DOMAIN s = 1 .. Len(s)
         /\ \A i \in 1 .. Len(s) : s[i] \in S
BY LenProperties, ElementOfSeq

LEMMA FunctionIsSeq ==
  ASSUME NEW S, NEW n \in Nat, NEW f \in [1 .. n -> S]
  PROVE  f \in Seq(S) /\ Len(f) = n
<1>1. f \in Seq(S)
  BY SeqDef
<1>. QED  BY <1>1, LenProperties

(* A sequence without its head. *)
LEMMA TailIs ==
  ASSUME NEW S, NEW s \in Seq(S), s # <<>>
  PROVE  /\ Head(s) = s[1] /\ Len(s) \in Nat \ {0} /\ 1 \in 1 .. Len(s)
         /\ Tail(s) \in Seq(S) /\ Len(Tail(s)) = Len(s) - 1
         /\ DOMAIN Tail(s) = 1 .. Len(s) - 1
         /\ \A i \in 1 .. Len(s) - 1 : i + 1 \in 1 .. Len(s) /\ Tail(s)[i] = s[i + 1]
<1>1. Len(s) \in Nat /\ Len(s) # 0
  BY LenProperties, EmptySeq
<1>2. /\ Head(s) = s[1] /\ Tail(s) \in Seq(S) /\ Len(Tail(s)) = Len(s) - 1
      /\ \A i \in 1 .. Len(Tail(s)) : Tail(s)[i] = s[i + 1]
  BY HeadTailProperties
<1>3. DOMAIN Tail(s) = 1 .. Len(Tail(s))
  BY <1>2, LenProperties
<1>4. \A i \in 1 .. Len(s) - 1 : i + 1 \in 1 .. Len(s)
  BY <1>1
<1>. QED  BY <1>1, <1>2, <1>3, <1>4

-----------------------------------------------------------------------------
(* What of a state the steps of the queues keep.                           *)

(* The same instructions, which may have come further. *)
SameProgram(r, s) ==
  /\ s \in Seq(RobType) /\ Len(s) = Len(r)
  /\ \A i \in 1 .. Len(r) : s[i].id = r[i].id /\ s[i].loads = r[i].loads /\ s[i].stores = r[i].stores

(* The same loads, waiting for the same. *)
SameLoads(l, m) ==
  /\ m \in [Slots -> LoadType \cup {Empty}]
  /\ \A q \in Slots :
       /\ m[q] = Empty <=> l[q] = Empty
       /\ l[q] # Empty => m[q].id = l[q].id /\ m[q].addr = l[q].addr /\ m[q].producer = l[q].producer

(* The same stores, and the same loads that wait for them. *)
SameStores(s, t) ==
  /\ t \in Seq(StoreType) /\ Len(t) = Len(s)
  /\ \A n \in 1 .. Len(s) :
       /\ t[n].id = s[n].id /\ t[n].addr = s[n].addr
       /\ t[n].issued = s[n].issued /\ t[n].dependents = s[n].dependents

LEMMA NotEmpty == \A e \in LoadType \cup {Empty} : e # Empty <=> e \in LoadType
BY DEF LoadType, Empty, Ids

LEMMA RobFields ==
  \A e \in RobType : /\ e.id \in Ids /\ e.id \in Nat \ {0} /\ e.ops \in Nat
                     /\ e.loads \in Seq(Addr) /\ e.stores \in Seq(Addr)
                     /\ Len(e.loads) \in Nat /\ Len(e.stores) \in Nat
                     /\ NumMemOps(e) \in Nat
                     /\ NumMemOps(e) = Len(e.loads) + Len(e.stores)
BY LenProperties DEF RobType, Ids, NumMemOps

LEMMA LoadFields ==
  \A e \in LoadType : /\ e.id \in Ids /\ e.id \in Nat \ {0} /\ e.addr \in Addr
                      /\ e.issued \in BOOLEAN /\ e.ready \in BOOLEAN
                      /\ e.producer \in Nat /\ (e.producer # NoProducer => e.producer \in Ids)
BY DEF LoadType, Ids, NoProducer

LEMMA StoreFields ==
  \A e \in StoreType : /\ e.id \in Ids /\ e.id \in Nat \ {0} /\ e.addr \in Addr
                       /\ e.issued \in BOOLEAN /\ e.ready \in BOOLEAN
                       /\ e.dependents \subseteq Slots /\ e.id # NoProducer
BY DEF StoreType, Ids, NoProducer

LEMMA OpsAdded ==
  \A e \in RobType, k \in Nat :
    LET f == [e EXCEPT !.ops = @ + k]
    IN  /\ f \in RobType /\ f.id = e.id /\ f.loads = e.loads /\ f.stores = e.stores
        /\ f.ops = e.ops + k /\ f.executed = e.executed /\ f.completed = e.completed
<1>1. ASSUME NEW e \in RobType, NEW k \in Nat
      PROVE  LET f == [e EXCEPT !.ops = @ + k]
             IN  /\ f \in RobType /\ f.id = e.id /\ f.loads = e.loads /\ f.stores = e.stores
                 /\ f.ops = e.ops + k /\ f.executed = e.executed /\ f.completed = e.completed
  BY DEF RobType
<1>. QED  BY <1>1

(* LSQ_ENTRY::finish counts operations, and leaves the program as it is. *)
LEMMA FinishedIs ==
  ASSUME rob \in Seq(RobType), NEW n \in [Ids -> Nat]
  PROVE  /\ SameProgram(rob, Finished(n))
         /\ \A i \in 1 .. Len(rob) :
              /\ Finished(n)[i].ops = rob[i].ops + n[rob[i].id]
              /\ Finished(n)[i].executed = rob[i].executed
              /\ Finished(n)[i].completed = rob[i].completed
<1>1. /\ Len(rob) \in Nat /\ DOMAIN rob = 1 .. Len(rob)
      /\ \A i \in 1 .. Len(rob) : rob[i] \in RobType
  BY SeqParts
<1>2. ASSUME NEW i \in 1 .. Len(rob)
      PROVE  /\ Finished(n)[i] \in RobType
             /\ Finished(n)[i].id = rob[i].id /\ Finished(n)[i].loads = rob[i].loads
             /\ Finished(n)[i].stores = rob[i].stores
             /\ Finished(n)[i].ops = rob[i].ops + n[rob[i].id]
             /\ Finished(n)[i].executed = rob[i].executed
             /\ Finished(n)[i].completed = rob[i].completed
  <2>1. Finished(n)[i] = [rob[i] EXCEPT !.ops = @ + n[rob[i].id]]
    BY <1>1 DEF Finished
  <2>2. rob[i] \in RobType /\ n[rob[i].id] \in Nat
    BY <1>1, RobFields
  <2>. HIDE DEF Finished
  <2>. QED  BY <2>1, <2>2, OpsAdded
<1>3. Finished(n) \in Seq(RobType) /\ Len(Finished(n)) = Len(rob)
  <2>1. Finished(n) \in [1 .. Len(rob) -> RobType]
    BY <1>1, <1>2 DEF Finished
  <2>. QED  BY <1>1, <2>1, FunctionIsSeq
<1>. QED  BY <1>2, <1>3 DEF SameProgram

-----------------------------------------------------------------------------
(* Counting the operations of an instruction.                              *)
LoadsOf(l, d) == {q \in Slots : l[q] # Empty /\ l[q].id = d}
StoresOf(s, d) == {n \in DOMAIN s : s[n].id = d}
WaitingOf(s, d) == {n \in DOMAIN s : s[n].id = d /\ ~s[n].issued}

LEMMA CountsAre ==
  ASSUME LSQAssumption,
         NEW l \in [Slots -> LoadType \cup {Empty}], NEW s \in Seq(StoreType), NEW d
  PROVE  /\ IsFiniteSet(LoadsOf(l, d)) /\ Cardinality(LoadsOf(l, d)) \in Nat
         /\ IsFiniteSet(StoresOf(s, d)) /\ Cardinality(StoresOf(s, d)) \in Nat
         /\ IsFiniteSet(WaitingOf(s, d)) /\ Cardinality(WaitingOf(s, d)) \in Nat
<1>1. IsFiniteSet(Slots)
  BY FS_Interval DEF LSQAssumption, Slots
<1>2. IsFiniteSet(DOMAIN s)
  BY LenProperties, FS_Interval
<1>3. LoadsOf(l, d) \in SUBSET Slots
  BY DEF LoadsOf
<1>4. StoresOf(s, d) \in SUBSET DOMAIN s /\ WaitingOf(s, d) \in SUBSET DOMAIN s
  BY DEF StoresOf, WaitingOf
<1>. QED  BY <1>1, <1>2, <1>3, <1>4, FS_Subset, FS_CardinalityType

(* The loads that stay and those that are finished are all of them. *)
LEMMA ReleasedCounted ==
  ASSUME LSQAssumption, LQ \in [Slots -> LoadType \cup {Empty}], NEW R \in SUBSET Slots,
         \A q \in R : LQ[q] # Empty
  PROVE  /\ Released(R) \in [Slots -> LoadType \cup {Empty}]
         /\ \A q \in Slots : Released(R)[q] # Empty => q \notin R /\ Released(R)[q] = LQ[q]
         /\ \A q \in Slots : q \notin R => Released(R)[q] = LQ[q]
         /\ \A q \in R : Released(R)[q] = Empty
         /\ CountIn(R) \in [Ids -> Nat]
         /\ \A d \in Ids : Cardinality(LoadsOf(LQ, d)) =
                             Cardinality(LoadsOf(Released(R), d)) + CountIn(R)[d]
<1>1. \A q \in Slots : Released(R)[q] = IF q \in R THEN Empty ELSE LQ[q]
  BY DEF Released
<1>2. Released(R) \in [Slots -> LoadType \cup {Empty}]
  BY DEF Released
<1>. DEFINE G(d) == {q \in R : LQ[q].id = d}
<1>3. ASSUME NEW d \in Ids
      PROVE  /\ Cardinality(G(d)) \in Nat
             /\ Cardinality(LoadsOf(LQ, d)) = Cardinality(LoadsOf(Released(R), d)) + Cardinality(G(d))
  <2>1. IsFiniteSet(LoadsOf(LQ, d))
    <3>1. IsFiniteSet(Slots)
      BY FS_Interval DEF LSQAssumption, Slots
    <3>2. LoadsOf(LQ, d) \in SUBSET Slots
      BY DEF LoadsOf
    <3>. QED  BY <3>1, <3>2, FS_Subset
  <2>2. LoadsOf(Released(R), d) = LoadsOf(LQ, d) \ G(d)
    <3>1. ASSUME NEW q \in Slots
          PROVE  Released(R)[q] # Empty /\ Released(R)[q].id = d <=>
                   LQ[q] # Empty /\ LQ[q].id = d /\ ~(q \in R /\ LQ[q].id = d)
      BY <1>1
    <3>. QED  BY <3>1 DEF LoadsOf
  <2>3. LoadsOf(LQ, d) \cap G(d) = G(d)
    BY DEF LoadsOf
  <2>4. G(d) \in SUBSET LoadsOf(LQ, d)
    BY DEF LoadsOf
  <2>. HIDE DEF G
  <2>5. Cardinality(LoadsOf(LQ, d) \ G(d)) = Cardinality(LoadsOf(LQ, d)) - Cardinality(G(d))
    BY ZenonT(40), <2>1, <2>3, FS_Difference
  <2>6. Cardinality(G(d)) \in Nat /\ Cardinality(LoadsOf(LQ, d)) \in Nat
    BY <2>1, <2>4, FS_Subset, FS_CardinalityType
  <2>. QED  BY <2>2, <2>5, <2>6
<1>4. \A d \in Ids : CountIn(R)[d] = Cardinality(G(d))
  BY DEF CountIn
<1>5. CountIn(R) \in [Ids -> Nat]
  <2>1. \A d \in Ids : Cardinality(G(d)) \in Nat
    BY <1>3
  <2>. QED  BY <2>1 DEF CountIn
<1>6. \A d \in Ids : Cardinality(LoadsOf(LQ, d)) =
                       Cardinality(LoadsOf(Released(R), d)) + CountIn(R)[d]
  BY <1>3, <1>4
<1>7. ASSUME NEW q \in Slots, Released(R)[q] # Empty
      PROVE  q \notin R /\ Released(R)[q] = LQ[q]
  BY <1>1, <1>7
<1>. QED  BY <1>1, <1>2, <1>5, <1>6, <1>7

(* The positions of a sequence without its head are those that were after   *)
(* the first, moved by one.                                                *)
LEMMA MovedCounted ==
  ASSUME NEW n \in Nat, NEW S \in SUBSET (2 .. n), NEW T,
         T = {i \in 1 .. n - 1 : i + 1 \in S}
  PROVE  IsFiniteSet(T) /\ Cardinality(T) = Cardinality(S)
<1>. DEFINE f == [i \in S |-> i - 1]
<1>1. IsFiniteSet(S)
  <2>1. IsFiniteSet(2 .. n)
    BY FS_Interval
  <2>. QED  BY <2>1, FS_Subset
<1>2. f \in Bijection(S, T)
  <2>1. \A i \in S : i \in Nat /\ i >= 2 /\ i <= n /\ f[i] = i - 1 /\ i - 1 \in 1 .. n - 1 /\ (i - 1) + 1 = i
    OBVIOUS
  <2>2. f \in [S -> T]
    BY <2>1
  <2>3. \A i, j \in S : f[i] = f[j] => i = j
    BY <2>1
  <2>4. \A t \in T : t + 1 \in S /\ f[t + 1] = t
    OBVIOUS
  <2>. HIDE DEF f
  <2>5. f \in Injection(S, T)
    BY <2>2, <2>3 DEF Injection, IsInjective
  <2>6. f \in Surjection(S, T)
    BY <2>2, <2>4 DEF Surjection
  <2>. QED  BY <2>5, <2>6 DEF Bijection
<1>. HIDE DEF f
<1>3. ExistsBijection(S, T)
  BY <1>2 DEF ExistsBijection
<1>. QED  BY <1>1, <1>3, FS_Bijection

-----------------------------------------------------------------------------
(* std::max_element.                                                       *)

(* The positions max_element has stood at after each store. *)
Stands(f, N, a) ==
  f = [n \in 1 .. N |->
        IF n = 1 THEN 1
        ELSE IF Precedes(SQ[f[n - 1]], SQ[n], a) THEN n ELSE f[n - 1]]

LEMMA StandsExists ==
  ASSUME NEW a, NEW N \in Nat
  PROVE  \E f : Stands(f, N, a)
<1>. DEFINE S == {n \in Nat : ~\E f : Stands(f, n, a)}
<1>1. SUFFICES ASSUME S # {} PROVE FALSE
  OBVIOUS
<1>. DEFINE n == FirstOf(S)
<1>2. n \in S /\ \A m \in S : n <= m
  BY <1>1, FirstFound
<1>3. n \in Nat /\ ~\E f : Stands(f, n, a)
  BY <1>2
<1>4. n # 0
  <2>1. Stands([m \in 1 .. 0 |-> 1], 0, a)
    BY DEF Stands
  <2>. QED  BY <2>1, <1>3
<1>5. n - 1 \in Nat /\ n - 1 \notin S
  <2>. HIDE DEF n
  <2>1. n - 1 \in Nat /\ ~(n <= n - 1)
    BY <1>3, <1>4
  <2>. QED  BY <2>1, <1>2
<1>. HIDE DEF n
<1>6. PICK f : Stands(f, n - 1, a)
  BY <1>5
<1>. HIDE DEF S
<1>. DEFINE V(h, m) == IF m = 1 THEN 1
                       ELSE IF Precedes(SQ[h[m - 1]], SQ[m], a) THEN m ELSE h[m - 1]
            g == [m \in 1 .. n |-> IF m < n THEN f[m] ELSE V(f, n)]
<1>7. \A m \in 1 .. n - 1 : f[m] = V(f, m)
  <2>1. f = [m \in 1 .. n - 1 |-> V(f, m)]
    BY <1>6 DEF Stands
  <2>. QED  BY <2>1
<1>8. \A m \in 1 .. n : m # 1 => g[m - 1] = f[m - 1]
  BY <1>3
<1>9. \A m \in 1 .. n : V(g, m) = V(f, m)
  BY <1>8
<1>10. \A m \in 1 .. n : g[m] = V(f, m)
  <2>1. ASSUME NEW m \in 1 .. n PROVE g[m] = V(f, m)
    <3>1. CASE m < n
      <4>1. m \in 1 .. n - 1
        BY <3>1, <1>3
      <4>. QED  BY <3>1, <4>1, <1>7
    <3>2. CASE ~(m < n)
      <4>1. m = n
        BY <3>2, <1>3
      <4>2. g[n] = V(f, n)
        BY <1>3, <1>4
      <4>. QED  BY <4>1, <4>2
    <3>. QED  BY <3>1, <3>2
  <2>. QED  BY <2>1
<1>11. g = [m \in 1 .. n |-> g[m]]
  OBVIOUS
<1>. HIDE DEF g
<1>12. g = [m \in 1 .. n |-> V(g, m)]
  <2>1. \A m \in 1 .. n : g[m] = V(g, m)
    BY <1>9, <1>10
  <2>. HIDE DEF V
  <2>. QED  BY <1>11, <2>1
<1>13. Stands(g, n, a)
  BY <1>12 DEF Stands
<1>. QED  BY <1>13, <1>3

(* max_element ends at a store to the address, if there is one, and at the  *)
(* youngest of them.                                                       *)
LEMMA MaxElementIs ==
  ASSUME NEW a, SQ \in Seq(StoreType), SQ # <<>>
  PROVE  /\ MaxElement(a) \in 1 .. Len(SQ)
         /\ \A m \in 1 .. Len(SQ) : SQ[m].addr = a =>
              SQ[MaxElement(a)].addr = a /\ SQ[m].id <= SQ[MaxElement(a)].id
<1>1. Len(SQ) \in Nat \ {0} /\ \A n \in 1 .. Len(SQ) : SQ[n] \in StoreType
  BY EmptySeq, SeqParts
<1>. DEFINE f == CHOOSE f : Stands(f, Len(SQ), a)
<1>2. MaxElement(a) = f[Len(SQ)]
  BY DEF MaxElement, Stands
<1>3. Stands(f, Len(SQ), a)
  BY <1>1, StandsExists
<1>. HIDE DEF f
<1>4. \A n \in 1 .. Len(SQ) :
        f[n] = IF n = 1 THEN 1
               ELSE IF Precedes(SQ[f[n - 1]], SQ[n], a) THEN n ELSE f[n - 1]
  BY <1>3 DEF Stands
<1>. DEFINE Right(n) ==
              /\ f[n] \in 1 .. n
              /\ \A m \in 1 .. n : SQ[m].addr = a => SQ[f[n]].addr = a /\ SQ[m].id <= SQ[f[n]].id
            S == {n \in 1 .. Len(SQ) : ~Right(n)}
<1>5. \A n \in 1 .. Len(SQ) : SQ[n].id \in Nat
  BY <1>1, StoreFields
<1>6. Right(1)
  <2>1. f[1] = 1 /\ 1 \in 1 .. 1 /\ 1 \in 1 .. Len(SQ) /\ SQ[1].id \in Nat
    BY <1>1, <1>4, <1>5
  <2>2. \A m \in 1 .. 1 : m = 1
    OBVIOUS
  <2>. QED  BY <2>1, <2>2
<1>7. ASSUME NEW n \in 1 .. Len(SQ), n # 1, Right(n - 1)
      PROVE  Right(n)
  <2>1. /\ n - 1 \in 1 .. Len(SQ) /\ n \in Nat
        /\ f[n] = IF Precedes(SQ[f[n - 1]], SQ[n], a) THEN n ELSE f[n - 1]
    BY <1>1, <1>4, <1>7
  <2>2. f[n - 1] \in 1 .. n /\ f[n - 1] \in 1 .. Len(SQ)
    BY <1>1, <1>7, <2>1
  <2>3. f[n] \in 1 .. n
    BY <2>1, <2>2
  <2>4. /\ SQ[f[n - 1]].id \in Nat /\ SQ[n].id \in Nat
    BY <1>5, <2>2
  <2>5. ASSUME NEW m \in 1 .. n, SQ[m].addr = a
        PROVE  SQ[f[n]].addr = a /\ SQ[m].id <= SQ[f[n]].id
    <3>1. SQ[m].id \in Nat
      BY <1>5, <2>1, <1>1
    <3>2. m # n => m \in 1 .. n - 1
      BY <2>1
    <3>3. m # n => SQ[f[n - 1]].addr = a /\ SQ[m].id <= SQ[f[n - 1]].id
      BY <3>2, <2>5, <1>7
    <3>4. CASE Precedes(SQ[f[n - 1]], SQ[n], a)
      <4>1. f[n] = n
        BY <2>1, <3>4
      <4>2. SQ[f[n - 1]].addr = a => SQ[n].addr = a /\ SQ[f[n - 1]].id < SQ[n].id
        BY <3>4 DEF Precedes
      <4>3. CASE m = n
        BY <4>1, <4>3, <2>5, <3>1
      <4>4. CASE m # n
        BY <4>1, <4>2, <4>4, <3>3, <3>1, <2>4
      <4>. QED  BY <4>3, <4>4
    <3>5. CASE ~Precedes(SQ[f[n - 1]], SQ[n], a)
      <4>1. f[n] = f[n - 1]
        BY <2>1, <3>5
      <4>2. SQ[f[n - 1]].addr = a /\ ~(SQ[n].addr = a /\ SQ[f[n - 1]].id < SQ[n].id)
        BY <3>5 DEF Precedes
      <4>3. CASE m = n
        BY <4>1, <4>2, <4>3, <2>5, <2>4
      <4>4. CASE m # n
        BY <4>1, <4>4, <3>3
      <4>. QED  BY <4>3, <4>4
    <3>. QED  BY <3>4, <3>5
  <2>. QED  BY <2>3, <2>5
<1>. HIDE DEF Right
<1>8. S = {}
  <2>1. SUFFICES ASSUME S # {} PROVE FALSE
    OBVIOUS
  <2>2. S \subseteq Nat
    BY <1>1
  <2>3. PICK n \in S : \A m \in S : n <= m
    <3>. HIDE DEF S
    <3>. QED  BY <2>1, <2>2, FirstFound
  <2>4. n \in 1 .. Len(SQ) /\ ~Right(n)
    OBVIOUS
  <2>5. n # 1
    BY <2>4, <1>6
  <2>6. n - 1 \in 1 .. Len(SQ) /\ ~(n <= n - 1)
    BY <2>4, <2>5, <1>1
  <2>7. Right(n - 1)
    BY <2>3, <2>6
  <2>. QED  BY <2>4, <2>5, <2>7, <1>7
<1>9. Right(Len(SQ))
  BY <1>1, <1>8
<1>10. f[Len(SQ)] \in 1 .. Len(SQ) /\ \A m \in 1 .. Len(SQ) : SQ[m].addr = a =>
         SQ[f[Len(SQ)]].addr = a /\ SQ[m].id <= SQ[f[Len(SQ)]].id
  BY <1>9 DEF Right
<1>. QED  BY <1>2, <1>10

(* A load is forwarded from the youngest of the stores to its address. *)
LEMMA ForwardedIs ==
  ASSUME NEW a, SQ \in Seq(StoreType)
  PROVE  /\ ForwardedFrom(a) \in 0 .. Len(SQ)
         /\ ForwardedFrom(a) = 0 => \A m \in 1 .. Len(SQ) : SQ[m].addr # a
         /\ ForwardedFrom(a) # 0 =>
              /\ SQ[ForwardedFrom(a)].addr = a
              /\ \A m \in 1 .. Len(SQ) : SQ[m].addr = a => SQ[m].id <= SQ[ForwardedFrom(a)].id
<1>1. Len(SQ) \in Nat /\ (SQ = <<>> => Len(SQ) = 0)
  BY SeqParts, EmptySeq
<1>2. CASE SQ = <<>>
  BY <1>1, <1>2 DEF ForwardedFrom
<1>3. CASE SQ # <<>>
  <2>1. /\ MaxElement(a) \in 1 .. Len(SQ)
        /\ \A m \in 1 .. Len(SQ) : SQ[m].addr = a =>
             SQ[MaxElement(a)].addr = a /\ SQ[m].id <= SQ[MaxElement(a)].id
    BY <1>3, MaxElementIs
  <2>2. ForwardedFrom(a) = IF SQ[MaxElement(a)].addr = a THEN MaxElement(a) ELSE 0
    BY <1>3 DEF ForwardedFrom
  <2>. QED  BY <1>1, <2>1, <2>2
<1>. QED  BY <1>2, <1>3

-----------------------------------------------------------------------------
(* The invariants in the form the proofs use, for any values of the queues. *)

Counted(r, l, s, left) ==
  \A i \in 1 .. Len(r) :
    r[i].ops + (Cardinality(LoadsOf(l, r[i].id)) + Cardinality(WaitingOf(s, r[i].id)))
      + (IF i = Len(r) THEN left ELSE 0) = NumMemOps(r[i])

(* The operations of the youngest instruction that are not placed. *)
Left == IF pc = "dispatch" THEN NumMemOps(Youngest) - placed ELSE 0

(* The load e waits for the youngest store before it, if there is one. *)
Older(e, s, n) == n \in DOMAIN s /\ s[n].addr = e.addr /\ s[n].id < e.id
Sees(e, s) ==
  /\ \A n : Older(e, s, n) => s[n].id <= e.producer
  /\ e.producer # NoProducer => \E n : Older(e, s, n) /\ s[n].id = e.producer

InOrder(s) ==
  \A m, n \in 1 .. Len(s) : m < n => s[m].id <= s[n].id /\ (s[n].issued => s[m].issued)

LEMMA SeesOf ==
  ASSUME NEW e \in LoadType, NEW s \in Seq(StoreType), NEW older,
         \A d : d \in older <=> \E n : Older(e, s, n) /\ d = s[n].id
  PROVE  (IF older = {} THEN e.producer = NoProducer
          ELSE e.producer \in older /\ \A d \in older : d <= e.producer) <=> Sees(e, s)
<1>1. \A d : d \in older <=> \E n : Older(e, s, n) /\ d = s[n].id
  OBVIOUS
<1>2. \A n : Older(e, s, n) => s[n].id \in Nat \ {0}
  <2>1. \A n \in DOMAIN s : s[n].id \in Nat \ {0}
    BY SeqParts, StoreFields
  <2>. QED  BY <2>1 DEF Older
<1>3. e.producer \in Nat
  BY LoadFields
<1>4. ASSUME Sees(e, s)
      PROVE  IF older = {} THEN e.producer = NoProducer
             ELSE e.producer \in older /\ \A d \in older : d <= e.producer
  <2>1. e.producer # NoProducer => e.producer \in older
    BY <1>1, <1>4 DEF Sees
  <2>2. \A d \in older : d <= e.producer /\ d \in Nat \ {0}
    BY <1>1, <1>2, <1>4 DEF Sees
  <2>3. older # {} => e.producer # NoProducer
    BY <2>2, <1>3 DEF NoProducer
  <2>. QED  BY <2>1, <2>2, <2>3
<1>5. ASSUME IF older = {} THEN e.producer = NoProducer
             ELSE e.producer \in older /\ \A d \in older : d <= e.producer
      PROVE  Sees(e, s)
  <2>1. ASSUME NEW n, Older(e, s, n) PROVE s[n].id <= e.producer
    <3>1. s[n].id \in older
      BY <1>1, <2>1
    <3>. QED  BY <3>1, <1>5
  <2>2. ASSUME e.producer # NoProducer
        PROVE  \E n : Older(e, s, n) /\ s[n].id = e.producer
    BY <1>1, <1>5, <2>2
  <2>. QED  BY <2>1, <2>2 DEF Sees
<1>. QED  BY <1>4, <1>5

LEMMA SeesIs ==
  ASSUME NEW e \in LoadType, NEW s \in Seq(StoreType), NEW older,
         older = {s[n].id : n \in {n \in DOMAIN s : s[n].addr = e.addr /\ s[n].id < e.id}}
  PROVE  (IF older = {} THEN e.producer = NoProducer
          ELSE e.producer \in older /\ \A d \in older : d <= e.producer) <=> Sees(e, s)
<1>1. \A d : d \in older <=> \E n : Older(e, s, n) /\ d = s[n].id
  BY DEF Older
<1>. QED  BY <1>1, SeesOf

LEMMA YoungestIs ==
  ASSUME LQ \in [Slots -> LoadType \cup {Empty}], SQ \in Seq(StoreType)
  PROVE  WaitsForYoungest <=> \A q \in Slots : LQ[q] # Empty => Sees(LQ[q], SQ)
<1>1. \A q \in Slots : LQ[q] # Empty => LQ[q] \in LoadType
  BY NotEmpty
<1>. DEFINE W(q) ==
              LET older == {SQ[n].id : n \in {n \in DOMAIN SQ : SQ[n].addr = LQ[q].addr /\ SQ[n].id < LQ[q].id}}
              IN  IF older = {} THEN LQ[q].producer = NoProducer
                  ELSE LQ[q].producer \in older /\ \A d \in older : d <= LQ[q].producer
<1>2. \A q \in Slots : LQ[q] # Empty => (W(q) <=> Sees(LQ[q], SQ))
  BY <1>1, SeesIs
<1>3. WaitsForYoungest <=> \A q \in Slots : LQ[q] # Empty => W(q)
  BY DEF WaitsForYoungest, Loads
<1>. HIDE DEF W
<1>. QED  BY <1>2, <1>3

LEMMA YoungestIsNext ==
  ASSUME LQ' \in [Slots -> LoadType \cup {Empty}], SQ' \in Seq(StoreType)
  PROVE  WaitsForYoungest' <=> \A q \in Slots : LQ'[q] # Empty => Sees(LQ'[q], SQ')
<1>1. \A q \in Slots : LQ'[q] # Empty => LQ'[q] \in LoadType
  BY NotEmpty
<1>. DEFINE W(q) ==
              LET older == {SQ'[n].id : n \in {n \in DOMAIN SQ' : SQ'[n].addr = LQ'[q].addr /\ SQ'[n].id < LQ'[q].id}}
              IN  IF older = {} THEN LQ'[q].producer = NoProducer
                  ELSE LQ'[q].producer \in older /\ \A d \in older : d <= LQ'[q].producer
<1>2. \A q \in Slots : LQ'[q] # Empty => (W(q) <=> Sees(LQ'[q], SQ'))
  BY <1>1, SeesIs
<1>3. WaitsForYoungest' <=> \A q \in Slots : LQ'[q] # Empty => W(q)
  BY DEF WaitsForYoungest, Loads, Slots, Empty
<1>. HIDE DEF W
<1>. QED  BY <1>2, <1>3

LEMMA CountedIs ==
  ASSUME rob \in Seq(RobType), \A i, j \in DOMAIN rob : i < j => rob[i].id < rob[j].id
  PROVE  OpsCounted <=> Counted(rob, LQ, SQ, Left)
<1>1. Len(rob) \in Nat /\ DOMAIN rob = 1 .. Len(rob) /\ \A i \in 1 .. Len(rob) : rob[i] \in RobType
  BY SeqParts
<1>2. \A d : Unfinished(d) = Cardinality(LoadsOf(LQ, d)) + Cardinality(WaitingOf(SQ, d))
  <2>1. \A d : {q \in Loads : LQ[q].id = d} = LoadsOf(LQ, d)
    BY DEF Loads, LoadsOf
  <2>. QED  BY <2>1 DEF Unfinished, WaitingOf
<1>3. ASSUME NEW i \in 1 .. Len(rob)
      PROVE  Unplaced(rob[i]) = IF i = Len(rob) THEN Left ELSE 0
  <2>1. CASE i = Len(rob)
    BY <2>1 DEF Unplaced, Left, Youngest
  <2>2. CASE i # Len(rob)
    <3>1. i < Len(rob) /\ Len(rob) \in 1 .. Len(rob)
      <4>1. Len(rob) \in Nat /\ i \in 1 .. Len(rob)
        BY <1>1
      <4>. QED  BY <2>2, <4>1
    <3>2. rob[i].id < rob[Len(rob)].id
      BY <3>1, <1>1
    <3>3. rob[i].id \in Nat
      BY <1>1, RobFields
    <3>4. rob[i] # Youngest
      BY <3>2, <3>3 DEF Youngest
    <3>. QED  BY <3>4, <2>2 DEF Unplaced
  <2>. QED  BY <2>1, <2>2
<1>4. \A i \in 1 .. Len(rob) : rob[i].ops \in Nat
  BY <1>1, RobFields
<1>. QED  BY <1>1, <1>2, <1>3 DEF OpsCounted, Counted

LEMMA CountedIsNext ==
  ASSUME rob' \in Seq(RobType), \A i, j \in DOMAIN rob' : i < j => rob'[i].id < rob'[j].id
  PROVE  OpsCounted' <=> Counted(rob', LQ', SQ', Left')
<1>1. Len(rob') \in Nat /\ DOMAIN rob' = 1 .. Len(rob') /\ \A i \in 1 .. Len(rob') : rob'[i] \in RobType
  BY SeqParts
<1>2. \A d : Unfinished(d)' = Cardinality(LoadsOf(LQ', d)) + Cardinality(WaitingOf(SQ', d))
  <2>1. \A d : {q \in Loads' : LQ'[q].id = d} = LoadsOf(LQ', d)
    BY DEF Loads, LoadsOf
  <2>. QED  BY <2>1 DEF Unfinished, WaitingOf
<1>3. ASSUME NEW i \in 1 .. Len(rob')
      PROVE  Unplaced(rob[i])' = IF i = Len(rob') THEN Left' ELSE 0
  <2>1. CASE i = Len(rob')
    BY <2>1 DEF Unplaced, Left, Youngest
  <2>2. CASE i # Len(rob')
    <3>1. i < Len(rob') /\ Len(rob') \in 1 .. Len(rob')
      <4>1. Len(rob') \in Nat /\ i \in 1 .. Len(rob')
        BY <1>1
      <4>. QED  BY <2>2, <4>1
    <3>2. rob'[i].id < rob'[Len(rob')].id
      BY <3>1, <1>1
    <3>3. rob'[i].id \in Nat
      BY <1>1, RobFields
    <3>4. rob'[i] # Youngest'
      BY <3>2, <3>3 DEF Youngest
    <3>. QED  BY <3>4, <2>2 DEF Unplaced
  <2>. QED  BY <2>1, <2>2
<1>4. \A i \in 1 .. Len(rob') : rob'[i].ops \in Nat
  BY <1>1, RobFields
<1>. QED  BY <1>1, <1>2, <1>3 DEF OpsCounted, Counted

LEMMA StoresHeldIs ==
  ASSUME SQ \in Seq(StoreType), rob \in Seq(RobType)
  PROVE  StoresHeld <=>
           /\ InOrder(SQ)
           /\ \A i \in 1 .. Len(rob) :
                Cardinality(StoresOf(SQ, rob[i].id)) =
                  IF pc = "dispatch" /\ i = Len(rob) THEN 0 ELSE Len(rob[i].stores)
BY LenProperties DEF StoresHeld, InOrder, StoresOf

LEMMA StoresHeldIsNext ==
  ASSUME SQ' \in Seq(StoreType), rob' \in Seq(RobType)
  PROVE  StoresHeld' <=>
           /\ InOrder(SQ')
           /\ \A i \in 1 .. Len(rob') :
                Cardinality(StoresOf(SQ', rob'[i].id)) =
                  IF pc' = "dispatch" /\ i = Len(rob') THEN 0 ELSE Len(rob'[i].stores)
BY LenProperties DEF StoresHeld, InOrder, StoresOf

-----------------------------------------------------------------------------
(* Steps that leave the loads and the stores as they are, up to what they    *)
(* have come to, keep what the queues hold.                                *)

LEMMA WaitingKept ==
  ASSUME LSQTypeOK, DependentsHeld, WaitsForYoungest, WaitsForOne,
         SameLoads(LQ, LQ'), SameStores(SQ, SQ')
  PROVE  DependentsHeld' /\ WaitsForYoungest' /\ WaitsForOne'
<1>1. /\ LQ \in [Slots -> LoadType \cup {Empty}] /\ SQ \in Seq(StoreType)
      /\ LQ' \in [Slots -> LoadType \cup {Empty}] /\ SQ' \in Seq(StoreType)
  BY DEF LSQTypeOK, SameLoads, SameStores
<1>2. /\ DOMAIN SQ = 1 .. Len(SQ) /\ DOMAIN SQ' = 1 .. Len(SQ)
      /\ \A n \in 1 .. Len(SQ) : SQ[n] \in StoreType
  BY <1>1, SeqParts DEF SameStores
<1>3. \A n \in 1 .. Len(SQ) :
        /\ SQ'[n].id = SQ[n].id /\ SQ'[n].addr = SQ[n].addr
        /\ SQ'[n].issued = SQ[n].issued /\ SQ'[n].dependents = SQ[n].dependents
  BY DEF SameStores
<1>4. \A q \in Slots :
        /\ LQ'[q] = Empty <=> LQ[q] = Empty
        /\ LQ[q] # Empty =>
             LQ'[q].id = LQ[q].id /\ LQ'[q].addr = LQ[q].addr /\ LQ'[q].producer = LQ[q].producer
  BY DEF SameLoads
<1>5. ASSUME NEW q \in Slots, NEW n \in 1 .. Len(SQ)
      PROVE  WaitsFor(q, n)' <=> WaitsFor(q, n)
  BY <1>3, <1>4 DEF WaitsFor
<1>6. DependentsHeld'
  <2>1. ASSUME NEW n \in 1 .. Len(SQ), ~SQ'[n].issued, NEW q \in SQ'[n].dependents
        PROVE  WaitsFor(q, n)'
    <3>1. ~SQ[n].issued /\ q \in SQ[n].dependents /\ q \in Slots
      BY <2>1, <1>2, <1>3, StoreFields
    <3>2. WaitsFor(q, n)
      BY <3>1, <1>2 DEF DependentsHeld
    <3>. QED  BY <3>1, <3>2, <1>5
  <2>2. ASSUME NEW q \in Slots, LQ'[q] # Empty, LQ'[q].producer # NoProducer
        PROVE  \E n \in DOMAIN SQ' : ~SQ'[n].issued /\ q \in SQ'[n].dependents /\ WaitsFor(q, n)'
    <3>1. LQ[q] # Empty /\ LQ[q].producer # NoProducer
      BY <2>2, <1>4
    <3>2. PICK n \in DOMAIN SQ : ~SQ[n].issued /\ q \in SQ[n].dependents /\ WaitsFor(q, n)
      BY <3>1 DEF DependentsHeld, Loads
    <3>3. n \in DOMAIN SQ' /\ ~SQ'[n].issued /\ q \in SQ'[n].dependents
      BY <3>2, <1>2, <1>3
    <3>4. WaitsFor(q, n)'
      BY <3>2, <1>2, <1>5
    <3>. QED  BY <3>3, <3>4
  <2>. QED  BY <2>1, <2>2, <1>2 DEF DependentsHeld, Loads
<1>7. WaitsForYoungest'
  <2>1. ASSUME NEW q \in Slots, LQ'[q] # Empty
        PROVE  Sees(LQ'[q], SQ')
    <3>1. LQ[q] # Empty /\ LQ'[q].id = LQ[q].id /\ LQ'[q].addr = LQ[q].addr /\ LQ'[q].producer = LQ[q].producer
      BY <2>1, <1>4
    <3>2. Sees(LQ[q], SQ)
      BY <3>1, <1>1, YoungestIs
    <3>3. \A n : Older(LQ'[q], SQ', n) <=> Older(LQ[q], SQ, n)
      BY <3>1, <1>2, <1>3 DEF Older
    <3>4. \A n : Older(LQ[q], SQ, n) => SQ'[n].id = SQ[n].id
      BY <1>2, <1>3 DEF Older
    <3>5. ASSUME NEW n, Older(LQ'[q], SQ', n) PROVE SQ'[n].id <= LQ'[q].producer
      BY <3>1, <3>2, <3>3, <3>4, <3>5 DEF Sees
    <3>6. ASSUME LQ'[q].producer # NoProducer
          PROVE  \E n : Older(LQ'[q], SQ', n) /\ SQ'[n].id = LQ'[q].producer
      <4>1. PICK n : Older(LQ[q], SQ, n) /\ SQ[n].id = LQ[q].producer
        BY <3>1, <3>2, <3>6 DEF Sees
      <4>. QED  BY <4>1, <3>1, <3>3, <3>4
    <3>. QED  BY <3>5, <3>6 DEF Sees
  <2>. QED  BY <2>1, <1>1, YoungestIsNext
<1>8. WaitsForOne'
  BY <1>2, <1>3 DEF WaitsForOne
<1>. QED  BY <1>6, <1>7, <1>8

LEMMA SetsKept ==
  ASSUME LSQTypeOK, SameLoads(LQ, LQ'), SameStores(SQ, SQ')
  PROVE  /\ \A d : /\ LoadsOf(LQ', d) = LoadsOf(LQ, d)
                   /\ StoresOf(SQ', d) = StoresOf(SQ, d)
                   /\ WaitingOf(SQ', d) = WaitingOf(SQ, d)
         /\ InOrder(SQ) => InOrder(SQ')
<1>1. DOMAIN SQ = 1 .. Len(SQ) /\ DOMAIN SQ' = 1 .. Len(SQ)
  BY SeqParts DEF LSQTypeOK, SameStores
<1>2. \A n \in 1 .. Len(SQ) :
        SQ'[n].id = SQ[n].id /\ SQ'[n].issued = SQ[n].issued
  BY DEF SameStores
<1>3. \A q \in Slots :
        /\ LQ'[q] = Empty <=> LQ[q] = Empty
        /\ LQ[q] # Empty => LQ'[q].id = LQ[q].id
  BY DEF SameLoads
<1>4. \A d : LoadsOf(LQ', d) = LoadsOf(LQ, d)
  BY <1>3 DEF LoadsOf
<1>5. \A d : StoresOf(SQ', d) = StoresOf(SQ, d) /\ WaitingOf(SQ', d) = WaitingOf(SQ, d)
  BY <1>1, <1>2 DEF StoresOf, WaitingOf
<1>6. InOrder(SQ) => InOrder(SQ')
  BY <1>2 DEF InOrder, SameStores
<1>. QED  BY <1>4, <1>5, <1>6

-----------------------------------------------------------------------------
(* The same for the program: its order and the count of its operations.     *)

LEMMA SameInstructions ==
  ASSUME rob \in Seq(RobType), SameProgram(rob, rob')
  PROVE  /\ Len(rob) \in Nat /\ Len(rob') = Len(rob)
         /\ DOMAIN rob = 1 .. Len(rob) /\ DOMAIN rob' = 1 .. Len(rob)
         /\ rob' \in Seq(RobType)
         /\ \A i \in 1 .. Len(rob) :
              /\ rob[i] \in RobType /\ rob'[i] \in RobType
              /\ rob[i].id \in Nat /\ rob'[i].id = rob[i].id /\ rob'[i].loads = rob[i].loads
              /\ rob'[i].stores = rob[i].stores /\ NumMemOps(rob'[i]) = NumMemOps(rob[i])
         /\ InROB' = InROB
         /\ rob # <<>> => /\ rob' # <<>> /\ Len(rob) \in 1 .. Len(rob)
                          /\ Youngest'.id = Youngest.id /\ Youngest'.loads = Youngest.loads
                          /\ Youngest'.stores = Youngest.stores
                          /\ NumMemOps(Youngest)' = NumMemOps(Youngest)
<1>1. /\ Len(rob) \in Nat /\ Len(rob') = Len(rob) /\ rob' \in Seq(RobType)
      /\ DOMAIN rob = 1 .. Len(rob) /\ DOMAIN rob' = 1 .. Len(rob)
      /\ \A i \in 1 .. Len(rob) : rob[i] \in RobType /\ rob'[i] \in RobType
  BY SeqParts DEF SameProgram
<1>2. \A i \in 1 .. Len(rob) :
        rob'[i].id = rob[i].id /\ rob'[i].loads = rob[i].loads /\ rob'[i].stores = rob[i].stores
  BY DEF SameProgram
<1>3. \A i \in 1 .. Len(rob) : NumMemOps(rob'[i]) = NumMemOps(rob[i]) /\ rob[i].id \in Nat
  BY <1>1, <1>2, RobFields DEF NumMemOps
<1>4. InROB' = InROB
  BY <1>1, <1>2 DEF InROB
<1>5. ASSUME rob # <<>>
      PROVE  rob' # <<>> /\ Len(rob) \in 1 .. Len(rob)
  <2>1. Len(rob) # 0
    BY <1>1, <1>5, EmptySeq
  <2>2. Len(rob) \in 1 .. Len(rob) /\ Len(rob') # 0
    BY <1>1, <2>1
  <2>. QED  BY <2>2, EmptySeq
<1>6. ASSUME rob # <<>>
      PROVE  /\ Youngest'.id = Youngest.id /\ Youngest'.loads = Youngest.loads
             /\ Youngest'.stores = Youngest.stores
             /\ NumMemOps(Youngest)' = NumMemOps(Youngest)
  <2>1. Youngest' = rob'[Len(rob)] /\ Youngest = rob[Len(rob)]
    BY <1>1 DEF Youngest
  <2>2. NumMemOps(Youngest)' = NumMemOps(Youngest')
    BY DEF NumMemOps
  <2>. QED  BY <1>2, <1>3, <1>5, <1>6, <2>1, <2>2
<1>. QED  BY <1>1, <1>2, <1>3, <1>4, <1>5, <1>6

LEMMA OrderKept ==
  ASSUME LSQAssumption, LSQTypeOK, ProgramOrder, SameProgram(rob, rob'),
         next_id' = next_id, pc' = pc, placed' = placed,
         SQ' \in Seq(StoreType), Len(SQ') <= Len(SQ),
         \A q \in Slots : LQ'[q] # Empty => LQ[q] # Empty /\ LQ'[q].id = LQ[q].id,
         \A n \in DOMAIN SQ' : \E m \in DOMAIN SQ : SQ'[n].id = SQ[m].id
  PROVE  ProgramOrder'
<1>. USE DEF ProgramOrder
<1>1. rob \in Seq(RobType)
  BY DEF LSQTypeOK
<1>2. /\ DOMAIN rob = 1 .. Len(rob) /\ DOMAIN rob' = 1 .. Len(rob)
      /\ \A i \in 1 .. Len(rob) : rob'[i].id = rob[i].id
      /\ rob # <<>> => /\ rob' # <<>>
                       /\ Youngest'.id = Youngest.id /\ Youngest'.loads = Youngest.loads
                       /\ Youngest'.stores = Youngest.stores
  BY <1>1, SameInstructions
<1>3. \A i, j \in DOMAIN rob' : i < j => rob'[i].id < rob'[j].id
  BY <1>2
<1>4. \A i \in DOMAIN rob' : rob'[i].id < next_id'
  BY <1>2
<1>5. \A q \in Loads' : LQ'[q].id < next_id'
  BY DEF Loads
<1>6. \A n \in DOMAIN SQ' : SQ'[n].id < next_id'
  OBVIOUS
<1>7. ASSUME pc' = "dispatch"
      PROVE  /\ rob' # <<>> /\ Youngest'.id = next_id' - 1
             /\ placed' <= Len(Youngest'.loads)
             /\ Len(SQ') + Len(Youngest'.stores) <= SQ_SIZE
             /\ \A n \in DOMAIN SQ' : SQ'[n].id < Youngest'.id
  <2>1. pc = "dispatch" /\ rob # <<>>
    BY <1>7
  <2>2. /\ Youngest.id = next_id - 1 /\ placed <= Len(Youngest.loads)
        /\ Len(SQ) + Len(Youngest.stores) <= SQ_SIZE
        /\ \A n \in DOMAIN SQ : SQ[n].id < Youngest.id
    BY <2>1
  <2>3. Len(SQ) \in Nat /\ Len(SQ') \in Nat /\ Len(Youngest.stores) \in Nat /\ SQ_SIZE \in Nat
    <3>1. Youngest \in RobType
      BY <1>1, <2>1, SameInstructions DEF Youngest
    <3>2. Len(SQ) \in Nat /\ Len(SQ') \in Nat
      BY SeqParts DEF LSQTypeOK
    <3>. QED  BY <3>1, <3>2, RobFields DEF LSQAssumption
  <2>4. Len(SQ') + Len(Youngest'.stores) <= SQ_SIZE
    BY <2>1, <2>2, <2>3, <1>2
  <2>5. \A n \in DOMAIN SQ' : SQ'[n].id < Youngest'.id
    BY <2>1, <2>2, <1>2
  <2>. QED  BY <2>1, <2>2, <2>4, <2>5, <1>2
<1>. QED  BY <1>3, <1>4, <1>5, <1>6, <1>7

(* What an operation is counted for may change, not that it is counted. *)
LEMMA CountKept ==
  ASSUME LSQTypeOK, OpsCounted, ProgramOrder, ProgramOrder', SameProgram(rob, rob'),
         LQ' \in [Slots -> LoadType \cup {Empty}], SQ' \in Seq(StoreType),
         LSQAssumption, pc' = pc, placed' = placed,
         NEW n \in [Ids -> Nat],
         \A i \in 1 .. Len(rob) : rob'[i].ops = rob[i].ops + n[rob[i].id],
         \A d \in Ids :
           Cardinality(LoadsOf(LQ, d)) + Cardinality(WaitingOf(SQ, d)) =
             Cardinality(LoadsOf(LQ', d)) + Cardinality(WaitingOf(SQ', d)) + n[d]
  PROVE  OpsCounted'
<1>1. rob \in Seq(RobType)
  BY DEF LSQTypeOK
<1>2. /\ Len(rob) \in Nat /\ Len(rob') = Len(rob) /\ rob' \in Seq(RobType)
      /\ DOMAIN rob = 1 .. Len(rob) /\ DOMAIN rob' = 1 .. Len(rob)
      /\ \A i \in 1 .. Len(rob) :
           /\ rob[i] \in RobType /\ rob'[i].id = rob[i].id
           /\ NumMemOps(rob'[i]) = NumMemOps(rob[i])
      /\ rob # <<>> => Youngest \in RobType /\ NumMemOps(Youngest)' = NumMemOps(Youngest)
  BY <1>1, SameInstructions DEF Youngest
<1>3. Left' = Left /\ Left \in Int
  <2>1. CASE pc = "dispatch"
    <3>1. rob # <<>> /\ pc' = "dispatch"
      BY <2>1 DEF ProgramOrder
    <3>2. Left' = NumMemOps(Youngest)' - placed'
      BY <3>1 DEF Left, NumMemOps
    <3>3. Left = NumMemOps(Youngest) - placed
      BY <2>1 DEF Left
    <3>4. NumMemOps(Youngest) \in Nat /\ placed \in Nat
      BY <1>2, <3>1, RobFields DEF LSQTypeOK
    <3>. QED  BY <1>2, <3>1, <3>2, <3>3, <3>4
  <2>2. CASE pc # "dispatch"
    BY <2>2 DEF Left
  <2>. QED  BY <2>1, <2>2
<1>4. Counted(rob, LQ, SQ, Left)
  BY <1>1, CountedIs DEF ProgramOrder
<1>5. ASSUME NEW i \in 1 .. Len(rob)
      PROVE  rob'[i].ops + (Cardinality(LoadsOf(LQ', rob'[i].id)) + Cardinality(WaitingOf(SQ', rob'[i].id)))
               + (IF i = Len(rob') THEN Left' ELSE 0) = NumMemOps(rob'[i])
  <2>. DEFINE d == rob[i].id
  <2>1. d \in Ids /\ rob[i].ops \in Nat /\ NumMemOps(rob[i]) \in Nat
    BY <1>2, RobFields
  <2>2. /\ Cardinality(LoadsOf(LQ, d)) \in Nat /\ Cardinality(WaitingOf(SQ, d)) \in Nat
        /\ Cardinality(LoadsOf(LQ', d)) \in Nat /\ Cardinality(WaitingOf(SQ', d)) \in Nat
    BY CountsAre DEF LSQTypeOK
  <2>3. rob[i].ops + (Cardinality(LoadsOf(LQ, d)) + Cardinality(WaitingOf(SQ, d)))
          + (IF i = Len(rob) THEN Left ELSE 0) = NumMemOps(rob[i])
    BY <1>4 DEF Counted
  <2>4. n[d] \in Nat /\ rob'[i].ops = rob[i].ops + n[d] /\ rob'[i].id = d
    BY <1>2, <2>1
  <2>5. Cardinality(LoadsOf(LQ, d)) + Cardinality(WaitingOf(SQ, d)) =
             Cardinality(LoadsOf(LQ', d)) + Cardinality(WaitingOf(SQ', d)) + n[d]
    BY <2>1
  <2>6. (IF i = Len(rob) THEN Left ELSE 0) \in Int
    BY <1>3
  <2>7. rob'[i].ops + (Cardinality(LoadsOf(LQ', d)) + Cardinality(WaitingOf(SQ', d)))
          + (IF i = Len(rob) THEN Left ELSE 0) = NumMemOps(rob[i])
    <3>. HIDE DEF d
    <3>. QED  BY SMTT(30), <2>1, <2>2, <2>3, <2>4, <2>5, <2>6
  <2>. QED  BY <2>4, <2>7, <1>2, <1>3
<1>6. Counted(rob', LQ', SQ', Left')
  BY <1>2, <1>5 DEF Counted
<1>. QED  BY <1>2, <1>6, CountedIsNext DEF ProgramOrder

(* More operations are finished, and never more than there are. *)
LEMMA CompletedKept ==
  ASSUME LSQAssumption, LSQTypeOK, LSQTypeOK', OpsCounted', ProgramOrder, ProgramOrder',
         CompletedDone, SameProgram(rob, rob'),
         \A i \in 1 .. Len(rob) :
           rob'[i].completed = rob[i].completed /\ rob[i].ops <= rob'[i].ops
  PROVE  CompletedDone'
<1>1. rob \in Seq(RobType)
  BY DEF LSQTypeOK
<1>2. /\ Len(rob) \in Nat /\ Len(rob') = Len(rob) /\ rob' \in Seq(RobType)
      /\ DOMAIN rob = 1 .. Len(rob) /\ DOMAIN rob' = 1 .. Len(rob)
      /\ \A i \in 1 .. Len(rob) :
           /\ rob[i] \in RobType /\ rob'[i] \in RobType
           /\ NumMemOps(rob'[i]) = NumMemOps(rob[i])
  BY <1>1, SameInstructions
<1>3. Left' \in Nat
  <2>1. CASE pc' = "dispatch"
    <3>. PICK y : y = rob'[Len(rob')]
      OBVIOUS
    <3>1. rob' # <<>> /\ placed' <= Len(y.loads) /\ placed' \in Nat
      BY <2>1 DEF ProgramOrder, LSQTypeOK, Youngest
    <3>2. y \in RobType
      <4>1. Len(rob') \in 1 .. Len(rob')
        BY <1>2, <3>1, EmptySeq
      <4>. QED  BY <4>1, <1>2
    <3>3. Len(y.loads) \in Nat /\ Len(y.stores) \in Nat
      BY <3>2, RobFields
    <3>4. Left' = NumMemOps(y) - placed'
      BY <2>1 DEF Left, NumMemOps, Youngest
    <3>5. NumMemOps(y) = Len(y.loads) + Len(y.stores)
      BY DEF NumMemOps
    <3>6. placed' <= Len(y.loads) /\ placed' \in Nat
      BY <3>1
    <3>7. \A a, b, p \in Nat : p <= a => (a + b) - p \in Nat
      OBVIOUS
    <3>8. (Len(y.loads) + Len(y.stores)) - placed' \in Nat
      BY ONLY <3>3, <3>6, <3>7
    <3>. QED  BY <3>4, <3>5, <3>8
  <2>2. CASE pc' # "dispatch"
    BY <2>2 DEF Left
  <2>. QED  BY <2>1, <2>2
<1>4. Counted(rob', LQ', SQ', Left')
  BY <1>2, CountedIsNext DEF ProgramOrder
<1>5. ASSUME NEW i \in 1 .. Len(rob), rob'[i].completed
      PROVE  rob'[i].ops = NumMemOps(rob'[i])
  <2>. DEFINE d == rob'[i].id
  <2>1. rob'[i].ops \in Nat /\ rob[i].ops \in Nat /\ NumMemOps(rob[i]) \in Nat
    BY <1>2, RobFields
  <2>2. Cardinality(LoadsOf(LQ', d)) \in Nat /\ Cardinality(WaitingOf(SQ', d)) \in Nat
    BY CountsAre DEF LSQTypeOK
  <2>3. rob'[i].ops + (Cardinality(LoadsOf(LQ', d)) + Cardinality(WaitingOf(SQ', d)))
          + (IF i = Len(rob) THEN Left' ELSE 0) = NumMemOps(rob[i])
    BY <1>2, <1>4 DEF Counted
  <2>4. rob[i].ops = NumMemOps(rob[i]) /\ rob[i].ops <= rob'[i].ops
    BY <1>2, <1>5 DEF CompletedDone
  <2>. HIDE DEF d
  <2>5. (IF i = Len(rob) THEN Left' ELSE 0) \in Nat
    BY <1>3
  <2>6. rob'[i].ops = NumMemOps(rob[i])
    BY <2>1, <2>2, <2>3, <2>4, <2>5
  <2>. QED  BY <2>6, <1>2
<1>. QED  BY <1>2, <1>5 DEF CompletedDone

LEMMA KnownKept ==
  ASSUME LSQTypeOK, RetiredFinished, SameProgram(rob, rob'),
         \A q \in Slots : LQ'[q] # Empty => LQ[q] # Empty /\ LQ'[q].id = LQ[q].id,
         \A n \in DOMAIN SQ' : \E m \in DOMAIN SQ :
           SQ'[n].id = SQ[m].id /\ (SQ[m].issued => SQ'[n].issued)
  PROVE  RetiredFinished'
<1>1. InROB' = InROB
  BY SameInstructions DEF LSQTypeOK
<1>2. \A q \in Loads' : q \in Loads /\ LQ'[q].id = LQ[q].id
  BY DEF Loads
<1>3. \A q \in Loads' : LQ'[q].id \in InROB'
  BY <1>1, <1>2 DEF RetiredFinished
<1>4. ASSUME NEW n \in DOMAIN SQ' PROVE SQ'[n].issued \/ SQ'[n].id \in InROB'
  <2>1. PICK m \in DOMAIN SQ : SQ'[n].id = SQ[m].id /\ (SQ[m].issued => SQ'[n].issued)
    OBVIOUS
  <2>. QED  BY <2>1, <1>1 DEF RetiredFinished
<1>. QED  BY <1>3, <1>4 DEF RetiredFinished

LEMMA StoresKept ==
  ASSUME LSQTypeOK, StoresHeld, SameProgram(rob, rob'), SQ' \in Seq(StoreType), pc' = pc,
         InOrder(SQ'),
         \A i \in 1 .. Len(rob) :
           Cardinality(StoresOf(SQ', rob[i].id)) = Cardinality(StoresOf(SQ, rob[i].id))
  PROVE  StoresHeld'
<1>1. rob \in Seq(RobType) /\ SQ \in Seq(StoreType) /\ rob' \in Seq(RobType)
  BY DEF LSQTypeOK, SameProgram
<1>2. /\ Len(rob') = Len(rob)
      /\ \A i \in 1 .. Len(rob) : rob'[i].id = rob[i].id /\ rob'[i].stores = rob[i].stores
  BY DEF SameProgram
<1>3. \A i \in 1 .. Len(rob) :
        Cardinality(StoresOf(SQ, rob[i].id)) =
          IF pc = "dispatch" /\ i = Len(rob) THEN 0 ELSE Len(rob[i].stores)
  BY <1>1, StoresHeldIs
<1>4. \A i \in 1 .. Len(rob') :
        Cardinality(StoresOf(SQ', rob'[i].id)) =
          IF pc' = "dispatch" /\ i = Len(rob') THEN 0 ELSE Len(rob'[i].stores)
  BY <1>2, <1>3
<1>. QED  BY <1>1, <1>4, StoresHeldIsNext

(* A step that neither places nor finishes an operation. *)
LEMMA QuietStep ==
  ASSUME LSQAssumption, LSQTypeOK, LSQTypeOK', OpsHeld, WaitsForYoungest, ProgramOrder, WaitsForOne,
         SameProgram(rob, rob'), SameLoads(LQ, LQ'), SameStores(SQ, SQ'),
         \A i \in 1 .. Len(rob) : rob'[i].ops = rob[i].ops,
         next_id' = next_id, pc' = pc, placed' = placed
  PROVE  /\ OpsCounted' /\ RetiredFinished' /\ DependentsHeld' /\ StoresHeld'
         /\ WaitsForYoungest' /\ ProgramOrder' /\ WaitsForOne'
<1>1. /\ OpsCounted /\ RetiredFinished /\ DependentsHeld /\ StoresHeld
      /\ rob \in Seq(RobType) /\ SQ \in Seq(StoreType) /\ LQ \in [Slots -> LoadType \cup {Empty}]
  BY DEF OpsHeld, OpsAccounted, WaitersHeld, LSQTypeOK
<1>2. \A q \in Slots : LQ'[q] # Empty => LQ[q] # Empty /\ LQ'[q].id = LQ[q].id
  BY DEF SameLoads
<1>3. /\ SQ' \in Seq(StoreType) /\ DOMAIN SQ = 1 .. Len(SQ) /\ DOMAIN SQ' = 1 .. Len(SQ)
      /\ Len(SQ') = Len(SQ) /\ Len(SQ) \in Nat
      /\ \A n \in 1 .. Len(SQ) : SQ'[n].id = SQ[n].id /\ SQ'[n].issued = SQ[n].issued
  BY <1>1, SeqParts DEF SameStores
<1>4. \A n \in DOMAIN SQ' : \E m \in DOMAIN SQ :
           SQ'[n].id = SQ[m].id /\ (SQ[m].issued => SQ'[n].issued)
  BY <1>3
<1>5. DependentsHeld' /\ WaitsForYoungest' /\ WaitsForOne'
  BY <1>1, WaitingKept
<1>6. /\ \A d : /\ LoadsOf(LQ', d) = LoadsOf(LQ, d)
                /\ StoresOf(SQ', d) = StoresOf(SQ, d)
                /\ WaitingOf(SQ', d) = WaitingOf(SQ, d)
      /\ InOrder(SQ')
  <2>1. InOrder(SQ)
    BY <1>1, StoresHeldIs
  <2>. QED  BY <2>1, SetsKept
<1>7. ProgramOrder'
  <2>1. \A n \in DOMAIN SQ' : \E m \in DOMAIN SQ : SQ'[n].id = SQ[m].id
    BY <1>4
  <2>2. Len(SQ') <= Len(SQ)
    BY <1>3
  <2>. QED  BY <1>2, <1>3, <2>1, <2>2, OrderKept
<1>8. RetiredFinished'
  BY <1>1, <1>2, <1>4, KnownKept
<1>9. StoresHeld'
  BY <1>1, <1>3, <1>6, StoresKept
<1>10. OpsCounted'
  <2>. DEFINE z == [d \in Ids |-> 0]
  <2>1. z \in [Ids -> Nat] /\ \A d \in Ids : z[d] = 0
    OBVIOUS
  <2>. HIDE DEF z
  <2>2. \A i \in 1 .. Len(rob) : rob'[i].ops = rob[i].ops + z[rob[i].id]
    <3>1. \A i \in 1 .. Len(rob) : rob[i].ops \in Nat /\ rob[i].id \in Ids
      BY <1>1, SeqParts, RobFields
    <3>. QED  BY <2>1, <3>1
  <2>3. \A d \in Ids :
          Cardinality(LoadsOf(LQ, d)) + Cardinality(WaitingOf(SQ, d)) =
             Cardinality(LoadsOf(LQ', d)) + Cardinality(WaitingOf(SQ', d)) + z[d]
    <3>1. \A d \in Ids : Cardinality(LoadsOf(LQ, d)) \in Nat /\ Cardinality(WaitingOf(SQ, d)) \in Nat
      BY <1>1, CountsAre
    <3>. QED  BY <2>1, <3>1, <1>6
  <2>4. LQ' \in [Slots -> LoadType \cup {Empty}]
    BY DEF SameLoads
  <2>. QED  BY <1>1, <1>3, <1>7, <2>1, <2>2, <2>3, <2>4, CountKept
<1>. QED  BY <1>5, <1>7, <1>8, <1>9, <1>10

-----------------------------------------------------------------------------
(* The fields the steps set.                                               *)

LEMMA RobSet ==
  ASSUME NEW e \in RobType, NEW f, f = [e EXCEPT !.executed = TRUE] \/ f = [e EXCEPT !.completed = TRUE]
  PROVE  /\ f \in RobType /\ f.id = e.id /\ f.loads = e.loads /\ f.stores = e.stores /\ f.ops = e.ops
         /\ f.completed = e.completed \/ f = [e EXCEPT !.completed = TRUE]
BY DEF RobType

LEMMA LoadSet ==
  ASSUME NEW e \in LoadType, NEW f, f = [e EXCEPT !.ready = TRUE] \/ f = [e EXCEPT !.issued = TRUE]
  PROVE  /\ f \in LoadType /\ f.id = e.id /\ f.addr = e.addr /\ f.producer = e.producer
         /\ f.issued = e.issued \/ f = [e EXCEPT !.issued = TRUE]
BY DEF LoadType

LEMMA StoreSet ==
  ASSUME NEW e \in StoreType
  PROVE  /\ [e EXCEPT !.ready = TRUE] \in StoreType
         /\ [e EXCEPT !.ready = TRUE].id = e.id /\ [e EXCEPT !.ready = TRUE].addr = e.addr
         /\ [e EXCEPT !.ready = TRUE].issued = e.issued
         /\ [e EXCEPT !.ready = TRUE].dependents = e.dependents
         /\ [e EXCEPT !.issued = TRUE] \in StoreType
         /\ [e EXCEPT !.issued = TRUE].id = e.id /\ [e EXCEPT !.issued = TRUE].addr = e.addr
         /\ [e EXCEPT !.issued = TRUE].issued = TRUE
         /\ [e EXCEPT !.issued = TRUE].dependents = e.dependents
BY DEF StoreType

LEMMA DependentAdded ==
  ASSUME NEW e \in StoreType, NEW q \in Slots
  PROVE  /\ [e EXCEPT !.dependents = @ \cup {q}] \in StoreType
         /\ [e EXCEPT !.dependents = @ \cup {q}].id = e.id
         /\ [e EXCEPT !.dependents = @ \cup {q}].addr = e.addr
         /\ [e EXCEPT !.dependents = @ \cup {q}].issued = e.issued
         /\ [e EXCEPT !.dependents = @ \cup {q}].dependents = e.dependents \cup {q}
BY DEF StoreType

(* An entry of a sequence is replaced. *)
LEMMA EntrySet ==
  ASSUME NEW S, NEW s \in Seq(S), NEW i \in DOMAIN s, NEW e \in S
  PROVE  /\ [s EXCEPT ![i] = e] \in Seq(S) /\ Len([s EXCEPT ![i] = e]) = Len(s)
         /\ [s EXCEPT ![i] = e][i] = e
         /\ \A j \in 1 .. Len(s) : j # i => [s EXCEPT ![i] = e][j] = s[j]
BY ExceptSeq, LenProperties

(* An answer is under way for the block. *)
Awaited(l, b) == l.reads[b] > 0 \/ \E n \in DOMAIN l.returned : l.returned[n] = b

LEMMA AwaitedKept ==
  ASSUME LSQAssumption, LSQTypeOK, LoadAwaited,
         \A q \in Slots : LQ'[q] # Empty /\ LQ'[q].issued =>
                            LQ[q] # Empty /\ LQ[q].issued /\ LQ'[q].addr = LQ[q].addr,
         \A b \in DataBlock : Awaited(l1d, b) => Awaited(l1d', b)
  PROVE  LoadAwaited'
<1>1. ASSUME NEW q \in Slots, LQ'[q] # Empty, LQ'[q].issued
      PROVE  Awaited(l1d', DataBlockOf[LQ'[q].addr])
  <2>1. LQ[q] # Empty /\ LQ[q].issued /\ LQ'[q].addr = LQ[q].addr
    BY <1>1
  <2>2. LQ[q] \in LoadType
    BY <2>1, NotEmpty DEF LSQTypeOK
  <2>3. DataBlockOf[LQ[q].addr] \in DataBlock
    BY <2>2, LoadFields DEF LSQAssumption
  <2>4. Awaited(l1d, DataBlockOf[LQ[q].addr])
    BY <2>1 DEF LoadAwaited, Loads, Awaited
  <2>. QED  BY <2>1, <2>3, <2>4
<1>. QED  BY <1>1 DEF LoadAwaited, Loads, Awaited

(* The parts of the invariant. *)
LEMMA Parts ==
  ASSUME LSQInv
  PROVE  /\ LSQTypeOK /\ OpsHeld /\ OpsCounted /\ RetiredFinished /\ DependentsHeld /\ LoadAwaited /\ StoresHeld
         /\ WaitsForYoungest /\ ProgramOrder /\ CompletedDone /\ SentAlone /\ WaitsForOne
         /\ rob \in Seq(RobType) /\ Len(rob) \in Nat /\ DOMAIN rob = 1 .. Len(rob)
         /\ \A i \in 1 .. Len(rob) : rob[i] \in RobType
         /\ SQ \in Seq(StoreType) /\ Len(SQ) \in Nat /\ DOMAIN SQ = 1 .. Len(SQ)
         /\ \A n \in 1 .. Len(SQ) : SQ[n] \in StoreType
         /\ LQ \in [Slots -> LoadType \cup {Empty}]
         /\ \A q \in Slots : LQ[q] # Empty => LQ[q] \in LoadType
<1>1. LSQTypeOK
  BY DEF LSQInv, OpsHeld, OpsAccounted
<1>2. /\ rob \in Seq(RobType) /\ SQ \in Seq(StoreType) /\ LQ \in [Slots -> LoadType \cup {Empty}]
  BY <1>1 DEF LSQTypeOK
<1>. QED  BY <1>1, <1>2, SeqParts, NotEmpty DEF LSQInv, OpsHeld, OpsAccounted, WaitersHeld

LEMMA PartsNext ==
  ASSUME LSQTypeOK', OpsCounted', RetiredFinished', DependentsHeld', LoadAwaited', StoresHeld',
         WaitsForYoungest', ProgramOrder', CompletedDone', SentAlone', WaitsForOne'
  PROVE  LSQInv'
BY DEF LSQInv, OpsHeld, OpsAccounted, WaitersHeld

LEMMA SameQueues ==
  ASSUME LSQTypeOK
  PROVE  SameLoads(LQ, LQ) /\ SameStores(SQ, SQ) /\ SameProgram(rob, rob)
BY DEF LSQTypeOK, SameLoads, SameStores, SameProgram

-----------------------------------------------------------------------------
(* do_execution *)
LEMMA ExecuteKeeps ==
  ASSUME LSQAssumption, LSQInv, NEW i \in DOMAIN rob, Execute(i)
  PROVE  LSQInv'
<1>. USE Parts
<1>. DEFINE e == [rob[i] EXCEPT !.executed = TRUE]
<1>1. /\ rob' = [rob EXCEPT ![i] = e]
      /\ \A q \in Slots : LQ'[q] = IF LQ[q].id = rob[i].id THEN [LQ[q] EXCEPT !.ready = TRUE] ELSE LQ[q]
      /\ DOMAIN SQ' = DOMAIN SQ
      /\ \A n \in DOMAIN SQ : SQ'[n] = IF SQ[n].id = rob[i].id THEN [SQ[n] EXCEPT !.ready = TRUE] ELSE SQ[n]
      /\ pc' = pc /\ placed' = placed /\ next_id' = next_id /\ l1d' = l1d
  BY DEF Execute
<1>2. /\ e \in RobType /\ e.id = rob[i].id /\ e.loads = rob[i].loads /\ e.stores = rob[i].stores
      /\ e.ops = rob[i].ops /\ e.completed = rob[i].completed
  BY DEF RobType
<1>. HIDE DEF e
<1>3. /\ SameProgram(rob, rob')
      /\ \A j \in 1 .. Len(rob) : rob'[j].ops = rob[j].ops /\ rob'[j].completed = rob[j].completed
  <2>1. /\ rob' \in Seq(RobType) /\ Len(rob') = Len(rob) /\ rob'[i] = e
        /\ \A j \in 1 .. Len(rob) : j # i => rob'[j] = rob[j]
    BY <1>1, <1>2, EntrySet
  <2>. QED  BY <1>2, <2>1 DEF SameProgram
<1>4. ASSUME NEW q \in Slots
      PROVE  /\ LQ'[q] \in LoadType \cup {Empty}
             /\ LQ'[q] = Empty <=> LQ[q] = Empty
             /\ LQ[q] # Empty =>
                  /\ LQ'[q].id = LQ[q].id /\ LQ'[q].addr = LQ[q].addr /\ LQ'[q].producer = LQ[q].producer
                  /\ LQ'[q].issued = LQ[q].issued
  <2>1. CASE LQ[q] = Empty
    <3>1. LQ[q].id = 0
      BY <2>1 DEF Empty
    <3>2. rob[i].id # 0
      BY RobFields
    <3>. QED  BY <1>1, <2>1, <3>1, <3>2
  <2>2. CASE LQ[q] # Empty
    <3>1. LQ[q] \in LoadType
      BY <2>2
    <3>2. LQ'[q] = LQ[q] \/ LQ'[q] = [LQ[q] EXCEPT !.ready = TRUE]
      BY <1>1
    <3>3. /\ LQ'[q] \in LoadType /\ LQ'[q].id = LQ[q].id /\ LQ'[q].addr = LQ[q].addr
          /\ LQ'[q].producer = LQ[q].producer /\ LQ'[q].issued = LQ[q].issued
      BY <3>1, <3>2 DEF LoadType
    <3>. QED  BY <3>1, <3>3, NotEmpty
  <2>. QED  BY <2>1, <2>2
<1>5. LQ' \in [Slots -> LoadType \cup {Empty}] /\ SameLoads(LQ, LQ')
  <2>1. LQ' = [q \in Slots |-> LQ'[q]]
    BY DEF Execute
  <2>2. LQ' \in [Slots -> LoadType \cup {Empty}]
    BY <1>4, <2>1
  <2>. QED  BY <1>4, <2>2 DEF SameLoads
<1>6. SQ' \in Seq(StoreType) /\ SameStores(SQ, SQ')
  <2>1. ASSUME NEW n \in 1 .. Len(SQ)
        PROVE  /\ SQ'[n] \in StoreType /\ SQ'[n].id = SQ[n].id /\ SQ'[n].addr = SQ[n].addr
               /\ SQ'[n].issued = SQ[n].issued /\ SQ'[n].dependents = SQ[n].dependents
    <3>1. SQ[n] \in StoreType /\ (SQ'[n] = SQ[n] \/ SQ'[n] = [SQ[n] EXCEPT !.ready = TRUE])
      BY <1>1
    <3>. QED  BY <3>1, StoreSet
  <2>2. SQ' \in [1 .. Len(SQ) -> StoreType]
    BY <2>1 DEF Execute
  <2>3. SQ' \in Seq(StoreType) /\ Len(SQ') = Len(SQ)
    BY <2>2, FunctionIsSeq
  <2>. QED  BY <2>1, <2>3 DEF SameStores
<1>7. LSQTypeOK'
  BY <1>1, <1>3, <1>5, <1>6 DEF LSQTypeOK, SameProgram, SameStores
<1>8. /\ OpsCounted' /\ RetiredFinished' /\ DependentsHeld' /\ StoresHeld'
      /\ WaitsForYoungest' /\ ProgramOrder' /\ WaitsForOne'
  BY <1>1, <1>3, <1>5, <1>6, <1>7, QuietStep
<1>9. LoadAwaited'
  <2>1. \A q \in Slots : LQ'[q] # Empty /\ LQ'[q].issued =>
                           LQ[q] # Empty /\ LQ[q].issued /\ LQ'[q].addr = LQ[q].addr
    BY <1>4
  <2>2. \A b \in DataBlock : Awaited(l1d, b) => Awaited(l1d', b)
    BY <1>1
  <2>. QED  BY <2>1, <2>2, AwaitedKept
<1>10. CompletedDone'
  <2>1. \A j \in 1 .. Len(rob) : rob[j].ops \in Nat
    BY RobFields
  <2>2. \A j \in 1 .. Len(rob) : rob'[j].completed = rob[j].completed /\ rob[j].ops <= rob'[j].ops
    BY <1>3, <2>1
  <2>. QED  BY <1>3, <1>7, <1>8, <2>2, CompletedKept
<1>11. SentAlone'
  BY <1>4 DEF SentAlone, Loads
<1>. QED  BY <1>7, <1>8, <1>9, <1>10, <1>11, PartsNext

(* complete_inflight_instruction *)
LEMMA CompleteKeeps ==
  ASSUME LSQAssumption, LSQInv, NEW i \in DOMAIN rob, CompleteInstruction(i)
  PROVE  LSQInv'
<1>. USE Parts
<1>. DEFINE e == [rob[i] EXCEPT !.completed = TRUE]
<1>1. /\ rob' = [rob EXCEPT ![i] = e]
      /\ CanComplete(rob[i])
      /\ pc' = pc /\ placed' = placed /\ next_id' = next_id /\ LQ' = LQ /\ SQ' = SQ /\ l1d' = l1d
  BY DEF CompleteInstruction
<1>2. /\ e \in RobType /\ e.id = rob[i].id /\ e.loads = rob[i].loads /\ e.stores = rob[i].stores
      /\ e.ops = rob[i].ops
  BY DEF RobType
<1>. HIDE DEF e
<1>3. /\ SameProgram(rob, rob')
      /\ \A j \in 1 .. Len(rob) : /\ rob'[j].ops = rob[j].ops
                                  /\ j # i => rob'[j].completed = rob[j].completed
  <2>1. /\ rob' \in Seq(RobType) /\ Len(rob') = Len(rob) /\ rob'[i] = e
        /\ \A j \in 1 .. Len(rob) : j # i => rob'[j] = rob[j]
    BY <1>1, <1>2, EntrySet
  <2>. QED  BY <1>2, <2>1 DEF SameProgram
<1>4. SameLoads(LQ, LQ') /\ SameStores(SQ, SQ')
  BY <1>1, SameQueues
<1>5. LSQTypeOK'
  BY <1>1, <1>3 DEF LSQTypeOK, SameProgram
<1>6. /\ OpsCounted' /\ RetiredFinished' /\ DependentsHeld' /\ StoresHeld'
      /\ WaitsForYoungest' /\ ProgramOrder' /\ WaitsForOne'
  BY <1>1, <1>3, <1>4, <1>5, QuietStep
<1>7. LoadAwaited' /\ SentAlone'
  BY <1>1 DEF LoadAwaited, SentAlone, Loads
<1>8. CompletedDone'
  <2>1. /\ DOMAIN rob' = 1 .. Len(rob)
        /\ \A j \in 1 .. Len(rob) : NumMemOps(rob'[j]) = NumMemOps(rob[j])
    BY <1>3, SameInstructions
  <2>2. rob[i].ops = NumMemOps(rob[i])
    BY <1>1 DEF CanComplete
  <2>3. ASSUME NEW j \in 1 .. Len(rob), rob'[j].completed
        PROVE  rob'[j].ops = NumMemOps(rob'[j])
    <3>1. CASE j = i
      BY <2>1, <2>2, <3>1, <1>3
    <3>2. CASE j # i
      BY <2>1, <2>3, <3>2, <1>3 DEF CompletedDone
    <3>. QED  BY <3>1, <3>2
  <2>. QED  BY <2>1, <2>3 DEF CompletedDone
<1>. QED  BY <1>5, <1>6, <1>7, <1>8, PartsNext

(* execute_load *)
LEMMA IssueLoadKeeps ==
  ASSUME LSQAssumption, LSQInv, IssueLoad
  PROVE  LSQInv'
<1>. USE Parts
<1>. DEFINE q == FirstOf(Issuable)
            e == [LQ[q] EXCEPT !.issued = TRUE]
            b == DataBlockOf[LQ[q].addr]
            reads == [l1d.reads EXCEPT ![b] = @ + 1]
<1>1. /\ LQ' = [LQ EXCEPT ![q] = e]
      /\ l1d' = [l1d EXCEPT !.reads = reads]
      /\ pc' = pc /\ placed' = placed /\ next_id' = next_id /\ rob' = rob /\ SQ' = SQ
  BY DEF IssueLoad
<1>2. q \in Slots /\ LQ[q] # Empty /\ LQ[q].producer = NoProducer
  <2>1. Issuable \subseteq Nat
    BY DEF Issuable, Slots
  <2>2. Issuable # {}
    BY DEF IssueLoad
  <2>3. q \in Issuable
    BY <2>1, <2>2, FirstFound
  <2>. HIDE DEF q
  <2>. QED  BY <2>3 DEF Issuable
<1>3. LQ[q] \in LoadType /\ b \in DataBlock
  <2>1. LQ[q] \in LoadType
    BY <1>2
  <2>. QED  BY <2>1, LoadFields DEF LSQAssumption
<1>. HIDE DEF q
<1>4. /\ e \in LoadType /\ e.id = LQ[q].id /\ e.addr = LQ[q].addr /\ e.producer = LQ[q].producer
  BY <1>3, LoadSet
<1>5. l1d \in [reads : [DataBlock -> Nat], writes : Nat, returned : Seq(DataBlock)]
  BY DEF LSQTypeOK
<1>6. /\ l1d' \in [reads : [DataBlock -> Nat], writes : Nat, returned : Seq(DataBlock)]
      /\ l1d'.returned = l1d.returned /\ l1d'.reads = reads
      /\ reads \in [DataBlock -> Nat] /\ reads[b] > 0
      /\ \A c \in DataBlock : reads[c] >= l1d.reads[c]
  <2>1. l1d.reads \in [DataBlock -> Nat]
    BY <1>5
  <2>2. /\ reads \in [DataBlock -> Nat] /\ reads[b] > 0
        /\ \A c \in DataBlock : reads[c] >= l1d.reads[c]
    <3>. HIDE DEF b
    <3>1. \A c \in DataBlock : l1d.reads[c] \in Nat
      BY <2>1
    <3>2. \A c \in DataBlock : reads[c] = IF c = b THEN l1d.reads[b] + 1 ELSE l1d.reads[c]
      BY <2>1, <1>3
    <3>3. \A c \in DataBlock : reads[c] \in Nat /\ reads[c] >= l1d.reads[c]
      BY <3>1, <3>2, <1>3
    <3>4. reads[b] > 0
      BY <3>1, <3>2, <1>3
    <3>5. reads \in [DataBlock -> Nat]
      BY <2>1, <3>3
    <3>. QED  BY <3>3, <3>4, <3>5
  <2>. HIDE DEF reads
  <2>. QED  BY <1>1, <1>5, <2>2
<1>. HIDE DEF e, reads, b
<1>7. /\ LQ'[q] = e
      /\ \A p \in Slots : p # q => LQ'[p] = LQ[p]
      /\ LQ' \in [Slots -> LoadType \cup {Empty}]
  BY <1>1, <1>2, <1>4
<1>8. SameLoads(LQ, LQ')
  <2>1. e # Empty
    BY <1>4, NotEmpty
  <2>. QED  BY <2>1, <1>2, <1>4, <1>7 DEF SameLoads
<1>9. SameStores(SQ, SQ') /\ SameProgram(rob, rob')
  BY <1>1, SameQueues
<1>10. LSQTypeOK'
  BY <1>1, <1>6, <1>7 DEF LSQTypeOK
<1>11. /\ OpsCounted' /\ RetiredFinished' /\ DependentsHeld' /\ StoresHeld'
       /\ WaitsForYoungest' /\ ProgramOrder' /\ WaitsForOne'
  BY <1>1, <1>8, <1>9, <1>10, QuietStep
<1>12. CompletedDone'
  BY <1>1 DEF CompletedDone
<1>13. SentAlone'
  BY <1>2, <1>4, <1>7 DEF SentAlone, Loads
<1>14. LoadAwaited'
  <2>1. \A c \in DataBlock : Awaited(l1d, c) => Awaited(l1d', c)
    <3>1. \A c \in DataBlock : l1d.reads[c] \in Nat /\ reads[c] \in Nat
      BY <1>5, <1>6
    <3>2. \A c \in DataBlock : l1d.reads[c] > 0 => reads[c] > 0
      BY <3>1, <1>6
    <3>. QED  BY <3>2, <1>6 DEF Awaited
  <2>2. ASSUME NEW p \in Slots, LQ'[p] # Empty, LQ'[p].issued
        PROVE  Awaited(l1d', DataBlockOf[LQ'[p].addr])
    <3>1. CASE p = q
      <4>1. DataBlockOf[LQ'[p].addr] = b
        BY <3>1, <1>4, <1>7 DEF b
      <4>2. l1d'.reads[b] > 0
        BY <1>6
      <4>. QED  BY <4>1, <4>2 DEF Awaited
    <3>2. CASE p # q
      <4>1. LQ'[p] = LQ[p]
        BY <3>2, <1>7
      <4>2. LQ[p] \in LoadType /\ Awaited(l1d, DataBlockOf[LQ[p].addr])
        BY <2>2, <4>1 DEF LoadAwaited, Loads, Awaited
      <4>3. DataBlockOf[LQ[p].addr] \in DataBlock
        BY <4>2, LoadFields DEF LSQAssumption
      <4>. QED  BY <2>1, <4>1, <4>2, <4>3
    <3>. QED  BY <3>1, <3>2
  <2>. QED  BY <2>2 DEF LoadAwaited, Loads, Awaited
<1>. QED  BY <1>10, <1>11, <1>12, <1>13, <1>14, PartsNext

(* The L1D *)
LEMMA L1dKeeps ==
  ASSUME LSQAssumption, LSQInv,
         (\E b \in DataBlock : \E n \in 1 .. l1d.reads[b] : AnswerReads(b, n)) \/ TakeWrite
  PROVE  LSQInv'
<1>. USE Parts
<1>1. l1d \in [reads : [DataBlock -> Nat], writes : Nat, returned : Seq(DataBlock)]
  BY DEF LSQTypeOK
<1>2. /\ pc' = pc /\ placed' = placed /\ next_id' = next_id
      /\ rob' = rob /\ SQ' = SQ /\ LQ' = LQ
  BY DEF AnswerReads, TakeWrite
<1>3. /\ l1d' \in [reads : [DataBlock -> Nat], writes : Nat, returned : Seq(DataBlock)]
      /\ \A c \in DataBlock : Awaited(l1d, c) => Awaited(l1d', c)
  <2>1. CASE TakeWrite
    <3>1. l1d' = [l1d EXCEPT !.writes = @ - 1] /\ l1d.writes > 0
      BY <2>1 DEF TakeWrite
    <3>2. l1d.writes - 1 \in Nat
      BY <3>1, <1>1
    <3>. QED  BY <3>1, <3>2, <1>1 DEF Awaited
  <2>2. ASSUME NEW b \in DataBlock, NEW n \in 1 .. l1d.reads[b], AnswerReads(b, n)
        PROVE  /\ l1d' \in [reads : [DataBlock -> Nat], writes : Nat, returned : Seq(DataBlock)]
               /\ \A c \in DataBlock : Awaited(l1d, c) => Awaited(l1d', c)
    <3>. DEFINE reads == [l1d.reads EXCEPT ![b] = @ - n]
                returned == Append(l1d.returned, b)
    <3>1. l1d' = [l1d EXCEPT !.reads = reads, !.returned = returned] /\ n <= l1d.reads[b]
      BY <2>2 DEF AnswerReads
    <3>2. l1d.reads \in [DataBlock -> Nat] /\ l1d.returned \in Seq(DataBlock)
      BY <1>1
    <3>3. /\ reads \in [DataBlock -> Nat]
          /\ \A c \in DataBlock : c # b => reads[c] = l1d.reads[c]
      <4>1. l1d.reads[b] \in Nat /\ l1d.reads[b] - n \in Nat
        BY <3>1, <3>2
      <4>. QED  BY <3>2, <4>1
    <3>4. /\ returned \in Seq(DataBlock) /\ Len(l1d.returned) \in Nat
          /\ DOMAIN returned = 1 .. Len(l1d.returned) + 1
          /\ DOMAIN l1d.returned = 1 .. Len(l1d.returned)
          /\ \A i \in 1 .. Len(l1d.returned) : returned[i] = l1d.returned[i]
          /\ returned[Len(l1d.returned) + 1] = b
      BY <3>2, AppendProperties, LenProperties
    <3>. HIDE DEF reads, returned
    <3>5. /\ l1d'.reads = reads /\ l1d'.returned = returned
          /\ l1d' \in [reads : [DataBlock -> Nat], writes : Nat, returned : Seq(DataBlock)]
      BY <3>1, <3>3, <3>4, <1>1
    <3>6. ASSUME NEW c \in DataBlock, Awaited(l1d, c)
          PROVE  Awaited(l1d', c)
      <4>1. CASE c = b
        <5>1. Len(l1d.returned) + 1 \in DOMAIN returned
          BY <3>4
        <5>. QED  BY <4>1, <5>1, <3>4, <3>5 DEF Awaited
      <4>2. CASE c # b /\ l1d.reads[c] > 0
        BY <4>2, <3>3, <3>5 DEF Awaited
      <4>3. CASE \E i \in DOMAIN l1d.returned : l1d.returned[i] = c
        <5>1. PICK i \in 1 .. Len(l1d.returned) : l1d.returned[i] = c
          BY <4>3, <3>4
        <5>2. i \in DOMAIN returned /\ returned[i] = c
          BY <5>1, <3>4
        <5>. QED  BY <5>2, <3>5 DEF Awaited
      <4>. QED  BY <4>1, <4>2, <4>3, <3>6 DEF Awaited
    <3>. QED  BY <3>5, <3>6
  <2>. QED  BY <2>1, <2>2
<1>4. SameLoads(LQ, LQ') /\ SameStores(SQ, SQ') /\ SameProgram(rob, rob')
  BY <1>2, SameQueues
<1>5. LSQTypeOK'
  BY <1>2, <1>3 DEF LSQTypeOK
<1>6. /\ OpsCounted' /\ RetiredFinished' /\ DependentsHeld' /\ StoresHeld'
      /\ WaitsForYoungest' /\ ProgramOrder' /\ WaitsForOne'
  BY <1>2, <1>4, <1>5, QuietStep
<1>7. LoadAwaited'
  BY <1>2, <1>3, AwaitedKept
<1>8. CompletedDone' /\ SentAlone'
  BY <1>2 DEF CompletedDone, SentAlone, Loads
<1>. QED  BY <1>5, <1>6, <1>7, <1>8, PartsNext

(* dispatch_instruction *)
LEMMA DispatchKeeps ==
  ASSUME LSQAssumption, LSQInv, NEW k \in Kinds, DispatchInstruction(k)
  PROVE  LSQInv'
<1>. USE Parts
<1>. DEFINE e == [id |-> next_id, loads |-> k.loads, stores |-> k.stores, ops |-> 0,
                  executed |-> FALSE, completed |-> FALSE]
<1>1. /\ pc = "stages" /\ next_id <= LAST_ID /\ HasRoomFor(k) /\ rob' = Append(rob, e)
      /\ next_id' = next_id + 1 /\ pc' = "dispatch" /\ placed' = 0
      /\ LQ' = LQ /\ SQ' = SQ /\ l1d' = l1d
  BY DEF DispatchInstruction
<1>2. /\ next_id \in Nat /\ next_id \in Ids /\ next_id' \in 1 .. LAST_ID + 1
      /\ LAST_ID \in Nat /\ ROB_SIZE \in Nat /\ SQ_SIZE \in Nat
  <2>1. next_id \in 1 .. LAST_ID + 1 /\ LAST_ID \in Nat
    BY DEF LSQTypeOK, LSQAssumption
  <2>. QED  BY <1>1, <2>1 DEF Ids, LSQAssumption
<1>3. /\ k.loads \in Seq(Addr) /\ k.stores \in Seq(Addr)
      /\ Len(k.loads) \in Nat /\ Len(k.stores) \in Nat
  BY LenProperties DEF LSQAssumption
<1>4. /\ e \in RobType /\ e.id = next_id /\ e.loads = k.loads /\ e.stores = k.stores
      /\ e.ops = 0 /\ e.completed = FALSE
  BY <1>2, <1>3 DEF RobType
<1>. HIDE DEF e
<1>5. /\ rob' \in Seq(RobType) /\ Len(rob') = Len(rob) + 1 /\ DOMAIN rob' = 1 .. Len(rob) + 1
      /\ \A i \in 1 .. Len(rob) : rob'[i] = rob[i]
      /\ rob'[Len(rob) + 1] = e
      /\ rob' # <<>>
  <2>1. /\ rob' \in Seq(RobType) /\ Len(rob') = Len(rob) + 1
        /\ \A i \in 1 .. Len(rob) : rob'[i] = rob[i]
        /\ rob'[Len(rob) + 1] = e
    BY <1>1, <1>4, AppendProperties
  <2>2. Len(rob') # 0 /\ DOMAIN rob' = 1 .. Len(rob')
    BY <2>1, LenProperties
  <2>. QED  BY <2>1, <2>2, EmptySeq
<1>6. \A i \in 1 .. Len(rob) + 1 : i \in 1 .. Len(rob) \/ i = Len(rob) + 1
  OBVIOUS
<1>7. Youngest' = e
  BY <1>5 DEF Youngest
<1>8. SameLoads(LQ, LQ') /\ SameStores(SQ, SQ')
  BY <1>1, SameQueues
<1>9. LSQTypeOK'
  <2>1. Len(rob') <= ROB_SIZE
    <3>1. Len(rob) < ROB_SIZE
      BY <1>1 DEF HasRoomFor
    <3>. QED  BY <3>1, <1>2, <1>5
  <2>. QED  BY <2>1, <1>1, <1>2, <1>5 DEF LSQTypeOK
<1>10. DependentsHeld' /\ WaitsForYoungest' /\ WaitsForOne'
  BY <1>8, WaitingKept
<1>11. LoadAwaited' /\ SentAlone'
  BY <1>1 DEF LoadAwaited, SentAlone, Loads
<1>12. CompletedDone'
  <2>1. ASSUME NEW i \in 1 .. Len(rob) + 1, rob'[i].completed
        PROVE  rob'[i].ops = NumMemOps(rob'[i])
    BY <2>1, <1>4, <1>5, <1>6 DEF CompletedDone
  <2>. QED  BY <2>1, <1>5 DEF CompletedDone
<1>13. RetiredFinished'
  <2>1. InROB \subseteq InROB'
    BY <1>5 DEF InROB
  <2>. QED  BY <2>1, <1>1 DEF RetiredFinished, Loads
<1>14. /\ \A i \in 1 .. Len(rob) : rob[i].id \in Nat /\ rob[i].id < next_id
       /\ \A q \in Slots : LQ[q] # Empty => LQ[q].id \in Nat /\ LQ[q].id < next_id
       /\ \A n \in 1 .. Len(SQ) : SQ[n].id \in Nat /\ SQ[n].id < next_id
  BY RobFields, LoadFields, StoreFields DEF ProgramOrder, Loads
<1>15. ProgramOrder'
  <2>1. \A i, j \in DOMAIN rob' : i < j => rob'[i].id < rob'[j].id
    <3>1. ASSUME NEW i \in 1 .. Len(rob) + 1, NEW j \in 1 .. Len(rob) + 1, i < j
          PROVE  rob'[i].id < rob'[j].id
      <4>1. i \in 1 .. Len(rob)
        BY <3>1
      <4>2. CASE j \in 1 .. Len(rob)
        BY <3>1, <4>1, <4>2, <1>5 DEF ProgramOrder
      <4>3. CASE j = Len(rob) + 1
        BY <4>1, <4>3, <1>4, <1>5, <1>14
      <4>. QED  BY <4>2, <4>3, <1>6
    <3>. QED  BY <3>1, <1>5
  <2>2. \A i \in DOMAIN rob' : rob'[i].id < next_id'
    <3>1. ASSUME NEW i \in 1 .. Len(rob) + 1 PROVE rob'[i].id < next_id + 1
      BY <1>2, <1>4, <1>5, <1>6, <1>14
    <3>. QED  BY <3>1, <1>1, <1>5
  <2>3. \A q \in Loads' : LQ'[q].id < next_id'
    BY <1>1, <1>2, <1>14 DEF Loads
  <2>4. \A n \in DOMAIN SQ' : SQ'[n].id < next_id' /\ SQ'[n].id < next_id
    BY <1>1, <1>2, <1>14
  <2>5. Youngest'.id = next_id /\ Youngest'.loads = k.loads /\ Youngest'.stores = k.stores
    BY <1>4, <1>7
  <2>6. Len(SQ') + Len(k.stores) <= SQ_SIZE
    <3>1. Len(k.stores) + Len(SQ) <= SQ_SIZE
      BY <1>1 DEF HasRoomFor
    <3>. QED  BY <3>1, <1>1, <1>2, <1>3
  <2>7. next_id' - 1 = next_id /\ placed' <= Len(k.loads)
    BY <1>1, <1>2, <1>3
  <2>. QED  BY <2>1, <2>2, <2>3, <2>4, <2>5, <2>6, <2>7, <1>5 DEF ProgramOrder
<1>16. /\ LoadsOf(LQ, next_id) = {} /\ StoresOf(SQ, next_id) = {} /\ WaitingOf(SQ, next_id) = {}
       /\ Cardinality({}) = 0
  <2>1. LoadsOf(LQ, next_id) = {} /\ StoresOf(SQ, next_id) = {} /\ WaitingOf(SQ, next_id) = {}
    BY <1>14 DEF LoadsOf, StoresOf, WaitingOf
  <2>. QED  BY <2>1, FS_EmptySet
<1>17. StoresHeld'
  <2>1. /\ InOrder(SQ)
        /\ \A i \in 1 .. Len(rob) : Cardinality(StoresOf(SQ, rob[i].id)) = Len(rob[i].stores)
    BY <1>1, StoresHeldIs
  <2>2. ASSUME NEW i \in 1 .. Len(rob')
        PROVE  Cardinality(StoresOf(SQ', rob'[i].id)) =
                 IF pc' = "dispatch" /\ i = Len(rob') THEN 0 ELSE Len(rob'[i].stores)
    <3>1. CASE i \in 1 .. Len(rob)
      <4>1. i # Len(rob')
        BY <3>1, <1>5
      <4>. QED  BY <3>1, <4>1, <2>1, <1>1, <1>5
    <3>2. CASE i = Len(rob) + 1
      BY <3>2, <1>1, <1>4, <1>5, <1>16
    <3>. QED  BY <3>1, <3>2, <1>5, <1>6
  <2>. QED  BY <2>1, <2>2, <1>1, <1>5, StoresHeldIsNext
<1>18. OpsCounted'
  <2>1. Counted(rob, LQ, SQ, 0)
    <3>1. Left = 0
      BY <1>1 DEF Left
    <3>. QED  BY <3>1, CountedIs DEF ProgramOrder
  <2>2. NumMemOps(e) \in Nat
    BY <1>4, RobFields
  <2>3. Left' = NumMemOps(e)
    <3>1. Left' = NumMemOps(Youngest') - placed'
      BY <1>1 DEF Left, NumMemOps
    <3>. QED  BY <3>1, <2>2, <1>1, <1>7
  <2>4. ASSUME NEW i \in 1 .. Len(rob')
        PROVE  rob'[i].ops + (Cardinality(LoadsOf(LQ', rob'[i].id)) + Cardinality(WaitingOf(SQ', rob'[i].id)))
                 + (IF i = Len(rob') THEN Left' ELSE 0) = NumMemOps(rob'[i])
    <3>1. CASE i \in 1 .. Len(rob)
      <4>1. i # Len(rob')
        BY <3>1, <1>5
      <4>2. rob[i].ops + (Cardinality(LoadsOf(LQ, rob[i].id)) + Cardinality(WaitingOf(SQ, rob[i].id)))
              + (IF i = Len(rob) THEN 0 ELSE 0) = NumMemOps(rob[i])
        BY <2>1, <3>1 DEF Counted
      <4>. QED  BY <3>1, <4>1, <4>2, <1>1, <1>5
    <3>2. CASE i = Len(rob) + 1
      <4>1. i = Len(rob') /\ rob'[i] = e
        BY <3>2, <1>5
      <4>2. 0 + (0 + 0) + NumMemOps(e) = NumMemOps(e)
        BY <2>2
      <4>. QED  BY <4>1, <4>2, <2>3, <1>1, <1>4, <1>16
    <3>. QED  BY <3>1, <3>2, <1>5, <1>6
  <2>5. Counted(rob', LQ', SQ', Left')
    BY <2>4 DEF Counted
  <2>. QED  BY <2>5, <1>5, <1>15, CountedIsNext DEF ProgramOrder
<1>. QED  BY <1>9, <1>10, <1>11, <1>12, <1>13, <1>15, <1>17, <1>18, PartsNext

(* retire_rob *)
LEMMA RetireKeeps ==
  ASSUME LSQAssumption, LSQInv, Retire
  PROVE  LSQInv'
<1>. USE Parts
<1>1. /\ pc = "stages" /\ rob # <<>> /\ Head(rob).completed /\ rob' = Tail(rob)
      /\ pc' = pc /\ placed' = placed /\ next_id' = next_id
      /\ LQ' = LQ /\ SQ' = SQ /\ l1d' = l1d
  BY DEF Retire
<1>2. /\ Head(rob) = rob[1] /\ 1 \in 1 .. Len(rob)
      /\ rob' \in Seq(RobType) /\ Len(rob') = Len(rob) - 1 /\ DOMAIN rob' = 1 .. Len(rob) - 1
      /\ \A i \in 1 .. Len(rob) - 1 : i + 1 \in 1 .. Len(rob) /\ rob'[i] = rob[i + 1]
  BY <1>1, TailIs
<1>3. SameLoads(LQ, LQ') /\ SameStores(SQ, SQ')
  BY <1>1, SameQueues
<1>4. LSQTypeOK'
  <2>1. Len(rob') <= ROB_SIZE
    <3>1. Len(rob) <= ROB_SIZE /\ ROB_SIZE \in Nat
      BY DEF LSQTypeOK, LSQAssumption
    <3>. QED  BY <3>1, <1>2
  <2>. QED  BY <2>1, <1>1, <1>2 DEF LSQTypeOK
<1>5. DependentsHeld' /\ WaitsForYoungest' /\ WaitsForOne'
  BY <1>3, WaitingKept
<1>6. LoadAwaited' /\ SentAlone'
  BY <1>1 DEF LoadAwaited, SentAlone, Loads
<1>7. CompletedDone'
  BY <1>2 DEF CompletedDone
<1>8. ProgramOrder'
  <2>1. ASSUME NEW i \in 1 .. Len(rob) - 1, NEW j \in 1 .. Len(rob) - 1, i < j
        PROVE  rob'[i].id < rob'[j].id
    <3>1. i + 1 \in DOMAIN rob /\ j + 1 \in DOMAIN rob /\ i + 1 < j + 1
      BY <2>1, <1>2
    <3>2. rob[i + 1].id < rob[j + 1].id
      BY <3>1 DEF ProgramOrder
    <3>. QED  BY <3>2, <1>2
  <2>2. \A i \in DOMAIN rob' : rob'[i].id < next_id'
    BY <1>1, <1>2 DEF ProgramOrder
  <2>3. \A i, j \in DOMAIN rob' : i < j => rob'[i].id < rob'[j].id
    BY <2>1, <1>2
  <2>. QED  BY <2>2, <2>3, <1>1 DEF ProgramOrder, Loads
<1>9. Left = 0 /\ Left' = 0 /\ Counted(rob, LQ, SQ, 0)
  <2>1. Left = 0 /\ Left' = 0
    BY <1>1 DEF Left
  <2>. QED  BY <2>1, CountedIs DEF ProgramOrder
<1>10. \A i \in 1 .. Len(rob) :
         rob[i].ops + (Cardinality(LoadsOf(LQ, rob[i].id)) + Cardinality(WaitingOf(SQ, rob[i].id))) + 0
           = NumMemOps(rob[i])
  BY <1>9 DEF Counted
<1>11. OpsCounted'
  <2>1. ASSUME NEW i \in 1 .. Len(rob')
        PROVE  rob'[i].ops + (Cardinality(LoadsOf(LQ', rob'[i].id)) + Cardinality(WaitingOf(SQ', rob'[i].id)))
                 + (IF i = Len(rob') THEN 0 ELSE 0) = NumMemOps(rob'[i])
    BY <1>1, <1>2, <1>10
  <2>2. Counted(rob', LQ', SQ', 0)
    BY <2>1 DEF Counted
  <2>. QED  BY <2>2, <1>2, <1>8, <1>9, CountedIsNext DEF ProgramOrder
<1>12. LoadsOf(LQ, rob[1].id) = {} /\ WaitingOf(SQ, rob[1].id) = {}
  <2>. DEFINE d == rob[1].id
  <2>1. rob[1].ops = NumMemOps(rob[1]) /\ rob[1].ops \in Nat /\ NumMemOps(rob[1]) \in Nat
    BY <1>1, <1>2, RobFields DEF CompletedDone
  <2>2. /\ Cardinality(LoadsOf(LQ, d)) \in Nat /\ Cardinality(WaitingOf(SQ, d)) \in Nat
        /\ IsFiniteSet(LoadsOf(LQ, d)) /\ IsFiniteSet(WaitingOf(SQ, d))
    BY CountsAre
  <2>3. rob[1].ops + (Cardinality(LoadsOf(LQ, d)) + Cardinality(WaitingOf(SQ, d))) + 0 = NumMemOps(rob[1])
    BY <1>2, <1>10
  <2>4. Cardinality(LoadsOf(LQ, d)) = 0 /\ Cardinality(WaitingOf(SQ, d)) = 0
    <3>. HIDE DEF d
    <3>. QED  BY <2>1, <2>2, <2>3
  <2>. QED  BY <2>2, <2>4, FS_EmptySet
<1>13. \A x \in InROB : x # rob[1].id => x \in InROB'
  <2>1. ASSUME NEW i \in 1 .. Len(rob), rob[i].id # rob[1].id
        PROVE  rob[i].id \in InROB'
    <3>1. i - 1 \in 1 .. Len(rob) - 1 /\ (i - 1) + 1 = i
      BY <2>1
    <3>2. i - 1 \in DOMAIN rob' /\ rob'[i - 1].id = rob[i].id
      BY <3>1, <1>2
    <3>. QED  BY <3>2 DEF InROB
  <2>. QED  BY <2>1 DEF InROB
<1>14. RetiredFinished'
  <2>1. ASSUME NEW q \in Slots, LQ[q] # Empty PROVE LQ[q].id \in InROB'
    <3>1. LQ[q].id # rob[1].id
      BY <2>1, <1>12 DEF LoadsOf
    <3>. QED  BY <2>1, <3>1, <1>13 DEF RetiredFinished, Loads
  <2>2. ASSUME NEW n \in DOMAIN SQ, ~SQ[n].issued PROVE SQ[n].id \in InROB'
    <3>1. SQ[n].id # rob[1].id
      BY <2>2, <1>12 DEF WaitingOf
    <3>. QED  BY <2>2, <3>1, <1>13 DEF RetiredFinished
  <2>. QED  BY <2>1, <2>2, <1>1 DEF RetiredFinished, Loads
<1>15. StoresHeld'
  <2>1. /\ InOrder(SQ)
        /\ \A i \in 1 .. Len(rob) : Cardinality(StoresOf(SQ, rob[i].id)) = Len(rob[i].stores)
    BY <1>1, StoresHeldIs
  <2>2. \A i \in 1 .. Len(rob') :
          Cardinality(StoresOf(SQ', rob'[i].id)) =
            IF pc' = "dispatch" /\ i = Len(rob') THEN 0 ELSE Len(rob'[i].stores)
    BY <2>1, <1>1, <1>2
  <2>. QED  BY <2>1, <2>2, <1>1, <1>2, StoresHeldIsNext
<1>. QED  BY <1>4, <1>5, <1>6, <1>7, <1>8, <1>11, <1>14, <1>15, PartsNext

-----------------------------------------------------------------------------
(* Steps that finish loads and release their slots.                        *)

LEMMA ReleaseKeeps ==
  ASSUME LSQAssumption, LSQInv, LSQTypeOK',
         NEW R \in SUBSET Slots, \A q \in R : LQ[q] # Empty, LQ' = Released(R),
         NEW n \in [Ids -> Nat], rob' = Finished(n),
         Len(SQ') = Len(SQ), InOrder(SQ'),
         \A m \in 1 .. Len(SQ) :
           /\ SQ'[m].id = SQ[m].id /\ SQ'[m].addr = SQ[m].addr
           /\ SQ'[m].dependents = SQ[m].dependents
           /\ SQ[m].issued => SQ'[m].issued,
         \A d \in Ids :
           Cardinality(WaitingOf(SQ, d)) + CountIn(R)[d] = Cardinality(WaitingOf(SQ', d)) + n[d],
         next_id' = next_id, pc' = pc, placed' = placed
  PROVE  /\ OpsCounted' /\ RetiredFinished' /\ StoresHeld' /\ WaitsForYoungest'
         /\ ProgramOrder' /\ CompletedDone' /\ SentAlone' /\ WaitsForOne'
<1>. USE Parts
<1>1. /\ LQ' \in [Slots -> LoadType \cup {Empty}]
      /\ \A q \in Slots : LQ'[q] # Empty => q \notin R /\ LQ'[q] = LQ[q]
      /\ CountIn(R) \in [Ids -> Nat]
      /\ \A d \in Ids : Cardinality(LoadsOf(LQ, d)) = Cardinality(LoadsOf(LQ', d)) + CountIn(R)[d]
  <2>1. LQ \in [Slots -> LoadType \cup {Empty}] /\ \A q \in R : LQ[q] # Empty
    OBVIOUS
  <2>. QED  BY ONLY LSQAssumption, <2>1, R \in SUBSET Slots, LQ' = Released(R), ReleasedCounted
<1>2. /\ SameProgram(rob, rob')
      /\ \A i \in 1 .. Len(rob) :
           rob'[i].ops = rob[i].ops + n[rob[i].id] /\ rob'[i].completed = rob[i].completed
  BY FinishedIs
<1>3. SQ' \in Seq(StoreType) /\ DOMAIN SQ' = 1 .. Len(SQ)
  BY SeqParts DEF LSQTypeOK
<1>4. \A q \in Slots : LQ'[q] # Empty => LQ[q] # Empty /\ LQ'[q].id = LQ[q].id
  BY <1>1
<1>5. \A m \in DOMAIN SQ' : \E l \in DOMAIN SQ :
        SQ'[m].id = SQ[l].id /\ (SQ[l].issued => SQ'[m].issued)
  BY <1>3
<1>6. ProgramOrder'
  <2>1. \A m \in DOMAIN SQ' : \E l \in DOMAIN SQ : SQ'[m].id = SQ[l].id
    BY <1>5
  <2>2. Len(SQ') <= Len(SQ)
    OBVIOUS
  <2>. QED  BY <1>2, <1>3, <1>4, <2>1, <2>2, OrderKept
<1>7. RetiredFinished'
  BY <1>2, <1>4, <1>5, KnownKept
<1>8. StoresHeld'
  <2>1. \A d : StoresOf(SQ', d) = StoresOf(SQ, d)
    BY <1>3 DEF StoresOf
  <2>. QED  BY <2>1, <1>2, <1>3, StoresKept
<1>9. OpsCounted'
  <2>1. ASSUME NEW d \in Ids
        PROVE  Cardinality(LoadsOf(LQ, d)) + Cardinality(WaitingOf(SQ, d)) =
                 Cardinality(LoadsOf(LQ', d)) + Cardinality(WaitingOf(SQ', d)) + n[d]
    <3>1. /\ Cardinality(LoadsOf(LQ', d)) \in Nat
          /\ Cardinality(WaitingOf(SQ, d)) \in Nat /\ Cardinality(WaitingOf(SQ', d)) \in Nat
      BY <1>1, <1>3, CountsAre
    <3>2. \A a, b, c, e, f \in Nat : b + e = c + f => (a + e) + b = a + c + f
      OBVIOUS
    <3>3. CountIn(R)[d] \in Nat /\ n[d] \in Nat
      BY <1>1
    <3>4. /\ Cardinality(LoadsOf(LQ, d)) = Cardinality(LoadsOf(LQ', d)) + CountIn(R)[d]
          /\ Cardinality(WaitingOf(SQ, d)) + CountIn(R)[d] = Cardinality(WaitingOf(SQ', d)) + n[d]
      BY <1>1
    <3>5. (Cardinality(LoadsOf(LQ', d)) + CountIn(R)[d]) + Cardinality(WaitingOf(SQ, d)) =
            Cardinality(LoadsOf(LQ', d)) + Cardinality(WaitingOf(SQ', d)) + n[d]
      BY ONLY <3>1, <3>2, <3>3, <3>4
    <3>. QED  BY <3>4, <3>5
  <2>. QED  BY <1>1, <1>2, <1>3, <1>6, <2>1, CountKept
<1>10. CompletedDone'
  <2>1. \A i \in 1 .. Len(rob) : rob[i].ops \in Nat /\ n[rob[i].id] \in Nat
    BY RobFields
  <2>2. \A i \in 1 .. Len(rob) :
          rob'[i].completed = rob[i].completed /\ rob[i].ops <= rob'[i].ops
    <3>1. ASSUME NEW i \in 1 .. Len(rob)
          PROVE  rob[i].ops <= rob'[i].ops
      <4>1. rob[i].ops \in Nat /\ n[rob[i].id] \in Nat /\ rob'[i].ops = rob[i].ops + n[rob[i].id]
        BY <1>2, <2>1
      <4>. QED  BY ONLY <4>1
    <3>. QED  BY <1>2, <3>1
  <2>. QED  BY <1>2, <1>6, <1>9, <2>2, CompletedKept
<1>11. SentAlone'
  BY <1>1 DEF SentAlone, Loads
<1>12. WaitsForOne'
  BY <1>3 DEF WaitsForOne
<1>13. WaitsForYoungest'
  <2>1. ASSUME NEW q \in Slots, LQ'[q] # Empty
        PROVE  Sees(LQ'[q], SQ')
    <3>1. LQ[q] # Empty /\ LQ'[q] = LQ[q]
      BY <2>1, <1>1
    <3>2. Sees(LQ[q], SQ)
      BY <3>1, YoungestIs
    <3>3. \A m : Older(LQ'[q], SQ', m) <=> Older(LQ[q], SQ, m)
      BY <3>1, <1>3 DEF Older
    <3>4. \A m : Older(LQ[q], SQ, m) => SQ'[m].id = SQ[m].id
      BY <1>3 DEF Older
    <3>5. ASSUME NEW m, Older(LQ'[q], SQ', m) PROVE SQ'[m].id <= LQ'[q].producer
      BY <3>1, <3>2, <3>3, <3>4, <3>5 DEF Sees
    <3>6. ASSUME LQ'[q].producer # NoProducer
          PROVE  \E m : Older(LQ'[q], SQ', m) /\ SQ'[m].id = LQ'[q].producer
      <4>1. PICK m : Older(LQ[q], SQ, m) /\ SQ[m].id = LQ[q].producer
        BY <3>1, <3>2, <3>6 DEF Sees
      <4>. QED  BY <4>1, <3>1, <3>3, <3>4
    <3>. QED  BY <3>5, <3>6 DEF Sees
  <2>. QED  BY <2>1, <1>1, <1>3, YoungestIsNext
<1>. QED  BY <1>6, <1>7, <1>8, <1>9, <1>10, <1>11, <1>12, <1>13

(* do_finish_store *)
LEMMA FinishStoreKeeps ==
  ASSUME LSQAssumption, LSQInv, FinishStore
  PROVE  LSQInv'
<1>. USE Parts
<1>1. PICK n \in NextToIssue :
        LET loads == CountIn(SQ[n].dependents)
        IN  /\ rob' = Finished([d \in Ids |-> loads[d] + IF d = SQ[n].id THEN 1 ELSE 0])
            /\ LQ' = Released(SQ[n].dependents)
            /\ SQ' = [SQ EXCEPT ![n] = [@ EXCEPT !.issued = TRUE]]
            /\ UNCHANGED <<pc, placed, next_id, l1d>>
  BY DEF FinishStore
<1>. DEFINE R == SQ[n].dependents
            f == [d \in Ids |-> CountIn(R)[d] + IF d = SQ[n].id THEN 1 ELSE 0]
            e == [SQ[n] EXCEPT !.issued = TRUE]
<1>2. /\ rob' = Finished(f) /\ LQ' = Released(R) /\ SQ' = [SQ EXCEPT ![n] = e]
      /\ pc' = pc /\ placed' = placed /\ next_id' = next_id /\ l1d' = l1d
  BY <1>1
<1>3. /\ n \in 1 .. Len(SQ) /\ ~SQ[n].issued /\ SQ[n] \in StoreType
      /\ \A m \in 1 .. n - 1 : SQ[m].issued
  BY DEF NextToIssue
<1>4. R \in SUBSET Slots /\ \A q \in R : LQ[q] # Empty
  BY <1>3, StoreFields DEF DependentsHeld, WaitsFor
<1>5. /\ LQ' \in [Slots -> LoadType \cup {Empty}]
      /\ \A q \in Slots : LQ'[q] # Empty => q \notin R /\ LQ'[q] = LQ[q]
      /\ \A q \in Slots : q \notin R => LQ'[q] = LQ[q]
      /\ CountIn(R) \in [Ids -> Nat]
  BY <1>2, <1>4, ReleasedCounted
<1>6. f \in [Ids -> Nat] /\ \A d \in Ids : f[d] = CountIn(R)[d] + IF d = SQ[n].id THEN 1 ELSE 0
  <2>. HIDE DEF R
  <2>. QED  BY <1>5
<1>. HIDE DEF f, R
<1>7. SameProgram(rob, rob')
  BY <1>2, <1>6, FinishedIs
<1>8. /\ e \in StoreType /\ e.id = SQ[n].id /\ e.addr = SQ[n].addr /\ e.issued = TRUE
      /\ e.dependents = SQ[n].dependents
  BY <1>3, StoreSet
<1>. HIDE DEF e
<1>9. /\ SQ' \in Seq(StoreType) /\ Len(SQ') = Len(SQ) /\ SQ'[n] = e
      /\ DOMAIN SQ' = 1 .. Len(SQ)
      /\ \A m \in 1 .. Len(SQ) : m # n => SQ'[m] = SQ[m]
  <2>1. /\ SQ' \in Seq(StoreType) /\ Len(SQ') = Len(SQ) /\ SQ'[n] = e
        /\ \A m \in 1 .. Len(SQ) : m # n => SQ'[m] = SQ[m]
    BY <1>2, <1>3, <1>8, EntrySet
  <2>. QED  BY <2>1, SeqParts
<1>10. \A m \in 1 .. Len(SQ) :
         /\ SQ'[m].id = SQ[m].id /\ SQ'[m].addr = SQ[m].addr
         /\ SQ'[m].dependents = SQ[m].dependents
         /\ SQ[m].issued => SQ'[m].issued
         /\ ~SQ'[m].issued => m # n /\ ~SQ[m].issued
  BY <1>8, <1>9
<1>11. InOrder(SQ')
  <2>1. InOrder(SQ)
    BY StoresHeldIs
  <2>2. ASSUME NEW l \in 1 .. Len(SQ), NEW m \in 1 .. Len(SQ), l < m
        PROVE  SQ'[l].id <= SQ'[m].id /\ (SQ'[m].issued => SQ'[l].issued)
    <3>1. SQ[l].id <= SQ[m].id /\ (SQ[m].issued => SQ[l].issued)
      BY <2>1, <2>2 DEF InOrder
    <3>2. CASE m = n
      <4>1. l \in 1 .. n - 1
        BY <2>2, <3>2
      <4>. QED  BY <3>1, <4>1, <1>3, <1>10
    <3>3. CASE m # n
      BY <3>1, <3>3, <1>9, <1>10
    <3>. QED  BY <3>2, <3>3
  <2>. QED  BY <2>2, <1>9 DEF InOrder
<1>12. ASSUME NEW d \in Ids
       PROVE  Cardinality(WaitingOf(SQ, d)) + CountIn(R)[d] = Cardinality(WaitingOf(SQ', d)) + f[d]
  <2>1. IsFiniteSet(WaitingOf(SQ, d)) /\ Cardinality(WaitingOf(SQ, d)) \in Nat /\ CountIn(R)[d] \in Nat
    BY <1>5, CountsAre
  <2>2. CASE d = SQ[n].id
    <3>1. WaitingOf(SQ', d) = WaitingOf(SQ, d) \ {n}
      BY <1>8, <1>9 DEF WaitingOf
    <3>2. n \in WaitingOf(SQ, d)
      BY <2>2, <1>3 DEF WaitingOf
    <3>3. Cardinality(WaitingOf(SQ', d)) = Cardinality(WaitingOf(SQ, d)) - 1
      <4>1. Cardinality(WaitingOf(SQ, d) \ {n}) = Cardinality(WaitingOf(SQ, d)) - 1
        BY ONLY <3>2, <2>1, FS_RemoveElement
      <4>. QED  BY <3>1, <4>1
    <3>4. f[d] = CountIn(R)[d] + 1
      BY <2>2, <1>6
    <3>. QED  BY <3>3, <3>4, <2>1
  <2>3. CASE d # SQ[n].id
    <3>1. WaitingOf(SQ', d) = WaitingOf(SQ, d)
      BY <2>3, <1>3, <1>8, <1>9 DEF WaitingOf
    <3>2. f[d] = CountIn(R)[d]
      BY <2>1, <2>3, <1>6
    <3>. QED  BY <3>1, <3>2
  <2>. QED  BY <2>2, <2>3
<1>13. LSQTypeOK'
  BY <1>2, <1>5, <1>7, <1>9 DEF LSQTypeOK, SameProgram
<1>14. /\ OpsCounted' /\ RetiredFinished' /\ StoresHeld' /\ WaitsForYoungest'
       /\ ProgramOrder' /\ CompletedDone' /\ SentAlone' /\ WaitsForOne'
  BY ZenonT(40), <1>2, <1>4, <1>6, <1>9, <1>10, <1>11, <1>12, <1>13, ReleaseKeeps
<1>15. LoadAwaited'
  <2>1. \A q \in Slots : LQ'[q] # Empty /\ LQ'[q].issued =>
                           LQ[q] # Empty /\ LQ[q].issued /\ LQ'[q].addr = LQ[q].addr
    BY <1>5
  <2>. QED  BY <2>1, <1>2, AwaitedKept
<1>16. ASSUME NEW q \in Slots, q \notin R, NEW m \in 1 .. Len(SQ), WaitsFor(q, m)
       PROVE  WaitsFor(q, m)'
  BY <1>5, <1>10, <1>16 DEF WaitsFor
<1>17. DependentsHeld'
  <2>1. ASSUME NEW m \in 1 .. Len(SQ), ~SQ'[m].issued, NEW q \in SQ'[m].dependents
        PROVE  WaitsFor(q, m)'
    <3>1. ~SQ[m].issued /\ q \in SQ[m].dependents /\ m # n
      BY <2>1, <1>10
    <3>2. q \in Slots /\ WaitsFor(q, m)
      BY <3>1, StoreFields DEF DependentsHeld
    <3>3. q \notin R
      BY <3>1, <1>3 DEF WaitsForOne, R
    <3>. QED  BY <3>2, <3>3, <1>16
  <2>2. ASSUME NEW q \in Slots, LQ'[q] # Empty, LQ'[q].producer # NoProducer
        PROVE  \E m \in DOMAIN SQ' : ~SQ'[m].issued /\ q \in SQ'[m].dependents /\ WaitsFor(q, m)'
    <3>1. q \notin R /\ LQ[q] # Empty /\ LQ[q].producer # NoProducer
      BY <2>2, <1>5
    <3>2. PICK m \in DOMAIN SQ : ~SQ[m].issued /\ q \in SQ[m].dependents /\ WaitsFor(q, m)
      BY <3>1 DEF DependentsHeld, Loads
    <3>3. m # n
      BY <3>1, <3>2 DEF R
    <3>4. m \in 1 .. Len(SQ) /\ ~SQ'[m].issued /\ q \in SQ'[m].dependents
      BY <3>2, <3>3, <1>9
    <3>5. WaitsFor(q, m)'
      BY <3>1, <3>2, <3>4, <1>16
    <3>. QED  BY <3>4, <3>5, <1>9
  <2>. QED  BY <2>1, <2>2, <1>9 DEF DependentsHeld, Loads
<1>. QED  BY <1>13, <1>14, <1>15, <1>17, PartsNext

(* handle_memory_return *)
LEMMA HandleReturnKeeps ==
  ASSUME LSQAssumption, LSQInv, HandleReturn
  PROVE  LSQInv'
<1>. USE Parts
<1>. DEFINE b == Head(l1d.returned)
            R == ReturnedLoads(b)
<1>1. /\ l1d.returned # <<>> /\ rob' = Finished(CountIn(R)) /\ LQ' = Released(R)
      /\ l1d' = [l1d EXCEPT !.returned = Tail(@)]
      /\ pc' = pc /\ placed' = placed /\ next_id' = next_id /\ SQ' = SQ
  BY DEF HandleReturn
<1>2. /\ R \in SUBSET Slots
      /\ \A q \in R : LQ[q] # Empty /\ LQ[q].issued
      /\ \A q \in Slots : LQ[q] # Empty /\ LQ[q].issued /\ q \notin R => DataBlockOf[LQ[q].addr] # b
  <2>. HIDE DEF b
  <2>. QED  BY DEF ReturnedLoads
<1>3. l1d \in [reads : [DataBlock -> Nat], writes : Nat, returned : Seq(DataBlock)]
  BY DEF LSQTypeOK
<1>4. /\ b = l1d.returned[1] /\ Len(l1d.returned) \in Nat \ {0}
      /\ DOMAIN l1d.returned = 1 .. Len(l1d.returned)
      /\ Tail(l1d.returned) \in Seq(DataBlock)
      /\ DOMAIN Tail(l1d.returned) = 1 .. Len(l1d.returned) - 1
      /\ \A i \in 1 .. Len(l1d.returned) - 1 : Tail(l1d.returned)[i] = l1d.returned[i + 1]
  BY <1>1, <1>3, TailIs, SeqParts
<1>5. /\ l1d' \in [reads : [DataBlock -> Nat], writes : Nat, returned : Seq(DataBlock)]
      /\ l1d'.reads = l1d.reads /\ l1d'.returned = Tail(l1d.returned)
  BY <1>1, <1>3, <1>4
<1>. HIDE DEF R, b
<1>6. /\ LQ' \in [Slots -> LoadType \cup {Empty}]
      /\ \A q \in Slots : LQ'[q] # Empty => q \notin R /\ LQ'[q] = LQ[q]
      /\ \A q \in Slots : q \notin R => LQ'[q] = LQ[q]
      /\ CountIn(R) \in [Ids -> Nat]
  BY SMTT(30), <1>1, <1>2, ReleasedCounted
<1>7. SameProgram(rob, rob')
  BY <1>1, <1>6, FinishedIs
<1>8. LSQTypeOK'
  BY <1>1, <1>5, <1>6, <1>7 DEF LSQTypeOK, SameProgram
<1>9. /\ OpsCounted' /\ RetiredFinished' /\ StoresHeld' /\ WaitsForYoungest'
      /\ ProgramOrder' /\ CompletedDone' /\ SentAlone' /\ WaitsForOne'
  <2>1. InOrder(SQ)
    BY StoresHeldIs
  <2>. QED  BY <2>1, <1>1, <1>2, <1>6, <1>8, ReleaseKeeps
<1>10. DependentsHeld'
  <2>1. ASSUME NEW m \in 1 .. Len(SQ), ~SQ[m].issued, NEW q \in SQ[m].dependents
        PROVE  WaitsFor(q, m)'
    <3>1. q \in Slots /\ WaitsFor(q, m) /\ SQ[m].id # NoProducer
      BY <2>1, StoreFields DEF DependentsHeld
    <3>2. q \notin R
      BY <3>1, <1>2 DEF WaitsFor, SentAlone, Loads
    <3>. QED  BY <3>1, <3>2, <1>1, <1>6 DEF WaitsFor
  <2>2. ASSUME NEW q \in Slots, LQ'[q] # Empty, LQ'[q].producer # NoProducer
        PROVE  \E m \in DOMAIN SQ : ~SQ[m].issued /\ q \in SQ[m].dependents /\ WaitsFor(q, m)'
    <3>1. LQ'[q] = LQ[q]
      BY <2>2, <1>6
    <3>2. PICK m \in DOMAIN SQ : ~SQ[m].issued /\ q \in SQ[m].dependents /\ WaitsFor(q, m)
      BY <2>2, <3>1 DEF DependentsHeld, Loads
    <3>3. WaitsFor(q, m)'
      BY <2>1, <3>2
    <3>. QED  BY <3>2, <3>3
  <2>. QED  BY <2>1, <2>2, <1>1 DEF DependentsHeld, Loads
<1>11. LoadAwaited'
  <2>1. ASSUME NEW q \in Slots, LQ'[q] # Empty, LQ'[q].issued
        PROVE  Awaited(l1d', DataBlockOf[LQ'[q].addr])
    <3>. DEFINE c == DataBlockOf[LQ[q].addr]
    <3>1. LQ'[q] = LQ[q] /\ c # b
      BY <2>1, <1>2, <1>6
    <3>2. Awaited(l1d, c)
      BY <2>1, <3>1 DEF LoadAwaited, Loads, Awaited
    <3>. HIDE DEF c
    <3>3. CASE l1d.reads[c] > 0
      BY <3>1, <3>3, <1>5 DEF Awaited, c
    <3>4. CASE \E i \in DOMAIN l1d.returned : l1d.returned[i] = c
      <4>1. PICK i \in 1 .. Len(l1d.returned) : l1d.returned[i] = c
        BY <3>4, <1>4
      <4>2. i # 1
        BY <4>1, <3>1, <1>4
      <4>3. i - 1 \in 1 .. Len(l1d.returned) - 1 /\ (i - 1) + 1 = i
        BY <4>2, <1>4
      <4>4. i - 1 \in DOMAIN l1d'.returned /\ l1d'.returned[i - 1] = c
        BY <4>1, <4>3, <1>4, <1>5
      <4>5. Awaited(l1d', c)
        BY <4>4 DEF Awaited
      <4>. QED  BY <4>5, <3>1 DEF c
    <3>. QED  BY <3>2, <3>3, <3>4 DEF Awaited
  <2>. QED  BY <2>1 DEF LoadAwaited, Loads, Awaited
<1>. QED  BY <1>8, <1>9, <1>10, <1>11, PartsNext

-----------------------------------------------------------------------------
(* do_complete_store *)
LEMMA CompleteStoreKeeps ==
  ASSUME LSQAssumption, LSQInv, CompleteStore
  PROVE  LSQInv'
<1>. USE Parts
<1>1. /\ SQ # <<>> /\ HasRetired(Head(SQ)) /\ SQ' = Tail(SQ)
      /\ l1d' = [l1d EXCEPT !.writes = @ + 1]
      /\ pc' = pc /\ placed' = placed /\ next_id' = next_id /\ rob' = rob /\ LQ' = LQ
  BY DEF CompleteStore
<1>2. /\ Head(SQ) = SQ[1] /\ 1 \in 1 .. Len(SQ)
      /\ SQ' \in Seq(StoreType) /\ Len(SQ') = Len(SQ) - 1 /\ DOMAIN SQ' = 1 .. Len(SQ) - 1
      /\ \A n \in 1 .. Len(SQ) - 1 : n + 1 \in 1 .. Len(SQ) /\ SQ'[n] = SQ[n + 1]
  BY <1>1, TailIs
<1>3. \A n \in 1 .. Len(SQ) : n # 1 => n - 1 \in 1 .. Len(SQ) - 1 /\ (n - 1) + 1 = n /\ SQ'[n - 1] = SQ[n]
  <2>1. \A n \in 1 .. Len(SQ) : n # 1 => n - 1 \in 1 .. Len(SQ) - 1 /\ (n - 1) + 1 = n
    OBVIOUS
  <2>. QED  BY <2>1, <1>2
<1>4. \A i \in 1 .. Len(rob) : SQ[1].id # rob[i].id
  <2>1. SQ[1].id \in Nat /\ \A i \in 1 .. Len(rob) : rob[i].id \in Nat
    BY <1>2, RobFields, StoreFields
  <2>. QED  BY <2>1, <1>1, <1>2 DEF HasRetired
<1>5. SQ[1].issued
  <2>1. SQ[1].id \notin InROB
    BY <1>4 DEF InROB
  <2>. QED  BY <2>1, <1>2 DEF RetiredFinished
<1>6. SameProgram(rob, rob')
  BY <1>1, SameQueues
<1>7. LSQTypeOK'
  <2>1. l1d \in [reads : [DataBlock -> Nat], writes : Nat, returned : Seq(DataBlock)]
    BY DEF LSQTypeOK
  <2>2. l1d' \in [reads : [DataBlock -> Nat], writes : Nat, returned : Seq(DataBlock)]
    <3>1. l1d.writes + 1 \in Nat
      BY <2>1
    <3>. QED  BY <2>1, <3>1, <1>1
  <2>3. Len(SQ') <= SQ_SIZE
    <3>1. Len(SQ) <= SQ_SIZE /\ SQ_SIZE \in Nat
      BY DEF LSQTypeOK, LSQAssumption
    <3>. QED  BY <3>1, <1>2
  <2>. QED  BY <2>2, <2>3, <1>1, <1>2 DEF LSQTypeOK
<1>8. \A q \in Slots : LQ'[q] # Empty => LQ[q] # Empty /\ LQ'[q].id = LQ[q].id
  BY <1>1
<1>9. \A n \in DOMAIN SQ' : \E m \in DOMAIN SQ : SQ'[n].id = SQ[m].id /\ (SQ[m].issued => SQ'[n].issued)
  BY <1>2
<1>10. ProgramOrder'
  <2>1. \A n \in DOMAIN SQ' : \E m \in DOMAIN SQ : SQ'[n].id = SQ[m].id
    BY <1>9
  <2>2. Len(SQ') <= Len(SQ)
    BY <1>2
  <2>. QED  BY <1>1, <1>2, <1>6, <1>8, <2>1, <2>2, OrderKept
<1>11. RetiredFinished'
  BY <1>6, <1>8, <1>9, KnownKept
<1>12. ASSUME NEW d
       PROVE  /\ Cardinality(WaitingOf(SQ', d)) = Cardinality(WaitingOf(SQ, d))
              /\ d # SQ[1].id => Cardinality(StoresOf(SQ', d)) = Cardinality(StoresOf(SQ, d))
  <2>1. \A S \in SUBSET (1 .. Len(SQ)) : 1 \notin S => S \in SUBSET (2 .. Len(SQ))
    OBVIOUS
  <2>2. Cardinality(WaitingOf(SQ', d)) = Cardinality(WaitingOf(SQ, d))
    <3>1. WaitingOf(SQ, d) \in SUBSET (2 .. Len(SQ))
      BY <2>1, <1>5 DEF WaitingOf
    <3>2. WaitingOf(SQ', d) = {i \in 1 .. Len(SQ) - 1 : i + 1 \in WaitingOf(SQ, d)}
      BY <1>2 DEF WaitingOf
    <3>. QED  BY <3>1, <3>2, MovedCounted
  <2>3. ASSUME d # SQ[1].id PROVE Cardinality(StoresOf(SQ', d)) = Cardinality(StoresOf(SQ, d))
    <3>1. StoresOf(SQ, d) \in SUBSET (2 .. Len(SQ))
      BY <2>1, <2>3 DEF StoresOf
    <3>2. StoresOf(SQ', d) = {i \in 1 .. Len(SQ) - 1 : i + 1 \in StoresOf(SQ, d)}
      BY <1>2 DEF StoresOf
    <3>. QED  BY <3>1, <3>2, MovedCounted
  <2>. QED  BY <2>2, <2>3
<1>13. StoresHeld'
  <2>1. InOrder(SQ)
    BY StoresHeldIs
  <2>2. InOrder(SQ')
    <3>1. ASSUME NEW m \in 1 .. Len(SQ) - 1, NEW n \in 1 .. Len(SQ) - 1, m < n
          PROVE  SQ'[m].id <= SQ'[n].id /\ (SQ'[n].issued => SQ'[m].issued)
      <4>1. m + 1 \in 1 .. Len(SQ) /\ n + 1 \in 1 .. Len(SQ) /\ m + 1 < n + 1
        BY <3>1
      <4>2. SQ[m + 1].id <= SQ[n + 1].id /\ (SQ[n + 1].issued => SQ[m + 1].issued)
        BY <2>1, <4>1 DEF InOrder
      <4>. QED  BY <4>2, <1>2
    <3>. QED  BY <3>1, <1>2 DEF InOrder
  <2>3. \A i \in 1 .. Len(rob) :
          Cardinality(StoresOf(SQ', rob[i].id)) = Cardinality(StoresOf(SQ, rob[i].id))
    BY <1>4, <1>12
  <2>. QED  BY <2>2, <2>3, <1>1, <1>2, <1>6, StoresKept
<1>14. OpsCounted'
  <2>. DEFINE z == [d \in Ids |-> 0]
  <2>1. z \in [Ids -> Nat] /\ \A d \in Ids : z[d] = 0
    OBVIOUS
  <2>. HIDE DEF z
  <2>2. \A i \in 1 .. Len(rob) : rob'[i].ops = rob[i].ops + z[rob[i].id]
    <3>1. \A i \in 1 .. Len(rob) : rob[i].ops \in Nat /\ rob[i].id \in Ids
      BY RobFields
    <3>. QED  BY <2>1, <3>1, <1>1
  <2>3. \A d \in Ids :
          Cardinality(LoadsOf(LQ, d)) + Cardinality(WaitingOf(SQ, d)) =
             Cardinality(LoadsOf(LQ', d)) + Cardinality(WaitingOf(SQ', d)) + z[d]
    <3>1. \A d \in Ids : Cardinality(LoadsOf(LQ, d)) \in Nat /\ Cardinality(WaitingOf(SQ, d)) \in Nat
      BY CountsAre
    <3>. QED  BY <2>1, <3>1, <1>1, <1>12
  <2>. QED  BY <1>1, <1>2, <1>6, <1>10, <2>1, <2>2, <2>3, CountKept
<1>15. CompletedDone' /\ SentAlone'
  BY <1>1 DEF CompletedDone, SentAlone, Loads
<1>16. LoadAwaited'
  <2>1. l1d'.reads = l1d.reads /\ l1d'.returned = l1d.returned
    <3>1. l1d \in [reads : [DataBlock -> Nat], writes : Nat, returned : Seq(DataBlock)]
      BY DEF LSQTypeOK
    <3>. QED  BY <3>1, <1>1
  <2>2. \A b \in DataBlock : Awaited(l1d, b) => Awaited(l1d', b)
    BY <2>1 DEF Awaited
  <2>. QED  BY <2>2, <1>1, AwaitedKept
<1>17. DependentsHeld'
  <2>1. ASSUME NEW n \in 1 .. Len(SQ) - 1, ~SQ'[n].issued, NEW q \in SQ'[n].dependents
        PROVE  WaitsFor(q, n)'
    <3>1. n + 1 \in 1 .. Len(SQ) /\ SQ'[n] = SQ[n + 1] /\ n + 1 # 1 /\ (n + 1) - 1 = n
      BY <1>2
    <3>2. WaitsFor(q, n + 1)
      BY <2>1, <3>1 DEF DependentsHeld
    <3>. QED  BY <3>1, <3>2, <1>1 DEF WaitsFor
  <2>2. ASSUME NEW q \in Slots, LQ[q] # Empty, LQ[q].producer # NoProducer
        PROVE  \E n \in DOMAIN SQ' : ~SQ'[n].issued /\ q \in SQ'[n].dependents /\ WaitsFor(q, n)'
    <3>1. PICK m \in DOMAIN SQ : ~SQ[m].issued /\ q \in SQ[m].dependents /\ WaitsFor(q, m)
      BY <2>2 DEF DependentsHeld, Loads
    <3>2. m # 1
      BY <3>1, <1>5
    <3>3. m - 1 \in DOMAIN SQ' /\ SQ'[m - 1] = SQ[m]
      BY <3>1, <3>2, <1>2, <1>3
    <3>4. WaitsFor(q, m - 1)'
      BY <3>1, <3>3, <1>1 DEF WaitsFor
    <3>. QED  BY <3>1, <3>3, <3>4
  <2>. QED  BY <2>1, <2>2, <1>1, <1>2 DEF DependentsHeld, Loads
<1>18. WaitsForOne'
  <2>1. ASSUME NEW m \in 1 .. Len(SQ) - 1, NEW n \in 1 .. Len(SQ) - 1,
               m # n, ~SQ'[m].issued, ~SQ'[n].issued
        PROVE  SQ'[m].dependents \cap SQ'[n].dependents = {}
    <3>1. m + 1 \in DOMAIN SQ /\ n + 1 \in DOMAIN SQ /\ m + 1 # n + 1
      BY <2>1, <1>2
    <3>. QED  BY <2>1, <3>1, <1>2 DEF WaitsForOne
  <2>. QED  BY <2>1, <1>2 DEF WaitsForOne
<1>19. WaitsForYoungest'
  <2>1. ASSUME NEW q \in Slots, LQ[q] # Empty
        PROVE  Sees(LQ[q], SQ')
    <3>1. Sees(LQ[q], SQ)
      BY <2>1, YoungestIs
    <3>2. ASSUME NEW n, Older(LQ[q], SQ', n) PROVE SQ'[n].id <= LQ[q].producer
      <4>1. n \in 1 .. Len(SQ) - 1 /\ n + 1 \in DOMAIN SQ /\ SQ'[n] = SQ[n + 1]
        BY <3>2, <1>2 DEF Older
      <4>2. Older(LQ[q], SQ, n + 1)
        BY <3>2, <4>1 DEF Older
      <4>. QED  BY <3>1, <4>1, <4>2 DEF Sees
    <3>3. ASSUME LQ[q].producer # NoProducer
          PROVE  \E n : Older(LQ[q], SQ', n) /\ SQ'[n].id = LQ[q].producer
      <4>1. PICK o : Older(LQ[q], SQ, o) /\ SQ[o].id = LQ[q].producer
        BY <3>1, <3>3 DEF Sees
      <4>2. PICK m \in DOMAIN SQ : ~SQ[m].issued /\ WaitsFor(q, m)
        BY <2>1, <3>3 DEF DependentsHeld, Loads
      <4>3. m # 1
        BY <4>2, <1>5
      <4>4. m - 1 \in DOMAIN SQ' /\ SQ'[m - 1] = SQ[m]
        BY <4>2, <4>3, <1>2, <1>3
      <4>5. SQ[m].id = LQ[q].producer /\ SQ[m].addr = LQ[q].addr /\ SQ[m].id < LQ[q].id
        BY <4>1, <4>2 DEF WaitsFor, Older
      <4>6. Older(LQ[q], SQ', m - 1) /\ SQ'[m - 1].id = LQ[q].producer
        BY <4>4, <4>5 DEF Older
      <4>. QED  BY <4>6
    <3>. QED  BY <3>2, <3>3 DEF Sees
  <2>. QED  BY <2>1, <1>1, <1>2, YoungestIsNext
<1>. QED  BY <1>7, <1>10, <1>11, <1>13, <1>14, <1>15, <1>16, <1>17, <1>18, <1>19, PartsNext

-----------------------------------------------------------------------------
(* do_memory_scheduling                                                    *)

(* The instruction that is being placed. *)
LEMMA Placing ==
  ASSUME LSQAssumption, LSQInv, pc = "dispatch"
  PROVE  /\ rob # <<>> /\ Len(rob) \in 1 .. Len(rob) /\ Youngest = rob[Len(rob)] /\ Youngest \in RobType
         /\ Youngest.id \in Nat /\ Youngest.id \in Ids /\ Youngest.id \in InROB
         /\ Youngest.id = next_id - 1 /\ next_id \in Nat /\ Youngest.id < next_id
         /\ Len(Youngest.loads) \in Nat /\ Len(Youngest.stores) \in Nat
         /\ NumMemOps(Youngest) = Len(Youngest.loads) + Len(Youngest.stores)
         /\ placed \in Nat /\ placed <= Len(Youngest.loads)
         /\ Len(SQ) + Len(Youngest.stores) <= SQ_SIZE
         /\ \A n \in 1 .. Len(SQ) : SQ[n].id \in Nat /\ SQ[n].id < Youngest.id
         /\ \A q \in Slots : LQ[q] # Empty => LQ[q].id \in Nat /\ LQ[q].id <= Youngest.id
         /\ \A i \in 1 .. Len(rob) : i # Len(rob) => rob[i].id # Youngest.id
         /\ Left = NumMemOps(Youngest) - placed
<1>. USE Parts
<1>1. /\ rob # <<>> /\ Youngest.id = next_id - 1
      /\ placed <= Len(Youngest.loads)
      /\ Len(SQ) + Len(Youngest.stores) <= SQ_SIZE
      /\ \A n \in DOMAIN SQ : SQ[n].id < Youngest.id
  BY DEF ProgramOrder
<1>2. Len(rob) \in 1 .. Len(rob) /\ Youngest = rob[Len(rob)] /\ Youngest \in RobType
  BY <1>1, SameQueues, SameInstructions DEF Youngest
<1>3. /\ Youngest.id \in Nat /\ Youngest.id \in Ids
      /\ Len(Youngest.loads) \in Nat /\ Len(Youngest.stores) \in Nat
      /\ NumMemOps(Youngest) = Len(Youngest.loads) + Len(Youngest.stores)
  BY <1>2, RobFields
<1>4. Youngest.id \in InROB
  BY <1>2 DEF InROB
<1>5. next_id \in Nat /\ placed \in Nat
  BY DEF LSQTypeOK, LSQAssumption
<1>6. Youngest.id < next_id
  BY <1>1, <1>3, <1>5
<1>7. \A n \in 1 .. Len(SQ) : SQ[n].id \in Nat /\ SQ[n].id < Youngest.id
  BY <1>1, StoreFields
<1>8. ASSUME NEW q \in Slots, LQ[q] # Empty
      PROVE  LQ[q].id \in Nat /\ LQ[q].id <= Youngest.id
  <2>1. LQ[q].id \in Nat /\ LQ[q].id < next_id
    BY <1>8, LoadFields DEF ProgramOrder, Loads
  <2>. QED  BY <2>1, <1>1, <1>5
<1>9. ASSUME NEW i \in 1 .. Len(rob), i # Len(rob)
      PROVE  rob[i].id # Youngest.id
  <2>1. i < Len(rob)
    <3>1. Len(rob) \in Nat
      OBVIOUS
    <3>. QED  BY ONLY <1>9, <3>1
  <2>2. rob[i].id < rob[Len(rob)].id /\ rob[i].id \in Nat
    BY <2>1, <1>2, RobFields DEF ProgramOrder
  <2>. QED  BY <2>2, <1>2, <1>3
<1>10. Left = NumMemOps(Youngest) - placed
  BY DEF Left
<1>. QED  BY <1>1, <1>2, <1>3, <1>4, <1>5, <1>6, <1>7, <1>8, <1>9, <1>10

LEMMA PlaceStoresKeeps ==
  ASSUME LSQAssumption, LSQInv, PlaceStores
  PROVE  LSQInv'
<1>. USE Parts
<1>. DEFINE y == Youngest
            K == Len(y.stores)
            new == [k \in DOMAIN y.stores |-> StoreEntry(y.stores[k])]
<1>1. /\ pc = "dispatch" /\ placed = Len(y.loads) /\ SQ' = SQ \o new
      /\ pc' = "stages" /\ placed' = 0
      /\ next_id' = next_id /\ rob' = rob /\ LQ' = LQ /\ l1d' = l1d
  BY DEF PlaceStores
<1>2. /\ Len(rob) \in 1 .. Len(rob) /\ y = rob[Len(rob)] /\ y \in RobType
      /\ y.id \in Nat /\ y.id \in Ids /\ y.id \in InROB
      /\ next_id \in Nat /\ y.id < next_id
      /\ Len(y.loads) \in Nat /\ K \in Nat
      /\ NumMemOps(y) = Len(y.loads) + K
      /\ Len(SQ) + K <= SQ_SIZE
      /\ \A n \in 1 .. Len(SQ) : SQ[n].id \in Nat /\ SQ[n].id < y.id
      /\ \A q \in Slots : LQ[q] # Empty => LQ[q].id \in Nat /\ LQ[q].id <= y.id
      /\ \A i \in 1 .. Len(rob) : i # Len(rob) => rob[i].id # y.id
      /\ Left = NumMemOps(y) - placed
  BY <1>1, Placing
<1>3. /\ new \in Seq(StoreType) /\ Len(new) = K
      /\ \A k \in 1 .. K : /\ new[k].id = y.id /\ ~new[k].issued /\ new[k].dependents = {}
  <2>1. /\ DOMAIN y.stores = 1 .. K
        /\ \A k \in 1 .. K : y.stores[k] \in Addr
    <3>1. y.stores \in Seq(Addr)
      BY <1>2, RobFields
    <3>. QED  BY <3>1, SeqParts
  <2>2. ASSUME NEW k \in 1 .. K
        PROVE  /\ StoreEntry(y.stores[k]) \in StoreType
               /\ StoreEntry(y.stores[k]).id = y.id /\ ~StoreEntry(y.stores[k]).issued
               /\ StoreEntry(y.stores[k]).dependents = {}
    BY <2>1, <1>2 DEF StoreEntry, StoreType
  <2>3. new \in [1 .. K -> StoreType]
    BY <2>1, <2>2
  <2>4. \A k \in 1 .. K : new[k] = StoreEntry(y.stores[k])
    BY <2>1
  <2>. HIDE DEF new
  <2>5. new \in Seq(StoreType) /\ Len(new) = K
    BY <2>3, <1>2, FunctionIsSeq
  <2>. QED  BY <2>2, <2>4, <2>5
<1>. HIDE DEF new, K, y
<1>4. Len(SQ) \in Nat /\ K \in Nat /\ y.id \in Nat
  BY <1>2
<1>5. \A n \in 1 .. Len(SQ) : SQ[n].id \in Nat /\ SQ[n].id < y.id
  BY <1>2
<1>6. /\ SQ' \in Seq(StoreType) /\ Len(SQ') = Len(SQ) + K /\ DOMAIN SQ' = 1 .. Len(SQ) + K
      /\ \A n \in 1 .. Len(SQ) : SQ'[n] = SQ[n]
      /\ \A n \in Len(SQ) + 1 .. Len(SQ) + K :
           SQ'[n].id = y.id /\ ~SQ'[n].issued /\ SQ'[n].dependents = {}
  <2>1. /\ SQ' \in Seq(StoreType) /\ Len(SQ') = Len(SQ) + Len(new)
        /\ \A n \in 1 .. Len(SQ) + Len(new) :
             SQ'[n] = IF n <= Len(SQ) THEN SQ[n] ELSE new[n - Len(SQ)]
    <3>1. SQ \in Seq(StoreType) /\ new \in Seq(StoreType) /\ SQ' = SQ \o new
      BY <1>1, <1>3
    <3>. QED  BY ONLY <3>1, ConcatProperties
  <2>2. DOMAIN SQ' = 1 .. Len(SQ) + K
    BY <2>1, <1>3, LenProperties
  <2>3. \A n \in 1 .. Len(SQ) : n <= Len(SQ) /\ n \in 1 .. Len(SQ) + K
    BY ONLY <1>4
  <2>4. \A n \in Len(SQ) + 1 .. Len(SQ) + K :
          ~(n <= Len(SQ)) /\ n - Len(SQ) \in 1 .. K /\ n \in 1 .. Len(SQ) + K
    BY ONLY <1>4
  <2>5. \A n \in Len(SQ) + 1 .. Len(SQ) + K : SQ'[n] = new[n - Len(SQ)]
    BY <2>1, <2>4, <1>3
  <2>. QED  BY <2>1, <2>2, <2>3, <2>4, <2>5, <1>3
<1>7. \A n \in 1 .. Len(SQ) + K : n \in 1 .. Len(SQ) \/ n \in Len(SQ) + 1 .. Len(SQ) + K
  BY ONLY <1>4
<1>8. \A n \in 1 .. Len(SQ) : n \in 1 .. Len(SQ) + K
  BY ONLY <1>4
<1>9. LSQTypeOK'
  BY <1>1, <1>2, <1>6 DEF LSQTypeOK
<1>10. LoadAwaited' /\ SentAlone' /\ CompletedDone'
  BY <1>1 DEF LoadAwaited, SentAlone, CompletedDone, Loads
<1>11. RetiredFinished'
  <2>1. ASSUME NEW n \in DOMAIN SQ' PROVE SQ'[n].issued \/ SQ'[n].id \in InROB
    BY <1>2, <1>6, <1>7 DEF RetiredFinished
  <2>. QED  BY <2>1, <1>1 DEF RetiredFinished, InROB, Loads
<1>12. ProgramOrder'
  <2>1. \A n \in DOMAIN SQ' : SQ'[n].id < next_id'
    BY <1>1, <1>2, <1>6, <1>7 DEF ProgramOrder
  <2>. QED  BY <2>1, <1>1 DEF ProgramOrder, Loads
<1>13. \A d : d # y.id => /\ StoresOf(SQ', d) = StoresOf(SQ, d)
                          /\ WaitingOf(SQ', d) = WaitingOf(SQ, d)
  BY <1>6, <1>7, <1>8 DEF StoresOf, WaitingOf
<1>14. /\ Cardinality(StoresOf(SQ', y.id)) = K /\ Cardinality(WaitingOf(SQ', y.id)) = K
       /\ Cardinality(WaitingOf(SQ, y.id)) = 0
  <2>1. WaitingOf(SQ, y.id) = {} /\ StoresOf(SQ, y.id) = {}
    <3>1. \A n \in DOMAIN SQ : SQ[n].id # y.id
      BY <1>4, <1>5
    <3>. QED  BY <3>1 DEF WaitingOf, StoresOf
  <2>2. \A n \in 1 .. Len(SQ) : SQ'[n].id # y.id
    BY <1>6, <1>4, <1>5
  <2>3. \A n \in Len(SQ) + 1 .. Len(SQ) + K : n \in DOMAIN SQ'
    <3>1. DOMAIN SQ' = 1 .. Len(SQ) + K
      BY <1>6
    <3>. QED  BY ONLY <3>1, <1>4
  <2>4. StoresOf(SQ', y.id) = Len(SQ) + 1 .. Len(SQ) + K
    BY <2>2, <2>3, <1>6, <1>7 DEF StoresOf
  <2>5. WaitingOf(SQ', y.id) = Len(SQ) + 1 .. Len(SQ) + K
    BY <2>2, <2>3, <1>6, <1>7 DEF WaitingOf
  <2>6. Cardinality(Len(SQ) + 1 .. Len(SQ) + K) = K
    <3>1. Len(SQ) + 1 \in Int /\ Len(SQ) + K \in Int
      BY ONLY <1>4
    <3>2. Cardinality(Len(SQ) + 1 .. Len(SQ) + K) =
            IF Len(SQ) + 1 > Len(SQ) + K THEN 0 ELSE (Len(SQ) + K) - (Len(SQ) + 1) + 1
      BY <3>1, FS_Interval
    <3>. QED  BY ONLY <3>2, <1>4
  <2>. QED  BY <2>1, <2>4, <2>5, <2>6, FS_EmptySet
<1>15. StoresHeld'
  <2>1. /\ InOrder(SQ)
        /\ \A i \in 1 .. Len(rob) :
             Cardinality(StoresOf(SQ, rob[i].id)) = IF i = Len(rob) THEN 0 ELSE Len(rob[i].stores)
    BY <1>1, StoresHeldIs
  <2>2. ASSUME NEW m \in 1 .. Len(SQ) + K, NEW n \in 1 .. Len(SQ) + K, m < n
        PROVE  SQ'[m].id <= SQ'[n].id /\ (SQ'[n].issued => SQ'[m].issued)
    <3>1. CASE n \in 1 .. Len(SQ)
      <4>1. m \in 1 .. Len(SQ)
        BY <2>2, <3>1
      <4>. QED  BY <2>1, <2>2, <3>1, <4>1, <1>6 DEF InOrder
    <3>2. CASE n \in Len(SQ) + 1 .. Len(SQ) + K
      <4>1. SQ'[m].id <= y.id
        <5>1. CASE m \in 1 .. Len(SQ)
          <6>1. SQ'[m].id = SQ[m].id /\ SQ[m].id \in Nat /\ SQ[m].id < y.id
            BY <5>1, <1>6, <1>5
          <6>. QED  BY ONLY <6>1, <1>4
        <5>2. CASE m \in Len(SQ) + 1 .. Len(SQ) + K
          <6>1. SQ'[m].id = y.id
            BY <5>2, <1>6
          <6>. QED  BY ONLY <6>1, <1>4
        <5>. QED  BY <5>1, <5>2, <1>7
      <4>. QED  BY <3>2, <4>1, <1>6
    <3>. QED  BY <3>1, <3>2, <1>7
  <2>3. InOrder(SQ')
    BY <2>2, <1>6 DEF InOrder
  <2>4. ASSUME NEW i \in 1 .. Len(rob)
        PROVE  Cardinality(StoresOf(SQ', rob[i].id)) = Len(rob[i].stores)
    <3>1. CASE i = Len(rob)
      BY <3>1, <1>2, <1>14 DEF K
    <3>2. CASE i # Len(rob)
      BY <3>2, <2>1, <1>2, <1>13
    <3>. QED  BY <3>1, <3>2
  <2>. QED  BY <2>3, <2>4, <1>1, <1>6, StoresHeldIsNext
<1>16. OpsCounted'
  <2>1. Counted(rob, LQ, SQ, Left) /\ Left = K
    <3>1. Left = K
      <4>1. Left = NumMemOps(y) - placed /\ NumMemOps(y) = Len(y.loads) + K
        BY <1>2
      <4>2. placed = Len(y.loads) /\ Len(y.loads) \in Nat
        BY <1>1, <1>2
      <4>. QED  BY ONLY <4>1, <4>2, <1>4
    <3>. QED  BY <3>1, CountedIs DEF ProgramOrder
  <2>2. Left' = 0
    BY <1>1 DEF Left
  <2>3. ASSUME NEW i \in 1 .. Len(rob)
        PROVE  rob[i].ops + (Cardinality(LoadsOf(LQ, rob[i].id)) + Cardinality(WaitingOf(SQ', rob[i].id)))
                 + (IF i = Len(rob) THEN 0 ELSE 0) = NumMemOps(rob[i])
    <3>1. rob[i].ops + (Cardinality(LoadsOf(LQ, rob[i].id)) + Cardinality(WaitingOf(SQ, rob[i].id)))
            + (IF i = Len(rob) THEN K ELSE 0) = NumMemOps(rob[i])
      BY <2>1 DEF Counted
    <3>2. CASE i # Len(rob)
      BY <3>1, <3>2, <1>2, <1>13
    <3>3. CASE i = Len(rob)
      <4>1. /\ Cardinality(WaitingOf(SQ, rob[i].id)) = 0 /\ Cardinality(WaitingOf(SQ', rob[i].id)) = K
        BY <3>3, <1>2, <1>14
      <4>2. rob[i].ops \in Nat /\ Cardinality(LoadsOf(LQ, rob[i].id)) \in Nat /\ K \in Nat
        BY <1>2, RobFields, CountsAre
      <4>3. \A a, b, c \in Nat : a + (b + 0) + c = a + (b + c) + 0
        OBVIOUS
      <4>. QED  BY <3>1, <3>3, <4>1, <4>2, <4>3
    <3>. QED  BY <3>2, <3>3
  <2>4. Counted(rob', LQ', SQ', Left')
    BY <2>2, <2>3, <1>1 DEF Counted
  <2>. QED  BY <2>4, <1>1, <1>12, CountedIsNext DEF ProgramOrder
<1>17. DependentsHeld'
  <2>1. ASSUME NEW q, NEW n \in 1 .. Len(SQ), WaitsFor(q, n) PROVE WaitsFor(q, n)'
    BY <2>1, <1>1, <1>6 DEF WaitsFor
  <2>2. ASSUME NEW n \in DOMAIN SQ', ~SQ'[n].issued, NEW q \in SQ'[n].dependents
        PROVE  WaitsFor(q, n)'
    <3>1. n \in 1 .. Len(SQ)
      BY <2>2, <1>6, <1>7
    <3>2. WaitsFor(q, n)
      BY <2>2, <3>1, <1>6 DEF DependentsHeld
    <3>. QED  BY <2>1, <3>1, <3>2
  <2>3. ASSUME NEW q \in Slots, LQ[q] # Empty, LQ[q].producer # NoProducer
        PROVE  \E n \in DOMAIN SQ' : ~SQ'[n].issued /\ q \in SQ'[n].dependents /\ WaitsFor(q, n)'
    <3>1. PICK n \in DOMAIN SQ : ~SQ[n].issued /\ q \in SQ[n].dependents /\ WaitsFor(q, n)
      BY <2>3 DEF DependentsHeld, Loads
    <3>2. n \in DOMAIN SQ' /\ SQ'[n] = SQ[n] /\ WaitsFor(q, n)'
      BY <2>1, <3>1, <1>6, <1>8
    <3>. QED  BY <3>1, <3>2
  <2>. QED  BY <2>2, <2>3, <1>1 DEF DependentsHeld, Loads
<1>18. WaitsForOne'
  <2>1. ASSUME NEW m \in DOMAIN SQ', NEW n \in DOMAIN SQ', m # n, ~SQ'[m].issued, ~SQ'[n].issued
        PROVE  SQ'[m].dependents \cap SQ'[n].dependents = {}
    <3>1. CASE m \in 1 .. Len(SQ) /\ n \in 1 .. Len(SQ)
      BY <2>1, <3>1, <1>6 DEF WaitsForOne
    <3>2. CASE ~(m \in 1 .. Len(SQ) /\ n \in 1 .. Len(SQ))
      BY <2>1, <3>2, <1>6, <1>7
    <3>. QED  BY <3>1, <3>2
  <2>. QED  BY <2>1 DEF WaitsForOne
<1>19. WaitsForYoungest'
  <2>1. ASSUME NEW q \in Slots, LQ[q] # Empty
        PROVE  Sees(LQ[q], SQ')
    <3>1. Sees(LQ[q], SQ)
      BY <2>1, YoungestIs
    <3>2. ASSUME NEW n, Older(LQ[q], SQ', n)
          PROVE  n \in 1 .. Len(SQ) /\ Older(LQ[q], SQ, n) /\ SQ'[n] = SQ[n]
      <4>1. n \in 1 .. Len(SQ) + K /\ SQ'[n].id < LQ[q].id /\ SQ'[n].addr = LQ[q].addr
        BY <3>2, <1>6 DEF Older
      <4>2. n \notin Len(SQ) + 1 .. Len(SQ) + K
        <5>1. LQ[q].id \in Nat /\ LQ[q].id <= y.id
          BY <2>1, <1>2
        <5>2. SQ'[n].id # y.id
          BY ONLY <5>1, <4>1, <1>4
        <5>. QED  BY <5>2, <1>6
      <4>. QED  BY <4>1, <4>2, <1>6, <1>7 DEF Older
    <3>3. \A n : Older(LQ[q], SQ', n) => SQ'[n].id <= LQ[q].producer
      BY <3>1, <3>2 DEF Sees
    <3>4. ASSUME LQ[q].producer # NoProducer
          PROVE  \E n : Older(LQ[q], SQ', n) /\ SQ'[n].id = LQ[q].producer
      <4>1. PICK n : Older(LQ[q], SQ, n) /\ SQ[n].id = LQ[q].producer
        BY <3>1, <3>4 DEF Sees
      <4>2. Older(LQ[q], SQ', n) /\ SQ'[n].id = LQ[q].producer
        BY <4>1, <1>6, <1>8 DEF Older
      <4>. QED  BY <4>2
    <3>. QED  BY <3>3, <3>4 DEF Sees
  <2>. QED  BY <2>1, <1>1, <1>6, YoungestIsNext
<1>. QED  BY <1>9, <1>10, <1>11, <1>12, <1>15, <1>16, <1>17, <1>18, <1>19, PartsNext

(* The next load is placed: the order of the program stays. *)
LEMMA PlacedInOrder ==
  ASSUME LSQAssumption, LSQInv, pc = "dispatch", placed < Len(Youngest.loads),
         pc' = pc, placed' = placed + 1, next_id' = next_id,
         SameProgram(rob, rob'), Len(SQ') = Len(SQ), DOMAIN SQ' = DOMAIN SQ,
         \A n \in DOMAIN SQ : SQ'[n].id = SQ[n].id,
         \A q \in Slots : LQ'[q] # Empty =>
           LQ'[q].id = Youngest.id \/ (LQ[q] # Empty /\ LQ'[q].id = LQ[q].id)
  PROVE  /\ ProgramOrder'
         /\ Left' = Left - 1 /\ Left \in Nat \ {0}
<1>. USE Parts
<1>1. /\ rob # <<>> /\ Youngest.id = next_id - 1 /\ Youngest.id < next_id
      /\ Len(Youngest.loads) \in Nat /\ Len(Youngest.stores) \in Nat /\ placed \in Nat
      /\ NumMemOps(Youngest) = Len(Youngest.loads) + Len(Youngest.stores)
      /\ Len(SQ) + Len(Youngest.stores) <= SQ_SIZE
      /\ \A n \in 1 .. Len(SQ) : SQ[n].id < Youngest.id
      /\ Left = NumMemOps(Youngest) - placed
  BY Placing
<1>2. /\ DOMAIN rob' = DOMAIN rob /\ rob' # <<>>
      /\ \A i \in DOMAIN rob : rob'[i].id = rob[i].id
      /\ Youngest'.id = Youngest.id /\ Youngest'.loads = Youngest.loads
      /\ Youngest'.stores = Youngest.stores
      /\ NumMemOps(Youngest)' = NumMemOps(Youngest)
  BY <1>1, SameInstructions
<1>3. placed' <= Len(Youngest.loads)
  <2>1. \A p, l \in Nat : p < l => p + 1 <= l
    OBVIOUS
  <2>. QED  BY <1>1, <2>1
<1>4. /\ \A i, j \in DOMAIN rob' : i < j => rob'[i].id < rob'[j].id
      /\ \A i \in DOMAIN rob' : rob'[i].id < next_id'
  BY <1>2 DEF ProgramOrder
<1>5. \A q \in Loads' : LQ'[q].id < next_id'
  BY <1>1 DEF ProgramOrder, Loads
<1>6. \A n \in DOMAIN SQ' : SQ'[n].id < next_id' /\ SQ'[n].id < Youngest'.id
  BY <1>1, <1>2 DEF ProgramOrder
<1>7. ProgramOrder'
  <2>1. Youngest'.id = next_id' - 1 /\ placed' <= Len(Youngest'.loads)
        /\ Len(SQ') + Len(Youngest'.stores) <= SQ_SIZE
    BY <1>1, <1>2, <1>3
  <2>. QED  BY <2>1, <1>2, <1>4, <1>5, <1>6 DEF ProgramOrder
<1>8. Left' = NumMemOps(Youngest) - placed'
  <2>1. Left' = NumMemOps(Youngest)' - placed'
    BY DEF Left, NumMemOps
  <2>. QED  BY <2>1, <1>2
<1>9. \A a, b, p \in Nat : p < a =>
        (a + b) - (p + 1) = ((a + b) - p) - 1 /\ (a + b) - p \in Nat \ {0}
  OBVIOUS
<1>10. /\ Left' = (Len(Youngest.loads) + Len(Youngest.stores)) - (placed + 1)
       /\ Left = (Len(Youngest.loads) + Len(Youngest.stores)) - placed
  BY <1>1, <1>8
<1>11. /\ Len(Youngest.loads) \in Nat /\ Len(Youngest.stores) \in Nat
       /\ placed \in Nat /\ placed < Len(Youngest.loads)
  BY <1>1
<1>12. Left' = Left - 1 /\ Left \in Nat \ {0}
  <2>1. PICK a \in Nat, b \in Nat, p \in Nat :
          a = Len(Youngest.loads) /\ b = Len(Youngest.stores) /\ p = placed
    BY <1>11
  <2>2. Left' = (a + b) - (p + 1) /\ Left = (a + b) - p /\ p < a
    BY <2>1, <1>10, <1>11
  <2>. QED  BY ONLY <2>2, <1>9
<1>. QED  BY <1>7, <1>12

(* The store it is forwarded from was issued, and the load is finished. *)
LEMMA PlaceForwarded ==
  ASSUME LSQAssumption, LSQInv, pc = "dispatch", placed < Len(Youngest.loads),
         pc' = pc, placed' = placed + 1,
         rob' = Finished([d \in Ids |-> IF d = Youngest.id THEN 1 ELSE 0]),
         UNCHANGED <<next_id, LQ, SQ, l1d>>
  PROVE  LSQInv'
<1>. USE Parts
<1>. DEFINE f == [d \in Ids |-> IF d = Youngest.id THEN 1 ELSE 0]
<1>1. /\ Len(rob) \in 1 .. Len(rob) /\ Youngest = rob[Len(rob)] /\ placed \in Nat
      /\ \A i \in 1 .. Len(rob) : i # Len(rob) => rob[i].id # Youngest.id
  BY Placing
<1>2. f \in [Ids -> Nat] /\ \A d \in Ids : f[d] = IF d = Youngest.id THEN 1 ELSE 0
  OBVIOUS
<1>. HIDE DEF f
<1>3. /\ SameProgram(rob, rob')
      /\ \A i \in 1 .. Len(rob) :
           rob'[i].ops = rob[i].ops + f[rob[i].id] /\ rob'[i].completed = rob[i].completed
  <2>1. rob' = Finished(f)
    BY DEF f
  <2>. QED  BY ZenonT(40), <1>2, <2>1, FinishedIs
<1>4. SameLoads(LQ, LQ') /\ SameStores(SQ, SQ')
  BY SameQueues
<1>5. ProgramOrder' /\ Left' = Left - 1 /\ Left \in Nat \ {0}
  <2>1. /\ Len(SQ') = Len(SQ) /\ DOMAIN SQ' = DOMAIN SQ /\ next_id' = next_id
        /\ \A n \in DOMAIN SQ : SQ'[n].id = SQ[n].id
        /\ \A q \in Slots : LQ'[q] # Empty => LQ[q] # Empty /\ LQ'[q].id = LQ[q].id
    OBVIOUS
  <2>. QED  BY <2>1, <1>3, PlacedInOrder
<1>6. LSQTypeOK'
  <2>1. placed + 1 \in Nat
    <3>1. placed \in Nat
      BY <1>1
    <3>. QED  BY ONLY <3>1
  <2>2. rob' \in Seq(RobType) /\ Len(rob') = Len(rob)
    BY <1>3 DEF SameProgram
  <2>. QED  BY <2>1, <2>2 DEF LSQTypeOK
<1>7. DependentsHeld' /\ WaitsForYoungest' /\ WaitsForOne'
  BY <1>4, WaitingKept
<1>8. RetiredFinished'
  BY <1>3, KnownKept
<1>9. StoresHeld'
  <2>1. InOrder(SQ')
    BY StoresHeldIs
  <2>2. SQ' \in Seq(StoreType)
    OBVIOUS
  <2>. QED  BY <2>1, <2>2, <1>3, StoresKept
<1>10. LoadAwaited' /\ SentAlone'
  BY DEF LoadAwaited, SentAlone, Loads
<1>11. OpsCounted'
  <2>1. Counted(rob, LQ, SQ, Left)
    BY CountedIs DEF ProgramOrder
  <2>2. /\ Len(rob') = Len(rob) /\ rob' \in Seq(RobType)
        /\ \A i \in 1 .. Len(rob) : rob'[i].id = rob[i].id /\ NumMemOps(rob'[i]) = NumMemOps(rob[i])
    BY <1>3, SameInstructions
  <2>3. ASSUME NEW i \in 1 .. Len(rob)
        PROVE  rob'[i].ops + (Cardinality(LoadsOf(LQ, rob[i].id)) + Cardinality(WaitingOf(SQ, rob[i].id)))
                 + (IF i = Len(rob) THEN Left' ELSE 0) = NumMemOps(rob[i])
    <3>1. rob[i].ops + (Cardinality(LoadsOf(LQ, rob[i].id)) + Cardinality(WaitingOf(SQ, rob[i].id)))
            + (IF i = Len(rob) THEN Left ELSE 0) = NumMemOps(rob[i])
      BY <2>1 DEF Counted
    <3>2. /\ rob[i].ops \in Nat /\ rob[i].id \in Ids
          /\ Cardinality(LoadsOf(LQ, rob[i].id)) \in Nat /\ Cardinality(WaitingOf(SQ, rob[i].id)) \in Nat
      BY RobFields, CountsAre
    <3>3. rob'[i].ops = rob[i].ops + f[rob[i].id]
      BY <1>3
    <3>4. CASE i = Len(rob)
      <4>1. f[rob[i].id] = 1
        BY <3>2, <3>4, <1>1, <1>2
      <4>2. \A a, b, c \in Nat, l \in Nat \ {0} : (a + 1) + (b + c) + (l - 1) = a + (b + c) + l
        OBVIOUS
      <4>3. Left' = Left - 1 /\ Left \in Nat \ {0}
        BY <1>5
      <4>4. (rob[i].ops + 1) + (Cardinality(LoadsOf(LQ, rob[i].id)) + Cardinality(WaitingOf(SQ, rob[i].id))) + (Left - 1)
            = rob[i].ops + (Cardinality(LoadsOf(LQ, rob[i].id)) + Cardinality(WaitingOf(SQ, rob[i].id))) + Left
        BY ONLY <3>2, <4>2, <4>3
      <4>. QED  BY <3>1, <3>3, <3>4, <4>1, <4>3, <4>4
    <3>5. CASE i # Len(rob)
      <4>1. f[rob[i].id] = 0
        BY <3>2, <3>5, <1>1, <1>2
      <4>2. rob'[i].ops = rob[i].ops
        BY <3>2, <3>3, <4>1
      <4>. QED  BY <3>1, <3>5, <4>2
    <3>. QED  BY <3>4, <3>5
  <2>4. Counted(rob', LQ', SQ', Left')
    BY <2>2, <2>3 DEF Counted
  <2>. QED  BY <2>2, <2>4, <1>5, CountedIsNext DEF ProgramOrder
<1>12. CompletedDone'
  <2>1. \A i \in 1 .. Len(rob) : rob[i].ops \in Nat /\ f[rob[i].id] \in Nat
    BY RobFields, <1>2
  <2>2. \A i \in 1 .. Len(rob) :
          rob'[i].ops = rob[i].ops + f[rob[i].id] /\ rob'[i].completed = rob[i].completed
    BY <1>3
  <2>3. \A i \in 1 .. Len(rob) :
          rob'[i].completed = rob[i].completed /\ rob[i].ops <= rob'[i].ops
    BY ONLY <2>1, <2>2
  <2>. QED  BY <1>3, <1>5, <1>6, <1>11, <2>3, CompletedKept
<1>. QED  BY <1>5, <1>6, <1>7, <1>8, <1>9, <1>10, <1>11, <1>12, PartsNext

(* It was not, or there is none, and the load goes to a free slot. *)
LEMMA PlaceQueued ==
  ASSUME LSQAssumption, LSQInv, pc = "dispatch", placed < Len(Youngest.loads),
         pc' = pc, placed' = placed + 1,
         NEW a \in Addr, NEW q \in FreeSlots, NEW n, n = ForwardedFrom(a), n # 0 => ~SQ[n].issued,
         NEW e, e = LoadEntry(a, IF n = 0 THEN NoProducer ELSE SQ[n].id),
         LQ' = [LQ EXCEPT ![q] = e],
         SQ' = IF n = 0 THEN SQ ELSE [SQ EXCEPT ![n].dependents = @ \cup {q}],
         UNCHANGED <<next_id, rob, l1d>>
  PROVE  LSQInv'
<1>. USE Parts
<1>1. /\ Len(rob) \in 1 .. Len(rob) /\ Youngest = rob[Len(rob)] /\ placed \in Nat
      /\ Youngest.id \in Nat /\ Youngest.id \in Ids /\ Youngest.id \in InROB
      /\ \A m \in 1 .. Len(SQ) : SQ[m].id \in Nat /\ SQ[m].id < Youngest.id
      /\ \A i \in 1 .. Len(rob) : i # Len(rob) => rob[i].id # Youngest.id
  BY Placing
<1>2. q \in Slots /\ LQ[q] = Empty
  BY DEF FreeSlots
<1>3. /\ n \in 0 .. Len(SQ)
      /\ n = 0 => \A m \in 1 .. Len(SQ) : SQ[m].addr # a
      /\ n # 0 => SQ[n].addr = a /\ \A m \in 1 .. Len(SQ) : SQ[m].addr = a => SQ[m].id <= SQ[n].id
  BY ForwardedIs
<1>4. n # 0 => /\ n \in 1 .. Len(SQ) /\ SQ[n] \in StoreType
               /\ SQ[n].id \in Ids /\ SQ[n].id # NoProducer
  <2>1. n # 0 => n \in 1 .. Len(SQ)
    <3>1. Len(SQ) \in Nat
      OBVIOUS
    <3>. QED  BY ONLY <3>1, <1>3
  <2>. QED  BY <2>1, StoreFields
<1>5. /\ e \in LoadType /\ e.id = Youngest.id /\ e.addr = a /\ e.issued = FALSE /\ e # Empty
      /\ e.producer = IF n = 0 THEN NoProducer ELSE SQ[n].id
  <2>1. (IF n = 0 THEN NoProducer ELSE SQ[n].id) \in Ids \cup {NoProducer}
    BY <1>4
  <2>2. e \in LoadType /\ e.id = Youngest.id /\ e.addr = a /\ e.issued = FALSE
        /\ e.producer = IF n = 0 THEN NoProducer ELSE SQ[n].id
    BY <2>1, <1>1 DEF LoadEntry, LoadType
  <2>. QED  BY <2>2, NotEmpty
<1>6. /\ LQ' \in [Slots -> LoadType \cup {Empty}] /\ LQ'[q] = e
      /\ \A r \in Slots : r # q => LQ'[r] = LQ[r]
  BY <1>2, <1>5
<1>7. /\ SQ' \in Seq(StoreType) /\ Len(SQ') = Len(SQ) /\ DOMAIN SQ' = 1 .. Len(SQ)
      /\ \A m \in 1 .. Len(SQ) :
           /\ SQ'[m].id = SQ[m].id /\ SQ'[m].addr = SQ[m].addr /\ SQ'[m].issued = SQ[m].issued
           /\ SQ'[m].dependents = IF m = n THEN SQ[m].dependents \cup {q} ELSE SQ[m].dependents
  <2>1. CASE n = 0
    <3>1. SQ' = SQ /\ \A m \in 1 .. Len(SQ) : m # n
      BY <2>1
    <3>. QED  BY <3>1
  <2>2. CASE n # 0
    <3>. DEFINE s == [SQ[n] EXCEPT !.dependents = @ \cup {q}]
    <3>1. /\ s \in StoreType /\ s.id = SQ[n].id /\ s.addr = SQ[n].addr /\ s.issued = SQ[n].issued
          /\ s.dependents = SQ[n].dependents \cup {q}
      BY <2>2, <1>2, <1>4, DependentAdded
    <3>2. SQ' = [SQ EXCEPT ![n] = s]
      BY <2>2
    <3>. HIDE DEF s
    <3>3. n \in DOMAIN SQ
      BY <2>2, <1>4
    <3>4. /\ SQ' \in Seq(StoreType) /\ Len(SQ') = Len(SQ) /\ SQ'[n] = s
          /\ \A m \in 1 .. Len(SQ) : m # n => SQ'[m] = SQ[m]
      <4>1. SQ \in Seq(StoreType) /\ s \in StoreType
        BY <3>1
      <4>. QED  BY ONLY <4>1, <3>2, <3>3, EntrySet
    <3>5. DOMAIN SQ' = 1 .. Len(SQ)
      BY <3>4, SeqParts
    <3>. QED  BY <3>1, <3>4, <3>5
  <2>. QED  BY <2>1, <2>2
<1>8. SameProgram(rob, rob')
  BY SameQueues
<1>9. ProgramOrder' /\ Left' = Left - 1 /\ Left \in Nat \ {0}
  <2>1. /\ Len(SQ') = Len(SQ) /\ DOMAIN SQ' = DOMAIN SQ /\ next_id' = next_id
        /\ \A m \in DOMAIN SQ : SQ'[m].id = SQ[m].id
    BY <1>7
  <2>2. \A r \in Slots : LQ'[r] # Empty =>
          LQ'[r].id = Youngest.id \/ (LQ[r] # Empty /\ LQ'[r].id = LQ[r].id)
    BY <1>5, <1>6
  <2>. QED  BY <2>1, <2>2, <1>8, PlacedInOrder
<1>10. LSQTypeOK'
  <2>1. placed + 1 \in Nat
    <3>1. placed \in Nat
      BY <1>1
    <3>. QED  BY ONLY <3>1
  <2>. QED  BY <2>1, <1>6, <1>7 DEF LSQTypeOK
<1>11. RetiredFinished'
  <2>1. \A r \in Slots : LQ'[r] # Empty => LQ'[r].id \in InROB
    BY <1>1, <1>5, <1>6 DEF RetiredFinished, Loads
  <2>2. \A m \in DOMAIN SQ' : SQ'[m].issued \/ SQ'[m].id \in InROB
    BY <1>7 DEF RetiredFinished
  <2>. QED  BY <2>1, <2>2 DEF RetiredFinished, InROB, Loads
<1>12. LoadAwaited'
  <2>1. \A r \in Slots : LQ'[r] # Empty /\ LQ'[r].issued =>
                            LQ[r] # Empty /\ LQ[r].issued /\ LQ'[r].addr = LQ[r].addr
    BY <1>5, <1>6
  <2>2. \A b \in DataBlock : Awaited(l1d, b) => Awaited(l1d', b)
    OBVIOUS
  <2>. QED  BY <2>1, <2>2, AwaitedKept
<1>13. SentAlone'
  BY <1>5, <1>6 DEF SentAlone, Loads
<1>14. CompletedDone'
  BY DEF CompletedDone
<1>15. StoresHeld'
  <2>1. \A d : StoresOf(SQ', d) = StoresOf(SQ, d)
    BY <1>7 DEF StoresOf
  <2>2. InOrder(SQ)
    BY StoresHeldIs
  <2>3. InOrder(SQ')
    BY <2>2, <1>7 DEF InOrder
  <2>. QED  BY <2>1, <2>3, <1>7, <1>8, StoresKept
<1>16. \A m \in 1 .. Len(SQ) : ~SQ[m].issued => q \notin SQ[m].dependents
  BY <1>2 DEF DependentsHeld, WaitsFor
<1>17. ASSUME NEW r \in Slots, r # q, NEW m \in 1 .. Len(SQ), WaitsFor(r, m)
       PROVE  WaitsFor(r, m)'
  BY <1>6, <1>7, <1>17 DEF WaitsFor
<1>18. n # 0 => WaitsFor(q, n)'
  BY <1>3, <1>4, <1>5, <1>6, <1>7 DEF WaitsFor
<1>19. DependentsHeld'
  <2>1. ASSUME NEW m \in 1 .. Len(SQ), ~SQ'[m].issued, NEW r \in SQ'[m].dependents
        PROVE  WaitsFor(r, m)'
    <3>1. ~SQ[m].issued /\ (r \in SQ[m].dependents \/ (m = n /\ r = q))
      BY <2>1, <1>7
    <3>2. CASE r \in SQ[m].dependents
      <4>1. r # q /\ r \in Slots /\ WaitsFor(r, m)
        BY <3>1, <3>2, <1>16, StoreFields DEF DependentsHeld
      <4>. QED  BY <4>1, <1>17
    <3>3. CASE m = n /\ r = q
      <4>1. n # 0
        BY <3>3
      <4>. QED  BY <3>3, <4>1, <1>18
    <3>. QED  BY <3>1, <3>2, <3>3
  <2>2. ASSUME NEW r \in Slots, LQ'[r] # Empty, LQ'[r].producer # NoProducer
        PROVE  \E m \in DOMAIN SQ' : ~SQ'[m].issued /\ r \in SQ'[m].dependents /\ WaitsFor(r, m)'
    <3>1. CASE r = q
      <4>1. n # 0
        BY <2>2, <3>1, <1>5, <1>6
      <4>2. n \in DOMAIN SQ' /\ ~SQ'[n].issued /\ q \in SQ'[n].dependents
        BY <4>1, <1>4, <1>7
      <4>. QED  BY <3>1, <4>1, <4>2, <1>18
    <3>2. CASE r # q
      <4>1. PICK m \in DOMAIN SQ : ~SQ[m].issued /\ r \in SQ[m].dependents /\ WaitsFor(r, m)
        BY <2>2, <3>2, <1>6 DEF DependentsHeld, Loads
      <4>2. m \in DOMAIN SQ' /\ ~SQ'[m].issued /\ r \in SQ'[m].dependents
        BY <4>1, <1>7
      <4>. QED  BY <3>2, <4>1, <4>2, <1>17
    <3>. QED  BY <3>1, <3>2
  <2>. QED  BY <2>1, <2>2, <1>7 DEF DependentsHeld, Loads
<1>20. WaitsForOne'
  <2>1. ASSUME NEW l \in DOMAIN SQ', NEW m \in DOMAIN SQ', l # m, ~SQ'[l].issued, ~SQ'[m].issued
        PROVE  SQ'[l].dependents \cap SQ'[m].dependents = {}
    <3>1. /\ l \in 1 .. Len(SQ) /\ m \in 1 .. Len(SQ) /\ ~SQ[l].issued /\ ~SQ[m].issued
      BY <2>1, <1>7
    <3>2. SQ[l].dependents \cap SQ[m].dependents = {}
      BY <2>1, <3>1 DEF WaitsForOne
    <3>. QED  BY <2>1, <3>1, <3>2, <1>7, <1>16
  <2>. QED  BY <2>1 DEF WaitsForOne
<1>21. WaitsForYoungest'
  <2>1. ASSUME NEW r \in Slots, LQ'[r] # Empty
        PROVE  Sees(LQ'[r], SQ')
    <3>1. CASE r = q
      <4>1. ASSUME NEW m, Older(e, SQ', m) PROVE SQ'[m].id <= e.producer
        <5>1. m \in 1 .. Len(SQ) /\ SQ[m].addr = a /\ SQ'[m].id = SQ[m].id
          BY <4>1, <1>5, <1>7 DEF Older
        <5>2. n # 0 /\ SQ[m].id <= SQ[n].id
          BY <5>1, <1>3
        <5>. QED  BY <5>1, <5>2, <1>5
      <4>2. ASSUME e.producer # NoProducer
            PROVE  \E m : Older(e, SQ', m) /\ SQ'[m].id = e.producer
        <5>1. n # 0
          BY <4>2, <1>5
        <5>2. /\ n \in DOMAIN SQ' /\ SQ'[n].addr = a /\ SQ'[n].id = SQ[n].id
              /\ SQ[n].id < Youngest.id
          BY <5>1, <1>1, <1>3, <1>4, <1>7
        <5>3. Older(e, SQ', n) /\ SQ'[n].id = e.producer
          BY <5>1, <5>2, <1>5 DEF Older
        <5>. QED  BY <5>3
      <4>3. Sees(e, SQ')
        BY <4>1, <4>2 DEF Sees
      <4>. QED  BY <3>1, <4>3, <1>6
    <3>2. CASE r # q
      <4>1. LQ'[r] = LQ[r] /\ Sees(LQ[r], SQ)
        BY <2>1, <3>2, <1>6, YoungestIs
      <4>2. \A m : Older(LQ[r], SQ', m) <=> Older(LQ[r], SQ, m)
        BY <1>7 DEF Older
      <4>3. \A m : Older(LQ[r], SQ, m) => SQ'[m].id = SQ[m].id
        BY <1>7 DEF Older
      <4>4. ASSUME NEW m, Older(LQ[r], SQ', m) PROVE SQ'[m].id <= LQ[r].producer
        BY <4>1, <4>2, <4>3, <4>4 DEF Sees
      <4>5. ASSUME LQ[r].producer # NoProducer
            PROVE  \E m : Older(LQ[r], SQ', m) /\ SQ'[m].id = LQ[r].producer
        <5>1. PICK m : Older(LQ[r], SQ, m) /\ SQ[m].id = LQ[r].producer
          BY <4>1, <4>5 DEF Sees
        <5>. QED  BY <5>1, <4>2, <4>3
      <4>6. Sees(LQ[r], SQ')
        BY <4>4, <4>5 DEF Sees
      <4>. QED  BY <4>1, <4>6
    <3>. QED  BY <3>1, <3>2
  <2>. QED  BY <2>1, <1>6, <1>7, YoungestIsNext
<1>22. \A d : WaitingOf(SQ', d) = WaitingOf(SQ, d)
  BY <1>7 DEF WaitingOf
<1>23. /\ \A d : d # Youngest.id => LoadsOf(LQ', d) = LoadsOf(LQ, d)
       /\ Cardinality(LoadsOf(LQ', Youngest.id)) = Cardinality(LoadsOf(LQ, Youngest.id)) + 1
  <2>1. LoadsOf(LQ', Youngest.id) = LoadsOf(LQ, Youngest.id) \cup {q}
    BY <1>2, <1>5, <1>6 DEF LoadsOf
  <2>2. q \notin LoadsOf(LQ, Youngest.id)
    BY <1>2 DEF LoadsOf
  <2>3. IsFiniteSet(LoadsOf(LQ, Youngest.id))
    BY CountsAre
  <2>4. Cardinality(LoadsOf(LQ, Youngest.id) \cup {q}) = Cardinality(LoadsOf(LQ, Youngest.id)) + 1
    BY ONLY <2>2, <2>3, FS_AddElement
  <2>5. \A d : d # Youngest.id => LoadsOf(LQ', d) = LoadsOf(LQ, d)
    BY <1>2, <1>5, <1>6 DEF LoadsOf
  <2>. QED  BY <2>1, <2>4, <2>5
<1>24. OpsCounted'
  <2>1. Counted(rob, LQ, SQ, Left)
    BY CountedIs DEF ProgramOrder
  <2>2. ASSUME NEW i \in 1 .. Len(rob)
        PROVE  rob[i].ops + (Cardinality(LoadsOf(LQ', rob[i].id)) + Cardinality(WaitingOf(SQ', rob[i].id)))
                 + (IF i = Len(rob) THEN Left' ELSE 0) = NumMemOps(rob[i])
    <3>1. rob[i].ops + (Cardinality(LoadsOf(LQ, rob[i].id)) + Cardinality(WaitingOf(SQ, rob[i].id)))
            + (IF i = Len(rob) THEN Left ELSE 0) = NumMemOps(rob[i])
      BY <2>1 DEF Counted
    <3>2. CASE i # Len(rob)
      <4>1. rob[i].id # Youngest.id
        BY <3>2, <1>1
      <4>. QED  BY <3>1, <3>2, <4>1, <1>22, <1>23
    <3>3. CASE i = Len(rob)
      <4>1. /\ rob[i].ops \in Nat
            /\ Cardinality(LoadsOf(LQ, rob[i].id)) \in Nat /\ Cardinality(WaitingOf(SQ, rob[i].id)) \in Nat
        BY RobFields, CountsAre
      <4>2. Cardinality(LoadsOf(LQ', rob[i].id)) = Cardinality(LoadsOf(LQ, rob[i].id)) + 1
        BY <3>3, <1>1, <1>23
      <4>3. \A b, c, d \in Nat, l \in Nat \ {0} : b + ((c + 1) + d) + (l - 1) = b + (c + d) + l
        OBVIOUS
      <4>4. Left' = Left - 1 /\ Left \in Nat \ {0}
        BY <1>9
      <4>5. rob[i].ops + ((Cardinality(LoadsOf(LQ, rob[i].id)) + 1) + Cardinality(WaitingOf(SQ, rob[i].id))) + (Left - 1)
            = rob[i].ops + (Cardinality(LoadsOf(LQ, rob[i].id)) + Cardinality(WaitingOf(SQ, rob[i].id))) + Left
        BY ONLY <4>1, <4>3, <4>4
      <4>. QED  BY <3>1, <3>3, <4>2, <4>4, <4>5, <1>22
    <3>. QED  BY <3>2, <3>3
  <2>3. Counted(rob', LQ', SQ', Left')
    BY <2>2 DEF Counted
  <2>. QED  BY <2>3, <1>9, CountedIsNext DEF ProgramOrder
<1>. QED  BY <1>9, <1>10, <1>11, <1>12, <1>13, <1>14, <1>15, <1>19, <1>20, <1>21, <1>24, PartsNext

LEMMA PlaceLoadKeeps ==
  ASSUME LSQAssumption, LSQInv, PlaceLoad
  PROVE  LSQInv'
<1>. DEFINE a == Youngest.loads[placed + 1]
            q == FirstOf(FreeSlots)
            n == ForwardedFrom(a)
            e == LoadEntry(a, IF n = 0 THEN NoProducer ELSE SQ[n].id)
<1>1. /\ pc = "dispatch" /\ placed < Len(Youngest.loads) /\ FreeSlots # {}
      /\ placed' = placed + 1 /\ pc' = pc /\ next_id' = next_id /\ l1d' = l1d
      /\ IF n # 0 /\ SQ[n].issued
           THEN /\ rob' = Finished([d \in Ids |-> IF d = Youngest.id THEN 1 ELSE 0])
                /\ UNCHANGED <<LQ, SQ>>
           ELSE /\ LQ' = [LQ EXCEPT ![q] = e]
                /\ SQ' = IF n = 0 THEN SQ ELSE [SQ EXCEPT ![n].dependents = @ \cup {q}]
                /\ UNCHANGED rob
  BY DEF PlaceLoad
<1>2. a \in Addr
  <2>1. Youngest \in RobType /\ placed \in Nat
    BY <1>1, Placing
  <2>2. Youngest.loads \in Seq(Addr) /\ Len(Youngest.loads) \in Nat
    BY <2>1, RobFields
  <2>3. placed + 1 \in 1 .. Len(Youngest.loads)
    BY <2>1, <2>2, <1>1
  <2>. QED  BY <2>2, <2>3, SeqParts
<1>3. q \in FreeSlots
  <2>1. FreeSlots \subseteq Nat
    BY DEF FreeSlots, Slots
  <2>. QED  BY <2>1, <1>1, FirstFound
<1>. HIDE DEF a, q, n
<1>4. CASE n # 0 /\ SQ[n].issued
  BY <1>1, <1>4, PlaceForwarded
<1>5. CASE ~(n # 0 /\ SQ[n].issued)
  <2>1. /\ LQ' = [LQ EXCEPT ![q] = e]
        /\ SQ' = IF n = 0 THEN SQ ELSE [SQ EXCEPT ![n].dependents = @ \cup {q}]
        /\ rob' = rob
    BY <1>1, <1>5
  <2>2. n = ForwardedFrom(a) /\ (n # 0 => ~SQ[n].issued)
    BY <1>5 DEF n
  <2>. QED  BY <2>1, <2>2, <1>1, <1>2, <1>3, PlaceQueued
<1>. QED  BY <1>4, <1>5

-----------------------------------------------------------------------------
(* The queues are empty at first, and a step that changes nothing keeps all. *)
LEMMA InitKeeps ==
  ASSUME LSQAssumption, LSQInit
  PROVE  LSQInv
<1>1. /\ pc = "stages" /\ placed = 0 /\ next_id = 1 /\ rob = <<>> /\ SQ = <<>>
      /\ LQ = [q \in Slots |-> Empty]
      /\ l1d = [reads |-> [b \in DataBlock |-> 0], writes |-> 0, returned |-> <<>>]
  BY DEF LSQInit
<1>2. /\ rob \in Seq(RobType) /\ Len(rob) = 0 /\ SQ \in Seq(StoreType) /\ Len(SQ) = 0
      /\ <<>> \in Seq(DataBlock)
  BY <1>1, EmptySeq
<1>3. DOMAIN rob = {} /\ DOMAIN SQ = {}
  <2>1. DOMAIN rob = 1 .. Len(rob) /\ DOMAIN SQ = 1 .. Len(SQ)
    BY <1>2, SeqParts
  <2>. QED  BY <2>1, <1>2
<1>4. Loads = {}
  BY <1>1 DEF Loads
<1>5. LQ \in [Slots -> LoadType \cup {Empty}]
  BY <1>1
<1>6. LSQTypeOK
  <2>1. /\ ROB_SIZE \in Nat /\ SQ_SIZE \in Nat /\ LAST_ID \in Nat
    BY DEF LSQAssumption
  <2>2. 1 \in 1 .. LAST_ID + 1 /\ Len(rob) <= ROB_SIZE /\ Len(SQ) <= SQ_SIZE
    BY <2>1, <1>2
  <2>3. l1d \in [reads : [DataBlock -> Nat], writes : Nat, returned : Seq(DataBlock)]
    BY <1>1, <1>2
  <2>. QED  BY <2>2, <2>3, <1>1, <1>2, <1>5 DEF LSQTypeOK
<1>7. OpsCounted /\ RetiredFinished /\ DependentsHeld /\ LoadAwaited /\ StoresHeld
  BY <1>3, <1>4 DEF OpsCounted, RetiredFinished, DependentsHeld, LoadAwaited, StoresHeld
<1>8. WaitsForYoungest /\ ProgramOrder /\ CompletedDone /\ SentAlone /\ WaitsForOne
  BY <1>1, <1>3, <1>4 DEF WaitsForYoungest, ProgramOrder, CompletedDone, SentAlone, WaitsForOne
<1>. QED  BY <1>6, <1>7, <1>8 DEF LSQInv, OpsHeld, OpsAccounted, WaitersHeld

LEMMA StutterKeeps ==
  ASSUME LSQInv, UNCHANGED lsqVars
  PROVE  LSQInv'
<1>. USE DEF lsqVars, LSQInv
<1>1. OpsHeld'
  <2>1. OpsCounted'
    BY DEF OpsHeld, OpsAccounted, OpsCounted, Unfinished, Unplaced, Loads, NumMemOps, Youngest
  <2>2. LSQTypeOK' /\ RetiredFinished'
    BY DEF OpsHeld, OpsAccounted, LSQTypeOK, RetiredFinished, Loads, InROB
  <2>3. DependentsHeld' /\ LoadAwaited' /\ StoresHeld'
    BY DEF OpsHeld, WaitersHeld, DependentsHeld, WaitsFor, LoadAwaited, StoresHeld, Loads
  <2>. QED  BY <2>1, <2>2, <2>3 DEF OpsHeld, OpsAccounted, WaitersHeld
<1>2. WaitsForYoungest'
  BY DEF WaitsForYoungest, Loads
<1>3. ProgramOrder'
  BY DEF ProgramOrder, Loads, Youngest
<1>4. CompletedDone' /\ SentAlone' /\ WaitsForOne'
  BY DEF CompletedDone, SentAlone, WaitsForOne, Loads, NumMemOps
<1>. QED  BY <1>1, <1>2, <1>3, <1>4

(* Every part of the invariant holds in every state: the one above all that  *)
(* the queues were designed for, and what it rests on.                     *)
THEOREM LSQInvHolds ==
  ASSUME LSQAssumption
  PROVE  LSQSpec => []LSQInv
<1>1. LSQInit => LSQInv
  BY InitKeeps
<1>2. LSQInv /\ [LSQNext]_lsqVars => LSQInv'
  <2>. SUFFICES ASSUME LSQInv, [LSQNext]_lsqVars PROVE LSQInv'
    OBVIOUS
  <2>1. ASSUME NEW k \in Kinds, DispatchInstruction(k) PROVE LSQInv'
    BY <2>1, DispatchKeeps
  <2>2. CASE PlaceLoad
    BY <2>2, PlaceLoadKeeps
  <2>3. CASE PlaceStores
    BY <2>3, PlaceStoresKeeps
  <2>4. ASSUME NEW i \in DOMAIN rob, Execute(i) PROVE LSQInv'
    BY <2>4, ExecuteKeeps
  <2>5. ASSUME NEW i \in DOMAIN rob, CompleteInstruction(i) PROVE LSQInv'
    BY <2>5, CompleteKeeps
  <2>6. CASE Retire
    BY <2>6, RetireKeeps
  <2>7. CASE FinishStore
    BY <2>7, FinishStoreKeeps
  <2>8. CASE CompleteStore
    BY <2>8, CompleteStoreKeeps
  <2>9. CASE IssueLoad
    BY <2>9, IssueLoadKeeps
  <2>10. CASE HandleReturn
    BY <2>10, HandleReturnKeeps
  <2>11. ASSUME NEW b \in DataBlock, NEW n \in 1 .. l1d.reads[b], AnswerReads(b, n) PROVE LSQInv'
    BY <2>11, L1dKeeps
  <2>12. CASE TakeWrite
    BY <2>12, L1dKeeps
  <2>13. CASE UNCHANGED lsqVars
    BY <2>13, StutterKeeps
  <2>. QED  BY <2>1, <2>2, <2>3, <2>4, <2>5, <2>6, <2>7, <2>8, <2>9, <2>10, <2>11, <2>12, <2>13
            DEF LSQNext
<1>. QED  BY <1>1, <1>2, PTL DEF LSQSpec

(* No memory operation is counted twice, forgotten or left behind, and no    *)
(* entry of the queues waits for something that is gone.                   *)
THEOREM OpsAreHeld ==
  ASSUME LSQAssumption
  PROVE  LSQSpec => []OpsHeld
<1>1. LSQInv => OpsHeld
  BY DEF LSQInv
<1>. QED  BY <1>1, LSQInvHolds, PTL

(* A load waits for the youngest store before it to its address, and goes to *)
(* the L1D only when there is none.                                        *)
THEOREM LoadsSeeYoungest ==
  ASSUME LSQAssumption
  PROVE  LSQSpec => []WaitsForYoungest
<1>1. LSQInv => WaitsForYoungest
  BY DEF LSQInv
<1>. QED  BY <1>1, LSQInvHolds, PTL
=============================================================================
