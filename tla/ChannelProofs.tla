---------------------------- MODULE ChannelProofs -----------------------------
(***************************************************************************)
(* What holds of a channel for queues of every size, every set of          *)
(* addresses and of instructions: check_collision keeps its queues in      *)
(* order, no write is lost or unseen, and the channel implements the       *)
(* service that MemService describes.                                      *)
(***************************************************************************)
EXTENDS Channel, SequenceTheorems, WellFoundedInduction, TLAPS

-----------------------------------------------------------------------------
(* Sequences.                                                              *)

(* A set of positions that is not empty has a least one. *)
LEMMA LeastPosition ==
  ASSUME NEW S, S \subseteq Nat, S # {}
  PROVE  Min(S) \in S /\ \A y \in S : Min(S) <= y
<1>. DEFINE R == OpToRel(<, Nat)
<1>1. \A x, y \in Nat : x < y => <<x, y>> \in R
  BY DEF OpToRel
<1>2. IsWellFoundedOn(R, Nat)
  BY NatLessThanWellFounded
<1>. HIDE DEF R
<1>3. PICK x \in S : \A y \in S : <<y, x>> \notin R
  BY <1>2, WFMin
<1>4. \A y \in S : ~(y < x)
  BY <1>1, <1>3
<1>5. \A y \in S : x <= y
  BY <1>4
<1>. QED  BY <1>5 DEF Min

LEMMA RemovedAt ==
  ASSUME NEW S, NEW s \in Seq(S), NEW i \in 1 .. Len(s)
  PROVE  /\ RemoveAt(s, i) \in Seq(S)
         /\ Len(RemoveAt(s, i)) = Len(s) - 1
         /\ \A j \in 1 .. Len(s) - 1 :
              RemoveAt(s, i)[j] = IF j < i THEN s[j] ELSE s[j + 1]
<1>. DEFINE a == SubSeq(s, 1, i - 1)
            b == SubSeq(s, i + 1, Len(s))
<1>1. \A j \in 1 .. Len(s) : s[j] \in S
  BY ElementOfSeq
<1>2. Len(s) \in Nat
  BY LenProperties
<1>3. /\ a \in Seq(S)
      /\ Len(a) = i - 1
      /\ \A j \in 1 .. i - 1 : a[j] = s[j]
  <2>1. \A j \in 1 .. i - 1 : s[j] \in S
    BY <1>1, <1>2
  <2>2. /\ a \in Seq(S)
        /\ Len(a) = IF 1 <= i - 1 THEN (i - 1) - 1 + 1 ELSE 0
        /\ \A j \in 1 .. (i - 1) - 1 + 1 : a[j] = s[1 + j - 1]
    BY <2>1, <1>2, SubSeqProperties
  <2>. QED  BY <2>2, <1>2
<1>4. /\ b \in Seq(S)
      /\ Len(b) = Len(s) - i
      /\ \A j \in 1 .. Len(s) - i : b[j] = s[i + j]
  <2>1. \A j \in i + 1 .. Len(s) : s[j] \in S
    BY <1>1, <1>2
  <2>2. /\ b \in Seq(S)
        /\ Len(b) = IF i + 1 <= Len(s) THEN Len(s) - (i + 1) + 1 ELSE 0
        /\ \A j \in 1 .. Len(s) - (i + 1) + 1 : b[j] = s[(i + 1) + j - 1]
    BY <2>1, <1>2, SubSeqProperties
  <2>. QED  BY <2>2, <1>2
<1>5. /\ a \o b \in Seq(S)
      /\ Len(a \o b) = Len(a) + Len(b)
      /\ \A j \in 1 .. Len(a) + Len(b) :
           (a \o b)[j] = IF j <= Len(a) THEN a[j] ELSE b[j - Len(a)]
  BY <1>3, <1>4, ConcatProperties
<1>6. RemoveAt(s, i) = a \o b
  BY DEF RemoveAt
<1>. HIDE DEF a, b
<1>7. i \in 1 .. Len(s) /\ Len(a) + Len(b) = Len(s) - 1
  BY <1>2, <1>3, <1>4
<1>8. ASSUME NEW j \in 1 .. Len(s) - 1
      PROVE  (a \o b)[j] = IF j < i THEN s[j] ELSE s[j + 1]
  <2>1. CASE j < i
    BY <2>1, <1>2, <1>3, <1>5, <1>7
  <2>2. CASE ~(j < i)
    <3>1. j - Len(a) \in 1 .. Len(s) - i /\ i + (j - Len(a)) = j + 1 /\ ~(j <= Len(a))
      BY <2>2, <1>2, <1>3, <1>7
    <3>2. b[j - Len(a)] = s[j + 1]
      BY <3>1, <1>4
    <3>. QED  BY <2>2, <3>1, <3>2, <1>5, <1>7
  <2>. QED  BY <2>1, <2>2
<1>. QED  BY <1>5, <1>6, <1>7, <1>8

-----------------------------------------------------------------------------
(* What the searches of check_collision find.                              *)

LEMMA SizesAreNat == \A q \in QueueNames : QueueSize(q) \in Nat
BY QueueSizeAssumption DEF QueueNames, QueueSize

LEMMA SameIsMutual ==
  ASSUME NEW shamt, NEW x, NEW y
  PROVE  Same(shamt, x, y) <=> Same(shamt, y, x)
BY DEF Same, SameWrite, SameRead

(* The first request that check_collision has still to look at. *)
LEMMA FirstUncheckedFound ==
  ASSUME NEW S, NEW queue \in Seq(S)
  PROVE  /\ FirstUnchecked(queue) \in 0 .. Len(queue)
         /\ FirstUnchecked(queue) = 0 => \A j \in 1 .. Len(queue) : queue[j].checked
         /\ FirstUnchecked(queue) # 0 =>
              /\ ~queue[FirstUnchecked(queue)].checked
              /\ \A j \in 1 .. Len(queue) : ~queue[j].checked => FirstUnchecked(queue) <= j
<1>. DEFINE I == {i \in 1 .. Len(queue) : ~queue[i].checked}
<1>1. FirstUnchecked(queue) = IF I # {} THEN Min(I) ELSE 0
  BY DEF FirstUnchecked, SelectInSeq
<1>2. Len(queue) \in Nat /\ I \subseteq Nat
  BY LenProperties
<1>3. I # {} => Min(I) \in I /\ \A y \in I : Min(I) <= y
  BY <1>2, LeastPosition
<1>. QED  BY <1>1, <1>2, <1>3

(* The first request that is for the same thing, if it is of the same kind. *)
LEMMA CollisionFound ==
  ASSUME NEW S, NEW queue \in Seq(S), NEW packet, NEW shamt
  PROVE  LET c == Collides(queue, packet, shamt)
         IN  /\ c \in 0 .. Len(queue)
             /\ c # 0 => Same(shamt, queue[c], packet) /\ queue[c].tr = packet.tr
             /\ (\A j \in 1 .. Len(queue) : queue[j].tr = packet.tr) =>
                  (c = 0 => \A j \in 1 .. Len(queue) : ~Same(shamt, queue[j], packet))
<1>. DEFINE I == {i \in 1 .. Len(queue) : Same(shamt, queue[i], packet)}
            found == IF I # {} THEN Min(I) ELSE 0
<1>1. Collides(queue, packet, shamt) =
        IF found # 0 /\ queue[found].tr = packet.tr THEN found ELSE 0
  BY DEF Collides, SelectInSeq
<1>2. Len(queue) \in Nat /\ I \subseteq Nat
  BY LenProperties
<1>3. I # {} => Min(I) \in I /\ \A y \in I : Min(I) <= y
  BY <1>2, LeastPosition
<1>4. \A i \in I : i \in 1 .. Len(queue) /\ Same(shamt, queue[i], packet)
  OBVIOUS
<1>5. found # 0 => found \in I
  BY <1>3
<1>6. found = 0 => \A j \in 1 .. Len(queue) : ~Same(shamt, queue[j], packet)
  BY <1>2, <1>3
<1>7. found \in 0 .. Len(queue)
  BY <1>2, <1>5, <1>4
<1>8. found # 0 => Same(shamt, queue[found], packet)
  BY <1>4, <1>5
<1>. HIDE DEF I, found
<1>9. CASE found # 0 /\ queue[found].tr = packet.tr
  BY <1>1, <1>7, <1>8, <1>9
<1>10. CASE ~(found # 0 /\ queue[found].tr = packet.tr)
  <2>1. Collides(queue, packet, shamt) = 0 /\ 0 \in 0 .. Len(queue)
    BY <1>1, <1>2, <1>10
  <2>2. (\A j \in 1 .. Len(queue) : queue[j].tr = packet.tr) => found = 0
    BY <1>7, <1>2, <1>10
  <2>. QED  BY <1>6, <2>1, <2>2
<1>. QED  BY <1>9, <1>10

(* A request merges into an earlier one of its queue. *)
LEMMA MergeFound ==
  ASSUME NEW S, NEW c, NEW q \in QueueNames, c[q] \in Seq(S), NEW i \in 1 .. Len(c[q])
  PROVE  /\ MergeInto(c, q, i) \in 0 .. i - 1
         /\ MergeInto(c, q, i) # 0 => Same(Shamt(q), c[q][MergeInto(c, q, i)], c[q][i])
         /\ (\A j \in 1 .. Len(c[q]) : c[q][j].tr = c[q][i].tr) =>
              (MergeInto(c, q, i) = 0 =>
                 \A j \in 1 .. i - 1 : ~Same(Shamt(q), c[q][j], c[q][i]))
<1>. DEFINE prefix == SubSeq(c[q], 1, i - 1)
            e == Collides(prefix, c[q][i], Shamt(q))
<1>1. Len(c[q]) \in Nat /\ \A j \in 1 .. Len(c[q]) : c[q][j] \in S
  BY LenProperties, ElementOfSeq
<1>2. \A j \in 1 .. i - 1 : c[q][j] \in S
  BY <1>1
<1>3. /\ prefix \in Seq(S)
      /\ Len(prefix) = IF 1 <= i - 1 THEN (i - 1) - 1 + 1 ELSE 0
      /\ \A j \in 1 .. (i - 1) - 1 + 1 : prefix[j] = c[q][1 + j - 1]
  BY <1>1, <1>2, SubSeqProperties
<1>4. Len(prefix) = i - 1 /\ \A j \in 1 .. i - 1 : prefix[j] = c[q][j]
  BY <1>1, <1>3
<1>5. MergeInto(c, q, i) = e
  BY DEF MergeInto, Shamt, QueueNames
<1>6. /\ e \in 0 .. Len(prefix)
      /\ e # 0 => Same(Shamt(q), prefix[e], c[q][i]) /\ prefix[e].tr = c[q][i].tr
      /\ (\A j \in 1 .. Len(prefix) : prefix[j].tr = c[q][i].tr) =>
           (e = 0 => \A j \in 1 .. Len(prefix) : ~Same(Shamt(q), prefix[j], c[q][i]))
  BY <1>3, CollisionFound
<1>. HIDE DEF e, prefix
<1>. QED  BY <1>1, <1>4, <1>5, <1>6

-----------------------------------------------------------------------------
(* What the operations on a queue keep.                                    *)

(* What a request says of itself; which it is for is settled when it is made. *)
LEMMA RequestIs ==
  ASSUME NEW r \in RequestType
  PROVE  /\ r.addr \in Addr /\ r.tr \in BOOLEAN /\ r.resp \in BOOLEAN
         /\ r.deps \subseteq Ids /\ r.checked \in BOOLEAN
         /\ Response(r) \in ResponseType /\ Response(r).deps = r.deps
BY DEF RequestType, ResponseType, Response

LEMMA PlaceIsOfAddress ==
  ASSUME NEW shamt, NEW x, NEW y, NEW u, NEW v, x.addr = u.addr, y.addr = v.addr
  PROVE  Same(shamt, x, y) <=> Same(shamt, u, v)
BY DEF Same, SameWrite, SameRead

(* The head of a queue leaves as any other of its requests does. *)
LEMMA TailIsDrop ==
  ASSUME NEW S, NEW s \in Seq(S), s # <<>>
  PROVE  1 \in 1 .. Len(s) /\ Head(s) = s[1] /\ Tail(s) = Drop(s, 1)
<1>1. Len(s) \in Nat \ {0}
  BY EmptySeq
<1>2. 1 \in 1 .. Len(s)
  BY <1>1
<1>3. /\ Tail(s) \in Seq(S)
      /\ Len(Tail(s)) = Len(s) - 1
      /\ \A i \in 1 .. Len(Tail(s)) : Tail(s)[i] = s[i + 1]
  BY HeadTailProperties
<1>4. /\ Drop(s, 1) \in Seq(S)
      /\ Len(Drop(s, 1)) = Len(s) - 1
      /\ \A i \in 1 .. Len(s) - 1 : Drop(s, 1)[i] = IF i < 1 THEN s[i] ELSE s[i + 1]
  BY <1>2, RemovedAt DEF Drop
<1>5. \A i \in 1 .. Len(s) - 1 : Drop(s, 1)[i] = s[i + 1]
  BY <1>1, <1>4
<1>6. \A i \in 1 .. Len(Tail(s)) : Tail(s)[i] = Drop(s, 1)[i]
  BY <1>3, <1>5
<1>7. Tail(s) = Drop(s, 1)
  BY <1>3, <1>4, <1>6, SeqEqual
<1>. QED  BY <1>2, <1>7

LEMMA AppendKept ==
  ASSUME NEW q \in QueueNames, NEW s \in Seq(RequestType), NEW e \in RequestType,
         KeptQueue(q, s), Len(s) < QueueSize(q), e.tr \in Translations, ~e.checked
  PROVE  KeptQueue(q, Append(s, e))
<1>. DEFINE t == Append(s, e)
<1>1. /\ t \in Seq(RequestType)
      /\ Len(t) = Len(s) + 1
      /\ \A i \in 1 .. Len(s) : t[i] = s[i]
      /\ t[Len(s) + 1] = e
  BY AppendProperties
<1>2. Len(s) \in Nat /\ DOMAIN s = 1 .. Len(s) /\ DOMAIN t = 1 .. Len(s) + 1
  BY <1>1, LenProperties
<1>3. QueueSize(q) \in Nat
  BY SizesAreNat
<1>. HIDE DEF t
<1>4. Len(t) <= QueueSize(q)
  BY <1>1, <1>2, <1>3
<1>5. \A i \in DOMAIN t : t[i].tr \in Translations
  BY <1>1, <1>2 DEF KeptQueue
<1>6. \A i \in DOMAIN t : t[i].checked => i \in DOMAIN s /\ t[i] = s[i]
  BY <1>1, <1>2
<1>7. \A i, j \in DOMAIN t : i < j /\ t[j].checked => t[i].checked
  <2>. SUFFICES ASSUME NEW i \in DOMAIN t, NEW j \in DOMAIN t, i < j, t[j].checked
                PROVE  t[i].checked
    OBVIOUS
  <2>1. j \in DOMAIN s /\ t[j] = s[j]
    BY <1>6
  <2>2. i \in DOMAIN s /\ t[i] = s[i]
    BY <2>1, <1>1, <1>2
  <2>. QED  BY <2>1, <2>2 DEF KeptQueue
<1>8. \A i, j \in DOMAIN t :
        i # j /\ t[i].checked /\ t[j].checked => ~Same(Shamt(q), t[i], t[j])
  BY <1>6 DEF KeptQueue
<1>9. KeptQueue(q, t)
  BY <1>4, <1>5, <1>7, <1>8 DEF KeptQueue
<1>. QED  BY <1>9 DEF t

LEMMA DropKept ==
  ASSUME NEW q \in QueueNames, NEW s \in Seq(RequestType), NEW n \in 1 .. Len(s),
         KeptQueue(q, s)
  PROVE  KeptQueue(q, Drop(s, n))
<1>. DEFINE t == Drop(s, n)
            old(i) == IF i < n THEN i ELSE i + 1
<1>1. /\ t \in Seq(RequestType)
      /\ Len(t) = Len(s) - 1
      /\ \A i \in 1 .. Len(s) - 1 : t[i] = IF i < n THEN s[i] ELSE s[i + 1]
  BY RemovedAt DEF Drop
<1>2. Len(s) \in Nat /\ DOMAIN s = 1 .. Len(s) /\ DOMAIN t = 1 .. Len(s) - 1
  BY <1>1, LenProperties
<1>3. QueueSize(q) \in Nat
  BY SizesAreNat
<1>4. \A i \in DOMAIN t : old(i) \in DOMAIN s /\ t[i] = s[old(i)]
  BY <1>1, <1>2
<1>5. \A i, j \in DOMAIN t : (i < j => old(i) < old(j)) /\ (i # j => old(i) # old(j))
  BY <1>2
<1>. HIDE DEF t, old
<1>6. Len(t) <= QueueSize(q)
  BY <1>1, <1>2, <1>3 DEF KeptQueue
<1>7. \A i \in DOMAIN t : t[i].tr \in Translations
  BY <1>4 DEF KeptQueue
<1>8. \A i, j \in DOMAIN t : i < j /\ t[j].checked => t[i].checked
  BY <1>4, <1>5 DEF KeptQueue
<1>9. \A i, j \in DOMAIN t :
        i # j /\ t[i].checked /\ t[j].checked => ~Same(Shamt(q), t[i], t[j])
  BY <1>4, <1>5 DEF KeptQueue
<1>10. KeptQueue(q, t)
  BY <1>6, <1>7, <1>8, <1>9 DEF KeptQueue
<1>. QED  BY <1>10 DEF t

(* A request that meets no earlier one for the same thing is marked. *)
LEMMA MarkKept ==
  ASSUME NEW q \in QueueNames, NEW s \in Seq(RequestType), KeptQueue(q, s),
         NEW n, n = FirstUnchecked(s), n # 0,
         \A j \in 1 .. n - 1 : ~Same(Shamt(q), s[j], s[n])
  PROVE  /\ [s EXCEPT ![n].checked = TRUE] \in Seq(RequestType)
         /\ KeptQueue(q, [s EXCEPT ![n].checked = TRUE])
<1>. DEFINE e == [s[n] EXCEPT !.checked = TRUE]
            t == [s EXCEPT ![n] = e]
<1>1. Len(s) \in Nat /\ DOMAIN s = 1 .. Len(s)
  BY LenProperties
<1>2. /\ n \in 1 .. Len(s)
      /\ ~s[n].checked
      /\ \A j \in 1 .. Len(s) : ~s[j].checked => n <= j
  BY <1>1, FirstUncheckedFound
<1>3. s[n] \in RequestType
  BY <1>2, ElementOfSeq
<1>4. e \in RequestType /\ e.addr = s[n].addr /\ e.tr = s[n].tr /\ e.checked
  BY <1>3 DEF RequestType
<1>. HIDE DEF e
<1>5. /\ t \in Seq(RequestType)
      /\ Len(t) = Len(s)
      /\ \A j \in 1 .. Len(s) : t[j] = IF j = n THEN e ELSE s[j]
  BY <1>2, <1>4, ExceptSeq
<1>6. DOMAIN t = 1 .. Len(s)
  BY <1>5, LenProperties
<1>7. [s EXCEPT ![n].checked = TRUE] = t
  BY DEF e
<1>. HIDE DEF t
<1>8. \A j \in 1 .. Len(s) : t[j].addr = s[j].addr /\ t[j].tr = s[j].tr
  BY <1>4, <1>5
<1>9. \A j \in 1 .. Len(s) : t[j].checked <=> j <= n
  <2>. TAKE j \in 1 .. Len(s)
  <2>1. CASE j < n
    BY <2>1, <1>1, <1>2, <1>5
  <2>2. CASE j = n
    BY <2>2, <1>2, <1>4, <1>5
  <2>3. CASE n < j
    BY <2>3, <1>1, <1>2, <1>5 DEF KeptQueue
  <2>. QED  BY <1>1, <1>2, <2>1, <2>2, <2>3
<1>10. \A i, j \in 1 .. Len(s) :
         i # j /\ t[i].checked /\ t[j].checked => ~Same(Shamt(q), t[i], t[j])
  <2>. SUFFICES ASSUME NEW i \in 1 .. Len(s), NEW j \in 1 .. Len(s), i # j,
                       t[i].checked, t[j].checked
                PROVE  ~Same(Shamt(q), s[i], s[j])
    BY <1>8, PlaceIsOfAddress
  <2>1. i <= n /\ j <= n
    BY <1>9
  <2>2. CASE i = n
    <3>1. j \in 1 .. n - 1
      BY <1>1, <1>2, <2>1, <2>2
    <3>. QED  BY <2>2, <3>1, SameIsMutual
  <2>3. CASE j = n
    <3>1. i \in 1 .. n - 1
      BY <1>1, <1>2, <2>1, <2>3
    <3>. QED  BY <2>3, <3>1
  <2>4. CASE i # n /\ j # n
    <3>1. s[i].checked /\ s[j].checked
      BY <1>5, <2>4
    <3>. QED  BY <1>1, <3>1 DEF KeptQueue
  <2>. QED  BY <2>2, <2>3, <2>4
<1>11. \A i, j \in 1 .. Len(s) : i < j /\ t[j].checked => t[i].checked
  BY <1>1, <1>2, <1>9
<1>12. \A j \in 1 .. Len(s) : t[j].tr \in Translations
  BY <1>1, <1>8 DEF KeptQueue
<1>13. KeptQueue(q, t)
  BY <1>1, <1>5, <1>6, <1>10, <1>11, <1>12 DEF KeptQueue
<1>. QED  BY <1>5, <1>7, <1>13

(* A request that takes in a later one keeps its place and what it is for. *)
LEMMA MergeKept ==
  ASSUME NEW q \in QueueNames, NEW s \in Seq(RequestType), KeptQueue(q, s),
         NEW d \in 1 .. Len(s), NEW e \in RequestType
  PROVE  /\ Merged(s[d], e) \in RequestType
         /\ [s EXCEPT ![d] = Merged(@, e)] = [s EXCEPT ![d] = Merged(s[d], e)]
         /\ [s EXCEPT ![d] = Merged(s[d], e)] \in Seq(RequestType)
         /\ Len([s EXCEPT ![d] = Merged(s[d], e)]) = Len(s)
         /\ \A j \in 1 .. Len(s) : [s EXCEPT ![d] = Merged(s[d], e)][j] =
                                     IF j = d THEN Merged(s[d], e) ELSE s[j]
         /\ KeptQueue(q, [s EXCEPT ![d] = Merged(s[d], e)])
<1>. DEFINE m == Merged(s[d], e)
            t == [s EXCEPT ![d] = m]
<1>1. Len(s) \in Nat /\ DOMAIN s = 1 .. Len(s) /\ s[d] \in RequestType
  BY LenProperties, ElementOfSeq
<1>2. m \in RequestType /\ m.addr = s[d].addr /\ m.tr = s[d].tr /\ m.checked = s[d].checked
  BY <1>1 DEF RequestType, Merged
<1>3. [s EXCEPT ![d] = Merged(@, e)] = t
  OBVIOUS
<1>. HIDE DEF m
<1>4. /\ t \in Seq(RequestType)
      /\ Len(t) = Len(s)
      /\ \A j \in 1 .. Len(s) : t[j] = IF j = d THEN m ELSE s[j]
  BY <1>2, ExceptSeq
<1>5. DOMAIN t = 1 .. Len(s)
  BY <1>4, LenProperties
<1>. HIDE DEF t
<1>6. \A j \in 1 .. Len(s) :
        t[j].addr = s[j].addr /\ t[j].tr = s[j].tr /\ t[j].checked = s[j].checked
  BY <1>2, <1>4
<1>7. KeptQueue(q, t)
  BY <1>1, <1>4, <1>5, <1>6, PlaceIsOfAddress DEF KeptQueue
<1>. QED  BY <1>2, <1>3, <1>4, <1>7 DEF m, t

-----------------------------------------------------------------------------
(* One round of check_collision.                                           *)

LEMMA QueuesOf ==
  ASSUME NEW c \in ChannelType
  PROVE  /\ \A q \in QueueNames : c[q] \in Seq(RequestType)
         /\ c.returned \in Seq(ResponseType)
BY DEF ChannelType, QueueNames

(* A channel with another queue, and one with another queue of responses.  *)
Replaces(c, d, q, s) ==
  /\ d \in ChannelType
  /\ d[q] = s
  /\ \A p \in QueueNames : p # q => d[p] = c[p]
  /\ d.returned = c.returned

LEMMA QueueReplaced ==
  ASSUME NEW c \in ChannelType, NEW q \in QueueNames, NEW s \in Seq(RequestType)
  PROVE  Replaces(c, [c EXCEPT ![q] = s], q, s)
<1>1. CASE q = "WQ"
  BY <1>1 DEF ChannelType, QueueNames, Replaces
<1>2. CASE q = "RQ"
  BY <1>2 DEF ChannelType, QueueNames, Replaces
<1>3. CASE q = "PQ"
  BY <1>3 DEF ChannelType, QueueNames, Replaces
<1>. QED  BY <1>1, <1>2, <1>3 DEF QueueNames

LEMMA ResponsesReplaced ==
  ASSUME NEW c \in ChannelType, NEW t \in Seq(ResponseType)
  PROVE  /\ [c EXCEPT !.returned = t] \in ChannelType
         /\ \A p \in QueueNames : [c EXCEPT !.returned = t][p] = c[p]
         /\ [c EXCEPT !.returned = t].returned = t
BY DEF ChannelType, QueueNames

(* The request a round is about, and the three things that can come of it.  *)
Looks(c, q, i) ==
  /\ q \in QueueNames /\ i \in 1 .. Len(c[q])
  /\ i = FirstUnchecked(c[q]) /\ i # 0 /\ ~c[q][i].checked

Answers(c, d, q, i) ==
  /\ q # "WQ"
  /\ \E w \in 1 .. Len(c.WQ) :
       Same("write", c.WQ[w], c[q][i]) /\ c.WQ[w].tr = c[q][i].tr
  /\ d \in ChannelType
  /\ d[q] = Drop(c[q], i)
  /\ \A p \in QueueNames : p # q => d[p] = c[p]
  /\ d.returned = IF c[q][i].resp THEN Append(c.returned, Response(c[q][i]))
                                  ELSE c.returned

Merges(c, d, q, i) ==
  /\ \E n \in 1 .. i - 1 :
       /\ Same(Shamt(q), c[q][n], c[q][i])
       /\ d[q] = Joined(c[q], n, i)
  /\ d \in ChannelType
  /\ \A p \in QueueNames : p # q => d[p] = c[p]
  /\ d.returned = c.returned

Marks(c, d, q, i) ==
  /\ \A j \in 1 .. i - 1 : ~Same(Shamt(q), c[q][j], c[q][i])
  /\ d \in ChannelType
  /\ d[q] = [c[q] EXCEPT ![i].checked = TRUE]
  /\ \A p \in QueueNames : p # q => d[p] = c[p]
  /\ d.returned = c.returned

(* Nothing is answered from a write but where there is no write to see.     *)
Unseen(c, q, i) ==
  q # "WQ" => \A w \in 1 .. Len(c.WQ) : ~Same("write", c.WQ[w], c[q][i])

LEMMA RoundLooks ==
  ASSUME NEW c \in ChannelType, ~AllChecked(c)
  PROVE  LET q == CheckedQueue(c)
             i == FirstUnchecked(c[q])
         IN  Looks(c, q, i) /\ CheckStep(c) = CheckRequest(c, q, i)
<1>. DEFINE q == CheckedQueue(c)
            i == FirstUnchecked(c[q])
<1>1. q \in QueueNames /\ i # 0
  BY DEF AllChecked, CheckedQueue, QueueNames
<1>2. c[q] \in Seq(RequestType)
  BY <1>1, QueuesOf
<1>. HIDE DEF q
<1>3. i \in 0 .. Len(c[q]) /\ ~c[q][i].checked
  BY <1>1, <1>2, FirstUncheckedFound
<1>4. i \in 1 .. Len(c[q])
  BY <1>1, <1>2, <1>3, LenProperties
<1>5. CheckStep(c) = CheckRequest(c, q, i)
  BY DEF CheckStep, q
<1>. QED  BY <1>1, <1>3, <1>4, <1>5 DEF Looks, q

LEMMA RoundDoes ==
  ASSUME OneKind, NEW c \in ChannelType, \A q \in QueueNames : KeptQueue(q, c[q]),
         ~AllChecked(c)
  PROVE  \E q \in QueueNames : \E i \in 1 .. Len(c[q]) :
           /\ Looks(c, q, i)
           /\ \/ Answers(c, CheckStep(c), q, i)
              \/ Unseen(c, q, i) /\ Merges(c, CheckStep(c), q, i)
              \/ Unseen(c, q, i) /\ Marks(c, CheckStep(c), q, i)
<1>. DEFINE d == CheckStep(c)
<1>1. PICK q, i : Looks(c, q, i) /\ d = CheckRequest(c, q, i)
  BY RoundLooks
<1>. HIDE DEF d
<1>2. q \in QueueNames /\ i \in 1 .. Len(c[q]) /\ i = FirstUnchecked(c[q]) /\ i # 0
  BY <1>1 DEF Looks
<1>3. /\ \A p \in QueueNames : c[p] \in Seq(RequestType)
      /\ c.returned \in Seq(ResponseType)
  BY QueuesOf
<1>4. Len(c[q]) \in Nat /\ DOMAIN c[q] = 1 .. Len(c[q]) /\ c[q][i] \in RequestType
  BY <1>2, <1>3, LenProperties, ElementOfSeq
<1>5. ASSUME NEW p \in QueueNames, NEW j \in 1 .. Len(c[p])
      PROVE  c[p][j].tr \in Translations /\ c[p][j].tr = c[q][i].tr
  <2>1. DOMAIN c[p] = 1 .. Len(c[p])
    BY <1>3, LenProperties
  <2>2. c[p][j].tr \in Translations /\ c[q][i].tr \in Translations
    BY <1>2, <1>4, <2>1 DEF KeptQueue
  <2>. QED  BY <2>2 DEF OneKind
<1>6. \A p \in QueueNames : \A j \in 1 .. Len(c[p]) : c[p][j].tr = c[q][i].tr
  BY <1>5
<1>. DEFINE dest == MergeInto(c, q, i)
            from == ForwardFrom(c, q, i)
<1>7. /\ dest \in 0 .. i - 1
      /\ dest # 0 => Same(Shamt(q), c[q][dest], c[q][i])
      /\ dest = 0 => \A j \in 1 .. i - 1 : ~Same(Shamt(q), c[q][j], c[q][i])
  <2>1. c[q] \in Seq(RequestType) /\ \A j \in 1 .. Len(c[q]) : c[q][j].tr = c[q][i].tr
    BY <1>2, <1>3, <1>6
  <2>. QED  BY <1>2, <2>1, MergeFound, Zenon
<1>8. /\ from # 0 =>
           /\ q # "WQ"
           /\ \E w \in 1 .. Len(c.WQ) :
                Same("write", c.WQ[w], c[q][i]) /\ c.WQ[w].tr = c[q][i].tr
      /\ from = 0 => Unseen(c, q, i)
  <2>1. "WQ" \in QueueNames /\ c.WQ \in Seq(RequestType) /\ Len(c.WQ) \in Nat
    BY <1>3, LenProperties DEF QueueNames
  <2>2. \A j \in 1 .. Len(c.WQ) : c.WQ[j].tr = c[q][i].tr
    BY <1>6, <2>1
  <2>. DEFINE f == Collides(c.WQ, c[q][i], "write")
  <2>3. /\ f \in 0 .. Len(c.WQ)
        /\ f # 0 => Same("write", c.WQ[f], c[q][i]) /\ c.WQ[f].tr = c[q][i].tr
        /\ f = 0 => \A j \in 1 .. Len(c.WQ) : ~Same("write", c.WQ[j], c[q][i])
    BY <2>1, <2>2, CollisionFound
  <2>. HIDE DEF f
  <2>4. f # 0 => f \in 1 .. Len(c.WQ)
    BY <2>1, <2>3
  <2>5. from = IF q = "WQ" THEN 0 ELSE f
    BY DEF ForwardFrom, f
  <2>. QED  BY <2>3, <2>4, <2>5 DEF Unseen
<1>. HIDE DEF dest, from
<1>9. d = IF from # 0 THEN Forwarded(c, q, i)
          ELSE IF dest # 0
            THEN [c EXCEPT ![q] = Joined(c[q], dest, i)]
            ELSE [c EXCEPT ![q][i].checked = TRUE]
  BY <1>1 DEF CheckRequest, dest, from
<1>10. CASE from # 0
  <2>. DEFINE t == IF c[q][i].resp THEN Append(c.returned, Response(c[q][i])) ELSE c.returned
              s == Drop(c[q], i)
  <2>1. s \in Seq(RequestType)
    BY <1>2, <1>3, RemovedAt DEF Drop
  <2>2. t \in Seq(ResponseType)
    BY <1>3, <1>4, RequestIs, AppendProperties
  <2>. DEFINE e == [c EXCEPT ![q] = s]
  <2>3. Replaces(c, e, q, s)
    BY <1>2, <2>1, QueueReplaced
  <2>4. d = [e EXCEPT !.returned = t]
    BY <1>2, <1>9, <1>10 DEF Forwarded, QueueNames
  <2>. HIDE DEF t, s, e
  <2>5. /\ d \in ChannelType
        /\ \A p \in QueueNames : d[p] = e[p]
        /\ d.returned = t
    BY <2>2, <2>3, <2>4, ResponsesReplaced DEF Replaces
  <2>6. Answers(c, d, q, i)
    BY <1>2, <1>8, <1>10, <2>3, <2>5 DEF Answers, Replaces, s, t
  <2>. QED  BY <1>1, <1>2, <2>6 DEF d
<1>11. CASE from = 0 /\ dest # 0
  <2>1. dest \in 1 .. Len(c[q]) /\ dest \in 1 .. i - 1
    BY <1>2, <1>4, <1>7, <1>11
  <2>. DEFINE m == [c[q] EXCEPT ![dest] = Merged(c[q][dest], c[q][i])]
              j == Joined(c[q], dest, i)
  <2>2. m \in Seq(RequestType) /\ Len(m) = Len(c[q])
        /\ [c[q] EXCEPT ![dest] = Merged(@, c[q][i])] = m
    BY <1>2, <1>3, <1>4, <2>1, MergeKept
  <2>3. j = Drop(m, i)
    BY <2>2 DEF Joined
  <2>4. j \in Seq(RequestType)
    <3>. HIDE DEF m, j
    <3>. QED  BY <1>2, <2>2, <2>3, RemovedAt DEF Drop
  <2>5. d = [c EXCEPT ![q] = j]
    BY <1>9, <1>11
  <2>6. Replaces(c, d, q, j)
    <3>. HIDE DEF j
    <3>. QED  BY <1>2, <2>4, <2>5, QueueReplaced
  <2>7. Merges(c, d, q, i)
    BY <1>7, <1>11, <2>1, <2>6 DEF Merges, Replaces
  <2>. QED  BY <1>1, <1>2, <1>8, <1>11, <2>7 DEF d
<1>12. CASE from = 0 /\ dest = 0
  <2>. DEFINE m == [c[q] EXCEPT ![i].checked = TRUE]
  <2>1. m \in Seq(RequestType)
    BY <1>2, <1>3, <1>7, <1>12, MarkKept
  <2>2. d = [c EXCEPT ![q] = m]
    BY <1>9, <1>12
  <2>3. Replaces(c, d, q, m)
    <3>. HIDE DEF m
    <3>. QED  BY <1>2, <2>1, <2>2, QueueReplaced
  <2>4. Marks(c, d, q, i)
    BY <1>7, <1>12, <2>3 DEF Marks, Replaces
  <2>. QED  BY <1>1, <1>2, <1>8, <1>12, <2>4 DEF d
<1>. QED  BY <1>10, <1>11, <1>12

(* The request that is merged goes into an earlier one, which stays. *)
LEMMA JoinedIs ==
  ASSUME NEW q \in QueueNames, NEW s \in Seq(RequestType),
         NEW i \in 1 .. Len(s), NEW n \in 1 .. i - 1, KeptQueue(q, s)
  PROVE  /\ n \in 1 .. Len(s)
         /\ Merged(s[n], s[i]) \in RequestType
         /\ KeptQueue(q, Joined(s, n, i))
         /\ Joined(s, n, i) \in Seq(RequestType)
         /\ Len(Joined(s, n, i)) = Len(s) - 1
         /\ \A j \in 1 .. Len(s) - 1 :
              Joined(s, n, i)[j] =
                IF j = n THEN Merged(s[n], s[i]) ELSE IF j < i THEN s[j] ELSE s[j + 1]
<1>. DEFINE m == [s EXCEPT ![n] = Merged(s[n], s[i])]
<1>1. Len(s) \in Nat /\ s[i] \in RequestType
  BY LenProperties, ElementOfSeq
<1>2. n \in 1 .. Len(s)
  BY <1>1
<1>3. /\ Merged(s[n], s[i]) \in RequestType
      /\ [s EXCEPT ![n] = Merged(@, s[i])] = m
      /\ m \in Seq(RequestType)
      /\ Len(m) = Len(s)
      /\ \A j \in 1 .. Len(s) : m[j] = IF j = n THEN Merged(s[n], s[i]) ELSE s[j]
      /\ KeptQueue(q, m)
  BY <1>1, <1>2, MergeKept
<1>4. Joined(s, n, i) = Drop(m, i)
  BY <1>3 DEF Joined
<1>. HIDE DEF m
<1>5. /\ Drop(m, i) \in Seq(RequestType)
      /\ Len(Drop(m, i)) = Len(s) - 1
      /\ \A j \in 1 .. Len(s) - 1 : Drop(m, i)[j] = IF j < i THEN m[j] ELSE m[j + 1]
  BY <1>3, RemovedAt DEF Drop
<1>6. KeptQueue(q, Drop(m, i))
  BY <1>3, DropKept
<1>7. ASSUME NEW j \in 1 .. Len(s) - 1
      PROVE  Drop(m, i)[j] =
               IF j = n THEN Merged(s[n], s[i]) ELSE IF j < i THEN s[j] ELSE s[j + 1]
  <2>1. CASE j < i
    BY <2>1, <1>1, <1>3, <1>5
  <2>2. CASE ~(j < i)
    <3>1. j # n /\ j + 1 # n /\ j + 1 \in 1 .. Len(s)
      BY <2>2, <1>1
    <3>2. m[j + 1] = s[j + 1]
      BY <3>1, <1>3
    <3>. QED  BY <2>2, <3>1, <3>2, <1>5
  <2>. QED  BY <2>1, <2>2
<1>. QED  BY <1>2, <1>3, <1>4, <1>5, <1>6, <1>7

LEMMA RoundKept ==
  ASSUME OneKind, NEW c \in ChannelType, \A q \in QueueNames : KeptQueue(q, c[q]),
         ~AllChecked(c)
  PROVE  /\ CheckStep(c) \in ChannelType
         /\ \A q \in QueueNames : KeptQueue(q, CheckStep(c)[q])
<1>. DEFINE d == CheckStep(c)
<1>1. PICK q, i :
        /\ q \in QueueNames /\ i \in 1 .. Len(c[q]) /\ Looks(c, q, i)
        /\ Answers(c, d, q, i) \/ Merges(c, d, q, i) \/ Marks(c, d, q, i)
  BY RoundDoes
<1>. HIDE DEF d
<1>2. d \in ChannelType /\ \A p \in QueueNames : p # q => d[p] = c[p]
  BY <1>1 DEF Answers, Merges, Marks
<1>3. c[q] \in Seq(RequestType) /\ KeptQueue(q, c[q])
  BY <1>1, QueuesOf
<1>4. KeptQueue(q, d[q])
  <2>1. CASE Answers(c, d, q, i)
    BY <1>1, <1>3, <2>1, DropKept DEF Answers
  <2>2. CASE Merges(c, d, q, i)
    BY <1>1, <1>3, <2>2, JoinedIs DEF Merges
  <2>3. CASE Marks(c, d, q, i)
    BY <1>1, <1>3, <2>3, MarkKept DEF Marks, Looks
  <2>. QED  BY <1>1, <2>1, <2>2, <2>3
<1>. QED  BY <1>2, <1>4 DEF d

-----------------------------------------------------------------------------
(* The actions.                                                            *)

LEMMA PacketIs ==
  ASSUME NEW a \in Addr, NEW t \in BOOLEAN, NEW w \in BOOLEAN, NEW ids \in SUBSET Ids
  PROVE  /\ Packet(a, t, w, ids) \in RequestType
         /\ [Packet(a, t, w, ids) EXCEPT !.checked = FALSE] = Packet(a, t, w, ids)
<1>1. Packet(a, t, w, ids) \in RequestType
  BY DEF Packet, RequestType
<1>2. Packet(a, t, w, ids).checked = FALSE
  BY DEF Packet
<1>3. \A r \in RequestType : r.checked = FALSE => [r EXCEPT !.checked = FALSE] = r
  BY DEF RequestType
<1>. HIDE DEF Packet
<1>. QED  BY <1>1, <1>2, <1>3

LEMMA AddKept ==
  ASSUME OneKind, CheckInv, turn = "upper", NEW q \in QueueNames, HasRoom(ch, q),
         NEW a \in Addr, NEW t \in Translations, NEW w \in BOOLEAN, NEW ids \in SUBSET Ids,
         ch' = Added(ch, q, Packet(a, t, w, ids)), turn' = turn, below' = below
  PROVE  /\ Replaces(ch, ch', q, Append(ch[q], Packet(a, t, w, ids)))
         /\ CheckInv'
<1>. DEFINE e == Packet(a, t, w, ids)
            s == ch[q]
<1>1. t \in BOOLEAN
  BY DEF OneKind
<1>2. /\ e \in RequestType /\ e.tr = t /\ ~e.checked
      /\ [e EXCEPT !.checked = FALSE] = e
  BY <1>1, PacketIs DEF Packet
<1>3. ch \in ChannelType /\ s \in Seq(RequestType) /\ KeptQueue(q, s)
  BY QueuesOf DEF CheckInv, ChannelTypeOK
<1>4. Append(s, e) \in Seq(RequestType)
  BY <1>2, <1>3, AppendProperties
<1>5. ch' = [ch EXCEPT ![q] = Append(s, e)]
  BY <1>2 DEF Added
<1>. HIDE DEF e
<1>6. Replaces(ch, ch', q, Append(s, e))
  BY <1>3, <1>4, <1>5, QueueReplaced
<1>7. KeptQueue(q, Append(s, e))
  BY <1>2, <1>3, AppendKept DEF HasRoom
<1>8. \A p \in QueueNames : KeptQueue(p, ch'[p])
  BY <1>6, <1>7 DEF CheckInv, Replaces
<1>9. ChannelTypeOK'
  BY <1>6, <1>8 DEF CheckInv, ChannelTypeOK, Replaces, KeptQueue
<1>10. CheckInv'
  BY <1>8, <1>9 DEF CheckInv
<1>. QED  BY <1>6, <1>10 DEF e

(* The head of a queue is taken. *)
LEMMA TakeKept ==
  ASSUME CheckInv, NEW q \in QueueNames, Take(q)
  PROVE  /\ 1 \in 1 .. Len(ch[q])
         /\ Head(ch[q]) = ch[q][1]
         /\ Replaces(ch, ch', q, Drop(ch[q], 1))
         /\ CheckInv'
<1>. DEFINE s == ch[q]
<1>1. ch \in ChannelType /\ s \in Seq(RequestType) /\ KeptQueue(q, s)
  BY QueuesOf DEF CheckInv, ChannelTypeOK
<1>2. s # <<>> /\ ch' = [ch EXCEPT ![q] = Tail(s)] /\ turn = "lower" /\ turn' = turn
  BY DEF Take
<1>3. 1 \in 1 .. Len(s) /\ Head(s) = s[1] /\ Tail(s) = Drop(s, 1)
  BY <1>1, <1>2, TailIsDrop
<1>4. /\ Drop(s, 1) \in Seq(RequestType)
      /\ Len(Drop(s, 1)) = Len(s) - 1
      /\ \A j \in 1 .. Len(s) - 1 : Drop(s, 1)[j] = IF j < 1 THEN s[j] ELSE s[j + 1]
  BY <1>1, <1>3, RemovedAt DEF Drop
<1>5. KeptQueue(q, Drop(s, 1))
  BY <1>1, <1>3, DropKept
<1>6. Replaces(ch, ch', q, Drop(s, 1))
  BY <1>1, <1>2, <1>3, <1>4, QueueReplaced
<1>7. \A p \in QueueNames : KeptQueue(p, ch'[p])
  BY <1>5, <1>6 DEF CheckInv, Replaces
<1>8. s[1] \in RequestType
  BY <1>1, <1>3, ElementOfSeq
<1>9. below' \subseteq RequestType
  BY <1>3, <1>8 DEF Take, CheckInv, ChannelTypeOK
<1>10. ChannelTypeOK'
  BY <1>2, <1>6, <1>7, <1>9 DEF CheckInv, ChannelTypeOK, Replaces, KeptQueue
<1>11. FirstUnchecked(Drop(s, 1)) = 0
  <2>. DEFINE t == Drop(s, 1)
              n == FirstUnchecked(t)
  <2>1. Len(s) \in Nat /\ FirstUnchecked(s) = 0
    BY <1>1, <1>2, LenProperties DEF CheckInv, AllChecked
  <2>2. \A j \in 1 .. Len(s) : s[j].checked
    BY <1>1, <2>1, FirstUncheckedFound
  <2>3. \A j \in 1 .. Len(t) : t[j].checked
    BY <1>4, <2>1, <2>2
  <2>4. n \in 0 .. Len(t) /\ (n # 0 => ~t[n].checked) /\ Len(t) \in Nat
    <3>. HIDE DEF t
    <3>. QED  BY <1>4, FirstUncheckedFound, LenProperties DEF t
  <2>. HIDE DEF n, t
  <2>5. n = 0
    BY <2>3, <2>4
  <2>. QED  BY <2>5 DEF n, t
<1>12. AllChecked(ch')
  BY <1>2, <1>6, <1>11 DEF CheckInv, AllChecked, Replaces
<1>. QED  BY <1>3, <1>6, <1>7, <1>10, <1>12 DEF CheckInv

(* Responses come and go without a change to the queues. *)
LEMMA ResponsesKept ==
  ASSUME CheckInv, turn' = turn, below' \subseteq below, NEW t \in Seq(ResponseType),
         ch' = [ch EXCEPT !.returned = t]
  PROVE  /\ \A q \in QueueNames : ch'[q] = ch[q]
         /\ ch'.returned = t
         /\ CheckInv'
<1>1. ch \in ChannelType
  BY DEF CheckInv, ChannelTypeOK
<1>2. /\ ch' \in ChannelType
      /\ \A q \in QueueNames : ch'[q] = ch[q]
      /\ ch'.returned = t
  BY <1>1, ResponsesReplaced
<1>3. ChannelTypeOK'
  BY <1>2 DEF CheckInv, ChannelTypeOK
<1>4. CheckInv'
  BY <1>2, <1>3 DEF CheckInv, AllChecked
<1>. QED  BY <1>2, <1>4

LEMMA CollectKept ==
  ASSUME CheckInv, Collect
  PROVE  /\ \A q \in QueueNames : ch'[q] = ch[q]
         /\ 1 \in 1 .. Len(ch.returned)
         /\ ch'.returned = Drop(ch.returned, 1)
         /\ CheckInv'
<1>1. ch.returned \in Seq(ResponseType) /\ ch.returned # <<>>
  BY QueuesOf DEF CheckInv, ChannelTypeOK, Collect
<1>2. 1 \in 1 .. Len(ch.returned) /\ Tail(ch.returned) = Drop(ch.returned, 1)
  BY <1>1, TailIsDrop
<1>3. Tail(ch.returned) \in Seq(ResponseType)
  BY <1>1, HeadTailProperties
<1>4. ch' = [ch EXCEPT !.returned = Tail(ch.returned)] /\ turn' = turn /\ below' \subseteq below
  BY DEF Collect
<1>. QED  BY <1>2, <1>3, <1>4, ResponsesKept

LEMMA AnswerKept ==
  ASSUME CheckInv, NEW r \in below, Answer(r)
  PROVE  /\ \A q \in QueueNames : ch'[q] = ch[q]
         /\ ch'.returned = Append(ch.returned, Response(r))
         /\ CheckInv'
<1>1. ch.returned \in Seq(ResponseType) /\ r \in RequestType
  BY QueuesOf DEF CheckInv, ChannelTypeOK
<1>2. Append(ch.returned, Response(r)) \in Seq(ResponseType)
  BY <1>1, RequestIs, AppendProperties
<1>3. /\ ch' = [ch EXCEPT !.returned = Append(ch.returned, Response(r))]
      /\ turn' = turn /\ below' \subseteq below
  BY DEF Answer
<1>. QED  BY <1>2, <1>3, ResponsesKept

LEMMA CheckInvNext ==
  ASSUME OneKind, CheckInv, [ChannelNext]_channelVars
  PROVE  CheckInv'
<1>1. ASSUME NEW q \in {"RQ", "PQ"}, NEW a \in Addr, NEW t \in Translations, NEW i \in Idle,
             AddRead(q, a, t, i)
      PROVE  CheckInv'
  <2>1. q \in QueueNames /\ i \in Ids
    BY DEF QueueNames, Idle
  <2>. QED  BY ZenonT(40), <1>1, <2>1, AddKept DEF AddRead
<1>2. ASSUME NEW q \in {"RQ", "PQ"}, NEW a \in Addr, NEW t \in Translations, AddPrefetch(q, a, t)
      PROVE  CheckInv'
  <2>1. q \in QueueNames
    BY DEF QueueNames
  <2>2. {} \in SUBSET Ids /\ FALSE \in BOOLEAN
    OBVIOUS
  <2>. QED  BY <1>2, <2>1, <2>2, AddKept DEF AddPrefetch
<1>3. ASSUME NEW a \in Addr, NEW t \in Translations, AddWrite(a, t)
      PROVE  CheckInv'
  <2>1. "WQ" \in QueueNames
    BY DEF QueueNames
  <2>2. {} \in SUBSET Ids /\ FALSE \in BOOLEAN
    OBVIOUS
  <2>. QED  BY <1>3, <2>1, <2>2, AddKept DEF AddWrite
<1>4. CASE Collect
  BY <1>4, CollectKept
<1>5. CASE StartCheck
  BY <1>5 DEF StartCheck, CheckInv, ChannelTypeOK
<1>6. CASE CheckOne
  <2>1. ch \in ChannelType /\ \A q \in QueueNames : KeptQueue(q, ch[q])
    BY DEF CheckInv, ChannelTypeOK
  <2>2. ch' \in ChannelType /\ \A q \in QueueNames : KeptQueue(q, ch'[q])
    BY <1>6, <2>1, RoundKept DEF CheckOne
  <2>. QED  BY <1>6, <2>2 DEF CheckOne, CheckInv, ChannelTypeOK, KeptQueue
<1>7. CASE EndCheck
  BY <1>7 DEF EndCheck, CheckInv, ChannelTypeOK
<1>8. ASSUME NEW q \in QueueNames, Take(q)
      PROVE  CheckInv'
  BY <1>8, TakeKept
<1>9. ASSUME NEW r \in below, Answer(r)
      PROVE  CheckInv'
  BY <1>9, AnswerKept
<1>10. CASE EndCycle
  BY <1>10 DEF EndCycle, CheckInv, ChannelTypeOK
<1>11. CASE UNCHANGED channelVars
  BY <1>11 DEF channelVars, CheckInv, ChannelTypeOK
<1>. QED  BY <1>1, <1>2, <1>3, <1>4, <1>5, <1>6, <1>7, <1>8, <1>9, <1>10, <1>11 DEF ChannelNext

LEMMA CheckInvInit == ChannelInit => CheckInv
<1>. SUFFICES ASSUME ChannelInit
              PROVE  CheckInv
  OBVIOUS
<1>1. \A q \in QueueNames : ch[q] = <<>>
  BY DEF ChannelInit, EmptyChannel, QueueNames
<1>2. ch \in ChannelType
  BY DEF ChannelInit, EmptyChannel, ChannelType
<1>3. \A q \in QueueNames : Len(ch[q]) = 0 /\ DOMAIN ch[q] = {}
  BY <1>1
<1>4. \A q \in QueueNames : KeptQueue(q, ch[q])
  BY <1>3, SizesAreNat DEF KeptQueue
<1>. QED  BY <1>2, <1>4 DEF ChannelInit, CheckInv, ChannelTypeOK, KeptQueue

(* The queues are as check_collision relies on and promises: the requests   *)
(* it has looked at come first, and when the level below takes requests no  *)
(* queue holds two for the same thing.                                      *)
LEMMA CheckInvKeepsQueues == CheckInv => QueuesKept
<1>. SUFFICES ASSUME CheckInv
              PROVE  QueuesKept
  OBVIOUS
<1>1. \A q \in QueueNames : ch[q] \in Seq(RequestType) /\ DOMAIN ch[q] = 1 .. Len(ch[q])
  BY QueuesOf, LenProperties DEF CheckInv, ChannelTypeOK
<1>2. CheckedPrefix
  BY DEF CheckedPrefix, CheckInv, KeptQueue
<1>3. ASSUME turn = "lower", NEW q \in QueueNames, NEW i \in DOMAIN ch[q],
             NEW j \in DOMAIN ch[q], i # j
      PROVE  IF q = "WQ" THEN ~SameWrite(ch[q][i], ch[q][j]) ELSE ~SameRead(ch[q][i], ch[q][j])
  <2>1. FirstUnchecked(ch[q]) = 0
    BY <1>3 DEF CheckInv, AllChecked
  <2>2. ch[q][i].checked /\ ch[q][j].checked
    BY <1>1, <2>1, FirstUncheckedFound
  <2>3. ~Same(Shamt(q), ch[q][i], ch[q][j])
    BY <1>3, <2>2 DEF CheckInv, KeptQueue
  <2>. QED  BY <2>3 DEF Same, Shamt
<1>4. NoDuplicates
  BY <1>3 DEF NoDuplicates
<1>. QED  BY <1>2, <1>4 DEF QueuesKept, CheckInv

(* What check_collision relies on and what it promises holds on every       *)
(* channel whose requests are of one kind, in every order of arrivals,      *)
(* rounds of its loops and requests taken below (src/src/channel.cc:74).    *)
THEOREM ChannelKeepsQueues ==
  ASSUME OneKind
  PROVE  ChannelSpec => []QueuesKept
<1>1. ChannelInit => CheckInv
  BY CheckInvInit
<1>2. CheckInv /\ [ChannelNext]_channelVars => CheckInv'
  BY CheckInvNext
<1>3. CheckInv => QueuesKept
  BY CheckInvKeepsQueues
<1>. QED  BY <1>1, <1>2, <1>3, PTL DEF ChannelSpec

-----------------------------------------------------------------------------
(* Who waits in a queue, and what the operations on it do to them.          *)

LEMMA HeldInIs ==
  ASSUME NEW S, NEW s \in Seq(S)
  PROVE  /\ DOMAIN s = 1 .. Len(s)
         /\ \A x : x \in HeldIn(s) <=> \E j \in 1 .. Len(s) : x \in s[j].deps
<1>1. DOMAIN s = 1 .. Len(s)
  BY LenProperties
<1>. QED  BY <1>1 DEF HeldIn

(* Waiting for a request that wants a response and waiting are the same.    *)
LEMMA WaitingIs ==
  ASSUME NEW S, NEW s \in Seq(S), WantedByHolders(s)
  PROVE  Waiting(ToSet(s)) = HeldIn(s)
<1>1. \A x : x \in Waiting(ToSet(s)) <=> \E j \in DOMAIN s : s[j].resp /\ x \in s[j].deps
  BY DEF Waiting, ToSet
<1>2. \A j \in DOMAIN s : s[j].resp <=> s[j].deps # {}
  BY DEF WantedByHolders
<1>3. \A x : x \in HeldIn(s) <=> \E j \in DOMAIN s : x \in s[j].deps
  BY DEF HeldIn
<1>4. \A x : x \in Waiting(ToSet(s)) <=> x \in HeldIn(s)
  BY <1>1, <1>2, <1>3
<1>. QED  BY <1>4

LEMMA AnsweredIs ==
  ASSUME NEW s
  PROVE  UNION {r.deps : r \in ToSet(s)} = HeldIn(s)
<1>1. \A x : x \in UNION {r.deps : r \in ToSet(s)} <=> \E j \in DOMAIN s : x \in s[j].deps
  BY DEF ToSet
<1>2. \A x : x \in HeldIn(s) <=> \E j \in DOMAIN s : x \in s[j].deps
  BY DEF HeldIn
<1>. QED  BY <1>1, <1>2

LEMMA WaitingBelowIs ==
  ASSUME NEW b, \A r \in b : r.resp
  PROVE  Waiting(b) = HeldBy(b)
BY DEF Waiting, HeldBy

LEMMA AppendHeld ==
  ASSUME NEW S, NEW s \in Seq(S), NEW e \in S, HeldOnce(s), e.deps \cap HeldIn(s) = {}
  PROVE  /\ HeldIn(Append(s, e)) = HeldIn(s) \cup e.deps
         /\ HeldOnce(Append(s, e))
<1>. DEFINE t == Append(s, e)
<1>1. /\ t \in Seq(S)
      /\ Len(t) = Len(s) + 1
      /\ \A j \in 1 .. Len(s) : t[j] = s[j]
      /\ t[Len(s) + 1] = e
  BY AppendProperties
<1>2. Len(s) \in Nat /\ DOMAIN s = 1 .. Len(s)
  BY LenProperties
<1>3. \A x : x \in HeldIn(s) <=> \E j \in 1 .. Len(s) : x \in s[j].deps
  BY HeldInIs
<1>. HIDE DEF t
<1>4. DOMAIN t = 1 .. Len(s) + 1
  BY <1>1, LenProperties
<1>5. \A x : x \in HeldIn(t) <=> \E j \in 1 .. Len(s) + 1 : x \in t[j].deps
  BY <1>1, HeldInIs
<1>6. \A x : x \in HeldIn(t) <=> x \in HeldIn(s) \cup e.deps
  BY <1>1, <1>2, <1>3, <1>5
<1>7. \A j \in 1 .. Len(s) + 1 : j \in 1 .. Len(s) \/ j = Len(s) + 1
  BY <1>2
<1>8. \A j \in 1 .. Len(s) : s[j].deps \cap e.deps = {}
  BY <1>3
<1>9. \A i, j \in 1 .. Len(s) + 1 : i # j => t[i].deps \cap t[j].deps = {}
  BY <1>1, <1>2, <1>7, <1>8 DEF HeldOnce
<1>10. HeldIn(t) = HeldIn(s) \cup e.deps /\ HeldOnce(t)
  BY <1>4, <1>6, <1>9 DEF HeldOnce
<1>. QED  BY <1>10 DEF t

LEMMA DropHeld ==
  ASSUME NEW S, NEW s \in Seq(S), NEW n \in 1 .. Len(s), HeldOnce(s)
  PROVE  /\ HeldIn(Drop(s, n)) = HeldIn(s) \ s[n].deps
         /\ HeldOnce(Drop(s, n))
         /\ s[n].deps \subseteq HeldIn(s)
         /\ \A j \in DOMAIN Drop(s, n) : \E k \in DOMAIN s : Drop(s, n)[j] = s[k]
<1>. DEFINE t == Drop(s, n)
            old(i) == IF i < n THEN i ELSE i + 1
            new(i) == IF i < n THEN i ELSE i - 1
<1>1. /\ t \in Seq(S)
      /\ Len(t) = Len(s) - 1
      /\ \A i \in 1 .. Len(s) - 1 : t[i] = IF i < n THEN s[i] ELSE s[i + 1]
  BY RemovedAt DEF Drop
<1>2. Len(s) \in Nat /\ DOMAIN s = 1 .. Len(s) /\ DOMAIN t = 1 .. Len(s) - 1
  BY <1>1, LenProperties
<1>3. \A i \in DOMAIN t : old(i) \in DOMAIN s /\ old(i) # n /\ t[i] = s[old(i)]
  BY <1>1, <1>2
<1>4. \A i, j \in DOMAIN t : i # j => old(i) # old(j)
  BY <1>2
<1>5. \A i \in DOMAIN s : i # n => new(i) \in DOMAIN t /\ t[new(i)] = s[i]
  <2>. SUFFICES ASSUME NEW i \in DOMAIN s, i # n
                PROVE  new(i) \in DOMAIN t /\ t[new(i)] = s[i]
    OBVIOUS
  <2>1. new(i) \in DOMAIN t /\ old(new(i)) = i
    BY <1>2
  <2>. HIDE DEF new, old
  <2>. QED  BY <1>3, <2>1
<1>6. /\ \A x : x \in HeldIn(s) <=> \E j \in DOMAIN s : x \in s[j].deps
      /\ \A x : x \in HeldIn(t) <=> \E j \in DOMAIN t : x \in t[j].deps
  BY DEF HeldIn
<1>7. \A i \in DOMAIN s : i # n => s[i].deps \cap s[n].deps = {}
  BY <1>2 DEF HeldOnce
<1>. HIDE DEF t, old, new
<1>8. ASSUME NEW x
      PROVE  x \in HeldIn(t) <=> x \in HeldIn(s) \ s[n].deps
  <2>1. ASSUME NEW j \in DOMAIN t, x \in t[j].deps
        PROVE  x \notin s[n].deps /\ \E k \in DOMAIN s : x \in s[k].deps
    BY <2>1, <1>3, <1>7
  <2>2. ASSUME NEW k \in DOMAIN s, x \in s[k].deps, x \notin s[n].deps
        PROVE  \E j \in DOMAIN t : x \in t[j].deps
    BY <2>2, <1>5
  <2>. QED  BY <1>6, <2>1, <2>2
<1>9. HeldOnce(t)
  BY <1>3, <1>4 DEF HeldOnce
<1>10. s[n].deps \subseteq HeldIn(s)
  BY <1>2, <1>6
<1>. QED  BY <1>3, <1>8, <1>9, <1>10 DEF t

LEMMA DropWanted ==
  ASSUME NEW S, NEW s \in Seq(S), NEW n \in 1 .. Len(s), HeldOnce(s), WantedByHolders(s)
  PROVE  WantedByHolders(Drop(s, n))
BY DropHeld DEF WantedByHolders

LEMMA AppendWanted ==
  ASSUME NEW S, NEW s \in Seq(S), NEW e \in S, WantedByHolders(s), e.resp <=> e.deps # {}
  PROVE  WantedByHolders(Append(s, e))
<1>. DEFINE t == Append(s, e)
<1>1. /\ t \in Seq(S)
      /\ Len(t) = Len(s) + 1
      /\ \A j \in 1 .. Len(s) : t[j] = s[j]
      /\ t[Len(s) + 1] = e
  BY AppendProperties
<1>. HIDE DEF t
<1>2. Len(s) \in Nat /\ DOMAIN s = 1 .. Len(s) /\ DOMAIN t = 1 .. Len(s) + 1
  BY <1>1, LenProperties
<1>3. \A j \in DOMAIN t : j \in DOMAIN s \/ j = Len(s) + 1
  BY <1>2
<1>4. WantedByHolders(t)
  BY <1>1, <1>2, <1>3 DEF WantedByHolders
<1>. QED  BY <1>4 DEF t

(* Those of two merged requests wait for the one that stays.               *)
LEMMA JoinHeld ==
  ASSUME NEW q \in QueueNames, NEW s \in Seq(RequestType), KeptQueue(q, s),
         NEW i \in 1 .. Len(s), NEW n \in 1 .. i - 1, HeldOnce(s), WantedByHolders(s)
  PROVE  /\ HeldIn(Joined(s, n, i)) = HeldIn(s)
         /\ HeldOnce(Joined(s, n, i))
         /\ WantedByHolders(Joined(s, n, i))
<1>. DEFINE t == Joined(s, n, i)
            m == Merged(s[n], s[i])
            old(j) == IF j < i THEN j ELSE j + 1
            new(j) == IF j < i THEN j ELSE j - 1
<1>1. /\ n \in 1 .. Len(s)
      /\ m \in RequestType
      /\ t \in Seq(RequestType)
      /\ Len(t) = Len(s) - 1
      /\ \A j \in 1 .. Len(s) - 1 :
           t[j] = IF j = n THEN m ELSE IF j < i THEN s[j] ELSE s[j + 1]
  BY JoinedIs
<1>2. Len(s) \in Nat /\ DOMAIN s = 1 .. Len(s) /\ DOMAIN t = 1 .. Len(s) - 1
  BY <1>1, LenProperties
<1>3. s[n] \in RequestType /\ s[i] \in RequestType
  BY <1>1, ElementOfSeq
<1>4. m.deps = s[n].deps \cup s[i].deps /\ m.resp = (s[n].resp \/ s[i].resp)
  BY <1>3 DEF Merged, RequestType
<1>5. n \in DOMAIN t /\ t[n] = m /\ n \in DOMAIN s /\ i \in DOMAIN s /\ n # i
  BY <1>1, <1>2
<1>6. \A j \in DOMAIN t : j # n => /\ old(j) \in DOMAIN s /\ old(j) # i /\ old(j) # n
                                   /\ t[j] = s[old(j)]
  <2>. SUFFICES ASSUME NEW j \in DOMAIN t, j # n
                PROVE  old(j) \in DOMAIN s /\ old(j) # i /\ old(j) # n /\ t[j] = s[old(j)]
    OBVIOUS
  <2>1. CASE j < i
    BY <2>1, <1>1, <1>2
  <2>2. CASE ~(j < i)
    BY <2>2, <1>1, <1>2
  <2>. QED  BY <2>1, <2>2
<1>7. \A j, k \in DOMAIN t : j # k => old(j) # old(k)
  BY <1>2
<1>8. \A j \in DOMAIN s : j # i /\ j # n => /\ new(j) \in DOMAIN t /\ new(j) # n
                                            /\ t[new(j)] = s[j]
  <2>. SUFFICES ASSUME NEW j \in DOMAIN s, j # i, j # n
                PROVE  new(j) \in DOMAIN t /\ new(j) # n /\ t[new(j)] = s[j]
    OBVIOUS
  <2>1. new(j) \in DOMAIN t /\ old(new(j)) = j /\ new(j) # n
    BY <1>2
  <2>. HIDE DEF new, old
  <2>. QED  BY <1>6, <2>1
<1>9. /\ \A x : x \in HeldIn(s) <=> \E j \in DOMAIN s : x \in s[j].deps
      /\ \A x : x \in HeldIn(t) <=> \E j \in DOMAIN t : x \in t[j].deps
  BY DEF HeldIn
<1>. HIDE DEF t, m, old, new
<1>10. ASSUME NEW x
       PROVE  x \in HeldIn(t) <=> x \in HeldIn(s)
  <2>1. ASSUME NEW j \in DOMAIN t, x \in t[j].deps
        PROVE  \E k \in DOMAIN s : x \in s[k].deps
    BY <2>1, <1>4, <1>5, <1>6
  <2>2. ASSUME NEW k \in DOMAIN s, x \in s[k].deps
        PROVE  \E j \in DOMAIN t : x \in t[j].deps
    BY <2>2, <1>4, <1>5, <1>8
  <2>. QED  BY <1>9, <2>1, <2>2
<1>11. HeldIn(t) = HeldIn(s)
  BY <1>10
<1>12. \A j \in DOMAIN t : j # n => t[j].deps \cap m.deps = {}
  BY <1>4, <1>5, <1>6 DEF HeldOnce
<1>13. HeldOnce(t)
  BY <1>5, <1>6, <1>7, <1>12 DEF HeldOnce
<1>14. WantedByHolders(t)
  <2>1. m.resp <=> m.deps # {}
    BY <1>4, <1>5 DEF WantedByHolders
  <2>. QED  BY <2>1, <1>5, <1>6 DEF WantedByHolders
<1>. QED  BY <1>11, <1>13, <1>14 DEF t

(* A mark changes nobody's wait. *)
LEMMA MarkHeld ==
  ASSUME NEW s \in Seq(RequestType), NEW i \in 1 .. Len(s), HeldOnce(s), WantedByHolders(s)
  PROVE  /\ HeldIn([s EXCEPT ![i].checked = TRUE]) = HeldIn(s)
         /\ HeldOnce([s EXCEPT ![i].checked = TRUE])
         /\ WantedByHolders([s EXCEPT ![i].checked = TRUE])
<1>. DEFINE t == [s EXCEPT ![i].checked = TRUE]
<1>1. DOMAIN s = 1 .. Len(s) /\ \A j \in 1 .. Len(s) : s[j] \in RequestType
  BY LenProperties, ElementOfSeq
<1>2. DOMAIN t = DOMAIN s
  OBVIOUS
<1>3. \A j \in DOMAIN s : t[j].deps = s[j].deps /\ t[j].resp = s[j].resp
  BY <1>1 DEF RequestType
<1>4. /\ \A x : x \in HeldIn(s) <=> \E j \in DOMAIN s : x \in s[j].deps
      /\ \A x : x \in HeldIn(t) <=> \E j \in DOMAIN t : x \in t[j].deps
  BY DEF HeldIn
<1>. HIDE DEF t
<1>5. \A x : x \in HeldIn(t) <=> x \in HeldIn(s)
  BY <1>2, <1>3, <1>4
<1>6. HeldOnce(t) /\ WantedByHolders(t)
  BY <1>2, <1>3 DEF HeldOnce, WantedByHolders
<1>. QED  BY <1>5, <1>6 DEF t

-----------------------------------------------------------------------------
(* Every instruction waits in one place, through every action.             *)

(* The request e comes to the end of queue q. *)
LEMMA AddWaits ==
  ASSUME ChannelInv, NEW q \in QueueNames, NEW e \in RequestType,
         Replaces(ch, ch', q, Append(ch[q], e)), below' = below,
         e.resp <=> e.deps # {}, q = "WQ" => e.deps = {},
         e.deps \cap (HeldBy(below) \cup HeldIn(ch.returned)) = {},
         \A p \in QueueNames : e.deps \cap HeldIn(ch[p]) = {}
  PROVE  /\ WaitsOnce'
         /\ HeldIn(ch'[q]) = HeldIn(ch[q]) \cup e.deps
<1>1. /\ \A p \in QueueNames : ch[p] \in Seq(RequestType)
      /\ ch.returned \in Seq(ResponseType)
  BY QueuesOf DEF ChannelInv, CheckInv, ChannelTypeOK
<1>2. /\ \A p \in QueueNames : HeldOnce(ch[p]) /\ WantedByHolders(ch[p])
      /\ WaitsOnce
  BY DEF ChannelInv, WaitsOnce
<1>3. /\ HeldIn(Append(ch[q], e)) = HeldIn(ch[q]) \cup e.deps
      /\ HeldOnce(Append(ch[q], e))
      /\ WantedByHolders(Append(ch[q], e))
  BY <1>1, <1>2, AppendHeld, AppendWanted
<1>4. /\ ch'[q] = Append(ch[q], e)
      /\ \A p \in QueueNames : p # q => ch'[p] = ch[p]
      /\ ch'.returned = ch.returned
  BY DEF Replaces
<1>5. HeldIn(ch'[q]) = HeldIn(ch[q]) \cup e.deps
  BY <1>3, <1>4
<1>6. HeldIn(ch'.WQ) = {}
  BY <1>2, <1>4, <1>5 DEF WaitsOnce, QueueNames
<1>7. \A p \in QueueNames : HeldOnce(ch'[p]) /\ WantedByHolders(ch'[p])
  BY <1>2, <1>3, <1>4
<1>8. \A p, r \in QueueNames : p # r => HeldIn(ch'[p]) \cap HeldIn(ch'[r]) = {}
  BY ZenonT(40), <1>2, <1>4, <1>5 DEF WaitsOnce
<1>9. \A p \in QueueNames : HeldIn(ch'[p]) \cap (HeldBy(below) \cup HeldIn(ch.returned)) = {}
  BY <1>2, <1>4, <1>5 DEF WaitsOnce
<1>10. WaitsOnce'
  BY <1>2, <1>4, <1>6, <1>7, <1>8, <1>9 DEF WaitsOnce
<1>. QED  BY <1>5, <1>10

(* A request leaves queue q for the level below, or for the responses.     *)
LEMMA LeaveWaits ==
  ASSUME ChannelInv, NEW q \in QueueNames, NEW n \in 1 .. Len(ch[q]),
         ch'[q] = Drop(ch[q], n), \A p \in QueueNames : p # q => ch'[p] = ch[p]
  PROVE  LET r == ch[q][n]
         IN  /\ r \in RequestType
             /\ r.resp <=> r.deps # {}
             /\ q = "WQ" => r.deps = {}
             /\ r.deps \subseteq HeldIn(ch[q])
             /\ r.deps \cap (HeldBy(below) \cup HeldIn(ch.returned)) = {}
             /\ HeldIn(ch'[q]) = HeldIn(ch[q]) \ r.deps
             /\ \A p \in QueueNames : HeldOnce(ch'[p]) /\ WantedByHolders(ch'[p])
             /\ HeldIn(ch'.WQ) = {}
             /\ \A p \in QueueNames : /\ HeldIn(ch'[p]) \subseteq HeldIn(ch[p])
                                       /\ HeldIn(ch'[p]) \cap r.deps = {}
             /\ \A o, p \in QueueNames : o # p => HeldIn(ch'[o]) \cap HeldIn(ch'[p]) = {}
<1>. DEFINE r == ch[q][n]
<1>1. /\ \A p \in QueueNames : ch[p] \in Seq(RequestType)
      /\ ch.returned \in Seq(ResponseType)
  BY QueuesOf DEF ChannelInv, CheckInv, ChannelTypeOK
<1>2. /\ \A p \in QueueNames : HeldOnce(ch[p]) /\ WantedByHolders(ch[p])
      /\ WaitsOnce
  BY DEF ChannelInv, WaitsOnce
<1>3. r \in RequestType /\ n \in DOMAIN ch[q]
  BY <1>1, ElementOfSeq, LenProperties
<1>4. r.resp <=> r.deps # {}
  BY <1>2, <1>3 DEF WantedByHolders
<1>5. /\ HeldIn(ch'[q]) = HeldIn(ch[q]) \ r.deps
      /\ HeldOnce(ch'[q])
      /\ r.deps \subseteq HeldIn(ch[q])
      /\ WantedByHolders(ch'[q])
  BY <1>1, <1>2, DropHeld, DropWanted
<1>. HIDE DEF r
<1>6. q = "WQ" => r.deps = {}
  BY <1>2, <1>5 DEF WaitsOnce
<1>7. r.deps \cap (HeldBy(below) \cup HeldIn(ch.returned)) = {}
  BY <1>2, <1>5 DEF WaitsOnce
<1>8. \A p \in QueueNames : HeldIn(ch'[p]) \subseteq HeldIn(ch[p])
  BY <1>5
<1>9. \A p \in QueueNames : p # q => HeldIn(ch[p]) \cap HeldIn(ch[q]) = {}
  BY <1>2 DEF WaitsOnce
<1>10. \A p \in QueueNames : HeldIn(ch'[p]) \cap r.deps = {}
  BY <1>5, <1>9
<1>11. HeldIn(ch'.WQ) = {}
  BY <1>2, <1>8 DEF WaitsOnce, QueueNames
<1>12. \A o, p \in QueueNames : o # p => HeldIn(ch'[o]) \cap HeldIn(ch'[p]) = {}
  <2>1. \A o, p \in QueueNames : o # p => HeldIn(ch[o]) \cap HeldIn(ch[p]) = {}
    BY <1>2 DEF WaitsOnce
  <2>. QED  BY ONLY <1>8, <2>1
<1>13. \A p \in QueueNames : HeldOnce(ch'[p]) /\ WantedByHolders(ch'[p])
  BY <1>2, <1>5
<1>. QED  BY <1>3, <1>4, <1>5, <1>6, <1>7, <1>8, <1>10, <1>11, <1>12, <1>13 DEF r

LEMMA TakeWaits ==
  ASSUME ChannelInv, NEW q \in QueueNames, Take(q)
  PROVE  /\ WaitsOnce'
         /\ HeldIn(ch'.RQ) \cup HeldIn(ch'.PQ) \cup HeldBy(below') =
              HeldIn(ch.RQ) \cup HeldIn(ch.PQ) \cup HeldBy(below)
         /\ HeldIn(ch'.returned) = HeldIn(ch.returned)
<1>. DEFINE r == ch[q][1]
<1>1. /\ 1 \in 1 .. Len(ch[q])
      /\ Head(ch[q]) = r
      /\ Replaces(ch, ch', q, Drop(ch[q], 1))
  BY TakeKept DEF ChannelInv
<1>2. /\ ch'[q] = Drop(ch[q], 1)
      /\ \A p \in QueueNames : p # q => ch'[p] = ch[p]
      /\ ch'.returned = ch.returned
  BY <1>1 DEF Replaces
<1>3. /\ r \in RequestType
      /\ r.resp <=> r.deps # {}
      /\ q = "WQ" => r.deps = {}
      /\ r.deps \subseteq HeldIn(ch[q])
      /\ r.deps \cap (HeldBy(below) \cup HeldIn(ch.returned)) = {}
      /\ HeldIn(ch'[q]) = HeldIn(ch[q]) \ r.deps
      /\ \A p \in QueueNames : HeldOnce(ch'[p]) /\ WantedByHolders(ch'[p])
      /\ HeldIn(ch'.WQ) = {}
      /\ \A p \in QueueNames : /\ HeldIn(ch'[p]) \subseteq HeldIn(ch[p])
                                /\ HeldIn(ch'[p]) \cap r.deps = {}
      /\ \A o, p \in QueueNames : o # p => HeldIn(ch'[o]) \cap HeldIn(ch'[p]) = {}
  BY <1>1, <1>2, LeaveWaits
<1>4. below' = IF r.resp THEN below \cup {r} ELSE below
  BY <1>1 DEF Take
<1>. HIDE DEF r
<1>5. HeldBy(below') = HeldBy(below) \cup r.deps
  <2>1. CASE r.resp
    <3>1. \A x : x \in HeldBy(below \cup {r}) <=> x \in HeldBy(below) \/ x \in r.deps
      BY DEF HeldBy
    <3>. QED  BY <1>4, <2>1, <3>1
  <2>2. CASE ~r.resp
    BY <1>3, <1>4, <2>2
  <2>. QED  BY <2>1, <2>2
<1>6. WaitsOnce
  BY DEF ChannelInv
<1>7. \A s \in below : s.deps \subseteq HeldBy(below)
  BY DEF HeldBy
<1>8. \A s \in below' : s.resp /\ s.deps # {}
  BY <1>3, <1>4, <1>6 DEF WaitsOnce
<1>9. \A s, t \in below' : s # t => s.deps \cap t.deps = {}
  BY <1>3, <1>4, <1>6, <1>7 DEF WaitsOnce
<1>10. \A p \in QueueNames :
         HeldIn(ch'[p]) \cap (HeldBy(below') \cup HeldIn(ch'.returned)) = {}
  BY <1>2, <1>3, <1>5, <1>6 DEF WaitsOnce
<1>11. HeldBy(below') \cap HeldIn(ch'.returned) = {}
  BY <1>2, <1>3, <1>5, <1>6 DEF WaitsOnce
<1>12. WaitsOnce'
  BY <1>2, <1>3, <1>6, <1>8, <1>9, <1>10, <1>11 DEF WaitsOnce
<1>13. HeldIn(ch'.RQ) \cup HeldIn(ch'.PQ) \cup HeldBy(below') =
         HeldIn(ch.RQ) \cup HeldIn(ch.PQ) \cup HeldBy(below)
  <2>1. \A p \in QueueNames : p # q => HeldIn(ch'[p]) = HeldIn(ch[p])
    BY <1>2
  <2>. QED  BY <1>3, <1>5, <2>1 DEF QueueNames
<1>. QED  BY <1>2, <1>12, <1>13

LEMMA RoundWaits ==
  ASSUME OneKind, ChannelInv, CheckOne
  PROVE  /\ WaitsOnce'
         /\ \/ /\ HeldIn(ch'.RQ) \cup HeldIn(ch'.PQ) = HeldIn(ch.RQ) \cup HeldIn(ch.PQ)
               /\ HeldIn(ch'.returned) = HeldIn(ch.returned)
            \/ \E ids \in SUBSET (HeldIn(ch.RQ) \cup HeldIn(ch.PQ)) :
                 /\ ids # {}
                 /\ ids \cap HeldBy(below) = {}
                 /\ HeldIn(ch'.RQ) \cup HeldIn(ch'.PQ) = (HeldIn(ch.RQ) \cup HeldIn(ch.PQ)) \ ids
                 /\ HeldIn(ch'.returned) = HeldIn(ch.returned) \cup ids
<1>1. /\ ch \in ChannelType
      /\ \A p \in QueueNames : ch[p] \in Seq(RequestType) /\ KeptQueue(p, ch[p])
      /\ ch.returned \in Seq(ResponseType)
      /\ WaitsOnce
  BY QueuesOf DEF ChannelInv, CheckInv, ChannelTypeOK
<1>2. ~AllChecked(ch) /\ ch' = CheckStep(ch) /\ below' = below
  BY DEF CheckOne
<1>3. PICK q, i :
        /\ q \in QueueNames /\ i \in 1 .. Len(ch[q]) /\ Looks(ch, q, i)
        /\ Answers(ch, ch', q, i) \/ Merges(ch, ch', q, i) \/ Marks(ch, ch', q, i)
  BY <1>1, <1>2, RoundDoes
<1>4. CASE Answers(ch, ch', q, i)
  <2>. DEFINE r == ch[q][i]
  <2>1. /\ q # "WQ"
        /\ ch'[q] = Drop(ch[q], i)
        /\ \A p \in QueueNames : p # q => ch'[p] = ch[p]
        /\ ch'.returned = IF r.resp THEN Append(ch.returned, Response(r)) ELSE ch.returned
    BY <1>4 DEF Answers
  <2>2. /\ r \in RequestType
        /\ r.resp <=> r.deps # {}
        /\ r.deps \subseteq HeldIn(ch[q])
        /\ r.deps \cap (HeldBy(below) \cup HeldIn(ch.returned)) = {}
        /\ HeldIn(ch'[q]) = HeldIn(ch[q]) \ r.deps
        /\ \A p \in QueueNames : HeldOnce(ch'[p]) /\ WantedByHolders(ch'[p])
        /\ HeldIn(ch'.WQ) = {}
        /\ \A p \in QueueNames : /\ HeldIn(ch'[p]) \subseteq HeldIn(ch[p])
                                  /\ HeldIn(ch'[p]) \cap r.deps = {}
        /\ \A o, p \in QueueNames : o # p => HeldIn(ch'[o]) \cap HeldIn(ch'[p]) = {}
    BY <1>3, <2>1, LeaveWaits
  <2>. HIDE DEF r
  <2>3. Response(r) \in ResponseType /\ Response(r).deps = r.deps
    BY <2>2, RequestIs
  <2>4. /\ HeldIn(ch'.returned) = HeldIn(ch.returned) \cup r.deps
        /\ HeldOnce(ch'.returned)
        /\ \A j \in DOMAIN ch'.returned : ch'.returned[j].deps # {}
    <3>1. CASE r.resp
      <4>. DEFINE t == Append(ch.returned, Response(r))
      <4>1. ch'.returned = t
        BY <2>1, <3>1
      <4>2. HeldOnce(ch.returned) /\ Response(r).deps \cap HeldIn(ch.returned) = {}
        BY <1>1, <2>2, <2>3 DEF WaitsOnce
      <4>3. HeldIn(t) = HeldIn(ch.returned) \cup r.deps /\ HeldOnce(t)
        BY <1>1, <2>3, <4>2, AppendHeld
      <4>4. \A j \in DOMAIN t : t[j].deps # {}
        <5>1. /\ t \in Seq(ResponseType)
              /\ Len(t) = Len(ch.returned) + 1
              /\ \A j \in 1 .. Len(ch.returned) : t[j] = ch.returned[j]
              /\ t[Len(ch.returned) + 1] = Response(r)
          BY <1>1, <2>3, AppendProperties
        <5>. HIDE DEF t
        <5>2. /\ DOMAIN t = 1 .. Len(ch.returned) + 1 /\ Len(ch.returned) \in Nat
              /\ DOMAIN ch.returned = 1 .. Len(ch.returned)
          BY <1>1, <5>1, LenProperties
        <5>3. \A j \in 1 .. Len(ch.returned) : t[j].deps # {}
          BY <1>1, <5>1, <5>2 DEF WaitsOnce
        <5>4. t[Len(ch.returned) + 1].deps # {}
          BY <5>1, <2>2, <2>3, <3>1
        <5>. QED  BY <5>2, <5>3, <5>4
      <4>. QED  BY <4>1, <4>3, <4>4
    <3>2. CASE ~r.resp
      BY <1>1, <2>1, <2>2, <3>2 DEF WaitsOnce
    <3>. QED  BY <3>1, <3>2
  <2>5. \A p \in QueueNames :
          HeldIn(ch'[p]) \cap (HeldBy(below') \cup HeldIn(ch'.returned)) = {}
    BY <1>1, <1>2, <2>2, <2>4 DEF WaitsOnce
  <2>6. HeldBy(below') \cap HeldIn(ch'.returned) = {}
    BY <1>1, <1>2, <2>2, <2>4 DEF WaitsOnce
  <2>7. WaitsOnce'
    BY <1>1, <1>2, <2>2, <2>4, <2>5, <2>6 DEF WaitsOnce
  <2>8. \A p \in QueueNames : p # q => HeldIn(ch'[p]) = HeldIn(ch[p])
    BY <2>1
  <2>9. \A p \in QueueNames : p # q => HeldIn(ch[p]) \cap r.deps = {}
    BY <2>2, <2>8
  <2>10. /\ r.deps \subseteq HeldIn(ch.RQ) \cup HeldIn(ch.PQ)
         /\ HeldIn(ch'.RQ) \cup HeldIn(ch'.PQ) = (HeldIn(ch.RQ) \cup HeldIn(ch.PQ)) \ r.deps
    BY <1>3, <2>1, <2>2, <2>8, <2>9 DEF QueueNames
  <2>11. r.deps \cap HeldBy(below) = {}
    BY <2>2
  <2>. QED  BY <2>4, <2>7, <2>10, <2>11
<1>5. CASE Merges(ch, ch', q, i) \/ Marks(ch, ch', q, i)
  <2>1. /\ \A p \in QueueNames : p # q => ch'[p] = ch[p]
        /\ ch'.returned = ch.returned
    BY <1>5 DEF Merges, Marks
  <2>2. HeldOnce(ch[q]) /\ WantedByHolders(ch[q]) /\ KeptQueue(q, ch[q]) /\ ch[q] \in Seq(RequestType)
    BY <1>1, <1>3 DEF WaitsOnce
  <2>3. /\ HeldIn(ch'[q]) = HeldIn(ch[q])
        /\ HeldOnce(ch'[q])
        /\ WantedByHolders(ch'[q])
    <3>1. CASE Merges(ch, ch', q, i)
      BY <1>3, <2>2, <3>1, JoinHeld DEF Merges
    <3>2. CASE Marks(ch, ch', q, i)
      BY <1>3, <2>2, <3>2, MarkHeld DEF Marks
    <3>. QED  BY <1>5, <3>1, <3>2
  <2>4. \A p \in QueueNames : /\ HeldIn(ch'[p]) = HeldIn(ch[p])
                              /\ HeldOnce(ch'[p]) /\ WantedByHolders(ch'[p])
    BY <1>1, <2>1, <2>3 DEF WaitsOnce
  <2>5. HeldIn(ch'.WQ) = HeldIn(ch.WQ) /\ HeldIn(ch'.RQ) = HeldIn(ch.RQ) /\ HeldIn(ch'.PQ) = HeldIn(ch.PQ)
    BY <2>4 DEF QueueNames
  <2>6. WaitsOnce'
    BY <1>1, <1>2, <2>1, <2>4, <2>5 DEF WaitsOnce
  <2>. QED  BY <2>1, <2>5, <2>6
<1>. QED  BY <1>3, <1>4, <1>5

(* Responses are collected in the order they came, and added at the end.    *)
LEMMA CollectWaits ==
  ASSUME ChannelInv, Collect
  PROVE  /\ WaitsOnce'
         /\ \A q \in QueueNames : ch'[q] = ch[q]
         /\ \E ids \in SUBSET HeldIn(ch.returned) :
              ids # {} /\ HeldIn(ch'.returned) = HeldIn(ch.returned) \ ids
<1>1. /\ \A q \in QueueNames : ch'[q] = ch[q]
      /\ 1 \in 1 .. Len(ch.returned)
      /\ ch'.returned = Drop(ch.returned, 1)
  BY CollectKept DEF ChannelInv
<1>2. WaitsOnce /\ ch.returned \in Seq(ResponseType) /\ below' = below
  BY QueuesOf DEF ChannelInv, CheckInv, ChannelTypeOK, Collect
<1>3. /\ HeldIn(ch'.returned) = HeldIn(ch.returned) \ ch.returned[1].deps
      /\ HeldOnce(ch'.returned)
      /\ ch.returned[1].deps \subseteq HeldIn(ch.returned)
      /\ \A j \in DOMAIN ch'.returned : \E k \in DOMAIN ch.returned : ch'.returned[j] = ch.returned[k]
  BY <1>1, <1>2, DropHeld DEF WaitsOnce
<1>4. ch.returned[1].deps # {} /\ \A j \in DOMAIN ch'.returned : ch'.returned[j].deps # {}
  BY <1>1, <1>2, <1>3, LenProperties DEF WaitsOnce
<1>5. ch'.WQ = ch.WQ
  BY <1>1 DEF QueueNames
<1>6. \A p \in QueueNames :
        HeldIn(ch'[p]) \cap (HeldBy(below') \cup HeldIn(ch'.returned)) = {}
  BY <1>1, <1>2, <1>3 DEF WaitsOnce
<1>7. HeldBy(below') \cap HeldIn(ch'.returned) = {}
  BY <1>2, <1>3 DEF WaitsOnce
<1>8. HeldIn(ch'.WQ) = {} /\ \A q \in QueueNames : HeldOnce(ch'[q]) /\ WantedByHolders(ch'[q])
  BY <1>1, <1>2, <1>5 DEF WaitsOnce
<1>9. \A o, q \in QueueNames : o # q => HeldIn(ch'[o]) \cap HeldIn(ch'[q]) = {}
  BY <1>1, <1>2 DEF WaitsOnce
<1>10. WaitsOnce'
  BY <1>2, <1>3, <1>4, <1>6, <1>7, <1>8, <1>9 DEF WaitsOnce
<1>. QED  BY <1>1, <1>3, <1>4, <1>10

LEMMA AnswerWaits ==
  ASSUME ChannelInv, NEW r \in below, Answer(r)
  PROVE  /\ WaitsOnce'
         /\ \A q \in QueueNames : ch'[q] = ch[q]
         /\ r.deps # {} /\ r.deps \subseteq HeldBy(below)
         /\ \A q \in QueueNames : r.deps \cap HeldIn(ch[q]) = {}
         /\ HeldBy(below') = HeldBy(below) \ r.deps
         /\ HeldIn(ch'.returned) = HeldIn(ch.returned) \cup r.deps
<1>. DEFINE t == Append(ch.returned, Response(r))
<1>1. (\A q \in QueueNames : ch'[q] = ch[q]) /\ ch'.returned = t
  BY AnswerKept DEF ChannelInv
<1>2. /\ WaitsOnce /\ ch.returned \in Seq(ResponseType)
      /\ below' = below \ {r} /\ r \in RequestType
  BY QueuesOf DEF ChannelInv, CheckInv, ChannelTypeOK, Answer
<1>3. Response(r) \in ResponseType /\ Response(r).deps = r.deps
  BY <1>2, RequestIs
<1>4. r.deps # {} /\ \A s \in below : s # r => s.deps \cap r.deps = {}
  BY <1>2 DEF WaitsOnce
<1>5. r.deps \subseteq HeldBy(below)
  BY DEF HeldBy
<1>6. HeldBy(below') = HeldBy(below) \ r.deps
  <2>1. \A x : x \in HeldBy(below \ {r}) <=> \E s \in below : s # r /\ x \in s.deps
    BY DEF HeldBy
  <2>2. \A x : x \in HeldBy(below) <=> \E s \in below : x \in s.deps
    BY DEF HeldBy
  <2>3. \A x : x \in HeldBy(below \ {r}) <=> x \in HeldBy(below) \ r.deps
    BY <1>4, <2>1, <2>2
  <2>. QED  BY <1>2, <2>3
<1>7. /\ \A q \in QueueNames : r.deps \cap HeldIn(ch[q]) = {}
      /\ r.deps \cap HeldIn(ch.returned) = {}
  BY <1>2, <1>5 DEF WaitsOnce
<1>8. HeldIn(t) = HeldIn(ch.returned) \cup r.deps /\ HeldOnce(t)
  BY <1>2, <1>3, <1>7, AppendHeld DEF WaitsOnce
<1>9. \A j \in DOMAIN t : t[j].deps # {}
  <2>1. /\ t \in Seq(ResponseType)
        /\ Len(t) = Len(ch.returned) + 1
        /\ \A j \in 1 .. Len(ch.returned) : t[j] = ch.returned[j]
        /\ t[Len(ch.returned) + 1] = Response(r)
    BY <1>2, <1>3, AppendProperties
  <2>. HIDE DEF t
  <2>2. /\ DOMAIN t = 1 .. Len(ch.returned) + 1 /\ Len(ch.returned) \in Nat
        /\ DOMAIN ch.returned = 1 .. Len(ch.returned)
    BY <1>2, <2>1, LenProperties
  <2>3. \A j \in 1 .. Len(ch.returned) : t[j].deps # {}
    BY <1>2, <2>1, <2>2 DEF WaitsOnce
  <2>4. t[Len(ch.returned) + 1].deps # {}
    BY <2>1, <1>3, <1>4
  <2>. QED  BY <2>2, <2>3, <2>4
<1>. HIDE DEF t
<1>10. ch'.WQ = ch.WQ
  BY <1>1 DEF QueueNames
<1>11. \A p \in QueueNames :
         HeldIn(ch'[p]) \cap (HeldBy(below') \cup HeldIn(ch'.returned)) = {}
  BY <1>1, <1>2, <1>6, <1>7, <1>8 DEF WaitsOnce
<1>12. HeldBy(below') \cap HeldIn(ch'.returned) = {}
  BY <1>1, <1>2, <1>6, <1>8 DEF WaitsOnce
<1>13. WaitsOnce'
  BY <1>1, <1>2, <1>8, <1>9, <1>10, <1>11, <1>12 DEF WaitsOnce
<1>. QED  BY <1>1, <1>4, <1>5, <1>6, <1>7, <1>8, <1>13

-----------------------------------------------------------------------------
(* The channel implements the service of MemService.                       *)

(* pending and answered, in terms of the places where instructions wait.   *)
LEMMA PendingIs ==
  ASSUME ChannelInv
  PROVE  /\ pending = HeldIn(ch.RQ) \cup HeldIn(ch.PQ) \cup HeldBy(below)
         /\ answered = HeldIn(ch.returned)
<1>1. /\ \A q \in QueueNames : ch[q] \in Seq(RequestType) /\ WantedByHolders(ch[q])
      /\ \A r \in below : r.resp
  BY QueuesOf DEF ChannelInv, CheckInv, ChannelTypeOK, WaitsOnce
<1>2. Waiting(ToSet(ch.RQ)) = HeldIn(ch.RQ) /\ Waiting(ToSet(ch.PQ)) = HeldIn(ch.PQ)
  BY <1>1, WaitingIs DEF QueueNames
<1>3. Waiting(below) = HeldBy(below)
  BY <1>1, WaitingBelowIs
<1>. QED  BY <1>2, <1>3, AnsweredIs DEF pending, answered

LEMMA PendingNext ==
  ASSUME ChannelInv'
  PROVE  /\ pending' = HeldIn(ch'.RQ) \cup HeldIn(ch'.PQ) \cup HeldBy(below')
         /\ answered' = HeldIn(ch'.returned)
<1>1. /\ \A q \in QueueNames : ch'[q] \in Seq(RequestType) /\ WantedByHolders(ch'[q])
      /\ \A r \in below' : r.resp
  BY QueuesOf DEF ChannelInv, CheckInv, ChannelTypeOK, WaitsOnce
<1>2. Waiting(ToSet(ch'.RQ)) = HeldIn(ch'.RQ) /\ Waiting(ToSet(ch'.PQ)) = HeldIn(ch'.PQ)
  BY <1>1, WaitingIs DEF QueueNames
<1>3. Waiting(below') = HeldBy(below')
  BY <1>1, WaitingBelowIs
<1>. QED  BY <1>2, <1>3, AnsweredIs DEF pending, answered

LEMMA ServedTypes ==
  ASSUME ChannelInv
  PROVE  pending \subseteq Ids /\ answered \subseteq Ids
<1>1. /\ \A q \in QueueNames : ch[q] \in Seq(RequestType)
      /\ ch.returned \in Seq(ResponseType) /\ below \subseteq RequestType
  BY QueuesOf DEF ChannelInv, CheckInv, ChannelTypeOK
<1>2. ASSUME NEW s \in Seq(RequestType)
      PROVE  HeldIn(s) \subseteq Ids
  BY ElementOfSeq, LenProperties, RequestIs DEF HeldIn
<1>3. HeldIn(ch.returned) \subseteq Ids
  <2>1. \A j \in DOMAIN ch.returned : ch.returned[j] \in ResponseType
    BY <1>1, ElementOfSeq, LenProperties
  <2>2. \A j \in DOMAIN ch.returned : ch.returned[j].deps \subseteq Ids
    BY <2>1 DEF ResponseType
  <2>. QED  BY <2>2 DEF HeldIn
<1>4. HeldBy(below) \subseteq Ids
  BY <1>1, RequestIs DEF HeldBy
<1>5. HeldIn(ch.RQ) \subseteq Ids /\ HeldIn(ch.PQ) \subseteq Ids
  BY <1>1, <1>2 DEF QueueNames
<1>. QED  BY <1>3, <1>4, <1>5, PendingIs

(* Every step of the channel keeps the invariant and is a step of the      *)
(* service, or none.                                                       *)
ServiceStep == [Service!Next]_(Service!vars)

LEMMA ServiceStutters ==
  ASSUME pending' = pending, answered' = answered
  PROVE  ServiceStep
BY DEF ServiceStep, Service!vars

LEMMA ServiceRequests ==
  ASSUME NEW i \in Ids, i \notin pending \cup answered,
         pending' = pending \cup {i}, answered' = answered
  PROVE  ServiceStep
BY DEF ServiceStep, Service!Next, Service!Request

LEMMA ServiceResponds ==
  ASSUME NEW ids \in SUBSET Ids, ids # {}, ids \subseteq pending,
         pending' = pending \ ids, answered' = answered \cup ids
  PROVE  ServiceStep
BY DEF ServiceStep, Service!Next, Service!Respond

LEMMA ServiceCollects ==
  ASSUME NEW ids \in SUBSET Ids, ids # {}, ids \subseteq answered,
         answered' = answered \ ids, pending' = pending
  PROVE  ServiceStep
BY DEF ServiceStep, Service!Next, Service!Collect

LEMMA QuietStep ==
  ASSUME ChannelInv, ch' = ch, below' = below
  PROVE  WaitsOnce' /\ ServiceStep
<1>1. WaitsOnce'
  BY DEF ChannelInv, WaitsOnce
<1>2. pending' = pending /\ answered' = answered
  BY DEF pending, answered
<1>. QED  BY <1>1, <1>2, ServiceStutters

LEMMA ServedNext ==
  ASSUME OneKind, ChannelInv, [ChannelNext]_channelVars
  PROVE  ChannelInv' /\ ServiceStep
<1>1. CheckInv /\ CheckInv' /\ WaitsOnce
  BY CheckInvNext DEF ChannelInv
<1>2. /\ pending = HeldIn(ch.RQ) \cup HeldIn(ch.PQ) \cup HeldBy(below)
      /\ answered = HeldIn(ch.returned)
      /\ pending \subseteq Ids /\ answered \subseteq Ids
  BY PendingIs, ServedTypes
<1>3. WaitsOnce' => /\ pending' = HeldIn(ch'.RQ) \cup HeldIn(ch'.PQ) \cup HeldBy(below')
                    /\ answered' = HeldIn(ch'.returned)
  BY <1>1, PendingNext DEF ChannelInv
<1>. SUFFICES WaitsOnce' /\ ServiceStep
  BY <1>1 DEF ChannelInv
<1>4. ASSUME NEW q \in QueueNames, NEW a \in Addr, NEW t \in Translations, NEW w \in BOOLEAN,
             NEW ids \in SUBSET Ids, w <=> ids # {}, q = "WQ" => ids = {},
             ids \cap (pending \cup answered) = {},
             turn = "upper", HasRoom(ch, q),
             ch' = Added(ch, q, Packet(a, t, w, ids)), turn' = turn, below' = below
      PROVE  /\ WaitsOnce'
             /\ pending' = pending \cup ids
             /\ answered' = answered
  <2>. DEFINE e == Packet(a, t, w, ids)
  <2>1. Replaces(ch, ch', q, Append(ch[q], e))
    BY <1>1, <1>4, AddKept
  <2>2. e \in RequestType /\ e.deps = ids /\ (e.resp <=> w)
    BY PacketIs DEF Packet, OneKind
  <2>. HIDE DEF e
  <2>3. ids \cap (HeldBy(below) \cup HeldIn(ch.returned)) = {}
    BY <1>2, <1>4
  <2>4. \A p \in QueueNames : ids \cap HeldIn(ch[p]) = {}
    BY <1>1, <1>2, <1>4 DEF QueueNames, WaitsOnce
  <2>5. e.resp <=> e.deps # {}
    BY <1>4, <2>2
  <2>6. e.deps \cap (HeldBy(below) \cup HeldIn(ch.returned)) = {}
    BY <2>2, <2>3
  <2>7. WaitsOnce' /\ HeldIn(ch'[q]) = HeldIn(ch[q]) \cup ids
    BY <1>4, <2>1, <2>2, <2>4, <2>5, <2>6, AddWaits
  <2>8. ch'.returned = ch.returned /\ \A p \in QueueNames : p # q => ch'[p] = ch[p]
    BY <2>1 DEF Replaces
  <2>9. HeldIn(ch'.RQ) \cup HeldIn(ch'.PQ) = HeldIn(ch.RQ) \cup HeldIn(ch.PQ) \cup ids
    BY <1>4, <2>7, <2>8 DEF QueueNames
  <2>. QED  BY <1>2, <1>3, <1>4, <2>7, <2>8, <2>9
<1>5. ASSUME NEW q \in {"RQ", "PQ"}, NEW a \in Addr, NEW t \in Translations, NEW i \in Idle,
             AddRead(q, a, t, i)
      PROVE  WaitsOnce' /\ ServiceStep
  <2>1. q \in QueueNames /\ q # "WQ" /\ i \in Ids /\ i \notin pending \cup answered
    BY DEF QueueNames, Idle
  <2>2. /\ {i} \in SUBSET Ids /\ {i} # {} /\ TRUE \in BOOLEAN
        /\ {i} \cap (pending \cup answered) = {}
    BY <2>1
  <2>3. /\ turn = "upper" /\ HasRoom(ch, q) /\ turn' = turn /\ below' = below
        /\ ch' = Added(ch, q, Packet(a, t, TRUE, {i}))
    BY <1>5 DEF AddRead
  <2>4. WaitsOnce' /\ pending' = pending \cup {i} /\ answered' = answered
    BY <1>4, <2>1, <2>2, <2>3
  <2>. QED  BY <2>1, <2>4, ServiceRequests
<1>6. ASSUME NEW q \in QueueNames, NEW a \in Addr, NEW t \in Translations,
             turn = "upper", HasRoom(ch, q), turn' = turn, below' = below,
             ch' = Added(ch, q, Packet(a, t, FALSE, {}))
      PROVE  WaitsOnce' /\ ServiceStep
  <2>1. /\ {} \in SUBSET Ids /\ FALSE \in BOOLEAN /\ (FALSE <=> {} # {})
        /\ {} \cap (pending \cup answered) = {}
    OBVIOUS
  <2>2. WaitsOnce' /\ pending' = pending \cup {} /\ answered' = answered
    BY <1>4, <1>6, <2>1
  <2>. QED  BY <2>2, ServiceStutters
<1>7. ASSUME NEW q \in {"RQ", "PQ"}, NEW a \in Addr, NEW t \in Translations, AddPrefetch(q, a, t)
      PROVE  WaitsOnce' /\ ServiceStep
  BY <1>6, <1>7 DEF AddPrefetch, QueueNames
<1>8. ASSUME NEW a \in Addr, NEW t \in Translations, AddWrite(a, t)
      PROVE  WaitsOnce' /\ ServiceStep
  BY <1>6, <1>8 DEF AddWrite, QueueNames
<1>9. CASE Collect
  <2>1. PICK ids \in SUBSET HeldIn(ch.returned) :
          /\ WaitsOnce'
          /\ \A q \in QueueNames : ch'[q] = ch[q]
          /\ ids # {} /\ HeldIn(ch'.returned) = HeldIn(ch.returned) \ ids
    BY <1>9, CollectWaits
  <2>2. ch'.RQ = ch.RQ /\ ch'.PQ = ch.PQ /\ below' = below
    BY <1>9, <2>1 DEF QueueNames, Collect
  <2>3. /\ pending' = pending /\ answered' = answered \ ids
        /\ ids \subseteq answered /\ ids \in SUBSET Ids
    BY <1>2, <1>3, <2>1, <2>2
  <2>. QED  BY <2>1, <2>3, ServiceCollects
<1>10. CASE CheckOne
  <2>1. WaitsOnce' /\ below' = below
    BY <1>10, RoundWaits DEF CheckOne
  <2>2. CASE /\ HeldIn(ch'.RQ) \cup HeldIn(ch'.PQ) = HeldIn(ch.RQ) \cup HeldIn(ch.PQ)
             /\ HeldIn(ch'.returned) = HeldIn(ch.returned)
    <3>1. pending' = pending /\ answered' = answered
      BY <1>2, <1>3, <2>1, <2>2
    <3>. QED  BY <2>1, <3>1, ServiceStutters
  <2>3. ASSUME NEW ids \in SUBSET (HeldIn(ch.RQ) \cup HeldIn(ch.PQ)), ids # {},
               ids \cap HeldBy(below) = {},
               HeldIn(ch'.RQ) \cup HeldIn(ch'.PQ) = (HeldIn(ch.RQ) \cup HeldIn(ch.PQ)) \ ids,
               HeldIn(ch'.returned) = HeldIn(ch.returned) \cup ids
        PROVE  ServiceStep
    <3>1. /\ pending' = pending \ ids /\ answered' = answered \cup ids
          /\ ids \subseteq pending /\ ids \in SUBSET Ids
      BY <1>2, <1>3, <2>1, <2>3
    <3>. QED  BY <2>3, <3>1, ServiceResponds
  <2>. QED  BY <1>10, <2>1, <2>2, <2>3, RoundWaits
<1>11. ASSUME NEW q \in QueueNames, Take(q)
       PROVE  WaitsOnce' /\ ServiceStep
  <2>1. /\ WaitsOnce'
        /\ HeldIn(ch'.RQ) \cup HeldIn(ch'.PQ) \cup HeldBy(below') =
             HeldIn(ch.RQ) \cup HeldIn(ch.PQ) \cup HeldBy(below)
        /\ HeldIn(ch'.returned) = HeldIn(ch.returned)
    BY <1>11, TakeWaits
  <2>2. pending' = pending /\ answered' = answered
    BY <1>2, <1>3, <2>1
  <2>. QED  BY <2>1, <2>2, ServiceStutters
<1>12. ASSUME NEW r \in below, Answer(r)
       PROVE  WaitsOnce' /\ ServiceStep
  <2>1. /\ WaitsOnce'
        /\ \A q \in QueueNames : ch'[q] = ch[q]
        /\ r.deps # {} /\ r.deps \subseteq HeldBy(below)
        /\ \A q \in QueueNames : r.deps \cap HeldIn(ch[q]) = {}
        /\ HeldBy(below') = HeldBy(below) \ r.deps
        /\ HeldIn(ch'.returned) = HeldIn(ch.returned) \cup r.deps
    BY <1>12, AnswerWaits
  <2>2. /\ ch'.RQ = ch.RQ /\ ch'.PQ = ch.PQ
        /\ r.deps \cap HeldIn(ch.RQ) = {} /\ r.deps \cap HeldIn(ch.PQ) = {}
    BY <2>1 DEF QueueNames
  <2>3. /\ pending' = pending \ r.deps /\ answered' = answered \cup r.deps
        /\ r.deps \subseteq pending /\ r.deps \in SUBSET Ids
    BY <1>2, <1>3, <2>1, <2>2
  <2>. QED  BY <2>1, <2>3, ServiceResponds
<1>13. CASE StartCheck \/ EndCheck \/ EndCycle \/ UNCHANGED channelVars
  BY <1>13, QuietStep DEF StartCheck, EndCheck, EndCycle, channelVars
<1>. QED  BY <1>5, <1>7, <1>8, <1>9, <1>10, <1>11, <1>12, <1>13 DEF ChannelNext

LEMMA ChannelInvInit == ChannelInit => ChannelInv /\ Service!Init
<1>. SUFFICES ASSUME ChannelInit
              PROVE  ChannelInv /\ Service!Init
  OBVIOUS
<1>1. /\ \A q \in QueueNames : ch[q] = <<>>
      /\ ch.returned = <<>> /\ below = {}
  BY DEF ChannelInit, EmptyChannel, QueueNames
<1>2. HeldIn(<<>>) = {} /\ HeldOnce(<<>>) /\ WantedByHolders(<<>>) /\ HeldBy({}) = {}
  BY DEF HeldIn, HeldOnce, WantedByHolders, HeldBy
<1>3. ch.WQ = <<>>
  BY <1>1 DEF QueueNames
<1>4. WaitsOnce
  BY <1>1, <1>2, <1>3 DEF WaitsOnce
<1>5. ChannelInv
  BY <1>4, CheckInvInit DEF ChannelInv
<1>6. pending = {} /\ answered = {}
  BY <1>1, <1>2, <1>5, PendingIs DEF QueueNames
<1>. QED  BY <1>5, <1>6 DEF Service!Init

(* An instruction waits in one place at a time, and those who wait for a    *)
(* request are the reason it wants a response.                              *)
THEOREM ChannelInvHolds ==
  ASSUME OneKind
  PROVE  ChannelSpec => []ChannelInv
<1>1. ChannelInit => ChannelInv
  BY ChannelInvInit
<1>2. ChannelInv /\ [ChannelNext]_channelVars => ChannelInv'
  BY ServedNext
<1>. QED  BY <1>1, <1>2, PTL DEF ChannelSpec

(* The channel implements MemService: whatever is merged, forwarded from a  *)
(* write, taken or answered, no accepted request is lost, and no response   *)
(* goes to a request that was not made, or goes out twice.                  *)
THEOREM ChannelImplementsService ==
  ASSUME OneKind
  PROVE  ChannelSpec => ServiceSpec
<1>1. ChannelInit => ChannelInv /\ Service!Init
  BY ChannelInvInit
<1>2. ChannelInv /\ [ChannelNext]_channelVars => ChannelInv' /\ [Service!Next]_(Service!vars)
  BY ServedNext DEF ServiceStep
<1>. QED  BY <1>1, <1>2, PTL DEF ChannelSpec, ServiceSpec, Service!Spec

-----------------------------------------------------------------------------
(* Writes stay until they are taken, and are seen by the reads until then.  *)

LEMMA PlaceOfWrite ==
  ASSUME NEW x, NEW y
  PROVE  Same("write", x, y) <=> WriteKey(x) = WriteKey(y)
BY DEF Same, SameWrite, WriteKey

LEMMA WriteKeysAre ==
  ASSUME NEW s
  PROVE  \A k : k \in {WriteKey(r) : r \in ToSet(s)} <=> \E j \in DOMAIN s : k = WriteKey(s[j])
BY DEF ToSet

LEMMA WritesStay ==
  ASSUME OneKind, CheckInv, [ChannelNext]_channelVars, turn # "lower"
  PROVE  WriteKeys \subseteq WriteKeys'
<1>1. /\ ch \in ChannelType
      /\ \A q \in QueueNames : ch[q] \in Seq(RequestType) /\ KeptQueue(q, ch[q])
      /\ "WQ" \in QueueNames
  BY QueuesOf DEF CheckInv, ChannelTypeOK, QueueNames
<1>2. /\ \A k : k \in WriteKeys <=> \E j \in DOMAIN ch.WQ : k = WriteKey(ch.WQ[j])
      /\ \A k : k \in WriteKeys' <=> \E j \in DOMAIN ch'.WQ : k = WriteKey(ch'.WQ[j])
  BY WriteKeysAre DEF WriteKeys
<1>3. CASE ch'.WQ = ch.WQ
  BY <1>2, <1>3
<1>4. ASSUME NEW e \in RequestType, ch'.WQ = Append(ch.WQ, e)
      PROVE  WriteKeys \subseteq WriteKeys'
  <2>. DEFINE s == ch.WQ
              t == Append(s, e)
  <2>1. /\ t \in Seq(RequestType)
        /\ Len(t) = Len(s) + 1
        /\ \A j \in 1 .. Len(s) : t[j] = s[j]
    BY <1>1, AppendProperties
  <2>. HIDE DEF t
  <2>2. DOMAIN s = 1 .. Len(s) /\ DOMAIN t = 1 .. Len(s) + 1 /\ Len(s) \in Nat
    BY <1>1, <2>1, LenProperties
  <2>3. \A j \in DOMAIN s : j \in DOMAIN t /\ t[j] = s[j]
    BY <2>1, <2>2
  <2>4. ch'.WQ = t
    BY <1>4 DEF t
  <2>. QED  BY <1>2, <2>3, <2>4
<1>5. ASSUME NEW q \in QueueNames, NEW a \in Addr, NEW t \in Translations, NEW w \in BOOLEAN,
             NEW ids \in SUBSET Ids, turn = "upper", HasRoom(ch, q),
             ch' = Added(ch, q, Packet(a, t, w, ids)), turn' = turn, below' = below
      PROVE  WriteKeys \subseteq WriteKeys'
  <2>1. Replaces(ch, ch', q, Append(ch[q], Packet(a, t, w, ids)))
    BY <1>5, AddKept
  <2>2. Packet(a, t, w, ids) \in RequestType
    BY PacketIs DEF OneKind
  <2>3. CASE q = "WQ"
    BY <1>4, <2>1, <2>2, <2>3 DEF Replaces
  <2>4. CASE q # "WQ"
    BY <1>1, <1>3, <2>1, <2>4 DEF Replaces
  <2>. QED  BY <2>3, <2>4
<1>6. ASSUME NEW q \in {"RQ", "PQ"}, NEW a \in Addr, NEW t \in Translations, NEW i \in Idle,
             AddRead(q, a, t, i)
      PROVE  WriteKeys \subseteq WriteKeys'
  <2>1. q \in QueueNames /\ {i} \in SUBSET Ids /\ TRUE \in BOOLEAN
    BY DEF QueueNames, Idle
  <2>. QED  BY <1>5, <1>6, <2>1 DEF AddRead
<1>7. ASSUME NEW q \in {"RQ", "PQ"}, NEW a \in Addr, NEW t \in Translations, AddPrefetch(q, a, t)
      PROVE  WriteKeys \subseteq WriteKeys'
  <2>1. q \in QueueNames /\ {} \in SUBSET Ids /\ FALSE \in BOOLEAN
    BY DEF QueueNames
  <2>. QED  BY <1>5, <1>7, <2>1 DEF AddPrefetch
<1>8. ASSUME NEW a \in Addr, NEW t \in Translations, AddWrite(a, t)
      PROVE  WriteKeys \subseteq WriteKeys'
  <2>1. {} \in SUBSET Ids /\ FALSE \in BOOLEAN
    OBVIOUS
  <2>. QED  BY <1>1, <1>5, <1>8, <2>1 DEF AddWrite
<1>9. CASE Collect
  BY <1>1, <1>3, <1>9, CollectKept
<1>10. CASE CheckOne
  <2>1. PICK q, i :
          /\ q \in QueueNames /\ i \in 1 .. Len(ch[q]) /\ Looks(ch, q, i)
          /\ Answers(ch, ch', q, i) \/ Merges(ch, ch', q, i) \/ Marks(ch, ch', q, i)
    BY <1>1, <1>10, RoundDoes DEF CheckOne
  <2>2. CASE q # "WQ"
    BY <1>1, <1>3, <2>1, <2>2 DEF Answers, Merges, Marks
  <2>3. CASE q = "WQ" /\ Merges(ch, ch', q, i)
    <3>. DEFINE s == ch.WQ
    <3>1. s \in Seq(RequestType) /\ KeptQueue("WQ", s) /\ i \in 1 .. Len(s) /\ DOMAIN s = 1 .. Len(s)
      BY <1>1, <2>1, <2>3, LenProperties
    <3>2. PICK n \in 1 .. i - 1 : Same("write", s[n], s[i]) /\ ch'.WQ = Joined(s, n, i)
      BY <2>3 DEF Merges, Shamt
    <3>. DEFINE t == Joined(s, n, i)
    <3>3. /\ n \in 1 .. Len(s)
          /\ Merged(s[n], s[i]) \in RequestType
          /\ t \in Seq(RequestType)
          /\ Len(t) = Len(s) - 1
          /\ \A j \in 1 .. Len(s) - 1 :
               t[j] = IF j = n THEN Merged(s[n], s[i]) ELSE IF j < i THEN s[j] ELSE s[j + 1]
      BY ZenonT(40), <1>1, <3>1, JoinedIs
    <3>. HIDE DEF t
    <3>4. DOMAIN t = 1 .. Len(s) - 1 /\ Len(s) \in Nat
      BY <3>1, <3>3, LenProperties
    <3>5. s[n] \in RequestType
      BY <3>1, <3>3, ElementOfSeq
    <3>6. WriteKey(Merged(s[n], s[i])) = WriteKey(s[n])
      BY <3>5 DEF Merged, RequestType, WriteKey
    <3>7. WriteKey(s[i]) = WriteKey(s[n])
      BY <3>2, PlaceOfWrite
    <3>8. n \in DOMAIN t /\ WriteKey(t[n]) = WriteKey(s[n])
      BY <3>1, <3>3, <3>4, <3>6
    <3>9. ASSUME NEW j \in DOMAIN s
          PROVE  \E k \in DOMAIN t : WriteKey(t[k]) = WriteKey(s[j])
      <4>1. CASE j = n \/ j = i
        BY <4>1, <3>7, <3>8
      <4>2. CASE j # n /\ j < i
        <5>1. j \in DOMAIN t /\ t[j] = s[j]
          BY <4>2, <3>1, <3>3, <3>4
        <5>. QED  BY <5>1
      <4>3. CASE i < j
        <5>1. j - 1 \in DOMAIN t /\ j - 1 # n /\ ~(j - 1 < i) /\ (j - 1) + 1 = j
          BY <4>3, <3>1, <3>3, <3>4
        <5>2. t[j - 1] = s[j]
          BY <5>1, <3>3, <3>4
        <5>. QED  BY <5>1, <5>2
      <4>4. j \in Int /\ i \in Int
        BY <3>1, <3>4
      <4>. QED  BY <4>1, <4>2, <4>3, <4>4
    <3>10. ch'.WQ = t
      BY <3>2 DEF t
    <3>. QED  BY <1>2, <3>9, <3>10
  <2>4. CASE q = "WQ" /\ Marks(ch, ch', q, i)
    <3>1. ch'.WQ = [ch.WQ EXCEPT ![i].checked = TRUE] /\ ch.WQ \in Seq(RequestType)
      BY <1>1, <2>4 DEF Marks
    <3>2. \A j \in DOMAIN ch.WQ : ch.WQ[j] \in RequestType
      BY <3>1, ElementOfSeq, LenProperties
    <3>3. DOMAIN ch'.WQ = DOMAIN ch.WQ /\ \A j \in DOMAIN ch.WQ : ch'.WQ[j].addr = ch.WQ[j].addr
      BY <3>1, <3>2 DEF RequestType
    <3>. QED  BY <1>2, <3>3 DEF WriteKey
  <2>. QED  BY <2>1, <2>2, <2>3, <2>4 DEF Answers
<1>11. CASE StartCheck \/ EndCheck \/ EndCycle \/ UNCHANGED channelVars
  BY <1>3, <1>11 DEF StartCheck, EndCheck, EndCycle, channelVars
<1>12. ASSUME NEW q \in QueueNames, Take(q)
       PROVE  FALSE
  BY <1>12 DEF Take
<1>13. ASSUME NEW r \in below, Answer(r)
       PROVE  FALSE
  BY <1>13 DEF Answer
<1>. QED  BY <1>6, <1>7, <1>8, <1>9, <1>10, <1>11, <1>12, <1>13 DEF ChannelNext

LEMMA DropKeepsOthers ==
  ASSUME NEW S, NEW s \in Seq(S), NEW n \in 1 .. Len(s), NEW k \in DOMAIN s, k # n
  PROVE  \E j \in DOMAIN Drop(s, n) : Drop(s, n)[j] = s[k]
<1>. DEFINE t == Drop(s, n)
<1>1. /\ t \in Seq(S)
      /\ Len(t) = Len(s) - 1
      /\ \A i \in 1 .. Len(s) - 1 : t[i] = IF i < n THEN s[i] ELSE s[i + 1]
  BY RemovedAt DEF Drop
<1>. HIDE DEF t
<1>2. Len(s) \in Nat /\ DOMAIN s = 1 .. Len(s) /\ DOMAIN t = 1 .. Len(s) - 1
  BY <1>1, LenProperties
<1>3. CASE k < n
  <2>1. k \in DOMAIN t /\ t[k] = s[k]
    BY <1>1, <1>2, <1>3
  <2>. QED  BY <2>1 DEF t
<1>4. CASE n < k
  <2>1. k - 1 \in DOMAIN t /\ ~(k - 1 < n) /\ (k - 1) + 1 = k
    BY <1>2, <1>4
  <2>2. t[k - 1] = s[k]
    BY <1>1, <1>2, <2>1
  <2>. QED  BY <2>1, <2>2 DEF t
<1>. QED  BY <1>2, <1>3, <1>4

LEMMA JoinKeepsOthers ==
  ASSUME NEW q \in QueueNames, NEW s \in Seq(RequestType), KeptQueue(q, s),
         NEW i \in 1 .. Len(s), NEW n \in 1 .. i - 1, NEW k \in DOMAIN s, k # n, k # i
  PROVE  \E j \in DOMAIN Joined(s, n, i) : Joined(s, n, i)[j] = s[k]
<1>. DEFINE t == Joined(s, n, i)
<1>1. /\ n \in 1 .. Len(s)
      /\ Merged(s[n], s[i]) \in RequestType
      /\ t \in Seq(RequestType)
      /\ Len(t) = Len(s) - 1
      /\ \A j \in 1 .. Len(s) - 1 :
           t[j] = IF j = n THEN Merged(s[n], s[i]) ELSE IF j < i THEN s[j] ELSE s[j + 1]
  BY JoinedIs
<1>. HIDE DEF t
<1>2. Len(s) \in Nat /\ DOMAIN s = 1 .. Len(s) /\ DOMAIN t = 1 .. Len(s) - 1
  BY <1>1, LenProperties
<1>3. CASE k < i
  <2>1. k \in DOMAIN t /\ t[k] = s[k]
    BY <1>1, <1>2, <1>3
  <2>. QED  BY <2>1 DEF t
<1>4. CASE i < k
  <2>1. k - 1 \in DOMAIN t /\ ~(k - 1 < i) /\ k - 1 # n /\ (k - 1) + 1 = k
    BY <1>2, <1>4
  <2>2. t[k - 1] = s[k]
    BY <1>1, <1>2, <2>1
  <2>. QED  BY <2>1, <2>2 DEF t
<1>. QED  BY <1>2, <1>3, <1>4

LEMMA ReadsMeetWrites ==
  ASSUME OneKind, ChannelInv, [ChannelNext]_channelVars, turn = "check",
         NEW q \in {"RQ", "PQ"}, NEW i \in DOMAIN ch[q],
         \E w \in ToSet(ch.WQ) : SameWrite(ch[q][i], w) /\ w.tr = ch[q][i].tr,
         ~ch[q][i].checked
  PROVE  \/ ch[q][i].deps \subseteq answered'
         \/ \E j \in DOMAIN ch'[q] : ch'[q][j] = ch[q][i]
<1>. DEFINE r == ch[q][i]
<1>1. /\ ch \in ChannelType
      /\ \A p \in QueueNames : ch[p] \in Seq(RequestType) /\ KeptQueue(p, ch[p])
      /\ \A p \in QueueNames : WantedByHolders(ch[p])
      /\ ch.returned \in Seq(ResponseType)
  BY QueuesOf DEF ChannelInv, CheckInv, ChannelTypeOK, WaitsOnce
<1>2. q \in QueueNames /\ q # "WQ" /\ DOMAIN ch[q] = 1 .. Len(ch[q]) /\ r \in RequestType
  BY <1>1, LenProperties, ElementOfSeq DEF QueueNames
<1>3. CASE ch'[q] = ch[q]
  BY <1>3
<1>4. CASE CheckOne
  <2>1. PICK p, n :
          /\ p \in QueueNames /\ n \in 1 .. Len(ch[p]) /\ Looks(ch, p, n)
          /\ \/ Answers(ch, ch', p, n)
             \/ Unseen(ch, p, n) /\ Merges(ch, ch', p, n)
             \/ Unseen(ch, p, n) /\ Marks(ch, ch', p, n)
    BY <1>1, <1>4, RoundDoes DEF CheckOne
  <2>2. CASE p # q
    BY <1>2, <1>3, <2>1, <2>2 DEF Answers, Merges, Marks
  <2>3. CASE p = q /\ n = i
    <3>1. ~Unseen(ch, q, i)
      <4>1. PICK w \in DOMAIN ch.WQ : SameWrite(r, ch.WQ[w])
        BY DEF ToSet
      <4>2. w \in 1 .. Len(ch.WQ) /\ Same("write", ch.WQ[w], r)
        BY <1>1, <4>1, LenProperties DEF Same, SameWrite, QueueNames
      <4>. QED  BY <1>2, <4>2 DEF Unseen
    <3>2. ch'.returned = IF r.resp THEN Append(ch.returned, Response(r)) ELSE ch.returned
      BY <2>1, <2>3, <3>1 DEF Answers
    <3>3. CASE r.resp
      <4>. DEFINE t == Append(ch.returned, Response(r))
      <4>1. Response(r) \in ResponseType /\ Response(r).deps = r.deps
        BY <1>2, RequestIs
      <4>2. /\ t \in Seq(ResponseType)
            /\ Len(t) = Len(ch.returned) + 1
            /\ t[Len(ch.returned) + 1] = Response(r)
        BY <1>1, <4>1, AppendProperties
      <4>. HIDE DEF t
      <4>3. Len(ch.returned) + 1 \in DOMAIN t
        BY <1>1, <4>2, LenProperties
      <4>4. r.deps \subseteq HeldIn(t)
        BY <4>1, <4>2, <4>3 DEF HeldIn
      <4>5. answered' = HeldIn(ch'.returned) /\ ch'.returned = t
        BY <3>2, <3>3, AnsweredIs DEF answered, t
      <4>. QED  BY <4>4, <4>5
    <3>4. CASE ~r.resp
      BY <1>1, <1>2, <3>4 DEF WantedByHolders
    <3>. QED  BY <3>3, <3>4
  <2>4. CASE p = q /\ n # i
    <3>1. CASE Answers(ch, ch', q, n)
      BY <1>1, <1>2, <2>1, <2>4, <3>1, DropKeepsOthers DEF Answers
    <3>2. CASE Merges(ch, ch', q, n)
      <4>1. PICK m \in 1 .. n - 1 : ch'[q] = Joined(ch[q], m, n)
        BY <3>2 DEF Merges
      <4>2. m \in 1 .. Len(ch[q]) /\ m < n
        BY <1>1, <1>2, <2>1, <2>4, LenProperties
      <4>3. ch[q][m].checked
        BY <1>1, <1>2, <2>1, <2>4, <4>2, FirstUncheckedFound, LenProperties DEF Looks
      <4>4. m # i
        BY <4>3
      <4>. QED  BY <1>1, <1>2, <2>1, <2>4, <4>1, <4>4, JoinKeepsOthers
    <3>3. CASE Marks(ch, ch', q, n)
      BY <1>2, <2>4, <3>3 DEF Marks
    <3>. QED  BY <2>1, <2>4, <3>1, <3>2, <3>3
  <2>. QED  BY <2>2, <2>3, <2>4
<1>5. CASE EndCheck \/ UNCHANGED channelVars
  BY <1>3, <1>5 DEF EndCheck, channelVars
<1>6. ~(turn = "upper" \/ turn = "lower")
  OBVIOUS
<1>. QED  BY <1>4, <1>5, <1>6 DEF ChannelNext, AddRead, AddPrefetch, AddWrite, Collect, StartCheck,
                                 Take, Answer, EndCycle

(* A write stays in its queue until the level below takes it, and until     *)
(* then every read or prefetch that comes to the same place is answered     *)
(* from it and goes no further (src/src/channel.cc:74).                     *)
THEOREM ChannelWritesSeen ==
  ASSUME OneKind
  PROVE  ChannelSpec => WritesSeen
<1>1. ChannelInit => ChannelInv
  BY ChannelInvInit
<1>2. ChannelInv /\ [ChannelNext]_channelVars => ChannelInv'
  BY ServedNext
<1>3. ChannelInv /\ [ChannelNext]_channelVars =>
        [turn # "lower" => WriteKeys \subseteq WriteKeys']_channelVars
  BY WritesStay DEF ChannelInv
<1>4. ChannelInv /\ [ChannelNext]_channelVars =>
        [turn = "check" =>
           \A q \in {"RQ", "PQ"} : \A i \in DOMAIN ch[q] :
              LET r == ch[q][i]
                  seen == \E w \in ToSet(ch.WQ) : SameWrite(r, w) /\ w.tr = r.tr
              IN  seen /\ ~r.checked
                    => \/ r.deps \subseteq answered'
                       \/ \E j \in DOMAIN ch'[q] : ch'[q][j] = r]_channelVars
  BY ReadsMeetWrites
<1>. QED  BY <1>1, <1>2, <1>3, <1>4, PTL DEF ChannelSpec, WritesSeen, WritesKept, ReadsSeeWrites

=============================================================================
