------------------------------ MODULE CacheProofs ------------------------------
(***************************************************************************)
(* What holds of a cache level of every size, for every set of addresses,  *)
(* of levels above and of requests: misses and their answers match, a      *)
(* block is kept and fetched once, requests that wait for a translation get *)
(* theirs, the cache implements the service of MemService, and what was    *)
(* written leaves it only by a writeback.                                  *)
(***************************************************************************)
EXTENDS Cache, SequenceTheorems, FiniteSetTheorems, WellFoundedInduction, TLAPS

-----------------------------------------------------------------------------
(* Numbers and sequences.                                                  *)

(* A set of numbers that is not empty has a least one. *)
LEMMA LeastNumber ==
  ASSUME NEW S, S \subseteq Nat, S # {}
  PROVE  Min(S) \in S /\ \A y \in S : Min(S) <= y
<1>. DEFINE R == OpToRel(<, Nat)
<1>1. \A x, y \in Nat : x < y => <<x, y>> \in R
  BY DEF OpToRel
<1>2. IsWellFoundedOn(R, Nat)
  BY NatLessThanWellFounded
<1>. HIDE DEF R
<1>3. PICK x \in S : \A y \in S : <<y, x>> \notin R
  BY <1>2, WFMin
<1>4. \A y \in S : ~(y < x)
  BY <1>1, <1>3
<1>5. \A y \in S : x <= y
  BY <1>4
<1>. QED  BY <1>5 DEF Min

LEMMA SeqParts ==
  ASSUME NEW S, NEW s \in Seq(S)
  PROVE  /\ Len(s) \in Nat /\ DOMAIN s = 1 .. Len(s)
         /\ \A i \in 1 .. Len(s) : s[i] \in S
         /\ s # <<>> => Len(s) # 0
BY LenProperties, ElementOfSeq, EmptySeq

LEMMA FunctionIsSeq ==
  ASSUME NEW S, NEW n \in Nat, NEW f \in [1 .. n -> S]
  PROVE  f \in Seq(S) /\ Len(f) = n
<1>1. f \in Seq(S)
  BY SeqDef
<1>. QED  BY <1>1, LenProperties

(* A sequence without its head. *)
LEMMA TailIs ==
  ASSUME NEW S, NEW s \in Seq(S), s # <<>>
  PROVE  /\ Head(s) = s[1] /\ Head(s) \in S /\ Len(s) \in Nat \ {0} /\ 1 \in 1 .. Len(s)
         /\ Tail(s) \in Seq(S) /\ Len(Tail(s)) = Len(s) - 1
         /\ \A i \in 1 .. Len(s) - 1 : i + 1 \in 1 .. Len(s) /\ Tail(s)[i] = s[i + 1]
<1>1. Len(s) \in Nat /\ Len(s) # 0
  BY LenProperties, EmptySeq
<1>2. /\ Head(s) = s[1] /\ Tail(s) \in Seq(S) /\ Len(Tail(s)) = Len(s) - 1
      /\ \A i \in 1 .. Len(Tail(s)) : Tail(s)[i] = s[i + 1]
  BY HeadTailProperties
<1>3. \A i \in 1 .. Len(s) - 1 : i + 1 \in 1 .. Len(s)
  BY <1>1
<1>4. s[1] \in S /\ 1 \in 1 .. Len(s)
  BY <1>1, ElementOfSeq
<1>. QED  BY <1>1, <1>2, <1>3, <1>4

LEMMA AppendIs ==
  ASSUME NEW S, NEW s \in Seq(S), NEW x \in S
  PROVE  /\ Append(s, x) \in Seq(S) /\ Len(Append(s, x)) = Len(s) + 1
         /\ \A i \in 1 .. Len(s) : Append(s, x)[i] = s[i]
         /\ Append(s, x)[Len(s) + 1] = x
BY AppendProperties

LEMMA SliceIs ==
  ASSUME NEW S, NEW s \in Seq(S), NEW m \in Nat, NEW n \in Nat, m <= n, n <= Len(s)
  PROVE  /\ SubSeq(s, m + 1, n) \in Seq(S)
         /\ Len(SubSeq(s, m + 1, n)) = n - m
         /\ \A i \in 1 .. n - m : SubSeq(s, m + 1, n)[i] = s[m + i]
<1>1. \A j \in m + 1 .. n : s[j] \in S
  BY SeqParts
<1>2. /\ SubSeq(s, m + 1, n) \in Seq(S)
      /\ Len(SubSeq(s, m + 1, n)) = IF m + 1 <= n THEN n - (m + 1) + 1 ELSE 0
      /\ \A j \in 1 .. n - (m + 1) + 1 : SubSeq(s, m + 1, n)[j] = s[(m + 1) + j - 1]
  BY <1>1, SubSeqProperties
<1>3. \A i \in 1 .. n - m : (m + 1) + i - 1 = m + i /\ n - (m + 1) + 1 = n - m
  OBVIOUS
<1>4. Len(SubSeq(s, m + 1, n)) = n - m
  BY <1>2
<1>5. \A i \in 1 .. n - m : SubSeq(s, m + 1, n)[i] = s[m + i]
  BY <1>2, <1>3
<1>. QED  BY <1>2, <1>4, <1>5

(* The first n elements of a sequence, and the others. *)
LEMMA SplitIs ==
  ASSUME NEW S, NEW s \in Seq(S), NEW n \in 0 .. Len(s)
  PROVE  /\ SubSeq(s, 1, n) \in Seq(S) /\ Len(SubSeq(s, 1, n)) = n
         /\ \A i \in 1 .. n : SubSeq(s, 1, n)[i] = s[i]
         /\ Rest(s, n) \in Seq(S) /\ Len(Rest(s, n)) = Len(s) - n
         /\ \A i \in 1 .. Len(s) - n : n + i \in 1 .. Len(s) /\ Rest(s, n)[i] = s[n + i]
<1>1. Len(s) \in Nat /\ n \in Nat /\ n <= Len(s)
  BY SeqParts
<1>2. /\ SubSeq(s, 0 + 1, n) \in Seq(S) /\ Len(SubSeq(s, 0 + 1, n)) = n - 0
      /\ \A i \in 1 .. n - 0 : SubSeq(s, 0 + 1, n)[i] = s[0 + i]
  BY <1>1, SliceIs
<1>3. 0 + 1 = 1 /\ n - 0 = n /\ \A i \in 1 .. n : 0 + i = i
  BY <1>1
<1>4. /\ SubSeq(s, n + 1, Len(s)) \in Seq(S) /\ Len(SubSeq(s, n + 1, Len(s))) = Len(s) - n
      /\ \A i \in 1 .. Len(s) - n : SubSeq(s, n + 1, Len(s))[i] = s[n + i]
  BY <1>1, SliceIs
<1>5. \A i \in 1 .. Len(s) - n : n + i \in 1 .. Len(s)
  BY <1>1
<1>6. /\ SubSeq(s, 1, n) \in Seq(S) /\ Len(SubSeq(s, 1, n)) = n
      /\ \A i \in 1 .. n : SubSeq(s, 1, n)[i] = s[i]
  BY <1>2, <1>3
<1>. QED  BY <1>4, <1>5, <1>6 DEF Rest

LEMMA JoinIs ==
  ASSUME NEW S, NEW s \in Seq(S), NEW t \in Seq(S)
  PROVE  /\ s \o t \in Seq(S) /\ Len(s \o t) = Len(s) + Len(t)
         /\ \A i \in 1 .. Len(s) : (s \o t)[i] = s[i]
         /\ \A i \in 1 .. Len(t) : (s \o t)[Len(s) + i] = t[i]
         /\ \A i \in 1 .. Len(s) + Len(t) : i > Len(s) => i - Len(s) \in 1 .. Len(t)
<1>1. /\ s \o t \in Seq(S) /\ Len(s \o t) = Len(s) + Len(t)
      /\ \A i \in 1 .. Len(s) + Len(t) :
           (s \o t)[i] = IF i <= Len(s) THEN s[i] ELSE t[i - Len(s)]
  BY ConcatProperties
<1>2. Len(s) \in Nat /\ Len(t) \in Nat
  BY SeqParts
<1>3. \A i \in 1 .. Len(s) : i \in 1 .. Len(s) + Len(t) /\ i <= Len(s)
  BY <1>2
<1>4. \A i \in 1 .. Len(t) :
        Len(s) + i \in 1 .. Len(s) + Len(t) /\ ~(Len(s) + i <= Len(s)) /\ (Len(s) + i) - Len(s) = i
  BY <1>2
<1>5. \A i \in 1 .. Len(s) + Len(t) : i > Len(s) => i - Len(s) \in 1 .. Len(t)
  BY <1>2
<1>6. \A i \in 1 .. Len(s) : (s \o t)[i] = s[i]
  BY <1>1, <1>3
<1>7. \A i \in 1 .. Len(t) : (s \o t)[Len(s) + i] = t[i]
  BY <1>1, <1>4
<1>. QED  BY <1>1, <1>5, <1>6, <1>7

LEMMA RemovedAt ==
  ASSUME NEW S, NEW s \in Seq(S), NEW i \in 1 .. Len(s)
  PROVE  /\ RemoveAt(s, i) \in Seq(S) /\ Len(RemoveAt(s, i)) = Len(s) - 1
         /\ \A j \in 1 .. Len(s) - 1 :
              /\ j < i => j \in 1 .. Len(s) /\ RemoveAt(s, i)[j] = s[j]
              /\ j >= i => j + 1 \in 1 .. Len(s) /\ RemoveAt(s, i)[j] = s[j + 1]
<1>1. Len(s) \in Nat /\ i - 1 \in Nat /\ 0 \in Nat /\ i \in 0 .. Len(s) /\ i - 1 \in 0 .. Len(s)
  BY SeqParts
<1>2. /\ SubSeq(s, 1, i - 1) \in Seq(S) /\ Len(SubSeq(s, 1, i - 1)) = i - 1
      /\ \A j \in 1 .. i - 1 : SubSeq(s, 1, i - 1)[j] = s[j]
  BY <1>1, SplitIs
<1>3. /\ SubSeq(s, i + 1, Len(s)) \in Seq(S) /\ Len(SubSeq(s, i + 1, Len(s))) = Len(s) - i
      /\ \A j \in 1 .. Len(s) - i : SubSeq(s, i + 1, Len(s))[j] = s[i + j]
  BY <1>1, SplitIs DEF Rest
<1>. DEFINE a == SubSeq(s, 1, i - 1)
            b == SubSeq(s, i + 1, Len(s))
<1>4. RemoveAt(s, i) = a \o b /\ a \in Seq(S) /\ b \in Seq(S)
  BY <1>2, <1>3 DEF RemoveAt
<1>. HIDE DEF a, b
<1>5. /\ a \o b \in Seq(S) /\ Len(a \o b) = Len(a) + Len(b)
      /\ \A j \in 1 .. Len(a) : (a \o b)[j] = a[j]
      /\ \A j \in 1 .. Len(b) : (a \o b)[Len(a) + j] = b[j]
  BY <1>4, JoinIs
<1>6. Len(a) = i - 1 /\ Len(b) = Len(s) - i
  BY <1>2, <1>3 DEF a, b
<1>7. Len(a \o b) = Len(s) - 1
  BY <1>1, <1>5, <1>6
<1>8. ASSUME NEW j \in 1 .. Len(s) - 1, j < i
      PROVE  j \in 1 .. Len(s) /\ (a \o b)[j] = s[j]
  <2>1. j \in 1 .. i - 1 /\ j \in 1 .. Len(s)
    BY <1>1, <1>8
  <2>. QED  BY <2>1, <1>2, <1>5, <1>6 DEF a
<1>9. ASSUME NEW j \in 1 .. Len(s) - 1, j >= i
      PROVE  j + 1 \in 1 .. Len(s) /\ (a \o b)[j] = s[j + 1]
  <2>. DEFINE k == j - (i - 1)
  <2>1. k \in 1 .. Len(s) - i /\ (i - 1) + k = j /\ i + k = j + 1 /\ j + 1 \in 1 .. Len(s)
    BY <1>1, <1>9
  <2>. HIDE DEF k
  <2>2. (a \o b)[(i - 1) + k] = b[k]
    BY <2>1, <1>5, <1>6
  <2>3. b[k] = s[i + k]
    BY <2>1, <1>3 DEF b
  <2>. QED  BY <2>1, <2>2, <2>3
<1>. QED  BY <1>4, <1>5, <1>7, <1>8, <1>9

-----------------------------------------------------------------------------
(* extract_if: what is taken from a sequence and in which order.           *)
Extraction(f, s, I, N) ==
  f = [n \in 0 .. N |->
         IF n = 0 THEN <<>> ELSE IF n \in I THEN Append(f[n - 1], s[n]) ELSE f[n - 1]]

(* t is what the first n elements of s have at the positions I. *)
Embeds(g, t, s, I, n) ==
  /\ g \in [1 .. Len(t) -> 1 .. n]
  /\ \A j \in 1 .. Len(t) : g[j] \in I /\ t[j] = s[g[j]]
  /\ \A j, k \in 1 .. Len(t) : j < k => g[j] < g[k]
  /\ \A i \in 1 .. n : i \in I => \E j \in 1 .. Len(t) : g[j] = i
Embedded(S, t, s, I, n) ==
  t \in Seq(S) /\ Len(t) <= n /\ \E g : Embeds(g, t, s, I, n)

LEMMA ExtractionStep ==
  ASSUME NEW S, NEW s \in Seq(S), NEW I, NEW n \in 1 .. Len(s), NEW t, Embedded(S, t, s, I, n - 1)
  PROVE  Embedded(S, IF n \in I THEN Append(t, s[n]) ELSE t, s, I, n)
<1>1. Len(s) \in Nat /\ n - 1 \in Nat /\ s[n] \in S /\ t \in Seq(S) /\ Len(t) \in Nat /\ Len(t) <= n - 1
  BY SeqParts DEF Embedded
<1>2. PICK g : Embeds(g, t, s, I, n - 1)
  BY DEF Embedded
<1>3. CASE n \notin I
  <2>1. 1 .. n - 1 \subseteq 1 .. n /\ \A i \in 1 .. n : i \in I => i \in 1 .. n - 1
    BY <1>3
  <2>2. Embeds(g, t, s, I, n)
    BY <1>2, <2>1 DEF Embeds
  <2>. QED  BY <1>1, <1>3, <2>2 DEF Embedded
<1>4. CASE n \in I
  <2>. DEFINE u == Append(t, s[n])
              h == [j \in 1 .. Len(t) + 1 |-> IF j = Len(t) + 1 THEN n ELSE g[j]]
  <2>1. /\ u \in Seq(S) /\ Len(u) = Len(t) + 1
        /\ \A j \in 1 .. Len(t) : u[j] = t[j]
        /\ u[Len(t) + 1] = s[n]
    BY <1>1, AppendIs
  <2>2. \A j \in 1 .. Len(t) + 1 :
           /\ j = Len(t) + 1 => h[j] = n
           /\ j # Len(t) + 1 => j \in 1 .. Len(t) /\ h[j] = g[j]
    BY <1>1
  <2>3. \A j \in 1 .. Len(t) : j \in 1 .. Len(t) + 1 /\ j # Len(t) + 1 /\ g[j] \in 1 .. n /\ g[j] < n
    BY <1>1, <1>2 DEF Embeds
  <2>4. Len(t) + 1 \in 1 .. Len(t) + 1 /\ n \in 1 .. n
    BY <1>1
  <2>5. h \in [1 .. Len(t) + 1 -> 1 .. n]
    BY <2>3, <2>4, <2>2
  <2>. HIDE DEF h, u
  <2>6. \A j \in 1 .. Len(t) + 1 : h[j] \in I /\ u[j] = s[h[j]]
    BY <1>2, <1>4, <2>1, <2>2 DEF Embeds
  <2>7. ASSUME NEW j \in 1 .. Len(t) + 1, NEW k \in 1 .. Len(t) + 1, j < k PROVE h[j] < h[k]
    <3>1. j # Len(t) + 1
      BY <1>1, <2>7
    <3>2. CASE k = Len(t) + 1
      BY <2>2, <2>3, <3>1, <3>2
    <3>3. CASE k # Len(t) + 1
      BY <1>2, <2>2, <2>7, <3>1, <3>3 DEF Embeds
    <3>. QED  BY <3>2, <3>3
  <2>8. ASSUME NEW i \in 1 .. n, i \in I PROVE \E j \in 1 .. Len(t) + 1 : h[j] = i
    <3>1. CASE i = n
      BY <2>2, <2>4, <3>1
    <3>2. CASE i # n
      <4>1. i \in 1 .. n - 1
        BY <3>2
      <4>2. PICK j \in 1 .. Len(t) : g[j] = i
        BY <1>2, <2>8, <4>1 DEF Embeds
      <4>. QED  BY <2>2, <2>3, <4>2
    <3>. QED  BY <3>1, <3>2
  <2>9. Embeds(h, u, s, I, n)
    BY <2>1, <2>5, <2>6, <2>7, <2>8 DEF Embeds
  <2>10. Len(u) <= n
    BY <1>1, <2>1
  <2>. QED  BY <1>4, <2>1, <2>9, <2>10 DEF Embedded, u
<1>. QED  BY <1>3, <1>4

LEMMA ExtractionExists ==
  ASSUME NEW S, NEW s \in Seq(S), NEW I
  PROVE  \E f : Extraction(f, s, I, Len(s))
<1>. DEFINE X == {n \in Nat : ~\E f : Extraction(f, s, I, n)}
<1>1. SUFFICES ASSUME X # {} PROVE FALSE
  BY SeqParts
<1>. DEFINE n == Min(X)
<1>2. n \in X /\ \A m \in X : n <= m
  BY <1>1, LeastNumber
<1>3. n \in Nat /\ ~\E f : Extraction(f, s, I, n)
  BY <1>2
<1>4. n # 0
  <2>1. Extraction([i \in 0..0 |-> <<>>], s, I, 0)
    BY DEF Extraction
  <2>. QED  BY <2>1, <1>3
<1>. HIDE DEF n
<1>5. n - 1 \in Nat /\ n - 1 \notin X
  <2>1. n - 1 \in Nat /\ ~(n <= n - 1)
    BY <1>3, <1>4
  <2>. QED  BY <2>1, <1>2
<1>6. PICK f : Extraction(f, s, I, n - 1)
  BY <1>5
<1>. HIDE DEF X
<1>. DEFINE V(h, m) == IF m = 0 THEN <<>> ELSE IF m \in I THEN Append(h[m - 1], s[m]) ELSE h[m - 1]
            g == [m \in 0..n |-> IF m < n THEN f[m] ELSE V(f, n)]
<1>7. \A m \in 0..n - 1 : f[m] = V(f, m)
  <2>1. f = [m \in 0..n - 1 |-> V(f, m)]
    BY <1>6 DEF Extraction
  <2>. QED  BY <2>1
<1>8. \A m \in 0..n : m # 0 => g[m - 1] = f[m - 1]
  BY <1>3
<1>9. \A m \in 0..n : V(g, m) = V(f, m)
  BY <1>8
<1>10. ASSUME NEW m \in 0..n PROVE g[m] = V(f, m)
  <2>1. CASE m < n
    <3>1. m \in 0..n - 1
      BY <2>1, <1>3
    <3>. QED  BY <2>1, <3>1, <1>7
  <2>2. CASE ~(m < n)
    <3>1. m = n
      BY <2>2, <1>3
    <3>2. g[n] = V(f, n)
      BY <1>3
    <3>. QED  BY <3>1, <3>2
  <2>. QED  BY <2>1, <2>2
<1>11. g = [m \in 0..n |-> g[m]]
  OBVIOUS
<1>. HIDE DEF g
<1>12. g = [m \in 0..n |-> V(g, m)]
  <2>1. \A m \in 0..n : g[m] = V(g, m)
    BY <1>9, <1>10
  <2>. HIDE DEF V
  <2>. QED  BY <1>11, <2>1
<1>13. Extraction(g, s, I, n)
  BY <1>12 DEF Extraction
<1>. QED  BY <1>13, <1>3

LEMMA ExtractedIs ==
  ASSUME NEW S, NEW s \in Seq(S), NEW I
  PROVE  Embedded(S, Extracted(s, I), s, I, Len(s))
<1>. DEFINE f == CHOOSE f : f = [n \in 0 .. Len(s) |->
                    IF n = 0 THEN <<>> ELSE IF n \in I THEN Append(f[n - 1], s[n]) ELSE f[n - 1]]
            N == Len(s)
            X == {n \in 0 .. N : ~Embedded(S, f[n], s, I, n)}
<1>1. Extraction(f, s, I, Len(s))
  <2>1. \E g : g = [n \in 0 .. Len(s) |->
                      IF n = 0 THEN <<>> ELSE IF n \in I THEN Append(g[n - 1], s[n]) ELSE g[n - 1]]
    BY ExtractionExists DEF Extraction
  <2>2. f = [n \in 0 .. Len(s) |->
               IF n = 0 THEN <<>> ELSE IF n \in I THEN Append(f[n - 1], s[n]) ELSE f[n - 1]]
    BY <2>1
  <2>. QED  BY <2>2 DEF Extraction
<1>. DEFINE n == Min(X)
<1>2. Extracted(s, I) = f[N]
  BY DEF Extracted
<1>3. N \in Nat
  BY SeqParts
<1>. HIDE DEF f, n, X
<1>4. f[0] = <<>> /\ \A m \in 1 .. N : f[m] = IF m \in I THEN Append(f[m - 1], s[m]) ELSE f[m - 1]
  <2>. DEFINE V(m) == IF m = 0 THEN <<>> ELSE IF m \in I THEN Append(f[m - 1], s[m]) ELSE f[m - 1]
  <2>1. f = [m \in 0 .. N |-> V(m)]
    BY <1>1 DEF Extraction
  <2>2. \A m \in 0 .. N : f[m] = V(m)
    <3>. HIDE DEF V
    <3>. QED  BY <2>1
  <2>3. 0 \in 0 .. N /\ \A m \in 1 .. N : m \in 0 .. N /\ m # 0
    BY <1>3
  <2>. QED  BY <2>2, <2>3
<1>5. Embedded(S, f[0], s, I, 0)
  <2>1. Embeds(<<>>, <<>>, s, I, 0)
    BY DEF Embeds
  <2>2. <<>> \in Seq(S) /\ Len(<<>>) = 0
    BY EmptySeq
  <2>. QED  BY <1>4, <2>1, <2>2 DEF Embedded
<1>. HIDE DEF N
<1>6. SUFFICES ASSUME X # {} PROVE FALSE
  BY <1>2, <1>3 DEF N, X
<1>7. n \in X /\ \A m \in X : n <= m
  <2>1. X \subseteq Nat
    BY <1>3 DEF X
  <2>. QED  BY <1>6, <2>1, LeastNumber DEF n
<1>. USE DEF X
<1>8. n \in 1..N /\ n - 1 \in 0..N /\ n - 1 \notin X
  <2>1. n \in 0..N /\ n # 0
    BY <1>5, <1>7
  <2>2. n - 1 \in 0..N /\ ~(n <= n - 1)
    BY <1>3, <2>1
  <2>. QED  BY <1>3, <1>7, <2>1, <2>2
<1>9. Embedded(S, f[n - 1], s, I, n - 1)
  BY <1>8
<1>10. Embedded(S, f[n], s, I, n)
  BY <1>4, <1>8, <1>9, ExtractionStep DEF N
<1>. QED  BY <1>7, <1>10

-----------------------------------------------------------------------------
(* How often a sequence has elements of a set T.                           *)
SomeIn(s, T) == \E i \in 1 .. Len(s) : s[i] \in T
OnceIn(s, T) == \A i, j \in 1 .. Len(s) : s[i] \in T /\ s[j] \in T => i = j

LEMMA AppendIn ==
  ASSUME NEW S, NEW s \in Seq(S), NEW x \in S, NEW T
  PROVE  /\ SomeIn(Append(s, x), T) <=> SomeIn(s, T) \/ x \in T
         /\ OnceIn(s, T) /\ ~(SomeIn(s, T) /\ x \in T) => OnceIn(Append(s, x), T)
<1>. DEFINE t == Append(s, x)
<1>1. /\ Len(t) = Len(s) + 1 /\ Len(s) \in Nat
      /\ \A i \in 1 .. Len(s) : t[i] = s[i]
      /\ t[Len(s) + 1] = x
  BY AppendIs, SeqParts
<1>. HIDE DEF t
<1>2. \A i \in 1 .. Len(t) : i = Len(s) + 1 \/ i \in 1 .. Len(s)
  BY <1>1
<1>3. \A i \in 1 .. Len(s) : i \in 1 .. Len(t)
  BY <1>1
<1>4. Len(s) + 1 \in 1 .. Len(t)
  BY <1>1
<1>5. SomeIn(t, T) <=> SomeIn(s, T) \/ x \in T
  BY <1>1, <1>2, <1>3, <1>4 DEF SomeIn
<1>6. ASSUME OnceIn(s, T), ~(SomeIn(s, T) /\ x \in T) PROVE OnceIn(t, T)
  <2>. SUFFICES ASSUME NEW i \in 1 .. Len(t), NEW j \in 1 .. Len(t), t[i] \in T, t[j] \in T
                PROVE  i = j
    BY DEF OnceIn
  <2>1. CASE i = Len(s) + 1 /\ j = Len(s) + 1
    BY <2>1
  <2>2. CASE i \in 1 .. Len(s) /\ j \in 1 .. Len(s)
    BY <1>1, <1>6, <2>2 DEF OnceIn
  <2>3. CASE \/ i = Len(s) + 1 /\ j \in 1 .. Len(s)
             \/ j = Len(s) + 1 /\ i \in 1 .. Len(s)
    BY <1>1, <1>6, <2>3 DEF SomeIn
  <2>. QED  BY <1>2, <2>1, <2>2, <2>3
<1>. QED  BY <1>5, <1>6 DEF t

(* t is s without its element n. *)
Without(s, t, n) ==
  /\ Len(t) = Len(s) - 1
  /\ \A i \in 1 .. Len(t) :
       /\ i < n => i \in 1 .. Len(s) /\ t[i] = s[i]
       /\ i >= n => i + 1 \in 1 .. Len(s) /\ t[i] = s[i + 1]

LEMMA TailIsWithout ==
  ASSUME NEW S, NEW s \in Seq(S), s # <<>>
  PROVE  Without(s, Tail(s), 1) /\ 1 \in 1 .. Len(s) /\ Head(s) = s[1] /\ Head(s) \in S /\ Tail(s) \in Seq(S)
BY TailIs DEF Without

LEMMA RemovedIsWithout ==
  ASSUME NEW S, NEW s \in Seq(S), NEW n \in 1 .. Len(s)
  PROVE  Without(s, RemoveAt(s, n), n) /\ RemoveAt(s, n) \in Seq(S)
BY RemovedAt DEF Without

LEMMA WithoutIn ==
  ASSUME NEW s, NEW t, NEW T, Len(s) \in Nat, NEW n \in 1 .. Len(s), Without(s, t, n)
  PROVE  /\ SomeIn(s, T) <=> SomeIn(t, T) \/ s[n] \in T
         /\ OnceIn(s, T) => OnceIn(t, T) /\ ~(SomeIn(t, T) /\ s[n] \in T)
<1>. DEFINE old(i) == IF i < n THEN i ELSE i + 1
<1>1. \A i \in 1 .. Len(t) : old(i) \in 1 .. Len(s) /\ old(i) # n /\ t[i] = s[old(i)]
  BY DEF Without
<1>2. \A i, j \in 1 .. Len(t) : i # j => old(i) # old(j)
  OBVIOUS
<1>3. \A k \in 1 .. Len(s) : k # n => \E i \in 1 .. Len(t) : old(i) = k
  <2>. SUFFICES ASSUME NEW k \in 1 .. Len(s), k # n PROVE \E i \in 1 .. Len(t) : old(i) = k
    OBVIOUS
  <2>1. CASE k < n
    BY <2>1 DEF Without
  <2>2. CASE k > n
    <3>1. k - 1 \in 1 .. Len(t) /\ old(k - 1) = k
      BY <2>2 DEF Without
    <3>. QED  BY <3>1
  <2>. QED  BY <2>1, <2>2
<1>. HIDE DEF old
<1>4. SomeIn(s, T) <=> SomeIn(t, T) \/ s[n] \in T
  BY <1>1, <1>3 DEF SomeIn
<1>5. ASSUME OnceIn(s, T) PROVE OnceIn(t, T) /\ ~(SomeIn(t, T) /\ s[n] \in T)
  <2>1. OnceIn(t, T)
    BY <1>1, <1>2, <1>5 DEF OnceIn
  <2>2. ~(SomeIn(t, T) /\ s[n] \in T)
    BY <1>1, <1>5 DEF OnceIn, SomeIn
  <2>. QED  BY <2>1, <2>2
<1>. QED  BY <1>4, <1>5

LEMMA AlikeIn ==
  ASSUME NEW s, NEW t, NEW T, Len(t) = Len(s), \A i \in 1 .. Len(s) : t[i] \in T <=> s[i] \in T
  PROVE  (SomeIn(t, T) <=> SomeIn(s, T)) /\ (OnceIn(t, T) <=> OnceIn(s, T))
BY DEF SomeIn, OnceIn

-----------------------------------------------------------------------------
(* What a prefix search finds, in terms of the positions I it stops at.    *)
LEMMA FirstIn ==
  ASSUME NEW N \in Nat, NEW I, I \subseteq 1 .. N,
         NEW f, f = IF I # {} THEN Min(I) ELSE 0
  PROVE  /\ f \in 0 .. N
         /\ f = 0 <=> I = {}
         /\ f # 0 => f \in I /\ \A i \in I : f <= i
<1>1. I \subseteq Nat
  OBVIOUS
<1>2. I # {} => Min(I) \in I /\ \A i \in I : Min(I) <= i
  BY <1>1, LeastNumber
<1>3. CASE I = {}
  BY <1>3
<1>4. CASE I # {}
  <2>1. f \in I /\ \A i \in I : f <= i
    BY <1>2, <1>4
  <2>2. f \in 1 .. N
    BY <2>1
  <2>. QED  BY <1>4, <2>1, <2>2
<1>. QED  BY <1>3, <1>4

-----------------------------------------------------------------------------
(* What a request carries.                                                 *)

(* The virtual addresses that are asked for, and the physical ones that are *)
(* asked for as they are by something else than a prefetcher.              *)
Virtual ==
  {a \in Addr : \/ \E i \in Ids : ~Req[i].tr /\ Req[i].addr = a
                \/ \E w \in Writes : ~w.tr /\ w.addr = a
                \/ VIRTUAL_PREFETCH /\ \E t \in PrefetchTargets : t.addr = a}
Direct ==
  {a \in Addr : \/ \E i \in Ids : Req[i].tr /\ Req[i].type # "PREFETCH" /\ Req[i].addr = a
                \/ \E w \in Writes : w.tr /\ w.addr = a}

(* What the virtual memory gives a cache that translates: two virtual       *)
(* blocks have two physical ones, and those are read only through their     *)
(* virtual addresses (the walker reads page tables, which are not mapped).  *)
(* The core above such a cache issues no prefetches of its own.            *)
DistinctPages ==
  /\ \A i \in Ids : Req[i].tr \/ Req[i].type # "PREFETCH"
  /\ \A a, b \in Virtual : SameBlock(Physical[a], Physical[b]) => SameBlock(a, b)
  /\ \A a \in Virtual, b \in Direct : ~SameBlock(Physical[a], b)

RequestFields ==
  [addr : Addr, v : Addr, type : Kind, tr : BOOLEAN, resp : BOOLEAN, deps : SUBSET Ids,
   checked : BOOLEAN]
RequestType ==
  {r \in RequestFields :
     /\ r.v = r.addr
     /\ ~r.tr => r.addr \in Virtual
     /\ r.tr /\ r.type # "PREFETCH" => r.addr \in Direct
     /\ DistinctPages => r.tr \/ r.type # "PREFETCH"
     /\ \A i \in r.deps : Req[i].tr = r.tr /\ SameBlock(r.addr, Req[i].addr)}

ResponseFields == [addr : Addr, v : Addr \cup {NoAddr}, deps : SUBSET Ids]
ResponseType ==
  {r \in ResponseFields :
     DistinctPages => \A i \in r.deps :
        IF Req[i].tr THEN SameBlock(r.addr, Req[i].addr) ELSE SameBlock(r.v, Req[i].addr)}

PrefetchFields ==
  [addr : Addr, v : Addr \cup {NoAddr}, type : {"PREFETCH"}, tr : BOOLEAN, deps : {{}}, skip : BOOLEAN]
PrefetchType == {p \in PrefetchFields : ~p.tr => p.v \in Virtual}

(* The address of e is where its virtual address is mapped, or was asked    *)
(* for as it is.                                                           *)
Mapped(e) == e.v \in Virtual /\ (e.tr => e.addr = Physical[e.v])
Traced(e) == Mapped(e) \/ (e.tr /\ e.addr \in Direct)

CheckFields ==
  [addr : Addr, v : Addr \cup {NoAddr}, type : Kind, tr : BOOLEAN, issued : BOOLEAN,
   deps : SUBSET Ids, pf : BOOLEAN, skip : BOOLEAN, to : SUBSET Uppers, event : 0 .. HIT_LATENCY]
CheckType ==
  {e \in CheckFields :
     /\ ~e.tr => e.v \in Virtual
     /\ e.type # "PREFETCH" => Traced(e)
     /\ DistinctPages => \A i \in e.deps :
          IF Req[i].tr THEN e.tr /\ SameBlock(e.addr, Req[i].addr)
          ELSE e.type # "PREFETCH" /\ Mapped(e) /\ SameBlock(e.v, Req[i].addr)}

MissFields ==
  [addr : Addr, v : Addr \cup {NoAddr}, type : Kind, pf : BOOLEAN, deps : SUBSET Ids,
   to : SUBSET Uppers, ready : {Unknown} \cup 0 .. FILL_LATENCY]
MissType ==
  {m \in MissFields :
     DistinctPages => \A i \in m.deps :
       IF Req[i].tr THEN SameBlock(m.addr, Req[i].addr)
       ELSE /\ m.v \in Virtual /\ SameBlock(m.addr, Physical[m.v])
            /\ SameBlock(m.v, Req[i].addr)}
FillType == {m \in MissType : m.type = "WRITE" /\ m.ready # Unknown}

LineFields == [valid : BOOLEAN, dirty : BOOLEAN, prefetch : BOOLEAN, addr : Addr \cup {NoAddr}]
LineType == {l \in LineFields : l.valid => l.addr \in Addr}

LEMMA Constants ==
  /\ {NUM_WAY, MSHR_SIZE, MAX_TAG, MAX_FILL, HIT_LATENCY, LOWER_SIZE} \subseteq Nat \ {0}
  /\ {FILL_LATENCY, CACHE_PQ_SIZE} \subseteq Nat
  /\ HIT_LATENCY \in 0 .. HIT_LATENCY /\ FILL_LATENCY \in 0 .. FILL_LATENCY
  /\ \A q \in QueueNames : QueueSize(q) \in Nat
BY CacheSizeAssumption, LatencyAssumption, QueueSizeAssumption DEF QueueNames, QueueSize

LEMMA ReadIs ==
  ASSUME NEW i \in Ids
  PROVE  [Request(Req[i], TRUE, {i}) EXCEPT !.checked = FALSE] \in RequestType
<1>. DEFINE r == [Request(Req[i], TRUE, {i}) EXCEPT !.checked = FALSE]
<1>1. Req[i] \in [from : Uppers, queue : {"RQ", "PQ"}, type : Kind \ {"WRITE"}, addr : Addr,
                  tr : BOOLEAN]
  BY RequestsAssumption
<1>3. r \in RequestFields
  BY <1>1 DEF Request, RequestFields
<1>4. r.v = r.addr /\ r.addr = Req[i].addr /\ r.tr = Req[i].tr /\ r.type = Req[i].type /\ r.deps = {i}
  BY DEF Request
<1>. HIDE DEF r
<1>5. ~r.tr => r.addr \in Virtual
  BY <1>1, <1>4 DEF Virtual
<1>6. r.tr /\ r.type # "PREFETCH" => r.addr \in Direct
  BY <1>1, <1>4 DEF Direct
<1>7. DistinctPages => r.tr \/ r.type # "PREFETCH"
  BY <1>4 DEF DistinctPages
<1>8. \A j \in r.deps : Req[j].tr = r.tr /\ SameBlock(r.addr, Req[j].addr)
  BY <1>4 DEF SameBlock
<1>9. r \in RequestType
  BY <1>3, <1>4, <1>5, <1>6, <1>7, <1>8 DEF RequestType
<1>. QED  BY <1>9 DEF r

LEMMA WriteIs ==
  ASSUME NEW w \in Writes
  PROVE  [Request(w, FALSE, {}) EXCEPT !.checked = FALSE] \in RequestType /\ w.from \in Uppers
<1>. DEFINE r == [Request(w, FALSE, {}) EXCEPT !.checked = FALSE]
<1>1. w \in [from : Uppers, addr : Addr, tr : BOOLEAN, type : {"WRITE"}]
  BY RequestsAssumption
<1>3. r \in RequestFields
  BY <1>1 DEF Request, RequestFields, Kind
<1>4. r.v = r.addr /\ r.addr = w.addr /\ r.tr = w.tr /\ r.type = "WRITE" /\ r.deps = {}
  BY <1>1 DEF Request
<1>. HIDE DEF r
<1>5. ~r.tr => r.addr \in Virtual
  BY <1>1, <1>4 DEF Virtual
<1>6. r.tr /\ r.type # "PREFETCH" => r.addr \in Direct
  BY <1>1, <1>4 DEF Direct
<1>7. r \in RequestType
  BY <1>3, <1>4, <1>5, <1>6 DEF RequestType
<1>. QED  BY <1>1, <1>7 DEF r

LEMMA MergedIs ==
  ASSUME NEW x \in RequestType, NEW y \in RequestType, SameBlock(x.addr, y.addr), x.tr = y.tr
  PROVE  Merged(x, y) \in RequestType
<1>. DEFINE r == Merged(x, y)
<1>1. x \in RequestFields /\ y \in RequestFields
  BY DEF RequestType
<1>2. r \in RequestFields /\ r.v = x.v /\ r.addr = x.addr /\ r.type = x.type /\ r.tr = x.tr
        /\ r.deps = x.deps \cup y.deps
  BY <1>1 DEF RequestFields, Merged
<1>. HIDE DEF r
<1>3. \A i \in r.deps : Req[i].tr = r.tr /\ SameBlock(r.addr, Req[i].addr)
  BY <1>2 DEF RequestType, SameBlock
<1>4. r \in RequestType
  BY <1>2, <1>3 DEF RequestType
<1>. QED  BY <1>4 DEF r

LEMMA CheckedIs ==
  ASSUME NEW x \in RequestType
  PROVE  [x EXCEPT !.checked = TRUE] \in RequestType /\ Response(x) \in ResponseType
<1>. DEFINE r == [x EXCEPT !.checked = TRUE]
            a == Response(x)
<1>1. x \in RequestFields
  BY DEF RequestType
<1>2. r \in RequestFields /\ r.v = x.v /\ r.addr = x.addr /\ r.type = x.type /\ r.tr = x.tr
        /\ r.deps = x.deps
  BY <1>1 DEF RequestFields
<1>3. a \in ResponseFields /\ a.addr = x.addr /\ a.v = x.v /\ a.deps = x.deps
  BY <1>1 DEF RequestFields, ResponseFields, Response
<1>. HIDE DEF r, a
<1>4. r \in RequestType
  BY <1>2 DEF RequestType
<1>5. a \in ResponseType
  BY <1>3 DEF RequestType, ResponseType
<1>. QED  BY <1>4, <1>5 DEF r, a

LEMMA RequestCheckIs ==
  ASSUME NEW x \in RequestType, NEW to \in SUBSET Uppers
  PROVE  TagCheck(x, to, FALSE, FALSE) \in CheckType
<1>. DEFINE e == TagCheck(x, to, FALSE, FALSE)
<1>1. x \in RequestFields /\ HIT_LATENCY \in 0 .. HIT_LATENCY
  BY Constants DEF RequestType
<1>2. /\ e \in CheckFields
      /\ e.addr = x.addr /\ e.v = x.v /\ e.type = x.type /\ e.tr = x.tr /\ e.deps = x.deps
  BY <1>1 DEF RequestFields, CheckFields, TagCheck
<1>. HIDE DEF e
<1>3. /\ x.v = x.addr /\ (~x.tr => x.addr \in Virtual)
      /\ x.tr /\ x.type # "PREFETCH" => x.addr \in Direct
      /\ DistinctPages => x.tr \/ x.type # "PREFETCH"
      /\ \A i \in x.deps : Req[i].tr = x.tr /\ SameBlock(x.addr, Req[i].addr)
  BY DEF RequestType
<1>4. ~x.tr => Mapped(e)
  BY <1>2, <1>3 DEF Mapped
<1>5. e.type # "PREFETCH" => Traced(e)
  BY <1>2, <1>3, <1>4 DEF Traced
<1>6. ASSUME DistinctPages, NEW i \in e.deps
      PROVE  IF Req[i].tr THEN e.tr /\ SameBlock(e.addr, Req[i].addr)
             ELSE e.type # "PREFETCH" /\ Mapped(e) /\ SameBlock(e.v, Req[i].addr)
  BY <1>2, <1>3, <1>4, <1>6
<1>7. e \in CheckType
  BY <1>2, <1>3, <1>5, <1>6 DEF CheckType
<1>. QED  BY <1>7 DEF e

LEMMA PrefetchCheckIs ==
  ASSUME NEW p \in PrefetchType
  PROVE  TagCheck(p, {}, p.skip, TRUE) \in CheckType
<1>. DEFINE e == TagCheck(p, {}, p.skip, TRUE)
<1>1. p \in PrefetchFields /\ HIT_LATENCY \in 0 .. HIT_LATENCY /\ (~p.tr => p.v \in Virtual)
  BY Constants DEF PrefetchType
<1>2. /\ e \in CheckFields
      /\ e.v = p.v /\ e.type = "PREFETCH" /\ e.tr = p.tr /\ e.deps = {}
  BY <1>1 DEF PrefetchFields, CheckFields, TagCheck, Kind
<1>. HIDE DEF e
<1>3. e \in CheckType
  BY <1>1, <1>2 DEF CheckType
<1>. QED  BY <1>3 DEF e

LEMMA EntryIs ==
  ASSUME NEW t \in PrefetchTargets
  PROVE  PrefetchEntry(t) \in PrefetchType
<1>. DEFINE p == PrefetchEntry(t)
<1>1. t \in [addr : Addr, fill : BOOLEAN] /\ VIRTUAL_PREFETCH \in BOOLEAN
  BY RequestsAssumption, FlagAssumption
<1>2. p \in PrefetchFields /\ p.tr = ~VIRTUAL_PREFETCH
        /\ (VIRTUAL_PREFETCH => p.v = t.addr)
  BY <1>1 DEF PrefetchFields, PrefetchEntry
<1>. HIDE DEF p
<1>3. ~p.tr => p.v \in Virtual
  BY <1>1, <1>2 DEF Virtual
<1>4. p \in PrefetchType
  BY <1>2, <1>3 DEF PrefetchType
<1>. QED  BY <1>4 DEF p

LEMMA TranslatedIs ==
  ASSUME NEW e \in CheckType, ~e.tr
  PROVE  MarkTranslated(e) \in CheckType /\ MarkTranslated(e).tr
<1>. DEFINE r == MarkTranslated(e)
<1>1. e \in CheckFields /\ e.v \in Virtual /\ e.v \in Addr /\ Physical[e.v] \in Addr
  BY MappingAssumption DEF CheckType, Virtual
<1>2. /\ r \in CheckFields
      /\ r.addr = Physical[e.v] /\ r.v = e.v /\ r.type = e.type /\ r.tr /\ r.deps = e.deps
  BY <1>1 DEF CheckFields, MarkTranslated
<1>. HIDE DEF r
<1>3. Mapped(r)
  BY <1>1, <1>2 DEF Mapped
<1>4. ASSUME DistinctPages, NEW i \in r.deps
      PROVE  IF Req[i].tr THEN r.tr /\ SameBlock(r.addr, Req[i].addr)
             ELSE r.type # "PREFETCH" /\ Mapped(r) /\ SameBlock(r.v, Req[i].addr)
  BY <1>2, <1>3, <1>4 DEF CheckType
<1>5. r \in CheckType
  BY <1>2, <1>3, <1>4 DEF CheckType, Traced
<1>. QED  BY <1>2, <1>5 DEF r

(* A tag check that only comes nearer, or that has asked for its translation. *)
LEMMA SameCheck ==
  ASSUME NEW e \in CheckType, NEW r \in CheckFields,
         r.addr = e.addr, r.v = e.v, r.type = e.type, r.tr = e.tr, r.deps = e.deps
  PROVE  r \in CheckType
<1>1. Mapped(r) <=> Mapped(e)
  BY DEF Mapped
<1>2. Traced(r) <=> Traced(e)
  BY <1>1 DEF Traced
<1>3. ASSUME DistinctPages, NEW i \in r.deps
      PROVE  IF Req[i].tr THEN r.tr /\ SameBlock(r.addr, Req[i].addr)
             ELSE r.type # "PREFETCH" /\ Mapped(r) /\ SameBlock(r.v, Req[i].addr)
  BY <1>1, <1>3 DEF CheckType
<1>. QED  BY <1>2, <1>3 DEF CheckType

LEMMA CheckUpdates ==
  ASSUME NEW e \in CheckType
  PROVE  /\ [e EXCEPT !.event = HIT_LATENCY] \in CheckType
         /\ [e EXCEPT !.event = Sooner(@)] \in CheckType
         /\ [e EXCEPT !.issued = TRUE] \in CheckType
<1>1. e \in CheckFields /\ HIT_LATENCY \in 0 .. HIT_LATENCY /\ HIT_LATENCY \in Nat
  BY Constants DEF CheckType
<1>2. Sooner(e.event) \in 0 .. HIT_LATENCY
  BY <1>1 DEF Sooner, CheckFields
<1>3. /\ [e EXCEPT !.event = HIT_LATENCY] \in CheckFields
      /\ [e EXCEPT !.event = Sooner(@)] \in CheckFields
      /\ [e EXCEPT !.issued = TRUE] \in CheckFields
  BY <1>1, <1>2 DEF CheckFields
<1>4. [e EXCEPT !.event = HIT_LATENCY] \in CheckType
  BY <1>1, <1>3, SameCheck DEF CheckFields
<1>5. [e EXCEPT !.event = Sooner(@)] \in CheckType
  BY <1>1, <1>3, SameCheck DEF CheckFields
<1>6. [e EXCEPT !.issued = TRUE] \in CheckType
  BY <1>1, <1>3, SameCheck DEF CheckFields
<1>. QED  BY <1>4, <1>5, <1>6

LEMMA MissEntryIs ==
  ASSUME NEW e \in CheckType, e.tr, NEW n \in {Unknown} \cup 0 .. FILL_LATENCY
  PROVE  /\ MissEntry(e, n) \in MissType
         /\ MissEntry(e, n).addr = e.addr /\ MissEntry(e, n).ready = n
         /\ MissEntry(e, n).type = e.type /\ MissEntry(e, n).v = e.v
         /\ MissEntry(e, n).deps = e.deps /\ MissEntry(e, n).to = e.to
<1>. DEFINE m == MissEntry(e, n)
<1>1. e \in CheckFields
  BY DEF CheckType
<1>2. /\ m \in MissFields
      /\ m.addr = e.addr /\ m.v = e.v /\ m.deps = e.deps /\ m.ready = n /\ m.type = e.type
      /\ m.to = e.to
  BY <1>1 DEF CheckFields, MissFields, MissEntry
<1>. HIDE DEF m
<1>3. ASSUME DistinctPages, NEW i \in m.deps
      PROVE  IF Req[i].tr THEN SameBlock(m.addr, Req[i].addr)
             ELSE /\ m.v \in Virtual /\ SameBlock(m.addr, Physical[m.v])
                  /\ SameBlock(m.v, Req[i].addr)
  BY <1>2, <1>3 DEF CheckType, Mapped, SameBlock
<1>4. m \in MissType
  BY <1>2, <1>3 DEF MissType
<1>. QED  BY <1>2, <1>4 DEF m

LEMMA MergeIs ==
  ASSUME NEW m \in MissType, NEW e \in CheckType, e.tr, SameBlock(m.addr, e.addr)
  PROVE  LET r == merge(m, MissEntry(e, Unknown))
         IN  /\ r \in MissType
             /\ SameBlock(r.addr, m.addr) /\ r.ready = m.ready
             /\ r.deps = m.deps \cup e.deps /\ r.to = m.to \cup e.to
<1>. DEFINE n == MissEntry(e, Unknown)
            r == merge(m, n)
<1>1. /\ n \in MissType /\ n.addr = e.addr /\ n.ready = Unknown /\ n.type = e.type /\ n.v = e.v
      /\ n.deps = e.deps /\ n.to = e.to
  BY MissEntryIs
<1>. HIDE DEF n
<1>2. m \in MissFields /\ n \in MissFields
  BY <1>1 DEF MissType
<1>3. /\ r \in MissFields /\ r.ready = m.ready
      /\ r.deps = m.deps \cup n.deps /\ r.to = m.to \cup n.to
      /\ n.type = "PREFETCH" => r.addr = m.addr /\ r.v = m.v
      /\ n.type # "PREFETCH" => r.addr = n.addr /\ r.v = n.v
  BY <1>2 DEF MissFields, merge
<1>. HIDE DEF r
<1>4. SameBlock(r.addr, m.addr) /\ SameBlock(r.addr, n.addr)
  BY <1>1, <1>3 DEF SameBlock
<1>5. ASSUME DistinctPages, NEW i \in r.deps
      PROVE  IF Req[i].tr THEN SameBlock(r.addr, Req[i].addr)
             ELSE /\ r.v \in Virtual /\ SameBlock(r.addr, Physical[r.v])
                  /\ SameBlock(r.v, Req[i].addr)
  <2>1. CASE Req[i].tr
    BY <1>1, <1>3, <1>4, <1>5, <2>1 DEF MissType, SameBlock
  <2>2. CASE ~Req[i].tr /\ n.type = "PREFETCH"
    <3>1. i \notin e.deps
      BY <1>1, <1>5, <2>2 DEF CheckType
    <3>. QED  BY <1>1, <1>3, <1>5, <2>2, <3>1 DEF MissType, SameBlock
  <2>3. CASE ~Req[i].tr /\ n.type # "PREFETCH" /\ i \in n.deps
    BY <1>1, <1>3, <1>5, <2>3 DEF MissType, SameBlock
  <2>4. CASE ~Req[i].tr /\ n.type # "PREFETCH" /\ i \in m.deps
    <3>1. m.v \in Virtual /\ SameBlock(m.addr, Physical[m.v]) /\ SameBlock(m.v, Req[i].addr)
      BY <1>5, <2>4 DEF MissType
    <3>2. SameBlock(Physical[m.v], n.addr)
      BY <1>1, <3>1 DEF SameBlock
    <3>3. Traced(e)
      BY <1>1, <2>4 DEF CheckType
    <3>4. n.addr \notin Direct
      BY <1>5, <3>1, <3>2 DEF DistinctPages
    <3>5. n.v \in Virtual /\ n.addr = Physical[n.v]
      BY <1>1, <3>3, <3>4 DEF Traced, Mapped
    <3>6. SameBlock(m.v, n.v)
      BY <1>5, <3>1, <3>2, <3>5 DEF DistinctPages
    <3>7. SameBlock(n.v, Req[i].addr)
      BY <3>1, <3>6 DEF SameBlock
    <3>. QED  BY <1>3, <2>4, <3>5, <3>7 DEF SameBlock
  <2>. QED  BY <1>3, <2>1, <2>2, <2>3, <2>4
<1>6. r \in MissType
  BY <1>3, <1>5 DEF MissType
<1>. QED  BY <1>1, <1>3, <1>4, <1>6 DEF r, n

LEMMA ReadyIs ==
  ASSUME NEW m \in MissType, NEW n \in {Unknown} \cup 0 .. FILL_LATENCY
  PROVE  /\ [m EXCEPT !.ready = n] \in MissType
         /\ [m EXCEPT !.ready = n].ready = n /\ [m EXCEPT !.ready = n].addr = m.addr
         /\ [m EXCEPT !.ready = n].type = m.type
         /\ [m EXCEPT !.ready = n].deps = m.deps /\ [m EXCEPT !.ready = n].to = m.to
<1>. DEFINE r == [m EXCEPT !.ready = n]
<1>1. m \in MissFields
  BY DEF MissType
<1>2. /\ r \in MissFields /\ r.ready = n
      /\ r.addr = m.addr /\ r.v = m.v /\ r.deps = m.deps /\ r.type = m.type /\ r.to = m.to
  BY <1>1 DEF MissFields
<1>. HIDE DEF r
<1>3. r \in MissType
  BY <1>2 DEF MissType
<1>. QED  BY <1>2, <1>3 DEF r

LEMMA AnswersAre ==
  /\ \A m \in MissType : [addr |-> m.addr, v |-> m.v, deps |-> m.deps] \in ResponseType
  /\ \A e \in CheckType : [addr |-> e.addr, v |-> e.v, deps |-> e.deps] \in ResponseType
<1>1. ASSUME NEW m \in MissType
      PROVE  [addr |-> m.addr, v |-> m.v, deps |-> m.deps] \in ResponseType
  <2>. DEFINE a == [addr |-> m.addr, v |-> m.v, deps |-> m.deps]
  <2>1. a \in ResponseFields /\ a.addr = m.addr /\ a.v = m.v /\ a.deps = m.deps
    BY DEF MissType, MissFields, ResponseFields
  <2>. HIDE DEF a
  <2>2. a \in ResponseType
    BY <2>1 DEF MissType, ResponseType
  <2>. QED  BY <2>2 DEF a
<1>2. ASSUME NEW e \in CheckType
      PROVE  [addr |-> e.addr, v |-> e.v, deps |-> e.deps] \in ResponseType
  <2>. DEFINE a == [addr |-> e.addr, v |-> e.v, deps |-> e.deps]
  <2>1. a \in ResponseFields /\ a.addr = e.addr /\ a.v = e.v /\ a.deps = e.deps
    BY DEF CheckType, CheckFields, ResponseFields
  <2>. HIDE DEF a
  <2>2. a \in ResponseType
    BY <2>1 DEF CheckType, ResponseType
  <2>. QED  BY <2>2 DEF a
<1>. QED  BY <1>1, <1>2

LEMMA LinesAre ==
  /\ Invalid \in LineType
  /\ \A m \in MissType : fill_block(m) \in LineType /\ fill_block(m).valid
                         /\ fill_block(m).addr = m.addr
<1>1. Invalid \in LineType
  BY DEF Invalid, LineType, LineFields
<1>2. ASSUME NEW m \in MissType
      PROVE  fill_block(m) \in LineType /\ fill_block(m).valid /\ fill_block(m).addr = m.addr
  BY DEF MissType, MissFields, LineType, LineFields, fill_block
<1>. QED  BY <1>1, <1>2

-----------------------------------------------------------------------------
(* The channels of the levels above and check_collision.                   *)
ChannelType ==
  [WQ : Seq(RequestType), RQ : Seq(RequestType), PQ : Seq(RequestType), returned : Seq(ResponseType)]
Fits(c) == \A q \in QueueNames : Len(c[q]) <= QueueSize(q)

LEMMA QueuesOf ==
  ASSUME NEW c \in ChannelType
  PROVE  /\ \A q \in QueueNames : c[q] \in Seq(RequestType)
         /\ c.returned \in Seq(ResponseType)
BY DEF ChannelType, QueueNames

(* d is c with queue q replaced by s and the responses by t. *)
Replaces(c, d, q, s, t) ==
  /\ d \in ChannelType /\ d[q] = s /\ d.returned = t
  /\ \A p \in QueueNames : p # q => d[p] = c[p]

LEMMA QueueReplaced ==
  ASSUME NEW c \in ChannelType, NEW q \in QueueNames, NEW s \in Seq(RequestType),
         NEW t \in Seq(ResponseType)
  PROVE  /\ Replaces(c, [c EXCEPT ![q] = s], q, s, c.returned)
         /\ Replaces(c, [c EXCEPT ![q] = s, !.returned = t], q, s, t)
         /\ Replaces(c, [c EXCEPT !.returned = t], q, c[q], t)
<1>1. CASE q = "WQ"
  BY <1>1 DEF ChannelType, QueueNames, Replaces
<1>2. CASE q = "RQ"
  BY <1>2 DEF ChannelType, QueueNames, Replaces
<1>3. CASE q = "PQ"
  BY <1>3 DEF ChannelType, QueueNames, Replaces
<1>. QED  BY <1>1, <1>2, <1>3 DEF QueueNames

LEMMA CollisionFound ==
  ASSUME NEW S, NEW queue \in Seq(S), NEW x, NEW shamt, NEW n, n = Collides(queue, x, shamt), n # 0
  PROVE  n \in 1 .. Len(queue) /\ Same(shamt, queue[n], x) /\ queue[n].tr = x.tr
<1>. DEFINE I == {i \in 1 .. Len(queue) : Same(shamt, queue[i], x)}
            found == IF I # {} THEN Min(I) ELSE 0
<1>1. Collides(queue, x, shamt) = IF found # 0 /\ queue[found].tr = x.tr THEN found ELSE 0
  BY DEF Collides, SelectInSeq
<1>2. Len(queue) \in Nat /\ I \subseteq 1 .. Len(queue)
  BY SeqParts
<1>3. found # 0 => found \in I
  <2>. HIDE DEF I
  <2>. QED  BY <1>2, FirstIn
<1>4. \A i \in I : i \in 1 .. Len(queue) /\ Same(shamt, queue[i], x)
  OBVIOUS
<1>. HIDE DEF I, found
<1>. QED  BY <1>1, <1>3, <1>4

LEMMA SameIsSameBlock ==
  ASSUME NEW x, NEW y, NEW shamt, Same(shamt, x, y)
  PROVE  SameBlock(x.addr, y.addr)
BY DEF Same, SameWrite, SameRead, SameBlock

(* What a round of check_collision can do with the request i of queue q:    *)
(* answer it, merge it into an earlier one, or mark it.                    *)
Answers(c, d, q, i) ==
  /\ q # "WQ"
  /\ Replaces(c, d, q, RemoveAt(c[q], i),
              IF c[q][i].resp THEN Append(c.returned, Response(c[q][i])) ELSE c.returned)
Merges(c, d, q, i, n) ==
  /\ n \in 1 .. i - 1
  /\ SameBlock(c[q][n].addr, c[q][i].addr) /\ c[q][n].tr = c[q][i].tr
  /\ Merged(c[q][n], c[q][i]) \in RequestType
  /\ [c[q] EXCEPT ![n] = Merged(c[q][n], c[q][i])] \in Seq(RequestType)
  /\ Replaces(c, d, q, RemoveAt([c[q] EXCEPT ![n] = Merged(c[q][n], c[q][i])], i), c.returned)
Marks(c, d, q, i) ==
  /\ [c[q][i] EXCEPT !.checked = TRUE] \in RequestType
  /\ Replaces(c, d, q, [c[q] EXCEPT ![i] = [c[q][i] EXCEPT !.checked = TRUE]], c.returned)
Round(c, d, q, i) ==
  /\ q \in QueueNames /\ i \in 1 .. Len(c[q])
  /\ \/ Answers(c, d, q, i)
     \/ \E n \in 1 .. i - 1 : Merges(c, d, q, i, n)
     \/ Marks(c, d, q, i)

LEMMA RequestRound ==
  ASSUME NEW c \in ChannelType, NEW q \in QueueNames, NEW i \in 1 .. Len(c[q])
  PROVE  Round(c, CheckRequest(c, q, i), q, i)
<1>. DEFINE s == c[q]
            x == s[i]
            d == CheckRequest(c, q, i)
            n == MergeInto(c, q, i)
<1>1. /\ s \in Seq(RequestType) /\ c.returned \in Seq(ResponseType) /\ x \in RequestType
      /\ i \in 1 .. Len(s) /\ Len(s) \in Nat
  BY QueuesOf, SeqParts
<1>2. x \in RequestFields /\ Response(x) \in ResponseType
  BY <1>1, CheckedIs DEF RequestType
<1>3. CASE ForwardFrom(c, q, i) # 0
  <2>. DEFINE t == IF x.resp THEN Append(c.returned, Response(x)) ELSE c.returned
  <2>1. q # "WQ"
    BY <1>3 DEF ForwardFrom
  <2>2. d = [c EXCEPT ![q] = RemoveAt(s, i), !.returned = t]
    BY <1>3 DEF CheckRequest, Forwarded, Drop
  <2>3. RemoveAt(s, i) \in Seq(RequestType)
    BY <1>1, RemovedAt
  <2>4. t \in Seq(ResponseType)
    BY <1>1, <1>2, AppendIs
  <2>. HIDE DEF d, t, s, x
  <2>5. Replaces(c, d, q, RemoveAt(s, i), t)
    BY <2>2, <2>3, <2>4, QueueReplaced
  <2>6. Answers(c, d, q, i)
    BY <2>1, <2>5 DEF Answers, t, s, x
  <2>. QED  BY <2>6 DEF Round, d
<1>4. CASE ForwardFrom(c, q, i) = 0 /\ n # 0
  <2>1. SubSeq(s, 1, i - 1) \in Seq(RequestType) /\ Len(SubSeq(s, 1, i - 1)) = i - 1
        /\ \A j \in 1 .. i - 1 : SubSeq(s, 1, i - 1)[j] = s[j]
    BY <1>1, SplitIs
  <2>. DEFINE early == SubSeq(s, 1, i - 1)
              shamt == IF q = "WQ" THEN "write" ELSE "read"
  <2>2. n = Collides(early, x, shamt)
    BY DEF MergeInto
  <2>. DEFINE m == Merged(s[n], x)
              t == [s EXCEPT ![n] = m]
  <2>. HIDE DEF n, s, x
  <2>3. n \in 1 .. i - 1 /\ SameBlock(s[n].addr, x.addr) /\ s[n].tr = x.tr
    <3>1. early \in Seq(RequestType) /\ Len(early) = i - 1 /\ \A j \in 1 .. i - 1 : early[j] = s[j]
      BY <2>1
    <3>. HIDE DEF early, shamt
    <3>2. n \in 1 .. Len(early) /\ Same(shamt, early[n], x) /\ early[n].tr = x.tr
      BY <1>4, <2>2, <3>1, CollisionFound
    <3>3. n \in 1 .. i - 1 /\ early[n] = s[n]
      BY <3>1, <3>2
    <3>. QED  BY <3>2, <3>3, SameIsSameBlock
  <2>4. n \in 1 .. Len(s) /\ s[n] \in RequestType
    BY <1>1, <2>3, SeqParts
  <2>5. m \in RequestType
    BY <1>1, <2>3, <2>4, MergedIs
  <2>6. d = [c EXCEPT ![q] = Joined(s, n, i)]
    BY <1>4 DEF CheckRequest, n, s
  <2>. HIDE DEF d
  <2>7. Joined(s, n, i) = RemoveAt(t, i)
    BY DEF Joined, Drop, x
  <2>. HIDE DEF m
  <2>8. t \in Seq(RequestType) /\ Len(t) = Len(s)
    BY <1>1, <2>4, <2>5, ExceptSeq
  <2>. HIDE DEF t
  <2>9. RemoveAt(t, i) \in Seq(RequestType)
    BY <1>1, <2>8, RemovedAt
  <2>10. Replaces(c, d, q, RemoveAt(t, i), c.returned)
    BY <1>1, <2>6, <2>7, <2>9, QueueReplaced
  <2>11. Merges(c, d, q, i, n)
    BY <2>3, <2>5, <2>8, <2>10 DEF Merges, m, t, s, x
  <2>. QED  BY <2>3, <2>11 DEF Round, d
<1>5. CASE ForwardFrom(c, q, i) = 0 /\ n = 0
  <2>. DEFINE m == [x EXCEPT !.checked = TRUE]
              t == [s EXCEPT ![i] = m]
  <2>1. d = [c EXCEPT ![q][i].checked = TRUE]
    BY <1>5 DEF CheckRequest
  <2>2. d = [c EXCEPT ![q] = t]
    BY <2>1
  <2>3. m \in RequestType
    BY <1>1, CheckedIs
  <2>. HIDE DEF d, m
  <2>4. t \in Seq(RequestType)
    BY <1>1, <2>3, ExceptSeq
  <2>. HIDE DEF t
  <2>5. Replaces(c, d, q, t, c.returned)
    BY <1>1, <2>2, <2>4, QueueReplaced
  <2>6. Marks(c, d, q, i)
    BY <2>3, <2>5 DEF Marks, t, m
  <2>. QED  BY <2>6 DEF Round, d
<1>. QED  BY <1>3, <1>4, <1>5

LEMMA CheckStepIs ==
  ASSUME NEW c \in ChannelType
  PROVE  \/ CheckStep(c) = c
         \/ \E q \in QueueNames : \E i \in 1 .. Len(c[q]) : Round(c, CheckStep(c), q, i)
<1>1. CASE AllChecked(c)
  BY <1>1 DEF CheckStep
<1>2. CASE ~AllChecked(c)
  <2>. DEFINE q == CheckedQueue(c)
              i == FirstUnchecked(c[q])
              I == {j \in 1 .. Len(c[q]) : ~c[q][j].checked}
  <2>1. q \in QueueNames /\ i # 0
    BY <1>2 DEF AllChecked, CheckedQueue, QueueNames
  <2>2. CheckStep(c) = CheckRequest(c, q, i)
    BY <1>2 DEF CheckStep
  <2>. HIDE DEF q
  <2>3. c[q] \in Seq(RequestType) /\ Len(c[q]) \in Nat
    BY <2>1, QueuesOf, SeqParts
  <2>4. i = IF I # {} THEN Min(I) ELSE 0
    BY DEF FirstUnchecked, SelectInSeq
  <2>5. i \in 1 .. Len(c[q])
    <3>1. I \subseteq 1 .. Len(c[q])
      OBVIOUS
    <3>. HIDE DEF I, i
    <3>2. i \in 0 .. Len(c[q])
      BY <2>3, <2>4, <3>1, FirstIn
    <3>. QED  BY <2>1, <2>3, <3>2 DEF i
  <2>. HIDE DEF i
  <2>. QED  BY <2>1, <2>2, <2>5, RequestRound
<1>. QED  BY <1>1, <1>2

(* A round lets no queue grow. *)
LEMMA RoundFits ==
  ASSUME NEW c \in ChannelType, Fits(c), NEW d, NEW q, NEW i, Round(c, d, q, i)
  PROVE  d \in ChannelType /\ Fits(d)
<1>1. q \in QueueNames /\ i \in 1 .. Len(c[q]) /\ c[q] \in Seq(RequestType) /\ Len(c[q]) \in Nat
  BY QueuesOf, SeqParts DEF Round
<1>2. QueueSize(q) \in Nat
  BY <1>1, Constants
<1>3. d \in ChannelType /\ (\A p \in QueueNames : p # q => d[p] = c[p]) /\ Len(d[q]) <= Len(c[q])
  <2>1. CASE Answers(c, d, q, i)
    <3>1. Len(RemoveAt(c[q], i)) = Len(c[q]) - 1
      BY <1>1, RemovedAt
    <3>. QED  BY <1>1, <2>1, <3>1 DEF Answers, Replaces
  <2>2. ASSUME NEW n \in 1 .. i - 1, Merges(c, d, q, i, n)
        PROVE  d \in ChannelType /\ (\A p \in QueueNames : p # q => d[p] = c[p]) /\ Len(d[q]) <= Len(c[q])
    <3>. DEFINE m == Merged(c[q][n], c[q][i])
                t == [c[q] EXCEPT ![n] = m]
    <3>1. n \in 1 .. Len(c[q]) /\ m \in RequestType
      BY <1>1, <2>2 DEF Merges
    <3>2. Replaces(c, d, q, RemoveAt(t, i), c.returned)
      BY <2>2 DEF Merges
    <3>. HIDE DEF m
    <3>3. t \in Seq(RequestType) /\ Len(t) = Len(c[q])
      BY <1>1, <3>1, ExceptSeq
    <3>. HIDE DEF t
    <3>4. Len(RemoveAt(t, i)) = Len(c[q]) - 1
      BY <1>1, <3>3, RemovedAt
    <3>. QED  BY <1>1, <3>2, <3>4 DEF Replaces
  <2>3. CASE Marks(c, d, q, i)
    <3>. DEFINE m == [c[q][i] EXCEPT !.checked = TRUE]
                t == [c[q] EXCEPT ![i] = m]
    <3>1. m \in RequestType /\ Replaces(c, d, q, t, c.returned)
      BY <2>3 DEF Marks
    <3>. HIDE DEF m
    <3>2. Len(t) = Len(c[q])
      BY <1>1, <3>1, ExceptSeq
    <3>. QED  BY <1>1, <3>1, <3>2 DEF Replaces
  <2>. QED  BY <2>1, <2>2, <2>3 DEF Round
<1>4. \A p \in QueueNames : Len(d[p]) <= QueueSize(p)
  <2>1. Len(c[q]) <= QueueSize(q) /\ Len(d[q]) \in Nat
    BY <1>1, <1>3, QueuesOf, SeqParts DEF Fits
  <2>2. Len(d[q]) <= QueueSize(q)
    BY <1>1, <1>2, <1>3, <2>1
  <2>. QED  BY <1>3, <2>2 DEF Fits
<1>. QED  BY <1>3, <1>4 DEF Fits

(* The rounds of check_collision, one after another. *)
Rounds(f, c, N) == f = [n \in 0 .. N |-> IF n = 0 THEN c ELSE CheckStep(f[n - 1])]

LEMMA RoundsExist ==
  ASSUME NEW c, NEW N \in Nat
  PROVE  \E f : Rounds(f, c, N)
<1>. DEFINE X == {n \in Nat : ~\E f : Rounds(f, c, n)}
<1>1. SUFFICES ASSUME X # {} PROVE FALSE
  OBVIOUS
<1>. DEFINE n == Min(X)
<1>2. n \in X /\ \A m \in X : n <= m
  BY <1>1, LeastNumber
<1>3. n \in Nat /\ ~\E f : Rounds(f, c, n)
  BY <1>2
<1>4. n # 0
  <2>1. Rounds([i \in 0..0 |-> c], c, 0)
    BY DEF Rounds
  <2>. QED  BY <2>1, <1>3
<1>. HIDE DEF n
<1>5. n - 1 \in Nat /\ n - 1 \notin X
  <2>1. n - 1 \in Nat /\ ~(n <= n - 1)
    BY <1>3, <1>4
  <2>. QED  BY <2>1, <1>2
<1>6. PICK f : Rounds(f, c, n - 1)
  BY <1>5
<1>. HIDE DEF X
<1>. DEFINE V(h, m) == IF m = 0 THEN c ELSE CheckStep(h[m - 1])
            g == [m \in 0..n |-> IF m < n THEN f[m] ELSE V(f, n)]
<1>7. \A m \in 0..n - 1 : f[m] = V(f, m)
  <2>1. f = [m \in 0..n - 1 |-> V(f, m)]
    BY <1>6 DEF Rounds
  <2>. HIDE DEF V
  <2>. QED  BY <2>1
<1>8. \A m \in 0..n : m # 0 => g[m - 1] = f[m - 1]
  BY <1>3
<1>9. \A m \in 0..n : V(g, m) = V(f, m)
  BY <1>8
<1>10. ASSUME NEW m \in 0..n PROVE g[m] = V(f, m)
  <2>1. CASE m < n
    <3>1. m \in 0..n - 1
      BY <2>1, <1>3
    <3>. QED  BY <2>1, <3>1, <1>7
  <2>2. CASE ~(m < n)
    <3>1. m = n
      BY <2>2, <1>3
    <3>2. g[n] = V(f, n)
      BY <1>3
    <3>. QED  BY <3>1, <3>2
  <2>. QED  BY <2>1, <2>2
<1>11. g = [m \in 0..n |-> g[m]]
  OBVIOUS
<1>. HIDE DEF g
<1>12. g = [m \in 0..n |-> V(g, m)]
  <2>1. \A m \in 0..n : g[m] = V(g, m)
    BY <1>9, <1>10
  <2>. HIDE DEF V
  <2>. QED  BY <1>11, <2>1
<1>13. Rounds(g, c, n)
  BY <1>12 DEF Rounds
<1>. QED  BY <1>13, <1>3

LEMMA CollisionIsRounds ==
  ASSUME NEW c \in ChannelType
  PROVE  \E N \in Nat : \E f :
           /\ f[0] = c /\ (\A n \in 1 .. N : f[n] = CheckStep(f[n - 1]))
           /\ CheckCollision(c) = f[N]
<1>. DEFINE N == Len(c.WQ) + Len(c.RQ) + Len(c.PQ)
            f == CHOOSE f : f = [n \in 0 .. N |-> IF n = 0 THEN c ELSE CheckStep(f[n - 1])]
<1>1. N \in Nat
  BY SeqParts DEF ChannelType
<1>2. Rounds(f, c, N)
  <2>1. \E g : g = [n \in 0 .. N |-> IF n = 0 THEN c ELSE CheckStep(g[n - 1])]
    <3>. HIDE DEF N
    <3>. QED  BY <1>1, RoundsExist DEF Rounds
  <2>2. f = [n \in 0 .. N |-> IF n = 0 THEN c ELSE CheckStep(f[n - 1])]
    BY <2>1
  <2>. QED  BY <2>2 DEF Rounds
<1>3. CheckCollision(c) = f[N]
  BY DEF CheckCollision
<1>. HIDE DEF f, N
<1>4. f[0] = c /\ \A n \in 1 .. N : f[n] = CheckStep(f[n - 1])
  <2>. DEFINE V(m) == IF m = 0 THEN c ELSE CheckStep(f[m - 1])
  <2>1. f = [m \in 0 .. N |-> V(m)]
    BY <1>2 DEF Rounds
  <2>2. \A m \in 0 .. N : f[m] = V(m)
    <3>. HIDE DEF V
    <3>. QED  BY <2>1
  <2>3. 0 \in 0 .. N /\ \A m \in 1 .. N : m \in 0 .. N /\ m # 0
    BY <1>1
  <2>. QED  BY <2>2, <2>3
<1>. QED  BY <1>1, <1>3, <1>4

LEMMA CollisionFits ==
  ASSUME NEW c \in ChannelType, Fits(c)
  PROVE  CheckCollision(c) \in ChannelType /\ Fits(CheckCollision(c))
<1>1. PICK N \in Nat : \E f :
           /\ f[0] = c /\ (\A n \in 1 .. N : f[n] = CheckStep(f[n - 1]))
           /\ CheckCollision(c) = f[N]
  BY CollisionIsRounds
<1>2. PICK f : /\ f[0] = c /\ (\A n \in 1 .. N : f[n] = CheckStep(f[n - 1]))
               /\ CheckCollision(c) = f[N]
  BY <1>1
<1>. DEFINE X == {n \in 0 .. N : ~(f[n] \in ChannelType /\ Fits(f[n]))}
            n == Min(X)
<1>3. SUFFICES ASSUME X # {} PROVE FALSE
  BY <1>2
<1>4. n \in X /\ \A m \in X : n <= m
  <2>1. X \subseteq Nat
    OBVIOUS
  <2>. HIDE DEF X
  <2>. QED  BY <1>3, <2>1, LeastNumber
<1>. HIDE DEF n
<1>5. n \in 1..N /\ n - 1 \in 0..N /\ n - 1 \notin X
  <2>1. n \in 0..N /\ n # 0
    BY <1>2, <1>4
  <2>2. n - 1 \in 0..N /\ ~(n <= n - 1)
    BY <2>1
  <2>. QED  BY <1>4, <2>1, <2>2
<1>6. f[n - 1] \in ChannelType /\ Fits(f[n - 1])
  BY <1>5
<1>. DEFINE d == f[n - 1]
<1>7. f[n] = CheckStep(d)
  BY <1>2, <1>5
<1>8. d \in ChannelType /\ Fits(d)
  BY <1>6
<1>. HIDE DEF d
<1>9. CheckStep(d) \in ChannelType /\ Fits(CheckStep(d))
  BY <1>8, CheckStepIs, RoundFits
<1>. QED  BY <1>4, <1>7, <1>9

-----------------------------------------------------------------------------
(* The invariant.                                                          *)
LowerRequest == [addr : Addr, resp : BOOLEAN]
LowerType == [RQ : Seq(LowerRequest), PQ : Seq(LowerRequest), WQ : Seq(Addr), returned : Seq(Addr)]
TlbType == [RQ : Seq(Addr), returned : Seq(Addr)]
LoopType == [bw : Nat, share : Nat, avail : BOOLEAN, at : Nat \ {0}, checks : Nat]
Sets == {SetOf[b] : b \in Block}
Steps ==
  {"idle", "finish", "fill MSHR", "fill writes", "initiate", "channels", "translate", "hit", "miss"}

Typed ==
  /\ pc \in Steps
  /\ chan \in [Uppers -> ChannelType] /\ \A u \in Uppers : Fits(chan[u])
  /\ upper_levels \in Seq(Uppers) /\ Len(upper_levels) # 0
  /\ block \in [Sets -> [Ways -> LineType]]
  /\ MSHR \in Seq(MissType) /\ inflight_writes \in Seq(FillType)
  /\ inflight_tag_check \in Seq(CheckType) /\ translation_stash \in Seq(CheckType)
  /\ internal_PQ \in Seq(PrefetchType) /\ Len(internal_PQ) <= CACHE_PQ_SIZE
  /\ lower \in LowerType /\ tlb \in TlbType
  /\ loop \in LoopType

(* The pipeline as operate goes along: a channel takes no more than the     *)
(* bandwidth that is left, and the tag checks of a cycle are translated and *)
(* stay in front of the others.                                            *)
Bandwidth == MAX_TAG * HIT_LATENCY
Pipelined ==
  /\ Len(inflight_tag_check) <= Bandwidth
  /\ pc = "channels" => /\ Len(inflight_tag_check) + loop.bw <= Bandwidth
                        /\ loop.at <= 3 * Len(upper_levels) + 1
  /\ pc \in {"hit", "miss"} =>
       /\ loop.checks <= Len(inflight_tag_check) /\ loop.at <= loop.checks + 1
       /\ \A i \in 1 .. loop.checks : inflight_tag_check[i].tr

(* Misses of a block, the requests below that are to be answered, and the   *)
(* answers.                                                                *)
MissOf(b) == {m \in MissType : BlockOf[m.addr] = b}
WaitOf(b) == {m \in MissType : BlockOf[m.addr] = b /\ m.ready = Unknown}
WantOf(b) == {r \in LowerRequest : BlockOf[r.addr] = b /\ r.resp}
CameOf(b) == {a \in Addr : BlockOf[a] = b}

Fetched(m, l, b) ==
  /\ OnceIn(m, MissOf(b))
  /\ OnceIn(l.RQ, WantOf(b)) /\ OnceIn(l.PQ, WantOf(b)) /\ OnceIn(l.returned, CameOf(b))
  /\ ~(SomeIn(l.RQ, WantOf(b)) /\ SomeIn(l.PQ, WantOf(b)))
  /\ ~(SomeIn(l.RQ, WantOf(b)) /\ SomeIn(l.returned, CameOf(b)))
  /\ ~(SomeIn(l.PQ, WantOf(b)) /\ SomeIn(l.returned, CameOf(b)))
  /\ SomeIn(m, WaitOf(b)) <=>
       SomeIn(l.RQ, WantOf(b)) \/ SomeIn(l.PQ, WantOf(b)) \/ SomeIn(l.returned, CameOf(b))

Matched ==
  /\ Len(MSHR) <= MSHR_SIZE
  /\ ReturnedFirst
  /\ \A b \in Block : Fetched(MSHR, lower, b)

Inv == Typed /\ Pipelined /\ Matched

(* A translation of page p is under way in l; those that the requests of s  *)
(* have asked for are.                                                     *)
Coming(l, p) ==
  \/ \E i \in 1 .. Len(l.RQ) : PageOf[l.RQ[i]] = p
  \/ \E i \in 1 .. Len(l.returned) : PageOf[l.returned[i]] = p
Asked(e) == ~e.tr /\ e.issued
Under(s, l) == \A i \in 1 .. Len(s) : Asked(s[i]) => Coming(l, PageOf[s[i].v])
UnderWay == Under(inflight_tag_check, tlb) /\ Under(translation_stash, tlb)

LEMMA UnderFrom ==
  ASSUME NEW s, NEW t, NEW l, Under(s, l),
         \A k \in 1 .. Len(t) :
           Asked(t[k]) => \E j \in 1 .. Len(s) : Asked(s[j]) /\ s[j].v = t[k].v
  PROVE  Under(t, l)
BY DEF Under

LEMMA UnderJoined ==
  ASSUME NEW S, NEW s \in Seq(S), NEW t \in Seq(S), NEW l, Under(s, l), Under(t, l)
  PROVE  Under(s \o t, l)
<1>. SUFFICES ASSUME NEW k \in 1 .. Len(s \o t), Asked((s \o t)[k])
              PROVE  Coming(l, PageOf[(s \o t)[k].v])
  BY DEF Under
<1>1. /\ Len(s \o t) = Len(s) + Len(t) /\ Len(s) \in Nat /\ Len(t) \in Nat
      /\ \A i \in 1 .. Len(s) : (s \o t)[i] = s[i]
      /\ \A i \in 1 .. Len(t) : (s \o t)[Len(s) + i] = t[i]
  BY JoinIs, SeqParts
<1>2. CASE k <= Len(s)
  BY <1>1, <1>2 DEF Under
<1>3. CASE k > Len(s)
  <2>1. k - Len(s) \in 1 .. Len(t) /\ k = Len(s) + (k - Len(s))
    BY <1>1, <1>3
  <2>2. (s \o t)[k] = t[k - Len(s)]
    BY <1>1, <2>1
  <2>. QED  BY <2>1, <2>2 DEF Under
<1>. QED  BY <1>1, <1>2, <1>3

-----------------------------------------------------------------------------
(* Each step keeps the types and the bounds of the pipeline.               *)
Kept == Typed' /\ Pipelined'

LEMMA ChannelsAre ==
  ASSUME Typed, NEW u \in Uppers
  PROVE  chan[u] \in ChannelType /\ Fits(chan[u]) /\ chan \in [Uppers -> ChannelType]
BY DEF Typed

(* A channel gets another queue that is no longer than its room, or other   *)
(* responses.                                                              *)
LEMMA ReplacedFits ==
  ASSUME NEW c \in ChannelType, Fits(c), NEW q \in QueueNames, NEW s \in Seq(RequestType),
         Len(s) <= QueueSize(q), NEW t \in Seq(ResponseType)
  PROVE  /\ [c EXCEPT ![q] = s] \in ChannelType /\ Fits([c EXCEPT ![q] = s])
         /\ [c EXCEPT !.returned = t] \in ChannelType /\ Fits([c EXCEPT !.returned = t])
<1>. DEFINE d == [c EXCEPT ![q] = s]
            e == [c EXCEPT !.returned = t]
<1>1. Replaces(c, d, q, s, c.returned) /\ Replaces(c, e, q, c[q], t)
  BY QueueReplaced
<1>. HIDE DEF d, e
<1>2. d \in ChannelType /\ Fits(d)
  BY <1>1 DEF Replaces, Fits
<1>3. e \in ChannelType /\ Fits(e)
  BY <1>1 DEF Replaces, Fits
<1>. QED  BY <1>2, <1>3 DEF d, e

LEMMA AnswerTyped ==
  ASSUME Typed, NEW to \in SUBSET Uppers, NEW r \in ResponseType
  PROVE  /\ Answer(to, r) \in [Uppers -> ChannelType]
         /\ \A u \in Uppers : Fits(Answer(to, r)[u])
<1>1. ASSUME NEW u \in Uppers
      PROVE  LET d == IF u \in to THEN [chan[u] EXCEPT !.returned = Append(@, r)] ELSE chan[u]
             IN  d \in ChannelType /\ Fits(d)
  <2>. DEFINE c == chan[u]
  <2>1. c \in ChannelType /\ Fits(c)
    BY ChannelsAre
  <2>2. c.returned \in Seq(ResponseType)
    BY <2>1, QueuesOf
  <2>. DEFINE t == Append(c.returned, r)
  <2>3. t \in Seq(ResponseType)
    BY <2>2, AppendIs
  <2>4. [c EXCEPT !.returned = Append(@, r)] = [c EXCEPT !.returned = t]
    OBVIOUS
  <2>5. "WQ" \in QueueNames /\ c.WQ \in Seq(RequestType) /\ Len(c.WQ) <= QueueSize("WQ")
    BY <2>1, QueuesOf DEF QueueNames, Fits
  <2>. HIDE DEF t
  <2>6. [c EXCEPT !.returned = t] \in ChannelType /\ Fits([c EXCEPT !.returned = t])
    BY <2>1, <2>3, <2>5, ReplacedFits
  <2>. QED  BY <2>1, <2>4, <2>6
<1>. QED  BY <1>1 DEF Answer

LEMMA PrefetchTyped ==
  ASSUME Typed, NEW q \in prefetch_line(internal_PQ)
  PROVE  q \in Seq(PrefetchType) /\ Len(q) <= CACHE_PQ_SIZE
<1>1. CASE q = internal_PQ
  BY <1>1 DEF Typed
<1>2. CASE q # internal_PQ
  <2>1. Len(internal_PQ) < CACHE_PQ_SIZE /\ \E t \in PrefetchTargets : q = Append(internal_PQ, PrefetchEntry(t))
    BY <1>2 DEF prefetch_line
  <2>2. PICK t \in PrefetchTargets : q = Append(internal_PQ, PrefetchEntry(t))
    BY <2>1
  <2>3. PrefetchEntry(t) \in PrefetchType
    BY EntryIs
  <2>4. internal_PQ \in Seq(PrefetchType) /\ Len(internal_PQ) \in Nat /\ CACHE_PQ_SIZE \in Nat
    BY SeqParts, Constants DEF Typed
  <2>5. q \in Seq(PrefetchType) /\ Len(q) = Len(internal_PQ) + 1
    BY <2>2, <2>3, <2>4, AppendIs
  <2>. QED  BY <2>1, <2>4, <2>5
<1>. QED  BY <1>1, <1>2

LEMMA CheckCollisionsKeeps ==
  ASSUME Typed, Pipelined, CheckCollisions
  PROVE  Kept
<1>1. \A u \in Uppers : CheckCollision(chan[u]) \in ChannelType /\ Fits(CheckCollision(chan[u]))
  BY ChannelsAre, CollisionFits
<1>2. chan' \in [Uppers -> ChannelType] /\ \A u \in Uppers : Fits(chan'[u])
  BY <1>1 DEF CheckCollisions
<1>3. pc' = "finish" /\ pc' \in Steps
  BY DEF CheckCollisions, Steps
<1>4. Typed'
  BY <1>2, <1>3 DEF CheckCollisions, Typed, cacheVars
<1>5. Pipelined'
  BY <1>3 DEF CheckCollisions, Pipelined, cacheVars
<1>. QED  BY <1>4, <1>5 DEF Kept

LEMMA StartFillsKeeps ==
  ASSUME Typed, Pipelined, StartFills
  PROVE  Kept
<1>1. loop' \in LoopType
  BY Constants DEF StartFills, Typed, LoopType
<1>2. pc' = "fill MSHR" /\ pc' \in Steps
  BY DEF StartFills, Steps
<1>3. Typed'
  BY <1>1, <1>2 DEF StartFills, Typed, cacheVars
<1>4. Pipelined'
  BY <1>2 DEF StartFills, Pipelined, cacheVars
<1>. QED  BY <1>3, <1>4 DEF Kept

LEMMA EndFillsKeeps ==
  ASSUME Typed, Pipelined, NEW q, NEW here, NEW next \in {"fill writes", "initiate"}, EndFills(q, here, next)
  PROVE  Kept
<1>1. pc' \in {"fill writes", "initiate"} /\ pc' \in Steps
  BY DEF EndFills, Steps
<1>2. Typed'
  BY <1>1 DEF EndFills, Typed, cacheVars
<1>3. Pipelined'
  BY <1>1 DEF EndFills, Pipelined, cacheVars
<1>. QED  BY <1>2, <1>3 DEF Kept

LEMMA StartMissesKeeps ==
  ASSUME Typed, Pipelined, StartMisses
  PROVE  Kept
<1>0. loop \in LoopType /\ loop' = [loop EXCEPT !.at = 1] /\ 1 \in Nat \ {0}
  BY DEF StartMisses, Typed
<1>1. /\ loop' \in LoopType /\ loop'.checks = loop.checks /\ loop'.at = 1 /\ loop'.checks \in Nat
  BY <1>0 DEF LoopType
<1>2. pc' = "miss" /\ pc = "hit" /\ pc' \in Steps
  BY DEF StartMisses, Steps
<1>3. Typed'
  BY <1>1, <1>2 DEF StartMisses, Typed, cacheVars
<1>4. Pipelined'
  BY <1>1, <1>2 DEF StartMisses, Pipelined, cacheVars
<1>. QED  BY <1>3, <1>4 DEF Kept

LEMMA AddKeeps ==
  ASSUME Typed, Pipelined, NEW u \in Uppers, NEW q \in QueueNames, NEW r,
         [r EXCEPT !.checked = FALSE] \in RequestType, Add(u, q, r)
  PROVE  Kept
<1>. DEFINE c == chan[u]
            x == [r EXCEPT !.checked = FALSE]
            s == Append(c[q], x)
<1>1. c \in ChannelType /\ Fits(c) /\ chan \in [Uppers -> ChannelType]
  BY ChannelsAre
<1>2. c[q] \in Seq(RequestType) /\ Len(c[q]) \in Nat /\ QueueSize(q) \in Nat /\ Len(c[q]) < QueueSize(q)
      /\ c.returned \in Seq(ResponseType)
  BY <1>1, QueuesOf, SeqParts, Constants DEF Add, HasRoom
<1>3. Added(c, q, r) = [c EXCEPT ![q] = s]
  BY DEF Added
<1>4. chan' = [chan EXCEPT ![u] = Added(c, q, r)]
  BY DEF Add
<1>. HIDE DEF x
<1>5. s \in Seq(RequestType) /\ Len(s) <= QueueSize(q)
  BY <1>2, AppendIs DEF x
<1>. HIDE DEF c, s
<1>6. [c EXCEPT ![q] = s] \in ChannelType /\ Fits([c EXCEPT ![q] = s])
  BY <1>1, <1>2, <1>5, ReplacedFits
<1>7. chan' \in [Uppers -> ChannelType] /\ \A w \in Uppers : Fits(chan'[w])
  BY <1>1, <1>3, <1>4, <1>6, ChannelsAre
<1>8. pc' = pc /\ pc = "idle"
  BY DEF Add
<1>9. Typed'
  BY <1>7, <1>8 DEF Add, Typed, cacheVars
<1>10. Pipelined'
  BY <1>8 DEF Add, Pipelined, cacheVars
<1>. QED  BY <1>9, <1>10 DEF Kept

LEMMA UpperReadKeeps ==
  ASSUME Typed, Pipelined, NEW i \in Ids, UpperRead(i)
  PROVE  Kept
<1>1. Req[i].from \in Uppers /\ Req[i].queue \in QueueNames
  BY RequestsAssumption DEF QueueNames
<1>. QED  BY <1>1, ReadIs, AddKeeps DEF UpperRead

LEMMA UpperWriteKeeps ==
  ASSUME Typed, Pipelined, NEW w \in Writes, UpperWrite(w)
  PROVE  Kept
<1>1. "WQ" \in QueueNames
  BY DEF QueueNames
<1>. QED  BY <1>1, WriteIs, AddKeeps DEF UpperWrite

LEMMA UpperCollectKeeps ==
  ASSUME Typed, Pipelined, NEW u \in Uppers, UpperCollect(u)
  PROVE  Kept
<1>. DEFINE c == chan[u]
            t == Tail(c.returned)
<1>1. c \in ChannelType /\ Fits(c) /\ chan \in [Uppers -> ChannelType]
  BY ChannelsAre
<1>2. c.returned \in Seq(ResponseType) /\ c.returned # <<>>
      /\ "WQ" \in QueueNames /\ c.WQ \in Seq(RequestType) /\ Len(c.WQ) <= QueueSize("WQ")
  BY <1>1, QueuesOf DEF UpperCollect, QueueNames, Fits
<1>3. chan' = [chan EXCEPT ![u] = [c EXCEPT !.returned = t]]
  BY DEF UpperCollect
<1>4. t \in Seq(ResponseType)
  BY <1>2, TailIs
<1>. HIDE DEF c, t
<1>5. [c EXCEPT !.returned = t] \in ChannelType /\ Fits([c EXCEPT !.returned = t])
  BY <1>1, <1>2, <1>4, ReplacedFits
<1>6. chan' \in [Uppers -> ChannelType] /\ \A w \in Uppers : Fits(chan'[w])
  BY <1>1, <1>3, <1>5, ChannelsAre
<1>7. pc' = pc /\ pc = "idle"
  BY DEF UpperCollect
<1>8. Typed'
  BY <1>6, <1>7 DEF UpperCollect, Typed, cacheVars
<1>9. Pipelined'
  BY <1>7 DEF UpperCollect, Pipelined, cacheVars
<1>. QED  BY <1>8, <1>9 DEF Kept

LEMMA LowerReadKeeps ==
  ASSUME Typed, Pipelined, NEW q \in {"RQ", "PQ"}, NEW i \in DOMAIN lower[q], LowerRead(q, i)
  PROVE  /\ Kept
         /\ lower[q] \in Seq(LowerRequest) /\ i \in 1 .. Len(lower[q])
         /\ lower'[q] = RemoveAt(lower[q], i)
         /\ \A p \in {"RQ", "PQ"} : p # q => lower'[p] = lower[p]
         /\ lower'.returned = IF lower[q][i].resp THEN Append(lower.returned, lower[q][i].addr)
                              ELSE lower.returned
<1>. DEFINE s == RemoveAt(lower[q], i)
            t == IF lower[q][i].resp THEN Append(lower.returned, lower[q][i].addr) ELSE lower.returned
<1>1. lower \in LowerType /\ lower[q] \in Seq(LowerRequest) /\ lower.returned \in Seq(Addr)
  BY DEF Typed, LowerType
<1>2. i \in 1 .. Len(lower[q]) /\ lower[q][i] \in LowerRequest
  BY <1>1, SeqParts
<1>3. lower[q][i].addr \in Addr
  BY <1>2 DEF LowerRequest
<1>4. s \in Seq(LowerRequest)
  BY <1>1, <1>2, RemovedAt
<1>5. t \in Seq(Addr)
  BY <1>1, <1>3, AppendIs
<1>6. lower' = [lower EXCEPT ![q] = s, !.returned = t]
  BY <1>1 DEF LowerRead, LowerType
<1>. HIDE DEF s, t
<1>7. /\ lower' \in LowerType /\ lower'[q] = s /\ lower'.returned = t
      /\ \A p \in {"RQ", "PQ"} : p # q => lower'[p] = lower[p]
  <2>1. CASE q = "RQ"
    BY <1>1, <1>4, <1>5, <1>6, <2>1 DEF LowerType
  <2>2. CASE q = "PQ"
    BY <1>1, <1>4, <1>5, <1>6, <2>2 DEF LowerType
  <2>. QED  BY <2>1, <2>2
<1>8. pc' = pc /\ pc = "idle"
  BY DEF LowerRead
<1>9. Typed'
  BY <1>7, <1>8 DEF LowerRead, Typed, cacheVars
<1>10. Pipelined'
  BY <1>8 DEF LowerRead, Pipelined, cacheVars
<1>. QED  BY <1>1, <1>2, <1>7, <1>9, <1>10 DEF Kept, s, t

LEMMA LowerWriteKeeps ==
  ASSUME Typed, Pipelined, LowerWrite
  PROVE  /\ Kept
         /\ lower'.RQ = lower.RQ /\ lower'.PQ = lower.PQ /\ lower'.returned = lower.returned
<1>1. lower \in LowerType /\ lower.WQ \in Seq(Addr) /\ lower.WQ # <<>>
  BY DEF Typed, LowerType, LowerWrite
<1>2. Tail(lower.WQ) \in Seq(Addr)
  BY <1>1, TailIs
<1>3. /\ lower' \in LowerType
      /\ lower'.RQ = lower.RQ /\ lower'.PQ = lower.PQ /\ lower'.returned = lower.returned
  BY <1>1, <1>2 DEF LowerType, LowerWrite
<1>4. pc' = pc /\ pc = "idle"
  BY DEF LowerWrite
<1>5. Typed'
  BY <1>3, <1>4 DEF LowerWrite, Typed, cacheVars
<1>6. Pipelined'
  BY <1>4 DEF LowerWrite, Pipelined, cacheVars
<1>. QED  BY <1>3, <1>5, <1>6 DEF Kept

LEMMA TlbAnswerKeeps ==
  ASSUME Typed, Pipelined, NEW i \in DOMAIN tlb.RQ, TlbAnswer(i)
  PROVE  Kept /\ (UnderWay => UnderWay')
<1>1. tlb.RQ \in Seq(Addr) /\ tlb.returned \in Seq(Addr)
  BY DEF Typed, TlbType
<1>2. i \in 1 .. Len(tlb.RQ) /\ tlb.RQ[i] \in Addr
  BY <1>1, SeqParts
<1>3. RemoveAt(tlb.RQ, i) \in Seq(Addr) /\ Append(tlb.returned, tlb.RQ[i]) \in Seq(Addr)
  BY <1>1, <1>2, RemovedAt, AppendIs
<1>4. tlb' \in TlbType
  BY <1>3 DEF TlbAnswer, TlbType
<1>5. pc' = pc /\ pc = "idle"
  BY DEF TlbAnswer
<1>6. Typed'
  BY <1>4, <1>5 DEF TlbAnswer, Typed, cacheVars
<1>7. Pipelined'
  BY <1>5 DEF TlbAnswer, Pipelined, cacheVars
<1>8. ASSUME UnderWay PROVE UnderWay'
  <2>. DEFINE q == tlb.RQ
              r == tlb.returned
  <2>1. /\ tlb'.RQ = RemoveAt(q, i) /\ tlb'.returned = Append(r, q[i])
        /\ inflight_tag_check' = inflight_tag_check /\ translation_stash' = translation_stash
    BY DEF TlbAnswer, cacheVars
  <2>2. /\ Len(q) \in Nat /\ Len(r) \in Nat
        /\ Len(RemoveAt(q, i)) = Len(q) - 1
        /\ \A k \in 1 .. Len(q) - 1 : /\ k < i => RemoveAt(q, i)[k] = q[k]
                                      /\ k >= i => RemoveAt(q, i)[k] = q[k + 1]
        /\ Len(Append(r, q[i])) = Len(r) + 1
        /\ \A k \in 1 .. Len(r) : Append(r, q[i])[k] = r[k]
        /\ Append(r, q[i])[Len(r) + 1] = q[i]
    <3>1. Len(q) \in Nat /\ Len(r) \in Nat
      BY <1>1, SeqParts
    <3>2. /\ Len(RemoveAt(q, i)) = Len(q) - 1
          /\ \A k \in 1 .. Len(q) - 1 : /\ k < i => RemoveAt(q, i)[k] = q[k]
                                        /\ k >= i => RemoveAt(q, i)[k] = q[k + 1]
      BY <1>1, <1>2, RemovedAt
    <3>3. /\ Len(Append(r, q[i])) = Len(r) + 1
          /\ \A k \in 1 .. Len(r) : Append(r, q[i])[k] = r[k]
          /\ Append(r, q[i])[Len(r) + 1] = q[i]
      BY <1>1, <1>2, AppendIs
    <3>. QED  BY <3>1, <3>2, <3>3
  <2>. HIDE DEF q, r
  <2>3. ASSUME NEW p, Coming(tlb, p) PROVE Coming(tlb', p)
    <3>1. ASSUME NEW k \in 1 .. Len(q), PageOf[q[k]] = p PROVE Coming(tlb', p)
      <4>1. CASE k < i
        <5>1. k \in 1 .. Len(RemoveAt(q, i)) /\ RemoveAt(q, i)[k] = q[k]
          BY <1>2, <2>2, <4>1 DEF q
        <5>. QED  BY <2>1, <3>1, <5>1 DEF Coming
      <4>2. CASE k = i
        <5>1. Len(r) + 1 \in 1 .. Len(Append(r, q[i])) /\ Append(r, q[i])[Len(r) + 1] = q[k]
          BY <2>2, <4>2
        <5>. QED  BY <2>1, <3>1, <5>1 DEF Coming
      <4>3. CASE k > i
        <5>1. k - 1 \in 1 .. Len(RemoveAt(q, i)) /\ RemoveAt(q, i)[k - 1] = q[k]
          BY <1>2, <2>2, <4>3 DEF q
        <5>. QED  BY <2>1, <3>1, <5>1 DEF Coming
      <4>. QED  BY <1>2, <4>1, <4>2, <4>3 DEF q
    <3>2. ASSUME NEW k \in 1 .. Len(r), PageOf[r[k]] = p PROVE Coming(tlb', p)
      <4>1. k \in 1 .. Len(Append(r, q[i])) /\ Append(r, q[i])[k] = r[k]
        BY <2>2
      <4>. QED  BY <2>1, <3>2, <4>1 DEF Coming
    <3>. QED  BY <2>3, <3>1, <3>2 DEF Coming, q, r
  <2>. QED  BY <1>8, <2>1, <2>3 DEF UnderWay, Under
<1>. QED  BY <1>6, <1>7, <1>8 DEF Kept

-----------------------------------------------------------------------------
(* The pipeline and the stash.                                             *)
LEMMA MarkWaitingIs ==
  ASSUME NEW s \in Seq(CheckType), NEW page
  PROVE  /\ MarkWaiting(s, page) \in Seq(CheckType) /\ Len(MarkWaiting(s, page)) = Len(s)
         /\ \A k \in 1 .. Len(s) : Asked(MarkWaiting(s, page)[k]) =>
              MarkWaiting(s, page)[k] = s[k] /\ PageOf[s[k].v] # page
<1>1. Len(s) \in Nat /\ DOMAIN s = 1 .. Len(s) /\ \A i \in 1 .. Len(s) : s[i] \in CheckType
  BY SeqParts
<1>2. \A i \in 1 .. Len(s) : WaitsFor(s[i], page) => MarkTranslated(s[i]) \in CheckType
  BY <1>1, TranslatedIs DEF WaitsFor
<1>. DEFINE V(i) == IF WaitsFor(s[i], page) THEN MarkTranslated(s[i]) ELSE s[i]
            t == [i \in 1 .. Len(s) |-> V(i)]
<1>3. MarkWaiting(s, page) = t
  BY <1>1 DEF MarkWaiting
<1>4. \A i \in 1 .. Len(s) : V(i) \in CheckType
  BY <1>1, <1>2
<1>5. \A k \in 1 .. Len(s) : Asked(V(k)) => V(k) = s[k] /\ PageOf[s[k].v] # page
  <2>1. \A k \in 1 .. Len(s) : WaitsFor(s[k], page) => MarkTranslated(s[k]).tr
    BY <1>1, TranslatedIs DEF WaitsFor
  <2>. QED  BY <2>1 DEF Asked, WaitsFor
<1>. HIDE DEF V
<1>6. t \in [1 .. Len(s) -> CheckType] /\ \A k \in 1 .. Len(s) : t[k] = V(k)
  BY <1>4
<1>. HIDE DEF t
<1>7. t \in Seq(CheckType) /\ Len(t) = Len(s)
  BY <1>1, <1>6, FunctionIsSeq
<1>. QED  BY <1>3, <1>5, <1>6, <1>7

LEMMA RestartedIs ==
  ASSUME NEW s \in Seq(CheckType), NEW page
  PROVE  /\ Restarted(s, page) \in Seq(CheckType)
         /\ \A l : (\A k \in 1 .. Len(s) : Asked(s[k]) /\ PageOf[s[k].v] # page => Coming(l, PageOf[s[k].v]))
                  => Under(Restarted(s, page), l)
<1>. DEFINE n == SpanLength(s, Len(s), LAMBDA e : e.tr)
            I == {i \in 1 .. Len(s) : ~s[i].tr}
            f == IF I # {} THEN Min(I) ELSE 0
            waits == {i \in DOMAIN s : i > n /\ WaitsFor(s[i], page)}
            found == Extracted(s, waits)
            other == Extracted(s, (n + 1 .. Len(s)) \ waits)
            marked == [i \in DOMAIN found |-> MarkTranslated(found[i])]
<1>1. Len(s) \in Nat /\ DOMAIN s = 1 .. Len(s) /\ \A i \in 1 .. Len(s) : s[i] \in CheckType
  BY SeqParts
<1>2. n \in 0 .. Len(s) /\ \A i \in 1 .. n : s[i].tr
  <2>1. n = Smaller(Len(s), IF f = 0 THEN Len(s) ELSE f - 1)
    BY DEF SpanLength, SelectInSeq
  <2>2. I \subseteq 1 .. Len(s) /\ f = (IF I # {} THEN Min(I) ELSE 0)
        /\ \A i \in 1 .. Len(s) : i \notin I => s[i].tr
    OBVIOUS
  <2>. HIDE DEF n, I, f
  <2>3. /\ f \in 0 .. Len(s)
        /\ f # 0 => \A i \in I : f <= i
        /\ f = 0 => I = {}
    BY <1>1, <2>2, FirstIn
  <2>4. n \in 0 .. Len(s) /\ (f # 0 => n < f)
    BY <1>1, <2>1, <2>3 DEF Smaller
  <2>5. \A i \in 1 .. n : i \in 1 .. Len(s) /\ i \notin I
    BY <1>1, <2>3, <2>4
  <2>. QED  BY <2>2, <2>4, <2>5
<1>3. Restarted(s, page) = SubSeq(s, 1, n) \o marked \o other
  BY DEF Restarted
<1>4. \A i \in waits : i \in 1 .. Len(s) /\ ~s[i].tr
  BY <1>1 DEF WaitsFor
<1>14. \A i \in (n + 1 .. Len(s)) \ waits : Asked(s[i]) => PageOf[s[i].v] # page
  BY <1>1, <1>2 DEF Asked, WaitsFor
<1>. HIDE DEF n, waits
<1>5. Embedded(CheckType, found, s, waits, Len(s)) /\ other \in Seq(CheckType)
      /\ Embedded(CheckType, other, s, (n + 1 .. Len(s)) \ waits, Len(s))
  BY ExtractedIs DEF Embedded
<1>. HIDE DEF found, other
<1>6. found \in Seq(CheckType) /\ \A j \in 1 .. Len(found) : found[j] \in CheckType /\ ~found[j].tr
  BY <1>4, <1>5, SeqParts DEF Embedded, Embeds
<1>7. \A j \in 1 .. Len(found) : MarkTranslated(found[j]) \in CheckType
  BY <1>6, TranslatedIs
<1>8. Len(found) \in Nat /\ DOMAIN found = 1 .. Len(found)
  BY <1>6, SeqParts
<1>9. marked \in [1 .. Len(found) -> CheckType]
  BY <1>7, <1>8
<1>15. \A k \in 1 .. Len(found) : ~Asked(marked[k])
  BY <1>6, <1>8, TranslatedIs DEF Asked
<1>. HIDE DEF marked
<1>10. marked \in Seq(CheckType) /\ Len(marked) = Len(found)
  BY <1>8, <1>9, FunctionIsSeq
<1>11. SubSeq(s, 1, n) \in Seq(CheckType) /\ Len(SubSeq(s, 1, n)) = n
       /\ \A i \in 1 .. n : SubSeq(s, 1, n)[i] = s[i]
  BY <1>2, SplitIs
<1>12. SubSeq(s, 1, n) \o marked \in Seq(CheckType)
  BY <1>10, <1>11, JoinIs
<1>13. SubSeq(s, 1, n) \o marked \o other \in Seq(CheckType)
  BY <1>5, <1>12, JoinIs
<1>16. ASSUME NEW l, \A k \in 1 .. Len(s) : Asked(s[k]) /\ PageOf[s[k].v] # page => Coming(l, PageOf[s[k].v])
       PROVE  Under(Restarted(s, page), l)
  <2>1. Under(SubSeq(s, 1, n), l) /\ Under(marked, l)
    BY <1>2, <1>10, <1>11, <1>15 DEF Under, Asked
  <2>2. Under(other, l)
    <3>1. \A k \in 1 .. Len(other) :
            \E i \in 1 .. Len(s) : i \in (n + 1 .. Len(s)) \ waits /\ other[k] = s[i]
      BY <1>5 DEF Embedded, Embeds
    <3>. QED  BY <1>14, <1>16, <3>1 DEF Under
  <2>3. Under(SubSeq(s, 1, n) \o marked, l)
    BY <1>10, <1>11, <2>1, UnderJoined
  <2>. QED  BY <1>3, <1>5, <1>12, <2>2, <2>3, UnderJoined
<1>. QED  BY <1>3, <1>13, <1>16

LEMMA FinishTranslationKeeps ==
  ASSUME Typed, Pipelined, FinishTranslation
  PROVE  Kept /\ (UnderWay => UnderWay')
<1>. DEFINE page == PageOf[Head(tlb.returned)]
<1>1. /\ translation_stash' = Restarted(translation_stash, page)
      /\ inflight_tag_check' = MarkWaiting(inflight_tag_check, page)
      /\ tlb' = [tlb EXCEPT !.returned = Tail(@)] /\ tlb.returned # <<>>
      /\ pc' = "finish" /\ pc' = pc
  BY DEF FinishTranslation
<1>. HIDE DEF page
<1>2. /\ translation_stash' \in Seq(CheckType) /\ inflight_tag_check' \in Seq(CheckType)
      /\ Len(inflight_tag_check') = Len(inflight_tag_check)
  BY <1>1, MarkWaitingIs, RestartedIs DEF Typed
<1>3. tlb' \in TlbType
  BY <1>1, TailIs DEF Typed, TlbType
<1>4. Typed'
  BY <1>1, <1>2, <1>3 DEF FinishTranslation, Typed
<1>5. Pipelined'
  BY <1>1, <1>2 DEF Pipelined, Bandwidth
<1>6. ASSUME UnderWay PROVE UnderWay'
  <2>. DEFINE s == inflight_tag_check
              t == translation_stash
              r == tlb.returned
  <2>1. s \in Seq(CheckType) /\ t \in Seq(CheckType) /\ r \in Seq(Addr) /\ tlb \in TlbType
    BY DEF Typed, TlbType
  <2>2. tlb'.RQ = tlb.RQ /\ tlb'.returned = Tail(r) /\ page = PageOf[r[1]]
    BY <1>1, <2>1, TailIs DEF TlbType, page
  <2>3. /\ Len(r) \in Nat \ {0} /\ Len(Tail(r)) = Len(r) - 1
        /\ \A i \in 1 .. Len(r) - 1 : Tail(r)[i] = r[i + 1]
    BY <1>1, <2>1, TailIs
  <2>4. ASSUME NEW p, Coming(tlb, p), p # page PROVE Coming(tlb', p)
    <3>1. CASE \E i \in 1 .. Len(tlb.RQ) : PageOf[tlb.RQ[i]] = p
      BY <2>2, <3>1 DEF Coming
    <3>2. ASSUME NEW i \in 1 .. Len(r), PageOf[r[i]] = p PROVE Coming(tlb', p)
      <4>1. i # 1
        BY <2>2, <2>4, <3>2
      <4>2. i - 1 \in 1 .. Len(Tail(r)) /\ Tail(r)[i - 1] = r[i]
        BY <2>3, <4>1
      <4>. QED  BY <2>2, <3>2, <4>2 DEF Coming
    <3>. QED  BY <2>4, <3>1, <3>2 DEF Coming
  <2>5. /\ \A k \in 1 .. Len(s) : Asked(s[k]) /\ PageOf[s[k].v] # page => Coming(tlb', PageOf[s[k].v])
        /\ \A k \in 1 .. Len(t) : Asked(t[k]) /\ PageOf[t[k].v] # page => Coming(tlb', PageOf[t[k].v])
    BY <1>6, <2>4 DEF UnderWay, Under
  <2>6. Under(t', tlb')
    BY <1>1, <2>1, <2>5, RestartedIs
  <2>7. Under(s', tlb')
    <3>1. /\ Len(s') = Len(s)
          /\ \A k \in 1 .. Len(s) : Asked(s'[k]) => s'[k] = s[k] /\ PageOf[s[k].v] # page
      BY <1>1, <2>1, MarkWaitingIs
    <3>. QED  BY <2>5, <3>1 DEF Under
  <2>. QED  BY <2>6, <2>7 DEF UnderWay
<1>. QED  BY <1>4, <1>5, <1>6 DEF Kept

LEMMA BandwidthIs ==
  ASSUME Typed, Pipelined
  PROVE  /\ Bandwidth \in Nat /\ Len(inflight_tag_check) \in Nat
         /\ TagBandwidth \in Nat /\ Len(inflight_tag_check) + TagBandwidth <= Bandwidth
<1>1. MAX_TAG \in Nat /\ HIT_LATENCY \in Nat
  BY Constants
<1>2. Bandwidth \in Nat
  BY <1>1 DEF Bandwidth
<1>3. Len(inflight_tag_check) \in Nat /\ Len(inflight_tag_check) <= Bandwidth
  BY SeqParts DEF Typed, Pipelined
<1>4. TagBandwidth = Smaller(MAX_TAG, Larger(0, Bandwidth - Len(inflight_tag_check)))
  BY DEF TagBandwidth, Bandwidth
<1>. QED  BY <1>1, <1>2, <1>3, <1>4 DEF Smaller, Larger

LEMMA InitiateFromStashKeeps ==
  ASSUME Typed, Pipelined, InitiateFromStash
  PROVE  Kept /\ (UnderWay => UnderWay')
<1>. DEFINE s == translation_stash
            n == SpanLength(s, TagBandwidth, LAMBDA e : e.tr)
            I == {i \in 1 .. Len(s) : ~s[i].tr}
            f == IF I # {} THEN Min(I) ELSE 0
            taken == [i \in 1 .. n |-> [s[i] EXCEPT !.event = HIT_LATENCY]]
            left == TagBandwidth - n
            share == Larger(1, left \div Len(upper_levels))
            avail == Len(s) < MSHR_SIZE
<1>1. /\ s \in Seq(CheckType) /\ Len(s) \in Nat /\ \A i \in 1 .. Len(s) : s[i] \in CheckType
      /\ upper_levels \in Seq(Uppers) /\ Len(upper_levels) \in Nat \ {0} /\ upper_levels # <<>>
      /\ TagBandwidth \in Nat
  BY SeqParts, BandwidthIs, EmptySeq DEF Typed
<1>2. n \in 0 .. Len(s) /\ n \in 0 .. TagBandwidth
  <2>1. n = Smaller(TagBandwidth, IF f = 0 THEN Len(s) ELSE f - 1)
    BY DEF SpanLength, SelectInSeq
  <2>2. I \subseteq 1 .. Len(s)
    OBVIOUS
  <2>3. f = IF I # {} THEN Min(I) ELSE 0
    OBVIOUS
  <2>. HIDE DEF n, I, f, s
  <2>4. f \in 0 .. Len(s)
    BY <1>1, <2>2, <2>3, FirstIn
  <2>. QED  BY <1>1, <2>1, <2>4 DEF Smaller
<1>3. /\ inflight_tag_check' = inflight_tag_check \o taken
      /\ translation_stash' = Rest(s, n)
      /\ upper_levels' = Rest(upper_levels, 1) \o <<upper_levels[1]>>
      /\ loop' = [loop EXCEPT !.bw = left, !.at = 1, !.share = share, !.avail = avail]
      /\ pc' = "channels"
  BY DEF InitiateFromStash
<1>. HIDE DEF n
<1>4. taken \in Seq(CheckType) /\ Len(taken) = n
  <2>1. ASSUME NEW i \in 1 .. n PROVE [s[i] EXCEPT !.event = HIT_LATENCY] \in CheckType
    <3>1. s[i] \in CheckType
      BY <1>1, <1>2
    <3>. QED  BY <3>1, CheckUpdates
  <2>2. taken \in [1 .. n -> CheckType]
    BY <2>1
  <2>. HIDE DEF taken
  <2>. QED  BY <1>2, <2>2, FunctionIsSeq
<1>16. \A k \in 1 .. n : Asked(taken[k]) => Asked(s[k]) /\ s[k].v = taken[k].v
  <2>1. ASSUME NEW k \in 1 .. n PROVE taken[k].tr = s[k].tr /\ taken[k].issued = s[k].issued /\ taken[k].v = s[k].v
    <3>1. s[k] \in CheckFields
      BY <1>1, <1>2 DEF CheckType
    <3>. QED  BY <3>1 DEF CheckFields
  <2>. QED  BY <2>1 DEF Asked
<1>5. translation_stash' \in Seq(CheckType)
  BY <1>1, <1>2, <1>3, SplitIs
<1>17. \A k \in 1 .. Len(Rest(s, n)) : n + k \in 1 .. Len(s) /\ Rest(s, n)[k] = s[n + k]
  BY <1>1, <1>2, SplitIs
<1>. HIDE DEF taken, s
<1>6. /\ inflight_tag_check' \in Seq(CheckType)
      /\ Len(inflight_tag_check') = Len(inflight_tag_check) + n
  BY <1>3, <1>4, JoinIs DEF Typed
<1>7. upper_levels' \in Seq(Uppers) /\ Len(upper_levels') = Len(upper_levels)
  <2>1. upper_levels[1] \in Uppers /\ 1 \in 0 .. Len(upper_levels)
    BY <1>1, SeqParts
  <2>2. Rest(upper_levels, 1) \in Seq(Uppers) /\ Len(Rest(upper_levels, 1)) = Len(upper_levels) - 1
    BY <1>1, <2>1, SplitIs
  <2>3. <<upper_levels[1]>> \in Seq(Uppers) /\ Len(<<upper_levels[1]>>) = 1
    BY <2>1
  <2>. QED  BY <1>1, <1>3, <2>2, <2>3, JoinIs
<1>8. left \in Nat
  BY <1>1, <1>2
<1>9. share \in Nat
  <2>. HIDE DEF left
  <2>1. left \div Len(upper_levels) \in Nat
    BY <1>1, <1>8
  <2>. QED  BY <2>1 DEF Larger
<1>10. avail \in BOOLEAN
  OBVIOUS
<1>11. loop' \in LoopType /\ loop'.bw = left /\ loop'.at = 1
  <2>. HIDE DEF left, share, avail
  <2>1. loop \in LoopType /\ 1 \in Nat \ {0}
    BY DEF Typed
  <2>2. loop' \in LoopType
    BY <1>3, <1>8, <1>9, <1>10, <2>1 DEF LoopType
  <2>3. loop'.bw = left /\ loop'.at = 1
    BY <1>3, <2>1 DEF LoopType
  <2>. QED  BY <2>2, <2>3
<1>12. pc' \in Steps
  BY <1>3 DEF Steps
<1>13. Typed'
  BY <1>1, <1>5, <1>6, <1>7, <1>11, <1>12 DEF InitiateFromStash, Typed
<1>14. Len(inflight_tag_check') + loop'.bw <= Bandwidth /\ Len(inflight_tag_check') <= Bandwidth
  BY <1>1, <1>2, <1>6, <1>8, <1>11, BandwidthIs
<1>15. Pipelined'
  BY <1>1, <1>3, <1>7, <1>11, <1>14 DEF Pipelined, Bandwidth
<1>18. ASSUME UnderWay PROVE UnderWay'
  <2>1. tlb' = tlb /\ Under(inflight_tag_check, tlb) /\ Under(s, tlb)
    BY <1>18 DEF InitiateFromStash, UnderWay, s
  <2>2. Under(taken, tlb) /\ Under(Rest(s, n), tlb)
    <3>1. Under(taken, tlb)
      <4>1. \A k \in 1 .. n : k \in 1 .. Len(s)
        BY <1>1, <1>2
      <4>. QED  BY <1>4, <1>16, <2>1, <4>1, UnderFrom
    <3>2. Under(Rest(s, n), tlb)
      <4>1. \A k \in 1 .. Len(Rest(s, n)) : \E j \in 1 .. Len(s) : Rest(s, n)[k] = s[j]
        BY <1>17
      <4>. QED  BY <2>1, <4>1, UnderFrom
    <3>. QED  BY <3>1, <3>2
  <2>3. Under(inflight_tag_check', tlb)
    BY <1>3, <1>4, <2>1, <2>2, UnderJoined DEF Typed
  <2>. QED  BY <1>3, <2>1, <2>2, <2>3 DEF UnderWay
<1>. QED  BY <1>13, <1>15, <1>18 DEF Kept

LEMMA InitiateFromChannelKeeps ==
  ASSUME Typed, Pipelined, InitiateFromChannel
  PROVE  Kept /\ (UnderWay => UnderWay')
<1>. DEFINE k == ((loop.at - 1) \div 3) + 1
            u == upper_levels[k]
            j == ((loop.at - 1) % 3) + 1
            q == <<"WQ", "RQ", "PQ">>[j]
            s == chan[u][q]
            n == SpanLength(s, Smaller(loop.share, loop.bw), Admitted)
            I == {i \in 1 .. Len(s) : ~Admitted(s[i])}
            f == IF I # {} THEN Min(I) ELSE 0
            to(i) == IF SubSeq(s, 1, n)[i].resp THEN {u} ELSE {}
            taken == [i \in 1 .. n |-> TagCheck(SubSeq(s, 1, n)[i], to(i), FALSE, FALSE)]
<1>1. /\ upper_levels \in Seq(Uppers) /\ Len(upper_levels) \in Nat \ {0}
      /\ loop \in LoopType /\ loop.at \in Nat \ {0} /\ loop.bw \in Nat /\ loop.share \in Nat
      /\ loop.at <= 3 * Len(upper_levels)
      /\ pc = "channels"
  BY SeqParts DEF Typed, LoopType, InitiateFromChannel
<1>2. u \in Uppers
  <2>1. k \in 1 .. Len(upper_levels)
    BY <1>1
  <2>. HIDE DEF k
  <2>. QED  BY <1>1, <2>1, SeqParts
<1>3. q \in QueueNames
  <2>1. j \in {1, 2, 3}
    BY <1>1
  <2>. HIDE DEF j
  <2>. QED  BY <2>1 DEF QueueNames
<1>4. /\ inflight_tag_check' = inflight_tag_check \o taken
      /\ chan' = [chan EXCEPT ![u][q] = Rest(s, n)]
      /\ loop' = [loop EXCEPT !.bw = loop.bw - n, !.at = loop.at + 1]
      /\ pc' = pc /\ upper_levels' = upper_levels
  BY DEF InitiateFromChannel
<1>6. n = Smaller(Smaller(loop.share, loop.bw), IF f = 0 THEN Len(s) ELSE f - 1)
  BY DEF SpanLength, SelectInSeq
<1>. HIDE DEF u, q
<1>7. /\ chan[u] \in ChannelType /\ Fits(chan[u]) /\ chan \in [Uppers -> ChannelType]
      /\ s \in Seq(RequestType) /\ chan[u].returned \in Seq(ResponseType) /\ Len(s) \in Nat
      /\ Len(s) <= QueueSize(q) /\ QueueSize(q) \in Nat
  <2>1. chan[u] \in ChannelType /\ Fits(chan[u]) /\ chan \in [Uppers -> ChannelType]
    BY <1>2, ChannelsAre
  <2>. QED  BY <1>3, <2>1, QueuesOf, SeqParts, Constants DEF Fits
<1>8. n \in 0 .. Len(s) /\ n <= loop.bw
  <2>1. I \subseteq 1 .. Len(s) /\ f = IF I # {} THEN Min(I) ELSE 0
    OBVIOUS
  <2>. HIDE DEF n, I, f, s
  <2>2. f \in 0 .. Len(s)
    BY <1>7, <2>1, FirstIn
  <2>3. Smaller(loop.share, loop.bw) \in Nat /\ Smaller(loop.share, loop.bw) <= loop.bw
    BY <1>1 DEF Smaller
  <2>. QED  BY <1>1, <1>6, <1>7, <2>2, <2>3 DEF Smaller
<1>9. \A i \in 1 .. n : SubSeq(s, 1, n)[i] \in RequestType
  <2>. HIDE DEF n, s
  <2>. QED  BY <1>7, <1>8, SplitIs, SeqParts
<1>10. taken \in Seq(CheckType) /\ Len(taken) = n
  <2>1. \A i \in 1 .. n : to(i) \in SUBSET Uppers
    BY <1>2
  <2>. HIDE DEF n, s, to
  <2>2. \A i \in 1 .. n : TagCheck(SubSeq(s, 1, n)[i], to(i), FALSE, FALSE) \in CheckType
    BY <1>9, <2>1, RequestCheckIs
  <2>3. taken \in [1 .. n -> CheckType]
    BY <2>2
  <2>. HIDE DEF taken
  <2>. QED  BY <1>7, <1>8, <2>3, FunctionIsSeq
<1>18. \A i \in 1 .. n : ~Asked(taken[i])
  BY DEF TagCheck, Asked
<1>. HIDE DEF n, taken
<1>11. /\ inflight_tag_check' \in Seq(CheckType)
       /\ Len(inflight_tag_check') = Len(inflight_tag_check) + n
  BY <1>4, <1>10, JoinIs DEF Typed
<1>12. chan' \in [Uppers -> ChannelType] /\ \A w \in Uppers : Fits(chan'[w])
  <2>. DEFINE t == Rest(s, n)
              d == [chan[u] EXCEPT ![q] = t]
  <2>1. t \in Seq(RequestType) /\ Len(t) <= QueueSize(q)
    BY <1>7, <1>8, SplitIs
  <2>. HIDE DEF t
  <2>2. d \in ChannelType /\ Fits(d)
    BY <1>3, <1>7, <2>1, ReplacedFits
  <2>3. chan' = [chan EXCEPT ![u] = d]
    BY <1>4 DEF t
  <2>. HIDE DEF d
  <2>. QED  BY <1>2, <1>7, <2>2, <2>3, ChannelsAre
<1>13. loop' \in LoopType /\ loop'.bw = loop.bw - n /\ loop'.at = loop.at + 1
  <2>. DEFINE b == loop.bw - n
              a == loop.at + 1
  <2>1. b \in Nat /\ a \in Nat \ {0}
    BY <1>1, <1>7, <1>8
  <2>2. loop' = [loop EXCEPT !.bw = b, !.at = a]
    BY <1>4
  <2>. HIDE DEF a, b
  <2>3. loop' \in LoopType /\ loop'.bw = b /\ loop'.at = a
    BY <1>1, <2>1, <2>2 DEF LoopType
  <2>. QED  BY <2>3 DEF a, b
<1>14. pc' \in Steps
  BY <1>1, <1>4 DEF Steps
<1>15. Typed'
  BY <1>11, <1>12, <1>13, <1>14 DEF InitiateFromChannel, Typed
<1>16. /\ Len(inflight_tag_check') <= Bandwidth
       /\ Len(inflight_tag_check') + loop'.bw <= Bandwidth
       /\ loop'.at <= 3 * Len(upper_levels') + 1
  <2>1. Len(inflight_tag_check) + loop.bw <= Bandwidth
    BY <1>1 DEF Pipelined
  <2>2. n \in Nat /\ n <= loop.bw /\ Bandwidth \in Nat /\ Len(inflight_tag_check) \in Nat
    BY <1>7, <1>8, BandwidthIs
  <2>3. loop'.at <= 3 * Len(upper_levels') + 1
    BY <1>1, <1>4, <1>13
  <2>. QED  BY <1>1, <1>11, <1>13, <2>1, <2>2, <2>3
<1>17. Pipelined'
  BY <1>1, <1>4, <1>16 DEF Pipelined, Bandwidth
<1>19. ASSUME UnderWay PROVE UnderWay'
  <2>1. tlb' = tlb /\ translation_stash' = translation_stash /\ Under(taken, tlb)
    BY <1>10, <1>18 DEF InitiateFromChannel, Under
  <2>2. Under(inflight_tag_check', tlb)
    BY <1>4, <1>10, <1>19, <2>1, UnderJoined DEF Typed, UnderWay
  <2>. QED  BY <1>19, <2>1, <2>2 DEF UnderWay
<1>. QED  BY <1>15, <1>17, <1>19 DEF Kept

LEMMA InitiateFromPrefetchesKeeps ==
  ASSUME Typed, Pipelined, InitiateFromPrefetches
  PROVE  Kept /\ (UnderWay => UnderWay')
<1>. DEFINE s == internal_PQ
            n == SpanLength(s, loop.bw, Admitted)
            I == {i \in 1 .. Len(s) : ~Admitted(s[i])}
            f == IF I # {} THEN Min(I) ELSE 0
            taken == [i \in 1 .. n |-> TagCheck(s[i], {}, s[i].skip, TRUE)]
<1>1. /\ s \in Seq(PrefetchType) /\ Len(s) \in Nat /\ Len(s) <= CACHE_PQ_SIZE
      /\ CACHE_PQ_SIZE \in Nat
      /\ loop.bw \in Nat
      /\ pc = "channels"
  BY SeqParts, Constants DEF Typed, LoopType, InitiateFromPrefetches
<1>2. /\ inflight_tag_check' = inflight_tag_check \o taken
      /\ internal_PQ' = Rest(s, n)
      /\ pc' = "translate"
  BY DEF InitiateFromPrefetches
<1>3. n = Smaller(loop.bw, IF f = 0 THEN Len(s) ELSE f - 1)
  BY DEF SpanLength, SelectInSeq
<1>4. n \in 0 .. Len(s) /\ n <= loop.bw
  <2>1. I \subseteq 1 .. Len(s) /\ f = IF I # {} THEN Min(I) ELSE 0
    OBVIOUS
  <2>. HIDE DEF n, I, f, s
  <2>2. f \in 0 .. Len(s)
    BY <1>1, <2>1, FirstIn
  <2>. QED  BY <1>1, <1>3, <2>2 DEF Smaller
<1>. HIDE DEF n, s
<1>5. taken \in Seq(CheckType) /\ Len(taken) = n
  <2>1. \A i \in 1 .. n : s[i] \in PrefetchType
    BY <1>1, <1>4, SeqParts
  <2>2. \A i \in 1 .. n : TagCheck(s[i], {}, s[i].skip, TRUE) \in CheckType
    BY <2>1, PrefetchCheckIs
  <2>3. taken \in [1 .. n -> CheckType]
    BY <2>2
  <2>. HIDE DEF taken
  <2>. QED  BY <1>1, <1>4, <2>3, FunctionIsSeq
<1>12. \A k \in 1 .. n : ~Asked(taken[k])
  BY DEF TagCheck, Asked
<1>. HIDE DEF taken
<1>6. /\ inflight_tag_check' \in Seq(CheckType)
      /\ Len(inflight_tag_check') = Len(inflight_tag_check) + n
  BY <1>2, <1>5, JoinIs DEF Typed
<1>7. internal_PQ' \in Seq(PrefetchType) /\ Len(internal_PQ') <= CACHE_PQ_SIZE
  BY <1>1, <1>2, <1>4, SplitIs
<1>8. pc' \in Steps
  BY <1>2 DEF Steps
<1>9. Typed'
  BY <1>6, <1>7, <1>8 DEF InitiateFromPrefetches, Typed
<1>10. Len(inflight_tag_check') <= Bandwidth
  <2>1. Len(inflight_tag_check) + loop.bw <= Bandwidth
    BY <1>1 DEF Pipelined
  <2>. QED  BY <1>1, <1>4, <1>6, <2>1, BandwidthIs
<1>11. Pipelined'
  BY <1>2, <1>10 DEF Pipelined, Bandwidth
<1>13. ASSUME UnderWay PROVE UnderWay'
  <2>1. tlb' = tlb /\ translation_stash' = translation_stash /\ Under(taken, tlb)
    BY <1>5, <1>12 DEF InitiateFromPrefetches, Under
  <2>2. Under(inflight_tag_check', tlb)
    BY <1>2, <1>5, <1>13, <2>1, UnderJoined DEF Typed, UnderWay
  <2>. QED  BY <1>13, <2>1, <2>2 DEF UnderWay
<1>. QED  BY <1>9, <1>11, <1>13 DEF Kept

LEMMA IssueTranslationKeeps ==
  ASSUME Typed, Pipelined, IssueTranslation
  PROVE  Kept /\ (UnderWay => UnderWay')
<1>. DEFINE s == inflight_tag_check
            t == translation_stash
            i == SelectInSeq(s, NeedsIssue)
            j == SelectInSeq(t, NeedsIssue)
            I == {x \in 1 .. Len(s) : NeedsIssue(s[x])}
            J == {x \in 1 .. Len(t) : NeedsIssue(t[x])}
            v == IF i # 0 THEN s[i].v ELSE t[j].v
            e == [s[i] EXCEPT !.issued = TRUE]
            g == [t[j] EXCEPT !.issued = TRUE]
<1>1. /\ s \in Seq(CheckType) /\ t \in Seq(CheckType) /\ Len(s) \in Nat /\ Len(t) \in Nat
      /\ \A x \in 1 .. Len(s) : s[x] \in CheckType
      /\ \A x \in 1 .. Len(t) : t[x] \in CheckType
      /\ tlb \in TlbType /\ tlb.RQ \in Seq(Addr) /\ tlb.returned \in Seq(Addr)
  BY SeqParts DEF Typed, TlbType
<1>2. i \in 0 .. Len(s) /\ (i # 0 => i \in 1 .. Len(s) /\ NeedsIssue(s[i]))
  <2>1. i = (IF I # {} THEN Min(I) ELSE 0) /\ I \subseteq 1 .. Len(s)
    BY DEF SelectInSeq
  <2>. HIDE DEF i, I
  <2>2. i \in 0 .. Len(s) /\ (i # 0 => i \in I)
    BY <1>1, <2>1, FirstIn
  <2>. QED  BY <2>2 DEF I
<1>3. j \in 0 .. Len(t) /\ (j # 0 => j \in 1 .. Len(t) /\ NeedsIssue(t[j]))
  <2>1. j = (IF J # {} THEN Min(J) ELSE 0) /\ J \subseteq 1 .. Len(t)
    BY DEF SelectInSeq
  <2>. HIDE DEF j, J
  <2>2. j \in 0 .. Len(t) /\ (j # 0 => j \in J)
    BY <1>1, <2>1, FirstIn
  <2>. QED  BY <2>2 DEF J
<1>4. /\ i # 0 \/ j # 0
      /\ tlb' = [tlb EXCEPT !.RQ = Append(@, v)]
      /\ i # 0 => s' = [s EXCEPT ![i] = e] /\ t' = t
      /\ i = 0 => t' = [t EXCEPT ![j] = g] /\ s' = s
      /\ pc' = pc /\ pc = "translate"
  BY DEF IssueTranslation
<1>. HIDE DEF i, j
<1>5. v \in Addr
  <2>1. \A c \in CheckType : ~c.tr => c.v \in Addr
    BY DEF CheckType, Virtual
  <2>. QED  BY <1>1, <1>2, <1>3, <1>4, <2>1 DEF NeedsIssue
<1>. HIDE DEF v
<1>6. tlb' \in TlbType
  <2>1. Append(tlb.RQ, v) \in Seq(Addr)
    BY <1>1, <1>5, AppendIs
  <2>. QED  BY <1>1, <1>4, <2>1 DEF TlbType
<1>7. s' \in Seq(CheckType) /\ Len(s') = Len(s)
  <2>1. CASE i # 0
    <3>1. e \in CheckType
      BY <1>1, <1>2, <2>1, CheckUpdates
    <3>. HIDE DEF e
    <3>. QED  BY <1>1, <1>2, <1>4, <2>1, <3>1, ExceptSeq
  <2>2. CASE i = 0
    BY <1>1, <1>4, <2>2
  <2>. QED  BY <2>1, <2>2
<1>8. t' \in Seq(CheckType)
  <2>1. CASE i = 0
    <3>1. j \in 1 .. Len(t)
      BY <1>3, <1>4, <2>1
    <3>2. g \in CheckType
      BY <1>1, <3>1, CheckUpdates
    <3>. HIDE DEF g
    <3>. QED  BY <1>1, <1>4, <2>1, <3>1, <3>2, ExceptSeq
  <2>2. CASE i # 0
    BY <1>1, <1>4, <2>2
  <2>. QED  BY <2>1, <2>2
<1>9. Typed'
  BY <1>4, <1>6, <1>7, <1>8 DEF IssueTranslation, Typed
<1>10. Pipelined'
  BY <1>4, <1>7 DEF Pipelined, Bandwidth
<1>11. ASSUME UnderWay PROVE UnderWay'
  <2>1. /\ tlb'.RQ = Append(tlb.RQ, v) /\ tlb'.returned = tlb.returned
        /\ Len(Append(tlb.RQ, v)) = Len(tlb.RQ) + 1 /\ Len(tlb.RQ) \in Nat
        /\ Append(tlb.RQ, v)[Len(tlb.RQ) + 1] = v
        /\ \A k \in 1 .. Len(tlb.RQ) : Append(tlb.RQ, v)[k] = tlb.RQ[k]
    BY <1>1, <1>4, <1>5, AppendIs, SeqParts DEF TlbType
  <2>2. Coming(tlb', PageOf[v])
    <3>1. Len(tlb.RQ) + 1 \in 1 .. Len(tlb'.RQ) /\ tlb'.RQ[Len(tlb.RQ) + 1] = v
      BY <2>1
    <3>. QED  BY <3>1 DEF Coming
  <2>3. ASSUME NEW p, Coming(tlb, p) PROVE Coming(tlb', p)
    <3>1. \A k \in 1 .. Len(tlb.RQ) : k \in 1 .. Len(tlb'.RQ) /\ tlb'.RQ[k] = tlb.RQ[k]
      BY <2>1
    <3>. QED  BY <2>1, <2>3, <3>1 DEF Coming
  <2>4. Under(s, tlb') /\ Under(t, tlb')
    BY <1>11, <2>3 DEF UnderWay, Under
  <2>5. CASE i # 0
    <3>1. i \in 1 .. Len(s) /\ s[i] \in CheckFields /\ v = s[i].v /\ e.v = s[i].v
      BY <1>1, <1>2, <2>5 DEF v, CheckType, CheckFields
    <3>. HIDE DEF e
    <3>2. s'[i] = e /\ \A k \in 1 .. Len(s) : k # i => s'[k] = s[k]
      <4>1. s \in [1 .. Len(s) -> CheckType]
        BY <1>1, LenProperties, ElementOfSeq
      <4>. QED  BY <1>4, <2>5, <3>1, <4>1
    <3>3. Under(s', tlb')
      BY <1>7, <2>2, <2>4, <3>1, <3>2 DEF Under
    <3>. QED  BY <1>4, <2>4, <2>5, <3>3 DEF UnderWay
  <2>6. CASE i = 0
    <3>1. j \in 1 .. Len(t) /\ t[j] \in CheckFields /\ v = t[j].v /\ g.v = t[j].v
      BY <1>1, <1>3, <1>4, <2>6 DEF v, CheckType, CheckFields
    <3>. HIDE DEF g
    <3>2. Len(t') = Len(t) /\ t'[j] = g /\ \A k \in 1 .. Len(t) : k # j => t'[k] = t[k]
      <4>1. t \in [1 .. Len(t) -> CheckType]
        BY <1>1, LenProperties, ElementOfSeq
      <4>2. t' \in [1 .. Len(t) -> {t'[k] : k \in 1 .. Len(t)}]
        BY <1>4, <2>6, <4>1
      <4>3. Len(t') = Len(t)
        BY <1>1, <4>2, FunctionIsSeq
      <4>. QED  BY <1>4, <2>6, <3>1, <4>1, <4>3
    <3>3. Under(t', tlb')
      BY <2>2, <2>4, <3>1, <3>2 DEF Under
    <3>. QED  BY <1>4, <2>4, <2>6, <3>3 DEF UnderWay
  <2>. QED  BY <2>5, <2>6
<1>. QED  BY <1>9, <1>10, <1>11 DEF Kept

LEMMA StashUntranslatedKeeps ==
  ASSUME Typed, Pipelined, StashUntranslated
  PROVE  Kept /\ (UnderWay => UnderWay')
<1>. DEFINE s == inflight_tag_check
            missed == {i \in DOMAIN s : IsReady(s[i]) /\ ~s[i].tr}
            kept == Extracted(s, DOMAIN s \ missed)
            gone == Extracted(s, missed)
            I == {i \in 1 .. Len(kept) : ~(IsReady(kept[i]) /\ kept[i].tr)}
            f == IF I # {} THEN Min(I) ELSE 0
            n == SpanLength(kept, MAX_TAG, LAMBDA e : IsReady(e) /\ e.tr)
<1>1. /\ s' = kept
      /\ translation_stash' = translation_stash \o gone
      /\ loop' = [loop EXCEPT !.at = 1, !.checks = n]
      /\ pc' = "hit" /\ pc' \in Steps
  BY DEF StashUntranslated, Steps
<1>2. n = Smaller(MAX_TAG, IF f = 0 THEN Len(kept) ELSE f - 1)
  BY DEF SpanLength, SelectInSeq
<1>3. /\ kept \in Seq(CheckType) /\ Len(kept) \in Nat /\ Len(kept) <= Len(s)
      /\ gone \in Seq(CheckType)
      /\ \A k \in 1 .. Len(kept) : \E i \in 1 .. Len(s) : kept[k] = s[i]
      /\ \A k \in 1 .. Len(gone) : \E i \in 1 .. Len(s) : gone[k] = s[i]
  <2>1. s \in Seq(CheckType)
    BY DEF Typed
  <2>. DEFINE stays == DOMAIN s \ missed
  <2>. HIDE DEF missed, stays
  <2>2. Embedded(CheckType, Extracted(s, stays), s, stays, Len(s))
        /\ Embedded(CheckType, gone, s, missed, Len(s))
    BY <2>1, ExtractedIs
  <2>3. kept = Extracted(s, stays)
    BY DEF stays
  <2>. HIDE DEF kept, gone
  <2>4. /\ kept \in Seq(CheckType) /\ Len(kept) <= Len(s) /\ gone \in Seq(CheckType)
        /\ \A k \in 1 .. Len(kept) : \E i \in 1 .. Len(s) : kept[k] = s[i]
        /\ \A k \in 1 .. Len(gone) : \E i \in 1 .. Len(s) : gone[k] = s[i]
    BY <2>2, <2>3 DEF Embedded, Embeds
  <2>. QED  BY <2>4, SeqParts
<1>. HIDE DEF kept, gone, n
<1>4. n \in Nat /\ n <= Len(kept) /\ \A i \in 1 .. n : kept[i].tr
  <2>1. f = (IF I # {} THEN Min(I) ELSE 0) /\ I \subseteq 1 .. Len(kept)
    OBVIOUS
  <2>2. \A i \in 1 .. Len(kept) : i \notin I => kept[i].tr
    OBVIOUS
  <2>. HIDE DEF f, I
  <2>3. /\ f \in 0 .. Len(kept)
        /\ f # 0 => \A i \in I : f <= i
        /\ f = 0 => I = {}
    BY <1>3, <2>1, FirstIn
  <2>4. n \in 0 .. Len(kept) /\ (f # 0 => n < f)
    BY <1>2, <1>3, <2>3, Constants DEF Smaller
  <2>5. \A i \in 1 .. n : i \in 1 .. Len(kept) /\ i \notin I
    BY <1>3, <2>3, <2>4
  <2>. QED  BY <1>3, <2>2, <2>4, <2>5
<1>5. translation_stash' \in Seq(CheckType)
  BY <1>1, <1>3, JoinIs DEF Typed
<1>6. loop' \in LoopType /\ loop'.at = 1 /\ loop'.checks = n
  <2>1. loop \in LoopType /\ 1 \in Nat \ {0}
    BY DEF Typed
  <2>2. loop' \in LoopType
    BY <1>1, <1>4, <2>1 DEF LoopType
  <2>. QED  BY <1>1, <2>1, <2>2 DEF LoopType
<1>7. Typed'
  BY <1>1, <1>3, <1>5, <1>6 DEF StashUntranslated, Typed
<1>8. Len(s') <= Bandwidth
  BY <1>1, <1>3, BandwidthIs DEF Pipelined
<1>9. Pipelined'
  BY <1>1, <1>4, <1>6, <1>8 DEF Pipelined, Bandwidth
<1>10. ASSUME UnderWay PROVE UnderWay'
  <2>1. tlb' = tlb /\ Under(s, tlb) /\ Under(translation_stash, tlb)
    BY <1>10 DEF StashUntranslated, UnderWay
  <2>. HIDE DEF s
  <2>2. Under(kept, tlb) /\ Under(gone, tlb)
    BY <1>3, <2>1 DEF Under
  <2>3. Under(translation_stash', tlb)
    BY <1>1, <1>3, <2>1, <2>2, UnderJoined DEF Typed
  <2>. QED  BY <1>1, <2>1, <2>2, <2>3 DEF UnderWay, s
<1>. QED  BY <1>7, <1>9, <1>10 DEF Kept

-----------------------------------------------------------------------------
(* The tag checks.                                                         *)
LEMMA SetIs ==
  ASSUME NEW a \in Addr
  PROVE  BlockOf[a] \in Block /\ SetOf[BlockOf[a]] \in Sets
BY BlockOfAssumption DEF Sets

LEMMA PacketIs ==
  ASSUME Typed, Pipelined, pc \in {"hit", "miss"}, loop.at <= loop.checks
  PROVE  /\ loop.at \in 1 .. Len(inflight_tag_check) /\ loop.at \in 1 .. loop.checks
         /\ Packet \in CheckType /\ Packet.tr /\ Packet.addr \in Addr
         /\ inflight_tag_check \in Seq(CheckType) /\ Len(inflight_tag_check) \in Nat
         /\ loop \in LoopType /\ loop.checks \in Nat /\ loop.at \in Nat \ {0}
<1>1. /\ inflight_tag_check \in Seq(CheckType) /\ Len(inflight_tag_check) \in Nat
      /\ loop \in LoopType /\ loop.checks \in Nat /\ loop.at \in Nat \ {0}
  BY SeqParts DEF Typed, LoopType
<1>2. loop.checks <= Len(inflight_tag_check) /\ \A i \in 1 .. loop.checks : inflight_tag_check[i].tr
  BY DEF Pipelined
<1>3. loop.at \in 1 .. Len(inflight_tag_check) /\ loop.at \in 1 .. loop.checks
  BY <1>1, <1>2
<1>4. Packet \in CheckType /\ Packet.tr
  BY <1>1, <1>2, <1>3, SeqParts DEF Packet
<1>. QED  BY <1>1, <1>3, <1>4 DEF CheckType, CheckFields

LEMMA FinishCheckIs ==
  ASSUME Typed, Pipelined, pc \in {"hit", "miss"}, loop.at <= loop.checks, FinishCheck, pc' = pc
  PROVE  /\ inflight_tag_check' \in Seq(CheckType) /\ loop' \in LoopType /\ Pipelined'
         /\ Under(inflight_tag_check, tlb) => Under(inflight_tag_check', tlb)
         /\ loop'.checks = loop.checks - 1 /\ loop'.at = loop.at
         /\ \A j \in 1 .. loop.checks - 1 :
              \/ j < loop.at /\ inflight_tag_check'[j] = inflight_tag_check[j]
              \/ j >= loop.at /\ inflight_tag_check'[j] = inflight_tag_check[j + 1]
<1>. DEFINE s == inflight_tag_check
            n == loop.at
<1>1. /\ n \in 1 .. Len(s) /\ n \in 1 .. loop.checks /\ s \in Seq(CheckType) /\ Len(s) \in Nat
      /\ loop \in LoopType /\ loop.checks \in Nat
  BY PacketIs
<1>2. s' = RemoveAt(s, n) /\ loop' = [loop EXCEPT !.checks = loop.checks - 1]
  BY DEF FinishCheck
<1>3. /\ s' \in Seq(CheckType) /\ Len(s') = Len(s) - 1
      /\ \A j \in 1 .. Len(s) - 1 :
           /\ j < n => j \in 1 .. Len(s) /\ s'[j] = s[j]
           /\ j >= n => j + 1 \in 1 .. Len(s) /\ s'[j] = s[j + 1]
  BY <1>1, <1>2, RemovedAt
<1>4. loop' \in LoopType /\ loop'.checks = loop.checks - 1 /\ loop'.at = n
  <2>. DEFINE k == loop.checks - 1
  <2>1. k \in Nat /\ loop' = [loop EXCEPT !.checks = k]
    BY <1>1, <1>2
  <2>. HIDE DEF k
  <2>2. loop' \in LoopType /\ loop'.checks = k /\ loop'.at = n
    BY <1>1, <2>1 DEF LoopType
  <2>. QED  BY <2>2 DEF k
<1>. HIDE DEF n
<1>9. ASSUME Under(s, tlb) PROVE Under(s', tlb)
  <2>1. \A j \in 1 .. Len(s') : \E k \in 1 .. Len(s) : s'[j] = s[k]
    BY <1>1, <1>3
  <2>. HIDE DEF s
  <2>. QED  BY <1>9, <2>1, UnderFrom
<1>5. /\ loop.checks <= Len(s) /\ Len(s) <= Bandwidth /\ Bandwidth \in Nat
      /\ \A i \in 1 .. loop.checks : s[i].tr
  BY BandwidthIs DEF Pipelined
<1>6. /\ Len(s') <= Bandwidth
      /\ loop'.checks <= Len(s') /\ loop'.at <= loop'.checks + 1
  BY <1>1, <1>3, <1>4, <1>5
<1>7. \A i \in 1 .. loop'.checks : s'[i].tr
  <2>. SUFFICES ASSUME NEW i \in 1 .. loop'.checks PROVE s'[i].tr
    OBVIOUS
  <2>1. i \in 1 .. Len(s) - 1 /\ i \in 1 .. loop.checks /\ i + 1 \in 1 .. loop.checks
    BY <1>1, <1>4, <1>5
  <2>. QED  BY <1>1, <1>3, <1>5, <2>1
<1>8. Pipelined'
  BY <1>6, <1>7 DEF Pipelined, Bandwidth
<1>10. \A j \in 1 .. loop.checks - 1 : (j < n /\ s'[j] = s[j]) \/ (j >= n /\ s'[j] = s[j + 1])
  <2>. SUFFICES ASSUME NEW j \in 1 .. loop.checks - 1
                PROVE  (j < n /\ s'[j] = s[j]) \/ (j >= n /\ s'[j] = s[j + 1])
    OBVIOUS
  <2>1. j \in 1 .. Len(s) - 1 /\ (j < n \/ j >= n)
    BY <1>1, <1>5
  <2>2. CASE j < n
    BY <1>3, <2>1, <2>2
  <2>3. CASE j >= n
    BY <1>3, <2>1, <2>3
  <2>. QED  BY <2>1, <2>2, <2>3
<1>. QED  BY <1>3, <1>4, <1>8, <1>9, <1>10 DEF n

LEMMA NextCheckIs ==
  ASSUME Typed, Pipelined, pc \in {"hit", "miss"}, loop.at <= loop.checks, NextCheck, pc' = pc
  PROVE  /\ inflight_tag_check' \in Seq(CheckType) /\ loop' \in LoopType /\ Pipelined'
         /\ loop'.checks = loop.checks /\ loop'.at = loop.at + 1
<1>. DEFINE a == loop.at + 1
<1>1. /\ loop \in LoopType /\ loop.checks \in Nat /\ loop.at \in Nat \ {0}
      /\ inflight_tag_check \in Seq(CheckType)
  BY PacketIs
<1>2. inflight_tag_check' = inflight_tag_check /\ loop' = [loop EXCEPT !.at = a] /\ a \in Nat \ {0}
  BY <1>1 DEF NextCheck
<1>. HIDE DEF a
<1>3. loop' \in LoopType /\ loop'.checks = loop.checks /\ loop'.at = a
  BY <1>1, <1>2 DEF LoopType
<1>4. a <= loop.checks + 1
  BY <1>1 DEF a
<1>5. Pipelined'
  BY <1>2, <1>3, <1>4 DEF Pipelined, Bandwidth
<1>. QED  BY <1>1, <1>2, <1>3, <1>5 DEF a

LEMMA OperatedTyped ==
  ASSUME Typed, NEW e, NEW q \in Operated(e)
  PROVE  q \in Seq(PrefetchType) /\ Len(q) <= CACHE_PQ_SIZE
BY PrefetchTyped DEF Operated, Typed

LEMMA WaysAre ==
  ASSUME NEW T, T \subseteq Ways, T # {}
  PROVE  Min(T) \in T /\ Min(T) \in Ways /\ Min(T) \in Nat \ {0}
<1>1. Ways \subseteq Nat \ {0} /\ T \subseteq Nat
  BY Constants DEF Ways
<1>. QED  BY <1>1, LeastNumber

LEMMA TryHitKeeps ==
  ASSUME Typed, Pipelined, TryHit
  PROVE  /\ Kept
         /\ LET a == Packet.addr
                w == Min(HitWays(a))
                l == [block[SetOf[BlockOf[a]]][w] EXCEPT !.dirty = @ \/ Packet.type = "WRITE",
                                                         !.prefetch = @ /\ Packet.pf]
            IN  /\ w \in HitWays(a) /\ w \in Ways /\ l \in LineType
                /\ block' = [block EXCEPT ![SetOf[BlockOf[a]]][w] = l]
<1>. DEFINE e == Packet
            s == SetOf[BlockOf[e.addr]]
            w == Min(HitWays(e.addr))
            l == [block[s][w] EXCEPT !.dirty = @ \/ e.type = "WRITE", !.prefetch = @ /\ e.pf]
<1>1. /\ pc = "hit" /\ pc' = pc /\ loop.at <= loop.checks /\ FinishCheck
      /\ HitWays(e.addr) # {}
      /\ chan' = Answer(e.to, [addr |-> e.addr, v |-> e.v, deps |-> e.deps])
      /\ internal_PQ' \in Operated(Packet)
  BY DEF TryHit, Checking
<1>2. /\ block' = [block EXCEPT ![s][w].dirty = @ \/ e.type = "WRITE",
                                ![s][w].prefetch = @ /\ e.pf]
  BY DEF TryHit
<1>3. e \in CheckType /\ e.addr \in Addr /\ e.type \in Kind /\ e.pf \in BOOLEAN /\ e.to \in SUBSET Uppers
  BY <1>1, PacketIs DEF CheckType, CheckFields
<1>4. w \in HitWays(e.addr) /\ w \in Ways
  <2>1. HitWays(e.addr) \subseteq Ways
    BY DEF HitWays
  <2>. QED  BY <1>1, <2>1, WaysAre
<1>5. s \in Sets /\ block \in [Sets -> [Ways -> LineType]]
  BY <1>3, SetIs DEF Typed
<1>. HIDE DEF s, w, e
<1>6. block[s][w] \in LineType /\ block[s][w] \in LineFields
  BY <1>4, <1>5 DEF LineType
<1>7. l \in LineType
  <2>1. l \in LineFields /\ l.valid = block[s][w].valid /\ l.addr = block[s][w].addr
    BY <1>3, <1>6 DEF LineFields
  <2>. HIDE DEF l
  <2>. QED  BY <1>6, <2>1 DEF LineType
<1>8. block' = [block EXCEPT ![s][w] = l]
  BY <1>2, <1>4, <1>5, <1>6 DEF LineFields
<1>9. block' \in [Sets -> [Ways -> LineType]]
  <2>. HIDE DEF l
  <2>. QED  BY <1>4, <1>5, <1>7, <1>8
<1>10. chan' \in [Uppers -> ChannelType] /\ \A u \in Uppers : Fits(chan'[u])
  BY <1>1, <1>3, AnswersAre, AnswerTyped
<1>11. internal_PQ' \in Seq(PrefetchType) /\ Len(internal_PQ') <= CACHE_PQ_SIZE
  BY <1>1, OperatedTyped
<1>12. inflight_tag_check' \in Seq(CheckType) /\ loop' \in LoopType /\ Pipelined'
  BY <1>1, FinishCheckIs
<1>13. Typed'
  BY <1>1, <1>9, <1>10, <1>11, <1>12 DEF TryHit, Typed
<1>. QED  BY <1>4, <1>7, <1>8, <1>12, <1>13 DEF Kept, s, w, e

LEMMA TryMissKeeps ==
  ASSUME Typed, Pipelined, TryMiss
  PROVE  Kept
<1>1. /\ pc = "hit" /\ pc' = pc /\ loop.at <= loop.checks /\ NextCheck
      /\ internal_PQ' \in Operated(Packet)
  BY DEF TryMiss, Checking
<1>2. internal_PQ' \in Seq(PrefetchType) /\ Len(internal_PQ') <= CACHE_PQ_SIZE
  BY <1>1, OperatedTyped
<1>3. inflight_tag_check' \in Seq(CheckType) /\ loop' \in LoopType /\ Pipelined'
  BY <1>1, NextCheckIs
<1>4. Typed'
  BY <1>1, <1>2, <1>3 DEF TryMiss, Typed
<1>. QED  BY <1>3, <1>4 DEF Kept

LEMMA RetryMissKeeps ==
  ASSUME Typed, Pipelined, RetryMiss
  PROVE  Kept
<1>1. pc = "miss" /\ pc' = pc /\ loop.at <= loop.checks /\ NextCheck
  BY DEF RetryMiss, Checking
<1>2. inflight_tag_check' \in Seq(CheckType) /\ loop' \in LoopType /\ Pipelined'
  BY <1>1, NextCheckIs
<1>3. Typed'
  BY <1>1, <1>2 DEF RetryMiss, Typed
<1>. QED  BY <1>2, <1>3 DEF Kept

LEMMA HandleWriteKeeps ==
  ASSUME Typed, Pipelined, HandleWrite
  PROVE  Kept
<1>. DEFINE m == MissEntry(Packet, FILL_LATENCY)
<1>1. /\ pc = "miss" /\ pc' = pc /\ loop.at <= loop.checks /\ FinishCheck
      /\ Packet.type = "WRITE"
      /\ inflight_writes' = Append(inflight_writes, m)
  BY DEF HandleWrite, Checking, IsFill
<1>2. inflight_tag_check' \in Seq(CheckType) /\ loop' \in LoopType /\ Pipelined'
  BY <1>1, FinishCheckIs
<1>3. m \in FillType
  <2>1. Packet \in CheckType /\ Packet.tr
    BY <1>1, PacketIs
  <2>2. FILL_LATENCY \in Nat /\ FILL_LATENCY \in {Unknown} \cup 0 .. FILL_LATENCY /\ FILL_LATENCY # Unknown
    BY Constants DEF Unknown
  <2>3. m \in MissType /\ m.ready = FILL_LATENCY /\ m.type = "WRITE"
    BY <1>1, <2>1, <2>2, MissEntryIs
  <2>. QED  BY <2>2, <2>3 DEF FillType
<1>. HIDE DEF m
<1>4. inflight_writes' \in Seq(FillType)
  BY <1>1, <1>3, AppendIs DEF Typed
<1>5. Typed'
  BY <1>1, <1>2, <1>4 DEF HandleWrite, Typed
<1>. QED  BY <1>2, <1>5 DEF Kept

-----------------------------------------------------------------------------
(* The fills.                                                              *)
LEMMA VictimsAre ==
  ASSUME NEW m, NEW w \in Victims(m)
  PROVE  w \in Ways \cup {0}
<1>. DEFINE free == {v \in Ways : ~block[SetOf[BlockOf[m.addr]]][v].valid}
<1>1. w \in (IF free # {} THEN {Min(free)} ELSE Ways \cup (IF m.type = "WRITE" THEN {} ELSE {0}))
  BY DEF Victims
<1>2. free # {} => Min(free) \in Ways
  <2>1. free \subseteq Ways
    OBVIOUS
  <2>. HIDE DEF free
  <2>. QED  BY <2>1, WaysAre
<1>. QED  BY <1>1, <1>2

LEMMA FillTyped ==
  ASSUME Typed, NEW m \in MissType, NEW w \in Victims(m), handle_fill(m, w)
  PROVE  /\ block' \in [Sets -> [Ways -> LineType]]
         /\ chan' \in [Uppers -> ChannelType] /\ \A u \in Uppers : Fits(chan'[u])
         /\ internal_PQ' \in Seq(PrefetchType) /\ Len(internal_PQ') <= CACHE_PQ_SIZE
         /\ lower' \in LowerType
         /\ lower'.RQ = lower.RQ /\ lower'.PQ = lower.PQ /\ lower'.returned = lower.returned
<1>. DEFINE s == SetOf[BlockOf[m.addr]]
            l == fill_block(m)
<1>1. /\ m.addr \in Addr /\ m.to \in SUBSET Uppers /\ w \in Ways \cup {0}
      /\ block \in [Sets -> [Ways -> LineType]] /\ lower \in LowerType
  BY VictimsAre DEF MissType, MissFields, Typed
<1>2. s \in Sets
  BY <1>1, SetIs
<1>3. /\ lower' = Writeback(s, w)
      /\ block' = IF w = 0 THEN block ELSE [block EXCEPT ![s][w] = l]
      /\ chan' = Answer(m.to, [addr |-> m.addr, v |-> m.v, deps |-> m.deps])
      /\ internal_PQ' \in prefetch_line(internal_PQ)
  BY DEF handle_fill
<1>4. l \in LineType
  BY LinesAre
<1>. HIDE DEF s, l
<1>5. block' \in [Sets -> [Ways -> LineType]]
  BY <1>1, <1>2, <1>3, <1>4
<1>6. chan' \in [Uppers -> ChannelType] /\ \A u \in Uppers : Fits(chan'[u])
  BY <1>1, <1>3, AnswersAre, AnswerTyped
<1>7. internal_PQ' \in Seq(PrefetchType) /\ Len(internal_PQ') <= CACHE_PQ_SIZE
  BY <1>3, PrefetchTyped
<1>8. /\ lower' \in LowerType
      /\ lower'.RQ = lower.RQ /\ lower'.PQ = lower.PQ /\ lower'.returned = lower.returned
  <2>1. CASE ~NeedsWriteback(s, w)
    BY <1>1, <1>3, <2>1 DEF Writeback
  <2>2. CASE NeedsWriteback(s, w)
    <3>. DEFINE a == block[s][w].addr
    <3>1. a \in Addr
      BY <1>1, <1>2, <2>2 DEF NeedsWriteback, LineType
    <3>. HIDE DEF a
    <3>2. Append(lower.WQ, a) \in Seq(Addr)
      BY <1>1, <3>1, AppendIs DEF LowerType
    <3>3. lower' = [lower EXCEPT !.WQ = Append(lower.WQ, a)]
      BY <1>3, <2>2 DEF Writeback, a
    <3>. QED  BY <1>1, <3>2, <3>3 DEF LowerType
  <2>. QED  BY <2>1, <2>2
<1>. QED  BY <1>5, <1>6, <1>7, <1>8

LEMMA BandwidthSpent ==
  ASSUME Typed, loop.bw > 0, loop' = [loop EXCEPT !.bw = @ - 1]
  PROVE  loop' \in LoopType
<1>. DEFINE b == loop.bw - 1
<1>1. b \in Nat /\ loop' = [loop EXCEPT !.bw = b] /\ loop \in LoopType
  BY DEF Typed, LoopType
<1>. HIDE DEF b
<1>. QED  BY <1>1 DEF LoopType

LEMMA FillFromMSHRKeeps ==
  ASSUME Typed, Pipelined, FillFromMSHR
  PROVE  /\ Kept
         /\ MSHR # <<>> /\ MSHR' = Tail(MSHR) /\ Head(MSHR).ready = 0
         /\ lower'.RQ = lower.RQ /\ lower'.PQ = lower.PQ /\ lower'.returned = lower.returned
<1>. DEFINE m == Head(MSHR)
<1>1. /\ pc = "fill MSHR" /\ pc' = pc /\ loop.bw > 0 /\ MSHR # <<>> /\ MSHR' = Tail(MSHR)
      /\ m.ready = 0 /\ loop' = [loop EXCEPT !.bw = @ - 1]
      /\ \E w \in Victims(m) : handle_fill(m, w)
  BY DEF FillFromMSHR, ReadyToFill
<1>2. m \in MissType /\ MSHR' \in Seq(MissType)
  BY <1>1, TailIs DEF Typed
<1>. HIDE DEF m
<1>3. PICK w \in Victims(m) : handle_fill(m, w)
  BY <1>1
<1>4. /\ block' \in [Sets -> [Ways -> LineType]]
      /\ chan' \in [Uppers -> ChannelType] /\ \A u \in Uppers : Fits(chan'[u])
      /\ internal_PQ' \in Seq(PrefetchType) /\ Len(internal_PQ') <= CACHE_PQ_SIZE
      /\ lower' \in LowerType
      /\ lower'.RQ = lower.RQ /\ lower'.PQ = lower.PQ /\ lower'.returned = lower.returned
  BY <1>2, <1>3, FillTyped
<1>5. loop' \in LoopType
  BY <1>1, BandwidthSpent
<1>6. Typed'
  BY <1>1, <1>2, <1>4, <1>5 DEF FillFromMSHR, Typed
<1>7. Pipelined'
  BY <1>1 DEF FillFromMSHR, Pipelined
<1>. QED  BY <1>1, <1>4, <1>6, <1>7 DEF Kept, m

LEMMA FillFromWritesKeeps ==
  ASSUME Typed, Pipelined, FillFromWrites
  PROVE  /\ Kept
         /\ lower'.RQ = lower.RQ /\ lower'.PQ = lower.PQ /\ lower'.returned = lower.returned
<1>. DEFINE m == Head(inflight_writes)
<1>1. /\ pc = "fill writes" /\ pc' = pc /\ loop.bw > 0 /\ inflight_writes # <<>>
      /\ inflight_writes' = Tail(inflight_writes)
      /\ loop' = [loop EXCEPT !.bw = @ - 1]
      /\ \E w \in Victims(m) : handle_fill(m, w)
  BY DEF FillFromWrites, ReadyToFill
<1>2. m \in MissType /\ inflight_writes' \in Seq(FillType)
  BY <1>1, TailIs DEF Typed, FillType
<1>. HIDE DEF m
<1>3. PICK w \in Victims(m) : handle_fill(m, w)
  BY <1>1
<1>4. /\ block' \in [Sets -> [Ways -> LineType]]
      /\ chan' \in [Uppers -> ChannelType] /\ \A u \in Uppers : Fits(chan'[u])
      /\ internal_PQ' \in Seq(PrefetchType) /\ Len(internal_PQ') <= CACHE_PQ_SIZE
      /\ lower' \in LowerType
      /\ lower'.RQ = lower.RQ /\ lower'.PQ = lower.PQ /\ lower'.returned = lower.returned
  BY <1>2, <1>3, FillTyped
<1>5. loop' \in LoopType
  BY <1>1, BandwidthSpent
<1>6. Typed'
  BY <1>1, <1>2, <1>4, <1>5 DEF FillFromWrites, Typed
<1>7. Pipelined'
  BY <1>1 DEF FillFromWrites, Pipelined
<1>. QED  BY <1>4, <1>6, <1>7 DEF Kept

(* The tag checks, the MSHRs and the write fills come one cycle nearer. *)
LEMMA SoonerMiss ==
  ASSUME NEW m \in MissType
  PROVE  LET r == [m EXCEPT !.ready = Sooner(@)]
         IN  /\ r \in MissType /\ (m \in FillType => r \in FillType)
             /\ r.addr = m.addr /\ r.type = m.type /\ r.deps = m.deps /\ r.to = m.to
             /\ r.ready = Sooner(m.ready) /\ (r.ready = Unknown <=> m.ready = Unknown)
<1>. DEFINE n == Sooner(m.ready)
<1>1. m.ready \in {Unknown} \cup 0 .. FILL_LATENCY /\ FILL_LATENCY \in Nat
  BY Constants DEF MissType, MissFields
<1>2. n \in {Unknown} \cup 0 .. FILL_LATENCY /\ (n = Unknown <=> m.ready = Unknown)
  BY <1>1 DEF Sooner, Unknown
<1>. HIDE DEF n
<1>3. [m EXCEPT !.ready = Sooner(@)] = [m EXCEPT !.ready = n]
  BY DEF n
<1>4. LET r == [m EXCEPT !.ready = n]
      IN  r \in MissType /\ r.ready = n /\ r.addr = m.addr /\ r.type = m.type /\ r.deps = m.deps /\ r.to = m.to
  BY <1>2, ReadyIs
<1>5. m \in FillType => [m EXCEPT !.ready = n] \in FillType
  BY <1>2, <1>4 DEF FillType
<1>. QED  BY <1>2, <1>3, <1>4, <1>5 DEF n

LEMMA EndCycleKeeps ==
  ASSUME Typed, Pipelined, EndCycle
  PROVE  /\ Kept /\ (UnderWay => UnderWay')
         /\ Len(MSHR') = Len(MSHR) /\ Len(MSHR) \in Nat
         /\ \A i \in 1 .. Len(MSHR) :
              LET r == [MSHR[i] EXCEPT !.ready = Sooner(@)]
              IN  MSHR[i] \in MissType /\ MSHR'[i] = r /\ r \in MissType /\ r.addr = MSHR[i].addr
                  /\ r.ready = Sooner(MSHR[i].ready) /\ (r.ready = Unknown <=> MSHR[i].ready = Unknown)
<1>. DEFINE s == MSHR
            t == inflight_writes
            c == inflight_tag_check
            V(i) == [s[i] EXCEPT !.ready = Sooner(@)]
            W(i) == [t[i] EXCEPT !.ready = Sooner(@)]
            C(i) == [c[i] EXCEPT !.event = Sooner(@)]
<1>1. /\ s \in Seq(MissType) /\ Len(s) \in Nat /\ DOMAIN s = 1 .. Len(s)
      /\ \A i \in 1 .. Len(s) : s[i] \in MissType
      /\ t \in Seq(FillType) /\ Len(t) \in Nat /\ DOMAIN t = 1 .. Len(t)
      /\ \A i \in 1 .. Len(t) : t[i] \in FillType
      /\ c \in Seq(CheckType) /\ Len(c) \in Nat /\ DOMAIN c = 1 .. Len(c)
      /\ \A i \in 1 .. Len(c) : c[i] \in CheckType
  BY SeqParts DEF Typed
<1>2. /\ s' = [i \in 1 .. Len(s) |-> V(i)]
      /\ t' = [i \in 1 .. Len(t) |-> W(i)]
      /\ c' = [i \in 1 .. Len(c) |-> C(i)]
      /\ pc' = "idle" /\ pc' \in Steps /\ loop' = NoLoop
      /\ internal_PQ' \in prefetch_line(internal_PQ)
  BY <1>1 DEF EndCycle, Steps
<1>3. \A i \in 1 .. Len(s) :
        /\ V(i) \in MissType /\ V(i).addr = s[i].addr /\ V(i).ready = Sooner(s[i].ready)
        /\ V(i).ready = Unknown <=> s[i].ready = Unknown
  BY <1>1, SoonerMiss
<1>4. \A i \in 1 .. Len(t) : W(i) \in FillType
  BY <1>1, SoonerMiss DEF FillType
<1>5. \A i \in 1 .. Len(c) : C(i) \in CheckType
  BY <1>1, CheckUpdates
<1>6. s' \in Seq(MissType) /\ Len(s') = Len(s) /\ \A i \in 1 .. Len(s) : s'[i] = V(i)
  <2>. HIDE DEF V
  <2>1. s' \in [1 .. Len(s) -> MissType]
    BY <1>2, <1>3
  <2>. QED  BY <1>1, <1>2, <2>1, FunctionIsSeq
<1>7. t' \in Seq(FillType)
  <2>. HIDE DEF W
  <2>1. t' \in [1 .. Len(t) -> FillType]
    BY <1>2, <1>4
  <2>. QED  BY <1>1, <2>1, FunctionIsSeq
<1>13. \A i \in 1 .. Len(c) : Asked(C(i)) => Asked(c[i]) /\ c[i].v = C(i).v
  <2>1. \A i \in 1 .. Len(c) : c[i] \in CheckFields
    BY <1>1 DEF CheckType
  <2>. QED  BY <2>1 DEF Asked, CheckFields
<1>8. c' \in Seq(CheckType) /\ Len(c') = Len(c) /\ \A i \in 1 .. Len(c) : c'[i] = C(i)
  <2>. HIDE DEF C
  <2>1. c' \in [1 .. Len(c) -> CheckType]
    BY <1>2, <1>5
  <2>. QED  BY <1>1, <1>2, <2>1, FunctionIsSeq
<1>9. internal_PQ' \in Seq(PrefetchType) /\ Len(internal_PQ') <= CACHE_PQ_SIZE
  BY <1>2, PrefetchTyped
<1>10. loop' \in LoopType
  BY <1>2 DEF NoLoop, LoopType
<1>11. Typed'
  BY <1>2, <1>6, <1>7, <1>8, <1>9, <1>10 DEF EndCycle, Typed
<1>12. Pipelined'
  BY <1>2, <1>8 DEF Pipelined, Bandwidth
<1>14. ASSUME UnderWay PROVE UnderWay'
  <2>1. tlb' = tlb /\ translation_stash' = translation_stash
    BY DEF EndCycle
  <2>. HIDE DEF C
  <2>2. Under(c', tlb)
    BY <1>8, <1>13, <1>14 DEF UnderWay, Under
  <2>. QED  BY <1>14, <2>1, <2>2 DEF UnderWay
<1>. QED  BY <1>1, <1>3, <1>6, <1>11, <1>12, <1>14 DEF Kept

-----------------------------------------------------------------------------
(* The misses and what is under way below.                                 *)

(* A prefix search for the first MSHR of a block, and for the first that    *)
(* has no data.                                                            *)
LEMMA FirstMSHR ==
  ASSUME Typed, NEW a \in Addr
  PROVE  /\ MatchingMSHR(a) \in 0 .. Len(MSHR)
         /\ MatchingMSHR(a) # 0 => SameBlock(MSHR[MatchingMSHR(a)].addr, a)
         /\ MatchingMSHR(a) = 0 => \A i \in 1 .. Len(MSHR) : ~SameBlock(MSHR[i].addr, a)
         /\ FirstUnreturned \in 0 .. Len(MSHR)
         /\ FirstUnreturned # 0 => MSHR[FirstUnreturned].ready = Unknown
         /\ \A i \in 1 .. Len(MSHR) :
              MSHR[i].ready = Unknown => FirstUnreturned # 0 /\ FirstUnreturned <= i
<1>. DEFINE I == {i \in 1 .. Len(MSHR) : SameBlock(MSHR[i].addr, a)}
            J == {i \in 1 .. Len(MSHR) : MSHR[i].ready = Unknown}
<1>1. Len(MSHR) \in Nat
  BY SeqParts DEF Typed
<1>2. MatchingMSHR(a) = (IF I # {} THEN Min(I) ELSE 0) /\ I \subseteq 1 .. Len(MSHR)
  BY DEF MatchingMSHR, SelectInSeq
<1>3. FirstUnreturned = (IF J # {} THEN Min(J) ELSE 0) /\ J \subseteq 1 .. Len(MSHR)
  BY DEF FirstUnreturned, SelectInSeq
<1>4. /\ MatchingMSHR(a) \in 0 .. Len(MSHR)
      /\ MatchingMSHR(a) = 0 <=> I = {}
      /\ MatchingMSHR(a) # 0 => MatchingMSHR(a) \in I
  <2>. HIDE DEF I
  <2>. QED  BY <1>1, <1>2, FirstIn
<1>5. /\ FirstUnreturned \in 0 .. Len(MSHR)
      /\ FirstUnreturned = 0 <=> J = {}
      /\ FirstUnreturned # 0 => FirstUnreturned \in J /\ \A i \in J : FirstUnreturned <= i
  <2>. HIDE DEF J
  <2>. QED  BY <1>1, <1>3, FirstIn
<1>6. \A i \in 1 .. Len(MSHR) : (i \in I <=> SameBlock(MSHR[i].addr, a)) /\ (i \in J <=> MSHR[i].ready = Unknown)
  OBVIOUS
<1>. HIDE DEF I, J
<1>. QED  BY <1>1, <1>4, <1>5, <1>6

LEMMA PermutedIn ==
  ASSUME NEW s, NEW t, NEW T, Len(s) \in Nat, Len(t) = Len(s),
         NEW i \in 1 .. Len(s), NEW j \in 1 .. Len(s),
         t[j] \in T <=> s[i] \in T, i # j => (t[i] \in T <=> s[j] \in T),
         \A k \in 1 .. Len(s) : k # i /\ k # j => (t[k] \in T <=> s[k] \in T)
  PROVE  (SomeIn(t, T) <=> SomeIn(s, T)) /\ (OnceIn(t, T) <=> OnceIn(s, T))
<1>. DEFINE p(k) == IF k = i THEN j ELSE IF k = j THEN i ELSE k
<1>1. \A k \in 1 .. Len(s) : p(k) \in 1 .. Len(s) /\ p(p(k)) = k /\ (t[k] \in T <=> s[p(k)] \in T)
  OBVIOUS
<1>. HIDE DEF p
<1>2. \A k \in 1 .. Len(s) : t[p(k)] \in T <=> s[k] \in T
  BY <1>1
<1>3. SomeIn(t, T) <=> SomeIn(s, T)
  BY <1>1, <1>2 DEF SomeIn
<1>4. ASSUME OnceIn(s, T) PROVE OnceIn(t, T)
  <2>. SUFFICES ASSUME NEW k \in 1 .. Len(s), NEW l \in 1 .. Len(s), t[k] \in T, t[l] \in T
                PROVE  k = l
    BY DEF OnceIn
  <2>1. p(k) = p(l)
    BY <1>1, <1>4 DEF OnceIn
  <2>. QED  BY <1>1, <2>1
<1>5. ASSUME OnceIn(t, T) PROVE OnceIn(s, T)
  <2>. SUFFICES ASSUME NEW k \in 1 .. Len(s), NEW l \in 1 .. Len(s), s[k] \in T, s[l] \in T
                PROVE  k = l
    BY DEF OnceIn
  <2>1. p(k) = p(l)
    BY <1>1, <1>2, <1>5 DEF OnceIn
  <2>. QED  BY <1>1, <2>1
<1>. QED  BY <1>3, <1>4, <1>5

LEMMA SameMisses ==
  ASSUME Matched, MSHR' = MSHR,
         lower'.RQ = lower.RQ, lower'.PQ = lower.PQ, lower'.returned = lower.returned
  PROVE  Matched'
<1>1. \A b \in Block : Fetched(MSHR, lower, b)'
  BY DEF Matched, Fetched
<1>2. ReturnedFirst'
  BY DEF Matched, ReturnedFirst
<1>. QED  BY <1>1, <1>2 DEF Matched

(* finish_packet finds the MSHR of the block, which has no data yet; the    *)
(* first MSHR without data stands no later.                                *)
LEMMA ReturnFound ==
  ASSUME Typed, Matched, FinishPacket
  PROVE  LET a == Head(lower.returned)
             i == MatchingMSHR(a)
             f == FirstUnreturned
         IN  /\ a \in Addr /\ a \in CameOf(BlockOf[a]) /\ BlockOf[a] \in Block
             /\ i \in 1 .. Len(MSHR) /\ f \in 1 .. i
             /\ SameBlock(MSHR[i].addr, a) /\ MSHR[i].ready = Unknown /\ MSHR[f].ready = Unknown
             /\ \A k \in 1 .. Len(MSHR) : k < f => MSHR[k].ready # Unknown
             /\ \A k \in 1 .. Len(MSHR) : k > f => MSHR[k].ready = Unknown
<1>. DEFINE a == Head(lower.returned)
            b == BlockOf[a]
            i == MatchingMSHR(a)
            f == FirstUnreturned
<1>1. /\ lower.returned \in Seq(Addr) /\ lower.returned # <<>>
      /\ MSHR \in Seq(MissType) /\ Len(MSHR) \in Nat
  BY SeqParts DEF Typed, LowerType, FinishPacket
<1>2. a \in Addr /\ a = lower.returned[1] /\ 1 \in 1 .. Len(lower.returned)
  BY <1>1, TailIs
<1>3. b \in Block /\ a \in CameOf(b)
  BY <1>2, BlockOfAssumption DEF CameOf
<1>4. SomeIn(lower.returned, CameOf(b))
  BY <1>2, <1>3 DEF SomeIn
<1>5. SomeIn(MSHR, WaitOf(b)) /\ OnceIn(MSHR, MissOf(b))
  BY <1>3, <1>4 DEF Matched, Fetched
<1>6. PICK k \in 1 .. Len(MSHR) : MSHR[k] \in WaitOf(b)
  BY <1>5 DEF SomeIn
<1>7. MSHR[k] \in MissOf(b) /\ SameBlock(MSHR[k].addr, a) /\ MSHR[k].ready = Unknown
  BY <1>6 DEF MissOf, WaitOf, SameBlock
<1>8. /\ i \in 0 .. Len(MSHR)
      /\ i # 0 => SameBlock(MSHR[i].addr, a)
      /\ i = 0 => \A n \in 1 .. Len(MSHR) : ~SameBlock(MSHR[n].addr, a)
      /\ f \in 0 .. Len(MSHR)
      /\ f # 0 => MSHR[f].ready = Unknown
      /\ \A n \in 1 .. Len(MSHR) : MSHR[n].ready = Unknown => f # 0 /\ f <= n
  BY <1>2, FirstMSHR
<1>. HIDE DEF i, f, a, b
<1>9. i \in 1 .. Len(MSHR) /\ SameBlock(MSHR[i].addr, a)
  <2>1. i # 0
    BY <1>6, <1>7, <1>8
  <2>. QED  BY <1>1, <1>8, <2>1
<1>10. MSHR[i] \in MissOf(b)
  <2>1. MSHR[i] \in MissType
    BY <1>1, <1>9, SeqParts
  <2>. QED  BY <1>9, <2>1 DEF MissOf, SameBlock, b
<1>11. i = k
  BY <1>5, <1>6, <1>7, <1>9, <1>10 DEF OnceIn
<1>12. f \in 1 .. i
  BY <1>1, <1>7, <1>8, <1>9, <1>11
<1>13. \A n \in 1 .. Len(MSHR) : n < f => MSHR[n].ready # Unknown
  BY <1>1, <1>8, <1>12
<1>14. \A n \in 1 .. Len(MSHR) : n > f => MSHR[n].ready = Unknown
  <2>1. ReturnedFirst /\ DOMAIN MSHR = 1 .. Len(MSHR)
    BY <1>1, SeqParts DEF Matched
  <2>2. f \in 1 .. Len(MSHR) /\ MSHR[f].ready = Unknown
    BY <1>1, <1>8, <1>9, <1>12
  <2>. QED  BY <2>1, <2>2 DEF ReturnedFirst
<1>. QED  BY <1>2, <1>3, <1>7, <1>8, <1>9, <1>11, <1>12, <1>13, <1>14 DEF i, f, a, b

LEMMA SwapIs ==
  ASSUME NEW S, NEW s \in Seq(S), NEW i \in 1 .. Len(s), NEW f \in 1 .. Len(s)
  PROVE  /\ Swap(s, i, f) \in Seq(S) /\ Len(Swap(s, i, f)) = Len(s)
         /\ Swap(s, i, f)[f] = s[i] /\ Swap(s, i, f)[i] = s[f]
         /\ \A k \in 1 .. Len(s) : k # i /\ k # f => Swap(s, i, f)[k] = s[k]
<1>1. Len(s) \in Nat /\ DOMAIN s = 1 .. Len(s) /\ s \in [1 .. Len(s) -> S] /\ s[i] \in S /\ s[f] \in S
  BY SeqParts, LenProperties, ElementOfSeq
<1>. DEFINE t == Swap(s, i, f)
<1>2. t = [s EXCEPT ![i] = s[f], ![f] = s[i]]
  BY DEF Swap
<1>3. t \in [1 .. Len(s) -> S]
  BY <1>1, <1>2
<1>4. /\ t[f] = s[i] /\ t[i] = s[f]
      /\ \A k \in 1 .. Len(s) : k # i /\ k # f => t[k] = s[k]
  BY <1>1, <1>2
<1>. HIDE DEF t
<1>5. t \in Seq(S) /\ Len(t) = Len(s)
  BY <1>1, <1>3, FunctionIsSeq
<1>. QED  BY <1>4, <1>5 DEF t

(* No MSHR is for a block that had none. *)
KnownBlocks ==
  \A k \in 1 .. Len(MSHR') : \E j \in 1 .. Len(MSHR) : BlockOf[MSHR'[k].addr] = BlockOf[MSHR[j].addr]

LEMMA FinishPacketKeeps ==
  ASSUME Typed, Pipelined, Matched, FinishPacket
  PROVE  Kept /\ Matched' /\ KnownBlocks
<1>. DEFINE a == Head(lower.returned)
            b == BlockOf[a]
            i == MatchingMSHR(a)
            f == FirstUnreturned
            x == [MSHR[i] EXCEPT !.ready = FILL_LATENCY]
            s == [MSHR EXCEPT ![i] = x]
            t == MSHR'
            N == Len(MSHR)
<1>1. /\ a \in Addr /\ a \in CameOf(b) /\ b \in Block
      /\ i \in 1 .. N /\ f \in 1 .. i
      /\ SameBlock(MSHR[i].addr, a) /\ MSHR[i].ready = Unknown /\ MSHR[f].ready = Unknown
      /\ \A k \in 1 .. N : k < f => MSHR[k].ready # Unknown
      /\ \A k \in 1 .. N : k > f => MSHR[k].ready = Unknown
  BY ReturnFound
<1>2. /\ MSHR \in Seq(MissType) /\ N \in Nat /\ \A k \in 1 .. N : MSHR[k] \in MissType
      /\ lower \in LowerType /\ lower.returned \in Seq(Addr) /\ lower.returned # <<>>
  BY SeqParts DEF Typed, LowerType, FinishPacket
<1>3. /\ pc = "finish" /\ lower' = [lower EXCEPT !.returned = Tail(@)]
      /\ MSHR' = Swap([MSHR EXCEPT ![i].ready = FILL_LATENCY], i, f) /\ pc' = pc
  BY <1>1 DEF FinishPacket
<1>4. MSHR' = Swap(s, i, f)
  BY <1>3
<1>5. x \in MissType /\ x.ready = FILL_LATENCY /\ x.addr = MSHR[i].addr /\ FILL_LATENCY \in Nat
  <2>1. MSHR[i] \in MissType
    BY <1>1, <1>2
  <2>2. FILL_LATENCY \in {Unknown} \cup 0 .. FILL_LATENCY /\ FILL_LATENCY \in Nat
    BY Constants
  <2>. QED  BY <2>1, <2>2, ReadyIs
<1>6. f \in 1 .. N
  BY <1>1, <1>2
<1>. HIDE DEF x, i, f, a, b
<1>7. /\ s \in Seq(MissType) /\ Len(s) = N /\ s[i] = x
      /\ \A k \in 1 .. N : k # i => s[k] = MSHR[k]
  BY <1>1, <1>2, <1>5, ExceptSeq
<1>. HIDE DEF s
<1>8. /\ t \in Seq(MissType) /\ Len(t) = N /\ t[f] = x
      /\ i # f => t[i] = MSHR[f]
      /\ \A k \in 1 .. N : k # i /\ k # f => t[k] = MSHR[k]
  <2>1. i \in 1 .. Len(s) /\ f \in 1 .. Len(s)
    BY <1>1, <1>6, <1>7
  <2>2. /\ Swap(s, i, f) \in Seq(MissType) /\ Len(Swap(s, i, f)) = Len(s)
        /\ Swap(s, i, f)[f] = s[i] /\ Swap(s, i, f)[i] = s[f]
        /\ \A k \in 1 .. Len(s) : k # i /\ k # f => Swap(s, i, f)[k] = s[k]
    BY <1>7, <2>1, SwapIs
  <2>. QED  BY <1>4, <1>6, <1>7, <2>2
<1>15. KnownBlocks
  <2>. SUFFICES ASSUME NEW k \in 1 .. N
                PROVE  \E j \in 1 .. N : BlockOf[t[k].addr] = BlockOf[MSHR[j].addr]
    BY <1>8 DEF KnownBlocks
  <2>1. CASE k = f
    BY <1>1, <1>5, <1>8, <2>1
  <2>2. CASE k # f /\ k = i
    BY <1>6, <1>8, <2>2
  <2>3. CASE k # f /\ k # i
    BY <1>8, <2>3
  <2>. QED  BY <2>1, <2>2, <2>3
<1>9. /\ lower' \in LowerType /\ lower'.RQ = lower.RQ /\ lower'.PQ = lower.PQ
      /\ Without(lower.returned, lower'.returned, 1) /\ lower.returned[1] = a
      /\ 1 \in 1 .. Len(lower.returned) /\ Len(lower.returned) \in Nat
  <2>1. /\ Tail(lower.returned) \in Seq(Addr) /\ Without(lower.returned, Tail(lower.returned), 1)
        /\ 1 \in 1 .. Len(lower.returned) /\ Head(lower.returned) = lower.returned[1]
    BY <1>2, TailIsWithout
  <2>. QED  BY <1>2, <1>3, <2>1, SeqParts DEF LowerType, a
<1>10. Typed'
  BY <1>3, <1>8, <1>9 DEF FinishPacket, Typed
<1>11. Pipelined'
  BY <1>3 DEF FinishPacket, Pipelined
<1>12. ReturnedFirst'
  <2>. SUFFICES ASSUME NEW j \in 1 .. N, NEW k \in 1 .. N, j < k
                PROVE  \/ t[k].ready = Unknown
                       \/ t[j].ready # Unknown /\ t[j].ready <= t[k].ready
    BY <1>2, <1>8, SeqParts DEF ReturnedFirst
  <2>0. /\ \A n \in 1 .. N : n > f => t[n].ready = Unknown
        /\ \A n \in 1 .. N : n < f => t[n] = MSHR[n]
    <3>1. \A n \in 1 .. N : n > f => t[n].ready = Unknown
      BY <1>1, <1>2, <1>6, <1>8
    <3>2. \A n \in 1 .. N : n < f => t[n] = MSHR[n]
      BY <1>1, <1>2, <1>6, <1>8
    <3>. QED  BY <3>1, <3>2
  <2>1. CASE k > f
    BY <2>0, <2>1
  <2>2. CASE k = f
    <3>1. t[j] = MSHR[j] /\ MSHR[j].ready # Unknown /\ MSHR[j] \in MissType
      BY <1>1, <1>2, <1>6, <2>0, <2>2
    <3>2. MSHR[j].ready \in 0 .. FILL_LATENCY
      BY <3>1 DEF MissType, MissFields
    <3>. QED  BY <1>5, <1>8, <2>2, <3>1, <3>2
  <2>3. CASE k < f
    <3>1. t[j] = MSHR[j] /\ t[k] = MSHR[k]
      BY <1>1, <1>6, <2>0, <2>3
    <3>2. ReturnedFirst /\ DOMAIN MSHR = 1 .. N
      BY <1>2, SeqParts DEF Matched
    <3>. QED  BY <3>1, <3>2 DEF ReturnedFirst
  <2>. QED  BY <1>1, <1>6, <2>1, <2>2, <2>3
<1>13. ASSUME NEW c \in Block PROVE Fetched(t, lower', c)
  <2>1. Fetched(MSHR, lower, c)
    BY DEF Matched
  <2>2. x.addr \in Addr /\ BlockOf[x.addr] = b /\ BlockOf[MSHR[i].addr] = b
    BY <1>1, <1>5 DEF MissType, MissFields, SameBlock, b
  <2>3. OnceIn(t, MissOf(c)) <=> OnceIn(MSHR, MissOf(c))
    <3>1. x \in MissOf(c) <=> MSHR[i] \in MissOf(c)
      BY <1>1, <1>2, <1>5, <2>2 DEF MissOf
    <3>. DEFINE T == MissOf(c)
    <3>2. /\ t[f] \in T <=> MSHR[i] \in T
          /\ i # f => (t[i] \in T <=> MSHR[f] \in T)
          /\ \A k \in 1 .. N : k # i /\ k # f => (t[k] \in T <=> MSHR[k] \in T)
      BY <1>8, <3>1
    <3>3. Len(t) = Len(MSHR) /\ Len(MSHR) \in Nat
      BY <1>2, <1>8
    <3>4. i \in 1 .. Len(MSHR) /\ f \in 1 .. Len(MSHR)
      BY <1>1, <1>6
    <3>. HIDE DEF T, t, N
    <3>5. OnceIn(t, T) <=> OnceIn(MSHR, T)
      BY <3>2, <3>3, <3>4, PermutedIn DEF N
    <3>. QED  BY <3>5 DEF T
  <2>4. /\ SomeIn(lower.returned, CameOf(c)) <=> SomeIn(lower'.returned, CameOf(c)) \/ a \in CameOf(c)
        /\ OnceIn(lower.returned, CameOf(c)) =>
             OnceIn(lower'.returned, CameOf(c)) /\ ~(SomeIn(lower'.returned, CameOf(c)) /\ a \in CameOf(c))
    BY <1>9, WithoutIn
  <2>5. a \in CameOf(c) <=> c = b
    BY <1>1 DEF CameOf, b
  <2>6. CASE c # b
    <3>1. x \in WaitOf(c) <=> MSHR[i] \in WaitOf(c)
      BY <2>2, <2>6 DEF WaitOf
    <3>2. SomeIn(t, WaitOf(c)) <=> SomeIn(MSHR, WaitOf(c))
      <4>. DEFINE T == WaitOf(c)
      <4>1. /\ t[f] \in T <=> MSHR[i] \in T
            /\ i # f => (t[i] \in T <=> MSHR[f] \in T)
            /\ \A k \in 1 .. N : k # i /\ k # f => (t[k] \in T <=> MSHR[k] \in T)
        BY <1>8, <3>1
      <4>. HIDE DEF T
      <4>. QED  BY <1>1, <1>2, <1>6, <1>8, <4>1, PermutedIn DEF T
    <3>. QED  BY <1>9, <2>1, <2>3, <2>4, <2>5, <2>6, <3>2 DEF Fetched
  <2>7. CASE c = b
    <3>1. ~SomeIn(t, WaitOf(c))
      <4>. SUFFICES ASSUME NEW k \in 1 .. N, t[k] \in WaitOf(c) PROVE FALSE
        BY <1>8 DEF SomeIn
      <4>1. t[k] \in MissOf(c) /\ x \in MissOf(c)
        BY <1>5, <2>2, <2>7 DEF MissOf, WaitOf
      <4>2. OnceIn(t, MissOf(c))
        BY <2>1, <2>3 DEF Fetched
      <4>3. k = f
        BY <1>6, <1>8, <4>1, <4>2 DEF OnceIn
      <4>. QED  BY <1>5, <1>8, <4>3 DEF WaitOf, Unknown
    <3>2. SomeIn(lower.returned, CameOf(c)) /\ ~SomeIn(lower'.returned, CameOf(c))
          /\ OnceIn(lower'.returned, CameOf(c))
      BY <2>1, <2>4, <2>5, <2>7 DEF Fetched
    <3>. QED  BY <1>9, <2>1, <2>3, <3>1, <3>2 DEF Fetched
  <2>. QED  BY <2>6, <2>7
<1>14. Matched'
  <2>1. Len(MSHR') <= MSHR_SIZE
    BY <1>8 DEF Matched
  <2>2. \A c \in Block : Fetched(MSHR, lower, c)'
    BY <1>13
  <2>. QED  BY <1>12, <2>1, <2>2 DEF Matched
<1>. QED  BY <1>10, <1>11, <1>14, <1>15 DEF Kept

LEMMA FillFromMSHRMatches ==
  ASSUME Typed, Pipelined, Matched, FillFromMSHR
  PROVE  Matched'
<1>1. /\ MSHR # <<>> /\ MSHR' = Tail(MSHR) /\ Head(MSHR).ready = 0
      /\ lower'.RQ = lower.RQ /\ lower'.PQ = lower.PQ /\ lower'.returned = lower.returned
      /\ MSHR \in Seq(MissType)
  BY FillFromMSHRKeeps DEF Typed
<1>2. /\ Without(MSHR, MSHR', 1) /\ 1 \in 1 .. Len(MSHR) /\ MSHR[1].ready = 0
      /\ Len(MSHR) \in Nat /\ DOMAIN MSHR = 1 .. Len(MSHR)
      /\ Len(MSHR') \in Nat /\ DOMAIN MSHR' = 1 .. Len(MSHR') /\ Len(MSHR') = Len(MSHR) - 1
      /\ \A i \in 1 .. Len(MSHR') : i + 1 \in 1 .. Len(MSHR) /\ MSHR'[i] = MSHR[i + 1]
  <2>1. /\ Without(MSHR, Tail(MSHR), 1) /\ 1 \in 1 .. Len(MSHR) /\ Head(MSHR) = MSHR[1]
        /\ Tail(MSHR) \in Seq(MissType)
    BY <1>1, TailIsWithout
  <2>2. /\ Len(MSHR) \in Nat /\ DOMAIN MSHR = 1 .. Len(MSHR)
        /\ Len(MSHR') \in Nat /\ DOMAIN MSHR' = 1 .. Len(MSHR')
    BY <1>1, <2>1, SeqParts
  <2>3. /\ Len(MSHR') = Len(MSHR) - 1
        /\ \A i \in 1 .. Len(MSHR') : i + 1 \in 1 .. Len(MSHR) /\ MSHR'[i] = MSHR[i + 1]
    BY <1>1, <2>1, <2>2 DEF Without
  <2>. QED  BY <1>1, <2>1, <2>2, <2>3
<1>3. Len(MSHR') <= MSHR_SIZE
  BY <1>2, Constants DEF Matched
<1>4. ReturnedFirst'
  <2>. SUFFICES ASSUME NEW i \in 1 .. Len(MSHR'), NEW j \in 1 .. Len(MSHR'), i < j
                PROVE  \/ MSHR'[j].ready = Unknown
                       \/ MSHR'[i].ready # Unknown /\ MSHR'[i].ready <= MSHR'[j].ready
    BY <1>2 DEF ReturnedFirst
  <2>1. i + 1 \in 1 .. Len(MSHR) /\ j + 1 \in 1 .. Len(MSHR) /\ i + 1 < j + 1
        /\ MSHR'[i] = MSHR[i + 1] /\ MSHR'[j] = MSHR[j + 1]
    BY <1>2
  <2>. QED  BY <1>2, <2>1 DEF Matched, ReturnedFirst
<1>5. ASSUME NEW b \in Block PROVE Fetched(MSHR', lower', b)
  <2>1. Fetched(MSHR, lower, b)
    BY DEF Matched
  <2>2. OnceIn(MSHR, MissOf(b)) => OnceIn(MSHR', MissOf(b))
    BY <1>2, WithoutIn
  <2>3. MSHR[1] \notin WaitOf(b)
    BY <1>2 DEF WaitOf, Unknown
  <2>4. SomeIn(MSHR, WaitOf(b)) <=> SomeIn(MSHR', WaitOf(b))
    BY <1>2, <2>3, WithoutIn
  <2>. QED  BY <1>1, <2>1, <2>2, <2>4 DEF Fetched
<1>6. \A b \in Block : Fetched(MSHR, lower, b)'
  BY <1>5
<1>. QED  BY <1>3, <1>4, <1>6 DEF Matched

LEMMA EndCycleMatches ==
  ASSUME Typed, Pipelined, Matched, EndCycle
  PROVE  Matched'
<1>1. /\ Len(MSHR') = Len(MSHR) /\ Len(MSHR) \in Nat /\ MSHR' \in Seq(MissType)
      /\ MSHR \in Seq(MissType) /\ lower' = lower
      /\ \A i \in 1 .. Len(MSHR) :
           /\ MSHR[i] \in MissType /\ MSHR'[i] \in MissType /\ MSHR'[i].addr = MSHR[i].addr
           /\ MSHR'[i].ready = Sooner(MSHR[i].ready)
           /\ MSHR'[i].ready = Unknown <=> MSHR[i].ready = Unknown
  BY EndCycleKeeps DEF Kept, Typed, EndCycle
<1>2. DOMAIN MSHR = 1 .. Len(MSHR) /\ DOMAIN MSHR' = 1 .. Len(MSHR)
  BY <1>1, SeqParts
<1>3. ReturnedFirst'
  <2>. SUFFICES ASSUME NEW i \in 1 .. Len(MSHR), NEW j \in 1 .. Len(MSHR), i < j
                PROVE  \/ MSHR'[j].ready = Unknown
                       \/ MSHR'[i].ready # Unknown /\ MSHR'[i].ready <= MSHR'[j].ready
    BY <1>2 DEF ReturnedFirst
  <2>1. \/ MSHR[j].ready = Unknown
        \/ MSHR[i].ready # Unknown /\ MSHR[i].ready <= MSHR[j].ready
    BY <1>2 DEF Matched, ReturnedFirst
  <2>2. MSHR[i].ready \in {Unknown} \cup 0 .. FILL_LATENCY /\ MSHR[j].ready \in {Unknown} \cup 0 .. FILL_LATENCY
    BY <1>1 DEF MissType, MissFields
  <2>3. CASE MSHR[j].ready = Unknown
    BY <1>1, <2>3
  <2>4. CASE MSHR[j].ready # Unknown
    <3>1. MSHR[i].ready # Unknown /\ MSHR[i].ready <= MSHR[j].ready
      BY <2>1, <2>4
    <3>2. MSHR[i].ready \in Nat /\ MSHR[j].ready \in Nat
      BY <2>2, <2>4, <3>1, Constants
    <3>3. Sooner(MSHR[i].ready) <= Sooner(MSHR[j].ready)
      BY <3>1, <3>2 DEF Sooner
    <3>. QED  BY <1>1, <3>1, <3>3
  <2>. QED  BY <2>3, <2>4
<1>4. ASSUME NEW b \in Block PROVE Fetched(MSHR', lower', b)
  <2>1. Fetched(MSHR, lower, b)
    BY DEF Matched
  <2>2. \A i \in 1 .. Len(MSHR) : /\ MSHR'[i] \in MissOf(b) <=> MSHR[i] \in MissOf(b)
                                  /\ MSHR'[i] \in WaitOf(b) <=> MSHR[i] \in WaitOf(b)
    BY <1>1 DEF MissOf, WaitOf
  <2>3. /\ OnceIn(MSHR, MissOf(b)) <=> OnceIn(MSHR', MissOf(b))
        /\ SomeIn(MSHR, WaitOf(b)) <=> SomeIn(MSHR', WaitOf(b))
    BY <1>1, <2>2, AlikeIn
  <2>. QED  BY <1>1, <2>1, <2>3 DEF Fetched
<1>5. \A b \in Block : Fetched(MSHR, lower, b)'
  BY <1>4
<1>6. Len(MSHR') <= MSHR_SIZE
  BY <1>1 DEF Matched
<1>. QED  BY <1>3, <1>5, <1>6 DEF Matched

LEMMA LowerReadMatches ==
  ASSUME Typed, Pipelined, Matched, NEW q \in {"RQ", "PQ"}, NEW i \in DOMAIN lower[q], LowerRead(q, i)
  PROVE  Matched'
<1>. DEFINE r == lower[q][i]
<1>1. /\ lower[q] \in Seq(LowerRequest) /\ i \in 1 .. Len(lower[q])
      /\ lower'[q] = RemoveAt(lower[q], i)
      /\ \A p \in {"RQ", "PQ"} : p # q => lower'[p] = lower[p]
      /\ lower'.returned = IF r.resp THEN Append(lower.returned, r.addr) ELSE lower.returned
  BY LowerReadKeeps
<1>2. /\ Without(lower[q], lower'[q], i) /\ Len(lower[q]) \in Nat /\ r \in LowerRequest
      /\ r.addr \in Addr /\ lower.returned \in Seq(Addr)
  <2>1. Without(lower[q], RemoveAt(lower[q], i), i)
    BY <1>1, RemovedIsWithout
  <2>2. Len(lower[q]) \in Nat /\ r \in LowerRequest
    BY <1>1, SeqParts
  <2>. QED  BY <1>1, <2>1, <2>2 DEF Typed, LowerType, LowerRequest
<1>3. MSHR' = MSHR
  BY DEF LowerRead, cacheVars
<1>. HIDE DEF r
<1>4. ASSUME NEW b \in Block PROVE Fetched(MSHR', lower', b)
  <2>. DEFINE W == WantOf(b)
              C == CameOf(b)
              p == IF q = "RQ" THEN "PQ" ELSE "RQ"
  <2>1. Fetched(MSHR, lower, b)
    BY DEF Matched
  <2>2. r \in W <=> r.resp /\ r.addr \in C
    BY <1>2 DEF WantOf, CameOf
  <2>3. /\ SomeIn(lower[q], W) <=> SomeIn(lower'[q], W) \/ r \in W
        /\ OnceIn(lower[q], W) => OnceIn(lower'[q], W) /\ ~(SomeIn(lower'[q], W) /\ r \in W)
    <3>. HIDE DEF W
    <3>. QED  BY <1>1, <1>2, WithoutIn DEF r
  <2>4. /\ SomeIn(lower'.returned, C) <=> SomeIn(lower.returned, C) \/ r \in W
        /\ OnceIn(lower.returned, C) /\ ~(SomeIn(lower.returned, C) /\ r \in W) => OnceIn(lower'.returned, C)
    <3>1. CASE ~r.resp
      BY <1>1, <2>2, <3>1
    <3>2. CASE r.resp
      <4>. HIDE DEF C, W
      <4>1. /\ SomeIn(Append(lower.returned, r.addr), C) <=> SomeIn(lower.returned, C) \/ r.addr \in C
            /\ OnceIn(lower.returned, C) /\ ~(SomeIn(lower.returned, C) /\ r.addr \in C)
                 => OnceIn(Append(lower.returned, r.addr), C)
        BY <1>2, AppendIn
      <4>. QED  BY <1>1, <2>2, <3>2, <4>1
    <3>. QED  BY <3>1, <3>2
  <2>5. /\ lower'[p] = lower[p] /\ p \in {"RQ", "PQ"} /\ p # q
        /\ q = "RQ" => p = "PQ"
        /\ q = "PQ" => p = "RQ"
    BY <1>1
  <2>6. /\ OnceIn(MSHR, MissOf(b))
        /\ OnceIn(lower[q], W) /\ OnceIn(lower[p], W) /\ OnceIn(lower.returned, C)
        /\ ~(SomeIn(lower[q], W) /\ SomeIn(lower[p], W))
        /\ ~(SomeIn(lower[q], W) /\ SomeIn(lower.returned, C))
        /\ ~(SomeIn(lower[p], W) /\ SomeIn(lower.returned, C))
        /\ SomeIn(MSHR, WaitOf(b)) <=>
             SomeIn(lower[q], W) \/ SomeIn(lower[p], W) \/ SomeIn(lower.returned, C)
    <3>1. CASE q = "RQ"
      BY <2>1, <2>5, <3>1 DEF Fetched
    <3>2. CASE q = "PQ"
      BY <2>1, <2>5, <3>2 DEF Fetched
    <3>. QED  BY <3>1, <3>2
  <2>. HIDE DEF W, C, p
  <2>7. /\ OnceIn(MSHR', MissOf(b))
        /\ OnceIn(lower'[q], W) /\ OnceIn(lower'[p], W) /\ OnceIn(lower'.returned, C)
        /\ ~(SomeIn(lower'[q], W) /\ SomeIn(lower'[p], W))
        /\ ~(SomeIn(lower'[q], W) /\ SomeIn(lower'.returned, C))
        /\ ~(SomeIn(lower'[p], W) /\ SomeIn(lower'.returned, C))
        /\ SomeIn(MSHR', WaitOf(b)) <=>
             SomeIn(lower'[q], W) \/ SomeIn(lower'[p], W) \/ SomeIn(lower'.returned, C)
    BY <1>3, <2>3, <2>4, <2>5, <2>6
  <2>8. CASE q = "RQ"
    <3>1. p = "PQ"
      BY <2>5, <2>8
    <3>. QED  BY <2>7, <2>8, <3>1 DEF Fetched, W, C
  <2>9. CASE q = "PQ"
    <3>1. p = "RQ"
      BY <2>5, <2>9
    <3>. QED  BY <2>7, <2>9, <3>1 DEF Fetched, W, C
  <2>. QED  BY <2>8, <2>9
<1>5. \A b \in Block : Fetched(MSHR, lower, b)'
  BY <1>4
<1>6. ReturnedFirst' /\ Len(MSHR') <= MSHR_SIZE
  BY <1>3 DEF Matched, ReturnedFirst
<1>. QED  BY <1>5, <1>6 DEF Matched

LEMMA MergeMissKeeps ==
  ASSUME Typed, Pipelined, Matched, MergeMiss
  PROVE  Kept /\ Matched' /\ KnownBlocks
<1>. DEFINE e == Packet
            i == MatchingMSHR(e.addr)
            x == merge(MSHR[i], MissEntry(e, Unknown))
            N == Len(MSHR)
<1>1. /\ pc = "miss" /\ pc' = pc /\ loop.at <= loop.checks /\ FinishCheck /\ i # 0
      /\ MSHR' = [MSHR EXCEPT ![i] = x] /\ lower' = lower
  BY DEF MergeMiss, Checking
<1>2. /\ e \in CheckType /\ e.tr /\ e.addr \in Addr
      /\ MSHR \in Seq(MissType) /\ N \in Nat /\ \A k \in 1 .. N : MSHR[k] \in MissType
  BY <1>1, PacketIs, SeqParts DEF Typed
<1>3. i \in 1 .. N /\ SameBlock(MSHR[i].addr, e.addr)
  <2>1. i \in 0 .. N /\ SameBlock(MSHR[i].addr, e.addr)
    BY <1>1, <1>2, FirstMSHR
  <2>. QED  BY <1>1, <1>2, <2>1
<1>4. x \in MissType /\ SameBlock(x.addr, MSHR[i].addr) /\ x.ready = MSHR[i].ready
  <2>1. MSHR[i] \in MissType
    BY <1>2, <1>3
  <2>. QED  BY <1>2, <1>3, <2>1, MergeIs
<1>. HIDE DEF x, e, i
<1>5. /\ MSHR' \in Seq(MissType) /\ Len(MSHR') = N /\ MSHR'[i] = x
      /\ \A k \in 1 .. N : k # i => MSHR'[k] = MSHR[k]
  BY <1>1, <1>2, <1>3, <1>4, ExceptSeq
<1>6. inflight_tag_check' \in Seq(CheckType) /\ loop' \in LoopType /\ Pipelined'
  BY <1>1, FinishCheckIs
<1>7. Typed'
  BY <1>1, <1>5, <1>6 DEF MergeMiss, Typed
<1>8. \A k \in 1 .. N : /\ MSHR'[k] \in MissType /\ BlockOf[MSHR'[k].addr] = BlockOf[MSHR[k].addr]
                        /\ MSHR'[k].ready = MSHR[k].ready
  <2>. SUFFICES ASSUME NEW k \in 1 .. N
                PROVE  /\ MSHR'[k] \in MissType /\ BlockOf[MSHR'[k].addr] = BlockOf[MSHR[k].addr]
                       /\ MSHR'[k].ready = MSHR[k].ready
    OBVIOUS
  <2>1. CASE k = i
    BY <1>4, <1>5, <2>1 DEF SameBlock
  <2>2. CASE k # i
    BY <1>2, <1>5, <2>2
  <2>. QED  BY <2>1, <2>2
<1>9. ASSUME NEW b \in Block PROVE Fetched(MSHR', lower', b)
  <2>1. Fetched(MSHR, lower, b)
    BY DEF Matched
  <2>2. \A k \in 1 .. N : /\ MSHR'[k] \in MissOf(b) <=> MSHR[k] \in MissOf(b)
                          /\ MSHR'[k] \in WaitOf(b) <=> MSHR[k] \in WaitOf(b)
    BY <1>2, <1>8 DEF MissOf, WaitOf
  <2>3. /\ OnceIn(MSHR, MissOf(b)) <=> OnceIn(MSHR', MissOf(b))
        /\ SomeIn(MSHR, WaitOf(b)) <=> SomeIn(MSHR', WaitOf(b))
    BY <1>5, <2>2, AlikeIn
  <2>. QED  BY <1>1, <2>1, <2>3 DEF Fetched
<1>10. \A b \in Block : Fetched(MSHR, lower, b)'
  BY <1>9
<1>11. ReturnedFirst'
  <2>1. DOMAIN MSHR = 1 .. N /\ DOMAIN MSHR' = 1 .. N
    BY <1>2, <1>5, SeqParts
  <2>. QED  BY <1>8, <2>1 DEF Matched, ReturnedFirst
<1>12. Len(MSHR') <= MSHR_SIZE
  BY <1>5 DEF Matched
<1>13. KnownBlocks
  BY <1>5, <1>8 DEF KnownBlocks
<1>. QED  BY <1>6, <1>7, <1>10, <1>11, <1>12, <1>13 DEF Matched, Kept

LEMMA ForwardMissKeeps ==
  ASSUME Typed, Pipelined, Matched, ForwardMiss
  PROVE  Kept /\ Matched'
<1>. DEFINE e == Packet
            q == SendQueue(e)
            p == IF q = "RQ" THEN "PQ" ELSE "RQ"
            wanted == ResponseRequested(e)
            r == [addr |-> e.addr, resp |-> wanted]
            x == MissEntry(e, Unknown)
            N == Len(MSHR)
<1>1. /\ pc = "miss" /\ pc' = pc /\ loop.at <= loop.checks /\ FinishCheck
      /\ MatchingMSHR(e.addr) = 0 /\ ~MSHRFull
      /\ MSHR' = IF wanted THEN Append(MSHR, x) ELSE MSHR
      /\ lower' = [lower EXCEPT ![q] = Append(@, r)]
  BY DEF ForwardMiss, Checking, CanMiss
<1>2. /\ e \in CheckType /\ e.tr /\ e.addr \in Addr
      /\ MSHR \in Seq(MissType) /\ N \in Nat /\ \A k \in 1 .. N : MSHR[k] \in MissType
      /\ lower \in LowerType
  BY <1>1, PacketIs, SeqParts DEF Typed
<1>3. \A k \in 1 .. N : ~SameBlock(MSHR[k].addr, e.addr)
  BY <1>1, <1>2, FirstMSHR
<1>4. wanted \in BOOLEAN /\ q \in {"RQ", "PQ"} /\ r \in LowerRequest /\ r.addr = e.addr /\ r.resp = wanted
  BY <1>2 DEF ResponseRequested, SendQueue, LowerRequest
<1>5. x \in MissType /\ x.addr = e.addr /\ x.ready = Unknown
  <2>1. Unknown \in {Unknown} \cup 0 .. FILL_LATENCY
    OBVIOUS
  <2>. QED  BY <1>2, <2>1, MissEntryIs
<1>. HIDE DEF x, r, wanted, q, e
<1>6. p \in {"RQ", "PQ"} /\ p # q /\ (q = "RQ" => p = "PQ") /\ (q = "PQ" => p = "RQ")
  BY <1>4
<1>7. /\ lower[q] \in Seq(LowerRequest) /\ lower' \in LowerType
      /\ lower'[q] = Append(lower[q], r) /\ lower'[p] = lower[p] /\ lower'.returned = lower.returned
  <2>1. lower[q] \in Seq(LowerRequest)
    BY <1>2, <1>4 DEF LowerType
  <2>2. Append(lower[q], r) \in Seq(LowerRequest)
    BY <1>4, <2>1, AppendIs
  <2>3. CASE q = "RQ"
    BY <1>1, <1>2, <2>1, <2>2, <2>3 DEF LowerType
  <2>4. CASE q = "PQ"
    BY <1>1, <1>2, <2>1, <2>2, <2>4 DEF LowerType
  <2>. QED  BY <1>4, <2>3, <2>4
<1>. HIDE DEF p
<1>8. /\ MSHR' \in Seq(MissType) /\ Len(MSHR') \in Nat
      /\ wanted => Len(MSHR') = N + 1 /\ MSHR'[N + 1] = x
      /\ ~wanted => MSHR' = MSHR
      /\ \A k \in 1 .. N : MSHR'[k] = MSHR[k]
  BY <1>1, <1>2, <1>5, AppendIs, SeqParts
<1>9. inflight_tag_check' \in Seq(CheckType) /\ loop' \in LoopType /\ Pipelined'
  BY <1>1, FinishCheckIs
<1>10. Typed'
  BY <1>1, <1>7, <1>8, <1>9 DEF ForwardMiss, Typed
<1>11. Len(MSHR') <= MSHR_SIZE
  BY <1>1, <1>2, <1>8, Constants DEF Matched, MSHRFull
<1>12. ReturnedFirst'
  <2>1. DOMAIN MSHR = 1 .. N /\ DOMAIN MSHR' = 1 .. Len(MSHR')
    BY <1>2, <1>8, SeqParts
  <2>2. CASE ~wanted
    BY <1>8, <2>2 DEF Matched, ReturnedFirst
  <2>3. CASE wanted
    <3>. SUFFICES ASSUME NEW i \in 1 .. N + 1, NEW j \in 1 .. N + 1, i < j
                  PROVE  \/ MSHR'[j].ready = Unknown
                         \/ MSHR'[i].ready # Unknown /\ MSHR'[i].ready <= MSHR'[j].ready
      BY <1>8, <2>1, <2>3 DEF ReturnedFirst
    <3>1. CASE j = N + 1
      BY <1>5, <1>8, <2>3, <3>1
    <3>2. CASE j # N + 1
      <4>1. i \in 1 .. N /\ j \in 1 .. N
        BY <1>2, <3>2
      <4>. QED  BY <1>8, <2>1, <4>1 DEF Matched, ReturnedFirst
    <3>. QED  BY <3>1, <3>2
  <2>. QED  BY <2>2, <2>3
<1>13. ASSUME NEW b \in Block PROVE Fetched(MSHR', lower', b)
  <2>. DEFINE W == WantOf(b)
              C == CameOf(b)
              M == MissOf(b)
              X == WaitOf(b)
  <2>1. /\ OnceIn(MSHR, M)
        /\ OnceIn(lower[q], W) /\ OnceIn(lower[p], W) /\ OnceIn(lower.returned, C)
        /\ ~(SomeIn(lower[q], W) /\ SomeIn(lower[p], W))
        /\ ~(SomeIn(lower[q], W) /\ SomeIn(lower.returned, C))
        /\ ~(SomeIn(lower[p], W) /\ SomeIn(lower.returned, C))
        /\ SomeIn(MSHR, X) <=>
             SomeIn(lower[q], W) \/ SomeIn(lower[p], W) \/ SomeIn(lower.returned, C)
    <3>0. Fetched(MSHR, lower, b)
      BY DEF Matched
    <3>1. CASE q = "RQ"
      BY <1>6, <3>0, <3>1 DEF Fetched
    <3>2. CASE q = "PQ"
      BY <1>6, <3>0, <3>2 DEF Fetched
    <3>. QED  BY <1>4, <3>1, <3>2
  <2>2. x \in M <=> BlockOf[e.addr] = b
    BY <1>5 DEF MissOf
  <2>3. x \in X <=> BlockOf[e.addr] = b
    BY <1>5 DEF WaitOf
  <2>4. r \in W <=> wanted /\ BlockOf[e.addr] = b
    BY <1>4 DEF WantOf
  <2>5. BlockOf[e.addr] = b => ~SomeIn(MSHR, M) /\ ~SomeIn(MSHR, X)
    BY <1>3 DEF SomeIn, MissOf, WaitOf, SameBlock
  <2>. HIDE DEF W, C, M, X
  <2>6. /\ SomeIn(lower'[q], W) <=> SomeIn(lower[q], W) \/ r \in W
        /\ OnceIn(lower[q], W) /\ ~(SomeIn(lower[q], W) /\ r \in W) => OnceIn(lower'[q], W)
    BY <1>4, <1>7, AppendIn
  <2>7. CASE wanted
    <3>1. MSHR' = Append(MSHR, x)
      BY <1>1, <2>7
    <3>2. /\ SomeIn(MSHR', X) <=> SomeIn(MSHR, X) \/ x \in X
          /\ OnceIn(MSHR, M) /\ ~(SomeIn(MSHR, M) /\ x \in M) => OnceIn(MSHR', M)
      BY <1>2, <1>5, <3>1, AppendIn
    <3>3. /\ OnceIn(MSHR', M)
          /\ OnceIn(lower'[q], W) /\ OnceIn(lower'[p], W) /\ OnceIn(lower'.returned, C)
          /\ ~(SomeIn(lower'[q], W) /\ SomeIn(lower'[p], W))
          /\ ~(SomeIn(lower'[q], W) /\ SomeIn(lower'.returned, C))
          /\ ~(SomeIn(lower'[p], W) /\ SomeIn(lower'.returned, C))
          /\ SomeIn(MSHR', X) <=>
               SomeIn(lower'[q], W) \/ SomeIn(lower'[p], W) \/ SomeIn(lower'.returned, C)
      BY <1>7, <2>1, <2>2, <2>3, <2>4, <2>5, <2>6, <2>7, <3>2
    <3>4. CASE q = "RQ"
      BY <1>6, <3>3, <3>4 DEF Fetched, W, C, M, X
    <3>5. CASE q = "PQ"
      BY <1>6, <3>3, <3>5 DEF Fetched, W, C, M, X
    <3>. QED  BY <1>4, <3>4, <3>5
  <2>8. CASE ~wanted
    <3>1. MSHR' = MSHR
      BY <1>1, <2>8
    <3>2. /\ OnceIn(MSHR', M)
          /\ OnceIn(lower'[q], W) /\ OnceIn(lower'[p], W) /\ OnceIn(lower'.returned, C)
          /\ ~(SomeIn(lower'[q], W) /\ SomeIn(lower'[p], W))
          /\ ~(SomeIn(lower'[q], W) /\ SomeIn(lower'.returned, C))
          /\ ~(SomeIn(lower'[p], W) /\ SomeIn(lower'.returned, C))
          /\ SomeIn(MSHR', X) <=>
               SomeIn(lower'[q], W) \/ SomeIn(lower'[p], W) \/ SomeIn(lower'.returned, C)
      BY <1>7, <2>1, <2>4, <2>6, <2>8, <3>1
    <3>3. CASE q = "RQ"
      BY <1>6, <3>2, <3>3 DEF Fetched, W, C, M, X
    <3>4. CASE q = "PQ"
      BY <1>6, <3>2, <3>4 DEF Fetched, W, C, M, X
    <3>. QED  BY <1>4, <3>3, <3>4
  <2>. QED  BY <2>7, <2>8
<1>14. \A b \in Block : Fetched(MSHR, lower, b)'
  BY <1>13
<1>. QED  BY <1>9, <1>10, <1>11, <1>12, <1>14 DEF Matched, Kept

-----------------------------------------------------------------------------
(* The invariant holds.                                                    *)
LEMMA InitHolds ==
  ASSUME Init
  PROVE  Inv
<1>1. /\ <<>> \in Seq(RequestType) /\ <<>> \in Seq(ResponseType) /\ <<>> \in Seq(MissType)
      /\ <<>> \in Seq(FillType) /\ <<>> \in Seq(CheckType) /\ <<>> \in Seq(PrefetchType)
      /\ <<>> \in Seq(LowerRequest) /\ <<>> \in Seq(Addr) /\ Len(<<>>) = 0
  BY EmptySeq
<1>2. EmptyChannel \in ChannelType /\ Fits(EmptyChannel)
  BY <1>1, Constants DEF EmptyChannel, ChannelType, Fits, QueueNames
<1>3. upper_levels \in Seq(Uppers) /\ Len(upper_levels) # 0
  <2>1. Cardinality(Uppers) \in Nat /\ Cardinality(Uppers) # 0
    BY UppersAssumption, FS_CardinalityType, FS_EmptySet
  <2>2. upper_levels \in [1 .. Cardinality(Uppers) -> Uppers]
    BY DEF Init, SetToSeqs
  <2>. QED  BY <2>1, <2>2, FunctionIsSeq
<1>4. block \in [Sets -> [Ways -> LineType]]
  BY LinesAre DEF Init, Sets
<1>5. lower \in LowerType /\ tlb \in TlbType /\ loop \in LoopType /\ pc \in Steps
  BY <1>1 DEF Init, LowerType, TlbType, NoLoop, LoopType, Steps
<1>6. Typed
  BY <1>1, <1>2, <1>3, <1>4, <1>5, Constants DEF Init, Typed
<1>7. Bandwidth \in Nat
  BY Constants DEF Bandwidth
<1>8. Pipelined
  BY <1>1, <1>7 DEF Init, Pipelined
<1>9. \A T : ~SomeIn(<<>>, T) /\ OnceIn(<<>>, T)
  BY <1>1 DEF SomeIn, OnceIn
<1>10. ReturnedFirst
  <2>1. DOMAIN MSHR = {}
    BY DEF Init
  <2>. QED  BY <2>1 DEF ReturnedFirst
<1>11. Matched
  <2>1. /\ MSHR = <<>> /\ lower.RQ = <<>> /\ lower.PQ = <<>> /\ lower.returned = <<>>
    BY DEF Init
  <2>2. \A b \in Block : Fetched(MSHR, lower, b)
    BY <1>9, <2>1 DEF Fetched
  <2>. QED  BY <1>1, <1>10, <2>1, <2>2, Constants DEF Matched
<1>. QED  BY <1>6, <1>8, <1>11 DEF Inv

LEMMA OperateKeeps ==
  ASSUME Inv, Operate
  PROVE  Inv'
<1>. USE DEF Inv, Kept
<1>1. CASE CheckCollisions
  BY <1>1, CheckCollisionsKeeps, SameMisses DEF CheckCollisions, cacheVars
<1>2. CASE FinishPacket
  BY <1>2, FinishPacketKeeps
<1>3. CASE FinishTranslation
  BY <1>3, FinishTranslationKeeps, SameMisses DEF FinishTranslation
<1>4. CASE StartFills
  BY <1>4, StartFillsKeeps, SameMisses DEF StartFills, cacheVars
<1>5. CASE FillFromMSHR
  BY <1>5, FillFromMSHRKeeps, FillFromMSHRMatches
<1>6. CASE EndFills(MSHR, "fill MSHR", "fill writes")
  <2>1. Kept
    BY <1>6, EndFillsKeeps
  <2>. QED  BY <1>6, <2>1, SameMisses DEF EndFills, cacheVars
<1>7. CASE FillFromWrites
  BY <1>7, FillFromWritesKeeps, SameMisses DEF FillFromWrites
<1>8. CASE EndFills(inflight_writes, "fill writes", "initiate")
  <2>1. Kept
    BY <1>8, EndFillsKeeps
  <2>. QED  BY <1>8, <2>1, SameMisses DEF EndFills, cacheVars
<1>9. CASE InitiateFromStash
  BY <1>9, InitiateFromStashKeeps, SameMisses DEF InitiateFromStash
<1>10. CASE InitiateFromChannel
  BY <1>10, InitiateFromChannelKeeps, SameMisses DEF InitiateFromChannel
<1>11. CASE InitiateFromPrefetches
  BY <1>11, InitiateFromPrefetchesKeeps, SameMisses DEF InitiateFromPrefetches
<1>12. CASE IssueTranslation
  BY <1>12, IssueTranslationKeeps, SameMisses DEF IssueTranslation
<1>13. CASE StashUntranslated
  BY <1>13, StashUntranslatedKeeps, SameMisses DEF StashUntranslated
<1>14. CASE TryHit
  BY <1>14, TryHitKeeps, SameMisses DEF TryHit
<1>15. CASE TryMiss
  BY <1>15, TryMissKeeps, SameMisses DEF TryMiss
<1>16. CASE StartMisses
  BY <1>16, StartMissesKeeps, SameMisses DEF StartMisses, cacheVars
<1>17. CASE HandleWrite
  BY <1>17, HandleWriteKeeps, SameMisses DEF HandleWrite
<1>18. CASE MergeMiss
  BY <1>18, MergeMissKeeps
<1>19. CASE ForwardMiss
  BY <1>19, ForwardMissKeeps
<1>20. CASE RetryMiss
  BY <1>20, RetryMissKeeps, SameMisses DEF RetryMiss
<1>21. CASE EndCycle
  BY <1>21, EndCycleKeeps, EndCycleMatches
<1>. QED
  BY <1>1, <1>2, <1>3, <1>4, <1>5, <1>6, <1>7, <1>8, <1>9, <1>10, <1>11, <1>12, <1>13, <1>14, <1>15,
     <1>16, <1>17, <1>18, <1>19, <1>20, <1>21 DEF Operate

LEMMA AroundKeeps ==
  ASSUME Inv, Around
  PROVE  Inv'
<1>. USE DEF Inv, Kept
<1>1. ASSUME NEW i \in Ids, UpperRead(i) PROVE Inv'
  BY <1>1, UpperReadKeeps, SameMisses DEF UpperRead, Add, cacheVars
<1>2. ASSUME NEW w \in Writes, UpperWrite(w) PROVE Inv'
  BY <1>2, UpperWriteKeeps, SameMisses DEF UpperWrite, Add, cacheVars
<1>3. ASSUME NEW u \in Uppers, UpperCollect(u) PROVE Inv'
  BY <1>3, UpperCollectKeeps, SameMisses DEF UpperCollect, cacheVars
<1>4. ASSUME NEW q \in {"RQ", "PQ"}, NEW i \in DOMAIN lower[q], LowerRead(q, i) PROVE Inv'
  BY <1>4, LowerReadKeeps, LowerReadMatches
<1>5. CASE LowerWrite
  BY <1>5, LowerWriteKeeps, SameMisses DEF LowerWrite, cacheVars
<1>6. ASSUME NEW i \in DOMAIN tlb.RQ, TlbAnswer(i) PROVE Inv'
  BY <1>6, TlbAnswerKeeps, SameMisses DEF TlbAnswer, cacheVars
<1>. QED  BY <1>1, <1>2, <1>3, <1>4, <1>5, <1>6 DEF Around

LEMMA StutterKeeps ==
  ASSUME Inv, UNCHANGED vars
  PROVE  Inv'
BY DEF Inv, Typed, Pipelined, Matched, ReturnedFirst, Fetched, vars, cacheVars

(* The queues hold what was asked for, the pipeline keeps to its bound, and  *)
(* misses and what is under way below match, in every state (operate).      *)
THEOREM InvHolds == Spec => []Inv
<1>1. Init => Inv
  BY InitHolds
<1>2. Inv /\ [Next]_vars => Inv'
  BY OperateKeeps, AroundKeeps, StutterKeeps DEF Next
<1>. QED  BY <1>1, <1>2, PTL DEF Spec

LEMMA OnceCount ==
  ASSUME NEW s, NEW T, OnceIn(s, T), NEW I, I = {i \in 1 .. Len(s) : s[i] \in T}
  PROVE  Cardinality(I) = IF SomeIn(s, T) THEN 1 ELSE 0
<1>1. CASE SomeIn(s, T)
  <2>1. PICK i \in 1 .. Len(s) : s[i] \in T
    BY <1>1 DEF SomeIn
  <2>2. I = {i}
    BY <2>1 DEF OnceIn
  <2>. QED  BY <1>1, <2>2, FS_Singleton
<1>2. CASE ~SomeIn(s, T)
  <2>1. I = {}
    BY <1>2 DEF SomeIn
  <2>. QED  BY <1>2, <2>1, FS_EmptySet
<1>. QED  BY <1>1, <1>2

LEMMA InvIsAwaited ==
  ASSUME Inv
  PROVE  MissesAwaited /\ OneMissPerBlock /\ TagCheckBound
<1>1. /\ MSHR \in Seq(MissType) /\ Len(MSHR) \in Nat /\ DOMAIN MSHR = 1 .. Len(MSHR)
      /\ \A i \in 1 .. Len(MSHR) : MSHR[i] \in MissType
      /\ lower.RQ \in Seq(LowerRequest) /\ lower.PQ \in Seq(LowerRequest) /\ lower.returned \in Seq(Addr)
      /\ DOMAIN lower.RQ = 1 .. Len(lower.RQ) /\ DOMAIN lower.PQ = 1 .. Len(lower.PQ)
      /\ DOMAIN lower.returned = 1 .. Len(lower.returned)
      /\ \A i \in 1 .. Len(lower.RQ) : lower.RQ[i] \in LowerRequest
      /\ \A i \in 1 .. Len(lower.PQ) : lower.PQ[i] \in LowerRequest
      /\ \A i \in 1 .. Len(lower.returned) : lower.returned[i] \in Addr
  BY SeqParts DEF Inv, Typed, LowerType
<1>2. EachMissAwaited
  <2>1. pc # "abort"
    BY DEF Inv, Typed, Steps
  <2>2. ASSUME NEW b \in Block
        PROVE  Awaited(b) = Cardinality({i \in DOMAIN MSHR :
                                 BlockOf[MSHR[i].addr] = b /\ MSHR[i].ready = Unknown})
    <3>. DEFINE waits == {i \in DOMAIN MSHR : BlockOf[MSHR[i].addr] = b /\ MSHR[i].ready = Unknown}
                W == WantOf(b)
                C == CameOf(b)
                X == WaitOf(b)
    <3>1. Fetched(MSHR, lower, b)
      BY DEF Inv, Matched
    <3>2. /\ RequestsBelow("RQ", b) = {i \in 1 .. Len(lower.RQ) : lower.RQ[i] \in W}
          /\ RequestsBelow("PQ", b) = {i \in 1 .. Len(lower.PQ) : lower.PQ[i] \in W}
          /\ ResponsesBelow(b) = {i \in 1 .. Len(lower.returned) : lower.returned[i] \in C}
          /\ waits = {i \in 1 .. Len(MSHR) : MSHR[i] \in X}
      BY <1>1 DEF RequestsBelow, ResponsesBelow, WantOf, CameOf, WaitOf
    <3>3. OnceIn(MSHR, X)
      BY <3>1 DEF Fetched, OnceIn, MissOf, WaitOf
    <3>4. OnceIn(lower.RQ, W) /\ OnceIn(lower.PQ, W) /\ OnceIn(lower.returned, C)
      BY <3>1 DEF Fetched
    <3>. HIDE DEF waits
    <3>5. /\ Cardinality(RequestsBelow("RQ", b)) = IF SomeIn(lower.RQ, W) THEN 1 ELSE 0
          /\ Cardinality(RequestsBelow("PQ", b)) = IF SomeIn(lower.PQ, W) THEN 1 ELSE 0
          /\ Cardinality(ResponsesBelow(b)) = IF SomeIn(lower.returned, C) THEN 1 ELSE 0
          /\ Cardinality(waits) = IF SomeIn(MSHR, X) THEN 1 ELSE 0
      <4>. HIDE DEF W, C, X
      <4>. QED  BY <3>2, <3>3, <3>4, OnceCount
    <3>6. Awaited(b) = Cardinality(waits)
      BY <3>1, <3>5 DEF Awaited, Fetched
    <3>. QED  BY <3>6 DEF waits
  <2>. QED  BY <2>1, <2>2 DEF EachMissAwaited
<1>3. TypeOK
  <2>1. pc \in Steps /\ \A u \in Uppers, q \in QueueNames : Len(chan[u][q]) <= QueueSize(q)
    BY DEF Inv, Typed, Fits
  <2>2. \A m \in ToSet(MSHR) : m.ready \in {Unknown} \cup 0 .. FILL_LATENCY
    BY <1>1 DEF ToSet, MissType, MissFields
  <2>3. \A m \in ToSet(inflight_writes) : m.ready \in 0 .. FILL_LATENCY /\ m.type = "WRITE"
    <3>1. DOMAIN inflight_writes = 1 .. Len(inflight_writes)
          /\ \A i \in 1 .. Len(inflight_writes) : inflight_writes[i] \in FillType
      BY SeqParts DEF Inv, Typed
    <3>. QED  BY <3>1 DEF ToSet, FillType, MissType, MissFields
  <2>4. \A e \in ToSet(inflight_tag_check \o translation_stash) : e.event \in 0 .. HIT_LATENCY
    <3>. DEFINE s == inflight_tag_check \o translation_stash
    <3>1. s \in Seq(CheckType)
      BY JoinIs DEF Inv, Typed
    <3>2. DOMAIN s = 1 .. Len(s) /\ \A i \in 1 .. Len(s) : s[i] \in CheckType
      BY <3>1, SeqParts
    <3>. HIDE DEF s
    <3>3. \A e \in ToSet(s) : e.event \in 0 .. HIT_LATENCY
      BY <3>2 DEF ToSet, CheckType, CheckFields
    <3>. QED  BY <3>3 DEF s
  <2>. QED  BY <2>1, <2>2, <2>3, <2>4 DEF TypeOK, Steps, Inv, Typed
<1>4. OneMissPerBlock
  <2>. SUFFICES ASSUME NEW i \in 1 .. Len(MSHR), NEW j \in 1 .. Len(MSHR), i # j,
                       SameBlock(MSHR[i].addr, MSHR[j].addr)
                PROVE  FALSE
    BY <1>1 DEF OneMissPerBlock, Inv, Matched
  <2>. DEFINE b == BlockOf[MSHR[i].addr]
  <2>1. b \in Block
    BY <1>1, BlockOfAssumption DEF MissType, MissFields
  <2>2. MSHR[i] \in MissOf(b) /\ MSHR[j] \in MissOf(b)
    BY <1>1 DEF MissOf, SameBlock
  <2>. HIDE DEF b
  <2>. QED  BY <2>1, <2>2 DEF Inv, Matched, Fetched, OnceIn
<1>5. TagCheckBound
  BY DEF Inv, Pipelined, Bandwidth, TagCheckBound
<1>. QED  BY <1>2, <1>3, <1>4, <1>5 DEF MissesAwaited, Inv, Matched

(* Whatever is merged, refused and tried again, every MSHR without data has *)
(* exactly one request or response of its block below, every response finds *)
(* such an MSHR (finish_packet never fails its assertion), and the MSHRs    *)
(* stand in the order the fill loop relies on.                             *)
THEOREM MissesAlwaysAwaited == Spec => []MissesAwaited
<1>1. Inv => MissesAwaited
  BY InvIsAwaited
<1>. QED  BY <1>1, InvHolds, PTL

(* A block is on its way to the cache at most once, and the MSHRs are never *)
(* exceeded (handle_miss).                                                 *)
THEOREM OneMissAtATime == Spec => []OneMissPerBlock
<1>1. Inv => OneMissPerBlock
  BY InvIsAwaited
<1>. QED  BY <1>1, InvHolds, PTL

(* The pipeline of tag checks holds no more than it can start in            *)
(* HIT_LATENCY cycles (operate, initiate_tag_check).                       *)
THEOREM PipelineBounded == Spec => []TagCheckBound
<1>1. Inv => TagCheckBound
  BY InvIsAwaited
<1>. QED  BY <1>1, InvHolds, PTL

-----------------------------------------------------------------------------
(* Translations under way.                                                 *)
LEMMA SameUnder ==
  ASSUME UnderWay, tlb' = tlb, inflight_tag_check' = inflight_tag_check,
         translation_stash' = translation_stash
  PROVE  UnderWay'
BY DEF UnderWay

LEMMA CheckUnder ==
  ASSUME Inv, UnderWay, pc \in {"hit", "miss"}, loop.at <= loop.checks, FinishCheck, pc' = pc,
         tlb' = tlb, translation_stash' = translation_stash
  PROVE  UnderWay'
BY FinishCheckIs DEF Inv, UnderWay

LEMMA NextUnder ==
  ASSUME Inv, UnderWay, [Next]_vars
  PROVE  UnderWay'
<1>. USE DEF Inv
<1>1. ASSUME FinishTranslation \/ InitiateFromStash \/ InitiateFromChannel \/ InitiateFromPrefetches
              \/ IssueTranslation \/ StashUntranslated \/ EndCycle
      PROVE  UnderWay'
  BY <1>1, FinishTranslationKeeps, InitiateFromStashKeeps, InitiateFromChannelKeeps,
     InitiateFromPrefetchesKeeps, IssueTranslationKeeps, StashUntranslatedKeeps, EndCycleKeeps
<1>2. ASSUME TryHit \/ HandleWrite \/ MergeMiss \/ ForwardMiss
      PROVE  UnderWay'
  <2>1. /\ pc \in {"hit", "miss"} /\ loop.at <= loop.checks /\ FinishCheck /\ pc' = pc
        /\ tlb' = tlb /\ translation_stash' = translation_stash
    BY <1>2 DEF TryHit, HandleWrite, MergeMiss, ForwardMiss, Checking
  <2>. QED  BY <2>1, CheckUnder
<1>3. ASSUME CheckCollisions \/ FinishPacket \/ StartFills \/ FillFromMSHR \/ FillFromWrites
              \/ EndFills(MSHR, "fill MSHR", "fill writes")
              \/ EndFills(inflight_writes, "fill writes", "initiate")
      PROVE  UnderWay'
  <2>1. /\ tlb' = tlb /\ inflight_tag_check' = inflight_tag_check
        /\ translation_stash' = translation_stash
    BY <1>3 DEF CheckCollisions, FinishPacket, StartFills, FillFromMSHR, FillFromWrites, EndFills, cacheVars
  <2>. QED  BY <2>1, SameUnder
<1>4. ASSUME TryMiss \/ RetryMiss \/ StartMisses
      PROVE  UnderWay'
  <2>1. /\ tlb' = tlb /\ inflight_tag_check' = inflight_tag_check
        /\ translation_stash' = translation_stash
    BY <1>4 DEF TryMiss, RetryMiss, StartMisses, NextCheck, cacheVars
  <2>. QED  BY <2>1, SameUnder
<1>5. ASSUME NEW i \in DOMAIN tlb.RQ, TlbAnswer(i) PROVE UnderWay'
  BY <1>5, TlbAnswerKeeps
<1>6. ASSUME \/ \E i \in Ids : UpperRead(i)
             \/ \E w \in Writes : UpperWrite(w)
             \/ \E u \in Uppers : UpperCollect(u)
             \/ \E q \in {"RQ", "PQ"} : \E i \in DOMAIN lower[q] : LowerRead(q, i)
             \/ LowerWrite \/ UNCHANGED vars
      PROVE  UnderWay'
  <2>1. /\ tlb' = tlb /\ inflight_tag_check' = inflight_tag_check
        /\ translation_stash' = translation_stash
    BY <1>6 DEF UpperRead, UpperWrite, Add, UpperCollect, LowerRead, LowerWrite, vars, cacheVars
  <2>. QED  BY <2>1, SameUnder
<1>. QED  BY <1>1, <1>2, <1>3, <1>4, <1>5, <1>6 DEF Next, Operate, Around

(* A request that has asked for its translation waits for one of its page   *)
(* that is under way (issue_translation, finish_translation).               *)
THEOREM UnderWayHolds == Spec => [](Inv /\ UnderWay)
<1>1. Init => UnderWay
  <2>1. Len(<<>>) = 0
    BY EmptySeq
  <2>. QED  BY <2>1 DEF Init, UnderWay, Under
<1>2. Inv /\ UnderWay /\ [Next]_vars => UnderWay'
  BY NextUnder
<1>. QED  BY <1>1, <1>2, InvHolds, PTL DEF Spec

LEMMA JoinHolds ==
  ASSUME NEW T, NEW a \in Seq(T), NEW b \in Seq(T)
  PROVE  /\ \A i \in 1 .. Len(a) : a[i] \in ToSet(a \o b)
         /\ \A i \in 1 .. Len(b) : b[i] \in ToSet(a \o b)
<1>. DEFINE t == a \o b
<1>1. DOMAIN t = 1 .. Len(a) + Len(b) /\ Len(a) \in Nat /\ Len(b) \in Nat
      /\ (\A i \in 1 .. Len(a) : t[i] = a[i])
      /\ (\A i \in 1 .. Len(b) : t[Len(a) + i] = b[i])
  BY JoinIs, SeqParts
<1>. HIDE DEF t
<1>2. ASSUME NEW i \in 1 .. Len(a) PROVE a[i] \in ToSet(t)
  <2>1. i \in DOMAIN t /\ t[i] = a[i]
    BY <1>1
  <2>. QED  BY <2>1 DEF ToSet
<1>3. ASSUME NEW i \in 1 .. Len(b) PROVE b[i] \in ToSet(t)
  <2>1. Len(a) + i \in DOMAIN t /\ t[Len(a) + i] = b[i]
    BY <1>1
  <2>. QED  BY <2>1 DEF ToSet
<1>. QED  BY <1>2, <1>3 DEF t

LEMMA UnderWayIs ==
  ASSUME Inv, UnderWay
  PROVE  TranslationUnderWay
<1>. DEFINE s == inflight_tag_check \o translation_stash
            t == tlb.RQ \o tlb.returned
<1>1. s \in Seq(CheckType) /\ Under(s, tlb)
  BY JoinIs, UnderJoined DEF Inv, Typed, UnderWay
<1>2. /\ \A i \in 1 .. Len(tlb.RQ) : tlb.RQ[i] \in ToSet(t)
      /\ \A i \in 1 .. Len(tlb.returned) : tlb.returned[i] \in ToSet(t)
  BY JoinHolds DEF Inv, Typed, TlbType
<1>3. DOMAIN s = 1 .. Len(s)
  BY <1>1, SeqParts
<1>. HIDE DEF s, t
<1>4. ASSUME NEW p, Coming(tlb, p) PROVE \E v \in ToSet(t) : PageOf[v] = p
  BY <1>2, <1>4, Zenon DEF Coming
<1>5. \A e \in ToSet(s) : ~e.tr /\ e.issued => \E v \in ToSet(t) : PageOf[v] = PageOf[e.v]
  BY <1>1, <1>3, <1>4 DEF ToSet, Under, Asked
<1>. QED  BY <1>5 DEF TranslationUnderWay, s, t

LEMMA AnswersAlwaysMatch ==
  ASSUME Inv, DistinctPages
  PROVE  AnswersMatch
<1>. SUFFICES ASSUME NEW i \in Ids, NEW r \in ToSet(chan[Req[i].from].returned), i \in r.deps
              PROVE  IF Req[i].tr THEN SameBlock(r.addr, Req[i].addr) ELSE SameBlock(r.v, Req[i].addr)
  BY DEF AnswersMatch
<1>1. Req[i].from \in Uppers
  BY RequestsAssumption
<1>2. chan[Req[i].from].returned \in Seq(ResponseType)
  BY <1>1, QueuesOf DEF Inv, Typed
<1>3. r \in ResponseType
  BY <1>2, SeqParts DEF ToSet
<1>. QED  BY <1>3 DEF ResponseType

(* Where the virtual memory keeps two pages apart, untranslated requests    *)
(* wait for a translation that is under way, come back into the pipeline    *)
(* only when there is room in it, and every response names the block that   *)
(* was asked for (finish_translation, issue_translation, handle_fill).      *)
THEOREM TranslationsAlwaysKept ==
  ASSUME DistinctPages
  PROVE  Spec => []TranslationsKept
<1>1. Inv /\ UnderWay => TranslationsKept
  BY InvIsAwaited, UnderWayIs, AnswersAlwaysMatch DEF TranslationsKept
<1>. QED  BY <1>1, UnderWayHolds, PTL

-----------------------------------------------------------------------------
(* Blocks.  Where writes allocate like reads, a write is a miss like others *)
(* and handle_write is not used.                                           *)

(* Way w of the lines B holds block b; none does. *)
HasIn(B, b, w) == B[SetOf[b]][w].valid /\ BlockOf[B[SetOf[b]][w].addr] = b
Absent(B, b) == \A w \in Ways : ~HasIn(B, b, w)

Once(B) == \A b \in Block : \A v, w \in Ways : HasIn(B, b, v) /\ HasIn(B, b, w) => v = w
NoneKept(B, m) == \A i \in 1 .. Len(m) : Absent(B, BlockOf[m[i].addr])
(* The tag checks of this cycle that missed: their blocks are not there. *)
LookedUp ==
  pc \in {"hit", "miss"} =>
    \A i \in 1 .. loop.checks :
      pc = "miss" \/ i < loop.at => Absent(block, BlockOf[inflight_tag_check[i].addr])
Single == inflight_writes = <<>> /\ Once(block) /\ NoneKept(block, MSHR) /\ LookedUp

LEMMA SameBlocks ==
  ASSUME Single, block' = block, inflight_writes' = inflight_writes, KnownBlocks, LookedUp'
  PROVE  Single'
<1>1. NoneKept(block, MSHR)'
  BY DEF KnownBlocks, NoneKept, Single
<1>. QED  BY <1>1 DEF Single

LEMMA SameMSHR ==
  ASSUME MSHR' = MSHR
  PROVE  KnownBlocks
BY DEF KnownBlocks

LEMMA Elsewhere ==
  ASSUME Single, block' = block, inflight_writes' = inflight_writes, KnownBlocks,
         pc' \notin {"hit", "miss"}
  PROVE  Single'
<1>1. LookedUp'
  BY DEF LookedUp
<1>. QED  BY <1>1, SameBlocks

LEMMA HitWaysAre ==
  ASSUME NEW a, NEW w \in Ways
  PROVE  w \in HitWays(a) <=> HasIn(block, BlockOf[a], w)
BY DEF HitWays, HasIn, SameBlock

(* The lookups after one has left the pipeline. *)
LEMMA FinishLookedUp ==
  ASSUME Inv, LookedUp, pc \in {"hit", "miss"}, loop.at <= loop.checks, FinishCheck, pc' = pc,
         \A b \in Block : Absent(block, b) => Absent(block', b)
  PROVE  LookedUp'
<1>1. /\ loop.at \in 1 .. loop.checks /\ loop.checks \in Nat /\ loop.checks <= Len(inflight_tag_check)
      /\ \A i \in 1 .. Len(inflight_tag_check) : inflight_tag_check[i] \in CheckType
      /\ \A i \in 1 .. loop.checks : inflight_tag_check[i].tr
  BY PacketIs, SeqParts DEF Inv, Pipelined
<1>2. /\ loop'.checks = loop.checks - 1 /\ loop'.at = loop.at
      /\ \A j \in 1 .. loop.checks - 1 :
           \/ j < loop.at /\ inflight_tag_check'[j] = inflight_tag_check[j]
           \/ j >= loop.at /\ inflight_tag_check'[j] = inflight_tag_check[j + 1]
  BY FinishCheckIs DEF Inv
<1>3. \A i \in 1 .. loop.checks : BlockOf[inflight_tag_check[i].addr] \in Block
  <2>. SUFFICES ASSUME NEW i \in 1 .. loop.checks PROVE BlockOf[inflight_tag_check[i].addr] \in Block
    OBVIOUS
  <2>1. inflight_tag_check[i] \in CheckType /\ inflight_tag_check[i].tr
    <3>1. i \in 1 .. Len(inflight_tag_check) /\ inflight_tag_check \in Seq(CheckType)
      BY <1>1, PacketIs DEF Inv
    <3>. QED  BY <1>1, <3>1
  <2>2. inflight_tag_check[i].addr \in Addr
    BY <2>1 DEF CheckType, CheckFields
  <2>. QED  BY <2>2, BlockOfAssumption
<1>. SUFFICES ASSUME NEW j \in 1 .. loop'.checks, pc' = "miss" \/ j < loop'.at
              PROVE  Absent(block', BlockOf[inflight_tag_check'[j].addr])
  BY DEF LookedUp
<1>4. j \in 1 .. loop.checks - 1 /\ j \in 1 .. loop.checks /\ j + 1 \in 1 .. loop.checks
  BY <1>1, <1>2
<1>5. CASE j < loop.at /\ inflight_tag_check'[j] = inflight_tag_check[j]
  BY <1>3, <1>4, <1>5 DEF LookedUp
<1>6. CASE j >= loop.at /\ inflight_tag_check'[j] = inflight_tag_check[j + 1]
  <2>1. pc = "miss"
    BY <1>1, <1>2, <1>4, <1>6
  <2>. QED  BY <1>3, <1>4, <1>6, <2>1 DEF LookedUp
<1>. QED  BY <1>2, <1>4, <1>5, <1>6

LEMMA TryHitSingle ==
  ASSUME Inv, Single, TryHit
  PROVE  Single'
<1>. DEFINE a == Packet.addr
            s == SetOf[BlockOf[a]]
            w == Min(HitWays(a))
            l == [block[s][w] EXCEPT !.dirty = @ \/ Packet.type = "WRITE", !.prefetch = @ /\ Packet.pf]
<1>1. /\ pc = "hit" /\ pc' = pc /\ loop.at <= loop.checks /\ FinishCheck
      /\ MSHR' = MSHR /\ inflight_writes' = inflight_writes
  BY DEF TryHit, Checking
<1>2. w \in Ways /\ l \in LineType /\ block' = [block EXCEPT ![s][w] = l]
  BY TryHitKeeps DEF Inv
<1>3. s \in Sets /\ block \in [Sets -> [Ways -> LineType]]
  BY <1>1, PacketIs, SetIs DEF Inv, Typed
<1>. HIDE DEF a, s, w
<1>4. l.valid = block[s][w].valid /\ l.addr = block[s][w].addr
  BY <1>2, <1>3 DEF LineType, LineFields
<1>. HIDE DEF l
<1>5. \A t \in Sets, v \in Ways :
        block'[t][v].valid = block[t][v].valid /\ block'[t][v].addr = block[t][v].addr
  BY <1>2, <1>3, <1>4
<1>6. \A b \in Block, v \in Ways : HasIn(block', b, v) <=> HasIn(block, b, v)
  BY <1>5 DEF HasIn, Sets
<1>7. \A b \in Block : Absent(block', b) <=> Absent(block, b)
  BY <1>6 DEF Absent
<1>8. LookedUp'
  BY <1>1, <1>7, FinishLookedUp DEF Single
<1>9. Once(block')
  BY <1>6 DEF Single, Once
<1>10. NoneKept(block', MSHR)
  <2>1. \A i \in 1 .. Len(MSHR) : BlockOf[MSHR[i].addr] \in Block
    BY SeqParts, BlockOfAssumption DEF Inv, Typed, MissType, MissFields
  <2>. QED  BY <1>7, <2>1 DEF Single, NoneKept
<1>. QED  BY <1>1, <1>8, <1>9, <1>10 DEF Single

LEMMA TryMissSingle ==
  ASSUME Inv, Single, TryMiss
  PROVE  Single'
<1>1. /\ pc = "hit" /\ pc' = pc /\ loop.at <= loop.checks /\ NextCheck /\ HitWays(Packet.addr) = {}
      /\ block' = block /\ MSHR' = MSHR /\ inflight_writes' = inflight_writes
      /\ inflight_tag_check' = inflight_tag_check
  BY DEF TryMiss, Checking, NextCheck
<1>2. loop'.checks = loop.checks /\ loop'.at = loop.at + 1 /\ loop.at \in Nat
  BY <1>1, NextCheckIs, PacketIs DEF Inv
<1>3. Absent(block, BlockOf[inflight_tag_check[loop.at].addr])
  BY <1>1, HitWaysAre DEF Absent, Packet
<1>4. \A i \in 1 .. loop.checks : i < loop.at + 1 => i < loop.at \/ i = loop.at
  BY <1>2
<1>5. LookedUp'
  BY <1>1, <1>2, <1>3, <1>4 DEF LookedUp, Single
<1>. QED  BY <1>1, <1>5, SameBlocks, SameMSHR

LEMMA StartMissesSingle ==
  ASSUME Inv, Single, StartMisses
  PROVE  Single'
<1>1. /\ pc = "hit" /\ pc' = "miss" /\ loop.at > loop.checks /\ loop' = [loop EXCEPT !.at = 1]
      /\ block' = block /\ MSHR' = MSHR /\ inflight_writes' = inflight_writes
      /\ inflight_tag_check' = inflight_tag_check
  BY DEF StartMisses, cacheVars
<1>2. loop.checks \in Nat /\ loop.at \in Nat /\ loop'.checks = loop.checks
  BY <1>1 DEF Inv, Typed, LoopType
<1>3. \A i \in 1 .. loop.checks : i < loop.at
  BY <1>1, <1>2
<1>4. LookedUp'
  BY <1>1, <1>2, <1>3 DEF LookedUp, Single
<1>. QED  BY <1>1, <1>4, SameBlocks, SameMSHR

LEMMA StashUntranslatedSingle ==
  ASSUME Inv, Inv', Single, StashUntranslated
  PROVE  Single'
<1>1. /\ pc' = "hit" /\ block' = block /\ MSHR' = MSHR /\ inflight_writes' = inflight_writes
  BY DEF StashUntranslated
<1>2. loop'.at = 1 /\ loop'.checks \in Nat
  BY DEF StashUntranslated, Inv, Typed, LoopType
<1>3. LookedUp'
  BY <1>1, <1>2 DEF LookedUp
<1>. QED  BY <1>1, <1>3, SameBlocks, SameMSHR

LEMMA MergeMissSingle ==
  ASSUME Inv, Single, MergeMiss
  PROVE  Single'
<1>1. /\ pc = "miss" /\ pc' = pc /\ loop.at <= loop.checks /\ FinishCheck
      /\ block' = block /\ inflight_writes' = inflight_writes
  BY DEF MergeMiss, Checking
<1>2. KnownBlocks
  BY MergeMissKeeps DEF Inv
<1>3. LookedUp'
  BY <1>1, FinishLookedUp DEF Single
<1>. QED  BY <1>1, <1>2, <1>3, SameBlocks

LEMMA ForwardMissSingle ==
  ASSUME Inv, Single, ForwardMiss
  PROVE  Single'
<1>. DEFINE x == MissEntry(Packet, Unknown)
<1>1. /\ pc = "miss" /\ pc' = pc /\ loop.at <= loop.checks /\ FinishCheck
      /\ block' = block /\ inflight_writes' = inflight_writes
      /\ MSHR' = IF ResponseRequested(Packet) THEN Append(MSHR, x) ELSE MSHR
  BY DEF ForwardMiss, Checking
<1>2. /\ loop.at \in 1 .. loop.checks /\ Packet \in CheckType /\ Packet.tr
      /\ Unknown \in {Unknown} \cup 0 .. FILL_LATENCY /\ MSHR \in Seq(MissType)
  BY <1>1, PacketIs DEF Inv, Typed
<1>3. Absent(block, BlockOf[Packet.addr])
  BY <1>1, <1>2 DEF Single, LookedUp, Packet
<1>4. x \in MissType /\ x.addr = Packet.addr
  BY <1>2, MissEntryIs
<1>5. LookedUp'
  BY <1>1, FinishLookedUp DEF Single
<1>. HIDE DEF x
<1>6. NoneKept(block, MSHR')
  <2>1. CASE ResponseRequested(Packet)
    <3>1. /\ Len(MSHR') = Len(MSHR) + 1 /\ Len(MSHR) \in Nat
          /\ \A i \in 1 .. Len(MSHR) : MSHR'[i] = MSHR[i]
          /\ MSHR'[Len(MSHR) + 1] = x
      BY <1>1, <1>2, <1>4, <2>1, AppendIs, SeqParts
    <3>2. \A i \in 1 .. Len(MSHR') : i \in 1 .. Len(MSHR) \/ i = Len(MSHR) + 1
      BY <3>1
    <3>. QED  BY <1>3, <1>4, <3>1, <3>2 DEF NoneKept, Single
  <2>2. CASE ~ResponseRequested(Packet)
    BY <1>1, <2>2 DEF Single
  <2>. QED  BY <2>1, <2>2
<1>. QED  BY <1>1, <1>5, <1>6 DEF Single

LEMMA RetryMissSingle ==
  ASSUME Inv, Single, RetryMiss
  PROVE  Single'
<1>1. /\ pc = "miss" /\ pc' = pc /\ loop.at <= loop.checks /\ NextCheck
      /\ block' = block /\ MSHR' = MSHR /\ inflight_writes' = inflight_writes
      /\ inflight_tag_check' = inflight_tag_check
  BY DEF RetryMiss, Checking, NextCheck
<1>2. loop'.checks = loop.checks
  BY <1>1, NextCheckIs DEF Inv
<1>3. LookedUp'
  BY <1>1, <1>2 DEF LookedUp, Single
<1>. QED  BY <1>1, <1>3, SameBlocks, SameMSHR

LEMMA EndCycleSingle ==
  ASSUME Inv, Single, EndCycle
  PROVE  Single'
<1>1. Len(MSHR') = Len(MSHR) /\ \A i \in 1 .. Len(MSHR) : MSHR'[i].addr = MSHR[i].addr
  BY EndCycleKeeps DEF Inv
<1>2. KnownBlocks
  BY <1>1 DEF KnownBlocks
<1>3. pc' = "idle" /\ block' = block
  BY DEF EndCycle
<1>4. inflight_writes' = inflight_writes
  <2>1. Len(inflight_writes) = 0 /\ DOMAIN inflight_writes = 1 .. Len(inflight_writes)
    BY EmptySeq, SeqParts DEF Single, Inv, Typed
  <2>2. inflight_writes' = <<>>
    BY <2>1 DEF EndCycle
  <2>. QED  BY <2>2 DEF Single
<1>. QED  BY <1>2, <1>3, <1>4, Elsewhere

(* A fill puts a block where there was none, and its miss is over. *)
LEMMA FillFromMSHRSingle ==
  ASSUME Inv, Single, FillFromMSHR
  PROVE  Single'
<1>. DEFINE m == Head(MSHR)
            c == BlockOf[m.addr]
            s == SetOf[c]
            l == fill_block(m)
<1>1. /\ pc = "fill MSHR" /\ pc' = pc /\ MSHR # <<>> /\ MSHR' = Tail(MSHR)
      /\ inflight_writes' = inflight_writes
      /\ \E w \in Victims(m) : handle_fill(m, w)
  BY DEF FillFromMSHR, ReadyToFill
<1>2. /\ MSHR \in Seq(MissType) /\ m \in MissType /\ m = MSHR[1] /\ Len(MSHR) \in Nat /\ 1 \in 1 .. Len(MSHR)
      /\ Len(MSHR') = Len(MSHR) - 1
      /\ \A i \in 1 .. Len(MSHR) - 1 : i + 1 \in 1 .. Len(MSHR) /\ MSHR'[i] = MSHR[i + 1]
      /\ \A i \in 1 .. Len(MSHR) : MSHR[i] \in MissType
      /\ block \in [Sets -> [Ways -> LineType]]
  BY <1>1, TailIs, SeqParts DEF Inv, Typed
<1>3. c \in Block /\ s \in Sets /\ Absent(block, c)
  BY <1>2, SetIs DEF MissType, MissFields, Single, NoneKept
<1>4. PICK w \in Ways \cup {0} : block' = IF w = 0 THEN block ELSE [block EXCEPT ![s][w] = l]
  BY <1>1, VictimsAre DEF handle_fill
<1>5. l.addr = m.addr
  BY DEF fill_block
<1>. HIDE DEF m, l, s
<1>6. ASSUME NEW b \in Block, NEW v \in Ways, HasIn(block', b, v)
      PROVE  HasIn(block, b, v) \/ (b = c /\ v = w)
  <2>1. SetOf[b] \in Sets
    BY DEF Sets
  <2>2. CASE w # 0 /\ SetOf[b] = s /\ v = w
    <3>1. block'[SetOf[b]][v] = l
      BY <1>2, <1>3, <1>4, <2>2
    <3>. QED  BY <1>5, <1>6, <2>2, <3>1 DEF HasIn
  <2>3. CASE ~(w # 0 /\ SetOf[b] = s /\ v = w)
    <3>1. block'[SetOf[b]][v] = block[SetOf[b]][v]
      BY <1>2, <1>3, <1>4, <2>1, <2>3
    <3>. QED  BY <1>6, <3>1 DEF HasIn
  <2>. QED  BY <2>2, <2>3
<1>7. Once(block')
  <2>. SUFFICES ASSUME NEW b \in Block, NEW v \in Ways, NEW u \in Ways,
                       HasIn(block', b, v), HasIn(block', b, u)
                PROVE  v = u
    BY DEF Once
  <2>1. (HasIn(block, b, v) \/ (b = c /\ v = w)) /\ (HasIn(block, b, u) \/ (b = c /\ u = w))
    BY <1>6
  <2>. QED  BY <1>3, <2>1 DEF Absent, Single, Once
<1>8. NoneKept(block', MSHR')
  <2>. SUFFICES ASSUME NEW i \in 1 .. Len(MSHR'), NEW v \in Ways,
                       HasIn(block', BlockOf[MSHR'[i].addr], v)
                PROVE  FALSE
    BY DEF NoneKept, Absent
  <2>. DEFINE b == BlockOf[MSHR[i + 1].addr]
  <2>1. i + 1 \in 1 .. Len(MSHR) /\ i + 1 # 1 /\ MSHR'[i] = MSHR[i + 1] /\ MSHR[i + 1] \in MissType
    BY <1>2
  <2>2. b \in Block
    BY <2>1, BlockOfAssumption DEF MissType, MissFields
  <2>3. b # c
    <3>1. OnceIn(MSHR, MissOf(c))
      BY <1>3 DEF Inv, Matched, Fetched
    <3>2. MSHR[1] \in MissOf(c)
      BY <1>2 DEF MissOf
    <3>. QED  BY <1>2, <2>1, <3>1, <3>2 DEF OnceIn, MissOf
  <2>. HIDE DEF c
  <2>4. HasIn(block, b, v)
    BY <1>6, <2>1, <2>2, <2>3
  <2>. QED  BY <2>1, <2>4 DEF Single, NoneKept, Absent
<1>9. LookedUp'
  BY <1>1 DEF LookedUp
<1>. QED  BY <1>1, <1>7, <1>8, <1>9 DEF Single

LEMMA SingleInit ==
  ASSUME Init
  PROVE  Single
<1>1. Len(<<>>) = 0
  BY EmptySeq
<1>2. MSHR = <<>> /\ inflight_writes = <<>> /\ pc = "idle"
  BY DEF Init
<1>3. \A b \in Block, w \in Ways : ~block[SetOf[b]][w].valid
  BY DEF Init, Invalid
<1>. QED  BY <1>1, <1>2, <1>3 DEF Single, Once, NoneKept, LookedUp, HasIn

LEMMA NextSingle ==
  ASSUME MATCH_OFFSET_BITS, Inv, Inv', Single, [Next]_vars
  PROVE  Single'
<1>1. CASE CheckCollisions
  BY <1>1, Elsewhere, SameMSHR DEF CheckCollisions, cacheVars
<1>2. CASE FinishPacket
  <2>1. KnownBlocks
    BY <1>2, FinishPacketKeeps DEF Inv
  <2>2. pc' \notin {"hit", "miss"} /\ block' = block /\ inflight_writes' = inflight_writes
    BY <1>2 DEF FinishPacket
  <2>. QED  BY <2>1, <2>2, Elsewhere
<1>3. CASE FinishTranslation
  BY <1>3, Elsewhere, SameMSHR DEF FinishTranslation
<1>4. CASE StartFills
  BY <1>4, Elsewhere, SameMSHR DEF StartFills, cacheVars
<1>5. CASE FillFromMSHR
  BY <1>5, FillFromMSHRSingle
<1>6. CASE EndFills(MSHR, "fill MSHR", "fill writes")
  BY <1>6, Elsewhere, SameMSHR DEF EndFills, cacheVars
<1>7. CASE FillFromWrites
  BY <1>7 DEF FillFromWrites, ReadyToFill, Single
<1>8. CASE EndFills(inflight_writes, "fill writes", "initiate")
  BY <1>8, Elsewhere, SameMSHR DEF EndFills, cacheVars
<1>9. CASE InitiateFromStash
  BY <1>9, Elsewhere, SameMSHR DEF InitiateFromStash
<1>10. CASE InitiateFromChannel
  BY <1>10, Elsewhere, SameMSHR DEF InitiateFromChannel
<1>11. CASE InitiateFromPrefetches
  BY <1>11, Elsewhere, SameMSHR DEF InitiateFromPrefetches
<1>12. CASE IssueTranslation
  BY <1>12, Elsewhere, SameMSHR DEF IssueTranslation
<1>13. CASE StashUntranslated
  BY <1>13, StashUntranslatedSingle
<1>14. CASE TryHit
  BY <1>14, TryHitSingle
<1>15. CASE TryMiss
  BY <1>15, TryMissSingle
<1>16. CASE StartMisses
  BY <1>16, StartMissesSingle
<1>17. CASE HandleWrite
  BY <1>17 DEF HandleWrite, IsFill
<1>18. CASE MergeMiss
  BY <1>18, MergeMissSingle
<1>19. CASE ForwardMiss
  BY <1>19, ForwardMissSingle
<1>20. CASE RetryMiss
  BY <1>20, RetryMissSingle
<1>21. CASE EndCycle
  BY <1>21, EndCycleSingle
<1>22. CASE Around \/ UNCHANGED vars
  <2>1. UNCHANGED <<pc, block, MSHR, inflight_writes, inflight_tag_check, loop>>
    BY <1>22 DEF Around, UpperRead, UpperWrite, Add, UpperCollect, LowerRead, LowerWrite, TlbAnswer,
                 vars, cacheVars
  <2>2. LookedUp'
    BY <2>1 DEF LookedUp, Single
  <2>. QED  BY <2>1, <2>2, SameBlocks, SameMSHR
<1>. QED
  BY <1>1, <1>2, <1>3, <1>4, <1>5, <1>6, <1>7, <1>8, <1>9, <1>10, <1>11, <1>12, <1>13, <1>14, <1>15,
     <1>16, <1>17, <1>18, <1>19, <1>20, <1>21, <1>22 DEF Next, Operate

LEMMA SingleIsOne ==
  ASSUME Inv, Single
  PROVE  OneOfEachBlock
<1>1. \A b \in Block : Copies(b) = {w \in Ways : HasIn(block, b, w)}
  BY DEF Copies, HasIn
<1>2. DOMAIN MSHR = 1 .. Len(MSHR)
  BY SeqParts DEF Inv, Typed
<1>3. \A m \in ToSet(MSHR) : Absent(block, BlockOf[m.addr])
  BY <1>2 DEF ToSet, Single, NoneKept
<1>4. SingleCopy
  <2>. SUFFICES ASSUME NEW b \in Block
                PROVE  /\ \A v, w \in Copies(b) : v = w
                       /\ Copies(b) # {} => \A m \in ToSet(MSHR) : BlockOf[m.addr] # b
    BY DEF SingleCopy
  <2>1. \A v, w \in Copies(b) : v = w
    BY <1>1 DEF Single, Once
  <2>2. ASSUME NEW v \in Copies(b), NEW m \in ToSet(MSHR), BlockOf[m.addr] = b PROVE FALSE
    BY <1>1, <1>3, <2>2 DEF Absent
  <2>. QED  BY <2>1, <2>2
<1>. QED  BY <1>4, InvIsAwaited DEF OneOfEachBlock

(* Where writes allocate like reads, a block is in the cache at most once   *)
(* and never there while it is on its way, however requests, prefetches and *)
(* fills of it meet (handle_fill, handle_miss).                             *)
THEOREM BlocksAlwaysSingle ==
  ASSUME MATCH_OFFSET_BITS
  PROVE  Spec => []OneOfEachBlock
<1>1. Init => Single
  BY SingleInit
<1>2. Inv /\ Inv' /\ Single /\ [Next]_vars => Single'
  BY NextSingle
<1>3. Inv /\ Single => OneOfEachBlock
  BY SingleIsOne
<1>. QED  BY <1>1, <1>2, <1>3, InvHolds, PTL DEF Spec


-----------------------------------------------------------------------------
(* Sequences that are joined, cut and replaced in one place.               *)

LEMMA LikeIn ==
  ASSUME NEW s, NEW t, NEW T, NEW U, Len(t) = Len(s), \A k \in 1 .. Len(s) : t[k] \in U <=> s[k] \in T
  PROVE  (SomeIn(t, U) <=> SomeIn(s, T)) /\ (OnceIn(s, T) => OnceIn(t, U))
BY DEF SomeIn, OnceIn

LEMMA EmptyIn ==
  ASSUME NEW s, NEW T, Len(s) = 0
  PROVE  ~SomeIn(s, T) /\ OnceIn(s, T)
BY DEF SomeIn, OnceIn

LEMMA JoinIn ==
  ASSUME NEW S, NEW s \in Seq(S), NEW t \in Seq(S), NEW T
  PROVE  /\ SomeIn(s \o t, T) <=> SomeIn(s, T) \/ SomeIn(t, T)
         /\ OnceIn(s, T) /\ OnceIn(t, T) /\ ~(SomeIn(s, T) /\ SomeIn(t, T)) => OnceIn(s \o t, T)
<1>. DEFINE r == s \o t
            m == Len(s)
            n == Len(t)
<1>1. /\ Len(r) = m + n /\ m \in Nat /\ n \in Nat
      /\ \A k \in 1 .. m : r[k] = s[k]
      /\ \A k \in 1 .. n : r[m + k] = t[k]
  BY JoinIs, SeqParts
<1>. HIDE DEF r
<1>2. (\A k \in 1 .. m : k \in 1 .. Len(r)) /\ (\A k \in 1 .. n : m + k \in 1 .. Len(r))
  <2>. HIDE DEF m, n
  <2>. QED  BY <1>1
<1>3. \A k \in 1 .. Len(r) : k \in 1 .. m \/ \E j \in 1 .. n : k = m + j
  <2>. HIDE DEF m, n
  <2>1. ASSUME NEW k \in 1 .. Len(r), ~(k <= m) PROVE k - m \in 1 .. n /\ k = m + (k - m)
    BY <1>1, <2>1
  <2>2. ASSUME NEW k \in 1 .. Len(r), k <= m PROVE k \in 1 .. m
    BY <1>1, <2>2
  <2>. QED  BY <2>1, <2>2
<1>4. SomeIn(r, T) <=> SomeIn(s, T) \/ SomeIn(t, T)
  BY <1>1, <1>2, <1>3 DEF SomeIn
<1>5. ASSUME OnceIn(s, T), OnceIn(t, T), ~(SomeIn(s, T) /\ SomeIn(t, T)) PROVE OnceIn(r, T)
  <2>. SUFFICES ASSUME NEW k \in 1 .. Len(r), NEW l \in 1 .. Len(r), r[k] \in T, r[l] \in T
                PROVE  k = l
    BY DEF OnceIn
  <2>1. CASE k \in 1 .. m /\ l \in 1 .. m
    BY <1>1, <1>5, <2>1 DEF OnceIn
  <2>2. ASSUME NEW a \in 1 .. n, NEW b \in 1 .. n, k = m + a, l = m + b PROVE k = l
    BY <1>1, <1>5, <2>2 DEF OnceIn
  <2>3. ASSUME NEW b \in 1 .. n, \/ k \in 1 .. m /\ l = m + b
                                 \/ l \in 1 .. m /\ k = m + b
        PROVE  FALSE
    BY <1>1, <1>5, <2>3 DEF SomeIn
  <2>. QED  BY <1>3, <2>1, <2>2, <2>3
<1>. QED  BY <1>4, <1>5 DEF r

(* Some of the elements of s at the positions I is in T. *)
SomeAt(s, I, T) == \E k \in 1 .. Len(s) : k \in I /\ s[k] \in T

LEMMA SliceIn ==
  ASSUME NEW S, NEW s \in Seq(S), NEW n \in 0 .. Len(s), NEW T
  PROVE  /\ SomeIn(SubSeq(s, 1, n), T) <=> SomeAt(s, 1 .. n, T)
         /\ SomeIn(Rest(s, n), T) <=> SomeAt(s, n + 1 .. Len(s), T)
         /\ OnceIn(s, T) => OnceIn(SubSeq(s, 1, n), T) /\ OnceIn(Rest(s, n), T)
<1>. DEFINE a == SubSeq(s, 1, n)
            b == Rest(s, n)
            N == Len(s)
<1>1. /\ Len(a) = n /\ (\A k \in 1 .. n : a[k] = s[k])
      /\ Len(b) = N - n /\ (\A k \in 1 .. N - n : n + k \in 1 .. N /\ b[k] = s[n + k])
      /\ N \in Nat /\ n \in Nat /\ n <= N
  BY SplitIs, SeqParts
<1>2. \A k \in 1 .. N : /\ k \in 1 .. n => k \in 1 .. Len(a)
                        /\ k \in n + 1 .. N => k - n \in 1 .. N - n /\ n + (k - n) = k
  <2>. HIDE DEF a, b, N
  <2>. QED  BY <1>1
<1>3. (\A k \in 1 .. n : k \in 1 .. N) /\ (\A k \in 1 .. N - n : n + k \in n + 1 .. N)
  <2>. HIDE DEF a, b, N
  <2>. QED  BY <1>1
<1>. HIDE DEF a, b
<1>4. SomeIn(a, T) <=> SomeAt(s, 1 .. n, T)
  BY <1>1, <1>2, <1>3 DEF SomeIn, SomeAt
<1>5. SomeIn(b, T) <=> SomeAt(s, n + 1 .. N, T)
  <2>1. ASSUME SomeIn(b, T) PROVE SomeAt(s, n + 1 .. N, T)
    BY <1>1, <1>3, <2>1 DEF SomeIn, SomeAt
  <2>2. ASSUME NEW k \in 1 .. N, k \in n + 1 .. N, s[k] \in T PROVE SomeIn(b, T)
    <3>1. k - n \in 1 .. Len(b) /\ b[k - n] = s[k]
      BY <1>1, <1>2, <2>2
    <3>. QED  BY <2>2, <3>1 DEF SomeIn
  <2>. QED  BY <2>1, <2>2 DEF SomeAt
<1>6. ASSUME OnceIn(s, T) PROVE OnceIn(a, T) /\ OnceIn(b, T)
  <2>1. OnceIn(a, T)
    BY <1>1, <1>3, <1>6 DEF OnceIn
  <2>2. ASSUME NEW k \in 1 .. N - n, NEW l \in 1 .. N - n, b[k] \in T, b[l] \in T PROVE k = l
    <3>1. n + k = n + l
      BY <1>1, <1>6, <2>2 DEF OnceIn
    <3>. QED  BY <1>1, <3>1
  <2>. QED  BY <1>1, <2>1, <2>2 DEF OnceIn
<1>. QED  BY <1>4, <1>5, <1>6 DEF a, b, N

LEMMA ExtractedIn ==
  ASSUME NEW S, NEW s \in Seq(S), NEW I, NEW T
  PROVE  /\ SomeIn(Extracted(s, I), T) <=> SomeAt(s, I, T)
         /\ OnceIn(s, T) => OnceIn(Extracted(s, I), T)
<1>. DEFINE t == Extracted(s, I)
            N == Len(s)
<1>1. Embedded(S, t, s, I, N) /\ N \in Nat
  BY ExtractedIs, SeqParts
<1>. HIDE DEF t
<1>2. PICK g : Embeds(g, t, s, I, N)
  BY <1>1 DEF Embedded
<1>3. Len(t) \in Nat
  BY <1>1, SeqParts DEF Embedded
<1>4. \A k \in 1 .. Len(t) : g[k] \in 1 .. N /\ g[k] \in I /\ t[k] = s[g[k]]
  BY <1>2 DEF Embeds
<1>5. SomeIn(t, T) <=> SomeAt(s, I, T)
  <2>1. ASSUME NEW k \in 1 .. N, k \in I, s[k] \in T PROVE SomeIn(t, T)
    <3>1. PICK j \in 1 .. Len(t) : g[j] = k
      BY <1>2, <2>1 DEF Embeds
    <3>. QED  BY <1>4, <2>1, <3>1 DEF SomeIn
  <2>. QED  BY <1>4, <2>1 DEF SomeIn, SomeAt
<1>6. ASSUME OnceIn(s, T), NEW j \in 1 .. Len(t), NEW k \in 1 .. Len(t), t[j] \in T, t[k] \in T
      PROVE  j = k
  <2>1. g[j] = g[k] /\ g[j] \in Nat
    BY <1>4, <1>6 DEF OnceIn
  <2>2. ~(j < k) /\ ~(k < j)
    <3>1. (j < k => g[j] < g[k]) /\ (k < j => g[k] < g[j])
      BY <1>2 DEF Embeds
    <3>. QED  BY <2>1, <3>1
  <2>. QED  BY <1>3, <2>2
<1>. QED  BY <1>5, <1>6 DEF OnceIn, t

(* Two sets of positions that have none in common. *)
LEMMA AtOnce ==
  ASSUME NEW s, NEW T, OnceIn(s, T), NEW I, NEW J, I \cap J = {}
  PROVE  ~(SomeAt(s, I, T) /\ SomeAt(s, J, T))
BY DEF SomeAt, OnceIn

LEMMA AtParts ==
  ASSUME NEW s, NEW T, NEW I, NEW J, 1 .. Len(s) \subseteq I \cup J
  PROVE  SomeIn(s, T) <=> SomeAt(s, I, T) \/ SomeAt(s, J, T)
BY DEF SomeIn, SomeAt

LEMMA ReplacedIn ==
  ASSUME NEW S, NEW s \in Seq(S), NEW n \in 1 .. Len(s), NEW x \in S, NEW T
  PROVE  LET t == [s EXCEPT ![n] = x]
         IN  /\ t \in Seq(S)
             /\ (x \in T <=> s[n] \in T) =>
                  (SomeIn(t, T) <=> SomeIn(s, T)) /\ (OnceIn(s, T) => OnceIn(t, T))
             /\ x \in T /\ ~SomeIn(s, T) => SomeIn(t, T) /\ OnceIn(t, T)
<1>. DEFINE t == [s EXCEPT ![n] = x]
<1>1. /\ t \in Seq(S) /\ Len(t) = Len(s) /\ t[n] = x
      /\ \A k \in 1 .. Len(s) : k # n => t[k] = s[k]
  BY ExceptSeq, SeqParts
<1>. HIDE DEF t
<1>2. ASSUME x \in T <=> s[n] \in T
      PROVE  (SomeIn(t, T) <=> SomeIn(s, T)) /\ (OnceIn(s, T) => OnceIn(t, T))
  <2>1. \A k \in 1 .. Len(s) : t[k] \in T <=> s[k] \in T
    BY <1>1, <1>2
  <2>. QED  BY <1>1, <2>1, LikeIn
<1>3. ASSUME x \in T, ~SomeIn(s, T) PROVE SomeIn(t, T) /\ OnceIn(t, T)
  BY <1>1, <1>3 DEF SomeIn, OnceIn
<1>. QED  BY <1>1, <1>2, <1>3 DEF t

(* Element n takes over what element i had, and that one goes. *)
LEMMA MergedIn ==
  ASSUME NEW S, NEW s \in Seq(S), NEW i \in 1 .. Len(s), NEW n \in 1 .. i - 1, NEW x \in S, NEW T,
         x \in T <=> s[n] \in T \/ s[i] \in T
  PROVE  LET t == RemoveAt([s EXCEPT ![n] = x], i)
         IN  /\ t \in Seq(S)
             /\ SomeIn(t, T) <=> SomeIn(s, T)
             /\ OnceIn(s, T) => OnceIn(t, T)
<1>. DEFINE e == [s EXCEPT ![n] = x]
            t == RemoveAt(e, i)
<1>1. /\ e \in Seq(S) /\ Len(e) = Len(s) /\ e[n] = x
      /\ \A k \in 1 .. Len(s) : k # n => e[k] = s[k]
  <2>1. n \in 1 .. Len(s)
    BY SeqParts
  <2>. QED  BY <2>1, ExceptSeq, SeqParts
<1>. HIDE DEF e
<1>2. Without(e, t, i) /\ t \in Seq(S) /\ i \in 1 .. Len(e) /\ Len(e) \in Nat
  BY <1>1, RemovedIsWithout, SeqParts
<1>. HIDE DEF t
<1>3. SomeIn(e, T) <=> SomeIn(s, T)
  <2>1. n \in 1 .. Len(s) /\ i \in 1 .. Len(s)
    BY SeqParts
  <2>. QED  BY <1>1, <2>1 DEF SomeIn
<1>4. /\ SomeIn(e, T) <=> SomeIn(t, T) \/ e[i] \in T
      /\ OnceIn(e, T) => OnceIn(t, T)
  BY <1>2, WithoutIn
<1>5. n # i /\ e[i] = s[i] /\ Len(s) \in Nat /\ n < i /\ i \in Nat /\ n \in Nat
  BY <1>1, SeqParts
<1>6. t[n] = e[n] /\ n \in 1 .. Len(t)
  <2>1. n \in 1 .. Len(t)
    BY <1>1, <1>2, <1>5 DEF Without
  <2>. QED  BY <1>2, <1>5, <2>1 DEF Without
<1>7. SomeIn(t, T) <=> SomeIn(s, T)
  <2>1. s[i] \in T => SomeIn(t, T)
    BY <1>1, <1>6 DEF SomeIn
  <2>. QED  BY <1>3, <1>4, <1>5, <2>1
<1>8. ASSUME OnceIn(s, T) PROVE OnceIn(t, T)
  <2>1. CASE s[i] \in T
    <3>. SUFFICES ASSUME NEW k \in 1 .. Len(t), t[k] \in T PROVE k = n
      BY DEF OnceIn
    <3>1. CASE k < i
      <4>1. k \in 1 .. Len(e) /\ t[k] = e[k]
        BY <1>2, <3>1 DEF Without
      <4>2. k # n => s[k] \in T
        BY <1>1, <4>1
      <4>3. k # n => k = i
        BY <1>1, <1>8, <2>1, <4>1, <4>2 DEF OnceIn
      <4>. QED  BY <1>5, <3>1, <4>3
    <3>2. CASE ~(k < i)
      <4>1. k \in Nat /\ k >= i
        BY <1>2, <1>5, <3>2, SeqParts
      <4>2. k + 1 \in 1 .. Len(e) /\ t[k] = e[k + 1]
        BY <1>2, <4>1 DEF Without
      <4>3. k + 1 # n /\ k + 1 # i
        BY <1>5, <4>1
      <4>4. s[k + 1] \in T
        BY <1>1, <4>2, <4>3
      <4>5. k + 1 = i
        BY <1>1, <1>8, <2>1, <4>2, <4>4 DEF OnceIn
      <4>. QED  BY <4>3, <4>5
    <3>. QED  BY <3>1, <3>2
  <2>2. CASE s[i] \notin T
    <3>1. \A k \in 1 .. Len(s) : e[k] \in T <=> s[k] \in T
      BY <1>1, <2>2
    <3>2. OnceIn(e, T)
      BY <1>1, <1>8, <3>1, LikeIn
    <3>. QED  BY <1>4, <3>2
  <2>. QED  BY <2>1, <2>2
<1>. QED  BY <1>2, <1>7, <1>8 DEF t, e

-----------------------------------------------------------------------------
(* What each instruction waits in.                                         *)

(* Only reads are waited for, in their own channel, and whoever takes up a  *)
(* request takes up the levels that have to be answered with it.           *)
ReadType(u) ==
  {r \in RequestType : r.resp /\ r.type # "WRITE" /\ \A i \in r.deps : Req[i].from = u}
WriteType == {r \in RequestType : r.deps = {}}
OwnedCheck ==
  {e \in CheckType : /\ \A i \in e.deps : Req[i].from \in e.to
                     /\ e.deps # {} => e.type # "WRITE" /\ ~e.pf}
OwnedMiss == {m \in MissType : \A i \in m.deps : Req[i].from \in m.to}
UnownedFill == {m \in FillType : m.deps = {}}

OwnedQueues(c, u) ==
  c.WQ \in Seq(WriteType) /\ c.RQ \in Seq(ReadType(u)) /\ c.PQ \in Seq(ReadType(u))
Owned ==
  /\ \A u \in Uppers : OwnedQueues(chan[u], u)
  /\ inflight_tag_check \in Seq(OwnedCheck) /\ translation_stash \in Seq(OwnedCheck)
  /\ MSHR \in Seq(OwnedMiss) /\ inflight_writes \in Seq(UnownedFill)

(* Where instruction i is found: in the requests and responses of channel c, *)
(* in the pipeline, in the stash, in the MSHRs.                            *)
ReadOf(i) == {r \in RequestType : i \in r.deps}
BackOf(i) == {r \in ResponseType : i \in r.deps}
CheckOf(i) == {e \in CheckType : i \in e.deps}
WaiterOf(i) == {m \in MissType : i \in m.deps}

Asks(c, i) == SomeIn(c.RQ, ReadOf(i)) \/ SomeIn(c.PQ, ReadOf(i))
Back(c, i) == SomeIn(c.returned, BackOf(i))
OnceInChannel(c, i) ==
  /\ OnceIn(c.RQ, ReadOf(i)) /\ OnceIn(c.PQ, ReadOf(i)) /\ OnceIn(c.returned, BackOf(i))
  /\ ~(SomeIn(c.RQ, ReadOf(i)) /\ SomeIn(c.PQ, ReadOf(i)))
  /\ ~(Asks(c, i) /\ Back(c, i))

AsksIn(i) == Asks(chan[Req[i].from], i)
BackIn(i) == Back(chan[Req[i].from], i)
ChecksIn(i) == SomeIn(inflight_tag_check, CheckOf(i))
StashedIn(i) == SomeIn(translation_stash, CheckOf(i))
MissesIn(i) == SomeIn(MSHR, WaiterOf(i))

Apart(asks, checks, stashed, misses, back) ==
  /\ ~(asks /\ checks) /\ ~(asks /\ stashed) /\ ~(asks /\ misses) /\ ~(asks /\ back)
  /\ ~(checks /\ stashed) /\ ~(checks /\ misses) /\ ~(checks /\ back)
  /\ ~(stashed /\ misses) /\ ~(stashed /\ back) /\ ~(misses /\ back)

InOnePlace(i) ==
  /\ OnceInChannel(chan[Req[i].from], i)
  /\ OnceIn(inflight_tag_check, CheckOf(i)) /\ OnceIn(translation_stash, CheckOf(i))
  /\ OnceIn(MSHR, WaiterOf(i))
  /\ Apart(AsksIn(i), ChecksIn(i), StashedIn(i), MissesIn(i), BackIn(i))

Served == Owned /\ \A i \in Ids : InOnePlace(i)

-----------------------------------------------------------------------------
(* check_collision keeps an instruction where it waits, or answers it.     *)

(* Channel c of level u becomes d. *)
KeepsWaiting(c, d, u) ==
  /\ d \in ChannelType /\ OwnedQueues(d, u)
  /\ \A i \in Ids :
       /\ Asks(d, i) \/ Back(d, i) <=> Asks(c, i) \/ Back(c, i)
       /\ Back(c, i) => Back(d, i)
       /\ OnceInChannel(c, i) => OnceInChannel(d, i)

(* A queue of d is queue q of c without the requests that are answered. *)
LEMMA QueueKeeps ==
  ASSUME NEW c \in ChannelType, NEW u, OwnedQueues(c, u), NEW q \in QueueNames,
         NEW s \in Seq(IF q = "WQ" THEN WriteType ELSE ReadType(u)),
         NEW d, Replaces(c, d, q, s, c.returned),
         \A i \in Ids : SomeIn(s, ReadOf(i)) <=> SomeIn(c[q], ReadOf(i)),
         \A i \in Ids : OnceIn(c[q], ReadOf(i)) => OnceIn(s, ReadOf(i))
  PROVE  KeepsWaiting(c, d, u)
<1>1. CASE q = "WQ"
  <2>1. d.RQ = c.RQ /\ d.PQ = c.PQ /\ d.WQ = s /\ d.returned = c.returned /\ d \in ChannelType
    BY <1>1 DEF Replaces, QueueNames
  <2>. QED  BY <1>1, <2>1 DEF KeepsWaiting, OwnedQueues, Asks, Back, OnceInChannel
<1>2. CASE q = "RQ"
  <2>1. d.RQ = s /\ d.PQ = c.PQ /\ d.WQ = c.WQ /\ d.returned = c.returned /\ d \in ChannelType
    BY <1>2 DEF Replaces, QueueNames
  <2>2. OwnedQueues(d, u)
    BY <1>2, <2>1 DEF OwnedQueues
  <2>. QED  BY <1>2, <2>1, <2>2 DEF KeepsWaiting, Asks, Back, OnceInChannel
<1>3. CASE q = "PQ"
  <2>1. d.PQ = s /\ d.RQ = c.RQ /\ d.WQ = c.WQ /\ d.returned = c.returned /\ d \in ChannelType
    BY <1>3 DEF Replaces, QueueNames
  <2>2. OwnedQueues(d, u)
    BY <1>3, <2>1 DEF OwnedQueues
  <2>. QED  BY <1>3, <2>1, <2>2 DEF KeepsWaiting, Asks, Back, OnceInChannel
<1>. QED  BY <1>1, <1>2, <1>3 DEF QueueNames

LEMMA OwnedQueue ==
  ASSUME NEW c \in ChannelType, NEW u, OwnedQueues(c, u), NEW q \in QueueNames
  PROVE  /\ c[q] \in Seq(IF q = "WQ" THEN WriteType ELSE ReadType(u))
         /\ Len(c[q]) \in Nat
         /\ \A k \in 1 .. Len(c[q]) : c[q][k] \in IF q = "WQ" THEN WriteType ELSE ReadType(u)
<1>1. c[q] \in Seq(IF q = "WQ" THEN WriteType ELSE ReadType(u))
  BY DEF OwnedQueues, QueueNames
<1>. DEFINE T == IF q = "WQ" THEN WriteType ELSE ReadType(u)
<1>. HIDE DEF T
<1>2. c[q] \in Seq(T)
  BY <1>1 DEF T
<1>3. Len(c[q]) \in Nat /\ \A k \in 1 .. Len(c[q]) : c[q][k] \in T
  BY <1>2, SeqParts
<1>. QED  BY <1>2, <1>3 DEF T

LEMMA MarksKeep ==
  ASSUME NEW c \in ChannelType, NEW u, OwnedQueues(c, u), NEW q \in QueueNames,
         NEW k \in 1 .. Len(c[q]), NEW d, Marks(c, d, q, k)
  PROVE  KeepsWaiting(c, d, u)
<1>. DEFINE T == IF q = "WQ" THEN WriteType ELSE ReadType(u)
            x == [c[q][k] EXCEPT !.checked = TRUE]
            s == [c[q] EXCEPT ![k] = x]
<1>1. c[q] \in Seq(T) /\ c[q][k] \in T
  BY OwnedQueue
<1>2. x \in RequestType
  BY DEF Marks
<1>3. c[q][k] \in RequestFields
  BY <1>1 DEF WriteType, ReadType, RequestType
<1>4. x.resp = c[q][k].resp /\ x.type = c[q][k].type /\ x.deps = c[q][k].deps
  BY <1>3 DEF RequestFields
<1>5. Replaces(c, d, q, s, c.returned)
  BY DEF Marks
<1>. HIDE DEF x
<1>6. x \in T
  BY <1>1, <1>2, <1>4 DEF WriteType, ReadType
<1>7. \A i \in Ids : x \in ReadOf(i) <=> c[q][k] \in ReadOf(i)
  BY <1>1, <1>2, <1>4 DEF ReadOf, WriteType, ReadType
<1>. HIDE DEF T
<1>8. /\ s \in Seq(T)
      /\ \A i \in Ids : SomeIn(s, ReadOf(i)) <=> SomeIn(c[q], ReadOf(i))
      /\ \A i \in Ids : OnceIn(c[q], ReadOf(i)) => OnceIn(s, ReadOf(i))
  BY <1>1, <1>6, <1>7, ReplacedIn
<1>. HIDE DEF s
<1>. QED  BY <1>5, <1>8, QueueKeeps DEF T

LEMMA MergesKeep ==
  ASSUME NEW c \in ChannelType, NEW u, OwnedQueues(c, u), NEW q \in QueueNames,
         NEW k \in 1 .. Len(c[q]), NEW d, NEW n \in 1 .. k - 1, Merges(c, d, q, k, n)
  PROVE  KeepsWaiting(c, d, u)
<1>. DEFINE T == IF q = "WQ" THEN WriteType ELSE ReadType(u)
            a == c[q][n]
            b == c[q][k]
            x == Merged(a, b)
            s == RemoveAt([c[q] EXCEPT ![n] = x], k)
<1>1. c[q] \in Seq(T) /\ a \in T /\ b \in T
  <2>1. n \in 1 .. Len(c[q])
    BY OwnedQueue
  <2>. QED  BY <2>1, OwnedQueue
<1>2. x \in RequestType
  BY DEF Merges
<1>3. a \in RequestFields /\ b \in RequestFields
  BY <1>1 DEF WriteType, ReadType, RequestType
<1>. HIDE DEF a, b
<1>4. x.resp = (a.resp \/ b.resp) /\ x.type = a.type /\ x.deps = a.deps \cup b.deps
  BY <1>3 DEF RequestFields, Merged
<1>5. Replaces(c, d, q, s, c.returned)
  BY DEF Merges, a, b
<1>. HIDE DEF x
<1>6. x \in T
  BY <1>1, <1>2, <1>4 DEF WriteType, ReadType
<1>7. \A i \in Ids : x \in ReadOf(i) <=> a \in ReadOf(i) \/ b \in ReadOf(i)
  BY <1>1, <1>2, <1>4 DEF ReadOf, WriteType, ReadType
<1>. HIDE DEF T
<1>8. /\ s \in Seq(T)
      /\ \A i \in Ids : SomeIn(s, ReadOf(i)) <=> SomeIn(c[q], ReadOf(i))
      /\ \A i \in Ids : OnceIn(c[q], ReadOf(i)) => OnceIn(s, ReadOf(i))
  <2>1. \A i \in Ids : x \in ReadOf(i) <=> c[q][n] \in ReadOf(i) \/ c[q][k] \in ReadOf(i)
    BY <1>7 DEF a, b
  <2>2. k \in 1 .. Len(c[q])
    OBVIOUS
  <2>3. ASSUME NEW i \in Ids
        PROVE  /\ s \in Seq(T)
               /\ SomeIn(s, ReadOf(i)) <=> SomeIn(c[q], ReadOf(i))
               /\ OnceIn(c[q], ReadOf(i)) => OnceIn(s, ReadOf(i))
    BY <1>1, <1>6, <2>1, MergedIn
  <2>4. s \in Seq(T)
    <3>1. [c[q] EXCEPT ![n] = x] \in Seq(T) /\ Len([c[q] EXCEPT ![n] = x]) = Len(c[q])
      <4>1. n \in 1 .. Len(c[q])
        BY <1>1, SeqParts
      <4>. QED  BY <1>1, <1>6, <4>1, ExceptSeq
    <3>. DEFINE e == [c[q] EXCEPT ![n] = x]
    <3>2. e \in Seq(T) /\ k \in 1 .. Len(e)
      BY <3>1
    <3>. HIDE DEF e
    <3>3. RemoveAt(e, k) \in Seq(T)
      BY <3>2, RemovedAt
    <3>. QED  BY <3>3 DEF e
  <2>. QED  BY <2>3, <2>4
<1>. HIDE DEF s
<1>. QED  BY <1>5, <1>8, QueueKeeps DEF T

(* A read that is answered from the write queue. *)
LEMMA AnswersKeep ==
  ASSUME NEW c \in ChannelType, NEW u, OwnedQueues(c, u), NEW q \in QueueNames,
         NEW k \in 1 .. Len(c[q]), NEW d, Answers(c, d, q, k)
  PROVE  KeepsWaiting(c, d, u)
<1>. DEFINE x == c[q][k]
            r == Response(x)
            s == RemoveAt(c[q], k)
            t == Append(c.returned, r)
<1>1. q # "WQ" /\ c[q] \in Seq(ReadType(u)) /\ x \in ReadType(u)
  BY OwnedQueue DEF Answers
<1>2. x \in RequestType /\ x.resp /\ r \in ResponseType /\ r.deps = x.deps
  BY <1>1, CheckedIs DEF ReadType, Response
<1>3. Replaces(c, d, q, s, t)
  BY <1>2 DEF Answers
<1>. HIDE DEF x, r
<1>4. Without(c[q], s, k) /\ s \in Seq(ReadType(u)) /\ Len(c[q]) \in Nat
  BY <1>1, RemovedIsWithout, SeqParts
<1>5. c.returned \in Seq(ResponseType)
  BY QueuesOf
<1>. HIDE DEF s, t
<1>6. ASSUME NEW i \in Ids
      PROVE  /\ SomeIn(c[q], ReadOf(i)) <=> SomeIn(s, ReadOf(i)) \/ i \in x.deps
             /\ OnceIn(c[q], ReadOf(i)) => OnceIn(s, ReadOf(i)) /\ ~(SomeIn(s, ReadOf(i)) /\ i \in x.deps)
             /\ SomeIn(t, BackOf(i)) <=> SomeIn(c.returned, BackOf(i)) \/ i \in x.deps
             /\ OnceIn(c.returned, BackOf(i)) /\ ~(SomeIn(c.returned, BackOf(i)) /\ i \in x.deps)
                  => OnceIn(t, BackOf(i))
  <2>1. (c[q][k] \in ReadOf(i) <=> i \in x.deps) /\ (r \in BackOf(i) <=> i \in x.deps)
    BY <1>2 DEF ReadOf, BackOf, x
  <2>2. /\ SomeIn(c[q], ReadOf(i)) <=> SomeIn(s, ReadOf(i)) \/ c[q][k] \in ReadOf(i)
        /\ OnceIn(c[q], ReadOf(i)) => OnceIn(s, ReadOf(i)) /\ ~(SomeIn(s, ReadOf(i)) /\ c[q][k] \in ReadOf(i))
    BY <1>4, WithoutIn
  <2>3. /\ SomeIn(t, BackOf(i)) <=> SomeIn(c.returned, BackOf(i)) \/ r \in BackOf(i)
        /\ OnceIn(c.returned, BackOf(i)) /\ ~(SomeIn(c.returned, BackOf(i)) /\ r \in BackOf(i))
             => OnceIn(t, BackOf(i))
    BY <1>2, <1>5, AppendIn DEF t
  <2>. QED  BY <2>1, <2>2, <2>3
<1>7. d \in ChannelType /\ d.returned = t /\ d[q] = s /\ \A p \in QueueNames : p # q => d[p] = c[p]
  BY <1>3 DEF Replaces
<1>8. CASE q = "RQ"
  <2>1. d.RQ = s /\ d.PQ = c.PQ /\ d.WQ = c.WQ
    BY <1>7, <1>8 DEF QueueNames
  <2>2. OwnedQueues(d, u)
    BY <1>4, <2>1 DEF OwnedQueues
  <2>. QED  BY <1>6, <1>7, <1>8, <2>1, <2>2 DEF KeepsWaiting, Asks, Back, OnceInChannel
<1>9. CASE q = "PQ"
  <2>1. d.PQ = s /\ d.RQ = c.RQ /\ d.WQ = c.WQ
    BY <1>7, <1>9 DEF QueueNames
  <2>2. OwnedQueues(d, u)
    BY <1>4, <2>1 DEF OwnedQueues
  <2>. QED  BY <1>6, <1>7, <1>9, <2>1, <2>2 DEF KeepsWaiting, Asks, Back, OnceInChannel
<1>. QED  BY <1>1, <1>8, <1>9 DEF QueueNames

LEMMA StepKeepsWaiting ==
  ASSUME NEW c \in ChannelType, NEW u, OwnedQueues(c, u)
  PROVE  KeepsWaiting(c, CheckStep(c), u)
<1>1. CASE CheckStep(c) = c
  BY <1>1 DEF KeepsWaiting
<1>2. ASSUME NEW q \in QueueNames, NEW k \in 1 .. Len(c[q]), Round(c, CheckStep(c), q, k)
      PROVE  KeepsWaiting(c, CheckStep(c), u)
  <2>. DEFINE d == CheckStep(c)
  <2>. HIDE DEF d
  <2>1. Answers(c, d, q, k) \/ (\E n \in 1 .. k - 1 : Merges(c, d, q, k, n)) \/ Marks(c, d, q, k)
    BY <1>2 DEF Round, d
  <2>2. KeepsWaiting(c, d, u)
    BY <2>1, AnswersKeep, MergesKeep, MarksKeep
  <2>. QED  BY <2>2 DEF d
<1>. QED  BY <1>1, <1>2, CheckStepIs

LEMMA CollisionKeepsWaiting ==
  ASSUME NEW c \in ChannelType, NEW u, OwnedQueues(c, u)
  PROVE  KeepsWaiting(c, CheckCollision(c), u)
<1>1. PICK N \in Nat : \E f :
           /\ f[0] = c /\ (\A n \in 1 .. N : f[n] = CheckStep(f[n - 1]))
           /\ CheckCollision(c) = f[N]
  BY CollisionIsRounds
<1>2. PICK f : /\ f[0] = c /\ (\A n \in 1 .. N : f[n] = CheckStep(f[n - 1]))
               /\ CheckCollision(c) = f[N]
  BY <1>1
<1>. DEFINE X == {n \in 0 .. N : ~KeepsWaiting(c, f[n], u)}
            m == Min(X)
<1>3. SUFFICES ASSUME X # {} PROVE FALSE
  BY <1>2
<1>4. m \in X /\ \A k \in X : m <= k
  <2>1. X \subseteq Nat
    OBVIOUS
  <2>. HIDE DEF X
  <2>. QED  BY <1>3, <2>1, LeastNumber
<1>. HIDE DEF m
<1>5. m # 0
  <2>1. KeepsWaiting(c, c, u)
    BY DEF KeepsWaiting
  <2>. QED  BY <1>2, <1>4, <2>1
<1>6. m \in 1 .. N /\ m - 1 \in 0 .. N /\ m - 1 \notin X
  <2>1. m \in 0 .. N
    BY <1>4
  <2>2. m - 1 \in 0 .. N /\ ~(m <= m - 1)
    BY <1>5, <2>1
  <2>. QED  BY <1>4, <1>5, <2>1, <2>2
<1>7. KeepsWaiting(c, f[m - 1], u)
  BY <1>6
<1>. DEFINE d == f[m - 1]
<1>8. f[m] = CheckStep(d) /\ ~KeepsWaiting(c, f[m], u)
  BY <1>2, <1>4, <1>6
<1>9. KeepsWaiting(c, d, u)
  BY <1>7
<1>. HIDE DEF d, X
<1>10. KeepsWaiting(d, CheckStep(d), u)
  BY <1>9, StepKeepsWaiting DEF KeepsWaiting
<1>11. KeepsWaiting(c, CheckStep(d), u)
  BY <1>9, <1>10 DEF KeepsWaiting
<1>. QED  BY <1>8, <1>11
-----------------------------------------------------------------------------
(* No step loses an instruction, or takes back its answer.                 *)
Waits(i) == AsksIn(i) \/ ChecksIn(i) \/ StashedIn(i) \/ MissesIn(i)
Remains(i) ==
  /\ Waits(i) \/ BackIn(i) <=> Waits(i)' \/ BackIn(i)'
  /\ BackIn(i) => BackIn(i)'
ServedOn == Served' /\ \A i \in Ids : Remains(i)

LEMMA RequesterIs ==
  ASSUME NEW i \in Ids
  PROVE  Req[i].from \in Uppers
BY RequestsAssumption

LEMMA UnmovedServed ==
  ASSUME Served, chan' = chan, inflight_tag_check' = inflight_tag_check,
         translation_stash' = translation_stash, MSHR' = MSHR, inflight_writes' = inflight_writes
  PROVE  ServedOn
<1>1. Owned'
  BY DEF Served, Owned
<1>2. \A i \in Ids : /\ AsksIn(i)' = AsksIn(i) /\ ChecksIn(i)' = ChecksIn(i)
                     /\ StashedIn(i)' = StashedIn(i) /\ MissesIn(i)' = MissesIn(i)
                     /\ BackIn(i)' = BackIn(i) /\ InOnePlace(i)' = InOnePlace(i)
  BY DEF AsksIn, ChecksIn, StashedIn, MissesIn, BackIn, InOnePlace
<1>. QED  BY <1>1, <1>2 DEF ServedOn, Served, Remains, Waits

(* Those who wait in what is answered are answered. *)
LEMMA AnswerServes ==
  ASSUME Typed, Owned, NEW to \in SUBSET Uppers, NEW r \in ResponseType,
         \A i \in r.deps : Req[i].from \in to
  PROVE  LET D == Answer(to, r)
         IN  /\ \A u \in Uppers : OwnedQueues(D[u], u)
             /\ \A i \in Ids :
                  LET d == D[Req[i].from]
                  IN  /\ Asks(d, i) <=> AsksIn(i)
                      /\ Back(d, i) <=> BackIn(i) \/ i \in r.deps
                      /\ /\ OnceInChannel(chan[Req[i].from], i)
                         /\ i \in r.deps => ~AsksIn(i) /\ ~BackIn(i)
                         => OnceInChannel(d, i)
<1>. DEFINE D == Answer(to, r)
<1>1. ASSUME NEW u \in Uppers
      PROVE  /\ D[u].WQ = chan[u].WQ /\ D[u].RQ = chan[u].RQ /\ D[u].PQ = chan[u].PQ
             /\ D[u].returned = IF u \in to THEN Append(chan[u].returned, r) ELSE chan[u].returned
  <2>1. chan[u] \in ChannelType
    BY ChannelsAre
  <2>2. D[u] = IF u \in to THEN [chan[u] EXCEPT !.returned = Append(@, r)] ELSE chan[u]
    BY DEF Answer
  <2>. HIDE DEF D
  <2>. QED  BY <2>1, <2>2 DEF ChannelType
<1>. HIDE DEF D
<1>2. \A u \in Uppers : OwnedQueues(D[u], u)
  BY <1>1 DEF Owned, OwnedQueues
<1>3. ASSUME NEW i \in Ids
      PROVE  LET d == D[Req[i].from]
             IN  /\ Asks(d, i) <=> AsksIn(i)
                 /\ Back(d, i) <=> BackIn(i) \/ i \in r.deps
                 /\ /\ OnceInChannel(chan[Req[i].from], i)
                    /\ i \in r.deps => ~AsksIn(i) /\ ~BackIn(i)
                    => OnceInChannel(d, i)
  <2>. DEFINE u == Req[i].from
              c == chan[u]
              d == D[u]
              T == BackOf(i)
  <2>1. u \in Uppers /\ c.returned \in Seq(ResponseType)
    BY RequesterIs, ChannelsAre, QueuesOf
  <2>2. r \in T <=> i \in r.deps
    BY DEF BackOf
  <2>3. /\ SomeIn(Append(c.returned, r), T) <=> SomeIn(c.returned, T) \/ r \in T
        /\ OnceIn(c.returned, T) /\ ~(SomeIn(c.returned, T) /\ r \in T) => OnceIn(Append(c.returned, r), T)
    <3>. HIDE DEF c, T
    <3>. QED  BY <2>1, AppendIn
  <2>4. /\ d.RQ = c.RQ /\ d.PQ = c.PQ
        /\ d.returned = IF u \in to THEN Append(c.returned, r) ELSE c.returned
    BY <1>1, <2>1
  <2>5. i \in r.deps => u \in to
    OBVIOUS
  <2>6. (AsksIn(i) <=> Asks(c, i)) /\ (BackIn(i) <=> Back(c, i))
    BY DEF AsksIn, BackIn
  <2>. HIDE DEF u, c, d
  <2>7. Asks(d, i) <=> Asks(c, i)
    BY <2>4 DEF Asks
  <2>8. Back(d, i) <=> Back(c, i) \/ i \in r.deps
    BY <2>2, <2>3, <2>4, <2>5 DEF Back
  <2>9. ASSUME OnceInChannel(c, i), i \in r.deps => ~Asks(c, i) /\ ~Back(c, i)
        PROVE  OnceInChannel(d, i)
    <3>1. OnceIn(d.returned, T)
      BY <2>2, <2>3, <2>4, <2>9 DEF OnceInChannel, Back
    <3>2. ~(Asks(d, i) /\ Back(d, i))
      BY <2>7, <2>8, <2>9 DEF OnceInChannel
    <3>. QED  BY <2>4, <2>9, <3>1, <3>2 DEF OnceInChannel
  <2>. QED  BY <2>6, <2>7, <2>8, <2>9 DEF u, c, d
<1>. QED  BY <1>2, <1>3 DEF D

LEMMA CheckCollisionsServes ==
  ASSUME Inv, Served, CheckCollisions
  PROVE  ServedOn
<1>1. \A u \in Uppers : KeepsWaiting(chan[u], chan'[u], u)
  <2>1. \A u \in Uppers : chan[u] \in ChannelType /\ OwnedQueues(chan[u], u)
    BY ChannelsAre DEF Inv, Served, Owned
  <2>2. \A u \in Uppers : chan'[u] = CheckCollision(chan[u])
    BY DEF CheckCollisions
  <2>. QED  BY <2>1, <2>2, CollisionKeepsWaiting
<1>2. UNCHANGED <<inflight_tag_check, translation_stash, MSHR, inflight_writes>>
  BY DEF CheckCollisions, cacheVars
<1>3. Owned'
  BY <1>1, <1>2 DEF Served, Owned, KeepsWaiting
<1>4. ASSUME NEW i \in Ids PROVE InOnePlace(i)' /\ Remains(i)
  <2>1. KeepsWaiting(chan[Req[i].from], chan'[Req[i].from], Req[i].from)
    BY <1>1, RequesterIs
  <2>2. /\ AsksIn(i)' \/ BackIn(i)' <=> AsksIn(i) \/ BackIn(i)
        /\ BackIn(i) => BackIn(i)'
        /\ OnceInChannel(chan[Req[i].from], i) => OnceInChannel(chan[Req[i].from], i)'
    BY <2>1 DEF KeepsWaiting, AsksIn, BackIn
  <2>3. (ChecksIn(i)' <=> ChecksIn(i)) /\ (StashedIn(i)' <=> StashedIn(i)) /\ (MissesIn(i)' <=> MissesIn(i))
    BY <1>2 DEF ChecksIn, StashedIn, MissesIn
  <2>4. InOnePlace(i)
    BY DEF Served
  <2>5. OnceInChannel(chan[Req[i].from], i)' => ~(AsksIn(i)' /\ BackIn(i)')
    BY DEF OnceInChannel, AsksIn, BackIn
  <2>. QED  BY <1>2, <2>2, <2>3, <2>4, <2>5 DEF InOnePlace, Apart, Remains, Waits
<1>. QED  BY <1>3, <1>4 DEF ServedOn, Served

(* The MSHRs, write fills and requests in the pipeline and in the stash     *)
(* keep their instructions while these are moved and marked.               *)
LEMMA MarkedServed ==
  ASSUME Served, chan' = chan, inflight_writes' \in Seq(UnownedFill),
         MSHR' \in Seq(OwnedMiss),
         inflight_tag_check' \in Seq(OwnedCheck), translation_stash' \in Seq(OwnedCheck),
         \A i \in Ids : /\ SomeIn(MSHR', WaiterOf(i)) <=> MissesIn(i)
                        /\ OnceIn(MSHR, WaiterOf(i)) => OnceIn(MSHR', WaiterOf(i))
                        /\ SomeIn(inflight_tag_check', CheckOf(i)) <=> ChecksIn(i)
                        /\ OnceIn(inflight_tag_check, CheckOf(i)) => OnceIn(inflight_tag_check', CheckOf(i))
                        /\ SomeIn(translation_stash', CheckOf(i)) <=> StashedIn(i)
                        /\ OnceIn(translation_stash, CheckOf(i)) => OnceIn(translation_stash', CheckOf(i))
  PROVE  ServedOn
<1>1. Owned'
  BY DEF Served, Owned
<1>2. ASSUME NEW i \in Ids PROVE InOnePlace(i)' /\ Remains(i)
  <2>1. /\ AsksIn(i)' = AsksIn(i) /\ BackIn(i)' = BackIn(i)
        /\ OnceInChannel(chan[Req[i].from], i)' = OnceInChannel(chan[Req[i].from], i)
    BY DEF AsksIn, BackIn
  <2>2. /\ ChecksIn(i)' = SomeIn(inflight_tag_check', CheckOf(i))
        /\ StashedIn(i)' = SomeIn(translation_stash', CheckOf(i))
        /\ MissesIn(i)' = SomeIn(MSHR', WaiterOf(i))
    BY DEF ChecksIn, StashedIn, MissesIn
  <2>3. /\ ChecksIn(i)' <=> ChecksIn(i)
        /\ StashedIn(i)' <=> StashedIn(i)
        /\ MissesIn(i)' <=> MissesIn(i)
    BY <2>2
  <2>4. InOnePlace(i)
    BY DEF Served
  <2>5. Remains(i)
    BY <2>1, <2>3 DEF Remains, Waits
  <2>6. Apart(AsksIn(i), ChecksIn(i), StashedIn(i), MissesIn(i), BackIn(i))'
    BY <2>1, <2>3, <2>4 DEF InOnePlace, Apart
  <2>7. /\ OnceIn(inflight_tag_check, CheckOf(i))' /\ OnceIn(translation_stash, CheckOf(i))'
        /\ OnceIn(MSHR, WaiterOf(i))'
    BY <2>4 DEF InOnePlace
  <2>. QED  BY <2>1, <2>4, <2>5, <2>6, <2>7 DEF InOnePlace
<1>. QED  BY <1>1, <1>2 DEF ServedOn, Served

(* Each element stands for the one that was at its position. *)
LEMMA StandsFor ==
  ASSUME NEW S, NEW s \in Seq(S), NEW t, Len(t) = Len(s),
         \A k \in 1 .. Len(s) : \A i \in Ids : t[k] \in WaiterOf(i) <=> s[k] \in WaiterOf(i)
  PROVE  \A i \in Ids : /\ SomeIn(t, WaiterOf(i)) <=> SomeIn(s, WaiterOf(i))
                        /\ OnceIn(s, WaiterOf(i)) => OnceIn(t, WaiterOf(i))
BY LikeIn

LEMMA OwnedReady ==
  ASSUME NEW m \in OwnedMiss, NEW n \in {Unknown} \cup 0 .. FILL_LATENCY
  PROVE  /\ [m EXCEPT !.ready = n] \in OwnedMiss
         /\ \A i \in Ids : [m EXCEPT !.ready = n] \in WaiterOf(i) <=> m \in WaiterOf(i)
<1>. DEFINE r == [m EXCEPT !.ready = n]
<1>1. m \in MissType /\ \A i \in m.deps : Req[i].from \in m.to
  BY DEF OwnedMiss
<1>2. r \in MissType /\ r.deps = m.deps /\ r.to = m.to
  BY <1>1, ReadyIs
<1>. HIDE DEF r
<1>3. r \in OwnedMiss /\ \A i \in Ids : r \in WaiterOf(i) <=> m \in WaiterOf(i)
  BY <1>1, <1>2 DEF OwnedMiss, WaiterOf
<1>. QED  BY <1>3 DEF r

LEMMA FinishPacketServes ==
  ASSUME Inv, Served, FinishPacket
  PROVE  ServedOn
<1>. DEFINE i == MatchingMSHR(Head(lower.returned))
            f == FirstUnreturned
            x == [MSHR[i] EXCEPT !.ready = FILL_LATENCY]
            s == [MSHR EXCEPT ![i] = x]
            t == Swap(s, i, f)
            N == Len(MSHR)
<1>1. i \in 1 .. N /\ f \in 1 .. i
  BY ReturnFound DEF Inv
<1>2. MSHR \in Seq(OwnedMiss) /\ N \in Nat
  BY SeqParts DEF Served, Owned
<1>3. i # 0 /\ f # 0 /\ f \in 1 .. N
  BY <1>1, <1>2
<1>4. MSHR' = t
  BY <1>3 DEF FinishPacket
<1>5. MSHR[i] \in OwnedMiss
  BY <1>1, <1>2, SeqParts
<1>6. x \in OwnedMiss /\ \A j \in Ids : x \in WaiterOf(j) <=> MSHR[i] \in WaiterOf(j)
  <2>1. FILL_LATENCY \in {Unknown} \cup 0 .. FILL_LATENCY
    BY Constants
  <2>. QED  BY <1>5, <2>1, OwnedReady
<1>. HIDE DEF x, i, f
<1>7. /\ s \in Seq(OwnedMiss) /\ Len(s) = N
      /\ \A j \in Ids : /\ SomeIn(s, WaiterOf(j)) <=> SomeIn(MSHR, WaiterOf(j))
                        /\ OnceIn(MSHR, WaiterOf(j)) => OnceIn(s, WaiterOf(j))
  <2>1. s \in Seq(OwnedMiss) /\ Len(s) = N
    BY <1>1, <1>2, <1>6, ExceptSeq
  <2>. QED  BY <1>1, <1>2, <1>6, <2>1, ReplacedIn
<1>. HIDE DEF s
<1>8. /\ t \in Seq(OwnedMiss) /\ Len(t) = N /\ t[f] = s[i] /\ t[i] = s[f]
      /\ \A k \in 1 .. N : k # i /\ k # f => t[k] = s[k]
  BY <1>1, <1>3, <1>7, SwapIs
<1>. HIDE DEF t
<1>9. ASSUME NEW j \in Ids
      PROVE  (SomeIn(t, WaiterOf(j)) <=> SomeIn(s, WaiterOf(j))) /\ (OnceIn(t, WaiterOf(j)) <=> OnceIn(s, WaiterOf(j)))
  <2>. DEFINE T == WaiterOf(j)
  <2>. HIDE DEF T
  <2>1. /\ Len(s) \in Nat /\ Len(t) = Len(s) /\ i \in 1 .. Len(s) /\ f \in 1 .. Len(s)
        /\ t[f] \in T <=> s[i] \in T
        /\ i # f => (t[i] \in T <=> s[f] \in T)
        /\ \A k \in 1 .. Len(s) : k # i /\ k # f => (t[k] \in T <=> s[k] \in T)
    BY <1>1, <1>2, <1>3, <1>7, <1>8
  <2>. HIDE DEF N
  <2>2. (SomeIn(t, T) <=> SomeIn(s, T)) /\ (OnceIn(t, T) <=> OnceIn(s, T))
    BY <2>1, PermutedIn
  <2>. QED  BY <2>2 DEF T
<1>10. UNCHANGED <<chan, inflight_tag_check, translation_stash, inflight_writes>>
  BY DEF FinishPacket
<1>. QED  BY <1>4, <1>7, <1>8, <1>9, <1>10, MarkedServed DEF Served, Owned, MissesIn, ChecksIn, StashedIn

LEMMA EndCycleServes ==
  ASSUME Inv, Served, EndCycle
  PROVE  ServedOn
<1>1. /\ MSHR' = [k \in DOMAIN MSHR |-> [MSHR[k] EXCEPT !.ready = Sooner(@)]]
      /\ inflight_writes' = [k \in DOMAIN inflight_writes |-> [inflight_writes[k] EXCEPT !.ready = Sooner(@)]]
      /\ inflight_tag_check' =
           [k \in DOMAIN inflight_tag_check |-> [inflight_tag_check[k] EXCEPT !.event = Sooner(@)]]
      /\ chan' = chan /\ translation_stash' = translation_stash
  BY DEF EndCycle
<1>2. /\ MSHR' \in Seq(OwnedMiss)
      /\ \A i \in Ids : /\ SomeIn(MSHR', WaiterOf(i)) <=> SomeIn(MSHR, WaiterOf(i))
                        /\ OnceIn(MSHR, WaiterOf(i)) => OnceIn(MSHR', WaiterOf(i))
  <2>1. /\ MSHR \in Seq(OwnedMiss) /\ DOMAIN MSHR = 1 .. Len(MSHR) /\ Len(MSHR) \in Nat
        /\ \A k \in 1 .. Len(MSHR) : MSHR[k] \in OwnedMiss
    BY SeqParts DEF Served, Owned
  <2>. DEFINE R(k) == [MSHR[k] EXCEPT !.ready = Sooner(@)]
  <2>2. ASSUME NEW k \in 1 .. Len(MSHR)
        PROVE  R(k) \in OwnedMiss /\ \A i \in Ids : R(k) \in WaiterOf(i) <=> MSHR[k] \in WaiterOf(i)
    <3>1. MSHR[k] \in OwnedMiss /\ MSHR[k] \in MissType
      BY <2>1 DEF OwnedMiss
    <3>2. R(k) \in MissType /\ R(k).deps = MSHR[k].deps /\ R(k).to = MSHR[k].to
      BY <3>1, SoonerMiss
    <3>. HIDE DEF R
    <3>. QED  BY <3>1, <3>2 DEF OwnedMiss, WaiterOf
  <2>3. MSHR' = [k \in 1 .. Len(MSHR) |-> R(k)]
    BY <1>1, <2>1
  <2>. HIDE DEF R
  <2>4. MSHR' \in Seq(OwnedMiss) /\ Len(MSHR') = Len(MSHR)
    <3>1. MSHR' \in [1 .. Len(MSHR) -> OwnedMiss]
      BY <2>2, <2>3
    <3>. QED  BY <2>1, <3>1, FunctionIsSeq
  <2>5. \A k \in 1 .. Len(MSHR) : \A i \in Ids : MSHR'[k] \in WaiterOf(i) <=> MSHR[k] \in WaiterOf(i)
    BY <2>2, <2>3
  <2>. QED  BY <2>1, <2>4, <2>5, StandsFor
<1>3. inflight_writes' \in Seq(UnownedFill)
  <2>1. /\ DOMAIN inflight_writes = 1 .. Len(inflight_writes) /\ Len(inflight_writes) \in Nat
        /\ \A k \in 1 .. Len(inflight_writes) : inflight_writes[k] \in UnownedFill
    BY SeqParts DEF Served, Owned
  <2>. DEFINE R(k) == [inflight_writes[k] EXCEPT !.ready = Sooner(@)]
  <2>2. ASSUME NEW k \in 1 .. Len(inflight_writes) PROVE R(k) \in UnownedFill
    <3>1. inflight_writes[k] \in FillType /\ inflight_writes[k] \in MissType /\ inflight_writes[k].deps = {}
      BY <2>1 DEF UnownedFill, FillType
    <3>2. R(k) \in FillType /\ R(k).deps = inflight_writes[k].deps
      BY <3>1, SoonerMiss
    <3>. QED  BY <3>1, <3>2 DEF UnownedFill
  <2>3. inflight_writes' = [k \in 1 .. Len(inflight_writes) |-> R(k)]
    BY <1>1, <2>1
  <2>. HIDE DEF R
  <2>4. inflight_writes' \in [1 .. Len(inflight_writes) -> UnownedFill]
    BY <2>2, <2>3
  <2>. QED  BY <2>1, <2>4, FunctionIsSeq
<1>4. /\ inflight_tag_check' \in Seq(OwnedCheck)
      /\ \A i \in Ids : /\ SomeIn(inflight_tag_check', CheckOf(i)) <=> SomeIn(inflight_tag_check, CheckOf(i))
                        /\ OnceIn(inflight_tag_check, CheckOf(i)) => OnceIn(inflight_tag_check', CheckOf(i))
  <2>. DEFINE s == inflight_tag_check
              t == inflight_tag_check'
  <2>1. /\ s \in Seq(OwnedCheck) /\ DOMAIN s = 1 .. Len(s) /\ Len(s) \in Nat
        /\ \A k \in 1 .. Len(s) : s[k] \in OwnedCheck
    BY SeqParts DEF Served, Owned
  <2>. DEFINE R(k) == [s[k] EXCEPT !.event = Sooner(@)]
  <2>2. ASSUME NEW k \in 1 .. Len(s)
        PROVE  R(k) \in OwnedCheck /\ \A i \in Ids : R(k) \in CheckOf(i) <=> s[k] \in CheckOf(i)
    <3>1. s[k] \in OwnedCheck /\ s[k] \in CheckType /\ s[k] \in CheckFields
      BY <2>1 DEF OwnedCheck, CheckType
    <3>2. R(k) \in CheckType
      BY <3>1, CheckUpdates
    <3>3. R(k).deps = s[k].deps /\ R(k).to = s[k].to /\ R(k).type = s[k].type /\ R(k).pf = s[k].pf
      BY <3>1 DEF CheckFields
    <3>. HIDE DEF R, s
    <3>. QED  BY <3>1, <3>2, <3>3 DEF OwnedCheck, CheckOf
  <2>3. t = [k \in 1 .. Len(s) |-> R(k)]
    BY <1>1, <2>1
  <2>. HIDE DEF R, s, t
  <2>4. t \in Seq(OwnedCheck) /\ Len(t) = Len(s)
    <3>1. t \in [1 .. Len(s) -> OwnedCheck]
      BY <2>2, <2>3
    <3>. QED  BY <2>1, <3>1, FunctionIsSeq
  <2>5. \A k \in 1 .. Len(s) : \A i \in Ids : t[k] \in CheckOf(i) <=> s[k] \in CheckOf(i)
    BY <2>2, <2>3
  <2>6. \A i \in Ids : /\ SomeIn(t, CheckOf(i)) <=> SomeIn(s, CheckOf(i))
                       /\ OnceIn(s, CheckOf(i)) => OnceIn(t, CheckOf(i))
    BY <2>4, <2>5, LikeIn
  <2>. QED  BY <2>4, <2>6 DEF s, t
<1>. QED  BY <1>1, <1>2, <1>3, <1>4, MarkedServed DEF Served, Owned, MissesIn, ChecksIn, StashedIn

(* What is marked or moved in the pipeline keeps its instructions. *)
LEMMA SameOwned ==
  ASSUME NEW e \in OwnedCheck, NEW r \in CheckType,
         r.deps = e.deps, r.to = e.to, r.type = e.type, r.pf = e.pf
  PROVE  r \in OwnedCheck /\ \A i \in Ids : r \in CheckOf(i) <=> e \in CheckOf(i)
BY DEF OwnedCheck, CheckOf

LEMMA OwnedUpdates ==
  ASSUME NEW e \in OwnedCheck
  PROVE  LET g == [e EXCEPT !.issued = TRUE]
             h == [e EXCEPT !.event = HIT_LATENCY]
             r == MarkTranslated(e)
         IN  /\ g \in OwnedCheck /\ \A i \in Ids : g \in CheckOf(i) <=> e \in CheckOf(i)
             /\ h \in OwnedCheck /\ \A i \in Ids : h \in CheckOf(i) <=> e \in CheckOf(i)
             /\ ~e.tr => r \in OwnedCheck /\ \A i \in Ids : r \in CheckOf(i) <=> e \in CheckOf(i)
<1>. DEFINE g == [e EXCEPT !.issued = TRUE]
            h == [e EXCEPT !.event = HIT_LATENCY]
            r == MarkTranslated(e)
<1>1. e \in CheckType /\ e \in CheckFields
  BY DEF OwnedCheck, CheckType
<1>2. g.deps = e.deps /\ g.to = e.to /\ g.type = e.type /\ g.pf = e.pf
  BY <1>1 DEF CheckFields
<1>3. h.deps = e.deps /\ h.to = e.to /\ h.type = e.type /\ h.pf = e.pf
  BY <1>1 DEF CheckFields
<1>4. r.deps = e.deps /\ r.to = e.to /\ r.type = e.type /\ r.pf = e.pf
  BY <1>1 DEF CheckFields, MarkTranslated
<1>5. g \in CheckType /\ h \in CheckType /\ (~e.tr => r \in CheckType)
  BY <1>1, CheckUpdates, TranslatedIs
<1>. HIDE DEF g, h, r
<1>6. g \in OwnedCheck /\ \A i \in Ids : g \in CheckOf(i) <=> e \in CheckOf(i)
  BY <1>2, <1>5, SameOwned
<1>7. h \in OwnedCheck /\ \A i \in Ids : h \in CheckOf(i) <=> e \in CheckOf(i)
  BY <1>3, <1>5, SameOwned
<1>8. ~e.tr => r \in OwnedCheck /\ \A i \in Ids : r \in CheckOf(i) <=> e \in CheckOf(i)
  BY <1>4, <1>5, SameOwned
<1>. QED  BY <1>6, <1>7, <1>8 DEF g, h, r

(* Sequence t holds for each instruction what s does. *)
SameHeld(s, t) ==
  /\ t \in Seq(OwnedCheck)
  /\ \A i \in Ids : /\ SomeIn(t, CheckOf(i)) <=> SomeIn(s, CheckOf(i))
                    /\ OnceIn(s, CheckOf(i)) => OnceIn(t, CheckOf(i))

LEMMA MarkedHeld ==
  ASSUME NEW s \in Seq(OwnedCheck), NEW t, t \in [1 .. Len(s) -> OwnedCheck],
         \A k \in 1 .. Len(s) : \A i \in Ids : t[k] \in CheckOf(i) <=> s[k] \in CheckOf(i)
  PROVE  SameHeld(s, t)
<1>1. t \in Seq(OwnedCheck) /\ Len(t) = Len(s)
  <2>1. Len(s) \in Nat
    BY SeqParts
  <2>. QED  BY <2>1, FunctionIsSeq
<1>. QED  BY <1>1, LikeIn DEF SameHeld

LEMMA WaitingHeld ==
  ASSUME NEW s \in Seq(OwnedCheck), NEW page
  PROVE  SameHeld(s, MarkWaiting(s, page))
<1>. DEFINE N == Len(s)
            V(k) == IF WaitsFor(s[k], page) THEN MarkTranslated(s[k]) ELSE s[k]
            t == [k \in 1 .. N |-> V(k)]
<1>1. N \in Nat /\ DOMAIN s = 1 .. N /\ \A k \in 1 .. N : s[k] \in OwnedCheck
  BY SeqParts
<1>2. MarkWaiting(s, page) = t
  BY <1>1 DEF MarkWaiting
<1>3. \A k \in 1 .. N : V(k) \in OwnedCheck /\ \A i \in Ids : V(k) \in CheckOf(i) <=> s[k] \in CheckOf(i)
  BY <1>1, OwnedUpdates DEF WaitsFor
<1>. HIDE DEF V, N
<1>4. t \in [1 .. N -> OwnedCheck] /\ \A k \in 1 .. N : t[k] = V(k)
  BY <1>3
<1>. HIDE DEF t
<1>5. \A k \in 1 .. N : \A i \in Ids : t[k] \in CheckOf(i) <=> s[k] \in CheckOf(i)
  BY <1>3, <1>4
<1>6. SameHeld(s, t)
  BY <1>1, <1>4, <1>5, MarkedHeld DEF N
<1>. QED  BY <1>2, <1>6

(* The stash is reordered, and some of it marked. *)
LEMMA RestartedHeld ==
  ASSUME NEW s \in Seq(OwnedCheck), NEW page
  PROVE  SameHeld(s, Restarted(s, page))
<1>. DEFINE N == Len(s)
            n == SpanLength(s, Len(s), LAMBDA e : e.tr)
            I == {k \in 1 .. Len(s) : ~s[k].tr}
            f == IF I # {} THEN Min(I) ELSE 0
            waits == {k \in DOMAIN s : k > n /\ WaitsFor(s[k], page)}
            others == (n + 1 .. Len(s)) \ waits
            begin == SubSeq(s, 1, n)
            found == Extracted(s, waits)
            other == Extracted(s, others)
            marked == [k \in DOMAIN found |-> MarkTranslated(found[k])]
<1>1. N \in Nat /\ DOMAIN s = 1 .. N /\ \A k \in 1 .. N : s[k] \in OwnedCheck
  BY SeqParts
<1>2. n \in 0 .. N
  <2>1. n = Smaller(N, IF f = 0 THEN N ELSE f - 1)
    BY DEF SpanLength, SelectInSeq
  <2>2. I \subseteq 1 .. N /\ f = (IF I # {} THEN Min(I) ELSE 0)
    OBVIOUS
  <2>. HIDE DEF n, I, f, N
  <2>3. f \in 0 .. N
    BY <1>1, <2>2, FirstIn
  <2>. QED  BY <1>1, <2>1, <2>3 DEF Smaller
<1>3. Restarted(s, page) = begin \o marked \o other
  BY DEF Restarted
<1>4. \A k \in waits : k \in 1 .. N /\ ~s[k].tr /\ k > n
  BY <1>1 DEF WaitsFor
<1>5. /\ others \cap waits = {}
      /\ 1 .. N \subseteq (1 .. n) \cup (waits \cup others)
      /\ (1 .. n) \cap (waits \cup others) = {}
  <2>. HIDE DEF n, waits
  <2>. QED  BY <1>1, <1>2, <1>4
<1>. HIDE DEF n, waits, others
<1>6. /\ Embedded(OwnedCheck, found, s, waits, N)
      /\ Embedded(OwnedCheck, other, s, others, N)
  BY ExtractedIs
<1>7. begin \in Seq(OwnedCheck)
  BY <1>2, SplitIs
<1>8. ASSUME NEW i \in Ids
      PROVE  LET T == CheckOf(i)
             IN  /\ SomeIn(begin, T) <=> SomeAt(s, 1 .. n, T)
                 /\ SomeIn(found, T) <=> SomeAt(s, waits, T)
                 /\ SomeIn(other, T) <=> SomeAt(s, others, T)
                 /\ OnceIn(s, T) => OnceIn(begin, T) /\ OnceIn(found, T) /\ OnceIn(other, T)
  <2>. DEFINE T == CheckOf(i)
  <2>. HIDE DEF T
  <2>1. (SomeIn(begin, T) <=> SomeAt(s, 1 .. n, T)) /\ (OnceIn(s, T) => OnceIn(begin, T))
    BY <1>2, SliceIn
  <2>2. (SomeIn(found, T) <=> SomeAt(s, waits, T)) /\ (OnceIn(s, T) => OnceIn(found, T))
    BY ExtractedIn
  <2>3. (SomeIn(other, T) <=> SomeAt(s, others, T)) /\ (OnceIn(s, T) => OnceIn(other, T))
    BY ExtractedIn
  <2>. QED  BY <2>1, <2>2, <2>3 DEF T
<1>. HIDE DEF begin, found, other
<1>9. found \in Seq(OwnedCheck) /\ other \in Seq(OwnedCheck)
      /\ \A k \in 1 .. Len(found) : found[k] \in OwnedCheck /\ ~found[k].tr
  BY <1>4, <1>6, SeqParts DEF Embedded, Embeds
<1>10. SameHeld(found, marked)
  <2>. DEFINE V(k) == MarkTranslated(found[k])
              M == Len(found)
  <2>1. M \in Nat /\ DOMAIN found = 1 .. M
    BY <1>9, SeqParts
  <2>2. \A k \in 1 .. M : V(k) \in OwnedCheck /\ \A i \in Ids : V(k) \in CheckOf(i) <=> found[k] \in CheckOf(i)
    BY <1>9, OwnedUpdates
  <2>3. marked = [k \in 1 .. M |-> V(k)]
    BY <2>1
  <2>. HIDE DEF V, M, marked
  <2>4. marked \in [1 .. M -> OwnedCheck] /\ \A k \in 1 .. M : marked[k] = V(k)
    BY <2>2, <2>3
  <2>5. \A k \in 1 .. M : \A i \in Ids : marked[k] \in CheckOf(i) <=> found[k] \in CheckOf(i)
    BY <2>2, <2>4
  <2>6. /\ found \in Seq(OwnedCheck) /\ marked \in [1 .. Len(found) -> OwnedCheck]
        /\ \A k \in 1 .. Len(found) : \A i \in Ids : marked[k] \in CheckOf(i) <=> found[k] \in CheckOf(i)
    BY <1>9, <2>4, <2>5 DEF M
  <2>. QED  BY <2>6, MarkedHeld
<1>. HIDE DEF marked
<1>11. begin \o marked \in Seq(OwnedCheck) /\ begin \o marked \o other \in Seq(OwnedCheck)
  BY <1>7, <1>9, <1>10, JoinIs DEF SameHeld
<1>12. ASSUME NEW i \in Ids
       PROVE  LET T == CheckOf(i)
                  t == begin \o marked \o other
              IN  (SomeIn(t, T) <=> SomeIn(s, T)) /\ (OnceIn(s, T) => OnceIn(t, T))
  <2>. DEFINE T == CheckOf(i)
              a == begin \o marked
              t == a \o other
  <2>1. /\ SomeIn(s, T) <=> SomeAt(s, 1 .. n, T) \/ SomeAt(s, waits \cup others, T)
        /\ SomeAt(s, waits \cup others, T) <=> SomeAt(s, waits, T) \/ SomeAt(s, others, T)
    <3>1. SomeIn(s, T) <=> SomeAt(s, 1 .. n, T) \/ SomeAt(s, waits \cup others, T)
      BY <1>5, AtParts DEF N
    <3>. QED  BY <3>1 DEF SomeAt
  <2>2. OnceIn(s, T) => /\ ~(SomeAt(s, 1 .. n, T) /\ SomeAt(s, waits \cup others, T))
                        /\ ~(SomeAt(s, others, T) /\ SomeAt(s, waits, T))
    BY <1>5, AtOnce
  <2>3. (SomeIn(marked, T) <=> SomeIn(found, T)) /\ (OnceIn(found, T) => OnceIn(marked, T))
        /\ marked \in Seq(OwnedCheck)
    BY <1>10 DEF SameHeld
  <2>4. /\ SomeIn(begin, T) <=> SomeAt(s, 1 .. n, T)
        /\ SomeIn(found, T) <=> SomeAt(s, waits, T)
        /\ SomeIn(other, T) <=> SomeAt(s, others, T)
        /\ OnceIn(s, T) => OnceIn(begin, T) /\ OnceIn(found, T) /\ OnceIn(other, T)
    BY <1>8
  <2>. HIDE DEF T
  <2>5. /\ SomeIn(a, T) <=> SomeIn(begin, T) \/ SomeIn(marked, T)
        /\ OnceIn(begin, T) /\ OnceIn(marked, T) /\ ~(SomeIn(begin, T) /\ SomeIn(marked, T)) => OnceIn(a, T)
    BY <1>7, <2>3, JoinIn
  <2>6. a \in Seq(OwnedCheck)
    BY <1>11
  <2>. HIDE DEF a
  <2>7. /\ SomeIn(t, T) <=> SomeIn(a, T) \/ SomeIn(other, T)
        /\ OnceIn(a, T) /\ OnceIn(other, T) /\ ~(SomeIn(a, T) /\ SomeIn(other, T)) => OnceIn(t, T)
    BY <1>9, <2>6, JoinIn
  <2>8. (SomeIn(t, T) <=> SomeIn(s, T)) /\ (OnceIn(s, T) => OnceIn(t, T))
    BY <2>1, <2>2, <2>3, <2>4, <2>5, <2>7
  <2>. QED  BY <2>8 DEF T, a
<1>. QED  BY <1>3, <1>11, <1>12 DEF SameHeld

LEMMA FinishTranslationServes ==
  ASSUME Inv, Served, FinishTranslation
  PROVE  ServedOn
<1>. DEFINE page == PageOf[Head(tlb.returned)]
<1>1. /\ translation_stash' = Restarted(translation_stash, page)
      /\ inflight_tag_check' = MarkWaiting(inflight_tag_check, page)
      /\ chan' = chan /\ MSHR' = MSHR /\ inflight_writes' = inflight_writes
  BY DEF FinishTranslation
<1>. HIDE DEF page
<1>2. /\ inflight_tag_check \in Seq(OwnedCheck) /\ translation_stash \in Seq(OwnedCheck)
      /\ MSHR \in Seq(OwnedMiss) /\ inflight_writes \in Seq(UnownedFill)
  BY DEF Served, Owned
<1>3. /\ SameHeld(translation_stash, translation_stash')
      /\ SameHeld(inflight_tag_check, inflight_tag_check')
  BY <1>1, <1>2, RestartedHeld, WaitingHeld
<1>. QED  BY <1>1, <1>2, <1>3, MarkedServed DEF SameHeld, MissesIn, ChecksIn, StashedIn

(* Requests that only change between the pipeline and the stash. *)
LEMMA MovedServed ==
  ASSUME Served, chan' = chan, MSHR' = MSHR, inflight_writes' = inflight_writes,
         inflight_tag_check' \in Seq(OwnedCheck), translation_stash' \in Seq(OwnedCheck),
         \A i \in Ids :
           LET T == CheckOf(i)
           IN  /\ SomeIn(inflight_tag_check', T) \/ SomeIn(translation_stash', T) <=> ChecksIn(i) \/ StashedIn(i)
               /\ OnceIn(inflight_tag_check, T) /\ OnceIn(translation_stash, T) /\ ~(ChecksIn(i) /\ StashedIn(i)) =>
                    /\ OnceIn(inflight_tag_check', T) /\ OnceIn(translation_stash', T)
                    /\ ~(SomeIn(inflight_tag_check', T) /\ SomeIn(translation_stash', T))
  PROVE  ServedOn
<1>1. Owned'
  BY DEF Served, Owned
<1>2. ASSUME NEW i \in Ids PROVE InOnePlace(i)' /\ Remains(i)
  <2>1. /\ AsksIn(i)' = AsksIn(i) /\ BackIn(i)' = BackIn(i) /\ MissesIn(i)' = MissesIn(i)
        /\ OnceInChannel(chan[Req[i].from], i)' = OnceInChannel(chan[Req[i].from], i)
        /\ OnceIn(MSHR, WaiterOf(i))' = OnceIn(MSHR, WaiterOf(i))
    BY DEF AsksIn, BackIn, MissesIn
  <2>2. /\ ChecksIn(i)' = SomeIn(inflight_tag_check', CheckOf(i))
        /\ StashedIn(i)' = SomeIn(translation_stash', CheckOf(i))
    BY DEF ChecksIn, StashedIn
  <2>3. InOnePlace(i)
    BY DEF Served
  <2>4. OnceIn(inflight_tag_check, CheckOf(i)) /\ OnceIn(translation_stash, CheckOf(i)) /\ ~(ChecksIn(i) /\ StashedIn(i))
    BY <2>3 DEF InOnePlace, Apart
  <2>5. /\ ChecksIn(i)' \/ StashedIn(i)' <=> ChecksIn(i) \/ StashedIn(i)
        /\ ~(ChecksIn(i)' /\ StashedIn(i)')
        /\ OnceIn(inflight_tag_check, CheckOf(i))' /\ OnceIn(translation_stash, CheckOf(i))'
    BY <2>2, <2>4
  <2>6. Remains(i)
    BY <2>1, <2>5 DEF Remains, Waits
  <2>7. Apart(AsksIn(i), ChecksIn(i), StashedIn(i), MissesIn(i), BackIn(i))'
    BY <2>1, <2>3, <2>5 DEF InOnePlace, Apart
  <2>. QED  BY <2>1, <2>3, <2>5, <2>6, <2>7 DEF InOnePlace
<1>. QED  BY <1>1, <1>2 DEF ServedOn, Served

LEMMA HeldServed ==
  ASSUME Served, chan' = chan, MSHR' = MSHR, inflight_writes' = inflight_writes,
         SameHeld(inflight_tag_check, inflight_tag_check'), SameHeld(translation_stash, translation_stash')
  PROVE  ServedOn
BY MovedServed DEF SameHeld, ChecksIn, StashedIn

LEMMA IssuedHeld ==
  ASSUME NEW s \in Seq(OwnedCheck)
  PROVE  LET i == SelectInSeq(s, NeedsIssue)
         IN  SameHeld(s, s) /\ (i # 0 => SameHeld(s, [s EXCEPT ![i].issued = TRUE]))
<1>. DEFINE i == SelectInSeq(s, NeedsIssue)
            I == {x \in 1 .. Len(s) : NeedsIssue(s[x])}
            e == [s[i] EXCEPT !.issued = TRUE]
<1>1. Len(s) \in Nat /\ \A x \in 1 .. Len(s) : s[x] \in OwnedCheck
  BY SeqParts
<1>2. i # 0 => i \in 1 .. Len(s)
  <2>1. i = (IF I # {} THEN Min(I) ELSE 0) /\ I \subseteq 1 .. Len(s)
    BY DEF SelectInSeq
  <2>. HIDE DEF i, I
  <2>. QED  BY <1>1, <2>1, FirstIn
<1>3. SameHeld(s, s)
  BY DEF SameHeld
<1>. HIDE DEF i
<1>4. ASSUME i # 0 PROVE SameHeld(s, [s EXCEPT ![i] = e])
  <2>1. i \in 1 .. Len(s) /\ s[i] \in OwnedCheck
    BY <1>1, <1>2, <1>4
  <2>2. e \in OwnedCheck /\ \A x \in Ids : e \in CheckOf(x) <=> s[i] \in CheckOf(x)
    BY <2>1, OwnedUpdates
  <2>. HIDE DEF e
  <2>3. ASSUME NEW x \in Ids
        PROVE  LET t == [s EXCEPT ![i] = e]
                   T == CheckOf(x)
               IN  t \in Seq(OwnedCheck) /\ (SomeIn(t, T) <=> SomeIn(s, T)) /\ (OnceIn(s, T) => OnceIn(t, T))
    BY <2>1, <2>2, ReplacedIn
  <2>4. [s EXCEPT ![i] = e] \in Seq(OwnedCheck)
    BY <2>1, <2>2, ExceptSeq
  <2>. QED  BY <2>3, <2>4 DEF SameHeld
<1>5. [s EXCEPT ![i] = e] = [s EXCEPT ![i].issued = TRUE]
  OBVIOUS
<1>. QED  BY <1>3, <1>4, <1>5 DEF i

LEMMA IssueTranslationServes ==
  ASSUME Served, IssueTranslation
  PROVE  ServedOn
<1>. DEFINE i == SelectInSeq(inflight_tag_check, NeedsIssue)
            j == SelectInSeq(translation_stash, NeedsIssue)
<1>1. /\ i # 0 \/ j # 0
      /\ i # 0 => /\ inflight_tag_check' = [inflight_tag_check EXCEPT ![i].issued = TRUE]
                  /\ translation_stash' = translation_stash
      /\ i = 0 => /\ translation_stash' = [translation_stash EXCEPT ![j].issued = TRUE]
                  /\ inflight_tag_check' = inflight_tag_check
      /\ chan' = chan /\ MSHR' = MSHR /\ inflight_writes' = inflight_writes
  BY DEF IssueTranslation
<1>2. inflight_tag_check \in Seq(OwnedCheck) /\ translation_stash \in Seq(OwnedCheck)
  BY DEF Served, Owned
<1>3. /\ SameHeld(inflight_tag_check, inflight_tag_check) /\ SameHeld(translation_stash, translation_stash)
      /\ i # 0 => SameHeld(inflight_tag_check, [inflight_tag_check EXCEPT ![i].issued = TRUE])
      /\ j # 0 => SameHeld(translation_stash, [translation_stash EXCEPT ![j].issued = TRUE])
  BY <1>2, IssuedHeld
<1>. HIDE DEF i, j
<1>4. SameHeld(inflight_tag_check, inflight_tag_check') /\ SameHeld(translation_stash, translation_stash')
  <2>1. CASE i # 0
    BY <1>1, <1>3, <2>1
  <2>2. CASE i = 0
    BY <1>1, <1>3, <2>2
  <2>. QED  BY <2>1, <2>2
<1>. QED  BY <1>1, <1>4, HeldServed

LEMMA StashUntranslatedServes ==
  ASSUME Served, StashUntranslated
  PROVE  ServedOn
<1>. DEFINE s == inflight_tag_check
            missed == {i \in DOMAIN s : IsReady(s[i]) /\ ~s[i].tr}
            stays == DOMAIN s \ missed
            kept == Extracted(s, stays)
            gone == Extracted(s, missed)
<1>1. /\ s' = kept /\ translation_stash' = translation_stash \o gone
      /\ chan' = chan /\ MSHR' = MSHR /\ inflight_writes' = inflight_writes
  BY DEF StashUntranslated
<1>2. s \in Seq(OwnedCheck) /\ translation_stash \in Seq(OwnedCheck) /\ DOMAIN s = 1 .. Len(s)
  BY SeqParts DEF Served, Owned
<1>3. stays \cap missed = {} /\ 1 .. Len(s) \subseteq stays \cup missed
  BY <1>2
<1>. HIDE DEF missed, stays
<1>4. kept \in Seq(OwnedCheck) /\ gone \in Seq(OwnedCheck)
  BY <1>2, ExtractedIs DEF Embedded
<1>5. s' \in Seq(OwnedCheck) /\ translation_stash' \in Seq(OwnedCheck)
  BY <1>1, <1>2, <1>4, JoinIs
<1>6. ASSUME NEW i \in Ids
      PROVE  LET T == CheckOf(i)
                 t == translation_stash'
             IN  /\ SomeIn(s', T) \/ SomeIn(t, T) <=> SomeIn(s, T) \/ SomeIn(translation_stash, T)
                 /\ OnceIn(s, T) /\ OnceIn(translation_stash, T) /\ ~(SomeIn(s, T) /\ SomeIn(translation_stash, T)) =>
                      OnceIn(s', T) /\ OnceIn(t, T) /\ ~(SomeIn(s', T) /\ SomeIn(t, T))
  <2>. DEFINE T == CheckOf(i)
              t == translation_stash'
  <2>. HIDE DEF T
  <2>1. /\ SomeIn(kept, T) <=> SomeAt(s, stays, T)
        /\ SomeIn(gone, T) <=> SomeAt(s, missed, T)
        /\ OnceIn(s, T) => OnceIn(kept, T) /\ OnceIn(gone, T)
    BY <1>2, ExtractedIn
  <2>2. SomeIn(s, T) <=> SomeAt(s, stays, T) \/ SomeAt(s, missed, T)
    BY <1>3, AtParts
  <2>3. OnceIn(s, T) => ~(SomeAt(s, stays, T) /\ SomeAt(s, missed, T))
    BY <1>3, AtOnce
  <2>. HIDE DEF kept, gone
  <2>4. /\ SomeIn(t, T) <=> SomeIn(translation_stash, T) \/ SomeIn(gone, T)
        /\ OnceIn(translation_stash, T) /\ OnceIn(gone, T) /\ ~(SomeIn(translation_stash, T) /\ SomeIn(gone, T))
             => OnceIn(t, T)
    BY <1>1, <1>2, <1>4, JoinIn
  <2>5. SomeIn(s', T) <=> SomeIn(kept, T)
    BY <1>1
  <2>6. OnceIn(kept, T) => OnceIn(s', T)
    BY <1>1
  <2>7. SomeIn(s', T) \/ SomeIn(t, T) <=> SomeIn(s, T) \/ SomeIn(translation_stash, T)
    BY <2>1, <2>2, <2>4, <2>5
  <2>8. ASSUME OnceIn(s, T), OnceIn(translation_stash, T), ~(SomeIn(s, T) /\ SomeIn(translation_stash, T))
        PROVE  OnceIn(s', T) /\ OnceIn(t, T) /\ ~(SomeIn(s', T) /\ SomeIn(t, T))
    BY <2>1, <2>2, <2>3, <2>4, <2>5, <2>6, <2>8
  <2>. QED  BY <2>7, <2>8 DEF T
<1>. QED  BY <1>1, <1>5, <1>6, MovedServed DEF ChecksIn, StashedIn

LEMMA InitiateFromStashServes ==
  ASSUME Inv, Served, InitiateFromStash
  PROVE  ServedOn
<1>. DEFINE s == translation_stash
            c == inflight_tag_check
            n == SpanLength(s, TagBandwidth, LAMBDA e : e.tr)
            I == {i \in 1 .. Len(s) : ~s[i].tr}
            f == IF I # {} THEN Min(I) ELSE 0
            V(k) == [s[k] EXCEPT !.event = HIT_LATENCY]
            taken == [k \in 1 .. n |-> V(k)]
<1>1. /\ s \in Seq(OwnedCheck) /\ Len(s) \in Nat /\ \A k \in 1 .. Len(s) : s[k] \in OwnedCheck
      /\ c \in Seq(OwnedCheck) /\ TagBandwidth \in Nat
  BY SeqParts, BandwidthIs DEF Served, Owned, Inv
<1>2. n \in 0 .. Len(s)
  <2>1. n = Smaller(TagBandwidth, IF f = 0 THEN Len(s) ELSE f - 1)
    BY DEF SpanLength, SelectInSeq
  <2>2. I \subseteq 1 .. Len(s) /\ f = IF I # {} THEN Min(I) ELSE 0
    OBVIOUS
  <2>. HIDE DEF n, I, f, s
  <2>3. f \in 0 .. Len(s)
    BY <1>1, <2>2, FirstIn
  <2>. QED  BY <1>1, <2>1, <2>3 DEF Smaller
<1>3. /\ c' = c \o taken /\ s' = Rest(s, n)
      /\ chan' = chan /\ MSHR' = MSHR /\ inflight_writes' = inflight_writes
  BY DEF InitiateFromStash
<1>. HIDE DEF n
<1>4. \A k \in 1 .. n : V(k) \in OwnedCheck /\ \A i \in Ids : V(k) \in CheckOf(i) <=> s[k] \in CheckOf(i)
  <2>1. \A k \in 1 .. n : s[k] \in OwnedCheck
    BY <1>1, <1>2
  <2>. QED  BY <2>1, OwnedUpdates
<1>. HIDE DEF V
<1>5. taken \in Seq(OwnedCheck) /\ Len(taken) = n /\ \A k \in 1 .. n : taken[k] = V(k)
  <2>1. taken \in [1 .. n -> OwnedCheck] /\ \A k \in 1 .. n : taken[k] = V(k)
    BY <1>4
  <2>. HIDE DEF taken
  <2>. QED  BY <1>1, <1>2, <2>1, FunctionIsSeq
<1>. HIDE DEF taken
<1>6. /\ SubSeq(s, 1, n) \in Seq(OwnedCheck) /\ Len(SubSeq(s, 1, n)) = n
      /\ \A k \in 1 .. n : SubSeq(s, 1, n)[k] = s[k]
      /\ Rest(s, n) \in Seq(OwnedCheck)
  BY <1>1, <1>2, SplitIs
<1>7. c' \in Seq(OwnedCheck) /\ s' \in Seq(OwnedCheck)
  BY <1>1, <1>3, <1>5, <1>6, JoinIs
<1>8. (1 .. n) \cap (n + 1 .. Len(s)) = {} /\ 1 .. Len(s) \subseteq (1 .. n) \cup (n + 1 .. Len(s))
  <2>. HIDE DEF s
  <2>. QED  BY <1>1, <1>2
<1>9. ASSUME NEW i \in Ids
      PROVE  LET T == CheckOf(i)
             IN  /\ SomeIn(c', T) \/ SomeIn(s', T) <=> SomeIn(c, T) \/ SomeIn(s, T)
                 /\ OnceIn(c, T) /\ OnceIn(s, T) /\ ~(SomeIn(c, T) /\ SomeIn(s, T)) =>
                      OnceIn(c', T) /\ OnceIn(s', T) /\ ~(SomeIn(c', T) /\ SomeIn(s', T))
  <2>. DEFINE T == CheckOf(i)
              a == SubSeq(s, 1, n)
              b == Rest(s, n)
  <2>1. \A k \in 1 .. Len(a) : taken[k] \in T <=> a[k] \in T
    BY <1>4, <1>5, <1>6
  <2>2. Len(taken) = Len(a)
    BY <1>5, <1>6
  <2>. HIDE DEF T, a
  <2>3. (SomeIn(taken, T) <=> SomeIn(a, T)) /\ (OnceIn(a, T) => OnceIn(taken, T))
    BY <2>1, <2>2, LikeIn
  <2>4. /\ SomeIn(a, T) <=> SomeAt(s, 1 .. n, T)
        /\ SomeIn(b, T) <=> SomeAt(s, n + 1 .. Len(s), T)
        /\ OnceIn(s, T) => OnceIn(a, T) /\ OnceIn(b, T)
    BY <1>1, <1>2, SliceIn DEF a
  <2>. DEFINE J == 1 .. n
              K == n + 1 .. Len(s)
  <2>5. SomeIn(s, T) <=> SomeAt(s, J, T) \/ SomeAt(s, K, T)
    <3>1. 1 .. Len(s) \subseteq J \cup K
      BY <1>8
    <3>. HIDE DEF J, K
    <3>. QED  BY <3>1, AtParts
  <2>6. OnceIn(s, T) => ~(SomeAt(s, J, T) /\ SomeAt(s, K, T))
    <3>1. J \cap K = {}
      BY <1>8
    <3>. HIDE DEF J, K
    <3>. QED  BY <3>1, AtOnce
  <2>7. /\ SomeIn(c', T) <=> SomeIn(c, T) \/ SomeIn(taken, T)
        /\ OnceIn(c, T) /\ OnceIn(taken, T) /\ ~(SomeIn(c, T) /\ SomeIn(taken, T)) => OnceIn(c', T)
    BY <1>1, <1>3, <1>5, JoinIn
  <2>8. (SomeIn(s', T) <=> SomeIn(b, T)) /\ (OnceIn(b, T) => OnceIn(s', T))
    BY <1>3
  <2>. HIDE DEF J, K, b
  <2>9. SomeIn(c', T) \/ SomeIn(s', T) <=> SomeIn(c, T) \/ SomeIn(s, T)
    BY <2>3, <2>4, <2>5, <2>7, <2>8 DEF J, K
  <2>10. ASSUME OnceIn(c, T), OnceIn(s, T), ~(SomeIn(c, T) /\ SomeIn(s, T))
         PROVE  OnceIn(c', T) /\ OnceIn(s', T) /\ ~(SomeIn(c', T) /\ SomeIn(s', T))
    BY <2>3, <2>4, <2>5, <2>6, <2>7, <2>8, <2>10 DEF J, K
  <2>. QED  BY <2>9, <2>10 DEF T
<1>. QED  BY <1>3, <1>7, <1>9, MovedServed DEF ChecksIn, StashedIn

(* Nothing waits for a prefetch of this cache. *)
LEMMA PrefetchOwned ==
  ASSUME NEW p \in PrefetchType
  PROVE  LET e == TagCheck(p, {}, p.skip, TRUE)
         IN  e \in OwnedCheck /\ \A i \in Ids : e \notin CheckOf(i)
<1>. DEFINE e == TagCheck(p, {}, p.skip, TRUE)
<1>1. e \in CheckType
  BY PrefetchCheckIs
<1>2. e.deps = {}
  BY DEF PrefetchType, PrefetchFields, TagCheck
<1>. HIDE DEF e
<1>3. e \in OwnedCheck /\ \A i \in Ids : e \notin CheckOf(i)
  BY <1>1, <1>2 DEF OwnedCheck, CheckOf
<1>. QED  BY <1>3 DEF e

LEMMA InitiateFromPrefetchesServes ==
  ASSUME Inv, Served, InitiateFromPrefetches
  PROVE  ServedOn
<1>. DEFINE s == internal_PQ
            c == inflight_tag_check
            n == SpanLength(s, loop.bw, Admitted)
            I == {i \in 1 .. Len(s) : ~Admitted(s[i])}
            f == IF I # {} THEN Min(I) ELSE 0
            V(k) == TagCheck(s[k], {}, s[k].skip, TRUE)
            taken == [k \in 1 .. n |-> V(k)]
<1>1. /\ s \in Seq(PrefetchType) /\ Len(s) \in Nat /\ \A k \in 1 .. Len(s) : s[k] \in PrefetchType
      /\ c \in Seq(OwnedCheck) /\ loop.bw \in Nat
  BY SeqParts DEF Served, Owned, Inv, Typed, LoopType
<1>2. n \in 0 .. Len(s)
  <2>1. n = Smaller(loop.bw, IF f = 0 THEN Len(s) ELSE f - 1)
    BY DEF SpanLength, SelectInSeq
  <2>2. I \subseteq 1 .. Len(s) /\ f = IF I # {} THEN Min(I) ELSE 0
    OBVIOUS
  <2>. HIDE DEF n, I, f, s
  <2>3. f \in 0 .. Len(s)
    BY <1>1, <2>2, FirstIn
  <2>. QED  BY <1>1, <2>1, <2>3 DEF Smaller
<1>3. /\ c' = c \o taken /\ translation_stash' = translation_stash
      /\ chan' = chan /\ MSHR' = MSHR /\ inflight_writes' = inflight_writes
  BY DEF InitiateFromPrefetches
<1>. HIDE DEF n
<1>4. \A k \in 1 .. n : V(k) \in OwnedCheck /\ \A i \in Ids : V(k) \notin CheckOf(i)
  <2>1. \A k \in 1 .. n : s[k] \in PrefetchType
    BY <1>1, <1>2
  <2>. QED  BY <2>1, PrefetchOwned
<1>. HIDE DEF V
<1>5. taken \in Seq(OwnedCheck) /\ Len(taken) = n /\ \A k \in 1 .. n : taken[k] = V(k)
  <2>1. taken \in [1 .. n -> OwnedCheck] /\ \A k \in 1 .. n : taken[k] = V(k)
    BY <1>4
  <2>. HIDE DEF taken
  <2>. QED  BY <1>1, <1>2, <2>1, FunctionIsSeq
<1>. HIDE DEF taken
<1>6. c' \in Seq(OwnedCheck)
  BY <1>1, <1>3, <1>5, JoinIs
<1>7. ASSUME NEW i \in Ids
      PROVE  LET T == CheckOf(i)
             IN  (SomeIn(c', T) <=> SomeIn(c, T)) /\ (OnceIn(c, T) => OnceIn(c', T))
  <2>. DEFINE T == CheckOf(i)
  <2>1. ~SomeIn(taken, T) /\ OnceIn(taken, T)
    BY <1>4, <1>5 DEF SomeIn, OnceIn
  <2>. HIDE DEF T
  <2>2. /\ SomeIn(c', T) <=> SomeIn(c, T) \/ SomeIn(taken, T)
        /\ OnceIn(c, T) /\ OnceIn(taken, T) /\ ~(SomeIn(c, T) /\ SomeIn(taken, T)) => OnceIn(c', T)
    BY <1>1, <1>3, <1>5, JoinIn
  <2>. QED  BY <2>1, <2>2 DEF T
<1>8. SameHeld(c, c') /\ SameHeld(translation_stash, translation_stash')
  BY <1>3, <1>6, <1>7 DEF SameHeld, Served, Owned
<1>. QED  BY <1>3, <1>8, HeldServed

(* The first n requests of a queue leave it. *)
LEMMA ChannelTaken ==
  ASSUME NEW c \in ChannelType, NEW u, OwnedQueues(c, u), NEW q \in QueueNames, NEW n \in 0 .. Len(c[q]),
         NEW d, Replaces(c, d, q, Rest(c[q], n), c.returned)
  PROVE  /\ OwnedQueues(d, u)
         /\ \A i \in Ids :
              LET T == ReadOf(i)
                  a == SubSeq(c[q], 1, n)
              IN  /\ Asks(c, i) <=> Asks(d, i) \/ SomeIn(a, T)
                  /\ Back(c, i) <=> Back(d, i)
                  /\ OnceInChannel(c, i) => OnceInChannel(d, i) /\ OnceIn(a, T) /\ ~(Asks(d, i) /\ SomeIn(a, T))
<1>. DEFINE S == IF q = "WQ" THEN WriteType ELSE ReadType(u)
            a == SubSeq(c[q], 1, n)
            b == Rest(c[q], n)
<1>1. c[q] \in Seq(S) /\ Len(c[q]) \in Nat
  BY OwnedQueue
<1>. HIDE DEF S
<1>2. /\ a \in Seq(S) /\ b \in Seq(S) /\ Len(a) \in Nat
      /\ \A k \in 1 .. Len(a) : a[k] \in S
  BY <1>1, SplitIs, SeqParts
<1>3. /\ d \in ChannelType /\ d[q] = b /\ d.returned = c.returned
      /\ \A p \in QueueNames : p # q => d[p] = c[p]
  BY DEF Replaces
<1>4. ASSUME NEW i \in Ids
      PROVE  LET T == ReadOf(i)
             IN  /\ SomeIn(c[q], T) <=> SomeIn(a, T) \/ SomeIn(b, T)
                 /\ OnceIn(c[q], T) => OnceIn(a, T) /\ OnceIn(b, T) /\ ~(SomeIn(a, T) /\ SomeIn(b, T))
  <2>. DEFINE T == ReadOf(i)
              J == 1 .. n
              K == n + 1 .. Len(c[q])
  <2>1. J \cap K = {} /\ 1 .. Len(c[q]) \subseteq J \cup K
    BY <1>1
  <2>. HIDE DEF T
  <2>2. /\ SomeIn(a, T) <=> SomeAt(c[q], J, T)
        /\ SomeIn(b, T) <=> SomeAt(c[q], K, T)
        /\ OnceIn(c[q], T) => OnceIn(a, T) /\ OnceIn(b, T)
    BY <1>1, SliceIn
  <2>. HIDE DEF J, K, a, b
  <2>3. SomeIn(c[q], T) <=> SomeAt(c[q], J, T) \/ SomeAt(c[q], K, T)
    BY <2>1, AtParts
  <2>4. OnceIn(c[q], T) => ~(SomeAt(c[q], J, T) /\ SomeAt(c[q], K, T))
    BY <2>1, AtOnce
  <2>. QED  BY <2>2, <2>3, <2>4 DEF T
<1>. HIDE DEF a, b
<1>5. CASE q = "WQ"
  <2>1. d.RQ = c.RQ /\ d.PQ = c.PQ /\ d.WQ = b
    BY <1>3, <1>5 DEF QueueNames
  <2>2. b \in Seq(WriteType) /\ \A i \in Ids : ~SomeIn(a, ReadOf(i)) /\ OnceIn(a, ReadOf(i))
    BY <1>2, <1>5 DEF S, WriteType, ReadOf, SomeIn, OnceIn
  <2>3. OwnedQueues(d, u)
    BY <2>1, <2>2 DEF OwnedQueues
  <2>. QED  BY <1>3, <2>1, <2>2, <2>3 DEF Asks, Back, OnceInChannel, a
<1>6. CASE q = "RQ"
  <2>1. d.RQ = b /\ d.PQ = c.PQ /\ d.WQ = c.WQ
    BY <1>3, <1>6 DEF QueueNames
  <2>2. OwnedQueues(d, u)
    BY <1>2, <1>6, <2>1 DEF OwnedQueues, S
  <2>. QED  BY <1>3, <1>4, <1>6, <2>1, <2>2 DEF Asks, Back, OnceInChannel, a
<1>7. CASE q = "PQ"
  <2>1. d.PQ = b /\ d.RQ = c.RQ /\ d.WQ = c.WQ
    BY <1>3, <1>7 DEF QueueNames
  <2>2. OwnedQueues(d, u)
    BY <1>2, <1>7, <2>1 DEF OwnedQueues, S
  <2>. QED  BY <1>3, <1>4, <1>7, <2>1, <2>2 DEF Asks, Back, OnceInChannel, a
<1>. QED  BY <1>5, <1>6, <1>7 DEF QueueNames

(* The tag check of a request of level u waits for the same instructions. *)
LEMMA RequestOwned ==
  ASSUME NEW u \in Uppers, NEW q \in QueueNames,
         NEW x \in IF q = "WQ" THEN WriteType ELSE ReadType(u)
  PROVE  LET e == TagCheck(x, IF x.resp THEN {u} ELSE {}, FALSE, FALSE)
         IN  /\ e \in OwnedCheck
             /\ \A i \in Ids : (e \in CheckOf(i) <=> x \in ReadOf(i)) /\ (x \in ReadOf(i) => Req[i].from = u)
<1>. DEFINE to == IF x.resp THEN {u} ELSE {}
            e == TagCheck(x, to, FALSE, FALSE)
<1>1. x \in RequestType /\ (x.deps # {} => x.resp /\ x.type # "WRITE" /\ \A i \in x.deps : Req[i].from = u)
  BY DEF WriteType, ReadType
<1>2. to \in SUBSET Uppers /\ (x.resp => u \in to)
  OBVIOUS
<1>. HIDE DEF to
<1>3. e \in CheckType
  BY <1>1, <1>2, RequestCheckIs
<1>4. e.deps = x.deps /\ e.to = to /\ e.type = x.type /\ e.pf = FALSE
  BY DEF TagCheck
<1>. HIDE DEF e
<1>5. e \in OwnedCheck
  BY <1>1, <1>2, <1>3, <1>4 DEF OwnedCheck
<1>6. \A i \in Ids : (e \in CheckOf(i) <=> x \in ReadOf(i)) /\ (x \in ReadOf(i) => Req[i].from = u)
  BY <1>1, <1>3, <1>4 DEF CheckOf, ReadOf
<1>. QED  BY <1>5, <1>6 DEF e, to

LEMMA InitiateFromChannelServes ==
  ASSUME Inv, Served, InitiateFromChannel
  PROVE  ServedOn
<1>. DEFINE k == ((loop.at - 1) \div 3) + 1
            u == upper_levels[k]
            j == ((loop.at - 1) % 3) + 1
            q == <<"WQ", "RQ", "PQ">>[j]
            s == chan[u][q]
            n == SpanLength(s, Smaller(loop.share, loop.bw), Admitted)
            I == {i \in 1 .. Len(s) : ~Admitted(s[i])}
            f == IF I # {} THEN Min(I) ELSE 0
            a == SubSeq(s, 1, n)
            V(i) == TagCheck(a[i], IF a[i].resp THEN {u} ELSE {}, FALSE, FALSE)
            taken == [i \in 1 .. n |-> V(i)]
            c == inflight_tag_check
<1>1. /\ upper_levels \in Seq(Uppers) /\ Len(upper_levels) \in Nat \ {0}
      /\ loop.at \in Nat \ {0} /\ loop.bw \in Nat /\ loop.share \in Nat
      /\ loop.at <= 3 * Len(upper_levels)
      /\ Typed
  BY SeqParts DEF Inv, Typed, LoopType, InitiateFromChannel
<1>2. u \in Uppers
  <2>1. k \in 1 .. Len(upper_levels)
    BY <1>1
  <2>. HIDE DEF k
  <2>. QED  BY <1>1, <2>1, SeqParts
<1>3. q \in QueueNames
  <2>1. j \in {1, 2, 3}
    BY <1>1
  <2>. HIDE DEF j
  <2>. QED  BY <2>1 DEF QueueNames
<1>4. /\ c' = c \o taken /\ chan' = [chan EXCEPT ![u][q] = Rest(s, n)]
      /\ translation_stash' = translation_stash /\ MSHR' = MSHR /\ inflight_writes' = inflight_writes
  BY DEF InitiateFromChannel
<1>5. n = Smaller(Smaller(loop.share, loop.bw), IF f = 0 THEN Len(s) ELSE f - 1)
  BY DEF SpanLength, SelectInSeq
<1>. HIDE DEF u, q
<1>6. /\ chan[u] \in ChannelType /\ chan \in [Uppers -> ChannelType] /\ OwnedQueues(chan[u], u)
      /\ s \in Seq(RequestType) /\ Len(s) \in Nat /\ chan[u].returned \in Seq(ResponseType)
  <2>1. chan[u] \in ChannelType /\ chan \in [Uppers -> ChannelType] /\ OwnedQueues(chan[u], u)
    BY <1>1, <1>2, ChannelsAre DEF Served, Owned
  <2>. QED  BY <1>3, <2>1, QueuesOf, SeqParts
<1>7. n \in 0 .. Len(s)
  <2>1. I \subseteq 1 .. Len(s) /\ f = IF I # {} THEN Min(I) ELSE 0
    OBVIOUS
  <2>. HIDE DEF n, I, f, s
  <2>2. f \in 0 .. Len(s)
    BY <1>6, <2>1, FirstIn
  <2>3. Smaller(loop.share, loop.bw) \in Nat
    BY <1>1 DEF Smaller
  <2>. QED  BY <1>5, <1>6, <2>2, <2>3 DEF Smaller
<1>. HIDE DEF n
<1>. DEFINE b == Rest(s, n)
            d == [chan[u] EXCEPT ![q] = b]
<1>8. Replaces(chan[u], d, q, b, chan[u].returned)
  <2>1. b \in Seq(RequestType)
    BY <1>6, <1>7, SplitIs
  <2>. HIDE DEF b
  <2>. QED  BY <1>3, <1>6, <2>1, QueueReplaced
<1>9. chan'[u] = d /\ \A w \in Uppers : w # u => chan'[w] = chan[w]
  <2>1. chan' = [chan EXCEPT ![u] = d]
    BY <1>4
  <2>. HIDE DEF d
  <2>. QED  BY <1>2, <1>6, <2>1
<1>. HIDE DEF d
<1>10. /\ OwnedQueues(d, u)
       /\ \A i \in Ids : LET T == ReadOf(i)
                         IN  /\ Asks(chan[u], i) <=> Asks(d, i) \/ SomeIn(a, T)
                             /\ Back(chan[u], i) <=> Back(d, i)
                             /\ OnceInChannel(chan[u], i) =>
                                  OnceInChannel(d, i) /\ OnceIn(a, T) /\ ~(Asks(d, i) /\ SomeIn(a, T))
  BY <1>3, <1>6, <1>7, <1>8, ChannelTaken
<1>11. Len(a) = n /\ n \in Nat /\ \A i \in 1 .. n : a[i] \in IF q = "WQ" THEN WriteType ELSE ReadType(u)
  <2>. DEFINE T == IF q = "WQ" THEN WriteType ELSE ReadType(u)
  <2>1. s \in Seq(T)
    BY <1>3, <1>6, OwnedQueue
  <2>. HIDE DEF T
  <2>2. a \in Seq(T) /\ Len(a) = n /\ n \in Nat
    BY <1>6, <1>7, <2>1, SplitIs
  <2>. HIDE DEF a
  <2>. QED  BY <2>2, SeqParts DEF T
<1>. HIDE DEF a, s, b
<1>12. \A i \in 1 .. n : /\ V(i) \in OwnedCheck
                         /\ \A x \in Ids : (V(i) \in CheckOf(x) <=> a[i] \in ReadOf(x)) /\ (a[i] \in ReadOf(x) => Req[x].from = u)
  BY <1>2, <1>3, <1>11, RequestOwned
<1>. HIDE DEF V
<1>13. taken \in Seq(OwnedCheck) /\ Len(taken) = n /\ \A i \in 1 .. n : taken[i] = V(i)
  <2>1. taken \in [1 .. n -> OwnedCheck] /\ \A i \in 1 .. n : taken[i] = V(i)
    BY <1>12
  <2>. HIDE DEF taken
  <2>. QED  BY <1>11, <2>1, FunctionIsSeq
<1>. HIDE DEF taken
<1>14. c \in Seq(OwnedCheck) /\ c' \in Seq(OwnedCheck)
  <2>1. c \in Seq(OwnedCheck)
    BY DEF Served, Owned
  <2>. QED  BY <1>4, <1>13, <2>1, JoinIs
<1>15. Owned'
  <2>1. \A w \in Uppers : OwnedQueues(chan'[w], w)
    BY <1>9, <1>10 DEF Served, Owned
  <2>. QED  BY <1>4, <1>14, <2>1 DEF Served, Owned
<1>16. ASSUME NEW i \in Ids PROVE InOnePlace(i)' /\ Remains(i)
  <2>. DEFINE T == CheckOf(i)
              R == ReadOf(i)
              v == Req[i].from
  <2>1. /\ InOnePlace(i) /\ v \in Uppers
        /\ OnceInChannel(chan[v], i) /\ OnceIn(c, T)
        /\ Apart(AsksIn(i), ChecksIn(i), StashedIn(i), MissesIn(i), BackIn(i))
    BY RequesterIs DEF Served, InOnePlace
  <2>2. (SomeIn(taken, T) <=> SomeIn(a, R)) /\ (OnceIn(a, R) => OnceIn(taken, T)) /\ (SomeIn(a, R) => v = u)
    <3>1. \A x \in 1 .. Len(a) : taken[x] \in T <=> a[x] \in R
      BY <1>11, <1>12, <1>13
    <3>2. SomeIn(a, R) => v = u
      BY <1>11, <1>12 DEF SomeIn
    <3>. HIDE DEF T, R
    <3>. QED  BY <1>11, <1>13, <3>1, <3>2, LikeIn
  <2>3. /\ SomeIn(c', T) <=> SomeIn(c, T) \/ SomeIn(taken, T)
        /\ OnceIn(c, T) /\ OnceIn(taken, T) /\ ~(SomeIn(c, T) /\ SomeIn(taken, T)) => OnceIn(c', T)
    <3>. HIDE DEF T
    <3>. QED  BY <1>4, <1>13, <1>14, JoinIn
  <2>4. /\ AsksIn(i) = Asks(chan[v], i) /\ AsksIn(i)' = Asks(chan'[v], i)
        /\ BackIn(i) = Back(chan[v], i) /\ BackIn(i)' = Back(chan'[v], i)
        /\ ChecksIn(i) = SomeIn(c, T) /\ ChecksIn(i)' = SomeIn(c', T)
        /\ StashedIn(i)' = StashedIn(i) /\ MissesIn(i)' = MissesIn(i)
        /\ OnceIn(translation_stash, T)' = OnceIn(translation_stash, T)
        /\ OnceIn(MSHR, WaiterOf(i))' = OnceIn(MSHR, WaiterOf(i))
    BY <1>4 DEF AsksIn, BackIn, ChecksIn, StashedIn, MissesIn
  <2>. HIDE DEF T, R, v
  <2>5. /\ Asks(chan[v], i) <=> Asks(chan'[v], i) \/ SomeIn(a, R)
        /\ Back(chan[v], i) <=> Back(chan'[v], i)
        /\ OnceInChannel(chan'[v], i) /\ ~(Asks(chan'[v], i) /\ SomeIn(a, R))
        /\ SomeIn(a, R) => OnceIn(a, R)
    <3>1. CASE v = u
      BY <1>9, <1>10, <2>1, <3>1 DEF R
    <3>2. CASE v # u
      BY <1>9, <2>1, <2>2, <3>2
    <3>. QED  BY <3>1, <3>2
  <2>6. OnceIn(taken, T)
    <3>1. ~SomeIn(taken, T) => OnceIn(taken, T)
      BY DEF SomeIn, OnceIn
    <3>. QED  BY <2>2, <2>5, <3>1
  <2>7. Remains(i)
    BY <2>2, <2>3, <2>4, <2>5 DEF Remains, Waits
  <2>8. OnceIn(c', T)
    BY <2>1, <2>2, <2>3, <2>4, <2>5, <2>6 DEF Apart
  <2>9. Apart(AsksIn(i)', ChecksIn(i)', StashedIn(i)', MissesIn(i)', BackIn(i)')
    BY <2>1, <2>2, <2>3, <2>4, <2>5 DEF Apart
  <2>. QED  BY <2>1, <2>4, <2>5, <2>7, <2>8, <2>9 DEF InOnePlace, T, v
<1>. QED  BY <1>15, <1>16 DEF ServedOn, Served

(* A tag check that is finished leaves the pipeline with what waits for it. *)
LEMMA CheckLeaves ==
  ASSUME Inv, Served, pc \in {"hit", "miss"}, loop.at <= loop.checks, FinishCheck
  PROVE  /\ Packet \in OwnedCheck /\ Packet.tr /\ Packet.deps \in SUBSET Ids
         /\ inflight_tag_check' \in Seq(OwnedCheck)
         /\ \A i \in Ids :
              LET T == CheckOf(i)
              IN  /\ ChecksIn(i) <=> SomeIn(inflight_tag_check', T) \/ i \in Packet.deps
                  /\ OnceIn(inflight_tag_check, T) =>
                       OnceIn(inflight_tag_check', T) /\ ~(SomeIn(inflight_tag_check', T) /\ i \in Packet.deps)
<1>. DEFINE s == inflight_tag_check
            n == loop.at
            e == s[n]
<1>1. s \in Seq(OwnedCheck) /\ n \in 1 .. Len(s) /\ Len(s) \in Nat /\ e.tr
  BY PacketIs DEF Inv, Served, Owned, Packet
<1>2. s' = RemoveAt(s, n)
  BY DEF FinishCheck
<1>3. e \in OwnedCheck
  BY <1>1, SeqParts
<1>. HIDE DEF n
<1>4. Without(s, s', n) /\ s' \in Seq(OwnedCheck)
  <2>. HIDE DEF s
  <2>1. Without(s, RemoveAt(s, n), n) /\ RemoveAt(s, n) \in Seq(OwnedCheck)
    BY <1>1, RemovedIsWithout
  <2>. QED  BY <1>2, <2>1 DEF s
<1>5. ASSUME NEW i \in Ids
      PROVE  LET T == CheckOf(i)
             IN  /\ SomeIn(s, T) <=> SomeIn(s', T) \/ i \in e.deps
                 /\ OnceIn(s, T) => OnceIn(s', T) /\ ~(SomeIn(s', T) /\ i \in e.deps)
  <2>. DEFINE T == CheckOf(i)
  <2>1. s[n] \in T <=> i \in e.deps
    BY <1>3 DEF CheckOf, OwnedCheck
  <2>. HIDE DEF T
  <2>2. /\ SomeIn(s, T) <=> SomeIn(s', T) \/ s[n] \in T
        /\ OnceIn(s, T) => OnceIn(s', T) /\ ~(SomeIn(s', T) /\ s[n] \in T)
    BY <1>1, <1>4, WithoutIn
  <2>. QED  BY <2>1, <2>2 DEF T
<1>6. Packet = e /\ e.deps \in SUBSET Ids
  BY <1>3 DEF Packet, n, OwnedCheck, CheckType, CheckFields
<1>. QED  BY <1>1, <1>3, <1>4, <1>5, <1>6 DEF ChecksIn

LEMMA TryHitServes ==
  ASSUME Inv, Served, TryHit
  PROVE  ServedOn
<1>. DEFINE e == Packet
            r == [addr |-> e.addr, v |-> e.v, deps |-> e.deps]
<1>1. /\ pc = "hit" /\ loop.at <= loop.checks /\ FinishCheck
      /\ chan' = Answer(e.to, r)
      /\ MSHR' = MSHR /\ inflight_writes' = inflight_writes /\ translation_stash' = translation_stash
  BY DEF TryHit, Checking
<1>2. /\ e \in OwnedCheck /\ e.deps \in SUBSET Ids /\ inflight_tag_check' \in Seq(OwnedCheck)
      /\ \A i \in Ids :
           /\ ChecksIn(i) <=> SomeIn(inflight_tag_check', CheckOf(i)) \/ i \in e.deps
           /\ OnceIn(inflight_tag_check, CheckOf(i)) =>
                /\ OnceIn(inflight_tag_check', CheckOf(i))
                /\ ~(SomeIn(inflight_tag_check', CheckOf(i)) /\ i \in e.deps)
  BY <1>1, CheckLeaves
<1>3. /\ r \in ResponseType /\ e.to \in SUBSET Uppers /\ r.deps = e.deps
      /\ \A i \in e.deps : Req[i].from \in e.to
  BY <1>2, AnswersAre DEF OwnedCheck, CheckType, CheckFields
<1>. HIDE DEF r, e
<1>4. /\ \A u \in Uppers : OwnedQueues(chan'[u], u)
      /\ \A i \in Ids :
           /\ Asks(chan'[Req[i].from], i) <=> AsksIn(i)
           /\ Back(chan'[Req[i].from], i) <=> BackIn(i) \/ i \in e.deps
           /\ /\ OnceInChannel(chan[Req[i].from], i)
              /\ i \in e.deps => ~AsksIn(i) /\ ~BackIn(i)
              => OnceInChannel(chan'[Req[i].from], i)
  <2>1. \A i \in r.deps : Req[i].from \in e.to
    BY <1>3
  <2>. QED  BY <1>1, <1>3, <2>1, AnswerServes DEF Inv, Served
<1>5. Owned'
  BY <1>1, <1>2, <1>4 DEF Served, Owned
<1>6. ASSUME NEW i \in Ids PROVE InOnePlace(i)' /\ Remains(i)
  <2>1. /\ AsksIn(i)' = Asks(chan'[Req[i].from], i) /\ BackIn(i)' = Back(chan'[Req[i].from], i)
        /\ ChecksIn(i)' = SomeIn(inflight_tag_check', CheckOf(i))
        /\ StashedIn(i)' = StashedIn(i) /\ MissesIn(i)' = MissesIn(i)
        /\ OnceIn(translation_stash, CheckOf(i))' = OnceIn(translation_stash, CheckOf(i))
        /\ OnceIn(MSHR, WaiterOf(i))' = OnceIn(MSHR, WaiterOf(i))
        /\ OnceInChannel(chan[Req[i].from], i)' = OnceInChannel(chan'[Req[i].from], i)
    BY <1>1 DEF AsksIn, BackIn, ChecksIn, StashedIn, MissesIn
  <2>2. InOnePlace(i) /\ Apart(AsksIn(i), ChecksIn(i), StashedIn(i), MissesIn(i), BackIn(i))
    BY DEF Served, InOnePlace
  <2>3. /\ AsksIn(i)' <=> AsksIn(i)
        /\ BackIn(i)' <=> BackIn(i) \/ i \in e.deps
        /\ ChecksIn(i) <=> ChecksIn(i)' \/ i \in e.deps
        /\ ~(ChecksIn(i)' /\ i \in e.deps)
        /\ OnceIn(inflight_tag_check, CheckOf(i))'
    BY <1>2, <1>4, <2>1, <2>2 DEF InOnePlace
  <2>4. OnceInChannel(chan[Req[i].from], i)'
    BY <1>4, <2>1, <2>2, <2>3 DEF InOnePlace, Apart
  <2>5. Remains(i)
    BY <2>1, <2>3 DEF Remains, Waits
  <2>6. Apart(AsksIn(i)', ChecksIn(i)', StashedIn(i)', MissesIn(i)', BackIn(i)')
    BY <2>1, <2>2, <2>3 DEF Apart
  <2>. QED  BY <2>1, <2>2, <2>3, <2>4, <2>5, <2>6 DEF InOnePlace
<1>. QED  BY <1>5, <1>6 DEF ServedOn, Served

(* Instructions that change from the pipeline to the MSHRs. *)
LEMMA MissedServed ==
  ASSUME Served, chan' = chan, translation_stash' = translation_stash,
         inflight_writes' \in Seq(UnownedFill),
         inflight_tag_check' \in Seq(OwnedCheck), MSHR' \in Seq(OwnedMiss), NEW D \in SUBSET Ids,
         \A i \in Ids :
           LET T == CheckOf(i)
               W == WaiterOf(i)
           IN  /\ ChecksIn(i) <=> SomeIn(inflight_tag_check', T) \/ i \in D
               /\ OnceIn(inflight_tag_check, T) =>
                    OnceIn(inflight_tag_check', T) /\ ~(SomeIn(inflight_tag_check', T) /\ i \in D)
               /\ SomeIn(MSHR', W) <=> MissesIn(i) \/ i \in D
               /\ OnceIn(MSHR, W) /\ ~(MissesIn(i) /\ i \in D) => OnceIn(MSHR', W)
  PROVE  ServedOn
<1>1. Owned'
  BY DEF Served, Owned
<1>2. ASSUME NEW i \in Ids PROVE InOnePlace(i)' /\ Remains(i)
  <2>1. /\ AsksIn(i)' = AsksIn(i) /\ BackIn(i)' = BackIn(i) /\ StashedIn(i)' = StashedIn(i)
        /\ ChecksIn(i)' = SomeIn(inflight_tag_check', CheckOf(i))
        /\ MissesIn(i)' = SomeIn(MSHR', WaiterOf(i))
        /\ OnceIn(translation_stash, CheckOf(i))' = OnceIn(translation_stash, CheckOf(i))
        /\ OnceInChannel(chan[Req[i].from], i)' = OnceInChannel(chan[Req[i].from], i)
    BY DEF AsksIn, BackIn, ChecksIn, StashedIn, MissesIn
  <2>2. InOnePlace(i) /\ Apart(AsksIn(i), ChecksIn(i), StashedIn(i), MissesIn(i), BackIn(i))
    BY DEF Served, InOnePlace
  <2>3. /\ ChecksIn(i) <=> ChecksIn(i)' \/ i \in D
        /\ ~(ChecksIn(i)' /\ i \in D)
        /\ MissesIn(i)' <=> MissesIn(i) \/ i \in D
        /\ OnceIn(inflight_tag_check, CheckOf(i))'
    BY <2>1, <2>2 DEF InOnePlace
  <2>4. OnceIn(MSHR, WaiterOf(i))'
    BY <2>1, <2>2, <2>3 DEF InOnePlace, Apart
  <2>5. Remains(i)
    BY <2>1, <2>3 DEF Remains, Waits
  <2>6. Apart(AsksIn(i)', ChecksIn(i)', StashedIn(i)', MissesIn(i)', BackIn(i)')
    BY <2>1, <2>2, <2>3 DEF Apart
  <2>. QED  BY <2>1, <2>2, <2>3, <2>4, <2>5, <2>6 DEF InOnePlace
<1>. QED  BY <1>1, <1>2 DEF ServedOn, Served

LEMMA EntryOwned ==
  ASSUME NEW e \in OwnedCheck, e.tr, NEW n \in {Unknown} \cup 0 .. FILL_LATENCY
  PROVE  /\ MissEntry(e, n) \in OwnedMiss
         /\ \A i \in Ids : MissEntry(e, n) \in WaiterOf(i) <=> i \in e.deps
<1>. DEFINE m == MissEntry(e, n)
<1>1. e \in CheckType /\ \A i \in e.deps : Req[i].from \in e.to
  BY DEF OwnedCheck
<1>2. m \in MissType /\ m.deps = e.deps /\ m.to = e.to
  BY <1>1, MissEntryIs
<1>. HIDE DEF m
<1>3. m \in OwnedMiss /\ \A i \in Ids : m \in WaiterOf(i) <=> i \in e.deps
  BY <1>1, <1>2 DEF OwnedMiss, WaiterOf
<1>. QED  BY <1>3 DEF m

LEMMA HandleWriteServes ==
  ASSUME Inv, Served, HandleWrite
  PROVE  ServedOn
<1>. DEFINE m == MissEntry(Packet, FILL_LATENCY)
<1>1. /\ pc = "miss" /\ loop.at <= loop.checks /\ FinishCheck /\ Packet.type = "WRITE"
      /\ inflight_writes' = Append(inflight_writes, m)
      /\ chan' = chan /\ MSHR' = MSHR /\ translation_stash' = translation_stash
  BY DEF HandleWrite, Checking, IsFill
<1>2. /\ Packet \in OwnedCheck /\ Packet.tr /\ Packet.deps \in SUBSET Ids
      /\ inflight_tag_check' \in Seq(OwnedCheck)
      /\ \A i \in Ids :
           /\ ChecksIn(i) <=> SomeIn(inflight_tag_check', CheckOf(i)) \/ i \in Packet.deps
           /\ OnceIn(inflight_tag_check, CheckOf(i)) =>
                /\ OnceIn(inflight_tag_check', CheckOf(i))
                /\ ~(SomeIn(inflight_tag_check', CheckOf(i)) /\ i \in Packet.deps)
  BY <1>1, CheckLeaves
<1>3. Packet.deps = {} /\ Packet \in CheckType
  BY <1>1, <1>2 DEF OwnedCheck
<1>4. m \in UnownedFill
  <2>1. FILL_LATENCY \in Nat /\ FILL_LATENCY \in {Unknown} \cup 0 .. FILL_LATENCY /\ FILL_LATENCY # Unknown
    BY Constants DEF Unknown
  <2>2. m \in MissType /\ m.ready = FILL_LATENCY /\ m.type = "WRITE" /\ m.deps = {}
    BY <1>1, <1>2, <1>3, <2>1, MissEntryIs
  <2>. QED  BY <2>1, <2>2 DEF UnownedFill, FillType
<1>. HIDE DEF m
<1>5. inflight_writes' \in Seq(UnownedFill) /\ MSHR' \in Seq(OwnedMiss)
  BY <1>1, <1>4, AppendIs DEF Served, Owned
<1>6. \A i \in Ids : /\ SomeIn(MSHR', WaiterOf(i)) <=> MissesIn(i)
                     /\ OnceIn(MSHR, WaiterOf(i)) => OnceIn(MSHR', WaiterOf(i))
  BY <1>1 DEF MissesIn
<1>. DEFINE D == Packet.deps
<1>7. \A i \in Ids :
        /\ ChecksIn(i) <=> SomeIn(inflight_tag_check', CheckOf(i)) \/ i \in D
        /\ OnceIn(inflight_tag_check, CheckOf(i)) =>
             OnceIn(inflight_tag_check', CheckOf(i)) /\ ~(SomeIn(inflight_tag_check', CheckOf(i)) /\ i \in D)
        /\ SomeIn(MSHR', WaiterOf(i)) <=> MissesIn(i) \/ i \in D
        /\ OnceIn(MSHR, WaiterOf(i)) /\ ~(MissesIn(i) /\ i \in D) => OnceIn(MSHR', WaiterOf(i))
  BY <1>2, <1>3, <1>6
<1>8. D \in SUBSET Ids
  BY <1>2
<1>. HIDE DEF D
<1>. QED  BY <1>1, <1>2, <1>5, <1>7, <1>8, MissedServed

LEMMA MergeMissServes ==
  ASSUME Inv, Served, MergeMiss
  PROVE  ServedOn
<1>. DEFINE e == Packet
            n == MatchingMSHR(e.addr)
            x == merge(MSHR[n], MissEntry(e, Unknown))
<1>1. /\ pc = "miss" /\ loop.at <= loop.checks /\ FinishCheck /\ n # 0
      /\ MSHR' = [MSHR EXCEPT ![n] = x]
      /\ chan' = chan /\ inflight_writes' = inflight_writes /\ translation_stash' = translation_stash
  BY DEF MergeMiss, Checking
<1>2. /\ e \in OwnedCheck /\ e.tr /\ e.deps \in SUBSET Ids
      /\ inflight_tag_check' \in Seq(OwnedCheck)
      /\ \A i \in Ids :
           /\ ChecksIn(i) <=> SomeIn(inflight_tag_check', CheckOf(i)) \/ i \in e.deps
           /\ OnceIn(inflight_tag_check, CheckOf(i)) =>
                /\ OnceIn(inflight_tag_check', CheckOf(i))
                /\ ~(SomeIn(inflight_tag_check', CheckOf(i)) /\ i \in e.deps)
  BY <1>1, CheckLeaves
<1>3. /\ MSHR \in Seq(OwnedMiss) /\ Len(MSHR) \in Nat /\ e \in CheckType /\ e.addr \in Addr
      /\ \A i \in e.deps : Req[i].from \in e.to
  BY <1>2, SeqParts DEF Served, Owned, OwnedCheck, CheckType, CheckFields
<1>4. n \in 1 .. Len(MSHR) /\ SameBlock(MSHR[n].addr, e.addr)
  <2>1. n \in 0 .. Len(MSHR) /\ SameBlock(MSHR[n].addr, e.addr)
    BY <1>1, <1>3, FirstMSHR DEF Inv
  <2>. QED  BY <1>1, <1>3, <2>1
<1>5. MSHR[n] \in OwnedMiss /\ MSHR[n] \in MissType
  <2>1. MSHR[n] \in OwnedMiss
    BY <1>3, <1>4, SeqParts
  <2>. QED  BY <2>1 DEF OwnedMiss
<1>6. x \in MissType /\ x.deps = MSHR[n].deps \cup e.deps /\ x.to = MSHR[n].to \cup e.to
  BY <1>2, <1>3, <1>4, <1>5, MergeIs
<1>. HIDE DEF x, n, e
<1>7. /\ x \in OwnedMiss
      /\ \A i \in Ids : x \in WaiterOf(i) <=> MSHR[n] \in WaiterOf(i) \/ i \in e.deps
  BY <1>3, <1>5, <1>6 DEF OwnedMiss, WaiterOf
<1>8. MSHR' \in Seq(OwnedMiss)
  BY <1>1, <1>3, <1>4, <1>7, ExceptSeq
<1>9. ASSUME NEW i \in Ids
      PROVE  LET W == WaiterOf(i)
             IN  /\ SomeIn(MSHR', W) <=> MissesIn(i) \/ i \in e.deps
                 /\ OnceIn(MSHR, W) /\ ~(MissesIn(i) /\ i \in e.deps) => OnceIn(MSHR', W)
  <2>. DEFINE W == WaiterOf(i)
  <2>1. MissesIn(i) = SomeIn(MSHR, W)
    BY DEF MissesIn
  <2>2. x \in W <=> MSHR[n] \in W \/ i \in e.deps
    BY <1>7
  <2>3. i \in e.deps => ~MissesIn(i)
    BY <1>2 DEF Served, InOnePlace, Apart
  <2>. HIDE DEF W
  <2>4. /\ (x \in W <=> MSHR[n] \in W) =>
             (SomeIn(MSHR', W) <=> SomeIn(MSHR, W)) /\ (OnceIn(MSHR, W) => OnceIn(MSHR', W))
        /\ x \in W /\ ~SomeIn(MSHR, W) => SomeIn(MSHR', W) /\ OnceIn(MSHR', W)
    BY <1>1, <1>3, <1>4, <1>7, ReplacedIn
  <2>5. CASE i \in e.deps
    BY <2>1, <2>2, <2>3, <2>4, <2>5 DEF W
  <2>6. CASE i \notin e.deps
    BY <2>1, <2>2, <2>4, <2>6 DEF W
  <2>. QED  BY <2>5, <2>6
<1>10. inflight_writes' \in Seq(UnownedFill)
  BY <1>1 DEF Served, Owned
<1>. DEFINE D == e.deps
<1>11. \A i \in Ids :
        /\ ChecksIn(i) <=> SomeIn(inflight_tag_check', CheckOf(i)) \/ i \in D
        /\ OnceIn(inflight_tag_check, CheckOf(i)) =>
             OnceIn(inflight_tag_check', CheckOf(i)) /\ ~(SomeIn(inflight_tag_check', CheckOf(i)) /\ i \in D)
        /\ SomeIn(MSHR', WaiterOf(i)) <=> MissesIn(i) \/ i \in D
        /\ OnceIn(MSHR, WaiterOf(i)) /\ ~(MissesIn(i) /\ i \in D) => OnceIn(MSHR', WaiterOf(i))
  BY <1>2, <1>9
<1>12. D \in SUBSET Ids
  BY <1>2
<1>. HIDE DEF D
<1>. QED  BY <1>1, <1>2, <1>8, <1>10, <1>11, <1>12, MissedServed

LEMMA ForwardMissServes ==
  ASSUME Inv, Served, ForwardMiss
  PROVE  ServedOn
<1>. DEFINE e == Packet
            x == MissEntry(e, Unknown)
<1>1. /\ pc = "miss" /\ loop.at <= loop.checks /\ FinishCheck
      /\ MSHR' = IF ResponseRequested(e) THEN Append(MSHR, x) ELSE MSHR
      /\ chan' = chan /\ inflight_writes' = inflight_writes /\ translation_stash' = translation_stash
  BY DEF ForwardMiss, Checking
<1>2. /\ e \in OwnedCheck /\ e.tr /\ e.deps \in SUBSET Ids
      /\ inflight_tag_check' \in Seq(OwnedCheck)
      /\ \A i \in Ids :
           /\ ChecksIn(i) <=> SomeIn(inflight_tag_check', CheckOf(i)) \/ i \in e.deps
           /\ OnceIn(inflight_tag_check, CheckOf(i)) =>
                /\ OnceIn(inflight_tag_check', CheckOf(i))
                /\ ~(SomeIn(inflight_tag_check', CheckOf(i)) /\ i \in e.deps)
  BY <1>1, CheckLeaves
<1>3. x \in OwnedMiss /\ \A i \in Ids : x \in WaiterOf(i) <=> i \in e.deps
  <2>1. Unknown \in {Unknown} \cup 0 .. FILL_LATENCY
    OBVIOUS
  <2>. QED  BY <1>2, <2>1, EntryOwned
<1>4. ~ResponseRequested(e) => e.deps = {}
  BY <1>2 DEF ResponseRequested, OwnedCheck
<1>5. MSHR \in Seq(OwnedMiss) /\ inflight_writes' \in Seq(UnownedFill)
  BY <1>1 DEF Served, Owned
<1>. HIDE DEF x, e
<1>6. MSHR' \in Seq(OwnedMiss)
  BY <1>1, <1>3, <1>5, AppendIs
<1>7. ASSUME NEW i \in Ids
      PROVE  LET W == WaiterOf(i)
             IN  /\ SomeIn(MSHR', W) <=> MissesIn(i) \/ i \in e.deps
                 /\ OnceIn(MSHR, W) /\ ~(MissesIn(i) /\ i \in e.deps) => OnceIn(MSHR', W)
  <2>. DEFINE W == WaiterOf(i)
  <2>1. MissesIn(i) = SomeIn(MSHR, W)
    BY DEF MissesIn
  <2>2. x \in W <=> i \in e.deps
    BY <1>3
  <2>. HIDE DEF W
  <2>3. /\ SomeIn(Append(MSHR, x), W) <=> SomeIn(MSHR, W) \/ x \in W
        /\ OnceIn(MSHR, W) /\ ~(SomeIn(MSHR, W) /\ x \in W) => OnceIn(Append(MSHR, x), W)
    BY <1>3, <1>5, AppendIn
  <2>4. CASE ResponseRequested(e)
    BY <1>1, <2>1, <2>2, <2>3, <2>4 DEF W
  <2>5. CASE ~ResponseRequested(e)
    BY <1>1, <1>4, <2>1, <2>5 DEF W
  <2>. QED  BY <2>4, <2>5
<1>. DEFINE D == e.deps
<1>8. \A i \in Ids :
        /\ ChecksIn(i) <=> SomeIn(inflight_tag_check', CheckOf(i)) \/ i \in D
        /\ OnceIn(inflight_tag_check, CheckOf(i)) =>
             OnceIn(inflight_tag_check', CheckOf(i)) /\ ~(SomeIn(inflight_tag_check', CheckOf(i)) /\ i \in D)
        /\ SomeIn(MSHR', WaiterOf(i)) <=> MissesIn(i) \/ i \in D
        /\ OnceIn(MSHR, WaiterOf(i)) /\ ~(MissesIn(i) /\ i \in D) => OnceIn(MSHR', WaiterOf(i))
  BY <1>2, <1>7
<1>9. D \in SUBSET Ids
  BY <1>2
<1>. HIDE DEF D
<1>. QED  BY <1>1, <1>2, <1>5, <1>6, <1>8, <1>9, MissedServed

(* The answer of a filled entry. *)
LEMMA FillAnswers ==
  ASSUME Typed, Owned, NEW m \in OwnedMiss, NEW w, handle_fill(m, w)
  PROVE  /\ m.deps \in SUBSET Ids
         /\ \A u \in Uppers : OwnedQueues(chan'[u], u)
         /\ \A i \in Ids :
              /\ Asks(chan'[Req[i].from], i) <=> AsksIn(i)
              /\ Back(chan'[Req[i].from], i) <=> BackIn(i) \/ i \in m.deps
              /\ /\ OnceInChannel(chan[Req[i].from], i)
                 /\ i \in m.deps => ~AsksIn(i) /\ ~BackIn(i)
                 => OnceInChannel(chan'[Req[i].from], i)
<1>. DEFINE r == [addr |-> m.addr, v |-> m.v, deps |-> m.deps]
<1>1. chan' = Answer(m.to, r)
  BY DEF handle_fill
<1>2. m \in MissType /\ m.deps \in SUBSET Ids /\ m.to \in SUBSET Uppers /\ \A i \in m.deps : Req[i].from \in m.to
  BY DEF OwnedMiss, MissType, MissFields
<1>3. r \in ResponseType /\ r.deps = m.deps
  BY <1>2, AnswersAre
<1>. HIDE DEF r
<1>4. \A i \in r.deps : Req[i].from \in m.to
  BY <1>2, <1>3
<1>. QED  BY <1>1, <1>2, <1>3, <1>4, AnswerServes

LEMMA FillFromMSHRServes ==
  ASSUME Inv, Served, FillFromMSHR
  PROVE  ServedOn
<1>. DEFINE m == Head(MSHR)
<1>1. /\ MSHR # <<>> /\ MSHR' = Tail(MSHR)
      /\ \E w \in Victims(m) : handle_fill(m, w)
      /\ inflight_writes' = inflight_writes /\ inflight_tag_check' = inflight_tag_check
      /\ translation_stash' = translation_stash
  BY DEF FillFromMSHR, ReadyToFill
<1>2. MSHR \in Seq(OwnedMiss) /\ Len(MSHR) \in Nat
  BY SeqParts DEF Served, Owned
<1>3. Without(MSHR, MSHR', 1) /\ 1 \in 1 .. Len(MSHR) /\ m = MSHR[1] /\ m \in OwnedMiss /\ MSHR' \in Seq(OwnedMiss)
  BY <1>1, <1>2, TailIsWithout
<1>. HIDE DEF m
<1>4. /\ m.deps \in SUBSET Ids
      /\ \A u \in Uppers : OwnedQueues(chan'[u], u)
      /\ \A i \in Ids :
           /\ Asks(chan'[Req[i].from], i) <=> AsksIn(i)
           /\ Back(chan'[Req[i].from], i) <=> BackIn(i) \/ i \in m.deps
           /\ /\ OnceInChannel(chan[Req[i].from], i)
              /\ i \in m.deps => ~AsksIn(i) /\ ~BackIn(i)
              => OnceInChannel(chan'[Req[i].from], i)
  BY <1>1, <1>3, FillAnswers DEF Inv, Served
<1>5. ASSUME NEW i \in Ids
      PROVE  LET W == WaiterOf(i)
             IN  /\ MissesIn(i) <=> SomeIn(MSHR', W) \/ i \in m.deps
                 /\ OnceIn(MSHR, W) => OnceIn(MSHR', W) /\ ~(SomeIn(MSHR', W) /\ i \in m.deps)
  <2>. DEFINE W == WaiterOf(i)
  <2>1. MSHR[1] \in W <=> i \in m.deps
    BY <1>3 DEF WaiterOf, OwnedMiss
  <2>. HIDE DEF W
  <2>2. /\ SomeIn(MSHR, W) <=> SomeIn(MSHR', W) \/ MSHR[1] \in W
        /\ OnceIn(MSHR, W) => OnceIn(MSHR', W) /\ ~(SomeIn(MSHR', W) /\ MSHR[1] \in W)
    BY <1>2, <1>3, WithoutIn
  <2>. QED  BY <2>1, <2>2 DEF W, MissesIn
<1>6. Owned'
  BY <1>1, <1>3, <1>4 DEF Served, Owned
<1>7. ASSUME NEW i \in Ids PROVE InOnePlace(i)' /\ Remains(i)
  <2>1. /\ AsksIn(i)' = Asks(chan'[Req[i].from], i) /\ BackIn(i)' = Back(chan'[Req[i].from], i)
        /\ ChecksIn(i)' = ChecksIn(i) /\ StashedIn(i)' = StashedIn(i)
        /\ MissesIn(i)' = SomeIn(MSHR', WaiterOf(i))
        /\ OnceIn(inflight_tag_check, CheckOf(i))' = OnceIn(inflight_tag_check, CheckOf(i))
        /\ OnceIn(translation_stash, CheckOf(i))' = OnceIn(translation_stash, CheckOf(i))
        /\ OnceInChannel(chan[Req[i].from], i)' = OnceInChannel(chan'[Req[i].from], i)
    BY <1>1 DEF AsksIn, BackIn, ChecksIn, StashedIn, MissesIn
  <2>2. InOnePlace(i) /\ Apart(AsksIn(i), ChecksIn(i), StashedIn(i), MissesIn(i), BackIn(i))
    BY DEF Served, InOnePlace
  <2>3. /\ AsksIn(i)' <=> AsksIn(i)
        /\ BackIn(i)' <=> BackIn(i) \/ i \in m.deps
        /\ MissesIn(i) <=> MissesIn(i)' \/ i \in m.deps
        /\ ~(MissesIn(i)' /\ i \in m.deps)
        /\ OnceIn(MSHR, WaiterOf(i))'
    BY <1>4, <1>5, <2>1, <2>2 DEF InOnePlace
  <2>4. OnceInChannel(chan[Req[i].from], i)'
    BY <1>4, <2>1, <2>2, <2>3 DEF InOnePlace, Apart
  <2>5. Remains(i)
    BY <2>1, <2>3 DEF Remains, Waits
  <2>6. Apart(AsksIn(i)', ChecksIn(i)', StashedIn(i)', MissesIn(i)', BackIn(i)')
    BY <2>1, <2>2, <2>3 DEF Apart
  <2>. QED  BY <2>1, <2>2, <2>3, <2>4, <2>5, <2>6 DEF InOnePlace
<1>. QED  BY <1>6, <1>7 DEF ServedOn, Served

LEMMA FillFromWritesServes ==
  ASSUME Inv, Served, FillFromWrites
  PROVE  ServedOn
<1>. DEFINE m == Head(inflight_writes)
<1>1. /\ inflight_writes # <<>> /\ inflight_writes' = Tail(inflight_writes)
      /\ \E w \in Victims(m) : handle_fill(m, w)
      /\ MSHR' = MSHR /\ inflight_tag_check' = inflight_tag_check
      /\ translation_stash' = translation_stash
  BY DEF FillFromWrites, ReadyToFill
<1>2. m \in UnownedFill /\ inflight_writes' \in Seq(UnownedFill)
  BY <1>1, TailIsWithout DEF Served, Owned
<1>. HIDE DEF m
<1>3. m \in OwnedMiss /\ m.deps = {}
  BY <1>2 DEF UnownedFill, OwnedMiss, FillType
<1>4. /\ \A u \in Uppers : OwnedQueues(chan'[u], u)
      /\ \A i \in Ids :
           /\ Asks(chan'[Req[i].from], i) <=> AsksIn(i)
           /\ Back(chan'[Req[i].from], i) <=> BackIn(i) \/ i \in m.deps
           /\ /\ OnceInChannel(chan[Req[i].from], i)
              /\ i \in m.deps => ~AsksIn(i) /\ ~BackIn(i)
              => OnceInChannel(chan'[Req[i].from], i)
  BY <1>1, <1>3, FillAnswers DEF Inv, Served
<1>5. Owned'
  BY <1>1, <1>2, <1>4 DEF Served, Owned
<1>6. ASSUME NEW i \in Ids PROVE InOnePlace(i)' /\ Remains(i)
  <2>1. /\ AsksIn(i)' = Asks(chan'[Req[i].from], i) /\ BackIn(i)' = Back(chan'[Req[i].from], i)
        /\ ChecksIn(i)' = ChecksIn(i) /\ StashedIn(i)' = StashedIn(i) /\ MissesIn(i)' = MissesIn(i)
        /\ OnceIn(inflight_tag_check, CheckOf(i))' = OnceIn(inflight_tag_check, CheckOf(i))
        /\ OnceIn(translation_stash, CheckOf(i))' = OnceIn(translation_stash, CheckOf(i))
        /\ OnceIn(MSHR, WaiterOf(i))' = OnceIn(MSHR, WaiterOf(i))
        /\ OnceInChannel(chan[Req[i].from], i)' = OnceInChannel(chan'[Req[i].from], i)
    BY <1>1 DEF AsksIn, BackIn, ChecksIn, StashedIn, MissesIn
  <2>2. InOnePlace(i) /\ Apart(AsksIn(i), ChecksIn(i), StashedIn(i), MissesIn(i), BackIn(i))
    BY DEF Served, InOnePlace
  <2>3. (AsksIn(i)' <=> AsksIn(i)) /\ (BackIn(i)' <=> BackIn(i)) /\ OnceInChannel(chan[Req[i].from], i)'
    BY <1>3, <1>4, <2>1, <2>2 DEF InOnePlace
  <2>4. Remains(i)
    BY <2>1, <2>3 DEF Remains, Waits
  <2>5. Apart(AsksIn(i)', ChecksIn(i)', StashedIn(i)', MissesIn(i)', BackIn(i)')
    BY <2>1, <2>2, <2>3 DEF Apart
  <2>. QED  BY <2>1, <2>2, <2>3, <2>4, <2>5 DEF InOnePlace
<1>. QED  BY <1>5, <1>6 DEF ServedOn, Served

(* Whatever operate does next. *)
LEMMA OperateServes ==
  ASSUME Inv, Served, Operate
  PROVE  ServedOn
<1>1. CASE StartFills \/ EndFills(MSHR, "fill MSHR", "fill writes")
             \/ EndFills(inflight_writes, "fill writes", "initiate") \/ StartMisses \/ TryMiss \/ RetryMiss
  <2>1. UNCHANGED <<chan, inflight_tag_check, translation_stash, MSHR, inflight_writes>>
    BY <1>1 DEF StartFills, EndFills, StartMisses, TryMiss, RetryMiss, NextCheck, cacheVars
  <2>. QED  BY <2>1, UnmovedServed
<1>2. CASE CheckCollisions
  BY <1>2, CheckCollisionsServes
<1>3. CASE FinishPacket
  BY <1>3, FinishPacketServes
<1>4. CASE FinishTranslation
  BY <1>4, FinishTranslationServes
<1>5. CASE FillFromMSHR
  BY <1>5, FillFromMSHRServes
<1>6. CASE FillFromWrites
  BY <1>6, FillFromWritesServes
<1>7. CASE InitiateFromStash
  BY <1>7, InitiateFromStashServes
<1>8. CASE InitiateFromChannel
  BY <1>8, InitiateFromChannelServes
<1>9. CASE InitiateFromPrefetches
  BY <1>9, InitiateFromPrefetchesServes
<1>10. CASE IssueTranslation
  BY <1>10, IssueTranslationServes
<1>11. CASE StashUntranslated
  BY <1>11, StashUntranslatedServes
<1>12. CASE TryHit
  BY <1>12, TryHitServes
<1>13. CASE HandleWrite
  BY <1>13, HandleWriteServes
<1>14. CASE MergeMiss
  BY <1>14, MergeMissServes
<1>15. CASE ForwardMiss
  BY <1>15, ForwardMissServes
<1>16. CASE EndCycle
  BY <1>16, EndCycleServes
<1>. QED  BY <1>1, <1>2, <1>3, <1>4, <1>5, <1>6, <1>7, <1>8, <1>9, <1>10, <1>11, <1>12, <1>13, <1>14,
             <1>15, <1>16 DEF Operate

(* Only the channel of level u changes, to d. *)
LEMMA ChannelServed ==
  ASSUME Typed, Served, NEW u \in Uppers, NEW d, OwnedQueues(d, u), chan' = [chan EXCEPT ![u] = d],
         UNCHANGED <<inflight_tag_check, translation_stash, MSHR, inflight_writes>>,
         \A i \in Ids : Req[i].from = u =>
           OnceInChannel(d, i) /\ Apart(Asks(d, i), ChecksIn(i), StashedIn(i), MissesIn(i), Back(d, i))
  PROVE  /\ Served'
         /\ \A i \in Ids :
              /\ ChecksIn(i)' <=> ChecksIn(i)
              /\ StashedIn(i)' <=> StashedIn(i)
              /\ MissesIn(i)' <=> MissesIn(i)
              /\ IF Req[i].from = u THEN (AsksIn(i)' <=> Asks(d, i)) /\ (BackIn(i)' <=> Back(d, i))
                 ELSE (AsksIn(i)' <=> AsksIn(i)) /\ (BackIn(i)' <=> BackIn(i))
<1>1. \A w \in Uppers : chan'[w] = IF w = u THEN d ELSE chan[w]
  BY ChannelsAre
<1>2. Owned'
  <2>1. \A w \in Uppers : OwnedQueues(chan'[w], w)
    BY <1>1 DEF Served, Owned
  <2>. QED  BY <2>1 DEF Served, Owned
<1>3. ASSUME NEW i \in Ids
      PROVE  /\ InOnePlace(i)'
             /\ ChecksIn(i)' <=> ChecksIn(i)
             /\ StashedIn(i)' <=> StashedIn(i)
             /\ MissesIn(i)' <=> MissesIn(i)
             /\ IF Req[i].from = u THEN (AsksIn(i)' <=> Asks(d, i)) /\ (BackIn(i)' <=> Back(d, i))
                ELSE (AsksIn(i)' <=> AsksIn(i)) /\ (BackIn(i)' <=> BackIn(i))
  <2>. DEFINE w == Req[i].from
  <2>1. /\ AsksIn(i)' = Asks(chan'[w], i) /\ BackIn(i)' = Back(chan'[w], i)
        /\ AsksIn(i) = Asks(chan[w], i) /\ BackIn(i) = Back(chan[w], i)
        /\ ChecksIn(i)' = ChecksIn(i) /\ StashedIn(i)' = StashedIn(i) /\ MissesIn(i)' = MissesIn(i)
        /\ OnceIn(inflight_tag_check, CheckOf(i))' = OnceIn(inflight_tag_check, CheckOf(i))
        /\ OnceIn(translation_stash, CheckOf(i))' = OnceIn(translation_stash, CheckOf(i))
        /\ OnceIn(MSHR, WaiterOf(i))' = OnceIn(MSHR, WaiterOf(i))
        /\ OnceInChannel(chan[w], i)' = OnceInChannel(chan'[w], i)
    BY DEF AsksIn, BackIn, ChecksIn, StashedIn, MissesIn
  <2>2. InOnePlace(i)
    BY DEF Served
  <2>3. chan'[w] = IF w = u THEN d ELSE chan[w]
    BY <1>1, RequesterIs
  <2>4. /\ OnceInChannel(chan'[w], i)
        /\ Apart(Asks(chan'[w], i), ChecksIn(i), StashedIn(i), MissesIn(i), Back(chan'[w], i))
    BY <2>1, <2>2, <2>3 DEF InOnePlace
  <2>5. InOnePlace(i)'
    BY <2>1, <2>2, <2>4 DEF InOnePlace
  <2>. QED  BY <2>1, <2>3, <2>5
<1>. QED  BY <1>2, <1>3 DEF Served

(* do_add_queue appends request x to queue q of channel c, which becomes d. *)
LEMMA AddedIn ==
  ASSUME NEW c \in ChannelType, NEW u, OwnedQueues(c, u), NEW q \in QueueNames,
         NEW x \in IF q = "WQ" THEN WriteType ELSE ReadType(u),
         NEW d, Replaces(c, d, q, Append(c[q], x), c.returned)
  PROVE  /\ OwnedQueues(d, u)
         /\ \A i \in Ids :
              /\ Asks(d, i) <=> Asks(c, i) \/ i \in x.deps
              /\ Back(d, i) <=> Back(c, i)
              /\ OnceInChannel(c, i) /\ (i \in x.deps => ~Asks(c, i) /\ ~Back(c, i)) => OnceInChannel(d, i)
<1>. DEFINE S == IF q = "WQ" THEN WriteType ELSE ReadType(u)
            s == Append(c[q], x)
<1>1. c[q] \in Seq(S) /\ x \in S
  BY OwnedQueue
<1>2. x \in RequestType
  BY DEF WriteType, ReadType
<1>. HIDE DEF S
<1>3. s \in Seq(S)
  BY <1>1, AppendIs
<1>4. ASSUME NEW i \in Ids
      PROVE  /\ SomeIn(s, ReadOf(i)) <=> SomeIn(c[q], ReadOf(i)) \/ i \in x.deps
             /\ OnceIn(c[q], ReadOf(i)) /\ ~(SomeIn(c[q], ReadOf(i)) /\ i \in x.deps) => OnceIn(s, ReadOf(i))
  <2>1. x \in ReadOf(i) <=> i \in x.deps
    BY <1>2 DEF ReadOf
  <2>. DEFINE T == ReadOf(i)
  <2>. HIDE DEF T
  <2>2. /\ SomeIn(s, T) <=> SomeIn(c[q], T) \/ x \in T
        /\ OnceIn(c[q], T) /\ ~(SomeIn(c[q], T) /\ x \in T) => OnceIn(s, T)
    BY <1>1, AppendIn
  <2>. QED  BY <2>1, <2>2 DEF T
<1>5. /\ d \in ChannelType /\ d[q] = s /\ d.returned = c.returned
      /\ \A p \in QueueNames : p # q => d[p] = c[p]
  BY DEF Replaces
<1>. HIDE DEF s
<1>6. CASE q = "WQ"
  <2>1. d.WQ = s /\ d.RQ = c.RQ /\ d.PQ = c.PQ /\ x.deps = {}
    BY <1>5, <1>6 DEF QueueNames, WriteType
  <2>2. OwnedQueues(d, u)
    BY <1>3, <1>6, <2>1 DEF OwnedQueues, S
  <2>. QED  BY <1>5, <2>1, <2>2 DEF Asks, Back, OnceInChannel
<1>7. CASE q = "RQ"
  <2>1. d.RQ = s /\ d.WQ = c.WQ /\ d.PQ = c.PQ
    BY <1>5, <1>7 DEF QueueNames
  <2>2. OwnedQueues(d, u)
    BY <1>3, <1>7, <2>1 DEF OwnedQueues, S
  <2>. QED  BY <1>4, <1>5, <1>7, <2>1, <2>2 DEF Asks, Back, OnceInChannel
<1>8. CASE q = "PQ"
  <2>1. d.PQ = s /\ d.WQ = c.WQ /\ d.RQ = c.RQ
    BY <1>5, <1>8 DEF QueueNames
  <2>2. OwnedQueues(d, u)
    BY <1>3, <1>8, <2>1 DEF OwnedQueues, S
  <2>. QED  BY <1>4, <1>5, <1>8, <2>1, <2>2 DEF Asks, Back, OnceInChannel
<1>. QED  BY <1>6, <1>7, <1>8 DEF QueueNames

LEMMA AddServes ==
  ASSUME Inv, Served, NEW u \in Uppers, NEW q \in QueueNames, NEW r, Add(u, q, r),
         [r EXCEPT !.checked = FALSE] \in IF q = "WQ" THEN WriteType ELSE ReadType(u),
         NEW D \in SUBSET Ids, [r EXCEPT !.checked = FALSE].deps = D,
         \A i \in D : Req[i].from = u /\ ~Waits(i) /\ ~BackIn(i)
  PROVE  Served' /\ \A i \in Ids : (Waits(i)' <=> Waits(i) \/ i \in D) /\ (BackIn(i)' <=> BackIn(i))
<1>. DEFINE c == chan[u]
            x == [r EXCEPT !.checked = FALSE]
            s == Append(c[q], x)
            d == [c EXCEPT ![q] = s]
<1>1. c \in ChannelType /\ OwnedQueues(c, u) /\ Typed
  BY ChannelsAre DEF Inv, Served, Owned
<1>2. c[q] \in Seq(RequestType) /\ x \in RequestType
  BY <1>1, QueuesOf DEF WriteType, ReadType
<1>3. chan' = [chan EXCEPT ![u] = d]
  BY DEF Add, Added
<1>4. UNCHANGED <<inflight_tag_check, translation_stash, MSHR, inflight_writes>>
  BY DEF Add, cacheVars
<1>5. \A i \in Ids : Req[i].from = u => (AsksIn(i) <=> Asks(c, i)) /\ (BackIn(i) <=> Back(c, i))
  BY DEF AsksIn, BackIn
<1>6. ASSUME NEW i \in Ids, Req[i].from = u
      PROVE  OnceInChannel(c, i) /\ Apart(Asks(c, i), ChecksIn(i), StashedIn(i), MissesIn(i), Back(c, i))
  <2>1. InOnePlace(i)
    BY DEF Served
  <2>2. chan[Req[i].from] = c
    BY <1>6
  <2>. HIDE DEF c
  <2>3. OnceInChannel(c, i) /\ Apart(AsksIn(i), ChecksIn(i), StashedIn(i), MissesIn(i), BackIn(i))
    BY <2>1, <2>2 DEF InOnePlace
  <2>. QED  BY <2>2, <2>3 DEF AsksIn, BackIn
<1>7. x \in (IF q = "WQ" THEN WriteType ELSE ReadType(u)) /\ x.deps = D
  OBVIOUS
<1>. HIDE DEF x
<1>8. Replaces(c, d, q, s, c.returned)
  <2>1. s \in Seq(RequestType)
    BY <1>2, AppendIs
  <2>. HIDE DEF s, c
  <2>. QED  BY <1>1, <2>1, QueuesOf, QueueReplaced
<1>. HIDE DEF c, d
<1>9. /\ OwnedQueues(d, u)
      /\ \A i \in Ids :
           /\ Asks(d, i) <=> Asks(c, i) \/ i \in D
           /\ Back(d, i) <=> Back(c, i)
           /\ OnceInChannel(c, i) /\ (i \in D => ~Asks(c, i) /\ ~Back(c, i)) => OnceInChannel(d, i)
  BY <1>1, <1>7, <1>8, AddedIn
<1>10. ASSUME NEW i \in Ids, Req[i].from = u
       PROVE  OnceInChannel(d, i) /\ Apart(Asks(d, i), ChecksIn(i), StashedIn(i), MissesIn(i), Back(d, i))
  <2>1. i \in D => ~Asks(c, i) /\ ~Back(c, i) /\ ~ChecksIn(i) /\ ~StashedIn(i) /\ ~MissesIn(i)
    BY <1>5, <1>10 DEF Waits
  <2>. QED  BY <1>6, <1>9, <1>10, <2>1 DEF Apart
<1>11. /\ Served'
       /\ \A i \in Ids :
            /\ ChecksIn(i)' <=> ChecksIn(i)
            /\ StashedIn(i)' <=> StashedIn(i)
            /\ MissesIn(i)' <=> MissesIn(i)
            /\ IF Req[i].from = u THEN (AsksIn(i)' <=> Asks(d, i)) /\ (BackIn(i)' <=> Back(d, i))
               ELSE (AsksIn(i)' <=> AsksIn(i)) /\ (BackIn(i)' <=> BackIn(i))
  BY <1>1, <1>3, <1>4, <1>9, <1>10, ChannelServed
<1>12. ASSUME NEW i \in Ids
       PROVE  (Waits(i)' <=> Waits(i) \/ i \in D) /\ (BackIn(i)' <=> BackIn(i))
  <2>1. Waits(i)' = (AsksIn(i)' \/ ChecksIn(i)' \/ StashedIn(i)' \/ MissesIn(i)')
    BY DEF Waits
  <2>2. i \in D => Req[i].from = u
    OBVIOUS
  <2>3. /\ AsksIn(i)' <=> AsksIn(i) \/ i \in D
        /\ BackIn(i)' <=> BackIn(i)
    BY <1>5, <1>9, <1>11, <2>2
  <2>. QED  BY <1>11, <2>1, <2>3 DEF Waits
<1>. QED  BY <1>11, <1>12

LEMMA UpperReadServes ==
  ASSUME Inv, Served, NEW i \in Ids, UpperRead(i), ~Waits(i), ~BackIn(i)
  PROVE  /\ Served'
         /\ \A j \in Ids : (Waits(j)' <=> Waits(j) \/ j = i) /\ (BackIn(j)' <=> BackIn(j))
<1>. DEFINE r == Request(Req[i], TRUE, {i})
            x == [r EXCEPT !.checked = FALSE]
            u == Req[i].from
            q == Req[i].queue
<1>1. Req[i] \in [from : Uppers, queue : {"RQ", "PQ"}, type : Kind \ {"WRITE"}, addr : Addr,
                  tr : BOOLEAN]
  BY RequestsAssumption
<1>2. u \in Uppers /\ q \in QueueNames /\ q # "WQ" /\ Req[i].type # "WRITE"
  BY <1>1 DEF QueueNames
<1>3. x.resp /\ x.type = Req[i].type /\ x.deps = {i}
  BY DEF Request
<1>4. x \in RequestType
  BY ReadIs
<1>5. Add(u, q, r)
  BY DEF UpperRead
<1>. HIDE DEF x, u, q
<1>6. x \in ReadType(u)
  BY <1>2, <1>3, <1>4 DEF ReadType, u
<1>7. /\ x \in IF q = "WQ" THEN WriteType ELSE ReadType(u)
      /\ {i} \in SUBSET Ids
      /\ \A j \in {i} : Req[j].from = u /\ ~Waits(j) /\ ~BackIn(j)
  BY <1>2, <1>6 DEF u
<1>8. /\ Served'
      /\ \A j \in Ids : (Waits(j)' <=> Waits(j) \/ j \in {i}) /\ (BackIn(j)' <=> BackIn(j))
  <2>. HIDE DEF r
  <2>. QED  BY <1>2, <1>3, <1>5, <1>7, AddServes DEF x
<1>. QED  BY <1>8

LEMMA UpperWriteServes ==
  ASSUME Inv, Served, NEW w \in Writes, UpperWrite(w)
  PROVE  ServedOn
<1>. DEFINE r == Request(w, FALSE, {})
            x == [r EXCEPT !.checked = FALSE]
            u == w.from
<1>1. x \in RequestType /\ u \in Uppers /\ "WQ" \in QueueNames
  BY WriteIs DEF QueueNames
<1>2. x.deps = {}
  BY DEF Request
<1>3. Add(u, "WQ", r)
  BY DEF UpperWrite
<1>. HIDE DEF r, x, u
<1>4. x \in WriteType
  BY <1>1, <1>2 DEF WriteType
<1>5. Served' /\ \A i \in Ids : (Waits(i)' <=> Waits(i) \/ i \in {}) /\ (BackIn(i)' <=> BackIn(i))
  <2>1. {} \in SUBSET Ids /\ \A i \in {} : Req[i].from = u /\ ~Waits(i) /\ ~BackIn(i)
    OBVIOUS
  <2>2. x \in IF "WQ" = "WQ" THEN WriteType ELSE ReadType(u)
    BY <1>4
  <2>. QED  BY <1>1, <1>2, <1>3, <2>1, <2>2, AddServes DEF x
<1>. QED  BY <1>5 DEF ServedOn, Remains

(* What the level above collects is no longer there to be collected. *)
LEMMA UpperCollectServes ==
  ASSUME Inv, Served, NEW u \in Uppers, UpperCollect(u)
  PROVE  Served' /\ \A i \in Ids : (Waits(i)' <=> Waits(i)) /\ (BackIn(i)' => BackIn(i))
<1>. DEFINE c == chan[u]
            t == Tail(c.returned)
            d == [c EXCEPT !.returned = t]
<1>1. c \in ChannelType /\ OwnedQueues(c, u) /\ Typed
  BY ChannelsAre DEF Inv, Served, Owned
<1>2. c.returned \in Seq(ResponseType) /\ c.returned # <<>>
  BY <1>1, QueuesOf DEF UpperCollect
<1>3. chan' = [chan EXCEPT ![u] = d]
  BY DEF UpperCollect
<1>4. UNCHANGED <<inflight_tag_check, translation_stash, MSHR, inflight_writes>>
  BY DEF UpperCollect, cacheVars
<1>5. \A i \in Ids : Req[i].from = u => (AsksIn(i) <=> Asks(c, i)) /\ (BackIn(i) <=> Back(c, i))
  BY DEF AsksIn, BackIn
<1>6. ASSUME NEW i \in Ids, Req[i].from = u
      PROVE  OnceInChannel(c, i) /\ Apart(Asks(c, i), ChecksIn(i), StashedIn(i), MissesIn(i), Back(c, i))
  <2>1. InOnePlace(i)
    BY DEF Served
  <2>2. chan[Req[i].from] = c
    BY <1>6
  <2>. HIDE DEF c
  <2>3. OnceInChannel(c, i) /\ Apart(AsksIn(i), ChecksIn(i), StashedIn(i), MissesIn(i), BackIn(i))
    BY <2>1, <2>2 DEF InOnePlace
  <2>. QED  BY <2>2, <2>3 DEF AsksIn, BackIn
<1>7. /\ Without(c.returned, t, 1) /\ Len(c.returned) \in Nat /\ 1 \in 1 .. Len(c.returned)
  BY <1>2, TailIsWithout, SeqParts
<1>8. d.WQ = c.WQ /\ d.RQ = c.RQ /\ d.PQ = c.PQ /\ d.returned = t
  BY <1>1 DEF ChannelType
<1>. HIDE DEF c, d, t
<1>9. OwnedQueues(d, u)
  BY <1>1, <1>8 DEF OwnedQueues
<1>10. ASSUME NEW i \in Ids
       PROVE  /\ Asks(d, i) <=> Asks(c, i)
              /\ Back(d, i) => Back(c, i)
              /\ OnceInChannel(c, i) => OnceInChannel(d, i)
  <2>1. /\ SomeIn(t, BackOf(i)) => SomeIn(c.returned, BackOf(i))
        /\ OnceIn(c.returned, BackOf(i)) => OnceIn(t, BackOf(i))
    BY <1>7, WithoutIn
  <2>. QED  BY <1>8, <2>1 DEF Asks, Back, OnceInChannel
<1>11. ASSUME NEW i \in Ids, Req[i].from = u
       PROVE  OnceInChannel(d, i) /\ Apart(Asks(d, i), ChecksIn(i), StashedIn(i), MissesIn(i), Back(d, i))
  BY <1>6, <1>10, <1>11 DEF Apart
<1>12. /\ Served'
       /\ \A i \in Ids :
            /\ ChecksIn(i)' <=> ChecksIn(i)
            /\ StashedIn(i)' <=> StashedIn(i)
            /\ MissesIn(i)' <=> MissesIn(i)
            /\ IF Req[i].from = u THEN (AsksIn(i)' <=> Asks(d, i)) /\ (BackIn(i)' <=> Back(d, i))
               ELSE (AsksIn(i)' <=> AsksIn(i)) /\ (BackIn(i)' <=> BackIn(i))
  BY <1>1, <1>3, <1>4, <1>9, <1>11, ChannelServed
<1>13. ASSUME NEW i \in Ids PROVE (Waits(i)' <=> Waits(i)) /\ (BackIn(i)' => BackIn(i))
  <2>1. Waits(i)' = (AsksIn(i)' \/ ChecksIn(i)' \/ StashedIn(i)' \/ MissesIn(i)')
    BY DEF Waits
  <2>2. (AsksIn(i)' <=> AsksIn(i)) /\ (BackIn(i)' => BackIn(i))
    BY <1>5, <1>10, <1>12
  <2>. QED  BY <1>12, <2>1, <2>2 DEF Waits
<1>. QED  BY <1>12, <1>13

-----------------------------------------------------------------------------
(* What the requests of MemService are: pending while they wait, answered   *)
(* when their response is there.                                           *)
LEMMA SetIn ==
  ASSUME NEW S, NEW s \in Seq(S), NEW T
  PROVE  /\ ToSet(s) \subseteq S
         /\ SomeIn(s, T) <=> \E x \in ToSet(s) : x \in T
<1>1. DOMAIN s = 1 .. Len(s) /\ \A k \in 1 .. Len(s) : s[k] \in S
  BY SeqParts
<1>2. \A x : x \in ToSet(s) <=> \E k \in 1 .. Len(s) : s[k] = x
  BY <1>1 DEF ToSet
<1>. QED  BY <1>1, <1>2 DEF SomeIn

Places == pending = {i \in Ids : Waits(i)} /\ answered = {i \in Ids : BackIn(i)}

LEMMA PlacesAre == Inv /\ Served => Places
<1>. SUFFICES ASSUME Inv, Served PROVE Places
  OBVIOUS
<1>1. ASSUME NEW i \in Ids
      PROVE  AsksIn(i) <=> \E r \in Queued(Req[i].from) : i \in r.deps /\ r.resp
  <2>. DEFINE u == Req[i].from
              a == chan[u].RQ
              b == chan[u].PQ
  <2>1. u \in Uppers
    BY RequesterIs
  <2>2. a \in Seq(ReadType(u)) /\ b \in Seq(ReadType(u))
    BY <2>1 DEF Served, Owned, OwnedQueues
  <2>3. AsksIn(i) <=> SomeIn(a, ReadOf(i)) \/ SomeIn(b, ReadOf(i))
    BY DEF AsksIn, Asks
  <2>4. Queued(u) = ToSet(a \o b)
    BY DEF Queued
  <2>. HIDE DEF a, b, u
  <2>5. a \o b \in Seq(ReadType(u)) /\ (SomeIn(a \o b, ReadOf(i)) <=> SomeIn(a, ReadOf(i)) \/ SomeIn(b, ReadOf(i)))
    <3>. DEFINE R == ReadType(u)
                T == ReadOf(i)
    <3>1. a \in Seq(R) /\ b \in Seq(R)
      BY <2>2
    <3>. HIDE DEF R, T
    <3>2. a \o b \in Seq(R)
      BY <3>1, JoinIs
    <3>3. SomeIn(a \o b, T) <=> SomeIn(a, T) \/ SomeIn(b, T)
      BY <3>1, JoinIn
    <3>. QED  BY <3>2, <3>3 DEF R, T
  <2>6. /\ Queued(u) \subseteq ReadType(u)
        /\ SomeIn(a \o b, ReadOf(i)) <=> \E r \in Queued(u) : r \in ReadOf(i)
    <3>. DEFINE s == a \o b
    <3>1. s \in Seq(ReadType(u)) /\ Queued(u) = ToSet(s)
      BY <2>4, <2>5
    <3>. HIDE DEF s
    <3>2. ToSet(s) \subseteq ReadType(u) /\ (SomeIn(s, ReadOf(i)) <=> \E r \in ToSet(s) : r \in ReadOf(i))
      BY <3>1, SetIn
    <3>. QED  BY <3>1, <3>2 DEF s
  <2>7. \A r \in Queued(u) : r \in ReadOf(i) <=> i \in r.deps /\ r.resp
    BY <2>6 DEF ReadType, ReadOf
  <2>. QED  BY <2>3, <2>5, <2>6, <2>7 DEF u
<1>2. ASSUME NEW i \in Ids
      PROVE  ChecksIn(i) \/ StashedIn(i) <=>
               \E e \in ToSet(inflight_tag_check \o translation_stash) : i \in e.deps /\ Req[i].from \in e.to
  <2>. DEFINE s == inflight_tag_check \o translation_stash
  <2>1. /\ s \in Seq(OwnedCheck)
        /\ SomeIn(s, CheckOf(i)) <=> ChecksIn(i) \/ StashedIn(i)
    BY JoinIs, JoinIn DEF Served, Owned, ChecksIn, StashedIn
  <2>. HIDE DEF s
  <2>2. ToSet(s) \subseteq OwnedCheck /\ (SomeIn(s, CheckOf(i)) <=> \E e \in ToSet(s) : e \in CheckOf(i))
    BY <2>1, SetIn
  <2>3. \A e \in ToSet(s) : e \in CheckOf(i) <=> i \in e.deps /\ Req[i].from \in e.to
    BY <2>2 DEF OwnedCheck, CheckOf
  <2>. QED  BY <2>1, <2>2, <2>3 DEF s
<1>3. ASSUME NEW i \in Ids
      PROVE  MissesIn(i) <=> \E m \in ToSet(MSHR) : i \in m.deps /\ Req[i].from \in m.to
  <2>1. MSHR \in Seq(OwnedMiss)
    BY DEF Served, Owned
  <2>2. ToSet(MSHR) \subseteq OwnedMiss /\ (MissesIn(i) <=> \E m \in ToSet(MSHR) : m \in WaiterOf(i))
    BY <2>1, SetIn DEF MissesIn
  <2>3. \A m \in ToSet(MSHR) : m \in WaiterOf(i) <=> i \in m.deps /\ Req[i].from \in m.to
    BY <2>2 DEF OwnedMiss, WaiterOf
  <2>. QED  BY <2>2, <2>3
<1>4. ASSUME NEW i \in Ids PROVE BackIn(i) <=> i \in Returned(Req[i].from)
  <2>. DEFINE s == chan[Req[i].from].returned
  <2>1. s \in Seq(ResponseType)
    BY RequesterIs, ChannelsAre, QueuesOf DEF Inv
  <2>2. BackIn(i) <=> SomeIn(s, BackOf(i))
    BY DEF BackIn, Back
  <2>3. i \in Returned(Req[i].from) <=> \E r \in ToSet(s) : i \in r.deps
    BY DEF Returned
  <2>. HIDE DEF s
  <2>4. ToSet(s) \subseteq ResponseType /\ (SomeIn(s, BackOf(i)) <=> \E r \in ToSet(s) : r \in BackOf(i))
    BY <2>1, SetIn
  <2>5. \A r \in ToSet(s) : r \in BackOf(i) <=> i \in r.deps
    BY <2>4 DEF BackOf
  <2>. QED  BY <2>2, <2>3, <2>4, <2>5
<1>5. \A i \in Ids : i \in pending <=> Waits(i)
  <2>1. ASSUME NEW i \in Ids
        PROVE  i \in pending <=>
                 \/ \E r \in Queued(Req[i].from) : i \in r.deps /\ r.resp
                 \/ \E e \in ToSet(inflight_tag_check \o translation_stash) : i \in e.deps /\ Req[i].from \in e.to
                 \/ \E m \in ToSet(MSHR) : i \in m.deps /\ Req[i].from \in m.to
    BY Zenon DEF pending
  <2>. QED  BY <1>1, <1>2, <1>3, <2>1 DEF Waits
<1>6. \A i \in Ids : i \in answered <=> BackIn(i)
  BY <1>4 DEF answered
<1>7. pending \subseteq Ids /\ answered \subseteq Ids
  BY DEF pending, answered
<1>. QED  BY <1>5, <1>6, <1>7 DEF Places

ServiceStep == [Service!Next]_(Service!vars)

(* A step in which who waits is answered, a request is made, or what was    *)
(* answered is collected.                                                  *)
LEMMA RespondStep ==
  ASSUME Inv, Served, Inv', ServedOn, Places, Places'
  PROVE  ServiceStep
<1>. DEFINE S == answered' \ answered
<1>1. ASSUME NEW i \in Ids
      PROVE  /\ i \in pending <=> Waits(i)
             /\ i \in answered <=> BackIn(i)
             /\ i \in pending' <=> Waits(i)'
             /\ i \in answered' <=> BackIn(i)'
  BY DEF Places
<1>2. pending \subseteq Ids /\ answered \subseteq Ids /\ pending' \subseteq Ids /\ answered' \subseteq Ids
  BY DEF Places
<1>3. ASSUME NEW i \in Ids
      PROVE  /\ ~(Waits(i) /\ BackIn(i)) /\ ~(Waits(i)' /\ BackIn(i)')
             /\ Waits(i) \/ BackIn(i) <=> Waits(i)' \/ BackIn(i)'
             /\ BackIn(i) => BackIn(i)'
  <2>1. InOnePlace(i) /\ InOnePlace(i)' /\ Remains(i)
    BY DEF Served, ServedOn
  <2>2. ~(Waits(i) /\ BackIn(i))
    BY <2>1 DEF InOnePlace, Apart, Waits
  <2>3. Apart(AsksIn(i)', ChecksIn(i)', StashedIn(i)', MissesIn(i)', BackIn(i)')
    BY <2>1 DEF InOnePlace
  <2>4. Waits(i)' = (AsksIn(i)' \/ ChecksIn(i)' \/ StashedIn(i)' \/ MissesIn(i)')
    BY DEF Waits
  <2>. QED  BY <2>1, <2>2, <2>3, <2>4 DEF Apart, Remains
<1>4. /\ S \subseteq pending /\ S \subseteq Ids
      /\ pending' = pending \ S
      /\ answered' = answered \cup S
  BY <1>1, <1>2, <1>3
<1>5. CASE S = {}
  BY <1>4, <1>5 DEF ServiceStep, Service!vars
<1>6. CASE S # {}
  <2>1. Service!Respond(S)
    BY <1>4, <1>6 DEF Service!Respond
  <2>. QED  BY <1>4, <2>1 DEF ServiceStep, Service!Next
<1>. QED  BY <1>5, <1>6

LEMMA ReadStep ==
  ASSUME Inv, Served, NEW i \in Ids, UpperRead(i), Places
  PROVE  Served' /\ (Places' => ServiceStep)
<1>1. i \notin pending \cup answered
  BY DEF UpperRead
<1>2. ~Waits(i) /\ ~BackIn(i)
  BY <1>1 DEF Places
<1>3. /\ Served'
      /\ \A j \in Ids : (Waits(j)' <=> Waits(j) \/ j = i) /\ (BackIn(j)' <=> BackIn(j))
  BY <1>2, UpperReadServes
<1>4. ASSUME Places' PROVE ServiceStep
  <2>1. pending' = pending \cup {i} /\ answered' = answered
    BY <1>3, <1>4 DEF Places
  <2>2. Service!Request(i)
    BY <1>1, <2>1 DEF Service!Request
  <2>. QED  BY <2>2 DEF ServiceStep, Service!Next
<1>. QED  BY <1>3, <1>4

LEMMA CollectStep ==
  ASSUME Inv, Served, NEW u \in Uppers, UpperCollect(u), Places
  PROVE  Served' /\ (Places' => ServiceStep)
<1>1. Served' /\ \A i \in Ids : (Waits(i)' <=> Waits(i)) /\ (BackIn(i)' => BackIn(i))
  BY UpperCollectServes
<1>2. ASSUME Places' PROVE ServiceStep
  <2>. DEFINE S == answered \ answered'
  <2>1. /\ pending' = pending /\ answered' = answered \ S /\ S \subseteq answered /\ S \subseteq Ids
    BY <1>1, <1>2 DEF Places
  <2>2. CASE S = {}
    BY <2>1, <2>2 DEF ServiceStep, Service!vars
  <2>3. CASE S # {}
    <3>1. Service!Collect(S)
      BY <2>1, <2>3 DEF Service!Collect
    <3>. QED  BY <2>1, <3>1 DEF ServiceStep, Service!Next
  <2>. QED  BY <2>2, <2>3
<1>. QED  BY <1>1, <1>2

LEMMA ServedSteps ==
  ASSUME Inv, Served, Inv', Places, Served' => Places', [Next]_vars
  PROVE  Served' /\ ServiceStep
<1>1. ASSUME ServedOn PROVE Served' /\ ServiceStep
  BY <1>1, RespondStep DEF ServedOn
<1>2. CASE Operate
  BY <1>1, <1>2, OperateServes
<1>3. ASSUME NEW i \in Ids, UpperRead(i) PROVE Served' /\ ServiceStep
  BY <1>3, ReadStep
<1>4. ASSUME NEW w \in Writes, UpperWrite(w) PROVE Served' /\ ServiceStep
  BY <1>1, <1>4, UpperWriteServes
<1>5. ASSUME NEW u \in Uppers, UpperCollect(u) PROVE Served' /\ ServiceStep
  BY <1>5, CollectStep
<1>6. CASE \/ \E q \in {"RQ", "PQ"} : \E i \in DOMAIN lower[q] : LowerRead(q, i)
           \/ LowerWrite
           \/ \E i \in DOMAIN tlb.RQ : TlbAnswer(i)
           \/ UNCHANGED vars
  <2>1. /\ chan' = chan /\ inflight_tag_check' = inflight_tag_check
        /\ translation_stash' = translation_stash /\ MSHR' = MSHR /\ inflight_writes' = inflight_writes
    BY <1>6 DEF LowerRead, LowerWrite, TlbAnswer, vars, cacheVars
  <2>. QED  BY <1>1, <2>1, UnmovedServed
<1>. QED  BY <1>2, <1>3, <1>4, <1>5, <1>6 DEF Next, Around

LEMMA ServedInit == Init => Served
<1>. SUFFICES ASSUME Init PROVE Served
  OBVIOUS
<1>1. Len(<<>>) = 0 /\ \A S : <<>> \in Seq(S)
  BY EmptySeq
<1>2. ASSUME NEW u \in Uppers
      PROVE  chan[u].RQ = <<>> /\ chan[u].WQ = <<>> /\ chan[u].PQ = <<>> /\ chan[u].returned = <<>>
  BY DEF Init, EmptyChannel
<1>3. MSHR = <<>> /\ inflight_writes = <<>> /\ inflight_tag_check = <<>> /\ translation_stash = <<>>
  BY DEF Init
<1>4. Owned
  BY <1>1, <1>2, <1>3 DEF Owned, OwnedQueues
<1>5. \A T : ~SomeIn(<<>>, T) /\ OnceIn(<<>>, T)
  BY <1>1, EmptyIn
<1>6. ASSUME NEW i \in Ids PROVE InOnePlace(i)
  BY <1>2, <1>3, <1>5, RequesterIs
     DEF InOnePlace, OnceInChannel, Apart, Asks, Back, AsksIn, BackIn, ChecksIn, StashedIn, MissesIn
<1>. QED  BY <1>4, <1>6 DEF Served

LEMMA ServiceInit == Init => Service!Init
<1>. SUFFICES ASSUME Init PROVE Service!Init
  OBVIOUS
<1>1. Inv /\ Served
  BY InitHolds, ServedInit
<1>2. Places
  BY <1>1, PlacesAre
<1>3. Len(<<>>) = 0
  BY EmptySeq
<1>4. \A T : ~SomeIn(<<>>, T)
  BY <1>3, EmptyIn
<1>5. ASSUME NEW i \in Ids PROVE ~Waits(i) /\ ~BackIn(i)
  <2>1. Req[i].from \in Uppers
    BY RequesterIs
  <2>2. chan[Req[i].from] = EmptyChannel
    BY <2>1 DEF Init
  <2>3. /\ chan[Req[i].from].RQ = <<>> /\ chan[Req[i].from].PQ = <<>> /\ chan[Req[i].from].returned = <<>>
        /\ MSHR = <<>> /\ inflight_tag_check = <<>> /\ translation_stash = <<>>
    BY <2>2 DEF EmptyChannel, Init
  <2>. QED  BY <1>4, <2>3 DEF Waits, Asks, Back, AsksIn, BackIn, ChecksIn, StashedIn, MissesIn
<1>6. pending = {} /\ answered = {}
  BY <1>2, <1>5 DEF Places
<1>. QED  BY <1>6 DEF Service!Init

(* The cache implements the service of MemService: whatever is merged in a  *)
(* queue or an MSHR, forwarded from a write, stashed for its translation or *)
(* refused for want of an MSHR and tried again, each read that was accepted *)
(* waits in one place, is answered to the level that asked for it, and only *)
(* once (do_add_queue, handle_miss, handle_fill, try_hit).                  *)
THEOREM CacheServes == Spec => ServiceSpec
<1>1. Init => Served
  BY ServedInit
<1>2. Init => Service!Init
  BY ServiceInit
<1>3. Inv /\ Served => Places
  BY PlacesAre
<1>4. Inv /\ Served /\ Places /\ Inv' /\ (Served' => Places') /\ [Next]_vars
        => Served' /\ [Service!Next]_(Service!vars)
  BY ServedSteps DEF ServiceStep
<1>. QED  BY <1>1, <1>2, <1>3, <1>4, InvHolds, PTL DEF Spec, ServiceSpec, Service!Spec

-----------------------------------------------------------------------------
(* Data written by the levels above: where it is inside this cache.        *)

(* A block of virtual addresses is mapped as a whole, as the bits of the    *)
(* offset in a page are (a block is never larger than a page).             *)
BlocksMapped ==
  \A a, b \in Virtual : SameBlock(a, b) => SameBlock(Physical[a], Physical[b])

WriteOf(b) == {r \in RequestType : PhysicalBlock(r) = b}
Misplaced == {r \in RequestType : r.type # "WRITE"}
WriteCheck(b) == {e \in CheckType : e.type = "WRITE" /\ PhysicalBlock(e) = b}
WriteFill(b) == {m \in FillType : BlockOf[m.addr] = b}
WriteMiss == {m \in MissType : m.type = "WRITE"}
Dirty(B, b, w) == HasIn(B, b, w) /\ B[SetOf[b]][w].dirty

QueuedWrite(b) == \E u \in Uppers : SomeIn(chan[u].WQ, WriteOf(b))
CheckedWrite(b) ==
  SomeIn(inflight_tag_check, WriteCheck(b)) \/ SomeIn(translation_stash, WriteCheck(b))
FilledWrite(b) == SomeIn(inflight_writes, WriteFill(b))
DirtyLine(b) == \E w \in Ways : Dirty(block, b, w)
Inside(b) == QueuedWrite(b) \/ CheckedWrite(b) \/ FilledWrite(b) \/ DirtyLine(b)

(* Only writes are in the write queues, and none is in the MSHRs. *)
OnlyWrites(c) == ~SomeIn(c.WQ, Misplaced)
Writing == (\A u \in Uppers : OnlyWrites(chan[u])) /\ ~SomeIn(MSHR, WriteMiss)

Remaining(b) == Inside(b) => Inside(b)' \/ WritebackOf(b)
WritesOn == Writing' /\ \A b \in Block : Remaining(b)

LEMMA UnmovedWrites ==
  ASSUME Writing, chan' = chan, inflight_tag_check' = inflight_tag_check,
         translation_stash' = translation_stash, inflight_writes' = inflight_writes,
         block' = block, MSHR' = MSHR
  PROVE  WritesOn
<1>1. Writing'
  BY DEF Writing
<1>2. \A b \in Block : Inside(b)' = Inside(b)
  BY DEF Inside, QueuedWrite, CheckedWrite, FilledWrite, DirtyLine
<1>. QED  BY <1>1, <1>2 DEF WritesOn, Remaining

(* Nothing changes but the pipeline, the stash and the MSHRs. *)
HoldsWrites(s, t) == \A b \in Block : SomeIn(s, WriteCheck(b)) => SomeIn(t, WriteCheck(b))

LEMMA CheckedRemains ==
  ASSUME Writing, chan' = chan, inflight_writes' = inflight_writes, block' = block,
         ~SomeIn(MSHR', WriteMiss), \A b \in Block : CheckedWrite(b) => CheckedWrite(b)'
  PROVE  WritesOn
<1>1. Writing'
  BY DEF Writing
<1>2. \A b \in Block : /\ QueuedWrite(b)' = QueuedWrite(b) /\ FilledWrite(b)' = FilledWrite(b)
                       /\ DirtyLine(b)' = DirtyLine(b)
  BY DEF QueuedWrite, FilledWrite, DirtyLine
<1>3. \A b \in Block : Inside(b)' = (QueuedWrite(b)' \/ CheckedWrite(b)' \/ FilledWrite(b)' \/ DirtyLine(b)')
  BY DEF Inside
<1>. QED  BY <1>1, <1>2, <1>3 DEF WritesOn, Remaining, Inside

LEMMA HeldRemains ==
  ASSUME Writing, chan' = chan, inflight_writes' = inflight_writes, block' = block, MSHR' = MSHR,
         HoldsWrites(inflight_tag_check, inflight_tag_check'),
         HoldsWrites(translation_stash, translation_stash')
  PROVE  WritesOn
<1>1. \A b \in Block : CheckedWrite(b) => CheckedWrite(b)'
  BY DEF CheckedWrite, HoldsWrites
<1>2. ~SomeIn(MSHR', WriteMiss)
  BY DEF Writing
<1>. QED  BY <1>1, <1>2, CheckedRemains

-----------------------------------------------------------------------------
(* Requests that carry the same write.                                     *)
Stands(e, r) == r \in CheckType /\ \A b \in Block : e \in WriteCheck(b) => r \in WriteCheck(b)

LEMMA SameStands ==
  ASSUME NEW e \in CheckType, NEW r \in CheckType,
         r.addr = e.addr, r.v = e.v, r.type = e.type, r.tr = e.tr
  PROVE  Stands(e, r)
BY DEF Stands, WriteCheck, PhysicalBlock

LEMMA UpdatesStand ==
  ASSUME NEW e \in CheckType
  PROVE  /\ Stands(e, [e EXCEPT !.event = HIT_LATENCY])
         /\ Stands(e, [e EXCEPT !.event = Sooner(@)])
         /\ Stands(e, [e EXCEPT !.issued = TRUE])
         /\ ~e.tr => Stands(e, MarkTranslated(e))
<1>. DEFINE g == [e EXCEPT !.event = HIT_LATENCY]
            h == [e EXCEPT !.event = Sooner(@)]
            i == [e EXCEPT !.issued = TRUE]
            r == MarkTranslated(e)
<1>1. e \in CheckFields
  BY DEF CheckType
<1>2. g \in CheckType /\ h \in CheckType /\ i \in CheckType /\ (~e.tr => r \in CheckType)
  BY CheckUpdates, TranslatedIs
<1>3. g.addr = e.addr /\ g.v = e.v /\ g.type = e.type /\ g.tr = e.tr
  BY <1>1 DEF CheckFields
<1>4. h.addr = e.addr /\ h.v = e.v /\ h.type = e.type /\ h.tr = e.tr
  BY <1>1 DEF CheckFields
<1>5. i.addr = e.addr /\ i.v = e.v /\ i.type = e.type /\ i.tr = e.tr
  BY <1>1 DEF CheckFields
<1>6. r.addr = Physical[e.v] /\ r.v = e.v /\ r.type = e.type /\ r.tr
  BY <1>1 DEF CheckFields, MarkTranslated
<1>. HIDE DEF g, h, i, r
<1>7. Stands(e, g) /\ Stands(e, h) /\ Stands(e, i)
  BY <1>2, <1>3, <1>4, <1>5, SameStands
<1>8. ~e.tr => Stands(e, r)
  BY <1>2, <1>6 DEF Stands, WriteCheck, PhysicalBlock
<1>. QED  BY <1>7, <1>8 DEF g, h, i, r

LEMMA PointwiseHolds ==
  ASSUME NEW s, NEW t, Len(t) = Len(s), \A k \in 1 .. Len(s) : Stands(s[k], t[k])
  PROVE  HoldsWrites(s, t)
BY DEF HoldsWrites, Stands, SomeIn

LEMMA WaitingHolds ==
  ASSUME NEW s \in Seq(CheckType), NEW page
  PROVE  HoldsWrites(s, MarkWaiting(s, page))
<1>. DEFINE N == Len(s)
            V(k) == IF WaitsFor(s[k], page) THEN MarkTranslated(s[k]) ELSE s[k]
            t == [k \in 1 .. N |-> V(k)]
<1>1. N \in Nat /\ DOMAIN s = 1 .. N /\ \A k \in 1 .. N : s[k] \in CheckType
  BY SeqParts
<1>2. MarkWaiting(s, page) = t
  BY <1>1 DEF MarkWaiting
<1>3. \A k \in 1 .. N : V(k) \in CheckType /\ Stands(s[k], V(k))
  BY <1>1, UpdatesStand, SameStands DEF WaitsFor, Stands
<1>. HIDE DEF V, N
<1>4. t \in [1 .. N -> CheckType] /\ \A k \in 1 .. N : t[k] = V(k)
  BY <1>3
<1>. HIDE DEF t
<1>5. Len(t) = N
  BY <1>1, <1>4, FunctionIsSeq
<1>6. HoldsWrites(s, t)
  BY <1>3, <1>4, <1>5, PointwiseHolds DEF N
<1>. QED  BY <1>2, <1>6

(* The stash is reordered, and some of it marked. *)
LEMMA RestartedHolds ==
  ASSUME NEW s \in Seq(CheckType), NEW page
  PROVE  HoldsWrites(s, Restarted(s, page))
<1>. DEFINE N == Len(s)
            n == SpanLength(s, Len(s), LAMBDA e : e.tr)
            I == {k \in 1 .. Len(s) : ~s[k].tr}
            f == IF I # {} THEN Min(I) ELSE 0
            waits == {k \in DOMAIN s : k > n /\ WaitsFor(s[k], page)}
            others == (n + 1 .. Len(s)) \ waits
            begin == SubSeq(s, 1, n)
            found == Extracted(s, waits)
            other == Extracted(s, others)
            marked == [k \in DOMAIN found |-> MarkTranslated(found[k])]
<1>1. N \in Nat /\ DOMAIN s = 1 .. N /\ \A k \in 1 .. N : s[k] \in CheckType
  BY SeqParts
<1>2. n \in 0 .. N
  <2>1. n = Smaller(N, IF f = 0 THEN N ELSE f - 1)
    BY DEF SpanLength, SelectInSeq
  <2>2. I \subseteq 1 .. N /\ f = (IF I # {} THEN Min(I) ELSE 0)
    OBVIOUS
  <2>. HIDE DEF n, I, f, N
  <2>3. f \in 0 .. N
    BY <1>1, <2>2, FirstIn
  <2>. QED  BY <1>1, <2>1, <2>3 DEF Smaller
<1>3. Restarted(s, page) = begin \o marked \o other
  BY DEF Restarted
<1>4. \A k \in waits : k \in 1 .. N /\ ~s[k].tr /\ k > n
  BY <1>1 DEF WaitsFor
<1>5. 1 .. N \subseteq (1 .. n) \cup (waits \cup others)
  <2>. HIDE DEF n, waits
  <2>. QED  BY <1>1, <1>2, <1>4
<1>. HIDE DEF n, waits, others
<1>6. /\ Embedded(CheckType, found, s, waits, N)
      /\ Embedded(CheckType, other, s, others, N)
  BY ExtractedIs
<1>7. begin \in Seq(CheckType)
  BY <1>2, SplitIs
<1>8. ASSUME NEW b \in Block
      PROVE  LET T == WriteCheck(b)
             IN  /\ SomeIn(begin, T) <=> SomeAt(s, 1 .. n, T)
                 /\ SomeIn(found, T) <=> SomeAt(s, waits, T)
                 /\ SomeIn(other, T) <=> SomeAt(s, others, T)
  <2>. DEFINE T == WriteCheck(b)
  <2>. HIDE DEF T
  <2>1. SomeIn(begin, T) <=> SomeAt(s, 1 .. n, T)
    BY <1>2, SliceIn
  <2>2. SomeIn(found, T) <=> SomeAt(s, waits, T)
    BY ExtractedIn
  <2>3. SomeIn(other, T) <=> SomeAt(s, others, T)
    BY ExtractedIn
  <2>. QED  BY <2>1, <2>2, <2>3 DEF T
<1>. HIDE DEF begin, found, other
<1>9. found \in Seq(CheckType) /\ other \in Seq(CheckType)
      /\ \A k \in 1 .. Len(found) : found[k] \in CheckType /\ ~found[k].tr
  BY <1>4, <1>6, SeqParts DEF Embedded, Embeds
<1>10. HoldsWrites(found, marked) /\ marked \in Seq(CheckType)
  <2>. DEFINE V(k) == MarkTranslated(found[k])
              M == Len(found)
  <2>1. M \in Nat /\ DOMAIN found = 1 .. M
    BY <1>9, SeqParts
  <2>2. \A k \in 1 .. M : Stands(found[k], V(k))
    BY <1>9, UpdatesStand
  <2>3. marked = [k \in 1 .. M |-> V(k)]
    BY <2>1
  <2>. HIDE DEF V, M, marked
  <2>4. marked \in [1 .. M -> CheckType] /\ \A k \in 1 .. M : marked[k] = V(k)
    BY <2>2, <2>3 DEF Stands
  <2>5. marked \in Seq(CheckType) /\ Len(marked) = M
    BY <2>1, <2>4, FunctionIsSeq
  <2>6. \A k \in 1 .. Len(found) : Stands(found[k], marked[k])
    BY <2>2, <2>4 DEF M
  <2>. QED  BY <2>5, <2>6, PointwiseHolds DEF M
<1>. HIDE DEF marked
<1>11. begin \o marked \in Seq(CheckType)
  BY <1>7, <1>10, JoinIs
<1>12. ASSUME NEW b \in Block, SomeIn(s, WriteCheck(b))
       PROVE  SomeIn(begin \o marked \o other, WriteCheck(b))
  <2>. DEFINE T == WriteCheck(b)
              a == begin \o marked
  <2>1. SomeAt(s, 1 .. n, T) \/ SomeAt(s, waits, T) \/ SomeAt(s, others, T)
    BY <1>5, <1>12 DEF SomeAt, SomeIn, N
  <2>2. SomeIn(begin, T) \/ SomeIn(marked, T) \/ SomeIn(other, T)
    BY <1>8, <1>10, <2>1 DEF HoldsWrites
  <2>. HIDE DEF T
  <2>3. SomeIn(a, T) <=> SomeIn(begin, T) \/ SomeIn(marked, T)
    BY <1>7, <1>10, JoinIn
  <2>4. a \in Seq(CheckType)
    BY <1>11
  <2>. HIDE DEF a
  <2>5. SomeIn(a \o other, T) <=> SomeIn(a, T) \/ SomeIn(other, T)
    BY <1>9, <2>4, JoinIn
  <2>. QED  BY <2>2, <2>3, <2>5 DEF T, a
<1>. QED  BY <1>3, <1>12 DEF HoldsWrites

LEMMA FinishTranslationWrites ==
  ASSUME Inv, Writing, FinishTranslation
  PROVE  WritesOn
<1>. DEFINE page == PageOf[Head(tlb.returned)]
<1>1. /\ translation_stash' = Restarted(translation_stash, page)
      /\ inflight_tag_check' = MarkWaiting(inflight_tag_check, page)
      /\ chan' = chan /\ MSHR' = MSHR /\ inflight_writes' = inflight_writes /\ block' = block
  BY DEF FinishTranslation
<1>. HIDE DEF page
<1>2. inflight_tag_check \in Seq(CheckType) /\ translation_stash \in Seq(CheckType)
  BY DEF Inv, Typed
<1>3. /\ HoldsWrites(translation_stash, translation_stash')
      /\ HoldsWrites(inflight_tag_check, inflight_tag_check')
  BY <1>1, <1>2, RestartedHolds, WaitingHolds
<1>. QED  BY <1>1, <1>3, HeldRemains

LEMMA IssuedHolds ==
  ASSUME NEW s \in Seq(CheckType)
  PROVE  LET i == SelectInSeq(s, NeedsIssue)
         IN  HoldsWrites(s, s) /\ (i # 0 => HoldsWrites(s, [s EXCEPT ![i].issued = TRUE]))
<1>. DEFINE i == SelectInSeq(s, NeedsIssue)
            I == {x \in 1 .. Len(s) : NeedsIssue(s[x])}
            e == [s[i] EXCEPT !.issued = TRUE]
            t == [s EXCEPT ![i] = e]
<1>1. Len(s) \in Nat /\ \A x \in 1 .. Len(s) : s[x] \in CheckType
  BY SeqParts
<1>2. i # 0 => i \in 1 .. Len(s)
  <2>1. i = (IF I # {} THEN Min(I) ELSE 0) /\ I \subseteq 1 .. Len(s)
    BY DEF SelectInSeq
  <2>. HIDE DEF i, I
  <2>. QED  BY <1>1, <2>1, FirstIn
<1>3. HoldsWrites(s, s)
  BY DEF HoldsWrites
<1>. HIDE DEF i
<1>4. ASSUME i # 0 PROVE HoldsWrites(s, t)
  <2>1. i \in 1 .. Len(s) /\ s[i] \in CheckType
    BY <1>1, <1>2, <1>4
  <2>2. Stands(s[i], e) /\ e \in CheckType
    BY <2>1, UpdatesStand DEF Stands
  <2>. HIDE DEF e
  <2>3. /\ Len(t) = Len(s) /\ t[i] = e
        /\ \A k \in 1 .. Len(s) : k # i => t[k] = s[k]
    BY <1>1, <2>1, <2>2, ExceptSeq
  <2>. HIDE DEF t
  <2>4. \A k \in 1 .. Len(s) : Stands(s[k], t[k])
    BY <1>1, <2>2, <2>3 DEF Stands
  <2>. QED  BY <2>3, <2>4, PointwiseHolds
<1>5. t = [s EXCEPT ![i].issued = TRUE]
  OBVIOUS
<1>. QED  BY <1>3, <1>4, <1>5 DEF i

LEMMA IssueTranslationWrites ==
  ASSUME Inv, Writing, IssueTranslation
  PROVE  WritesOn
<1>. DEFINE i == SelectInSeq(inflight_tag_check, NeedsIssue)
            j == SelectInSeq(translation_stash, NeedsIssue)
<1>1. /\ i # 0 \/ j # 0
      /\ i # 0 => /\ inflight_tag_check' = [inflight_tag_check EXCEPT ![i].issued = TRUE]
                  /\ translation_stash' = translation_stash
      /\ i = 0 => /\ translation_stash' = [translation_stash EXCEPT ![j].issued = TRUE]
                  /\ inflight_tag_check' = inflight_tag_check
      /\ chan' = chan /\ MSHR' = MSHR /\ inflight_writes' = inflight_writes /\ block' = block
  BY DEF IssueTranslation
<1>2. inflight_tag_check \in Seq(CheckType) /\ translation_stash \in Seq(CheckType)
  BY DEF Inv, Typed
<1>3. /\ HoldsWrites(inflight_tag_check, inflight_tag_check) /\ HoldsWrites(translation_stash, translation_stash)
      /\ i # 0 => HoldsWrites(inflight_tag_check, [inflight_tag_check EXCEPT ![i].issued = TRUE])
      /\ j # 0 => HoldsWrites(translation_stash, [translation_stash EXCEPT ![j].issued = TRUE])
  BY <1>2, IssuedHolds
<1>. HIDE DEF i, j
<1>4. HoldsWrites(inflight_tag_check, inflight_tag_check') /\ HoldsWrites(translation_stash, translation_stash')
  <2>1. CASE i # 0
    BY <1>1, <1>3, <2>1
  <2>2. CASE i = 0
    BY <1>1, <1>3, <2>2
  <2>. QED  BY <2>1, <2>2
<1>. QED  BY <1>1, <1>4, HeldRemains

LEMMA StashUntranslatedWrites ==
  ASSUME Inv, Writing, StashUntranslated
  PROVE  WritesOn
<1>. DEFINE s == inflight_tag_check
            missed == {i \in DOMAIN s : IsReady(s[i]) /\ ~s[i].tr}
            stays == DOMAIN s \ missed
            kept == Extracted(s, stays)
            gone == Extracted(s, missed)
<1>1. /\ s' = kept /\ translation_stash' = translation_stash \o gone
      /\ chan' = chan /\ MSHR' = MSHR /\ inflight_writes' = inflight_writes /\ block' = block
  BY DEF StashUntranslated
<1>2. s \in Seq(CheckType) /\ translation_stash \in Seq(CheckType) /\ DOMAIN s = 1 .. Len(s)
  BY SeqParts DEF Inv, Typed
<1>3. 1 .. Len(s) \subseteq stays \cup missed
  BY <1>2
<1>. HIDE DEF missed, stays
<1>4. gone \in Seq(CheckType)
  BY <1>2, ExtractedIs DEF Embedded
<1>5. ASSUME NEW b \in Block, CheckedWrite(b) PROVE CheckedWrite(b)'
  <2>. DEFINE T == WriteCheck(b)
              t == translation_stash'
  <2>. HIDE DEF T
  <2>1. (SomeIn(kept, T) <=> SomeAt(s, stays, T)) /\ (SomeIn(gone, T) <=> SomeAt(s, missed, T))
    BY <1>2, ExtractedIn
  <2>2. SomeIn(s, T) <=> SomeAt(s, stays, T) \/ SomeAt(s, missed, T)
    BY <1>3, AtParts
  <2>. HIDE DEF kept, gone
  <2>3. SomeIn(t, T) <=> SomeIn(translation_stash, T) \/ SomeIn(gone, T)
    BY <1>1, <1>2, <1>4, JoinIn
  <2>4. SomeIn(s', T) <=> SomeIn(kept, T)
    BY <1>1
  <2>5. SomeIn(s, T) \/ SomeIn(translation_stash, T)
    BY <1>5 DEF CheckedWrite, T
  <2>6. SomeIn(s', T) \/ SomeIn(t, T)
    BY <2>1, <2>2, <2>3, <2>4, <2>5
  <2>. QED  BY <2>6 DEF CheckedWrite, T
<1>6. ~SomeIn(MSHR', WriteMiss)
  BY <1>1 DEF Writing
<1>. QED  BY <1>1, <1>5, <1>6, CheckedRemains

LEMMA InitiateFromStashWrites ==
  ASSUME Inv, Writing, InitiateFromStash
  PROVE  WritesOn
<1>. DEFINE s == translation_stash
            c == inflight_tag_check
            n == SpanLength(s, TagBandwidth, LAMBDA e : e.tr)
            I == {i \in 1 .. Len(s) : ~s[i].tr}
            f == IF I # {} THEN Min(I) ELSE 0
            V(k) == [s[k] EXCEPT !.event = HIT_LATENCY]
            taken == [k \in 1 .. n |-> V(k)]
            a == SubSeq(s, 1, n)
<1>1. /\ s \in Seq(CheckType) /\ Len(s) \in Nat /\ \A k \in 1 .. Len(s) : s[k] \in CheckType
      /\ c \in Seq(CheckType) /\ TagBandwidth \in Nat
  BY SeqParts, BandwidthIs DEF Inv, Typed
<1>2. n \in 0 .. Len(s)
  <2>1. n = Smaller(TagBandwidth, IF f = 0 THEN Len(s) ELSE f - 1)
    BY DEF SpanLength, SelectInSeq
  <2>2. I \subseteq 1 .. Len(s) /\ f = IF I # {} THEN Min(I) ELSE 0
    OBVIOUS
  <2>. HIDE DEF n, I, f, s
  <2>3. f \in 0 .. Len(s)
    BY <1>1, <2>2, FirstIn
  <2>. QED  BY <1>1, <2>1, <2>3 DEF Smaller
<1>3. /\ c' = c \o taken /\ s' = Rest(s, n)
      /\ chan' = chan /\ MSHR' = MSHR /\ inflight_writes' = inflight_writes /\ block' = block
  BY DEF InitiateFromStash
<1>. HIDE DEF n
<1>4. \A k \in 1 .. n : V(k) \in CheckType /\ Stands(s[k], V(k))
  <2>1. \A k \in 1 .. n : s[k] \in CheckType
    BY <1>1, <1>2
  <2>. QED  BY <2>1, UpdatesStand DEF Stands
<1>. HIDE DEF V
<1>5. taken \in Seq(CheckType) /\ Len(taken) = n /\ \A k \in 1 .. n : taken[k] = V(k)
  <2>1. taken \in [1 .. n -> CheckType] /\ \A k \in 1 .. n : taken[k] = V(k)
    BY <1>4
  <2>. HIDE DEF taken
  <2>. QED  BY <1>1, <1>2, <2>1, FunctionIsSeq
<1>. HIDE DEF taken
<1>6. Len(a) = n /\ \A k \in 1 .. n : a[k] = s[k]
  BY <1>1, <1>2, SplitIs
<1>7. HoldsWrites(a, taken)
  <2>1. Len(taken) = Len(a) /\ \A k \in 1 .. Len(a) : Stands(a[k], taken[k])
    BY <1>4, <1>5, <1>6
  <2>. QED  BY <2>1, PointwiseHolds
<1>8. 1 .. Len(s) \subseteq (1 .. n) \cup (n + 1 .. Len(s))
  <2>. HIDE DEF s
  <2>. QED  BY <1>1, <1>2
<1>9. ASSUME NEW b \in Block, CheckedWrite(b) PROVE CheckedWrite(b)'
  <2>. DEFINE T == WriteCheck(b)
              r == Rest(s, n)
              J == 1 .. n
              K == n + 1 .. Len(s)
  <2>1. SomeIn(a, T) => SomeIn(taken, T)
    BY <1>7 DEF HoldsWrites
  <2>. HIDE DEF T
  <2>2. (SomeIn(a, T) <=> SomeAt(s, J, T)) /\ (SomeIn(r, T) <=> SomeAt(s, K, T))
    BY <1>1, <1>2, SliceIn
  <2>3. SomeIn(s, T) <=> SomeAt(s, J, T) \/ SomeAt(s, K, T)
    <3>1. 1 .. Len(s) \subseteq J \cup K
      BY <1>8
    <3>. HIDE DEF J, K
    <3>. QED  BY <3>1, AtParts
  <2>4. SomeIn(c', T) <=> SomeIn(c, T) \/ SomeIn(taken, T)
    BY <1>1, <1>3, <1>5, JoinIn
  <2>5. SomeIn(s', T) <=> SomeIn(r, T)
    BY <1>3
  <2>6. SomeIn(c, T) \/ SomeIn(s, T)
    BY <1>9 DEF CheckedWrite, T
  <2>. HIDE DEF J, K, r
  <2>7. SomeIn(c', T) \/ SomeIn(s', T)
    BY <2>1, <2>2, <2>3, <2>4, <2>5, <2>6
  <2>. QED  BY <2>7 DEF CheckedWrite, T
<1>10. ~SomeIn(MSHR', WriteMiss)
  BY <1>3 DEF Writing
<1>. QED  BY <1>3, <1>9, <1>10, CheckedRemains

LEMMA InitiateFromPrefetchesWrites ==
  ASSUME Inv, Inv', Writing, InitiateFromPrefetches
  PROVE  WritesOn
<1>. DEFINE n == SpanLength(internal_PQ, loop.bw, Admitted)
            V(i) == TagCheck(internal_PQ[i], {}, internal_PQ[i].skip, TRUE)
            taken == [i \in 1 .. n |-> V(i)]
            s == inflight_tag_check
<1>1. /\ s' = s \o taken /\ translation_stash' = translation_stash
      /\ chan' = chan /\ MSHR' = MSHR /\ inflight_writes' = inflight_writes /\ block' = block
  BY DEF InitiateFromPrefetches
<1>2. s \in Seq(CheckType) /\ s' \in Seq(CheckType)
  BY DEF Inv, Typed
<1>. HIDE DEF taken
<1>3. HoldsWrites(s, s')
  <2>1. \A k \in 1 .. Len(s) : s'[k] = s[k] /\ k \in 1 .. Len(s')
    BY <1>1, <1>2
  <2>. QED  BY <2>1 DEF HoldsWrites, SomeIn
<1>4. HoldsWrites(translation_stash, translation_stash')
  BY <1>1 DEF HoldsWrites
<1>. QED  BY <1>1, <1>3, <1>4, HeldRemains

-----------------------------------------------------------------------------
(* check_collision keeps a write in its queue, as itself or as the one of   *)
(* the same block it is merged into.                                       *)
WritesKept(c, d) ==
  /\ d \in ChannelType /\ OnlyWrites(d)
  /\ \A b \in Block : SomeIn(c.WQ, WriteOf(b)) => SomeIn(d.WQ, WriteOf(b))

LEMMA SamePhysical ==
  ASSUME BlocksMapped, NEW x \in RequestType, NEW y \in RequestType, SameBlock(x.addr, y.addr), x.tr = y.tr
  PROVE  PhysicalBlock(x) = PhysicalBlock(y)
<1>1. x.v = x.addr /\ y.v = y.addr /\ (~x.tr => x.addr \in Virtual) /\ (~y.tr => y.addr \in Virtual)
  BY DEF RequestType
<1>2. CASE x.tr
  BY <1>2 DEF PhysicalBlock, SameBlock
<1>3. CASE ~x.tr
  <2>1. SameBlock(Physical[x.v], Physical[y.v])
    BY <1>1, <1>3 DEF BlocksMapped
  <2>. QED  BY <1>3, <2>1 DEF PhysicalBlock, SameBlock
<1>. QED  BY <1>2, <1>3

(* A round in another queue leaves the write queue alone. *)
LEMMA ElsewhereKept ==
  ASSUME NEW c \in ChannelType, OnlyWrites(c), NEW q, q # "WQ", NEW s, NEW t,
         NEW d, Replaces(c, d, q, s, t)
  PROVE  WritesKept(c, d)
<1>1. d \in ChannelType /\ d.WQ = c.WQ
  BY DEF Replaces, QueueNames
<1>. QED  BY <1>1 DEF WritesKept, OnlyWrites

LEMMA MergedWrites ==
  ASSUME BlocksMapped, NEW c \in ChannelType, OnlyWrites(c), NEW q \in QueueNames,
         NEW k \in 1 .. Len(c[q]), NEW d, NEW n \in 1 .. k - 1, Merges(c, d, q, k, n)
  PROVE  WritesKept(c, d)
<1>. DEFINE w == c.WQ
            x == Merged(w[n], w[k])
            s == RemoveAt([w EXCEPT ![n] = x], k)
<1>1. CASE q # "WQ"
  BY <1>1, ElsewhereKept DEF Merges
<1>2. CASE q = "WQ"
  <2>1. /\ SameBlock(w[n].addr, w[k].addr) /\ w[n].tr = w[k].tr /\ x \in RequestType
        /\ d \in ChannelType /\ d.WQ = s /\ k \in 1 .. Len(w)
    BY <1>2 DEF Merges, Replaces
  <2>2. w \in Seq(RequestType) /\ Len(w) \in Nat
    BY QueuesOf, SeqParts DEF QueueNames
  <2>3. w[n] \in RequestType /\ w[k] \in RequestType /\ n \in 1 .. Len(w)
    <3>1. n \in 1 .. Len(w)
      BY <2>1, <2>2
    <3>. HIDE DEF w
    <3>. QED  BY <2>1, <2>2, <3>1, SeqParts
  <2>4. x.type = w[n].type /\ x.addr = w[n].addr /\ x.v = w[n].v /\ x.tr = w[n].tr
    <3>1. w[n] \in RequestFields
      BY <2>3 DEF RequestType
    <3>. QED  BY <3>1 DEF Merged, RequestFields
  <2>5. PhysicalBlock(w[n]) = PhysicalBlock(w[k])
    BY <2>1, <2>3, SamePhysical
  <2>. HIDE DEF x, s
  <2>6. PhysicalBlock(x) = PhysicalBlock(w[n])
    BY <2>4 DEF PhysicalBlock
  <2>7. \A b \in Block : x \in WriteOf(b) <=> w[n] \in WriteOf(b) \/ w[k] \in WriteOf(b)
    BY <2>1, <2>3, <2>5, <2>6 DEF WriteOf
  <2>8. w[n] \notin Misplaced /\ w[k] \notin Misplaced
    BY <2>1, <2>3 DEF OnlyWrites, SomeIn
  <2>9. x \notin Misplaced
    BY <2>3, <2>4, <2>8 DEF Misplaced
  <2>. HIDE DEF w
  <2>10. \A b \in Block : SomeIn(s, WriteOf(b)) <=> SomeIn(w, WriteOf(b))
    BY <2>1, <2>2, <2>7, MergedIn DEF s
  <2>11. SomeIn(s, Misplaced) <=> SomeIn(w, Misplaced)
    BY <2>1, <2>2, <2>8, <2>9, MergedIn DEF s
  <2>. QED  BY <2>1, <2>10, <2>11 DEF WritesKept, OnlyWrites, w
<1>. QED  BY <1>1, <1>2

LEMMA MarkedWrites ==
  ASSUME NEW c \in ChannelType, OnlyWrites(c), NEW q \in QueueNames,
         NEW k \in 1 .. Len(c[q]), NEW d, Marks(c, d, q, k)
  PROVE  WritesKept(c, d)
<1>. DEFINE w == c.WQ
            x == [w[k] EXCEPT !.checked = TRUE]
            s == [w EXCEPT ![k] = x]
<1>1. CASE q # "WQ"
  BY <1>1, ElsewhereKept DEF Marks
<1>2. CASE q = "WQ"
  <2>1. x \in RequestType /\ d \in ChannelType /\ d.WQ = s /\ k \in 1 .. Len(w)
    BY <1>2 DEF Marks, Replaces
  <2>2. w \in Seq(RequestType) /\ w[k] \in RequestType
    <3>1. w \in Seq(RequestType)
      BY QueuesOf DEF QueueNames
    <3>. QED  BY <2>1, <3>1, SeqParts
  <2>3. x.type = w[k].type /\ x.addr = w[k].addr /\ x.v = w[k].v /\ x.tr = w[k].tr
    BY <2>2 DEF RequestType, RequestFields
  <2>. HIDE DEF x
  <2>4. /\ \A b \in Block : x \in WriteOf(b) <=> w[k] \in WriteOf(b)
        /\ x \in Misplaced <=> w[k] \in Misplaced
    BY <2>1, <2>2, <2>3 DEF WriteOf, Misplaced, PhysicalBlock
  <2>. HIDE DEF w
  <2>5. \A b \in Block : SomeIn(s, WriteOf(b)) <=> SomeIn(w, WriteOf(b))
    BY <2>1, <2>2, <2>4, ReplacedIn
  <2>6. SomeIn(s, Misplaced) <=> SomeIn(w, Misplaced)
    BY <2>1, <2>2, <2>4, ReplacedIn
  <2>. HIDE DEF s
  <2>. QED  BY <2>1, <2>5, <2>6 DEF WritesKept, OnlyWrites, w
<1>. QED  BY <1>1, <1>2

LEMMA StepKeepsWrites ==
  ASSUME BlocksMapped, NEW c \in ChannelType, OnlyWrites(c)
  PROVE  WritesKept(c, CheckStep(c))
<1>1. CASE CheckStep(c) = c
  BY <1>1 DEF WritesKept
<1>2. ASSUME NEW q \in QueueNames, NEW k \in 1 .. Len(c[q]), Round(c, CheckStep(c), q, k)
      PROVE  WritesKept(c, CheckStep(c))
  <2>. DEFINE d == CheckStep(c)
  <2>. HIDE DEF d
  <2>1. Answers(c, d, q, k) \/ (\E n \in 1 .. k - 1 : Merges(c, d, q, k, n)) \/ Marks(c, d, q, k)
    BY <1>2 DEF Round, d
  <2>2. Answers(c, d, q, k) => WritesKept(c, d)
    BY ElsewhereKept DEF Answers
  <2>3. WritesKept(c, d)
    BY <2>1, <2>2, MergedWrites, MarkedWrites
  <2>. QED  BY <2>3 DEF d
<1>. QED  BY <1>1, <1>2, CheckStepIs

LEMMA CollisionKeepsWrites ==
  ASSUME BlocksMapped, NEW c \in ChannelType, OnlyWrites(c)
  PROVE  WritesKept(c, CheckCollision(c))
<1>1. PICK N \in Nat : \E f :
           /\ f[0] = c /\ (\A n \in 1 .. N : f[n] = CheckStep(f[n - 1]))
           /\ CheckCollision(c) = f[N]
  BY CollisionIsRounds
<1>2. PICK f : /\ f[0] = c /\ (\A n \in 1 .. N : f[n] = CheckStep(f[n - 1]))
               /\ CheckCollision(c) = f[N]
  BY <1>1
<1>. DEFINE X == {n \in 0 .. N : ~WritesKept(c, f[n])}
            m == Min(X)
<1>3. SUFFICES ASSUME X # {} PROVE FALSE
  BY <1>2
<1>4. m \in X /\ \A k \in X : m <= k
  <2>1. X \subseteq Nat
    OBVIOUS
  <2>. HIDE DEF X
  <2>. QED  BY <1>3, <2>1, LeastNumber
<1>. HIDE DEF m
<1>5. m # 0
  <2>1. WritesKept(c, c)
    BY DEF WritesKept
  <2>. QED  BY <1>2, <1>4, <2>1
<1>6. m \in 1 .. N /\ m - 1 \in 0 .. N /\ m - 1 \notin X
  <2>1. m \in 0 .. N
    BY <1>4
  <2>2. m - 1 \in 0 .. N /\ ~(m <= m - 1)
    BY <1>5, <2>1
  <2>. QED  BY <1>4, <1>5, <2>1, <2>2
<1>7. WritesKept(c, f[m - 1])
  BY <1>6
<1>. DEFINE d == f[m - 1]
<1>8. f[m] = CheckStep(d) /\ ~WritesKept(c, f[m])
  BY <1>2, <1>4, <1>6
<1>9. WritesKept(c, d)
  BY <1>7
<1>. HIDE DEF d, X
<1>10. WritesKept(d, CheckStep(d))
  BY <1>9, StepKeepsWrites DEF WritesKept
<1>11. WritesKept(c, CheckStep(d))
  BY <1>9, <1>10 DEF WritesKept
<1>. QED  BY <1>8, <1>11

(* The channels change, nothing else does. *)
LEMMA ChannelsRemain ==
  ASSUME Writing, \A u \in Uppers : OnlyWrites(chan'[u]), MSHR' = MSHR,
         inflight_tag_check' = inflight_tag_check, translation_stash' = translation_stash,
         inflight_writes' = inflight_writes, block' = block,
         \A b \in Block : QueuedWrite(b) => QueuedWrite(b)'
  PROVE  WritesOn
<1>1. Writing'
  BY DEF Writing
<1>2. \A b \in Block : CheckedWrite(b)' = CheckedWrite(b) /\ FilledWrite(b)' = FilledWrite(b)
                       /\ DirtyLine(b)' = DirtyLine(b)
  BY DEF CheckedWrite, FilledWrite, DirtyLine
<1>3. \A b \in Block : Inside(b)' = (QueuedWrite(b)' \/ CheckedWrite(b)' \/ FilledWrite(b)' \/ DirtyLine(b)')
  BY DEF Inside
<1>. QED  BY <1>1, <1>2, <1>3 DEF WritesOn, Remaining, Inside

LEMMA CheckCollisionsWrites ==
  ASSUME BlocksMapped, Inv, Writing, CheckCollisions
  PROVE  WritesOn
<1>1. \A u \in Uppers : WritesKept(chan[u], chan'[u])
  <2>1. \A u \in Uppers : chan[u] \in ChannelType /\ OnlyWrites(chan[u])
    BY ChannelsAre DEF Inv, Writing
  <2>2. \A u \in Uppers : chan'[u] = CheckCollision(chan[u])
    BY DEF CheckCollisions
  <2>. QED  BY <2>1, <2>2, CollisionKeepsWrites
<1>2. UNCHANGED <<inflight_tag_check, translation_stash, MSHR, inflight_writes, block>>
  BY DEF CheckCollisions, cacheVars
<1>3. \A u \in Uppers : OnlyWrites(chan'[u])
  BY <1>1 DEF WritesKept
<1>4. \A b \in Block : QueuedWrite(b) => QueuedWrite(b)'
  BY <1>1 DEF WritesKept, QueuedWrite
<1>. QED  BY <1>2, <1>3, <1>4, ChannelsRemain

-----------------------------------------------------------------------------
(* What a channel gives is in the pipeline afterwards.                     *)
LEMMA RequestStands ==
  ASSUME NEW u \in Uppers, NEW x \in RequestType, x.type = "WRITE"
  PROVE  LET e == TagCheck(x, IF x.resp THEN {u} ELSE {}, FALSE, FALSE)
         IN  \A b \in Block : x \in WriteOf(b) => e \in WriteCheck(b)
<1>. DEFINE to == IF x.resp THEN {u} ELSE {}
            e == TagCheck(x, to, FALSE, FALSE)
<1>1. to \in SUBSET Uppers
  OBVIOUS
<1>. HIDE DEF to
<1>2. e \in CheckType
  BY <1>1, RequestCheckIs
<1>3. e.addr = x.addr /\ e.v = x.v /\ e.tr = x.tr /\ e.type = "WRITE"
  BY DEF TagCheck
<1>. HIDE DEF e
<1>4. \A b \in Block : x \in WriteOf(b) => e \in WriteCheck(b)
  BY <1>2, <1>3 DEF WriteOf, WriteCheck, PhysicalBlock
<1>. QED  BY <1>4 DEF e, to

(* The turn of a channel and of one of its queues. *)
LEMMA TurnIs ==
  ASSUME NEW at \in Nat \ {0}, NEW n \in Nat, at <= 3 * n
  PROVE  ((at - 1) \div 3) + 1 \in 1 .. n /\ ((at - 1) % 3) + 1 \in {1, 2, 3}
OBVIOUS

LEMMA InitiateFromChannelWrites ==
  ASSUME Inv, Writing, InitiateFromChannel
  PROVE  WritesOn
<1>. DEFINE k == ((loop.at - 1) \div 3) + 1
            u == upper_levels[k]
            j == ((loop.at - 1) % 3) + 1
            q == <<"WQ", "RQ", "PQ">>[j]
            s == chan[u][q]
            n == SpanLength(s, Smaller(loop.share, loop.bw), Admitted)
            I == {i \in 1 .. Len(s) : ~Admitted(s[i])}
            f == IF I # {} THEN Min(I) ELSE 0
            a == SubSeq(s, 1, n)
            V(i) == TagCheck(a[i], IF a[i].resp THEN {u} ELSE {}, FALSE, FALSE)
            taken == [i \in 1 .. n |-> V(i)]
            c == inflight_tag_check
<1>. HIDE DEF k, u, j, q, s, n, I, f, a, V, taken
<1>1. /\ upper_levels \in Seq(Uppers) /\ Len(upper_levels) \in Nat \ {0}
      /\ loop.at \in Nat \ {0} /\ loop.bw \in Nat /\ loop.share \in Nat
      /\ loop.at <= 3 * Len(upper_levels)
      /\ Typed
  <2>1. Typed /\ upper_levels \in Seq(Uppers) /\ upper_levels # <<>> /\ loop \in LoopType
    BY DEF Inv, Typed
  <2>2. loop.at <= 3 * Len(upper_levels)
    BY Zenon DEF InitiateFromChannel
  <2>3. Len(upper_levels) \in Nat \ {0}
    BY <2>1, SeqParts
  <2>. QED  BY <2>1, <2>2, <2>3 DEF LoopType
<1>2. k \in 1 .. Len(upper_levels) /\ j \in {1, 2, 3}
  BY <1>1, TurnIs DEF k, j
<1>3. u \in Uppers /\ q \in QueueNames
  <2>1. u \in Uppers
    BY <1>1, <1>2, SeqParts DEF u
  <2>. QED  BY <1>2, <2>1 DEF q, QueueNames
<1>. USE DEF k, u, j, q, s, n, I, f, a, V, taken
<1>4. /\ c' = c \o taken /\ chan' = [chan EXCEPT ![u][q] = Rest(s, n)]
      /\ translation_stash' = translation_stash /\ MSHR' = MSHR /\ inflight_writes' = inflight_writes
      /\ block' = block
  BY Zenon DEF InitiateFromChannel
<1>5. n = Smaller(Smaller(loop.share, loop.bw), IF f = 0 THEN Len(s) ELSE f - 1)
  BY DEF SpanLength, SelectInSeq
<1>. HIDE DEF u, q
<1>6. /\ chan[u] \in ChannelType /\ chan \in [Uppers -> ChannelType] /\ OnlyWrites(chan[u])
      /\ s \in Seq(RequestType) /\ Len(s) \in Nat /\ chan[u].returned \in Seq(ResponseType)
  <2>1. chan[u] \in ChannelType /\ chan \in [Uppers -> ChannelType] /\ OnlyWrites(chan[u])
    BY <1>1, <1>3, ChannelsAre DEF Writing
  <2>. QED  BY <1>3, <2>1, QueuesOf, SeqParts
<1>7. n \in 0 .. Len(s)
  <2>1. I \subseteq 1 .. Len(s) /\ f = IF I # {} THEN Min(I) ELSE 0
    OBVIOUS
  <2>. HIDE DEF n, I, f, s
  <2>2. f \in 0 .. Len(s)
    BY <1>6, <2>1, FirstIn
  <2>3. Smaller(loop.share, loop.bw) \in Nat
    BY <1>1 DEF Smaller
  <2>. QED  BY <1>5, <1>6, <2>2, <2>3 DEF Smaller
<1>. HIDE DEF n
<1>. DEFINE b == Rest(s, n)
            d == [chan[u] EXCEPT ![q] = b]
<1>8. Replaces(chan[u], d, q, b, chan[u].returned)
  <2>1. b \in Seq(RequestType)
    BY <1>6, <1>7, SplitIs
  <2>. HIDE DEF b
  <2>. QED  BY <1>3, <1>6, <2>1, QueueReplaced
<1>9. chan'[u] = d /\ \A w \in Uppers : w # u => chan'[w] = chan[w]
  <2>1. chan' = [chan EXCEPT ![u] = d]
    BY <1>4
  <2>. HIDE DEF d
  <2>. QED  BY <1>3, <1>6, <2>1
<1>10. d.WQ = IF q = "WQ" THEN b ELSE chan[u].WQ
  BY <1>8 DEF Replaces, QueueNames
<1>. HIDE DEF d
<1>11. a \in Seq(RequestType) /\ Len(a) = n /\ n \in Nat /\ \A i \in 1 .. n : a[i] \in RequestType /\ a[i] = s[i]
  <2>1. a \in Seq(RequestType) /\ Len(a) = n /\ n \in Nat /\ \A i \in 1 .. n : a[i] = s[i]
    BY <1>6, <1>7, SplitIs
  <2>. HIDE DEF a
  <2>. QED  BY <2>1, SeqParts
<1>12. \A i \in 1 .. n : V(i) \in CheckType
  <2>1. \A i \in 1 .. n : (IF a[i].resp THEN {u} ELSE {}) \in SUBSET Uppers
    BY <1>3
  <2>. QED  BY <1>11, <2>1, RequestCheckIs
<1>13. ASSUME q = "WQ", NEW i \in 1 .. n, NEW z \in Block, a[i] \in WriteOf(z)
       PROVE  V(i) \in WriteCheck(z)
  <2>1. s[i] \notin Misplaced
    <3>1. i \in 1 .. Len(s)
      BY <1>6, <1>7
    <3>. QED  BY <1>6, <1>13, <3>1 DEF OnlyWrites, SomeIn
  <2>2. a[i] \in RequestType /\ a[i].type = "WRITE"
    BY <1>11, <2>1 DEF Misplaced
  <2>. HIDE DEF a
  <2>. QED  BY <1>3, <1>13, <2>2, RequestStands
<1>14. ASSUME NEW T
       PROVE  SomeIn(s, T) => SomeIn(a, T) \/ SomeIn(b, T)
  <2>. DEFINE J == 1 .. n
              K == n + 1 .. Len(s)
  <2>1. 1 .. Len(s) \subseteq J \cup K
    BY <1>6, <1>7
  <2>2. (SomeIn(a, T) <=> SomeAt(s, J, T)) /\ (SomeIn(b, T) <=> SomeAt(s, K, T))
    BY <1>6, <1>7, SliceIn
  <2>. HIDE DEF J, K, a, b
  <2>. QED  BY <2>1, <2>2, AtParts
<1>15. SomeIn(b, Misplaced) => SomeIn(s, Misplaced)
  <2>1. /\ SomeIn(b, Misplaced) <=> SomeAt(s, n + 1 .. Len(s), Misplaced)
        /\ SomeAt(s, n + 1 .. Len(s), Misplaced) => SomeIn(s, Misplaced)
    <3>. HIDE DEF b, s
    <3>1. SomeIn(Rest(s, n), Misplaced) <=> SomeAt(s, n + 1 .. Len(s), Misplaced)
      BY <1>6, <1>7, SliceIn
    <3>. QED  BY <3>1 DEF b, SomeAt, SomeIn
  <2>. QED  BY <2>1
<1>. HIDE DEF a, b, V
<1>16. taken \in Seq(CheckType) /\ Len(taken) = n /\ \A i \in 1 .. n : taken[i] = V(i)
  <2>1. taken \in [1 .. n -> CheckType] /\ \A i \in 1 .. n : taken[i] = V(i)
    BY <1>12
  <2>. HIDE DEF taken
  <2>. QED  BY <1>11, <2>1, FunctionIsSeq
<1>. HIDE DEF taken
<1>17. ASSUME NEW T PROVE SomeIn(c', T) <=> SomeIn(c, T) \/ SomeIn(taken, T)
  <2>1. c \in Seq(CheckType)
    BY DEF Inv, Typed
  <2>. QED  BY <1>4, <1>16, <2>1, JoinIn
<1>18. \A w \in Uppers : OnlyWrites(chan'[w])
  <2>1. OnlyWrites(chan'[u])
    BY <1>6, <1>9, <1>10, <1>15 DEF OnlyWrites
  <2>. QED  BY <1>9, <2>1 DEF Writing
<1>19. ASSUME NEW z \in Block, Inside(z) PROVE Inside(z)'
  <2>. DEFINE T == WriteCheck(z)
              R == WriteOf(z)
  <2>1. CASE QueuedWrite(z)
    <3>1. PICK w \in Uppers : SomeIn(chan[w].WQ, R)
      BY <2>1 DEF QueuedWrite
    <3>2. CASE w = u /\ q = "WQ"
      <4>1. SomeIn(a, R) \/ SomeIn(b, R)
        BY <1>14, <3>1, <3>2
      <4>2. SomeIn(a, R) => SomeIn(taken, T)
        BY <1>11, <1>13, <1>16, <3>2 DEF SomeIn
      <4>3. SomeIn(c', T) \/ SomeIn(chan'[u].WQ, R)
        <5>. HIDE DEF T, R
        <5>. QED  BY <1>9, <1>10, <1>17, <3>2, <4>1, <4>2
      <4>. QED  BY <1>3, <4>3 DEF Inside, QueuedWrite, CheckedWrite
    <3>3. CASE ~(w = u /\ q = "WQ")
      <4>1. chan'[w].WQ = chan[w].WQ
        BY <1>9, <1>10, <3>3
      <4>. QED  BY <3>1, <4>1 DEF Inside, QueuedWrite
    <3>. QED  BY <3>2, <3>3
  <2>2. CASE CheckedWrite(z)
    BY <1>4, <1>17, <2>2 DEF Inside, CheckedWrite
  <2>3. CASE FilledWrite(z) \/ DirtyLine(z)
    BY <1>4, <2>3 DEF Inside, FilledWrite, DirtyLine
  <2>. QED  BY <1>19, <2>1, <2>2, <2>3 DEF Inside
<1>. HIDE DEF u, j, k, q, s, n, I, f, c
<1>20. Writing'
  BY <1>4, <1>18 DEF Writing
<1>. QED  BY <1>19, <1>20 DEF WritesOn, Remaining

(* An MSHR that has its data is as little a write as it was before. *)
LEMMA FinishPacketWrites ==
  ASSUME Inv, Writing, FinishPacket
  PROVE  WritesOn
<1>. DEFINE i == MatchingMSHR(Head(lower.returned))
            f == FirstUnreturned
            x == [MSHR[i] EXCEPT !.ready = FILL_LATENCY]
            s == [MSHR EXCEPT ![i] = x]
            t == Swap(s, i, f)
            N == Len(MSHR)
<1>1. i \in 1 .. N /\ f \in 1 .. i
  BY ReturnFound DEF Inv
<1>2. MSHR \in Seq(MissType) /\ N \in Nat
  BY SeqParts DEF Inv, Typed
<1>3. i # 0 /\ f # 0 /\ f \in 1 .. N
  BY <1>1, <1>2
<1>4. MSHR' = t
  BY <1>3 DEF FinishPacket
<1>5. MSHR[i] \in MissType /\ MSHR[i] \notin WriteMiss
  BY <1>1, <1>2, SeqParts DEF Writing, SomeIn
<1>6. x \in MissType /\ x \notin WriteMiss
  <2>1. FILL_LATENCY \in {Unknown} \cup 0 .. FILL_LATENCY
    BY Constants
  <2>2. x \in MissType /\ x.type = MSHR[i].type
    BY <1>5, <2>1, ReadyIs
  <2>. QED  BY <1>5, <2>2 DEF WriteMiss
<1>. HIDE DEF x, i, f
<1>7. s \in Seq(MissType) /\ Len(s) = N /\ ~SomeIn(s, WriteMiss)
  <2>1. s \in Seq(MissType) /\ Len(s) = N
    BY <1>1, <1>2, <1>6, ExceptSeq
  <2>2. SomeIn(s, WriteMiss) <=> SomeIn(MSHR, WriteMiss)
    BY <1>1, <1>2, <1>5, <1>6, ReplacedIn
  <2>. QED  BY <2>1, <2>2 DEF Writing
<1>. HIDE DEF s
<1>8. /\ t \in Seq(MissType) /\ Len(t) = N /\ t[f] = s[i] /\ t[i] = s[f]
      /\ \A k \in 1 .. N : k # i /\ k # f => t[k] = s[k]
  BY <1>1, <1>3, <1>7, SwapIs
<1>. HIDE DEF t
<1>9. ~SomeIn(t, WriteMiss)
  BY <1>1, <1>3, <1>7, <1>8 DEF SomeIn
<1>10. UNCHANGED <<chan, inflight_tag_check, translation_stash, inflight_writes, block>>
  BY DEF FinishPacket
<1>11. \A b \in Block : CheckedWrite(b) => CheckedWrite(b)'
  BY <1>10 DEF CheckedWrite
<1>. QED  BY <1>4, <1>9, <1>10, <1>11, CheckedRemains

LEMMA EndCycleWrites ==
  ASSUME Inv, Writing, EndCycle
  PROVE  WritesOn
<1>. DEFINE M(k) == [MSHR[k] EXCEPT !.ready = Sooner(@)]
            F(k) == [inflight_writes[k] EXCEPT !.ready = Sooner(@)]
            C(k) == [inflight_tag_check[k] EXCEPT !.event = Sooner(@)]
<1>1. /\ MSHR \in Seq(MissType) /\ DOMAIN MSHR = 1 .. Len(MSHR) /\ Len(MSHR) \in Nat
      /\ \A k \in 1 .. Len(MSHR) : MSHR[k] \in MissType
  BY SeqParts DEF Inv, Typed
<1>2. /\ inflight_writes \in Seq(FillType) /\ DOMAIN inflight_writes = 1 .. Len(inflight_writes)
      /\ Len(inflight_writes) \in Nat
      /\ \A k \in 1 .. Len(inflight_writes) : inflight_writes[k] \in FillType
  BY SeqParts DEF Inv, Typed
<1>3. /\ inflight_tag_check \in Seq(CheckType) /\ DOMAIN inflight_tag_check = 1 .. Len(inflight_tag_check)
      /\ Len(inflight_tag_check) \in Nat
      /\ \A k \in 1 .. Len(inflight_tag_check) : inflight_tag_check[k] \in CheckType
  BY SeqParts DEF Inv, Typed
<1>4. /\ MSHR' = [k \in 1 .. Len(MSHR) |-> M(k)]
      /\ inflight_writes' = [k \in 1 .. Len(inflight_writes) |-> F(k)]
      /\ inflight_tag_check' = [k \in 1 .. Len(inflight_tag_check) |-> C(k)]
      /\ chan' = chan /\ translation_stash' = translation_stash /\ block' = block
  BY <1>1, <1>2, <1>3 DEF EndCycle
<1>5. ~SomeIn(MSHR', WriteMiss)
  <2>1. \A k \in 1 .. Len(MSHR) : M(k) \in MissType /\ M(k).type = MSHR[k].type
    BY <1>1, SoonerMiss
  <2>2. \A k \in 1 .. Len(MSHR) : MSHR[k] \notin WriteMiss
    BY DEF Writing, SomeIn
  <2>3. \A k \in 1 .. Len(MSHR) : M(k) \in MissType /\ M(k) \notin WriteMiss
    BY <1>1, <2>1, <2>2 DEF WriteMiss
  <2>. HIDE DEF M
  <2>4. MSHR' \in [1 .. Len(MSHR) -> MissType] /\ \A k \in 1 .. Len(MSHR) : MSHR'[k] = M(k)
    BY <1>4, <2>1
  <2>5. Len(MSHR') = Len(MSHR)
    BY <1>1, <2>4, FunctionIsSeq
  <2>. QED  BY <2>3, <2>4, <2>5 DEF SomeIn
<1>6. \A b \in Block : FilledWrite(b) => FilledWrite(b)'
  <2>1. \A k \in 1 .. Len(inflight_writes) : F(k) \in FillType /\ F(k).addr = inflight_writes[k].addr
    BY <1>2, SoonerMiss DEF FillType
  <2>. HIDE DEF F
  <2>2. /\ inflight_writes' \in [1 .. Len(inflight_writes) -> FillType]
        /\ \A k \in 1 .. Len(inflight_writes) : inflight_writes'[k] = F(k)
    BY <1>4, <2>1
  <2>3. Len(inflight_writes') = Len(inflight_writes)
    BY <1>2, <2>2, FunctionIsSeq
  <2>. QED  BY <2>1, <2>2, <2>3 DEF FilledWrite, WriteFill, SomeIn
<1>7. HoldsWrites(inflight_tag_check, inflight_tag_check')
  <2>1. \A k \in 1 .. Len(inflight_tag_check) : C(k) \in CheckType /\ Stands(inflight_tag_check[k], C(k))
    BY <1>3, UpdatesStand DEF Stands
  <2>. HIDE DEF C
  <2>2. /\ inflight_tag_check' \in [1 .. Len(inflight_tag_check) -> CheckType]
        /\ \A k \in 1 .. Len(inflight_tag_check) : inflight_tag_check'[k] = C(k)
    BY <1>4, <2>1
  <2>3. Len(inflight_tag_check') = Len(inflight_tag_check)
    BY <1>3, <2>2, FunctionIsSeq
  <2>. QED  BY <2>1, <2>2, <2>3, PointwiseHolds
<1>. HIDE DEF M, F, C
<1>8. Writing'
  BY <1>4, <1>5 DEF Writing
<1>9. \A b \in Block : CheckedWrite(b) => CheckedWrite(b)'
  BY <1>4, <1>7 DEF CheckedWrite, HoldsWrites
<1>10. \A b \in Block : Inside(b) => Inside(b)'
  BY <1>4, <1>6, <1>9 DEF Inside, QueuedWrite, DirtyLine
<1>. QED  BY <1>8, <1>10 DEF WritesOn, Remaining

(* A request leaves the pipeline: what it was to write is somewhere else. *)
LEMMA CheckLeavesWrites ==
  ASSUME Inv, pc \in {"hit", "miss"}, loop.at <= loop.checks, FinishCheck,
         NEW b \in Block, CheckedWrite(b), translation_stash' = translation_stash
  PROVE  CheckedWrite(b)' \/ (Packet.type = "WRITE" /\ BlockOf[Packet.addr] = b)
<1>. DEFINE s == inflight_tag_check
            T == WriteCheck(b)
<1>1. /\ loop.at \in 1 .. Len(s) /\ Packet \in CheckType /\ Packet.tr /\ s \in Seq(CheckType) /\ Len(s) \in Nat
  BY PacketIs DEF Inv
<1>2. s' = RemoveAt(s, loop.at) /\ Packet = s[loop.at]
  BY DEF FinishCheck, Packet
<1>3. Packet \in T => Packet.type = "WRITE" /\ BlockOf[Packet.addr] = b
  BY <1>1 DEF WriteCheck, PhysicalBlock
<1>. HIDE DEF T
<1>4. Without(s, s', loop.at)
  BY <1>1, <1>2, RemovedIsWithout
<1>5. SomeIn(s, T) <=> SomeIn(s', T) \/ s[loop.at] \in T
  BY <1>1, <1>4, WithoutIn
<1>. QED  BY <1>2, <1>3, <1>5 DEF CheckedWrite, T

(* The channels of the levels above keep their writes while an answer goes up. *)
LEMMA AnswerWrites ==
  ASSUME Inv, Writing, NEW to \in SUBSET Uppers, NEW r, chan' = Answer(to, r)
  PROVE  /\ \A u \in Uppers : OnlyWrites(chan'[u])
         /\ \A b \in Block : QueuedWrite(b)' <=> QueuedWrite(b)
<1>1. ASSUME NEW u \in Uppers PROVE chan'[u].WQ = chan[u].WQ
  <2>1. chan[u] \in ChannelType
    BY ChannelsAre DEF Inv
  <2>2. chan'[u] = IF u \in to THEN [chan[u] EXCEPT !.returned = Append(@, r)] ELSE chan[u]
    BY DEF Answer
  <2>. QED  BY <2>1, <2>2 DEF ChannelType
<1>. QED  BY <1>1 DEF Writing, OnlyWrites, QueuedWrite

-----------------------------------------------------------------------------
(* A tag check that hits makes the block dirty; one that misses of a write  *)
(* becomes a write fill.                                                   *)
LEMMA TryHitWrites ==
  ASSUME Inv, Writing, TryHit
  PROVE  WritesOn
<1>. DEFINE a == Packet.addr
            c == BlockOf[a]
            s == SetOf[c]
            w == Min(HitWays(a))
            l == [block[s][w] EXCEPT !.dirty = @ \/ Packet.type = "WRITE", !.prefetch = @ /\ Packet.pf]
<1>1. /\ pc = "hit" /\ loop.at <= loop.checks /\ FinishCheck
      /\ chan' = Answer(Packet.to, [addr |-> a, v |-> Packet.v, deps |-> Packet.deps])
      /\ MSHR' = MSHR /\ inflight_writes' = inflight_writes /\ translation_stash' = translation_stash
  BY Zenon DEF TryHit, Checking
<1>2. /\ w \in Ways /\ w \in HitWays(a) /\ l \in LineType /\ block' = [block EXCEPT ![s][w] = l]
  BY Zenon, TryHitKeeps DEF Inv
<1>3. /\ s \in Sets /\ c \in Block /\ block \in [Sets -> [Ways -> LineType]]
      /\ Packet \in CheckType /\ Packet.to \in SUBSET Uppers
  BY <1>1, PacketIs, SetIs DEF Inv, Typed, CheckType, CheckFields
<1>4. HasIn(block, c, w)
  BY <1>2, HitWaysAre
<1>. HIDE DEF w
<1>11. \A b \in Block : CheckedWrite(b) => CheckedWrite(b)' \/ (Packet.type = "WRITE" /\ c = b)
  BY <1>1, CheckLeavesWrites
<1>. HIDE DEF a
<1>5. /\ l.valid = block[s][w].valid /\ l.addr = block[s][w].addr
      /\ block[s][w].dirty => l.dirty
      /\ Packet.type = "WRITE" => l.dirty
  <2>. HIDE DEF s
  <2>1. block[s][w] \in LineFields
    BY <1>2, <1>3 DEF LineType
  <2>. QED  BY <2>1 DEF LineFields
<1>. HIDE DEF l
<1>6. \A t \in Sets, v \in Ways :
        /\ block'[t][v].valid = block[t][v].valid /\ block'[t][v].addr = block[t][v].addr
        /\ block[t][v].dirty => block'[t][v].dirty
  <2>. HIDE DEF s
  <2>. QED  BY <1>2, <1>3, <1>5
<1>7. block'[s][w] = l
  <2>. HIDE DEF s
  <2>. QED  BY <1>2, <1>3
<1>8. \A b \in Block : DirtyLine(b) => DirtyLine(b)'
  <2>1. \A b \in Block : SetOf[b] \in Sets
    BY DEF Sets
  <2>. QED  BY <1>6, <2>1 DEF DirtyLine, Dirty, HasIn
<1>9. ASSUME NEW b \in Block, Packet.type = "WRITE", c = b PROVE DirtyLine(b)'
  <2>1. HasIn(block', c, w)
    BY <1>2, <1>3, <1>4, <1>6 DEF HasIn
  <2>2. HasIn(block', b, w) /\ SetOf[b] = s
    BY <1>9, <2>1
  <2>. HIDE DEF c, s
  <2>3. block'[s][w].dirty
    BY <1>5, <1>7, <1>9
  <2>. QED  BY <1>2, <2>2, <2>3 DEF DirtyLine, Dirty
<1>10. /\ \A u \in Uppers : OnlyWrites(chan'[u])
       /\ \A b \in Block : QueuedWrite(b)' <=> QueuedWrite(b)
  BY <1>1, <1>3, AnswerWrites
<1>. HIDE DEF c, s
<1>. HIDE DEF w
<1>12. Writing'
  BY <1>1, <1>10 DEF Writing
<1>13. \A b \in Block : FilledWrite(b)' = FilledWrite(b)
  BY <1>1 DEF FilledWrite
<1>14. \A b \in Block : Inside(b)' = (QueuedWrite(b)' \/ CheckedWrite(b)' \/ FilledWrite(b)' \/ DirtyLine(b)')
  BY DEF Inside
<1>15. \A b \in Block : Inside(b) => Inside(b)'
  BY <1>8, <1>9, <1>10, <1>11, <1>13, <1>14 DEF Inside
<1>. QED  BY Zenon, <1>12, <1>15 DEF WritesOn, Remaining

LEMMA HandleWriteWrites ==
  ASSUME Inv, Writing, HandleWrite
  PROVE  WritesOn
<1>. DEFINE m == MissEntry(Packet, FILL_LATENCY)
            c == BlockOf[Packet.addr]
            s == inflight_writes
<1>1. /\ pc = "miss" /\ loop.at <= loop.checks /\ FinishCheck /\ s' = Append(s, m)
      /\ Packet.type = "WRITE"
      /\ chan' = chan /\ MSHR' = MSHR /\ block' = block /\ translation_stash' = translation_stash
  BY Zenon DEF HandleWrite, Checking, IsFill
<1>2. m \in FillType /\ m.addr = Packet.addr
  <2>1. Packet \in CheckType /\ Packet.tr
    BY <1>1, PacketIs DEF Inv
  <2>2. FILL_LATENCY \in Nat /\ FILL_LATENCY \in {Unknown} \cup 0 .. FILL_LATENCY /\ FILL_LATENCY # Unknown
    BY Constants DEF Unknown
  <2>3. m \in MissType /\ m.ready = FILL_LATENCY /\ m.type = "WRITE" /\ m.addr = Packet.addr
    BY <1>1, <2>1, <2>2, MissEntryIs
  <2>. QED  BY <2>2, <2>3 DEF FillType
<1>3. s \in Seq(FillType)
  BY DEF Inv, Typed
<1>. HIDE DEF m, s
<1>4. \A b \in Block : SomeIn(s', WriteFill(b)) <=> SomeIn(s, WriteFill(b)) \/ m \in WriteFill(b)
  BY <1>1, <1>2, <1>3, AppendIn
<1>5. \A b \in Block : m \in WriteFill(b) <=> c = b
  BY <1>2 DEF WriteFill
<1>6. \A b \in Block : CheckedWrite(b) => CheckedWrite(b)' \/ c = b
  BY <1>1, CheckLeavesWrites
<1>. HIDE DEF c
<1>7. Writing'
  BY <1>1 DEF Writing
<1>8. \A b \in Block : QueuedWrite(b)' = QueuedWrite(b) /\ DirtyLine(b)' = DirtyLine(b)
  BY <1>1 DEF QueuedWrite, DirtyLine
<1>9. \A b \in Block : (FilledWrite(b) \/ c = b) <=> FilledWrite(b)'
  BY <1>4, <1>5 DEF FilledWrite, s
<1>10. \A b \in Block : Inside(b)' = (QueuedWrite(b)' \/ CheckedWrite(b)' \/ FilledWrite(b)' \/ DirtyLine(b)')
  BY DEF Inside
<1>11. \A b \in Block : Inside(b) => Inside(b)'
  BY <1>6, <1>8, <1>9, <1>10 DEF Inside
<1>. QED  BY <1>7, <1>11 DEF WritesOn, Remaining

(* A miss that is not of a write leaves the pipeline. *)
LEMMA MissWrites ==
  ASSUME Inv, Writing, pc = "miss", loop.at <= loop.checks, FinishCheck, Packet.type # "WRITE",
         chan' = chan, inflight_writes' = inflight_writes, block' = block,
         translation_stash' = translation_stash, ~SomeIn(MSHR', WriteMiss)
  PROVE  WritesOn
<1>1. \A b \in Block : CheckedWrite(b) => CheckedWrite(b)'
  BY CheckLeavesWrites
<1>. QED  BY <1>1, CheckedRemains

LEMMA MergeMissWrites ==
  ASSUME ~MATCH_OFFSET_BITS, Inv, Writing, MergeMiss
  PROVE  WritesOn
<1>. DEFINE e == Packet
            i == MatchingMSHR(e.addr)
            n == MissEntry(e, Unknown)
            x == merge(MSHR[i], n)
<1>1. /\ pc = "miss" /\ loop.at <= loop.checks /\ FinishCheck /\ i # 0 /\ e.type # "WRITE"
      /\ MSHR' = [MSHR EXCEPT ![i] = x]
      /\ chan' = chan /\ inflight_writes' = inflight_writes /\ block' = block
      /\ translation_stash' = translation_stash
  BY DEF MergeMiss, Checking, IsFill
<1>2. e \in CheckType /\ e.tr /\ e.addr \in Addr /\ MSHR \in Seq(MissType) /\ Len(MSHR) \in Nat
  BY <1>1, PacketIs, SeqParts DEF Inv, Typed
<1>3. i \in 1 .. Len(MSHR) /\ SameBlock(MSHR[i].addr, e.addr)
  <2>1. i \in 0 .. Len(MSHR) /\ SameBlock(MSHR[i].addr, e.addr)
    BY <1>1, <1>2, FirstMSHR DEF Inv
  <2>. QED  BY <1>1, <1>2, <2>1
<1>. HIDE DEF i
<1>4. MSHR[i] \in MissType /\ MSHR[i] \notin WriteMiss
  BY <1>2, <1>3, SeqParts DEF Writing, SomeIn
<1>5. x \in MissType
  BY <1>2, <1>3, <1>4, MergeIs
<1>6. x.type = IF n.type = "PREFETCH" THEN MSHR[i].type ELSE n.type
  <2>1. n \in MissFields /\ MSHR[i] \in MissFields
    BY <1>2, <1>4, MissEntryIs DEF MissType
  <2>. HIDE DEF n
  <2>. QED  BY <2>1 DEF merge, MissFields
<1>7. n.type = e.type
  BY DEF MissEntry
<1>8. x \notin WriteMiss
  BY <1>1, <1>4, <1>6, <1>7 DEF WriteMiss
<1>. HIDE DEF x
<1>9. ~SomeIn(MSHR', WriteMiss)
  BY <1>1, <1>2, <1>3, <1>4, <1>5, <1>8, ReplacedIn DEF Writing
<1>. QED  BY <1>1, <1>9, MissWrites

LEMMA ForwardMissWrites ==
  ASSUME ~MATCH_OFFSET_BITS, Inv, Writing, ForwardMiss
  PROVE  WritesOn
<1>. DEFINE e == Packet
            n == MissEntry(e, Unknown)
<1>1. /\ pc = "miss" /\ loop.at <= loop.checks /\ FinishCheck /\ e.type # "WRITE"
      /\ MSHR' = IF ResponseRequested(e) THEN Append(MSHR, n) ELSE MSHR
      /\ chan' = chan /\ inflight_writes' = inflight_writes /\ block' = block
      /\ translation_stash' = translation_stash
  BY DEF ForwardMiss, Checking, IsFill
<1>2. e \in CheckType /\ e.tr /\ MSHR \in Seq(MissType)
  BY <1>1, PacketIs DEF Inv, Typed
<1>3. n \in MissType /\ n \notin WriteMiss
  BY <1>1, <1>2, MissEntryIs DEF WriteMiss
<1>. HIDE DEF n
<1>4. SomeIn(Append(MSHR, n), WriteMiss) <=> SomeIn(MSHR, WriteMiss) \/ n \in WriteMiss
  BY <1>2, <1>3, AppendIn
<1>5. ~SomeIn(MSHR', WriteMiss)
  BY <1>1, <1>3, <1>4 DEF Writing
<1>. QED  BY <1>1, <1>5, MissWrites

-----------------------------------------------------------------------------
(* A fill: a dirty victim goes below, a write is in the block it fills.     *)
LEMMA FillKeepsDirty ==
  ASSUME Inv, NEW m \in MissType, NEW w \in Victims(m), handle_fill(m, w)
  PROVE  /\ \A b \in Block : DirtyLine(b) => DirtyLine(b)' \/ WritebackOf(b)
         /\ \A b \in Block : m.type = "WRITE" /\ BlockOf[m.addr] = b => DirtyLine(b)'
<1>. DEFINE c == BlockOf[m.addr]
            s == SetOf[c]
            l == fill_block(m)
<1>1. /\ block' = IF w = 0 THEN block ELSE [block EXCEPT ![s][w] = l]
      /\ lower' = Writeback(s, w)
  BY DEF handle_fill
<1>2. /\ c \in Block /\ s \in Sets /\ block \in [Sets -> [Ways -> LineType]]
      /\ w \in Ways \cup {0} /\ lower \in LowerType /\ lower.WQ \in Seq(Addr)
  BY SetIs, VictimsAre DEF Inv, Typed, MissType, MissFields, LowerType
<1>3. l.valid /\ l.addr = m.addr /\ l.dirty = (m.type = "WRITE")
  BY DEF fill_block
<1>4. m.type = "WRITE" => w # 0 /\ w \in Ways
  <2>1. 0 \notin Ways
    BY DEF Ways
  <2>2. ASSUME m.type = "WRITE" PROVE w \in Ways
    <3>. DEFINE free == {v \in Ways : ~block[s][v].valid}
    <3>1. w \in (IF free # {} THEN {Min(free)} ELSE Ways \cup {})
      BY <2>2 DEF Victims
    <3>2. free \subseteq Ways
      OBVIOUS
    <3>. HIDE DEF free
    <3>3. free # {} => Min(free) \in Ways
      BY <3>2, WaysAre
    <3>. QED  BY <3>1, <3>3
  <2>. QED  BY <2>1, <2>2
<1>. HIDE DEF l, s
<1>5. ASSUME NEW b \in Block, NEW v \in Ways, Dirty(block, b, v)
      PROVE  DirtyLine(b)' \/ WritebackOf(b)
  <2>1. SetOf[b] \in Sets
    BY DEF Sets
  <2>2. CASE w # 0 /\ SetOf[b] = s /\ v = w
    <3>. DEFINE a == block[s][w].addr
    <3>1. /\ NeedsWriteback(s, w) /\ BlockOf[a] = b
          /\ block[s][w] \in LineType /\ block[s][w].valid
      BY <1>2, <1>5, <2>2 DEF NeedsWriteback, Dirty, HasIn
    <3>2. a \in Addr
      BY <3>1 DEF LineType
    <3>3. lower' = [lower EXCEPT !.WQ = Append(@, a)]
      BY <1>1, <3>1 DEF Writeback
    <3>. HIDE DEF a
    <3>4. lower'.WQ = Append(lower.WQ, a)
      BY <1>2, <3>3 DEF LowerType
    <3>5. /\ Len(lower'.WQ) = Len(lower.WQ) + 1 /\ Len(lower.WQ) \in Nat
          /\ lower'.WQ[Len(lower.WQ) + 1] = a
      BY <1>2, <3>2, <3>4, AppendIs, SeqParts
    <3>6. Len(lower'.WQ) > Len(lower.WQ) /\ Last(lower'.WQ) = a
      BY <3>5 DEF Last
    <3>. QED  BY <3>1, <3>6 DEF WritebackOf
  <2>3. CASE ~(w # 0 /\ SetOf[b] = s /\ v = w)
    <3>1. block'[SetOf[b]][v] = block[SetOf[b]][v]
      BY <1>1, <1>2, <2>1, <2>3
    <3>. QED  BY <1>5, <3>1 DEF DirtyLine, Dirty, HasIn
  <2>. QED  BY <2>2, <2>3
<1>6. ASSUME NEW b \in Block, m.type = "WRITE", c = b PROVE DirtyLine(b)'
  <2>1. w \in Ways /\ SetOf[b] = s
    BY <1>4, <1>6 DEF s
  <2>2. block'[s][w] = l
    BY <1>1, <1>2, <1>4, <1>6
  <2>3. BlockOf[l.addr] = b /\ l.dirty
    BY <1>3, <1>6
  <2>. QED  BY <1>3, <2>1, <2>2, <2>3 DEF DirtyLine, Dirty, HasIn
<1>. QED  BY <1>5, <1>6 DEF DirtyLine

LEMMA FillLeaves ==
  ASSUME Inv, Writing, NEW m \in MissType, NEW w \in Victims(m), handle_fill(m, w),
         inflight_tag_check' = inflight_tag_check, translation_stash' = translation_stash,
         ~SomeIn(MSHR', WriteMiss),
         \A b \in Block : FilledWrite(b) => FilledWrite(b)' \/ (m.type = "WRITE" /\ BlockOf[m.addr] = b)
  PROVE  WritesOn
<1>. DEFINE r == [addr |-> m.addr, v |-> m.v, deps |-> m.deps]
<1>1. chan' = Answer(m.to, r) /\ m.to \in SUBSET Uppers
  BY DEF handle_fill, MissType, MissFields
<1>2. /\ \A u \in Uppers : OnlyWrites(chan'[u])
      /\ \A b \in Block : QueuedWrite(b)' <=> QueuedWrite(b)
  <2>. HIDE DEF r
  <2>. QED  BY <1>1, AnswerWrites
<1>3. /\ \A b \in Block : DirtyLine(b) => DirtyLine(b)' \/ WritebackOf(b)
      /\ \A b \in Block : m.type = "WRITE" /\ BlockOf[m.addr] = b => DirtyLine(b)'
  BY FillKeepsDirty
<1>4. \A b \in Block : CheckedWrite(b)' = CheckedWrite(b)
  BY DEF CheckedWrite
<1>5. Writing'
  BY <1>2 DEF Writing
<1>6. \A b \in Block : Inside(b)' = (QueuedWrite(b)' \/ CheckedWrite(b)' \/ FilledWrite(b)' \/ DirtyLine(b)')
  BY DEF Inside
<1>7. \A b \in Block : Inside(b) => Inside(b)' \/ WritebackOf(b)
  BY <1>2, <1>3, <1>4, <1>6 DEF Inside
<1>. QED  BY Zenon, <1>5, <1>7 DEF WritesOn, Remaining

LEMMA FillFromMSHRWrites ==
  ASSUME Inv, Writing, FillFromMSHR
  PROVE  WritesOn
<1>. DEFINE m == Head(MSHR)
<1>1. /\ MSHR # <<>> /\ MSHR' = Tail(MSHR)
      /\ \E w \in Victims(m) : handle_fill(m, w)
      /\ inflight_writes' = inflight_writes /\ inflight_tag_check' = inflight_tag_check
      /\ translation_stash' = translation_stash
  BY DEF FillFromMSHR, ReadyToFill
<1>2. MSHR \in Seq(MissType) /\ Len(MSHR) \in Nat
  BY SeqParts DEF Inv, Typed
<1>3. Without(MSHR, MSHR', 1) /\ 1 \in 1 .. Len(MSHR) /\ m \in MissType
  BY <1>1, <1>2, TailIsWithout
<1>. HIDE DEF m
<1>4. ~SomeIn(MSHR', WriteMiss)
  BY <1>2, <1>3, WithoutIn DEF Writing
<1>5. \A b \in Block : FilledWrite(b)' = FilledWrite(b)
  BY <1>1 DEF FilledWrite
<1>. QED  BY <1>1, <1>3, <1>4, <1>5, FillLeaves

LEMMA FillFromWritesWrites ==
  ASSUME Inv, Writing, FillFromWrites
  PROVE  WritesOn
<1>. DEFINE s == inflight_writes
            m == Head(s)
<1>1. /\ s # <<>> /\ s' = Tail(s)
      /\ \E w \in Victims(m) : handle_fill(m, w)
      /\ MSHR' = MSHR /\ inflight_tag_check' = inflight_tag_check
      /\ translation_stash' = translation_stash
  BY DEF FillFromWrites, ReadyToFill
<1>2. s \in Seq(FillType) /\ Len(s) \in Nat
  BY SeqParts DEF Inv, Typed
<1>3. Without(s, s', 1) /\ 1 \in 1 .. Len(s) /\ m \in FillType /\ m = s[1]
  BY <1>1, <1>2, TailIsWithout
<1>4. m \in MissType /\ m.type = "WRITE"
  BY <1>3 DEF FillType
<1>5. ASSUME NEW b \in Block, FilledWrite(b) PROVE FilledWrite(b)' \/ BlockOf[m.addr] = b
  <2>. DEFINE T == WriteFill(b)
  <2>1. m \in T => BlockOf[m.addr] = b
    BY DEF WriteFill
  <2>. HIDE DEF T
  <2>2. SomeIn(s, T) <=> SomeIn(s', T) \/ s[1] \in T
    BY <1>2, <1>3, WithoutIn
  <2>. QED  BY <1>3, <1>5, <2>1, <2>2 DEF FilledWrite, T
<1>6. ~SomeIn(MSHR', WriteMiss)
  BY <1>1 DEF Writing
<1>. HIDE DEF m, s
<1>. QED  BY <1>1, <1>4, <1>5, <1>6, FillLeaves

-----------------------------------------------------------------------------
(* The level above adds to its queues and collects its responses.          *)
LEMMA AddWrites ==
  ASSUME Inv, Writing, NEW u \in Uppers, NEW q \in QueueNames, NEW r, Add(u, q, r),
         [r EXCEPT !.checked = FALSE] \in RequestType,
         q = "WQ" => [r EXCEPT !.checked = FALSE].type = "WRITE"
  PROVE  WritesOn
<1>. DEFINE c == chan[u]
            x == [r EXCEPT !.checked = FALSE]
            s == Append(c[q], x)
            d == [c EXCEPT ![q] = s]
<1>1. c \in ChannelType
  BY ChannelsAre DEF Inv
<1>2. c[q] \in Seq(RequestType) /\ x \in RequestType /\ (q = "WQ" => x.type = "WRITE")
  BY <1>1, QueuesOf
<1>3. chan' = [chan EXCEPT ![u] = d] /\ chan \in [Uppers -> ChannelType]
  BY DEF Add, Added, Inv, Typed
<1>4. UNCHANGED <<inflight_tag_check, translation_stash, MSHR, inflight_writes, block>>
  BY DEF Add, cacheVars
<1>. HIDE DEF x
<1>5. s \in Seq(RequestType)
  BY <1>2, AppendIs
<1>6. Replaces(c, d, q, s, c.returned)
  <2>. HIDE DEF s, c
  <2>. QED  BY <1>1, <1>5, QueuesOf, QueueReplaced
<1>7. /\ OnlyWrites(d)
      /\ \A b \in Block : SomeIn(c.WQ, WriteOf(b)) => SomeIn(d.WQ, WriteOf(b))
  <2>1. CASE q # "WQ"
    <3>1. d.WQ = c.WQ
      BY <1>6, <2>1 DEF Replaces, QueueNames
    <3>. QED  BY <3>1 DEF Writing, OnlyWrites
  <2>2. CASE q = "WQ"
    <3>1. d.WQ = Append(c.WQ, x) /\ c.WQ \in Seq(RequestType)
      BY <1>2, <1>6, <2>2 DEF Replaces
    <3>2. x \notin Misplaced
      BY <1>2, <2>2 DEF Misplaced
    <3>3. ~SomeIn(c.WQ, Misplaced)
      BY DEF Writing, OnlyWrites
    <3>. HIDE DEF c, d
    <3>4. ~SomeIn(d.WQ, Misplaced)
      BY <1>2, <3>1, <3>2, <3>3, AppendIn
    <3>5. \A b \in Block : SomeIn(c.WQ, WriteOf(b)) => SomeIn(d.WQ, WriteOf(b))
      BY <1>2, <3>1, AppendIn
    <3>. QED  BY <3>4, <3>5 DEF OnlyWrites
  <2>. QED  BY <2>1, <2>2
<1>. HIDE DEF d
<1>8. \A v \in Uppers : chan'[v] = IF v = u THEN d ELSE chan[v]
  BY <1>3
<1>9. \A v \in Uppers : OnlyWrites(chan'[v])
  BY <1>7, <1>8 DEF Writing
<1>10. \A b \in Block : QueuedWrite(b) => QueuedWrite(b)'
  BY <1>7, <1>8 DEF QueuedWrite
<1>. QED  BY <1>4, <1>9, <1>10, ChannelsRemain

LEMMA UpperReadWrites ==
  ASSUME Inv, Writing, NEW i \in Ids, UpperRead(i)
  PROVE  WritesOn
<1>. DEFINE r == Request(Req[i], TRUE, {i})
            u == Req[i].from
            q == Req[i].queue
<1>1. u \in Uppers /\ q \in QueueNames /\ q # "WQ"
  BY RequestsAssumption DEF QueueNames
<1>2. [r EXCEPT !.checked = FALSE] \in RequestType
  BY ReadIs
<1>3. Add(u, q, r)
  BY DEF UpperRead
<1>. HIDE DEF r, u, q
<1>. QED  BY <1>1, <1>2, <1>3, AddWrites

LEMMA UpperWriteWrites ==
  ASSUME Inv, Writing, NEW w \in Writes, UpperWrite(w)
  PROVE  WritesOn
<1>. DEFINE r == Request(w, FALSE, {})
            u == w.from
<1>1. [r EXCEPT !.checked = FALSE] \in RequestType /\ u \in Uppers /\ "WQ" \in QueueNames
  BY WriteIs DEF QueueNames
<1>2. [r EXCEPT !.checked = FALSE].type = "WRITE"
  BY RequestsAssumption DEF Request
<1>3. Add(u, "WQ", r)
  BY DEF UpperWrite
<1>. HIDE DEF r, u
<1>. QED  BY <1>1, <1>2, <1>3, AddWrites

LEMMA UpperCollectWrites ==
  ASSUME Inv, Writing, NEW u \in Uppers, UpperCollect(u)
  PROVE  WritesOn
<1>1. chan' = [chan EXCEPT ![u].returned = Tail(@)] /\ chan \in [Uppers -> ChannelType]
  BY DEF UpperCollect, Inv, Typed
<1>2. UNCHANGED <<inflight_tag_check, translation_stash, MSHR, inflight_writes, block>>
  BY DEF UpperCollect, cacheVars
<1>3. ASSUME NEW v \in Uppers PROVE chan'[v].WQ = chan[v].WQ
  BY <1>1 DEF ChannelType
<1>4. \A v \in Uppers : OnlyWrites(chan'[v])
  BY <1>3 DEF Writing, OnlyWrites
<1>5. \A b \in Block : QueuedWrite(b) => QueuedWrite(b)'
  BY <1>3 DEF QueuedWrite
<1>. QED  BY <1>2, <1>4, <1>5, ChannelsRemain

(* Whatever happens next. *)
LEMMA NextWrites ==
  ASSUME ~MATCH_OFFSET_BITS, BlocksMapped, Inv, Inv', Writing, [Next]_vars
  PROVE  WritesOn
<1>1. CASE \/ StartFills \/ EndFills(MSHR, "fill MSHR", "fill writes")
           \/ EndFills(inflight_writes, "fill writes", "initiate") \/ StartMisses \/ TryMiss \/ RetryMiss
           \/ \E q \in {"RQ", "PQ"} : \E i \in DOMAIN lower[q] : LowerRead(q, i)
           \/ LowerWrite
           \/ \E i \in DOMAIN tlb.RQ : TlbAnswer(i)
           \/ UNCHANGED vars
  <2>1. UNCHANGED <<chan, inflight_tag_check, translation_stash, MSHR, inflight_writes, block>>
    BY <1>1 DEF StartFills, EndFills, StartMisses, TryMiss, RetryMiss, NextCheck, LowerRead, LowerWrite,
                TlbAnswer, vars, cacheVars
  <2>. QED  BY <2>1, UnmovedWrites
<1>2. CASE Operate
  <2>1. CASE CheckCollisions
    BY <2>1, CheckCollisionsWrites
  <2>2. CASE FinishPacket \/ FinishTranslation
    BY <2>2, FinishPacketWrites, FinishTranslationWrites
  <2>3. CASE FillFromMSHR \/ FillFromWrites
    BY <2>3, FillFromMSHRWrites, FillFromWritesWrites
  <2>4. CASE InitiateFromStash \/ InitiateFromChannel \/ InitiateFromPrefetches
    BY <2>4, InitiateFromStashWrites, InitiateFromChannelWrites, InitiateFromPrefetchesWrites
  <2>5. CASE IssueTranslation \/ StashUntranslated
    BY <2>5, IssueTranslationWrites, StashUntranslatedWrites
  <2>6. CASE TryHit
    BY <2>6, TryHitWrites
  <2>7. CASE HandleWrite \/ MergeMiss \/ ForwardMiss
    BY <2>7, HandleWriteWrites, MergeMissWrites, ForwardMissWrites
  <2>8. CASE EndCycle
    BY <2>8, EndCycleWrites
  <2>. QED  BY <1>1, <1>2, <2>1, <2>2, <2>3, <2>4, <2>5, <2>6, <2>7, <2>8 DEF Operate
<1>3. ASSUME NEW i \in Ids, UpperRead(i) PROVE WritesOn
  BY <1>3, UpperReadWrites
<1>4. ASSUME NEW w \in Writes, UpperWrite(w) PROVE WritesOn
  BY <1>4, UpperWriteWrites
<1>5. ASSUME NEW u \in Uppers, UpperCollect(u) PROVE WritesOn
  BY <1>5, UpperCollectWrites
<1>. QED  BY <1>1, <1>2, <1>3, <1>4, <1>5 DEF Next, Around

LEMMA WritingInit == Init => Writing
<1>. SUFFICES ASSUME Init PROVE Writing
  OBVIOUS
<1>1. Len(<<>>) = 0
  BY EmptySeq
<1>2. \A T : ~SomeIn(<<>>, T)
  BY <1>1, EmptyIn
<1>3. MSHR = <<>> /\ \A u \in Uppers : chan[u].WQ = <<>>
  BY DEF Init, EmptyChannel
<1>. QED  BY <1>2, <1>3 DEF Writing, OnlyWrites

(* What is inside is what DirtyLeavesByWriteback calls written. *)
WrittenInside == \A b \in Block : Written(b) <=> Inside(b)

LEMMA InsideIs == Inv /\ Writing => WrittenInside
<1>. SUFFICES ASSUME Inv, Writing, NEW b \in Block PROVE Written(b) <=> Inside(b)
  BY DEF WrittenInside
<1>1. (\E u \in Uppers : \E r \in ToSet(chan[u].WQ) : PhysicalBlock(r) = b) <=> QueuedWrite(b)
  <2>1. ASSUME NEW u \in Uppers
        PROVE  (\E r \in ToSet(chan[u].WQ) : PhysicalBlock(r) = b) <=> SomeIn(chan[u].WQ, WriteOf(b))
    <3>. DEFINE s == chan[u].WQ
    <3>1. s \in Seq(RequestType)
      BY ChannelsAre, QueuesOf DEF Inv, QueueNames
    <3>. HIDE DEF s
    <3>2. ToSet(s) \subseteq RequestType /\ (SomeIn(s, WriteOf(b)) <=> \E r \in ToSet(s) : r \in WriteOf(b))
      BY <3>1, SetIn
    <3>3. (\E r \in ToSet(s) : PhysicalBlock(r) = b) <=> SomeIn(s, WriteOf(b))
      BY <3>2 DEF WriteOf
    <3>. QED  BY <3>3 DEF s
  <2>. QED  BY <2>1 DEF QueuedWrite
<1>2. (\E e \in ToSet(inflight_tag_check \o translation_stash) : e.type = "WRITE" /\ PhysicalBlock(e) = b)
        <=> CheckedWrite(b)
  <2>. DEFINE s == inflight_tag_check \o translation_stash
              T == WriteCheck(b)
  <2>1. inflight_tag_check \in Seq(CheckType) /\ translation_stash \in Seq(CheckType)
    BY DEF Inv, Typed
  <2>2. s \in Seq(CheckType)
    BY <2>1, JoinIs
  <2>3. \A e \in CheckType : e \in T <=> e.type = "WRITE" /\ PhysicalBlock(e) = b
    BY DEF WriteCheck
  <2>. HIDE DEF T
  <2>4. SomeIn(s, T) <=> SomeIn(inflight_tag_check, T) \/ SomeIn(translation_stash, T)
    BY <2>1, JoinIn
  <2>5. SomeIn(s, T) <=> CheckedWrite(b)
    BY <2>4 DEF CheckedWrite, T
  <2>. HIDE DEF s
  <2>6. ToSet(s) \subseteq CheckType /\ (SomeIn(s, T) <=> \E e \in ToSet(s) : e \in T)
    BY <2>2, SetIn
  <2>7. (\E e \in ToSet(s) : e.type = "WRITE" /\ PhysicalBlock(e) = b) <=> CheckedWrite(b)
    BY <2>3, <2>5, <2>6
  <2>. QED  BY <2>7 DEF s
<1>3. (\E m \in ToSet(MSHR \o inflight_writes) : m.type = "WRITE" /\ BlockOf[m.addr] = b)
        <=> FilledWrite(b)
  <2>. DEFINE s == MSHR \o inflight_writes
              T == {m \in MissType : m.type = "WRITE" /\ BlockOf[m.addr] = b}
  <2>1. MSHR \in Seq(MissType) /\ inflight_writes \in Seq(MissType) /\ inflight_writes \in Seq(FillType)
    <3>1. inflight_writes \in Seq(FillType) /\ MSHR \in Seq(MissType) /\ FillType \subseteq MissType
      BY DEF Inv, Typed, FillType
    <3>. QED  BY <3>1, SeqMonotonic
  <2>2. s \in Seq(MissType)
    BY <2>1, JoinIs
  <2>3. ~SomeIn(MSHR, T)
    BY DEF Writing, SomeIn, WriteMiss
  <2>4. SomeIn(inflight_writes, T) <=> FilledWrite(b)
    <3>1. \A k \in 1 .. Len(inflight_writes) : inflight_writes[k] \in FillType
      BY <2>1, SeqParts
    <3>. QED  BY <3>1 DEF FilledWrite, SomeIn, WriteFill, FillType
  <2>5. \A m \in MissType : m \in T <=> m.type = "WRITE" /\ BlockOf[m.addr] = b
    OBVIOUS
  <2>. HIDE DEF T
  <2>6. SomeIn(s, T) <=> FilledWrite(b)
    BY <2>1, <2>3, <2>4, JoinIn
  <2>. HIDE DEF s
  <2>7. ToSet(s) \subseteq MissType /\ (SomeIn(s, T) <=> \E m \in ToSet(s) : m \in T)
    BY <2>2, SetIn
  <2>8. (\E m \in ToSet(s) : m.type = "WRITE" /\ BlockOf[m.addr] = b) <=> FilledWrite(b)
    BY <2>5, <2>6, <2>7
  <2>. QED  BY <2>8 DEF s
<1>4. (\E w \in Copies(b) : block[SetOf[b]][w].dirty) <=> DirtyLine(b)
  BY DEF Copies, DirtyLine, Dirty, HasIn
<1>. QED  BY Zenon, <1>1, <1>2, <1>3, <1>4 DEF Written, Inside

(* Where writes are filled without a read of the block (writebacks from the *)
(* level above), what they wrote leaves the cache only by a writeback: it   *)
(* is never dropped when writes are merged in a queue, stashed, taken from  *)
(* the pipeline, overtaken by a fill of the same set or evicted            *)
(* (handle_write, handle_fill, try_hit, initiate_tag_check).               *)
THEOREM WritesAlwaysKept ==
  ASSUME ~MATCH_OFFSET_BITS, BlocksMapped
  PROVE  Spec => DirtyLeavesByWriteback
<1>. DEFINE Leaves == \A b \in Block : Written(b) => Written(b)' \/ WritebackOf(b)
<1>1. Init => Writing
  BY WritingInit
<1>2. Inv /\ Writing => WrittenInside
  BY InsideIs
<1>3. Inv /\ Inv' /\ Writing /\ [Next]_vars => WritesOn
  BY NextWrites
<1>4. WritesOn => Writing'
  BY DEF WritesOn
<1>5. WritesOn /\ WrittenInside /\ WrittenInside' => Leaves
  <2>. SUFFICES ASSUME WritesOn, WrittenInside, WrittenInside', NEW b \in Block
                PROVE  Written(b) => Written(b)' \/ WritebackOf(b)
    OBVIOUS
  <2>1. (Written(b) <=> Inside(b)) /\ (Written(b)' <=> Inside(b)')
    BY DEF WrittenInside
  <2>. QED  BY Zenon, <2>1 DEF WritesOn, Remaining
<1>. HIDE DEF Leaves
<1>6. Spec => [][Leaves]_vars
  BY <1>1, <1>2, <1>3, <1>4, <1>5, InvHolds, PTL DEF Spec
<1>. QED  BY <1>6 DEF DirtyLeavesByWriteback, Leaves
=============================================================================
