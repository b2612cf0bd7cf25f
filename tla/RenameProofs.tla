----------------------------- MODULE RenameProofs -----------------------------
(* Proofs about Rename, for every size of its tables and every program.     *)
EXTENDS Rename, SequenceTheorems, FiniteSetTheorems, WellFoundedInduction, TLAPS

Shape == TypeOK /\ Progress /\ Budget

LEMMA NamesFit == Phys \subseteq Arch /\ Phys \subseteq Int /\ NoReg \notin Phys
BY FileAssumption, RatAssumption DEF Phys, Arch, NoReg

LEMMA InitShape == Init => Shape
<1> SUFFICES ASSUME Init PROVE Shape
  OBVIOUS
<1>1. free_registers \in Seq(Phys)
  BY FileAssumption DEF Init, Phys
<1>2. reg \in [Phys -> [arch : Arch, valid : BOOLEAN]]
  <2>1. \A p \in Phys : 0 \in Arch
    BY FileAssumption, RatAssumption DEF Phys, Arch
  <2>2. QED
    BY <2>1 DEF Init
<1>3. ROB \in Seq(EntryType) /\ Len(ROB) = 0
  BY EmptySeq DEF Init
<1>4. TypeOK
  BY <1>1, <1>2, <1>3, SizeAssumption DEF Init, TypeOK
<1>5. Progress /\ Budget
  BY <1>3 DEF Init, Progress, Budget
<1>6. QED
  BY <1>4, <1>5 DEF Shape

LEMMA DispatchShape ==
  ASSUME Shape, NEW in \in Instructions, Dispatch(in)
  PROVE  Shape'
<1>1. Entry(in) \in EntryType
  BY InstructionAssumption DEF Entry, EntryType
<1>2. /\ ROB' \in Seq(EntryType)
      /\ Len(ROB') = Len(ROB) + 1
      /\ \A i \in DOMAIN ROB' : ROB'[i] = Entry(in) \/ (i \in DOMAIN ROB /\ ROB'[i] = ROB[i])
  BY <1>1 DEF Dispatch, Shape, TypeOK
<1>3. TypeOK'
  BY <1>2, SizeAssumption DEF Dispatch, Shape, TypeOK, tables
<1>4. EntryProgress(Entry(in)) /\ Entry(in).named = 0
  <2>1. in \in [src : Seq(Arch), dst : Seq(Arch)]
    BY InstructionAssumption
  <2>2. QED
    BY <2>1 DEF EntryProgress, Entry, Size
<1>5. Progress'
  BY <1>2, <1>4 DEF Progress, Dispatch, Shape, TypeOK
<1>6. Budget'
  BY DEF Budget, Dispatch
<1>7. QED
  BY <1>3, <1>5, <1>6 DEF Shape

(* The steps of schedule_instruction that only move along the ROB.          *)
LEMMA VisitShape ==
  ASSUME Shape, StartScheduling \/ PassScheduled \/ OutOfRegisters \/ EndScheduling
  PROVE  Shape'
<1>1. /\ UNCHANGED <<retired, tables, ROB>>
      /\ pc' \in {"stages", "visit"} /\ pc # "retire"
      /\ pc \in {"stages", "visit"}
      /\ visiting' \in 0 .. ROB_SIZE + 1
      /\ pc' = "visit" => visiting' \in 1 .. Len(ROB) + 1
  BY SizeAssumption DEF StartScheduling, PassScheduled, OutOfRegisters, EndScheduling, Visiting,
     Shape, TypeOK, tables
<1>2. TypeOK'
  BY <1>1 DEF Shape, TypeOK, tables
<1>3. Progress'
  BY <1>1 DEF Shape, Progress
<1>4. Budget'
  BY <1>1 DEF Budget
<1>5. QED
  BY <1>2, <1>3, <1>4 DEF Shape

LEMMA StartRenameShape ==
  ASSUME Shape, StartRename
  PROVE  Shape'
<1> DEFINE e == ROB[visiting]
<1>1. visiting \in DOMAIN ROB /\ e \in EntryType
  BY DEF StartRename, Visiting, Shape, TypeOK, Progress
<1>2. e.named = 0
  BY <1>1 DEF StartRename, Visiting, Shape, Progress, EntryType
<1>3. TypeOK'
  BY DEF StartRename, Shape, TypeOK, tables
<1>4. Progress'
  BY <1>1 DEF StartRename, Visiting, Shape, Progress
<1>5. Budget'
  <2>1. Unmapped(e) = {k \in DOMAIN e.src : ~isAllocated(e.src[k])}
    BY <1>1, <1>2 DEF Unmapped, EntryType
  <2>2. DestsLeft(e) = Len(e.dst)
    BY <1>1, <1>2 DEF DestsLeft, EntryType
  <2>3. Len(free_registers) >= Cardinality(Unmapped(e)) + DestsLeft(e)
    BY <2>1, <2>2 DEF StartRename, HasRegisters
  <2>4. Unmapped(e)' = Unmapped(e) /\ DestsLeft(e)' = DestsLeft(e)
    BY DEF StartRename, tables, Unmapped, DestsLeft, isAllocated, Size
  <2>5. QED
    BY <2>3, <2>4 DEF Budget, StartRename, tables
<1>6. QED
  BY <1>3, <1>4, <1>5 DEF Shape

(* A step that only changes the entry at position i of the ROB.             *)
LEMMA EntryChange ==
  ASSUME ROB \in Seq(EntryType), NEW i \in DOMAIN ROB, NEW e \in EntryType,
         ROB' = [ROB EXCEPT ![i] = e]
  PROVE  /\ ROB' \in Seq(EntryType)
         /\ Len(ROB') = Len(ROB)
         /\ DOMAIN ROB' = DOMAIN ROB
         /\ ROB'[i] = e
         /\ \A j \in DOMAIN ROB : j # i => ROB'[j] = ROB[j]
OBVIOUS

LEMMA EndRenameShape ==
  ASSUME Shape, EndRename
  PROVE  Shape'
<1> DEFINE e == ROB[visiting]
           f == [e EXCEPT !.scheduled = TRUE]
<1>1. visiting \in DOMAIN ROB /\ e \in EntryType /\ EntryProgress(e)
  BY DEF EndRename, Shape, TypeOK, Progress
<1>2. f \in EntryType /\ ROB' = [ROB EXCEPT ![visiting] = f]
  BY <1>1 DEF EndRename, EntryType
<1>3. /\ ROB' \in Seq(EntryType) /\ Len(ROB') = Len(ROB) /\ DOMAIN ROB' = DOMAIN ROB
      /\ ROB'[visiting] = f
      /\ \A j \in DOMAIN ROB : j # visiting => ROB'[j] = ROB[j]
  BY <1>1, <1>2, EntryChange DEF Shape, TypeOK
<1>4. visiting' \in 1 .. Len(ROB) + 1
  BY <1>1 DEF EndRename, Shape, TypeOK
<1>5. TypeOK'
  BY <1>3, <1>4, SizeAssumption DEF EndRename, Shape, TypeOK, tables
<1>6. EntryProgress(f)
  BY <1>1 DEF EndRename, EntryProgress, EntryType, Size
<1>7. Progress'
  BY <1>1, <1>3, <1>4, <1>6 DEF EndRename, Shape, Progress
<1>8. Budget'
  BY DEF EndRename, Budget
<1>9. QED
  BY <1>5, <1>7, <1>8 DEF Shape

LEMMA ElementReplaced ==
  ASSUME NEW s \in Seq(Arch), NEW k \in DOMAIN s, NEW p \in Phys,
         NEW q, q = [s EXCEPT ![k] = p]
  PROVE  /\ q \in Seq(Arch)
         /\ Len(q) = Len(s) /\ DOMAIN q = DOMAIN s
         /\ \A j \in DOMAIN s : q[j] = IF j = k THEN p ELSE s[j]
BY NamesFit

(* An instruction after one more of its operands was renamed to p. *)
LEMMA NamedSrcType ==
  ASSUME NEW e \in EntryType, EntryProgress(e), e.named < Len(e.src), NEW p \in Phys,
         NEW f, f = NamedSrc(e, e.named + 1, p)
  PROVE  /\ f \in EntryType
         /\ EntryProgress(f)
         /\ f.dst = e.dst /\ f.named = e.named + 1 /\ f.scheduled = e.scheduled
         /\ Len(f.src) = Len(e.src) /\ DOMAIN f.src = DOMAIN e.src
         /\ \A j \in DOMAIN e.src : f.src[j] = IF j = e.named + 1 THEN p ELSE e.src[j]
<1>1. PICK q : q = [e.src EXCEPT ![e.named + 1] = p]
  OBVIOUS
<1>2. e.named + 1 \in DOMAIN e.src /\ e.src \in Seq(Arch) /\ e.named + 1 \in Nat
  BY DEF EntryType
<1>3. /\ q \in Seq(Arch)
      /\ Len(q) = Len(e.src) /\ DOMAIN q = DOMAIN e.src
      /\ \A j \in DOMAIN e.src : q[j] = IF j = e.named + 1 THEN p ELSE e.src[j]
  BY <1>1, <1>2, ElementReplaced
<1>4. f = [e EXCEPT !.src = q, !.named = e.named + 1]
  BY <1>1 DEF NamedSrc, EntryType
<1>5. f \in EntryType
  <2>1. q \in Seq(Arch) /\ e.named + 1 \in Nat
    BY <1>2, <1>3
  <2>2. QED
    BY <2>1, <1>4 DEF EntryType
<1>6. /\ f.src = q /\ f.dst = e.dst /\ f.named = e.named + 1
      /\ f.scheduled = e.scheduled /\ f.executed = e.executed /\ f.completed = e.completed
  BY <1>4 DEF EntryType
<1>7. \A j \in DOMAIN f.src : j <= f.named => f.src[j] \in Phys
  <2>1. \A j \in DOMAIN e.src : j <= e.named => e.src[j] \in Phys
    BY DEF EntryProgress
  <2>2. \A j \in DOMAIN e.src : j <= e.named + 1 => q[j] \in Phys
    BY <2>1, <1>3 DEF EntryType
  <2>3. QED
    BY <2>2, <1>3, <1>6
<1>8. \A j \in DOMAIN f.dst : j + Len(f.src) <= f.named => f.dst[j] \in Phys
  BY <1>3, <1>6 DEF EntryProgress, EntryType
<1>9. f.named <= Size(f) /\ (f.scheduled => f.named = Size(f))
  <2>1. Len(f.src) = Len(e.src) /\ Len(f.dst) = Len(e.dst)
    BY <1>3, <1>6
  <2>2. Size(f) = Len(e.src) + Len(e.dst)
    BY <2>1 DEF Size
  <2>3. e.named # Len(e.src) + Len(e.dst)
    BY DEF EntryType
  <2>4. ~e.scheduled
    BY <2>3 DEF EntryProgress, Size
  <2>5. e.named + 1 <= Len(e.src) + Len(e.dst)
    BY DEF EntryType
  <2>6. QED
    BY <2>2, <2>4, <2>5, <1>6
<1>10. (f.completed => f.executed) /\ (f.executed => f.scheduled)
  BY <1>6 DEF EntryProgress
<1>11. QED
  BY <1>3, <1>5, <1>6, <1>7, <1>8, <1>9, <1>10 DEF EntryProgress

LEMMA NamedDstType ==
  ASSUME NEW e \in EntryType, EntryProgress(e), NEW k \in 1 .. Len(e.dst),
         k + Len(e.src) = e.named + 1, NEW p \in Phys, NEW f, f = NamedDst(e, k, p)
  PROVE  /\ f \in EntryType
         /\ EntryProgress(f)
         /\ f.src = e.src /\ f.named = e.named + 1 /\ f.scheduled = e.scheduled
         /\ Len(f.dst) = Len(e.dst) /\ DOMAIN f.dst = DOMAIN e.dst
         /\ \A j \in DOMAIN e.dst : f.dst[j] = IF j = k THEN p ELSE e.dst[j]
<1>1. PICK q : q = [e.dst EXCEPT ![k] = p]
  OBVIOUS
<1>2. k \in DOMAIN e.dst /\ e.dst \in Seq(Arch) /\ e.named + 1 \in Nat
  BY DEF EntryType
<1>3. /\ q \in Seq(Arch)
      /\ Len(q) = Len(e.dst) /\ DOMAIN q = DOMAIN e.dst
      /\ \A j \in DOMAIN e.dst : q[j] = IF j = k THEN p ELSE e.dst[j]
  BY <1>1, <1>2, ElementReplaced
<1>4. f = [e EXCEPT !.dst = q, !.named = e.named + 1]
  BY <1>1 DEF NamedDst, EntryType
<1>5. f \in EntryType
  <2>1. q \in Seq(Arch) /\ e.named + 1 \in Nat
    BY <1>2, <1>3
  <2>2. QED
    BY <2>1, <1>4 DEF EntryType
<1>6. /\ f.dst = q /\ f.src = e.src /\ f.named = e.named + 1
      /\ f.scheduled = e.scheduled /\ f.executed = e.executed /\ f.completed = e.completed
  BY <1>4 DEF EntryType
<1>7. \A j \in DOMAIN f.dst : j + Len(f.src) <= f.named => f.dst[j] \in Phys
  <2>1. \A j \in DOMAIN e.dst : j + Len(e.src) <= e.named => e.dst[j] \in Phys
    BY DEF EntryProgress
  <2>2. \A j \in DOMAIN e.dst : j + Len(e.src) <= e.named + 1 => q[j] \in Phys
    BY <2>1, <1>3 DEF EntryType
  <2>3. QED
    BY <2>2, <1>3, <1>6
<1>8. \A j \in DOMAIN f.src : j <= f.named => f.src[j] \in Phys
  <2>1. \A j \in DOMAIN e.src : j <= e.named => e.src[j] \in Phys
    BY DEF EntryProgress
  <2>2. \A j \in DOMAIN e.src : j <= e.named
    BY DEF EntryType
  <2>3. QED
    BY <2>1, <2>2, <1>6
<1>9. f.named <= Size(f) /\ (f.scheduled => f.named = Size(f))
  <2>1. Len(f.src) = Len(e.src) /\ Len(f.dst) = Len(e.dst)
    BY <1>3, <1>6
  <2>2. Size(f) = Len(e.src) + Len(e.dst)
    BY <2>1 DEF Size
  <2>3. e.named # Len(e.src) + Len(e.dst)
    BY DEF EntryType
  <2>4. ~e.scheduled
    BY <2>3 DEF EntryProgress, Size
  <2>5. e.named + 1 <= Len(e.src) + Len(e.dst)
    BY DEF EntryType
  <2>6. QED
    BY <2>2, <2>4, <2>5, <1>6
<1>10. (f.completed => f.executed) /\ (f.executed => f.scheduled)
  BY <1>6 DEF EntryProgress
<1>11. QED
  BY <1>3, <1>5, <1>6, <1>7, <1>8, <1>9, <1>10 DEF EntryProgress

(* The sources of an entry that nobody has written are finitely many. *)
LEMMA UnmappedFinite ==
  ASSUME NEW e \in EntryType, NEW S, S \subseteq DOMAIN e.src
  PROVE  IsFiniteSet(S) /\ Cardinality(S) \in Nat
<1>1. IsFiniteSet(1 .. Len(e.src)) /\ DOMAIN e.src = 1 .. Len(e.src)
  BY FS_Interval DEF EntryType
<1>2. IsFiniteSet(S)
  BY <1>1, FS_Subset
<1>3. QED
  BY <1>2, FS_CardinalityType

LEMMA RenameSrcShape ==
  ASSUME Shape, rename_src_register
  PROVE  Shape'
<1> DEFINE e == ROB[visiting]
           a == e.src[e.named + 1]
<1>1. /\ pc = "rename" /\ visiting \in DOMAIN ROB /\ e \in EntryType /\ EntryProgress(e)
      /\ ~e.scheduled /\ e.named < Len(e.src)
  BY DEF rename_src_register, Shape, TypeOK, Progress
<1>2. e.named \in Nat /\ e.named + 1 \in DOMAIN e.src /\ a \in Arch
  BY <1>1 DEF EntryType
<1>3. Len(free_registers) >= Cardinality(Unmapped(e)) + DestsLeft(e)
  BY <1>1 DEF Shape, Budget
<1>4. IsFiniteSet(Unmapped(e)) /\ Cardinality(Unmapped(e)) \in Nat
  BY <1>1, UnmappedFinite DEF Unmapped
<1>5. PICK d \in Nat : d = Len(e.dst) /\ d = DestsLeft(e)
  BY <1>1 DEF DestsLeft, EntryType
<1>6. ASSUME ~isAllocated(a)
      PROVE  free_registers # <<>> /\ e.named + 1 \in Unmapped(e)
  <2>1. e.named + 1 \in Unmapped(e)
    BY <1>1, <1>2, <1>6 DEF Unmapped
  <2>2. Cardinality(Unmapped(e)) # 0
    BY <2>1, <1>4, FS_EmptySet
  <2>3. QED
    BY <2>1, <2>2, <1>3, <1>4, <1>5 DEF Shape, TypeOK
<1>7. PICK p : p = IF isAllocated(a) THEN frontend_RAT[a] ELSE Head(free_registers)
  OBVIOUS
<1>8. p \in Phys
  BY <1>2, <1>6, <1>7 DEF Shape, TypeOK, isAllocated
<1>9. PICK f : f = NamedSrc(e, e.named + 1, p)
  OBVIOUS
<1>10. /\ f \in EntryType /\ EntryProgress(f)
       /\ f.dst = e.dst /\ f.named = e.named + 1 /\ f.scheduled = e.scheduled
       /\ Len(f.src) = Len(e.src) /\ DOMAIN f.src = DOMAIN e.src
       /\ \A j \in DOMAIN e.src : f.src[j] = IF j = e.named + 1 THEN p ELSE e.src[j]
  BY <1>1, <1>8, <1>9, NamedSrcType
<1>11. ROB' = [ROB EXCEPT ![visiting] = f]
  BY <1>7, <1>9 DEF rename_src_register
<1>12. /\ ROB' \in Seq(EntryType) /\ Len(ROB') = Len(ROB) /\ DOMAIN ROB' = DOMAIN ROB
       /\ ROB'[visiting] = f
       /\ \A j \in DOMAIN ROB : j # visiting => ROB'[j] = ROB[j]
  BY <1>1, <1>10, <1>11, EntryChange DEF Shape, TypeOK
<1>13. IF isAllocated(a)
         THEN UNCHANGED tables
         ELSE /\ free_registers' = Tail(free_registers)
              /\ frontend_RAT' = [frontend_RAT EXCEPT ![a] = p]
              /\ backend_RAT' = [backend_RAT EXCEPT ![a] = p]
              /\ reg' = [reg EXCEPT ![p] = [arch |-> a, valid |-> TRUE]]
  BY <1>7 DEF rename_src_register, Renamed, NamedEntry
<1>14. /\ frontend_RAT' \in [Arch -> Phys \cup {NoReg}]
       /\ backend_RAT' \in [Arch -> Phys \cup {NoReg}]
       /\ free_registers' \in Seq(Phys)
       /\ reg' \in [Phys -> [arch : Arch, valid : BOOLEAN]]
  <2> HIDE DEF a, e
  <2>1. CASE isAllocated(a)
    BY <2>1, <1>13 DEF Shape, TypeOK, tables
  <2>2. CASE ~isAllocated(a)
    <3>1. /\ free_registers \in Seq(Phys) /\ free_registers # <<>>
          /\ reg \in [Phys -> [arch : Arch, valid : BOOLEAN]]
          /\ frontend_RAT \in [Arch -> Phys \cup {NoReg}]
          /\ backend_RAT \in [Arch -> Phys \cup {NoReg}]
      BY <2>2, <1>6 DEF Shape, TypeOK
    <3>2. /\ free_registers' = Tail(free_registers)
          /\ frontend_RAT' = [frontend_RAT EXCEPT ![a] = p]
          /\ backend_RAT' = [backend_RAT EXCEPT ![a] = p]
          /\ reg' = [reg EXCEPT ![p] = [arch |-> a, valid |-> TRUE]]
      BY <2>2, <1>13
    <3>3. free_registers' \in Seq(Phys)
      BY <3>1, <3>2, HeadTailProperties
    <3>4. QED
      BY <3>1, <3>2, <3>3, <1>2, <1>8
  <2>3. QED
    BY <2>1, <2>2
<1>15. TypeOK'
  BY <1>12, <1>14, SMTT(40) DEF rename_src_register, Shape, TypeOK
<1>16. Progress'
  BY <1>1, <1>10, <1>12 DEF rename_src_register, Shape, Progress
<1>17. DestsLeft(f) = d
  BY <1>1, <1>5, <1>10 DEF DestsLeft, EntryType
<1>18. Unmapped(f)' \subseteq Unmapped(e) \ {e.named + 1}
  <2>1. \A b \in Arch : ~isAllocated(b)' => ~isAllocated(b)
    BY <1>2, <1>8, <1>13, NamesFit DEF isAllocated, Shape, TypeOK, tables
  <2>2. \A j \in DOMAIN e.src : j > e.named + 1 =>
          f.src[j] = e.src[j] /\ j > e.named /\ j # e.named + 1 /\ e.src[j] \in Arch
    BY <1>1, <1>2, <1>10 DEF EntryType
  <2>3. QED
    BY <2>1, <2>2, <1>10 DEF Unmapped
<1>19. Len(free_registers') >= Cardinality(Unmapped(f)') + d
  <2> DEFINE U == Unmapped(e)
             V == Unmapped(f)'
             k == e.named + 1
  <2>1. /\ IsFiniteSet(U \ {k})
        /\ Cardinality(U \ {k}) = IF k \in U THEN Cardinality(U) - 1 ELSE Cardinality(U)
    BY <1>4, FS_RemoveElement
  <2>2. Cardinality(V) <= Cardinality(U \ {k}) /\ Cardinality(V) \in Nat
    BY <2>1, <1>18, FS_Subset, FS_CardinalityType
  <2>3. CASE isAllocated(a)
    <3>1. Len(free_registers') = Len(free_registers) /\ Len(free_registers) \in Nat
      BY <2>3, <1>13 DEF tables, Shape, TypeOK
    <3>2. Cardinality(V) <= Cardinality(U)
      BY <2>1, <2>2, <1>4
    <3>3. Len(free_registers) >= Cardinality(U) + d /\ Cardinality(U) \in Nat
      BY <1>3, <1>4, <1>5
    <3> HIDE DEF U, V
    <3>4. Len(free_registers') >= Cardinality(V) + d
      BY <3>1, <3>2, <3>3, <2>2, <1>4
    <3>5. QED
      BY <3>4 DEF V
  <2>4. CASE ~isAllocated(a)
    <3>1. Len(free_registers') = Len(free_registers) - 1 /\ Len(free_registers) \in Nat
      BY <2>4, <1>6, <1>13 DEF Shape, TypeOK
    <3>2. k \in U
      BY <2>4, <1>6
    <3>3. Cardinality(V) <= Cardinality(U) - 1
      BY <3>2, <2>1, <2>2, <1>4
    <3>4. Len(free_registers) >= Cardinality(U) + d /\ Cardinality(U) \in Nat
      BY <1>3, <1>4, <1>5
    <3> HIDE DEF U, V
    <3>5. Len(free_registers') >= Cardinality(V) + d
      BY <3>1, <3>3, <3>4, <2>2, <1>4
    <3>6. QED
      BY <3>5 DEF V
  <2>5. QED
    BY <2>3, <2>4
<1>20. Budget'
  <2>1. Len(free_registers') >= Cardinality(Unmapped(f)') + DestsLeft(f)
    BY <1>17, <1>19
  <2>2. ROB'[visiting'] = f
    BY <1>12 DEF rename_src_register
  <2>3. QED
    BY <2>1, <2>2 DEF Budget, Unmapped, DestsLeft, isAllocated, Size
<1>21. QED
  BY <1>15, <1>16, <1>20 DEF Shape

LEMMA RenameDestShape ==
  ASSUME Shape, rename_dest_register
  PROVE  Shape' /\ free_registers # <<>>
<1> DEFINE e == ROB[visiting]
           k == e.named + 1 - Len(e.src)
<1>1. /\ pc = "rename" /\ visiting \in DOMAIN ROB /\ e \in EntryType /\ EntryProgress(e)
      /\ ~e.scheduled /\ k \in 1 .. Len(e.dst)
  BY DEF rename_dest_register, Shape, TypeOK, Progress
<1>2. k + Len(e.src) = e.named + 1 /\ k \in DOMAIN e.dst /\ e.dst[k] \in Arch
  BY <1>1 DEF EntryType
<1>3. Len(free_registers) >= Cardinality(Unmapped(e)) + DestsLeft(e)
  BY <1>1 DEF Shape, Budget
<1>4. Unmapped(e) = {}
  <2>1. \A j \in DOMAIN e.src : j <= e.named
    BY <1>1, <1>2 DEF EntryType
  <2>2. \A j \in DOMAIN e.src : ~(j > e.named)
    BY <2>1, <1>1 DEF EntryType
  <2>3. QED
    BY <2>2 DEF Unmapped
<1>5. DestsLeft(e) \in Nat /\ DestsLeft(e) >= 1
  BY <1>1, <1>2, SMTT(40) DEF DestsLeft, Size, EntryType
<1>6. free_registers \in Seq(Phys) /\ free_registers # <<>>
  BY <1>3, <1>4, <1>5, FS_EmptySet DEF Shape, TypeOK
<1>7. PICK p \in Phys : p = Head(free_registers)
  BY <1>6
<1>8. PICK f : f = NamedDst(e, k, p)
  OBVIOUS
<1>9. /\ f \in EntryType /\ EntryProgress(f)
      /\ f.src = e.src /\ f.named = e.named + 1 /\ f.scheduled = e.scheduled
      /\ Len(f.dst) = Len(e.dst) /\ DOMAIN f.dst = DOMAIN e.dst
      /\ \A j \in DOMAIN e.dst : f.dst[j] = IF j = k THEN p ELSE e.dst[j]
  BY <1>1, <1>2, <1>8, NamedDstType
<1>10. ROB' = [ROB EXCEPT ![visiting] = f]
  BY <1>7, <1>8 DEF rename_dest_register
<1>11. /\ ROB' \in Seq(EntryType) /\ Len(ROB') = Len(ROB) /\ DOMAIN ROB' = DOMAIN ROB
       /\ ROB'[visiting] = f
       /\ \A j \in DOMAIN ROB : j # visiting => ROB'[j] = ROB[j]
  BY <1>1, <1>9, <1>10, EntryChange DEF Shape, TypeOK
<1>12. PICK a \in Arch : a = e.dst[k]
  BY <1>2
<1>13. /\ free_registers' = Tail(free_registers)
       /\ frontend_RAT' = [frontend_RAT EXCEPT ![a] = p]
       /\ reg' = [reg EXCEPT ![p] = [arch |-> a, valid |-> FALSE]]
       /\ UNCHANGED <<pc, visiting, retired, backend_RAT>>
  BY <1>7, <1>12 DEF rename_dest_register, Renamed, NamedEntry
<1>14. /\ frontend_RAT' \in [Arch -> Phys \cup {NoReg}]
       /\ free_registers' \in Seq(Phys) /\ Len(free_registers') = Len(free_registers) - 1
       /\ reg' \in [Phys -> [arch : Arch, valid : BOOLEAN]]
  <2>1. /\ reg \in [Phys -> [arch : Arch, valid : BOOLEAN]]
        /\ frontend_RAT \in [Arch -> Phys \cup {NoReg}]
    BY DEF Shape, TypeOK
  <2>2. free_registers' \in Seq(Phys) /\ Len(free_registers') = Len(free_registers) - 1
    BY <1>6, <1>13, HeadTailProperties
  <2>3. QED
    BY <2>1, <2>2, <1>13
<1>15. TypeOK'
  BY <1>11, <1>13, <1>14 DEF Shape, TypeOK
<1>16. Progress'
  BY <1>1, <1>9, <1>11, <1>13 DEF Shape, Progress
<1>17. Unmapped(f)' = {} /\ DestsLeft(f) = DestsLeft(e) - 1
  <2>1. \A j \in DOMAIN e.src : ~(j > e.named + 1)
    BY <1>1, <1>2 DEF EntryType
  <2>2. Unmapped(f)' = {}
    BY <2>1, <1>9 DEF Unmapped
  <2>3. Size(f) = Size(e)
    BY <1>9 DEF Size
  <2>4. f.named > Len(f.src)
    BY SMTT(30), <1>1, <1>2, <1>9 DEF EntryType
  <2>5. DestsLeft(f) = Size(e) - (e.named + 1)
    BY <2>3, <2>4, <1>1, <1>9 DEF DestsLeft, EntryType
  <2>6. DestsLeft(e) = Size(e) - e.named
    BY <1>1, <1>2, SMTT(40) DEF DestsLeft, Size, EntryType
  <2>7. Size(e) \in Nat /\ e.named \in Nat
    BY <1>1 DEF Size, EntryType
  <2>8. QED
    BY <2>2, <2>5, <2>6, <2>7
<1>18. Len(free_registers') >= Cardinality(Unmapped(f)') + DestsLeft(f)
  <2>1. Cardinality(Unmapped(e)) = 0 /\ Cardinality(Unmapped(f)') = 0
    BY <1>4, <1>17, FS_EmptySet
  <2>2. Len(free_registers) \in Nat
    BY <1>6
  <2>3. QED
    BY <2>1, <2>2, <1>3, <1>5, <1>14, <1>17
<1>19. Budget'
  <2>1. ROB'[visiting'] = f
    BY <1>11, <1>13
  <2>2. QED
    BY <2>1, <1>18 DEF Budget, Unmapped, DestsLeft, isAllocated, Size
<1>20. QED
  BY <1>6, <1>15, <1>16, <1>19 DEF Shape

LEMMA ExecuteShape ==
  ASSUME Shape, NEW i \in DOMAIN ROB, Execute(i)
  PROVE  Shape'
<1>1. ROB[i] \in EntryType /\ EntryProgress(ROB[i]) /\ ROB[i].scheduled
  BY DEF Execute, Shape, TypeOK, Progress
<1>2. PICK f : f = [ROB[i] EXCEPT !.executed = TRUE]
  OBVIOUS
<1>3. /\ f \in EntryType
      /\ f.src = ROB[i].src /\ f.dst = ROB[i].dst /\ f.named = ROB[i].named
      /\ f.scheduled = ROB[i].scheduled /\ f.executed = TRUE /\ f.completed = ROB[i].completed
  BY <1>1, <1>2 DEF EntryType
<1>4. EntryProgress(f)
  BY <1>1, <1>3 DEF EntryProgress, Size
<1>5. ROB' = [ROB EXCEPT ![i] = f]
  BY <1>2 DEF Execute
<1>6. /\ ROB' \in Seq(EntryType) /\ Len(ROB') = Len(ROB) /\ DOMAIN ROB' = DOMAIN ROB
      /\ ROB'[i] = f
      /\ \A j \in DOMAIN ROB : j # i => ROB'[j] = ROB[j]
  BY <1>3, <1>5, EntryChange DEF Shape, TypeOK
<1>7. TypeOK'
  BY <1>6 DEF Execute, Shape, TypeOK, tables
<1>8. Progress'
  BY <1>1, <1>3, <1>4, <1>6 DEF Execute, Shape, Progress
<1>9. Budget'
  BY DEF Execute, Budget
<1>10. QED
  BY <1>7, <1>8, <1>9 DEF Shape

LEMMA CompleteShape ==
  ASSUME Shape, NEW i \in DOMAIN ROB, Complete(i)
  PROVE  Shape'
<1>1. ROB[i] \in EntryType /\ EntryProgress(ROB[i]) /\ ROB[i].executed
  BY DEF Complete, Shape, TypeOK, Progress
<1>2. PICK f : f = [ROB[i] EXCEPT !.completed = TRUE]
  OBVIOUS
<1>3. /\ f \in EntryType
      /\ f.src = ROB[i].src /\ f.dst = ROB[i].dst /\ f.named = ROB[i].named
      /\ f.scheduled = ROB[i].scheduled /\ f.executed = ROB[i].executed /\ f.completed = TRUE
  BY <1>1, <1>2 DEF EntryType
<1>4. EntryProgress(f)
  BY <1>1, <1>3 DEF EntryProgress, Size
<1>5. ROB' = [ROB EXCEPT ![i] = f]
  BY <1>2 DEF Complete
<1>6. /\ ROB' \in Seq(EntryType) /\ Len(ROB') = Len(ROB) /\ DOMAIN ROB' = DOMAIN ROB
      /\ ROB'[i] = f
      /\ \A j \in DOMAIN ROB : j # i => ROB'[j] = ROB[j]
  BY <1>3, <1>5, EntryChange DEF Shape, TypeOK
<1>7. reg' \in [Phys -> [arch : Arch, valid : BOOLEAN]]
  BY DEF Complete, Shape, TypeOK
<1>8. TypeOK'
  BY <1>6, <1>7 DEF Complete, Shape, TypeOK
<1>9. Progress'
  BY <1>1, <1>3, <1>4, <1>6 DEF Complete, Shape, Progress
<1>10. Budget'
  BY DEF Complete, Budget
<1>11. QED
  BY <1>8, <1>9, <1>10 DEF Shape

LEMMA StartRetireShape ==
  ASSUME Shape, StartRetire
  PROVE  Shape'
<1>1. TypeOK' /\ Budget'
  BY DEF StartRetire, Shape, TypeOK, Budget, tables
<1>2. Progress'
  BY DEF StartRetire, Shape, TypeOK, Progress, EntryType
<1>3. QED
  BY <1>1, <1>2 DEF Shape

(* The head of the ROB is completed, so its destinations are physical names. *)
LEMMA RetiringName ==
  ASSUME Shape, retire_dest_register
  PROVE  /\ ROB # <<>> /\ 1 \in DOMAIN ROB /\ Head(ROB) = ROB[1]
         /\ retired + 1 \in DOMAIN ROB[1].dst
         /\ ROB[1].dst[retired + 1] \in Phys
         /\ ROB[1] \in EntryType /\ ROB[1].named = Size(ROB[1])
<1>1. pc = "retire" /\ ROB \in Seq(EntryType) /\ ROB # <<>> /\ Head(ROB).completed
  BY Zenon DEF retire_dest_register, Shape, TypeOK, Progress
<1>2. 1 \in DOMAIN ROB /\ Head(ROB) = ROB[1]
  BY <1>1
<1>3. PICK e \in EntryType : e = ROB[1]
  BY <1>1, <1>2, SMTT(40)
<1>4. EntryProgress(e) /\ e.completed /\ retired < Len(e.dst) /\ retired \in Nat
  BY <1>1, <1>2, <1>3 DEF retire_dest_register, Shape, TypeOK, Progress
<1>5. e.named = Size(e)
  BY <1>4 DEF EntryProgress
<1>6. retired + 1 \in DOMAIN e.dst
  BY <1>4 DEF EntryType
<1>7. retired + 1 + Len(e.src) <= Len(e.src) + Len(e.dst)
  BY <1>4 DEF EntryType
<1>8. e.dst[retired + 1] \in Phys
  BY <1>4, <1>5, <1>6, <1>7 DEF EntryProgress, Size
<1>9. QED
  BY <1>1, <1>2, <1>3, <1>5, <1>6, <1>8, SMTT(40)

LEMMA RetireDestShape ==
  ASSUME Shape, retire_dest_register
  PROVE  Shape'
<1>1. PICK p \in Phys : p = Head(ROB).dst[retired + 1]
  BY RetiringName
<1>2. PICK a \in Arch : a = reg[p].arch
  BY <1>1 DEF Shape, TypeOK
<1>3. PICK old \in Phys \cup {NoReg} : old = backend_RAT[a]
  BY <1>2 DEF Shape, TypeOK
<1>4. RAT_SIZE - 1 \in Arch
  BY <1>1, FileAssumption, RatAssumption DEF Arch, Phys
<1>5. /\ backend_RAT' = [backend_RAT EXCEPT ![a] = p]
      /\ free_registers' = IF old = NoReg THEN free_registers ELSE Append(free_registers, old)
      /\ reg' = IF old = NoReg THEN reg
                ELSE [reg EXCEPT ![old] = [arch |-> RAT_SIZE - 1, valid |-> FALSE]]
      /\ retired' = retired + 1
      /\ UNCHANGED <<pc, visiting, frontend_RAT, ROB>>
  BY <1>1, <1>2, <1>3 DEF retire_dest_register, Committed, Freed
<1>6. /\ backend_RAT' \in [Arch -> Phys \cup {NoReg}]
      /\ free_registers' \in Seq(Phys)
      /\ reg' \in [Phys -> [arch : Arch, valid : BOOLEAN]]
  <2>1. /\ free_registers \in Seq(Phys)
        /\ reg \in [Phys -> [arch : Arch, valid : BOOLEAN]]
        /\ backend_RAT \in [Arch -> Phys \cup {NoReg}]
    BY DEF Shape, TypeOK
  <2>2. CASE old = NoReg
    BY <2>1, <2>2, <1>5
  <2>3. CASE old # NoReg
    <3>1. old \in Phys
      BY <2>3
    <3>2. free_registers' \in Seq(Phys)
      BY <3>1, <2>1, <2>3, <1>5, AppendProperties
    <3>3. QED
      BY <3>1, <3>2, <2>1, <2>3, <1>4, <1>5
  <2>4. QED
    BY <2>2, <2>3
<1>7. TypeOK'
  BY <1>5, <1>6, SMTT(40) DEF Shape, TypeOK
<1>8. Progress'
  <2>1. retired' <= Len(Head(ROB).dst)
    BY <1>5, RetiringName, SMTT(40) DEF EntryType
  <2>2. QED
    BY <2>1, <1>5, Zenon DEF retire_dest_register, Shape, Progress
<1>9. Budget'
  BY Zenon DEF retire_dest_register, Budget
<1>10. QED
  BY <1>7, <1>8, <1>9 DEF Shape

(* The ROB without its head. *)
LEMMA TailROB ==
  ASSUME ROB \in Seq(EntryType), ROB # <<>>, ROB' = Tail(ROB)
  PROVE  /\ ROB' \in Seq(EntryType)
         /\ Len(ROB') = Len(ROB) - 1
         /\ \A i \in DOMAIN ROB' : i \in Nat \ {0} /\ i + 1 \in DOMAIN ROB /\ ROB'[i] = ROB[i + 1]
OBVIOUS

LEMMA EndRetireShape ==
  ASSUME Shape, EndRetire
  PROVE  Shape'
<1>1. ROB \in Seq(EntryType) /\ ROB # <<>> /\ ROB' = Tail(ROB)
  BY DEF EndRetire, Shape, TypeOK, Progress
<1>2. /\ ROB' \in Seq(EntryType)
      /\ Len(ROB') = Len(ROB) - 1
      /\ \A i \in DOMAIN ROB' : i \in Nat \ {0} /\ i + 1 \in DOMAIN ROB /\ ROB'[i] = ROB[i + 1]
  BY <1>1, TailROB
<1>3. TypeOK'
  BY <1>1, <1>2, SizeAssumption DEF EndRetire, Shape, TypeOK, tables
<1>4. Progress'
  BY <1>2 DEF EndRetire, Shape, Progress
<1>5. Budget'
  BY DEF EndRetire, Budget
<1>6. QED
  BY <1>3, <1>4, <1>5 DEF Shape

LEMMA NextShape == Shape /\ [Next]_vars => Shape'
<1> SUFFICES ASSUME Shape, [Next]_vars PROVE Shape'
  OBVIOUS
<1>1. ASSUME NEW in \in Instructions, Dispatch(in) PROVE Shape'
  BY <1>1, DispatchShape
<1>2. CASE StartScheduling \/ PassScheduled \/ OutOfRegisters \/ EndScheduling
  BY <1>2, VisitShape
<1>3. CASE StartRename
  BY <1>3, StartRenameShape
<1>4. CASE rename_src_register
  BY <1>4, RenameSrcShape
<1>5. CASE rename_dest_register
  BY <1>5, RenameDestShape
<1>6. CASE EndRename
  BY <1>6, EndRenameShape
<1>7. ASSUME NEW i \in DOMAIN ROB, Execute(i) PROVE Shape'
  BY <1>7, ExecuteShape
<1>8. ASSUME NEW i \in DOMAIN ROB, Complete(i) PROVE Shape'
  BY <1>8, CompleteShape
<1>9. CASE StartRetire
  BY <1>9, StartRetireShape
<1>10. CASE retire_dest_register
  BY <1>10, RetireDestShape
<1>11. CASE EndRetire
  BY <1>11, EndRetireShape
<1>12. CASE UNCHANGED vars
  BY <1>12 DEF vars, tables, Shape, TypeOK, Progress, Budget, EntryProgress, Unmapped, DestsLeft,
     Size, isAllocated
<1>13. QED
  BY <1>1, <1>2, <1>3, <1>4, <1>5, <1>6, <1>7, <1>8, <1>9, <1>10, <1>11, <1>12 DEF Next

(* Every register name the tables, the queue and the renamed instructions   *)
(* hold exists, for every size of the tables.                              *)
THEOREM TypeCorrect == Spec => []TypeOK
<1>1. Shape => TypeOK
  BY DEF Shape
<1>2. QED
  BY <1>1, InitShape, NextShape, PTL DEF Spec

(* No rename runs out of registers: the assertion of rename_dest_register   *)
(* (src/src/register_allocator.cc:18) holds, and front() is never called on *)
(* an empty queue (src/src/register_allocator.cc:35).                       *)
LEMMA ShapeAtHand == Shape => RegisterAtHand
<1> SUFFICES ASSUME Shape, pc = "rename",
                    LET e == ROB[visiting]
                    IN  \/ e.named < Len(e.src) /\ ~isAllocated(e.src[e.named + 1])
                        \/ e.named \in Len(e.src) .. Len(e.src) + Len(e.dst) - 1
             PROVE  free_registers # <<>>
  BY DEF RegisterAtHand
<1>1. PICK e \in EntryType : e = ROB[visiting]
  BY DEF Shape, TypeOK, Progress
<1>2. Len(free_registers) >= Cardinality(Unmapped(e)) + DestsLeft(e)
  BY <1>1 DEF Shape, Budget
<1>3. Cardinality(Unmapped(e)) \in Nat /\ IsFiniteSet(Unmapped(e)) /\ free_registers \in Seq(Phys)
  BY UnmappedFinite DEF Unmapped, Shape, TypeOK
<1>4. CASE e.named < Len(e.src) /\ ~isAllocated(e.src[e.named + 1])
  <2>1. e.named + 1 \in Unmapped(e)
    BY <1>4 DEF Unmapped, EntryType
  <2>2. Cardinality(Unmapped(e)) > 0
    BY <2>1, <1>3, FS_EmptySet
  <2>3. DestsLeft(e) \in Nat
    BY <1>4 DEF DestsLeft, EntryType
  <2>4. Len(free_registers) # 0
    BY <2>2, <2>3, <1>2, <1>3
  <2>5. QED
    BY <2>4, <1>3
<1>5. CASE e.named \in Len(e.src) .. Len(e.src) + Len(e.dst) - 1
  <2>1. PICK n, s, d \in Nat : n = e.named /\ s = Len(e.src) /\ d = Len(e.dst)
    BY DEF EntryType
  <2>2. n \in s .. s + d - 1
    BY <2>1, <1>5
  <2>3. DestsLeft(e) = IF n <= s THEN d ELSE s + d - n
    <3>1. DestsLeft(e) = IF e.named <= Len(e.src) THEN Len(e.dst) ELSE Len(e.src) + Len(e.dst) - e.named
      BY DEF DestsLeft, Size, EntryType
    <3>2. QED
      BY <3>1, <2>1
  <2>4. DestsLeft(e) \in Nat /\ DestsLeft(e) > 0
    BY <2>2, <2>3
  <2>5. Len(free_registers) # 0
    BY <2>4, <1>2, <1>3
  <2>6. QED
    BY <2>5, <1>3
<1>6. QED
  BY <1>1, <1>4, <1>5

THEOREM RegisterAlwaysAtHand == Spec => []RegisterAtHand
BY InitShape, NextShape, ShapeAtHand, PTL DEF Spec

-----------------------------------------------------------------------------
(* Where the physical registers are.                                        *)
-----------------------------------------------------------------------------
Placed == OnePlace /\ Mapped /\ NoLeak

LEMMA InitPlaced == Init => Placed
<1> SUFFICES ASSUME Init PROVE Placed
  OBVIOUS
<1>1. ROB = <<>> /\ DOMAIN ROB = {}
  BY DEF Init
<1>2. /\ DOMAIN free_registers = 1 .. NUM_REGISTERS
      /\ \A m \in DOMAIN free_registers : free_registers[m] = m - 1
      /\ \A a \in Arch : backend_RAT[a] = NoReg
  BY FileAssumption DEF Init
<1>3. OnePlace
  BY <1>1, <1>2, FileAssumption DEF OnePlace, FreeOnce, CommittedOnce, InFlightOnce,
     FreeNotCommitted, FreeNotInFlight, CommittedNotInFlight, NoReg
<1>4. Mapped
  BY <1>1, <1>2 DEF Mapped
<1>5. NoLeak
  <2> SUFFICES ASSUME NEW p \in Phys PROVE Free(p)
    BY DEF NoLeak
  <2>1. p + 1 \in DOMAIN free_registers /\ free_registers[p + 1] = p
    BY <1>2, FileAssumption DEF Phys
  <2>2. QED
    BY <2>1 DEF Free
<1>6. QED
  BY <1>3, <1>4, <1>5 DEF Placed

(* A step that names nothing, commits nothing and frees nothing.            *)
LEMMA SamePlaces ==
  ASSUME Placed,
         UNCHANGED <<frontend_RAT, backend_RAT, free_registers>>,
         \A i \in DOMAIN ROB : \A k \in Named(i) :
           i \in DOMAIN ROB' /\ k \in Named(i)' /\ ROB'[i].dst[k] = ROB[i].dst[k],
         \A i \in DOMAIN ROB' : \A k \in Named(i)' :
           /\ i \in DOMAIN ROB /\ k \in Named(i) /\ ROB'[i].dst[k] = ROB[i].dst[k]
           /\ reg'[ROB[i].dst[k]].arch = reg[ROB[i].dst[k]].arch
  PROVE  Placed'
<1>1. FreeOnce' /\ CommittedOnce' /\ FreeNotCommitted'
  BY DEF Placed, OnePlace, FreeOnce, CommittedOnce, FreeNotCommitted
<1>2. InFlightOnce'
  BY DEF Placed, OnePlace, InFlightOnce
<1>3. FreeNotInFlight' /\ CommittedNotInFlight'
  BY DEF Placed, OnePlace, FreeNotInFlight, CommittedNotInFlight
<1>4. Mapped'
  BY DEF Placed, Mapped, isAllocated
<1>5. NoLeak'
  <2> SUFFICES ASSUME NEW p \in Phys PROVE (Free(p) \/ IsCommitted(p) \/ IsInFlight(p))'
    BY DEF NoLeak
  <2>1. CASE Free(p) \/ IsCommitted(p)
    BY <2>1 DEF Free, IsCommitted
  <2>2. CASE IsInFlight(p)
    BY <2>2 DEF IsInFlight
  <2>3. QED
    BY <2>1, <2>2 DEF Placed, NoLeak
<1>6. QED
  BY <1>1, <1>2, <1>3, <1>4, <1>5 DEF Placed, OnePlace

(* The oldest free name is taken. *)
LEMMA NameTaken ==
  ASSUME FreeOnce, free_registers \in Seq(Phys), free_registers # <<>>,
         free_registers' = Tail(free_registers)
  PROVE  /\ 1 \in DOMAIN free_registers /\ Head(free_registers) = free_registers[1]
         /\ \A m \in DOMAIN free_registers' :
              /\ m + 1 \in DOMAIN free_registers
              /\ free_registers'[m] = free_registers[m + 1]
              /\ free_registers'[m] # Head(free_registers)
         /\ \A m \in DOMAIN free_registers :
              m = 1 \/ (m - 1 \in DOMAIN free_registers' /\ free_registers'[m - 1] = free_registers[m])
         /\ FreeOnce'
<1>1. 1 \in DOMAIN free_registers /\ Head(free_registers) = free_registers[1]
  OBVIOUS
<1>2. \A m \in DOMAIN free_registers' :
        /\ m \in Nat /\ m > 0 /\ m + 1 \in DOMAIN free_registers
        /\ free_registers'[m] = free_registers[m + 1]
  OBVIOUS
<1>3. \A m \in DOMAIN free_registers' : free_registers'[m] # Head(free_registers)
  BY <1>1, <1>2 DEF FreeOnce
<1>4. \A m \in DOMAIN free_registers :
        m = 1 \/ (m - 1 \in DOMAIN free_registers' /\ free_registers'[m - 1] = free_registers[m])
  OBVIOUS
<1>5. FreeOnce'
  BY <1>2 DEF FreeOnce
<1>6. QED
  BY <1>1, <1>2, <1>3, <1>4, <1>5

LEMMA QuietPlaced ==
  ASSUME Placed, UNCHANGED <<retired, tables, ROB>>
  PROVE  Placed'
BY SamePlaces DEF tables, Named

LEMMA InFlightNames ==
  ASSUME Shape, NEW i \in DOMAIN ROB, NEW k \in Named(i)
  PROVE  ROB[i].dst[k] \in Phys
<1>1. EntryProgress(ROB[i])
  BY DEF Shape, Progress
<1>2. k \in DOMAIN ROB[i].dst /\ k + Len(ROB[i].src) <= ROB[i].named
  BY DEF Named
<1>3. QED
  BY <1>1, <1>2 DEF EntryProgress

LEMMA DispatchPlaced ==
  ASSUME Shape, Placed, NEW in \in Instructions, Dispatch(in)
  PROVE  Placed'
<1>1. ROB \in Seq(EntryType) /\ ROB' = Append(ROB, Entry(in)) /\ retired' = retired
  BY DEF Dispatch, Shape, TypeOK
<1>2. PICK n \in Nat : n = Len(ROB)
  BY <1>1
<1>3. PICK e \in EntryType : e = Entry(in)
  BY InstructionAssumption DEF Entry, EntryType
<1>4. /\ DOMAIN ROB = 1 .. n /\ DOMAIN ROB' = 1 .. n + 1
      /\ \A i \in 1 .. n : ROB'[i] = ROB[i]
      /\ ROB'[n + 1] = e
  BY <1>1, <1>2, <1>3
<1>5. e.named = 0 /\ DOMAIN e.dst = 1 .. Len(e.dst) /\ Len(e.src) \in Nat
  BY <1>3 DEF Entry, EntryType
<1>6. \A k \in DOMAIN e.dst : ~(k + Len(e.src) <= e.named)
  BY <1>5
<1>7. Named(n + 1)' = {}
  BY <1>4, <1>6 DEF Named
<1>8. \A i \in 1 .. n : Named(i)' = Named(i)
  BY <1>1, <1>4 DEF Named
<1>9. UNCHANGED <<frontend_RAT, backend_RAT, free_registers, reg>>
  BY DEF Dispatch, tables
<1>10. \A i \in DOMAIN ROB : \A k \in Named(i) :
         i \in DOMAIN ROB' /\ k \in Named(i)' /\ ROB'[i].dst[k] = ROB[i].dst[k]
  BY <1>4, <1>8
<1>11. \A i \in DOMAIN ROB' : \A k \in Named(i)' :
         i \in DOMAIN ROB /\ k \in Named(i) /\ ROB'[i].dst[k] = ROB[i].dst[k]
  BY <1>4, <1>7, <1>8
<1>12. QED
  BY <1>9, <1>10, <1>11, SamePlaces

(* A step that changes an entry, but neither its destinations nor which of  *)
(* them are named.                                                         *)
LEMMA SameNamed ==
  ASSUME ROB \in Seq(EntryType), NEW i \in DOMAIN ROB, NEW f \in EntryType,
         ROB' = [ROB EXCEPT ![i] = f], retired' = retired, f.dst = ROB[i].dst,
         \A k \in DOMAIN f.dst :
           k + Len(f.src) <= f.named <=> k + Len(ROB[i].src) <= ROB[i].named
  PROVE  /\ DOMAIN ROB' = DOMAIN ROB
         /\ \A j \in DOMAIN ROB : Named(j)' = Named(j) /\ ROB'[j].dst = ROB[j].dst
<1>1. DOMAIN ROB' = DOMAIN ROB /\ ROB'[i] = f /\ \A j \in DOMAIN ROB : j # i => ROB'[j] = ROB[j]
  BY EntryChange
<1>2. Named(i)' = Named(i)
  BY <1>1 DEF Named
<1>3. \A j \in DOMAIN ROB : j # i => Named(j)' = Named(j)
  BY <1>1 DEF Named
<1>4. QED
  BY <1>1, <1>2, <1>3

LEMMA FlagPlaced ==
  ASSUME Shape, Placed, NEW i \in DOMAIN ROB, NEW f \in EntryType,
         ROB' = [ROB EXCEPT ![i] = f],
         f.src = ROB[i].src, f.dst = ROB[i].dst, f.named = ROB[i].named,
         UNCHANGED <<retired, frontend_RAT, backend_RAT, free_registers>>,
         \A p \in Phys : reg'[p].arch = reg[p].arch
  PROVE  Placed'
<1>1. /\ DOMAIN ROB' = DOMAIN ROB
      /\ \A j \in DOMAIN ROB : Named(j)' = Named(j) /\ ROB'[j].dst = ROB[j].dst
  BY SameNamed DEF Shape, TypeOK
<1>2. \A j \in DOMAIN ROB : \A k \in Named(j) : ROB[j].dst[k] \in Phys
  BY InFlightNames
<1>3. QED
  BY <1>1, <1>2, SamePlaces

LEMMA EndRenamePlaced ==
  ASSUME Shape, Placed, EndRename
  PROVE  Placed'
<1>1. visiting \in DOMAIN ROB /\ ROB[visiting] \in EntryType
  BY DEF EndRename, Shape, TypeOK, Progress
<1>2. PICK f : f = [ROB[visiting] EXCEPT !.scheduled = TRUE]
  OBVIOUS
<1>3. /\ f \in EntryType
      /\ f.src = ROB[visiting].src /\ f.dst = ROB[visiting].dst /\ f.named = ROB[visiting].named
  BY <1>1, <1>2 DEF EntryType
<1>4. ROB' = [ROB EXCEPT ![visiting] = f]
  BY <1>2 DEF EndRename
<1>5. UNCHANGED <<retired, frontend_RAT, backend_RAT, free_registers, reg>>
  BY DEF EndRename, tables
<1>6. QED
  BY <1>1, <1>3, <1>4, <1>5, FlagPlaced

LEMMA ExecutePlaced ==
  ASSUME Shape, Placed, NEW i \in DOMAIN ROB, Execute(i)
  PROVE  Placed'
<1>1. ROB[i] \in EntryType
  BY DEF Shape, TypeOK
<1>2. PICK f : f = [ROB[i] EXCEPT !.executed = TRUE]
  OBVIOUS
<1>3. f \in EntryType /\ f.src = ROB[i].src /\ f.dst = ROB[i].dst /\ f.named = ROB[i].named
  BY <1>1, <1>2 DEF EntryType
<1>4. ROB' = [ROB EXCEPT ![i] = f]
  BY <1>2 DEF Execute
<1>5. UNCHANGED <<retired, frontend_RAT, backend_RAT, free_registers, reg>>
  BY DEF Execute, tables
<1>6. QED
  BY <1>3, <1>4, <1>5, FlagPlaced

LEMMA CompletePlaced ==
  ASSUME Shape, Placed, NEW i \in DOMAIN ROB, Complete(i)
  PROVE  Placed'
<1>1. ROB[i] \in EntryType
  BY DEF Shape, TypeOK
<1>2. PICK f : f = [ROB[i] EXCEPT !.completed = TRUE]
  OBVIOUS
<1>3. f \in EntryType /\ f.src = ROB[i].src /\ f.dst = ROB[i].dst /\ f.named = ROB[i].named
  BY <1>1, <1>2 DEF EntryType
<1>4. ROB' = [ROB EXCEPT ![i] = f]
  BY <1>2 DEF Complete
<1>5. UNCHANGED <<retired, frontend_RAT, backend_RAT, free_registers>>
  BY DEF Complete
<1>6. \A p \in Phys : reg'[p].arch = reg[p].arch
  BY DEF Complete, Shape, TypeOK
<1>7. QED
  BY <1>3, <1>4, <1>5, <1>6, FlagPlaced

(* A register nobody has written gets a committed name, which was free.     *)
LEMMA CommitFree ==
  ASSUME Shape, Placed, NEW a \in Arch, ~isAllocated(a), NEW p \in Phys,
         free_registers # <<>>, p = Head(free_registers),
         free_registers' = Tail(free_registers),
         frontend_RAT' = [frontend_RAT EXCEPT ![a] = p],
         backend_RAT' = [backend_RAT EXCEPT ![a] = p],
         reg' = [reg EXCEPT ![p] = [arch |-> a, valid |-> TRUE]],
         DOMAIN ROB' = DOMAIN ROB,
         \A j \in DOMAIN ROB : Named(j)' = Named(j) /\ ROB'[j].dst = ROB[j].dst
  PROVE  Placed'
<1>1. /\ FreeOnce /\ CommittedOnce /\ InFlightOnce
      /\ FreeNotCommitted /\ FreeNotInFlight /\ CommittedNotInFlight
  BY DEF Placed, OnePlace
<1>2. /\ free_registers \in Seq(Phys)
      /\ backend_RAT \in [Arch -> Phys \cup {NoReg}]
      /\ frontend_RAT \in [Arch -> Phys \cup {NoReg}]
      /\ reg \in [Phys -> [arch : Arch, valid : BOOLEAN]]
  BY DEF Shape, TypeOK
<1>3. /\ 1 \in DOMAIN free_registers /\ p = free_registers[1]
      /\ \A m \in DOMAIN free_registers' :
           /\ m + 1 \in DOMAIN free_registers
           /\ free_registers'[m] = free_registers[m + 1]
           /\ free_registers'[m] # p
      /\ \A m \in DOMAIN free_registers :
           m = 1 \/ (m - 1 \in DOMAIN free_registers' /\ free_registers'[m - 1] = free_registers[m])
      /\ FreeOnce'
  BY <1>1, <1>2, NameTaken
<1>4. \A b \in Arch : backend_RAT'[b] = IF b = a THEN p ELSE backend_RAT[b]
  BY <1>2
<1>5. /\ \A b \in Arch : backend_RAT[b] # p
      /\ \A i \in DOMAIN ROB : \A k \in Named(i) : ROB[i].dst[k] # p
  BY <1>1, <1>3 DEF FreeNotCommitted, FreeNotInFlight
<1>6. backend_RAT[a] = NoReg
  BY DEF Placed, Mapped
<1>7. CommittedOnce'
  BY <1>1, <1>4, <1>5 DEF CommittedOnce
<1>8. InFlightOnce'
  BY <1>1 DEF InFlightOnce
<1>9. FreeNotCommitted'
  BY <1>1, <1>3, <1>4 DEF FreeNotCommitted
<1>10. FreeNotInFlight'
  BY <1>1, <1>3 DEF FreeNotInFlight
<1>11. CommittedNotInFlight'
  BY <1>1, <1>4, <1>5 DEF CommittedNotInFlight
<1>12. Mapped'
  <2>1. \A b \in Arch : frontend_RAT[b] # NoReg => frontend_RAT'[b] # NoReg
    BY <1>2, NamesFit
  <2>2. frontend_RAT'[a] # NoReg
    BY <1>2, NamesFit
  <2>3. \A b \in Arch : backend_RAT'[b] # NoReg => frontend_RAT'[b] # NoReg
    BY <1>4, <2>1, <2>2 DEF Placed, Mapped, isAllocated
  <2>4. ASSUME NEW i \in DOMAIN ROB, NEW k \in Named(i)
        PROVE  frontend_RAT'[reg'[ROB[i].dst[k]].arch] # NoReg
    <3>1. PICK q \in Phys : q = ROB[i].dst[k]
      BY InFlightNames
    <3>2. frontend_RAT[reg[q].arch] # NoReg /\ q # p
      BY <3>1, <1>5 DEF Placed, Mapped, isAllocated
    <3>3. reg'[q] = reg[q] /\ reg[q].arch \in Arch
      BY <3>2, <1>2
    <3>4. frontend_RAT'[reg'[q].arch] # NoReg
      BY <3>2, <3>3, <2>1
    <3>5. QED
      BY <3>1, <3>4
  <2>5. QED
    BY <2>3, <2>4 DEF Mapped, isAllocated
<1>13. NoLeak'
  <2> SUFFICES ASSUME NEW q \in Phys PROVE (Free(q) \/ IsCommitted(q) \/ IsInFlight(q))'
    BY DEF NoLeak
  <2>1. CASE Free(q)
    <3>1. PICK m \in DOMAIN free_registers : free_registers[m] = q
      BY <2>1 DEF Free
    <3>2. CASE m = 1
      BY <3>1, <3>2, <1>3, <1>4 DEF IsCommitted
    <3>3. CASE m # 1
      BY <3>1, <3>3, <1>3 DEF Free
    <3>4. QED
      BY <3>2, <3>3
  <2>2. CASE IsCommitted(q)
    BY <2>2, <1>4, <1>6, NamesFit DEF IsCommitted
  <2>3. CASE IsInFlight(q)
    BY <2>3 DEF IsInFlight
  <2>4. QED
    BY <2>1, <2>2, <2>3 DEF Placed, NoLeak
<1>14. QED
  BY <1>3, <1>7, <1>8, <1>9, <1>10, <1>11, <1>12, <1>13 DEF Placed, OnePlace

LEMMA RenameSrcPlaced ==
  ASSUME Shape, Placed, rename_src_register
  PROVE  Placed'
<1>1. PICK e \in EntryType : e = ROB[visiting]
  BY DEF rename_src_register, Shape, TypeOK, Progress
<1>2. /\ visiting \in DOMAIN ROB /\ e.named < Len(e.src) /\ EntryProgress(e)
      /\ e.named + 1 \in DOMAIN e.src
  <2>1. visiting \in DOMAIN ROB /\ e.named < Len(e.src) /\ EntryProgress(e)
    BY <1>1 DEF rename_src_register, Shape, Progress
  <2>2. e.named \in Nat /\ DOMAIN e.src = 1 .. Len(e.src) /\ Len(e.src) \in Nat
    BY DEF EntryType
  <2>3. QED
    BY <2>1, <2>2
<1>3. PICK a \in Arch : a = e.src[e.named + 1]
  BY <1>2 DEF EntryType
<1>4. PICK p : p = IF isAllocated(a) THEN frontend_RAT[a] ELSE Head(free_registers)
  OBVIOUS
<1>5. free_registers \in Seq(Phys) /\ frontend_RAT \in [Arch -> Phys \cup {NoReg}]
  BY DEF Shape, TypeOK
<1>6. ~isAllocated(a) => free_registers # <<>>
  <2>1. pc = "rename"
    BY DEF rename_src_register
  <2>2. QED
    BY <2>1, <1>1, <1>2, <1>3, ShapeAtHand DEF RegisterAtHand
<1>7. p \in Phys
  BY <1>4, <1>5, <1>6 DEF isAllocated
<1>8. PICK f \in EntryType : f = NamedSrc(e, e.named + 1, p)
  BY <1>2, <1>7, NamedSrcType
<1>9. f.dst = e.dst /\ f.named = e.named + 1 /\ Len(f.src) = Len(e.src)
  BY <1>2, <1>7, <1>8, NamedSrcType
<1>10. ROB' = [ROB EXCEPT ![visiting] = f] /\ retired' = retired
  BY <1>1, <1>3, <1>4, <1>8 DEF rename_src_register
<1>11. \A k \in DOMAIN f.dst : k + Len(f.src) <= f.named <=> k + Len(e.src) <= e.named
  <2>1. PICK n, s \in Nat : n = e.named /\ s = Len(e.src)
    BY DEF EntryType
  <2>2. DOMAIN f.dst = 1 .. Len(f.dst) /\ Len(f.dst) \in Nat
    BY DEF EntryType
  <2>3. n < s
    BY <2>1, <1>2
  <2>4. \A k \in DOMAIN f.dst : k + s <= n + 1 <=> k + s <= n
    BY <2>1, <2>2, <2>3
  <2>5. QED
    BY <2>1, <2>4, <1>9
<1>12. /\ DOMAIN ROB' = DOMAIN ROB
       /\ \A j \in DOMAIN ROB : Named(j)' = Named(j) /\ ROB'[j].dst = ROB[j].dst
  BY <1>1, <1>2, <1>9, <1>10, <1>11, SameNamed DEF Shape, TypeOK
<1>13. CASE isAllocated(a)
  <2>1. UNCHANGED <<frontend_RAT, backend_RAT, free_registers, reg>>
    BY <1>1, <1>3, <1>13 DEF rename_src_register, tables
  <2>2. QED
    BY <2>1, <1>12, SamePlaces
<1>14. CASE ~isAllocated(a)
  <2>1. /\ free_registers' = Tail(free_registers)
        /\ frontend_RAT' = [frontend_RAT EXCEPT ![a] = p]
        /\ backend_RAT' = [backend_RAT EXCEPT ![a] = p]
        /\ reg' = [reg EXCEPT ![p] = [arch |-> a, valid |-> TRUE]]
    BY <1>1, <1>3, <1>4, <1>14 DEF rename_src_register, Renamed, NamedEntry
  <2>2. p = Head(free_registers)
    BY <1>4, <1>14
  <2>3. QED
    BY <2>1, <2>2, <1>6, <1>7, <1>12, <1>14, CommitFree
<1>15. QED
  BY <1>13, <1>14

(* A destination gets a name that was free, and takes it into the ROB.      *)
LEMMA TakeFree ==
  ASSUME Shape, Placed, NEW a \in Arch, NEW p \in Phys,
         free_registers # <<>>, p = Head(free_registers),
         free_registers' = Tail(free_registers),
         frontend_RAT' = [frontend_RAT EXCEPT ![a] = p],
         backend_RAT' = backend_RAT,
         NEW v \in BOOLEAN, reg' = [reg EXCEPT ![p] = [arch |-> a, valid |-> v]],
         NEW n \in DOMAIN ROB, NEW k,
         DOMAIN ROB' = DOMAIN ROB,
         Named(n)' = Named(n) \cup {k}, k \notin Named(n),
         ROB'[n].dst[k] = p,
         \A l \in Named(n) : ROB'[n].dst[l] = ROB[n].dst[l],
         \A j \in DOMAIN ROB : j # n => Named(j)' = Named(j) /\ ROB'[j].dst = ROB[j].dst
  PROVE  Placed'
<1>1. /\ FreeOnce /\ CommittedOnce /\ InFlightOnce
      /\ FreeNotCommitted /\ FreeNotInFlight /\ CommittedNotInFlight
  BY DEF Placed, OnePlace
<1>2. /\ free_registers \in Seq(Phys)
      /\ backend_RAT \in [Arch -> Phys \cup {NoReg}]
      /\ frontend_RAT \in [Arch -> Phys \cup {NoReg}]
      /\ reg \in [Phys -> [arch : Arch, valid : BOOLEAN]]
  BY DEF Shape, TypeOK
<1>3. /\ 1 \in DOMAIN free_registers /\ p = free_registers[1]
      /\ \A m \in DOMAIN free_registers' :
           /\ m + 1 \in DOMAIN free_registers
           /\ free_registers'[m] = free_registers[m + 1]
           /\ free_registers'[m] # p
      /\ \A m \in DOMAIN free_registers :
           m = 1 \/ (m - 1 \in DOMAIN free_registers' /\ free_registers'[m - 1] = free_registers[m])
      /\ FreeOnce'
  BY <1>1, <1>2, NameTaken
<1>4. /\ \A b \in Arch : backend_RAT[b] # p
      /\ \A i \in DOMAIN ROB : \A l \in Named(i) : ROB[i].dst[l] # p
  BY <1>1, <1>3 DEF FreeNotCommitted, FreeNotInFlight
<1>5. \A i \in DOMAIN ROB' : \A l \in Named(i)' :
        \/ i = n /\ l = k /\ ROB'[i].dst[l] = p
        \/ i \in DOMAIN ROB /\ l \in Named(i) /\ ROB'[i].dst[l] = ROB[i].dst[l]
  OBVIOUS
<1>6. \A i \in DOMAIN ROB : \A l \in Named(i) :
        i \in DOMAIN ROB' /\ l \in Named(i)' /\ ROB'[i].dst[l] = ROB[i].dst[l]
  OBVIOUS
<1>7. CommittedOnce'
  BY <1>1 DEF CommittedOnce
<1>8. InFlightOnce'
  BY <1>1, <1>4, <1>5 DEF InFlightOnce
<1>9. FreeNotCommitted'
  BY <1>1, <1>3 DEF FreeNotCommitted
<1>10. FreeNotInFlight'
  BY <1>1, <1>3, <1>5 DEF FreeNotInFlight
<1>11. CommittedNotInFlight'
  BY <1>1, <1>4, <1>5 DEF CommittedNotInFlight
<1>12. Mapped'
  <2>1. \A b \in Arch : frontend_RAT[b] # NoReg => frontend_RAT'[b] # NoReg
    BY <1>2, NamesFit
  <2>2. frontend_RAT'[a] # NoReg
    BY <1>2, NamesFit
  <2>3. \A b \in Arch : backend_RAT'[b] # NoReg => frontend_RAT'[b] # NoReg
    BY <2>1 DEF Placed, Mapped, isAllocated
  <2>4. ASSUME NEW i \in DOMAIN ROB', NEW l \in Named(i)'
        PROVE  frontend_RAT'[reg'[ROB'[i].dst[l]].arch] # NoReg
    <3>1. CASE ROB'[i].dst[l] = p
      <4>1. reg'[p].arch = a
        BY <1>2
      <4>2. QED
        BY <4>1, <3>1, <2>2
    <3>2. CASE i \in DOMAIN ROB /\ l \in Named(i) /\ ROB'[i].dst[l] = ROB[i].dst[l]
      <4>1. PICK q \in Phys : q = ROB[i].dst[l]
        BY <3>2, InFlightNames
      <4>2. frontend_RAT[reg[q].arch] # NoReg /\ q # p
        BY <3>2, <4>1, <1>4 DEF Placed, Mapped, isAllocated
      <4>3. reg'[q] = reg[q] /\ reg[q].arch \in Arch
        BY <4>2, <1>2
      <4>4. frontend_RAT'[reg'[q].arch] # NoReg
        BY <4>2, <4>3, <2>1
      <4>5. QED
        BY <4>1, <4>4, <3>2
    <3>3. QED
      BY <3>1, <3>2, <1>5
  <2>5. QED
    BY <2>3, <2>4 DEF Mapped, isAllocated
<1>13. NoLeak'
  <2> SUFFICES ASSUME NEW q \in Phys PROVE (Free(q) \/ IsCommitted(q) \/ IsInFlight(q))'
    BY DEF NoLeak
  <2>1. CASE Free(q)
    <3>1. PICK m \in DOMAIN free_registers : free_registers[m] = q
      BY <2>1 DEF Free
    <3>2. CASE m = 1
      <4>1. n \in DOMAIN ROB' /\ k \in Named(n)' /\ ROB'[n].dst[k] = q
        BY <3>1, <3>2, <1>3
      <4>2. QED
        BY <4>1 DEF IsInFlight
    <3>3. CASE m # 1
      BY <3>1, <3>3, <1>3 DEF Free
    <3>4. QED
      BY <3>2, <3>3
  <2>2. CASE IsCommitted(q)
    BY <2>2 DEF IsCommitted
  <2>3. CASE IsInFlight(q)
    BY <2>3, <1>6 DEF IsInFlight
  <2>4. QED
    BY <2>1, <2>2, <2>3 DEF Placed, NoLeak
<1>14. QED
  BY <1>3, <1>7, <1>8, <1>9, <1>10, <1>11, <1>12, <1>13 DEF Placed, OnePlace

LEMMA RenameDestPlaced ==
  ASSUME Shape, Placed, rename_dest_register
  PROVE  Placed'
<1>1. PICK e \in EntryType : e = ROB[visiting]
  BY DEF rename_dest_register, Shape, TypeOK, Progress
<1>2. PICK k : k = e.named + 1 - Len(e.src)
  OBVIOUS
<1>3. k \in 1 .. Len(e.dst)
  BY <1>1, <1>2 DEF rename_dest_register
<1>4. PICK p : p = Head(free_registers)
  OBVIOUS
<1>5. free_registers # <<>> /\ p \in Phys
  BY <1>4, RenameDestShape DEF Shape, TypeOK
<1>6. visiting \in DOMAIN ROB /\ EntryProgress(e)
  BY <1>1 DEF rename_dest_register, Shape, Progress
<1>7. e.named + 1 = k + Len(e.src)
  BY <1>2 DEF EntryType
<1>8. PICK f \in EntryType : f = NamedDst(e, k, p)
  BY <1>3, <1>5, <1>6, <1>7, NamedDstType
<1>9. /\ f.src = e.src /\ f.named = e.named + 1
      /\ DOMAIN f.dst = DOMAIN e.dst
      /\ \A j \in DOMAIN e.dst : f.dst[j] = IF j = k THEN p ELSE e.dst[j]
  BY <1>3, <1>5, <1>6, <1>7, <1>8, NamedDstType
<1>10. PICK a \in Arch : a = e.dst[k]
  BY <1>3 DEF EntryType
<1>11. /\ ROB' = [ROB EXCEPT ![visiting] = f] /\ retired' = retired
       /\ free_registers' = Tail(free_registers)
       /\ frontend_RAT' = [frontend_RAT EXCEPT ![a] = p]
       /\ reg' = [reg EXCEPT ![p] = [arch |-> a, valid |-> FALSE]]
       /\ backend_RAT' = backend_RAT
  BY <1>1, <1>2, <1>4, <1>8, <1>10 DEF rename_dest_register, Renamed, NamedEntry
<1>12. /\ DOMAIN ROB' = DOMAIN ROB /\ ROB'[visiting] = f
       /\ \A j \in DOMAIN ROB : j # visiting => ROB'[j] = ROB[j]
  BY <1>6, <1>11, EntryChange DEF Shape, TypeOK
<1>13. visiting = 1 => retired = 0
  BY DEF rename_dest_register, Shape, Progress
<1>14. /\ DOMAIN e.dst = 1 .. Len(e.dst) /\ Len(e.dst) \in Nat
       /\ e.named \in Nat /\ Len(e.src) \in Nat
  BY DEF EntryType
<1>15. \A j \in DOMAIN e.dst : j > 0
  BY <1>14
<1>16. Named(visiting) = {j \in DOMAIN e.dst : j + Len(e.src) <= e.named}
  BY <1>1, <1>13, <1>15 DEF Named
<1>17. Named(visiting)' = {j \in DOMAIN e.dst : j + Len(e.src) <= e.named + 1}
  <2>1. visiting' = visiting
    BY DEF rename_dest_register
  <2>2. QED
    BY <2>1, <1>9, <1>11, <1>12, <1>13, <1>15 DEF Named
<1>18. Named(visiting)' = Named(visiting) \cup {k} /\ k \notin Named(visiting)
  <2>1. PICK n, s, d \in Nat : n = e.named /\ s = Len(e.src) /\ d = Len(e.dst)
    BY <1>14
  <2>2. n + 1 = k + s /\ k \in 1 .. d /\ DOMAIN e.dst = 1 .. d
    BY <2>1, <1>3, <1>7, <1>14
  <2>3. \A j \in 1 .. d : (j + s <= n + 1 <=> j + s <= n \/ j = k) /\ ~(k + s <= n)
    BY <2>2
  <2>4. QED
    BY <2>1, <2>2, <2>3, <1>16, <1>17
<1>19. ROB'[visiting].dst[k] = p
  BY <1>3, <1>9, <1>12, <1>14
<1>20. \A l \in Named(visiting) : ROB'[visiting].dst[l] = ROB[visiting].dst[l]
  BY <1>1, <1>9, <1>12, <1>16, <1>18
<1>21. \A j \in DOMAIN ROB : j # visiting => Named(j)' = Named(j) /\ ROB'[j].dst = ROB[j].dst
  BY <1>11, <1>12 DEF Named
<1>22. visiting' = visiting
  BY DEF rename_dest_register
<1>23. PICK n \in DOMAIN ROB : n = visiting
  BY <1>6
<1>24. Named(n)' = Named(n) \cup {k}
  BY <1>18, <1>22, <1>23 DEF Named
<1>25. QED
  BY <1>4, <1>5, <1>11, <1>12, <1>18, <1>19, <1>20, <1>21, <1>23, <1>24, TakeFree

(* A destination of the head becomes the committed name of its register,    *)
(* and the name that register had, if any, is freed.                       *)
LEMMA CommitInFlight ==
  ASSUME Shape, Placed, 1 \in DOMAIN ROB, NEW k \in Named(1),
         NEW p \in Phys, p = ROB[1].dst[k],
         NEW a \in Arch, a = reg[p].arch,
         NEW old, old = backend_RAT[a],
         backend_RAT' = [backend_RAT EXCEPT ![a] = p],
         frontend_RAT' = frontend_RAT,
         free_registers' = IF old = NoReg THEN free_registers ELSE Append(free_registers, old),
         \A q \in Phys : q # old => reg'[q] = reg[q],
         ROB' = ROB,
         Named(1)' = Named(1) \ {k},
         \A j \in DOMAIN ROB : j # 1 => Named(j)' = Named(j)
  PROVE  Placed'
<1>1. /\ FreeOnce /\ CommittedOnce /\ InFlightOnce
      /\ FreeNotCommitted /\ FreeNotInFlight /\ CommittedNotInFlight
  BY DEF Placed, OnePlace
<1>2. /\ free_registers \in Seq(Phys)
      /\ backend_RAT \in [Arch -> Phys \cup {NoReg}]
  BY DEF Shape, TypeOK
<1>3. \A b \in Arch : backend_RAT'[b] = IF b = a THEN p ELSE backend_RAT[b]
  BY <1>2
<1>4. /\ \A b \in Arch : backend_RAT[b] # p
      /\ \A m \in DOMAIN free_registers : free_registers[m] # p
  BY <1>1 DEF CommittedNotInFlight, FreeNotInFlight
<1>5. \A j \in DOMAIN ROB : \A l \in Named(j)' : l \in Named(j) /\ ROB[j].dst[l] # p
  BY <1>1 DEF InFlightOnce
<1>6. \A j \in DOMAIN ROB : \A l \in Named(j) : l \in Named(j)' \/ ROB[j].dst[l] = p
  OBVIOUS
<1>7. \A j \in DOMAIN ROB : \A l \in Named(j) : ROB[j].dst[l] # old
  BY <1>1 DEF CommittedNotInFlight
<1>8. old # NoReg =>
        /\ \A m \in DOMAIN free_registers : free_registers[m] # old
        /\ \A b \in Arch : b # a => backend_RAT[b] # old
  BY <1>1, SMTT(40) DEF FreeNotCommitted, CommittedOnce
<1>9. /\ \A m \in DOMAIN free_registers' :
           \/ m \in DOMAIN free_registers /\ free_registers'[m] = free_registers[m]
           \/ old # NoReg /\ m = Len(free_registers) + 1 /\ free_registers'[m] = old
      /\ \A m \in DOMAIN free_registers :
           m \in DOMAIN free_registers' /\ free_registers'[m] = free_registers[m]
      /\ old # NoReg => Len(free_registers) + 1 \in DOMAIN free_registers'
                        /\ free_registers'[Len(free_registers) + 1] = old
  <2>1. CASE old = NoReg
    BY <2>1, SMTT(40)
  <2>2. CASE old # NoReg
    <3>1. old \in Phys /\ free_registers' = Append(free_registers, old)
      BY <2>2, <1>2
    <3>2. PICK n \in Nat : n = Len(free_registers)
      BY <1>2
    <3>3. /\ DOMAIN free_registers = 1 .. n /\ DOMAIN free_registers' = 1 .. n + 1
          /\ \A m \in 1 .. n : free_registers'[m] = free_registers[m]
          /\ free_registers'[n + 1] = old
      BY <3>1, <3>2, <1>2
    <3>4. QED
      BY SMTT(30), <3>2, <3>3, <2>2
  <2>3. QED
    BY <2>1, <2>2
<1>10. FreeOnce'
  <2> SUFFICES ASSUME NEW m \in DOMAIN free_registers', NEW n \in DOMAIN free_registers',
                      free_registers'[m] = free_registers'[n]
               PROVE  m = n
    BY DEF FreeOnce
  <2>1. CASE /\ m \in DOMAIN free_registers /\ free_registers'[m] = free_registers[m]
             /\ n \in DOMAIN free_registers /\ free_registers'[n] = free_registers[n]
    BY <2>1, <1>1, SMTT(40) DEF FreeOnce
  <2>2. CASE /\ m \in DOMAIN free_registers /\ free_registers'[m] = free_registers[m]
             /\ old # NoReg /\ free_registers'[n] = old
    BY <2>2, <1>8, SMTT(40)
  <2>3. CASE /\ n \in DOMAIN free_registers /\ free_registers'[n] = free_registers[n]
             /\ old # NoReg /\ free_registers'[m] = old
    BY <2>3, <1>8
  <2>4. CASE m = Len(free_registers) + 1 /\ n = Len(free_registers) + 1
    BY <2>4
  <2>5. /\ \/ m \in DOMAIN free_registers /\ free_registers'[m] = free_registers[m]
           \/ old # NoReg /\ m = Len(free_registers) + 1 /\ free_registers'[m] = old
        /\ \/ n \in DOMAIN free_registers /\ free_registers'[n] = free_registers[n]
           \/ old # NoReg /\ n = Len(free_registers) + 1 /\ free_registers'[n] = old
    BY ONLY <1>9, m \in DOMAIN free_registers', n \in DOMAIN free_registers'
  <2>6. QED
    BY <2>1, <2>2, <2>3, <2>4, <2>5, Zenon
<1>11. CommittedOnce'
  BY <1>1, <1>3, <1>4 DEF CommittedOnce
<1>12. InFlightOnce'
  BY <1>1, <1>5, SMTT(40) DEF InFlightOnce
<1>13. FreeNotCommitted'
  <2> SUFFICES ASSUME NEW m \in DOMAIN free_registers', NEW b \in Arch
               PROVE  backend_RAT'[b] # free_registers'[m]
    BY DEF FreeNotCommitted
  <2>1. CASE m \in DOMAIN free_registers /\ free_registers'[m] = free_registers[m]
    BY <2>1, <1>1, <1>3, <1>4, SMTT(40) DEF FreeNotCommitted
  <2>2. CASE old # NoReg /\ free_registers'[m] = old
    BY SMTT(30), <2>2, <1>3, <1>4, <1>8
  <2>3. QED
    BY <2>1, <2>2, <1>9
<1>14. FreeNotInFlight'
  BY SMTT(30), <1>1, <1>5, <1>7, <1>9 DEF FreeNotInFlight
<1>15. CommittedNotInFlight'
  BY <1>1, <1>3, <1>5 DEF CommittedNotInFlight
<1>16. Mapped'
  <2>1. frontend_RAT[a] # NoReg
    BY DEF Placed, Mapped, isAllocated
  <2>2. \A b \in Arch : backend_RAT'[b] # NoReg => frontend_RAT'[b] # NoReg
    BY <2>1, <1>3 DEF Placed, Mapped, isAllocated
  <2>3. ASSUME NEW i \in DOMAIN ROB, NEW l \in Named(i)'
        PROVE  frontend_RAT'[reg'[ROB[i].dst[l]].arch] # NoReg
    <3>1. l \in Named(i)
      BY <1>5, <2>3
    <3>2. PICK q \in Phys : q = ROB[i].dst[l]
      BY <3>1, InFlightNames
    <3>3. reg'[q] = reg[q] /\ frontend_RAT[reg[q].arch] # NoReg
      BY <3>1, <3>2, <1>7 DEF Placed, Mapped, isAllocated
    <3>4. QED
      BY <3>2, <3>3
  <2>4. QED
    BY <2>2, <2>3 DEF Mapped, isAllocated
<1>17. NoLeak'
  <2> SUFFICES ASSUME NEW q \in Phys PROVE (Free(q) \/ IsCommitted(q) \/ IsInFlight(q))'
    BY DEF NoLeak
  <2>1. CASE Free(q)
    BY <2>1, <1>9 DEF Free
  <2>2. CASE IsCommitted(q)
    <3>1. PICK b \in Arch : backend_RAT[b] = q
      BY <2>2 DEF IsCommitted
    <3>2. CASE b = a
      <4>1. old = q /\ old # NoReg
        BY <3>1, <3>2, NamesFit
      <4>2. QED
        BY <4>1, <1>9 DEF Free
    <3>3. CASE b # a
      BY <3>1, <3>3, <1>3 DEF IsCommitted
    <3>4. QED
      BY <3>2, <3>3
  <2>3. CASE IsInFlight(q)
    <3>1. PICK i \in DOMAIN ROB : \E l \in Named(i) : ROB[i].dst[l] = q
      BY <2>3 DEF IsInFlight
    <3> PICK l \in Named(i) : ROB[i].dst[l] = q
      BY <3>1
    <3>2. CASE l \in Named(i)'
      BY <3>1, <3>2 DEF IsInFlight
    <3>3. CASE q = p
      BY <3>3, <1>3 DEF IsCommitted
    <3>4. QED
      BY <3>1, <3>2, <3>3, <1>6
  <2>4. QED
    BY <2>1, <2>2, <2>3 DEF Placed, NoLeak
<1>18. QED
  BY <1>10, <1>11, <1>12, <1>13, <1>14, <1>15, <1>16, <1>17 DEF Placed, OnePlace

LEMMA RetireDestPlaced ==
  ASSUME Shape, Placed, retire_dest_register
  PROVE  Placed'
<1>1. PICK k \in DOMAIN ROB[1].dst : k = retired + 1
  BY RetiringName
<1>2. PICK p \in Phys : p = ROB[1].dst[k]
  BY <1>1, RetiringName
<1>3. PICK a \in Arch : a = reg[p].arch
  BY DEF Shape, TypeOK
<1>4. PICK old \in Phys \cup {NoReg} : old = backend_RAT[a]
  BY DEF Shape, TypeOK
<1>5. 1 \in DOMAIN ROB /\ Head(ROB) = ROB[1] /\ retired \in Nat
  BY RetiringName DEF Shape, TypeOK
<1>6. /\ backend_RAT' = [backend_RAT EXCEPT ![a] = p]
      /\ free_registers' = IF old = NoReg THEN free_registers ELSE Append(free_registers, old)
      /\ reg' = IF old = NoReg THEN reg
                ELSE [reg EXCEPT ![old] = [arch |-> RAT_SIZE - 1, valid |-> FALSE]]
      /\ retired' = retired + 1
      /\ frontend_RAT' = frontend_RAT /\ ROB' = ROB
  BY <1>1, <1>2, <1>3, <1>4, <1>5 DEF retire_dest_register, Committed, Freed
<1>7. \A q \in Phys : q # old => reg'[q] = reg[q]
  BY <1>6 DEF Shape, TypeOK
<1>8. PICK e \in EntryType : e = ROB[1] /\ e.named = Size(e)
  BY RetiringName
<1>9. \A l \in DOMAIN e.dst : l + Len(e.src) <= e.named /\ l \in Nat
  <2>1. DOMAIN e.dst = 1 .. Len(e.dst) /\ Len(e.dst) \in Nat /\ Len(e.src) \in Nat
    BY DEF EntryType
  <2>2. PICK s, d \in Nat : s = Len(e.src) /\ d = Len(e.dst)
    BY <2>1
  <2>3. e.named = s + d /\ DOMAIN e.dst = 1 .. d
    BY <2>1, <2>2, <1>8 DEF Size
  <2>4. \A l \in 1 .. d : l + s <= s + d /\ l \in Nat
    OBVIOUS
  <2>5. QED
    BY <2>2, <2>3, <2>4
<1>10. Named(1) = {l \in DOMAIN e.dst : l > retired}
  BY <1>8, <1>9 DEF Named
<1>11. Named(1)' = {l \in DOMAIN e.dst : l > retired + 1}
  BY <1>6, <1>8, <1>9 DEF Named
<1>12. k \in Named(1) /\ Named(1)' = Named(1) \ {k}
  <2>1. \A l \in DOMAIN e.dst : l > retired + 1 <=> l > retired /\ l # k
    BY <1>1, <1>5, <1>9
  <2>2. QED
    BY <2>1, <1>1, <1>5, <1>8, <1>10, <1>11
<1>13. \A j \in DOMAIN ROB : j # 1 => Named(j)' = Named(j)
  BY <1>6 DEF Named
<1>14. /\ p = ROB[1].dst[k] /\ a = reg[p].arch /\ old = backend_RAT[a]
       /\ 1 \in DOMAIN ROB /\ k \in Named(1) /\ Named(1)' = Named(1) \ {k}
  BY <1>2, <1>3, <1>4, <1>5, <1>12
<1>15. QED
  BY <1>6, <1>7, <1>13, <1>14, CommitInFlight, ZenonT(60)

(* The head leaves with every destination committed. *)
LEMMA EndRetirePlaced ==
  ASSUME Shape, Placed, EndRetire
  PROVE  Placed'
<1>1. /\ ROB \in Seq(EntryType) /\ ROB # <<>> /\ ROB' = Tail(ROB) /\ Head(ROB) = ROB[1]
      /\ retired' = 0
      /\ UNCHANGED <<frontend_RAT, backend_RAT, free_registers, reg>>
  BY DEF EndRetire, Shape, TypeOK, Progress, tables
<1>2. \A i \in DOMAIN ROB' : i \in Nat \ {0} /\ i + 1 \in DOMAIN ROB /\ ROB'[i] = ROB[i + 1]
  BY <1>1, TailROB
<1>3. \A i \in DOMAIN ROB : i = 1 \/ (i \in Nat /\ i - 1 \in DOMAIN ROB' /\ ROB'[i - 1] = ROB[i])
  BY <1>1
<1>4. Named(1) = {}
  <2>1. PICK e \in EntryType : e = ROB[1]
    BY <1>1
  <2>2. retired = Len(e.dst)
    BY <2>1, <1>1 DEF EndRetire
  <2>3. \A k \in DOMAIN e.dst : ~(k > retired)
    BY <2>2 DEF EntryType
  <2>4. QED
    BY <2>1, <2>3 DEF Named
<1>5. \A i \in DOMAIN ROB : \A k \in DOMAIN ROB[i].dst : k > 0
  <2>1. \A i \in DOMAIN ROB : ROB[i] \in EntryType
    BY <1>1
  <2>2. \A e \in EntryType : \A k \in DOMAIN e.dst : k > 0
    BY DEF EntryType
  <2>3. QED
    BY <2>1, <2>2
<1>6. \A i \in DOMAIN ROB' : i + 1 # 1 /\ Named(i)' = Named(i + 1)
  BY <1>1, <1>2, <1>5 DEF Named
<1>7. \A i \in DOMAIN ROB' : \A k \in Named(i)' :
        /\ i + 1 \in DOMAIN ROB /\ k \in Named(i + 1) /\ ROB'[i].dst[k] = ROB[i + 1].dst[k]
  BY <1>2, <1>6
<1>8. \A i \in DOMAIN ROB : \A k \in Named(i) :
        /\ i - 1 \in DOMAIN ROB' /\ k \in Named(i - 1)' /\ ROB'[i - 1].dst[k] = ROB[i].dst[k]
  <2> SUFFICES ASSUME NEW i \in DOMAIN ROB, NEW k \in Named(i)
               PROVE  i - 1 \in DOMAIN ROB' /\ k \in Named(i - 1)' /\ ROB'[i - 1].dst[k] = ROB[i].dst[k]
    OBVIOUS
  <2>1. i # 1
    BY <1>4
  <2>2. PICK j \in DOMAIN ROB' : j = i - 1 /\ ROB'[j] = ROB[i] /\ i = j + 1
    BY <2>1, <1>3
  <2>3. k \in Named(j)'
    BY <2>2, <1>6
  <2>4. Named(j)' = Named(i - 1)'
    BY <2>2
  <2>5. QED
    BY <2>2, <2>3, <2>4
<1>9. /\ FreeOnce /\ CommittedOnce /\ InFlightOnce
      /\ FreeNotCommitted /\ FreeNotInFlight /\ CommittedNotInFlight
  BY DEF Placed, OnePlace
<1>10. FreeOnce' /\ CommittedOnce' /\ FreeNotCommitted'
  BY <1>1, <1>9 DEF FreeOnce, CommittedOnce, FreeNotCommitted
<1>11. InFlightOnce'
  <2> SUFFICES ASSUME NEW i \in DOMAIN ROB', NEW j \in DOMAIN ROB',
                      NEW k \in Named(i)', NEW l \in Named(j)',
                      ROB'[i].dst[k] = ROB'[j].dst[l]
               PROVE  i = j /\ k = l
    BY DEF InFlightOnce
  <2>1. i + 1 = j + 1 /\ k = l
    BY <1>7, <1>9 DEF InFlightOnce
  <2>2. QED
    BY <2>1, <1>2
<1>12. FreeNotInFlight' /\ CommittedNotInFlight'
  BY <1>1, <1>7, <1>9 DEF FreeNotInFlight, CommittedNotInFlight
<1>13. Mapped'
  BY <1>1, <1>7 DEF Placed, Mapped, isAllocated
<1>14. NoLeak'
  <2> SUFFICES ASSUME NEW p \in Phys PROVE (Free(p) \/ IsCommitted(p) \/ IsInFlight(p))'
    BY DEF NoLeak
  <2>1. CASE Free(p) \/ IsCommitted(p)
    BY <2>1, <1>1 DEF Free, IsCommitted
  <2>2. CASE IsInFlight(p)
    BY <2>2, <1>8 DEF IsInFlight
  <2>3. QED
    BY <2>1, <2>2 DEF Placed, NoLeak
<1>15. QED
  BY <1>10, <1>11, <1>12, <1>13, <1>14 DEF Placed, OnePlace

LEMMA NextPlaced == Shape /\ Placed /\ [Next]_vars => Placed'
<1> SUFFICES ASSUME Shape, Placed, [Next]_vars PROVE Placed'
  OBVIOUS
<1>1. ASSUME NEW in \in Instructions, Dispatch(in) PROVE Placed'
  BY <1>1, DispatchPlaced
<1>2. CASE \/ StartScheduling \/ PassScheduled \/ OutOfRegisters \/ EndScheduling
           \/ StartRename \/ UNCHANGED vars
  BY <1>2, QuietPlaced DEF StartScheduling, PassScheduled, OutOfRegisters, EndScheduling,
     StartRename, vars
<1>3. CASE rename_src_register
  BY <1>3, RenameSrcPlaced
<1>4. CASE rename_dest_register
  BY <1>4, RenameDestPlaced
<1>5. CASE EndRename
  BY <1>5, EndRenamePlaced
<1>6. ASSUME NEW i \in DOMAIN ROB, Execute(i) PROVE Placed'
  BY <1>6, ExecutePlaced
<1>7. ASSUME NEW i \in DOMAIN ROB, Complete(i) PROVE Placed'
  BY <1>7, CompletePlaced
<1>8. CASE StartRetire
  <2>1. retired = 0
    BY <1>8 DEF StartRetire, Shape, Progress
  <2>2. UNCHANGED <<retired, tables, ROB>>
    BY <1>8, <2>1 DEF StartRetire
  <2>3. QED
    BY <2>2, QuietPlaced
<1>9. CASE retire_dest_register
  BY <1>9, RetireDestPlaced
<1>10. CASE EndRetire
  BY <1>10, EndRetirePlaced
<1>11. QED
  BY <1>1, <1>2, <1>3, <1>4, <1>5, <1>6, <1>7, <1>8, <1>9, <1>10 DEF Next

-----------------------------------------------------------------------------
(* The order in which instructions are renamed.                             *)
-----------------------------------------------------------------------------
InOrder == RenamedInOrder /\ OlderRenamed

LEMMA InitInOrder == Init => InOrder
BY DEF Init, InOrder, RenamedInOrder, OlderRenamed

(* A step that renames nothing. *)
LEMMA SameOrder ==
  ASSUME InOrder, DOMAIN ROB' = DOMAIN ROB,
         \A i \in DOMAIN ROB : ROB[i].scheduled => ROB'[i].scheduled,
         \A i \in DOMAIN ROB : ROB'[i].named > 0 => ROB[i].named > 0,
         \/ pc' \notin {"visit", "rename"}
         \/ pc \in {"visit", "rename"} /\ visiting' = visiting
  PROVE  InOrder'
BY DEF InOrder, RenamedInOrder, OlderRenamed

(* Among equal entries, the loop has only renamed ones behind it. *)
LEMMA VisitOrder ==
  ASSUME Shape, InOrder,
         StartScheduling \/ PassScheduled \/ OutOfRegisters \/ EndScheduling \/ StartRename
  PROVE  InOrder'
<1>1. ROB' = ROB /\ visiting \in Int /\ \A i \in DOMAIN ROB : i \in Nat /\ i > 0
  BY DEF StartScheduling, PassScheduled, OutOfRegisters, EndScheduling, StartRename, Shape, TypeOK
<1>2. RenamedInOrder'
  BY <1>1 DEF InOrder, RenamedInOrder
<1>3. CASE StartScheduling
  BY <1>1, <1>2, <1>3 DEF StartScheduling, OlderRenamed, InOrder
<1>4. CASE PassScheduled
  <2>1. pc = "visit" /\ ROB[visiting].scheduled /\ visiting' = visiting + 1
    BY <1>4 DEF PassScheduled, Visiting
  <2>2. \A i \in DOMAIN ROB : i < visiting + 1 => ROB[i].scheduled
    BY <1>1, <2>1 DEF InOrder, OlderRenamed
  <2>3. QED
    BY <1>1, <1>2, <2>1, <2>2 DEF OlderRenamed, InOrder
<1>5. CASE OutOfRegisters \/ EndScheduling
  BY <1>2, <1>5 DEF OutOfRegisters, EndScheduling, OlderRenamed, InOrder
<1>6. CASE StartRename
  <2>1. pc = "visit" /\ pc' = "rename" /\ visiting' = visiting
    BY <1>6 DEF StartRename, Visiting
  <2>2. QED
    BY <1>1, <1>2, <2>1 DEF InOrder, OlderRenamed
<1>7. QED
  BY <1>3, <1>4, <1>5, <1>6

(* The instruction being renamed takes one more name. *)
LEMMA RenameOrder ==
  ASSUME Shape, InOrder, pc = "rename", UNCHANGED <<pc, visiting>>,
         NEW f, f.scheduled = ROB[visiting].scheduled, ROB' = [ROB EXCEPT ![visiting] = f]
  PROVE  InOrder'
<1>1. /\ ROB \in Seq(EntryType) /\ visiting \in DOMAIN ROB /\ ~ROB[visiting].scheduled
      /\ \A i \in DOMAIN ROB : i \in Nat
  BY DEF Shape, TypeOK, Progress
<1>2. /\ DOMAIN ROB' = DOMAIN ROB /\ ROB'[visiting] = f
      /\ \A i \in DOMAIN ROB : i # visiting => ROB'[i] = ROB[i]
  BY <1>1
<1>3. \A i \in DOMAIN ROB : i < visiting => ROB[i].scheduled
  BY DEF InOrder, OlderRenamed
<1>4. \A i \in DOMAIN ROB : i < visiting => ROB'[i].scheduled
  BY <1>1, <1>2, <1>3
<1>5. OlderRenamed'
  BY <1>2, <1>4 DEF OlderRenamed
<1>6. RenamedInOrder'
  <2> SUFFICES ASSUME NEW i \in DOMAIN ROB, NEW j \in DOMAIN ROB, i < j, ROB'[j].named > 0
               PROVE  ROB'[i].scheduled
    BY <1>2 DEF RenamedInOrder
  <2>1. CASE j = visiting
    BY <2>1, <1>4
  <2>2. CASE j # visiting
    <3>1. ROB[i].scheduled
      BY <2>2, <1>2 DEF InOrder, RenamedInOrder
    <3>2. i # visiting
      BY <3>1, <1>1
    <3>3. QED
      BY <3>1, <3>2, <1>2
  <2>3. QED
    BY <2>1, <2>2
<1>7. QED
  BY <1>5, <1>6 DEF InOrder

LEMMA EndRenameOrder ==
  ASSUME Shape, InOrder, EndRename
  PROVE  InOrder'
<1>1. /\ ROB \in Seq(EntryType) /\ visiting \in DOMAIN ROB
      /\ \A i \in DOMAIN ROB : i \in Nat
      /\ pc = "rename" /\ pc' = "visit" /\ visiting' = visiting + 1
  BY DEF EndRename, Shape, TypeOK, Progress
<1>2. PICK f : f = [ROB[visiting] EXCEPT !.scheduled = TRUE]
  OBVIOUS
<1>3. f.scheduled /\ f.named = ROB[visiting].named
  <2>1. ROB[visiting] \in EntryType
    BY <1>1
  <2>2. QED
    BY <2>1, <1>2 DEF EntryType
<1>4. /\ DOMAIN ROB' = DOMAIN ROB /\ ROB'[visiting] = f
      /\ \A i \in DOMAIN ROB : i # visiting => ROB'[i] = ROB[i]
  BY <1>1, <1>2 DEF EndRename
<1>5. \A i \in DOMAIN ROB : i < visiting + 1 => i = visiting \/ i < visiting
  BY <1>1
<1>6. OlderRenamed'
  BY <1>1, <1>3, <1>4, <1>5 DEF InOrder, OlderRenamed
<1>7. RenamedInOrder'
  BY <1>3, <1>4 DEF InOrder, RenamedInOrder
<1>8. QED
  BY <1>6, <1>7 DEF InOrder

LEMMA NextInOrder == Shape /\ InOrder /\ [Next]_vars => InOrder'
<1> SUFFICES ASSUME Shape, InOrder, [Next]_vars PROVE InOrder'
  OBVIOUS
<1>1. ASSUME NEW in \in Instructions, Dispatch(in) PROVE InOrder'
  <2>1. ROB \in Seq(EntryType) /\ ROB' = Append(ROB, Entry(in)) /\ pc' = "stages"
    BY <1>1 DEF Dispatch, Shape, TypeOK
  <2>2. Entry(in).named = 0
    BY DEF Entry
  <2>3. /\ \A i \in DOMAIN ROB : ROB'[i] = ROB[i]
        /\ \A i \in DOMAIN ROB' : i \in DOMAIN ROB \/ ROB'[i] = Entry(in)
    BY <2>1
  <2>4. \A i, j \in DOMAIN ROB' : i < j /\ j \in DOMAIN ROB => i \in DOMAIN ROB
    BY <2>1
  <2>5. RenamedInOrder'
    BY <2>2, <2>3, <2>4 DEF InOrder, RenamedInOrder
  <2>6. QED
    BY <2>1, <2>5 DEF InOrder, OlderRenamed
<1>2. CASE StartScheduling \/ PassScheduled \/ OutOfRegisters \/ EndScheduling \/ StartRename
  BY <1>2, VisitOrder
<1>3. CASE rename_src_register
  <2>1. PICK e \in EntryType : e = ROB[visiting]
    BY <1>3 DEF rename_src_register, Shape, TypeOK, Progress
  <2>2. \A k, p : NamedSrc(e, k, p).scheduled = e.scheduled
    BY DEF NamedSrc, EntryType
  <2>3. PICK f : f.scheduled = ROB[visiting].scheduled /\ ROB' = [ROB EXCEPT ![visiting] = f]
    BY <1>3, <2>1, <2>2 DEF rename_src_register
  <2>4. pc = "rename" /\ UNCHANGED <<pc, visiting>>
    BY <1>3 DEF rename_src_register
  <2>5. QED
    BY <2>3, <2>4, RenameOrder
<1>4. CASE rename_dest_register
  <2>1. PICK e \in EntryType : e = ROB[visiting]
    BY <1>4 DEF rename_dest_register, Shape, TypeOK, Progress
  <2>2. \A k, p : NamedDst(e, k, p).scheduled = e.scheduled
    BY DEF NamedDst, EntryType
  <2>3. PICK f : f.scheduled = ROB[visiting].scheduled /\ ROB' = [ROB EXCEPT ![visiting] = f]
    BY <1>4, <2>1, <2>2 DEF rename_dest_register
  <2>4. pc = "rename" /\ UNCHANGED <<pc, visiting>>
    BY <1>4 DEF rename_dest_register
  <2>5. QED
    BY <2>3, <2>4, RenameOrder
<1>5. CASE EndRename
  BY <1>5, EndRenameOrder
<1>6. ASSUME NEW i \in DOMAIN ROB, Execute(i) \/ Complete(i) PROVE InOrder'
  <2>1. ROB \in Seq(EntryType) /\ ROB[i] \in EntryType /\ pc' = "stages"
    BY <1>6 DEF Execute, Complete, Shape, TypeOK
  <2>2. PICK f : ROB' = [ROB EXCEPT ![i] = f] /\ f.scheduled = ROB[i].scheduled /\ f.named = ROB[i].named
    BY <1>6, <2>1, SMTT(40) DEF Execute, Complete, EntryType
  <2>3. /\ DOMAIN ROB' = DOMAIN ROB
        /\ \A j \in DOMAIN ROB : ROB'[j].scheduled = ROB[j].scheduled /\ ROB'[j].named = ROB[j].named
    BY <2>1, <2>2
  <2>4. QED
    BY <2>1, <2>3, SameOrder
<1>7. CASE StartRetire \/ retire_dest_register
  <2>1. ROB' = ROB /\ pc' = "retire"
    BY <1>7, Zenon DEF StartRetire, retire_dest_register
  <2>2. QED
    BY <2>1, SameOrder
<1>8. CASE EndRetire
  <2>1. ROB \in Seq(EntryType) /\ ROB # <<>> /\ ROB' = Tail(ROB) /\ pc' = "stages"
    BY <1>8 DEF EndRetire, Shape, TypeOK, Progress
  <2>2. \A i \in DOMAIN ROB' : i \in Nat \ {0} /\ i + 1 \in DOMAIN ROB /\ ROB'[i] = ROB[i + 1]
    BY <2>1, TailROB
  <2>3. \A i, j \in DOMAIN ROB' : i < j => i + 1 < j + 1
    BY <2>2
  <2>4. RenamedInOrder'
    BY <2>2, <2>3 DEF InOrder, RenamedInOrder
  <2>5. QED
    BY <2>1, <2>4 DEF InOrder, OlderRenamed
<1>9. CASE UNCHANGED vars
  BY <1>9 DEF vars, InOrder, RenamedInOrder, OlderRenamed
<1>10. QED
  BY <1>1, <1>2, <1>3, <1>4, <1>5, <1>6, <1>7, <1>8, <1>9 DEF Next

-----------------------------------------------------------------------------
(* Inv, which the runs also check, is inductive: nothing that follows       *)
(* depends on the sizes of the tables or on the instructions.              *)
THEOREM InvHolds == Spec => []Inv
<1>1. Init => Shape /\ Placed /\ InOrder
  BY InitShape, InitPlaced, InitInOrder
<1>2. (Shape /\ Placed /\ InOrder) /\ [Next]_vars => (Shape /\ Placed /\ InOrder)'
  BY NextShape, NextPlaced, NextInOrder
<1>3. Shape /\ Placed /\ InOrder => Inv
  BY DEF Shape, Placed, InOrder, Inv
<1>4. QED
  BY <1>1, <1>2, <1>3, PTL DEF Spec

(* No physical register is ever handed out twice or freed twice: rename,    *)
(* complete and retire of src/src/register_allocator.cc keep each in one   *)
(* place, for every size of the tables and every program.                  *)
THEOREM RegistersInOnePlace == Spec => []OnePlace
<1>1. Inv => OnePlace
  BY DEF Inv
<1>2. QED
  BY <1>1, InvHolds, PTL

(* retire_dest_register returns what renaming took: no physical register is *)
(* lost in however long a run.                                             *)
THEOREM NothingLeaks == Spec => []NoLeak
<1>1. Inv => NoLeak
  BY DEF Inv
<1>2. QED
  BY <1>1, InvHolds, PTL

(* Instructions are renamed in program order, although the loop of          *)
(* schedule_instruction (src/src/ooo_cpu.cc:427-449) may pass over entries  *)
(* and break at any of them.                                               *)
THEOREM RenamingInOrder == Spec => []RenamedInOrder
<1>1. Inv => RenamedInOrder
  BY DEF Inv
<1>2. QED
  BY <1>1, InvHolds, PTL
-----------------------------------------------------------------------------
(* What an instruction reads: the names of its sources follow the program    *)
(* through the two alias tables.                                           *)
-----------------------------------------------------------------------------

(* Numbers have a least one and, when they are bounded, a greatest one.     *)
LEMMA LeastNat ==
  ASSUME NEW S, S \subseteq Nat, S # {}
  PROVE  \E x \in S : \A y \in S : x <= y
<1> DEFINE R == OpToRel(<, Nat)
<1>1. \A x, y \in Nat : x < y => <<x, y>> \in R
  BY DEF OpToRel
<1>2. IsWellFoundedOn(R, Nat)
  BY NatLessThanWellFounded
<1> HIDE DEF R
<1>3. PICK x \in S : \A y \in S : <<y, x>> \notin R
  BY <1>2, WFMin
<1>4. \A y \in S : ~(y < x)
  BY <1>1, <1>3
<1>5. \A y \in S : x <= y
  BY <1>4
<1>6. QED
  BY <1>5

LEMMA GreatestNat ==
  ASSUME NEW n \in Nat, NEW S, S \subseteq 0 .. n, S # {}
  PROVE  \E x \in S : \A y \in S : y <= x
<1> DEFINE T == {n - x : x \in S}
<1>1. PICK s \in S : TRUE
  OBVIOUS
<1>2. n - s \in T /\ \A t \in T : t \in Nat
  BY <1>1
<1>3. PICK t \in T : \A u \in T : t <= u
  <2>1. T \subseteq Nat /\ T # {}
    BY <1>2
  <2>2. QED
    BY <2>1, LeastNat
<1>4. PICK x \in S : t = n - x
  OBVIOUS
<1>5. \A y \in S : t <= n - y
  BY <1>3
<1>6. \A y \in S : y <= x
  BY <1>4, <1>5
<1>7. QED
  BY <1>6

LEMMA LatestIn ==
  ASSUME NEW n \in Nat, NEW S, S \subseteq 0 .. n, S # {}
  PROVE  Latest(S) \in S /\ \A y \in S : y <= Latest(S)
BY GreatestNat DEF Latest

LEMMA LatestIs ==
  ASSUME NEW S, S \subseteq Int, NEW x \in S, \A y \in S : y <= x
  PROVE  Latest(S) = x
<1>1. Latest(S) \in S /\ \A y \in S : y <= Latest(S)
  BY DEF Latest
<1>2. x <= Latest(S) /\ Latest(S) <= x /\ x \in Int /\ Latest(S) \in Int
  BY <1>1
<1>3. QED
  BY <1>1, <1>2

-----------------------------------------------------------------------------
(* The last write of a register in a part of the ROB.                       *)
-----------------------------------------------------------------------------
LEMMA WritesBounded ==
  ASSUME Shape, NEW i \in DOMAIN ROB, NEW a
  PROVE  Len(ROB[i].adst) \in Nat /\ Writes(i, a) \subseteq 0 .. Len(ROB[i].adst)
<1>1. PICK e \in EntryType : e = ROB[i]
  BY DEF Shape, TypeOK
<1>2. QED
  BY <1>1 DEF EntryType, Writes

LEMMA NameFound ==
  ASSUME Shape, NEW n \in 0 .. Len(ROB), NEW a, Writers(n, a) # {}
  PROVE  \E i \in 1 .. n : \E k \in Writes(i, a) :
           /\ \A l \in Writes(i, a) : l <= k
           /\ \A j \in 1 .. n : j > i => Writes(j, a) = {}
           /\ i = Latest(Writers(n, a))
           /\ NameAfter(n, a) = ROB[i].dst[k]
<1> DEFINE i == Latest(Writers(n, a))
           k == Latest(Writes(i, a))
<1>1. n \in Nat /\ 1 .. n \subseteq DOMAIN ROB
  BY DEF Shape, TypeOK
<1>2. Writers(n, a) \subseteq 0 .. n
  BY <1>1 DEF Writers
<1>3. i \in Writers(n, a) /\ \A j \in Writers(n, a) : j <= i
  BY <1>1, <1>2, LatestIn
<1>4. i \in 1 .. n /\ Writes(i, a) # {} /\ i \in DOMAIN ROB
  BY <1>1, <1>3 DEF Writers
<1>5. Len(ROB[i].adst) \in Nat /\ Writes(i, a) \subseteq 0 .. Len(ROB[i].adst)
  BY <1>4, WritesBounded
<1>6. k \in Writes(i, a) /\ \A l \in Writes(i, a) : l <= k
  BY <1>4, <1>5, LatestIn
<1>7. \A j \in 1 .. n : j > i => Writes(j, a) = {}
  <2>1. \A j \in 1 .. n : j \in Writers(n, a) => j <= i
    BY <1>3
  <2>2. \A j \in 1 .. n : j \notin Writers(n, a) => Writes(j, a) = {}
    BY DEF Writers
  <2>3. \A j \in 1 .. n : j > i => ~(j <= i)
    BY <1>1, <1>4
  <2>4. QED
    BY <2>1, <2>2, <2>3
<1>8. NameAfter(n, a) = ROB[i].dst[k]
  BY DEF NameAfter
<1>9. QED
  BY <1>4, <1>6, <1>7, <1>8

LEMMA NameIs ==
  ASSUME Shape, NEW n \in 0 .. Len(ROB), NEW a, NEW i \in 1 .. n, NEW k \in Writes(i, a),
         \A l \in Writes(i, a) : l <= k,
         \A j \in 1 .. n : j > i => Writes(j, a) = {}
  PROVE  i \in Writers(n, a) /\ i = Latest(Writers(n, a)) /\ NameAfter(n, a) = ROB[i].dst[k]
<1>1. n \in Nat /\ i \in DOMAIN ROB
  BY DEF Shape, TypeOK
<1>2. Writers(n, a) \subseteq Int /\ i \in Writers(n, a)
  BY <1>1 DEF Writers
<1>3. \A j \in Writers(n, a) : j <= i
  <2>1. \A j \in Writers(n, a) : j \in 1 .. n /\ ~(j > i)
    BY DEF Writers
  <2>2. QED
    BY <2>1, <1>1
<1>4. Latest(Writers(n, a)) = i
  BY <1>2, <1>3, LatestIs
<1>5. Writes(i, a) \subseteq Int
  BY <1>1, WritesBounded
<1>6. Latest(Writes(i, a)) = k
  BY <1>5, LatestIs
<1>7. QED
  BY <1>2, <1>4, <1>6 DEF NameAfter

(* A name depends on the older entries only, and on the committed name only *)
(* when they do not write the register.                                    *)
LEMMA NameKept ==
  ASSUME Shape, NEW n \in 0 .. Len(ROB), NEW a,
         \A j \in 1 .. n : ROB'[j].adst = ROB[j].adst /\ ROB'[j].dst = ROB[j].dst,
         Writers(n, a) # {} \/ backend_RAT'[a] = backend_RAT[a]
  PROVE  Writers(n, a)' = Writers(n, a) /\ NameAfter(n, a)' = NameAfter(n, a)
<1>1. \A j \in 1 .. n : Writes(j, a)' = Writes(j, a)
  BY DEF Writes
<1>2. Writers(n, a)' = Writers(n, a)
  BY <1>1 DEF Writers
<1>3. CASE Writers(n, a) = {}
  BY <1>2, <1>3 DEF NameAfter
<1>4. CASE Writers(n, a) # {}
  <2>1. Latest(Writers(n, a)) \in 1 .. n
    BY <1>4, NameFound
  <2>2. PICK w \in 1 .. n : w = Latest(Writers(n, a))
    BY <2>1
  <2>3. NameAfter(n, a) = ROB[w].dst[Latest(Writes(w, a))]
    BY <1>4, <2>2 DEF NameAfter
  <2>4. NameAfter(n, a)' = ROB'[w].dst[Latest(Writes(w, a)')]
    BY <1>2, <1>4, <2>2 DEF NameAfter
  <2>5. QED
    BY <1>1, <1>2, <2>3, <2>4
<1>5. QED
  BY <1>2, <1>3, <1>4

-----------------------------------------------------------------------------
(* Steps that change no operand.                                            *)
-----------------------------------------------------------------------------
Reads ==
  /\ OperandsKept /\ FileKept /\ SourcesNamed
  /\ FrontendNewest /\ RetiredCommitted /\ ExecutesAfterProducers

LEMMA InitReads == Init => Reads
<1> SUFFICES ASSUME Init PROVE Reads
  OBVIOUS
<1>1. DOMAIN ROB = {} /\ pc = "stages" /\ \A a \in Arch : frontend_RAT[a] = backend_RAT[a]
  BY DEF Init
<1>2. QED
  BY <1>1 DEF Reads, OperandsKept, FileKept, SourcesNamed, FrontendNewest, RetiredCommitted,
     ExecutesAfterProducers

SameOperands(e, f) ==
  /\ e.src = f.src /\ e.dst = f.dst /\ e.asrc = f.asrc /\ e.adst = f.adst
  /\ e.named = f.named

(* The same writes are named, by the same names. *)
LEMMA SameNewest ==
  ASSUME Reads, DOMAIN ROB' = DOMAIN ROB, UNCHANGED <<frontend_RAT, backend_RAT>>,
         \A j \in DOMAIN ROB : \A a \in Arch :
           NamedWrites(j, a)' = NamedWrites(j, a) /\ ROB'[j].adst = ROB[j].adst,
         \A j \in DOMAIN ROB : ROB'[j].dst = ROB[j].dst
  PROVE  FrontendNewest'
<1>1. \A a \in Arch : \A i \in DOMAIN ROB : \A k : YoungestNamed(a, i, k)' => YoungestNamed(a, i, k)
  BY DEF YoungestNamed
<1>2. QED
  BY <1>1 DEF Reads, FrontendNewest

LEMMA SameReads ==
  ASSUME Shape, Reads, DOMAIN ROB' = DOMAIN ROB, UNCHANGED <<frontend_RAT, backend_RAT>>,
         \A j \in DOMAIN ROB : SameOperands(ROB'[j], ROB[j]),
         pc' = "retire" \/ pc # "retire"
  PROVE  OperandsKept' /\ SourcesNamed' /\ FrontendNewest'
<1>1. OperandsKept'
  <2> SUFFICES ASSUME NEW i \in DOMAIN ROB
               PROVE  LET e == ROB'[i]
                      IN  /\ Len(e.asrc) = Len(e.src) /\ Len(e.adst) = Len(e.dst)
                          /\ \A k \in DOMAIN e.src : k > e.named => e.src[k] = e.asrc[k]
                          /\ \A k \in DOMAIN e.dst : k + Len(e.src) > e.named => e.dst[k] = e.adst[k]
    BY DEF OperandsKept
  <2>1. PICK e, f : e = ROB[i] /\ f = ROB'[i] /\ SameOperands(f, e)
    OBVIOUS
  <2>2. /\ Len(e.asrc) = Len(e.src) /\ Len(e.adst) = Len(e.dst)
        /\ \A k \in DOMAIN e.src : k > e.named => e.src[k] = e.asrc[k]
        /\ \A k \in DOMAIN e.dst : k + Len(e.src) > e.named => e.dst[k] = e.adst[k]
    BY <2>1 DEF Reads, OperandsKept
  <2>3. f.src = e.src /\ f.dst = e.dst /\ f.asrc = e.asrc /\ f.adst = e.adst /\ f.named = e.named
    BY <2>1 DEF SameOperands
  <2> HIDE <2>1
  <2>4. QED
    BY <2>1, <2>2, <2>3
<1>2. SourcesNamed'
  <2> SUFFICES ASSUME NEW i \in DOMAIN ROB, i > 1 \/ pc' # "retire",
                      NEW k \in DOMAIN ROB'[i].src, k <= ROB'[i].named,
                      NEW a, a = ROB'[i].asrc[k]
               PROVE  ROB'[i].src[k] = NameAfter(i - 1, a)'
    BY DEF SourcesNamed
  <2>1. ROB[i].src[k] = NameAfter(i - 1, a)
    <3>1. k \in DOMAIN ROB[i].src /\ k <= ROB[i].named /\ (i > 1 \/ pc # "retire")
      BY DEF SameOperands
    <3>2. SourcesNamed
      BY DEF Reads
    <3>3. ROB[i].src[k] = NameAfter(i - 1, ROB[i].asrc[k])
      BY <3>1, <3>2, Zenon DEF SourcesNamed
    <3>4. QED
      BY <3>3 DEF SameOperands
  <2>2. i - 1 \in 0 .. Len(ROB) /\ 1 .. i - 1 \subseteq DOMAIN ROB
    BY DEF Shape, TypeOK
  <2>3. \A j \in 1 .. i - 1 : ROB'[j].adst = ROB[j].adst /\ ROB'[j].dst = ROB[j].dst
    BY <2>2 DEF SameOperands
  <2>4. NameAfter(i - 1, a)' = NameAfter(i - 1, a)
    BY <2>2, <2>3, NameKept
  <2>5. QED
    BY <2>1, <2>4 DEF SameOperands
<1>3. FrontendNewest'
  <2>1. \A j \in DOMAIN ROB : \A a \in Arch : NamedWrites(j, a)' = NamedWrites(j, a)
    BY DEF NamedWrites, Writes, SameOperands
  <2>2. QED
    BY <2>1, SameNewest DEF SameOperands
<1>4. QED
  BY <1>1, <1>2, <1>3

(* No entry is executed that was not. *)
LEMMA SameExecuted ==
  ASSUME Shape, Reads, DOMAIN ROB' = DOMAIN ROB,
         \A j \in DOMAIN ROB :
           /\ ROB'[j].asrc = ROB[j].asrc /\ ROB'[j].adst = ROB[j].adst
           /\ ROB'[j].executed => ROB[j].executed
           /\ ROB[j].completed => ROB'[j].completed
  PROVE  ExecutesAfterProducers'
<1> SUFFICES ASSUME NEW i \in DOMAIN ROB, ROB'[i].executed, NEW k \in DOMAIN ROB'[i].asrc,
                    NEW a, a = ROB'[i].asrc[k],
                    NEW j \in Writers(i - 1, a)', j = Latest(Writers(i - 1, a)')
             PROVE  ROB'[j].completed
  BY DEF ExecutesAfterProducers
<1>1. 1 .. i - 1 \subseteq DOMAIN ROB
  BY DEF Shape, TypeOK
<1>2. \A l \in DOMAIN ROB : Writes(l, a)' = Writes(l, a)
  BY DEF Writes
<1>3. Writers(i - 1, a)' = Writers(i - 1, a)
  BY <1>1, <1>2 DEF Writers
<1>4. ROB[j].completed
  BY <1>3 DEF Reads, ExecutesAfterProducers
<1>5. j \in DOMAIN ROB
  BY <1>1, <1>3 DEF Writers
<1>6. QED
  BY <1>4, <1>5

(* The destinations in flight are the same. *)
LEMMA SameFile ==
  ASSUME Reads, DOMAIN ROB' = DOMAIN ROB,
         \A i \in DOMAIN ROB : \A k \in Named(i)' :
           /\ k \in Named(i)
           /\ ROB'[i].dst[k] = ROB[i].dst[k] /\ ROB'[i].adst = ROB[i].adst
           /\ reg'[ROB[i].dst[k]] = reg[ROB[i].dst[k]]
           /\ ROB[i].completed => ROB'[i].completed
  PROVE  FileKept'
BY DEF Reads, FileKept

LEMMA SameRetired ==
  ASSUME Reads, retired' = 0 \/ pc' # "retire", Shape'
  PROVE  RetiredCommitted'
BY DEF RetiredCommitted, Shape, TypeOK

(* A step that moves along the ROB, or starts to retire its head. *)
LEMMA QuietReads ==
  ASSUME Shape, Shape', Reads, UNCHANGED <<retired, tables, ROB>>,
         pc' = "retire" \/ pc # "retire", pc' = "retire" => retired = 0 \/ pc = "retire"
  PROVE  Reads'
<1>1. UNCHANGED <<retired, frontend_RAT, backend_RAT, free_registers, reg, ROB>>
  BY DEF tables
<1>2. \A j \in DOMAIN ROB : SameOperands(ROB'[j], ROB[j])
  BY <1>1 DEF SameOperands
<1>3. OperandsKept' /\ SourcesNamed' /\ FrontendNewest'
  BY <1>1, <1>2, SameReads
<1>4. ExecutesAfterProducers'
  BY <1>1, SameExecuted
<1>5. FileKept'
  BY <1>1, SameFile DEF Named
<1>6. RetiredCommitted'
  <2>1. CASE pc' = "retire" /\ pc # "retire"
    BY <1>1, <2>1, SameRetired
  <2>2. CASE pc' # "retire"
    BY <2>2 DEF RetiredCommitted
  <2>3. CASE pc = "retire"
    BY <1>1, <2>3 DEF Reads, RetiredCommitted
  <2>4. QED
    BY <2>1, <2>2, <2>3
<1>7. QED
  BY <1>3, <1>4, <1>5, <1>6 DEF Reads

(* A new entry has no name to give, and reads nothing yet. *)
LEMMA DispatchReads ==
  ASSUME Shape, Shape', Reads, NEW in \in Instructions, Dispatch(in)
  PROVE  Reads'
<1>1. /\ ROB \in Seq(EntryType) /\ ROB' = Append(ROB, Entry(in))
      /\ pc = "stages" /\ pc' = "stages"
      /\ UNCHANGED <<retired, frontend_RAT, backend_RAT, free_registers, reg>>
  BY DEF Dispatch, Shape, TypeOK, tables
<1>2. PICK e : /\ e = Entry(in) /\ e.src = e.asrc /\ e.dst = e.adst /\ e.named = 0
               /\ e.src \in Seq(Arch) /\ e.dst \in Seq(Arch) /\ ~e.executed
  <2>1. in \in [src : Seq(Arch), dst : Seq(Arch)]
    BY InstructionAssumption
  <2>2. /\ Entry(in).src = in.src /\ Entry(in).asrc = in.src /\ Entry(in).dst = in.dst
        /\ Entry(in).adst = in.dst /\ Entry(in).named = 0 /\ ~Entry(in).executed
    BY DEF Entry
  <2>3. in.src \in Seq(Arch) /\ in.dst \in Seq(Arch)
    BY <2>1
  <2>4. QED
    BY <2>2, <2>3
<1>3. /\ \A j \in DOMAIN ROB : ROB'[j] = ROB[j] /\ j \in DOMAIN ROB'
      /\ \A j \in DOMAIN ROB' : j \in DOMAIN ROB \/ (j = Len(ROB) + 1 /\ ROB'[j] = e)
      /\ Len(ROB) + 1 \in DOMAIN ROB'
      /\ \A j \in DOMAIN ROB : j \in 1 .. Len(ROB) /\ 1 .. j - 1 \subseteq DOMAIN ROB
  BY <1>1, <1>2
<1>4. \A k \in DOMAIN e.dst : ~(k + Len(e.src) <= e.named)
  BY <1>2
<1>5. \A k \in DOMAIN e.src : ~(k <= e.named)
  BY <1>2
<1>6. \A j \in DOMAIN ROB : \A a :
        /\ Writes(j, a)' = Writes(j, a) /\ NamedWrites(j, a)' = NamedWrites(j, a)
        /\ Named(j)' = Named(j)
  BY <1>1, <1>3 DEF Writes, NamedWrites, Named
<1>7. \A j \in DOMAIN ROB' : j \notin DOMAIN ROB => Named(j)' = {}
  BY <1>3, <1>4 DEF Named
<1>8. \A j \in DOMAIN ROB' : j \notin DOMAIN ROB => \A a : NamedWrites(j, a)' = {}
  BY <1>2, <1>3, <1>4 DEF NamedWrites, Writes
<1>9. OperandsKept'
  <2>1. ASSUME NEW j \in DOMAIN ROB'
        PROVE  LET f == ROB'[j]
               IN  /\ Len(f.asrc) = Len(f.src) /\ Len(f.adst) = Len(f.dst)
                   /\ \A k \in DOMAIN f.src : k > f.named => f.src[k] = f.asrc[k]
                   /\ \A k \in DOMAIN f.dst : k + Len(f.src) > f.named => f.dst[k] = f.adst[k]
    <3>1. CASE j \in DOMAIN ROB
      BY SMTT(30), <1>3, <3>1 DEF Reads, OperandsKept
    <3>2. CASE ROB'[j] = e
      BY <1>2, <3>2
    <3>3. QED
      BY <1>3, <3>1, <3>2
  <2>2. QED
    BY <2>1 DEF OperandsKept
<1>10. FileKept'
  <2>1. ASSUME NEW j \in DOMAIN ROB', NEW k \in Named(j)'
        PROVE  /\ reg'[ROB'[j].dst[k]].arch = ROB'[j].adst[k]
               /\ reg'[ROB'[j].dst[k]].valid => ROB'[j].completed
    <3>1. j \in DOMAIN ROB
      BY <2>1, <1>7
    <3>2. ROB'[j] = ROB[j] /\ k \in Named(j) /\ reg' = reg
      BY <2>1, <3>1, <1>1, <1>3, <1>6
    <3>3. QED
      BY <3>1, <3>2 DEF Reads, FileKept
  <2>2. QED
    BY <2>1 DEF FileKept
<1>11. SourcesNamed'
  <2> SUFFICES ASSUME NEW j \in DOMAIN ROB', NEW k \in DOMAIN ROB'[j].src, k <= ROB'[j].named,
                      NEW a, a = ROB'[j].asrc[k]
               PROVE  ROB'[j].src[k] = NameAfter(j - 1, a)'
    BY DEF SourcesNamed
  <2>1. j \in DOMAIN ROB /\ ROB'[j] = ROB[j]
    BY <1>3, <1>5
  <2>2. ROB[j].src[k] = NameAfter(j - 1, a)
    BY <1>1, <2>1 DEF Reads, SourcesNamed
  <2>3. j - 1 \in 0 .. Len(ROB)
    BY <1>1, <2>1
  <2>4. NameAfter(j - 1, a)' = NameAfter(j - 1, a)
    BY <1>1, <1>3, <2>1, <2>3, NameKept
  <2>5. QED
    BY <2>1, <2>2, <2>4
<1>12. FrontendNewest'
  <2> SUFFICES ASSUME NEW a \in Arch
               PROVE  /\ (\A j \in DOMAIN ROB' : NamedWrites(j, a)' = {})
                           => frontend_RAT'[a] = backend_RAT'[a]
                      /\ \A j \in DOMAIN ROB' : \A k \in DOMAIN ROB'[j].adst :
                           YoungestNamed(a, j, k)' => frontend_RAT'[a] = ROB'[j].dst[k]
    BY DEF FrontendNewest
  <2>1. (\A j \in DOMAIN ROB' : NamedWrites(j, a)' = {}) => frontend_RAT'[a] = backend_RAT'[a]
    BY <1>1, <1>3, <1>6 DEF Reads, FrontendNewest
  <2>2. ASSUME NEW j \in DOMAIN ROB', NEW k \in DOMAIN ROB'[j].adst, YoungestNamed(a, j, k)'
        PROVE  frontend_RAT'[a] = ROB'[j].dst[k]
    <3>1. j \in DOMAIN ROB
      BY <2>2, <1>8 DEF YoungestNamed
    <3>2. YoungestNamed(a, j, k)
      BY <2>2, <3>1, <1>3, <1>6 DEF YoungestNamed
    <3>3. QED
      BY <3>1, <3>2, <1>1, <1>3 DEF Reads, FrontendNewest
  <2>3. QED
    BY <2>1, <2>2
<1>13. RetiredCommitted'
  BY <1>1 DEF RetiredCommitted
<1>14. ExecutesAfterProducers'
  <2> SUFFICES ASSUME NEW j \in DOMAIN ROB', ROB'[j].executed, NEW k \in DOMAIN ROB'[j].asrc,
                      NEW a, a = ROB'[j].asrc[k],
                      NEW l \in Writers(j - 1, a)', l = Latest(Writers(j - 1, a)')
               PROVE  ROB'[l].completed
    BY DEF ExecutesAfterProducers
  <2>1. j \in DOMAIN ROB /\ ROB'[j] = ROB[j]
    BY <1>2, <1>3
  <2>2. Writers(j - 1, a)' = Writers(j - 1, a)
    BY <1>3, <1>6, <2>1 DEF Writers
  <2>3. l \in DOMAIN ROB
    BY <1>3, <2>1, <2>2 DEF Writers
  <2>4. ROB[l].completed
    BY <2>1, <2>2 DEF Reads, ExecutesAfterProducers
  <2>5. QED
    BY <1>3, <2>3, <2>4
<1>15. QED
  BY <1>9, <1>10, <1>11, <1>12, <1>13, <1>14 DEF Reads

(* A step that only raises a flag of the entry at position i. *)
LEMMA FlagReads ==
  ASSUME Shape, Reads, NEW i \in DOMAIN ROB, NEW f \in EntryType, ROB' = [ROB EXCEPT ![i] = f],
         SameOperands(f, ROB[i]), ROB[i].completed => f.completed,
         UNCHANGED <<retired, frontend_RAT, backend_RAT>>, pc # "retire", pc' # "retire"
  PROVE  /\ DOMAIN ROB' = DOMAIN ROB /\ ROB'[i] = f
         /\ \A j \in DOMAIN ROB : j # i => ROB'[j] = ROB[j]
         /\ \A j \in DOMAIN ROB : SameOperands(ROB'[j], ROB[j])
         /\ \A j \in DOMAIN ROB : ROB[j].completed => ROB'[j].completed
         /\ \A j \in DOMAIN ROB : Named(j)' = Named(j)
         /\ OperandsKept' /\ SourcesNamed' /\ FrontendNewest' /\ RetiredCommitted'
<1>1. /\ DOMAIN ROB' = DOMAIN ROB /\ ROB'[i] = f
      /\ \A j \in DOMAIN ROB : j # i => ROB'[j] = ROB[j]
  BY EntryChange DEF Shape, TypeOK
<1>2. \A j \in DOMAIN ROB : SameOperands(ROB'[j], ROB[j])
  <2>1. \A j \in DOMAIN ROB : j # i => SameOperands(ROB'[j], ROB[j])
    BY <1>1 DEF SameOperands
  <2>2. QED
    BY <1>1, <2>1
<1>3. \A j \in DOMAIN ROB : Named(j)' = Named(j)
  <2>1. \A j \in DOMAIN ROB : /\ ROB'[j].dst = ROB[j].dst /\ ROB'[j].src = ROB[j].src
                              /\ ROB'[j].named = ROB[j].named
    BY <1>2 DEF SameOperands
  <2>2. QED
    BY <2>1 DEF Named
<1>4. OperandsKept' /\ SourcesNamed' /\ FrontendNewest'
  BY <1>1, <1>2, SameReads
<1>5. RetiredCommitted'
  BY DEF RetiredCommitted
<1>6. QED
  BY <1>1, <1>2, <1>3, <1>4, <1>5

LEMMA EndRenameReads ==
  ASSUME Shape, Reads, EndRename
  PROVE  Reads'
<1>1. PICK e \in EntryType : e = ROB[visiting] /\ visiting \in DOMAIN ROB
  BY DEF EndRename, Shape, TypeOK, Progress
<1>2. PICK f : f = [e EXCEPT !.scheduled = TRUE]
  OBVIOUS
<1>3. /\ f \in EntryType /\ SameOperands(f, e)
      /\ f.executed = e.executed /\ f.completed = e.completed
  BY <1>2 DEF EntryType, SameOperands
<1>4. ROB' = [ROB EXCEPT ![visiting] = f]
  BY <1>1, <1>2 DEF EndRename
<1>5. /\ UNCHANGED <<retired, frontend_RAT, backend_RAT>> /\ reg' = reg
      /\ pc # "retire" /\ pc' # "retire"
  BY DEF EndRename, tables
<1>6. /\ DOMAIN ROB' = DOMAIN ROB /\ ROB'[visiting] = f
      /\ \A j \in DOMAIN ROB : j # visiting => ROB'[j] = ROB[j]
      /\ \A j \in DOMAIN ROB : SameOperands(ROB'[j], ROB[j])
      /\ \A j \in DOMAIN ROB : ROB[j].completed => ROB'[j].completed
      /\ \A j \in DOMAIN ROB : Named(j)' = Named(j)
      /\ OperandsKept' /\ SourcesNamed' /\ FrontendNewest' /\ RetiredCommitted'
  BY <1>1, <1>3, <1>4, <1>5, FlagReads
<1>7. FileKept'
  BY <1>5, <1>6, SameFile DEF SameOperands
<1>8. \A j \in DOMAIN ROB : ROB'[j].executed => ROB[j].executed
  BY <1>1, <1>3, <1>6
<1>9. ExecutesAfterProducers'
  BY <1>6, <1>8, SameExecuted DEF SameOperands
<1>10. QED
  BY <1>6, <1>7, <1>9 DEF Reads

-----------------------------------------------------------------------------
(* Execution and completion.                                                *)
-----------------------------------------------------------------------------
LEMMA AllNamed ==
  ASSUME Shape, retired = 0, NEW i \in DOMAIN ROB, ROB[i].scheduled
  PROVE  /\ Named(i) = DOMAIN ROB[i].dst
         /\ \A k \in DOMAIN ROB[i].src : k <= ROB[i].named /\ ROB[i].named > 0
<1>1. PICK e \in EntryType : e = ROB[i]
  BY DEF Shape, TypeOK
<1>2. e.named = Len(e.src) + Len(e.dst)
  BY <1>1 DEF Shape, Progress, EntryProgress, Size
<1>3. /\ \A k \in DOMAIN e.dst : k + Len(e.src) <= e.named /\ k > 0
      /\ \A k \in DOMAIN e.src : k <= e.named /\ e.named > 0
  <2>1. PICK s, d, n \in Nat : s = Len(e.src) /\ d = Len(e.dst) /\ n = e.named /\ n = s + d
    <3>1. Len(e.src) \in Nat /\ Len(e.dst) \in Nat /\ e.named \in Nat
      BY DEF EntryType
    <3>2. QED
      BY <3>1, <1>2
  <2>2. DOMAIN e.src = 1 .. s /\ DOMAIN e.dst = 1 .. d
    BY <2>1 DEF EntryType
  <2>3. n = s + d
    BY <2>1
  <2>4. /\ \A k \in 1 .. d : k + s <= n /\ k > 0
        /\ \A k \in 1 .. s : k <= n /\ n > 0
    BY <2>3
  <2>5. QED
    BY <2>1, <2>2, <2>4, Zenon
<1>4. QED
  BY <1>1, <1>3 DEF Named

(* The sources that are valid are the writes of completed instructions. *)
LEMMA ProducersCompleted ==
  ASSUME Shape, InOrder, Reads, pc = "stages", NEW i \in DOMAIN ROB, ROB[i].scheduled,
         \A k \in DOMAIN ROB[i].src : reg[ROB[i].src[k]].valid,
         NEW k \in DOMAIN ROB[i].asrc, NEW a, a = ROB[i].asrc[k],
         NEW l \in Writers(i - 1, a), l = Latest(Writers(i - 1, a))
  PROVE  l \in DOMAIN ROB /\ l < i /\ ROB[l].completed
<1>1. retired = 0 /\ ROB \in Seq(EntryType)
  BY DEF Shape, Progress, TypeOK
<1>2. k \in DOMAIN ROB[i].src
  <2>1. PICK e \in EntryType : e = ROB[i]
    BY <1>1
  <2>2. Len(e.asrc) = Len(e.src)
    BY <2>1 DEF Reads, OperandsKept
  <2>3. k \in DOMAIN e.src
    BY <2>1, <2>2 DEF EntryType
  <2>4. QED
    BY <2>1, <2>3
<1>3. k <= ROB[i].named /\ ROB[i].named > 0
  BY <1>1, <1>2, AllNamed
<1>4. ROB[i].src[k] = NameAfter(i - 1, a)
  BY <1>2, <1>3 DEF Reads, SourcesNamed
<1>5. i - 1 \in 0 .. Len(ROB) /\ 1 .. i - 1 \subseteq DOMAIN ROB /\ \A j \in 1 .. i - 1 : j < i
  BY <1>1
<1>6. PICK m \in Writes(l, a) : NameAfter(i - 1, a) = ROB[l].dst[m]
  BY <1>5, NameFound
<1>7. l \in DOMAIN ROB /\ l < i
  BY <1>5 DEF Writers
<1>8. ROB[l].scheduled
  BY <1>3, <1>7 DEF InOrder, RenamedInOrder
<1>9. m \in DOMAIN ROB[l].dst
  <2>1. PICK e \in EntryType : e = ROB[l]
    BY <1>1, <1>7
  <2>2. Len(e.adst) = Len(e.dst)
    BY <1>7, <2>1 DEF Reads, OperandsKept
  <2>3. m \in DOMAIN e.dst
    BY <2>1, <2>2 DEF EntryType, Writes
  <2>4. QED
    BY <2>1, <2>3
<1>10. m \in Named(l)
  BY <1>1, <1>7, <1>8, <1>9, AllNamed
<1>11. reg[ROB[l].dst[m]].valid
  BY <1>2, <1>4, <1>6
<1>12. ROB[l].completed
  BY <1>7, <1>10, <1>11 DEF Reads, FileKept
<1>13. QED
  BY <1>7, <1>12

LEMMA ExecuteReads ==
  ASSUME Shape, InOrder, Reads, NEW i \in DOMAIN ROB, Execute(i)
  PROVE  Reads'
<1>1. PICK e \in EntryType : e = ROB[i]
  BY DEF Shape, TypeOK
<1>2. PICK f : f = [e EXCEPT !.executed = TRUE]
  OBVIOUS
<1>3. f \in EntryType /\ SameOperands(f, e) /\ f.completed = e.completed
  BY <1>2 DEF EntryType, SameOperands
<1>4. ROB' = [ROB EXCEPT ![i] = f]
  BY <1>1, <1>2 DEF Execute
<1>5. /\ UNCHANGED <<retired, frontend_RAT, backend_RAT>> /\ reg' = reg
      /\ pc = "stages" /\ pc' = "stages"
      /\ ROB[i].scheduled
      /\ \A k \in DOMAIN ROB[i].src : reg[ROB[i].src[k]].valid
  BY DEF Execute, tables
<1>6. /\ DOMAIN ROB' = DOMAIN ROB /\ ROB'[i] = f
      /\ \A j \in DOMAIN ROB : j # i => ROB'[j] = ROB[j]
      /\ \A j \in DOMAIN ROB : SameOperands(ROB'[j], ROB[j])
      /\ \A j \in DOMAIN ROB : ROB[j].completed => ROB'[j].completed
      /\ \A j \in DOMAIN ROB : Named(j)' = Named(j)
      /\ OperandsKept' /\ SourcesNamed' /\ FrontendNewest' /\ RetiredCommitted'
  BY <1>1, <1>3, <1>4, <1>5, FlagReads
<1>7. FileKept'
  BY <1>5, <1>6, SameFile DEF SameOperands
<1>8. ExecutesAfterProducers'
  <2> SUFFICES ASSUME NEW j \in DOMAIN ROB', ROB'[j].executed, NEW k \in DOMAIN ROB'[j].asrc,
                      NEW a, a = ROB'[j].asrc[k],
                      NEW l \in Writers(j - 1, a)', l = Latest(Writers(j - 1, a)')
               PROVE  ROB'[l].completed
    BY DEF ExecutesAfterProducers
  <2>1. j \in DOMAIN ROB /\ ROB'[j].asrc = ROB[j].asrc /\ 1 .. j - 1 \subseteq DOMAIN ROB
    BY <1>6 DEF SameOperands, Shape, TypeOK
  <2>2. \A m \in DOMAIN ROB : Writes(m, a)' = Writes(m, a)
    BY <1>6 DEF Writes, SameOperands
  <2>3. Writers(j - 1, a)' = Writers(j - 1, a)
    BY <2>1, <2>2 DEF Writers
  <2>4. l \in DOMAIN ROB
    BY <2>1, <2>3 DEF Writers
  <2>5. ROB[l].completed
    <3>1. CASE j = i
      BY <1>5, <2>1, <2>3, <3>1, ProducersCompleted
    <3>2. CASE j # i
      BY <1>6, <2>1, <2>3, <3>2 DEF Reads, ExecutesAfterProducers
    <3>3. QED
      BY <3>1, <3>2
  <2>6. QED
    BY <1>6, <2>4, <2>5
<1>9. QED
  BY <1>6, <1>7, <1>8 DEF Reads

LEMMA CompleteReads ==
  ASSUME Shape, Placed, Reads, NEW i \in DOMAIN ROB, Complete(i)
  PROVE  Reads'
<1>1. PICK e \in EntryType : e = ROB[i]
  BY DEF Shape, TypeOK
<1>2. PICK f : f = [e EXCEPT !.completed = TRUE]
  OBVIOUS
<1>3. f \in EntryType /\ SameOperands(f, e) /\ f.completed /\ f.executed = e.executed
  BY <1>2 DEF EntryType, SameOperands
<1>4. ROB' = [ROB EXCEPT ![i] = f]
  BY <1>1, <1>2 DEF Complete
<1>5. /\ UNCHANGED <<retired, frontend_RAT, backend_RAT>>
      /\ pc = "stages" /\ pc' = "stages" /\ retired = 0
      /\ ROB[i].scheduled
  BY DEF Complete, Shape, Progress, EntryProgress
<1>6. /\ DOMAIN ROB' = DOMAIN ROB /\ ROB'[i] = f
      /\ \A j \in DOMAIN ROB : j # i => ROB'[j] = ROB[j]
      /\ \A j \in DOMAIN ROB : SameOperands(ROB'[j], ROB[j])
      /\ \A j \in DOMAIN ROB : ROB[j].completed => ROB'[j].completed
      /\ \A j \in DOMAIN ROB : Named(j)' = Named(j)
      /\ OperandsKept' /\ SourcesNamed' /\ FrontendNewest' /\ RetiredCommitted'
  BY <1>1, <1>3, <1>4, <1>5, FlagReads
<1>7. \A p \in Phys : /\ reg'[p].arch = reg[p].arch
                      /\ reg'[p].valid => reg[p].valid \/ \E k \in DOMAIN ROB[i].dst : ROB[i].dst[k] = p
  <2>1. reg \in [Phys -> [arch : Arch, valid : BOOLEAN]]
    BY DEF Shape, TypeOK
  <2>2. \A p \in Phys :
          reg'[p] = [reg[p] EXCEPT !.valid = @ \/ \E k \in DOMAIN ROB[i].dst : ROB[i].dst[k] = p]
    BY DEF Complete
  <2>3. ASSUME NEW r \in [arch : Arch, valid : BOOLEAN], NEW b \in BOOLEAN,
               NEW s, s = [r EXCEPT !.valid = @ \/ b]
        PROVE  s.arch = r.arch /\ (s.valid => r.valid \/ b)
    BY <2>3
  <2>4. QED
    BY <2>1, <2>2, <2>3
<1>8. Named(i) = DOMAIN ROB[i].dst
  BY <1>5, AllNamed
<1>9. FileKept'
  <2> SUFFICES ASSUME NEW j \in DOMAIN ROB, NEW k \in Named(j)
               PROVE  /\ reg'[ROB'[j].dst[k]].arch = ROB'[j].adst[k]
                      /\ reg'[ROB'[j].dst[k]].valid => ROB'[j].completed
    BY <1>6 DEF FileKept
  <2>1. ROB'[j].dst = ROB[j].dst /\ ROB'[j].adst = ROB[j].adst
    BY <1>6 DEF SameOperands
  <2>2. PICK p \in Phys : p = ROB[j].dst[k]
    BY InFlightNames
  <2>3. reg[p].arch = ROB[j].adst[k] /\ (reg[p].valid => ROB[j].completed)
    BY <2>2 DEF Reads, FileKept
  <2>4. ASSUME NEW l \in DOMAIN ROB[i].dst, ROB[i].dst[l] = p
        PROVE  j = i
    BY <2>2, <2>4, <1>8 DEF Placed, OnePlace, InFlightOnce
  <2>5. reg'[p].valid => ROB'[j].completed
    BY <1>3, <1>6, <1>7, <2>3, <2>4
  <2>6. QED
    BY <1>7, <2>1, <2>2, <2>3, <2>5
<1>10. \A j \in DOMAIN ROB : ROB'[j].executed => ROB[j].executed
  BY <1>1, <1>3, <1>6
<1>11. ExecutesAfterProducers'
  BY <1>6, <1>10, SameExecuted DEF SameOperands
<1>12. QED
  BY <1>6, <1>9, <1>11 DEF Reads

-----------------------------------------------------------------------------
(* Renaming.                                                                *)
-----------------------------------------------------------------------------
(* While an instruction is renamed, the older ones have all their names and *)
(* the younger ones none.                                                  *)
LEMMA RenamedSoFar ==
  ASSUME Shape, InOrder, Reads, pc = "rename", NEW i \in DOMAIN ROB, i # visiting
  PROVE  /\ i < visiting => \A a : NamedWrites(i, a) = Writes(i, a)
         /\ ~(i < visiting) => ROB[i].named = 0 /\ \A a : NamedWrites(i, a) = {}
<1>1. retired = 0 /\ visiting \in DOMAIN ROB /\ ROB \in Seq(EntryType) /\ ~ROB[visiting].scheduled
  BY DEF Shape, Progress, TypeOK
<1>2. PICK e \in EntryType : e = ROB[i]
  BY <1>1
<1>3. DOMAIN e.adst = DOMAIN e.dst
  <2>1. Len(e.adst) = Len(e.dst)
    BY <1>2 DEF Reads, OperandsKept
  <2>2. QED
    BY <2>1 DEF EntryType
<1>4. CASE i < visiting
  <2>1. ROB[i].scheduled
    BY <1>4 DEF InOrder, OlderRenamed
  <2>2. \A k \in DOMAIN e.dst : k + Len(e.src) <= e.named
    <3>1. Named(i) = DOMAIN ROB[i].dst
      BY <1>1, <2>1, AllNamed
    <3>2. QED
      BY <3>1, <1>2 DEF Named
  <2>3. \A a : NamedWrites(i, a) = Writes(i, a)
    BY <1>2, <1>3, <2>2 DEF NamedWrites, Writes
  <2>4. QED
    BY <1>4, <2>3
<1>5. CASE ~(i < visiting)
  <2>1. visiting < i
    BY <1>1, <1>5
  <2>2. ~(e.named > 0)
    BY <1>1, <1>2, <2>1 DEF InOrder, RenamedInOrder
  <2>3. e.named = 0 /\ \A k \in DOMAIN e.dst : ~(k + Len(e.src) <= e.named)
    BY <2>2 DEF EntryType
  <2>4. \A a : NamedWrites(i, a) = {}
    BY <1>2, <1>3, <2>3 DEF NamedWrites, Writes
  <2>5. QED
    BY <1>2, <1>5, <2>3, <2>4
<1>6. QED
  BY <1>4, <1>5

(* The frontend table names what the sources being renamed must read. *)
LEMMA FrontendName ==
  ASSUME Shape, InOrder, Reads, pc = "rename",
         \A a : NamedWrites(visiting, a) = {}, NEW a \in Arch
  PROVE  frontend_RAT[a] = NameAfter(visiting - 1, a)
<1>1. /\ visiting \in DOMAIN ROB /\ visiting - 1 \in 0 .. Len(ROB)
      /\ 1 .. visiting - 1 \subseteq DOMAIN ROB
      /\ \A j \in DOMAIN ROB : j < visiting <=> j \in 1 .. visiting - 1
  BY DEF Shape, Progress, TypeOK
<1>2. /\ \A j \in 1 .. visiting - 1 : NamedWrites(j, a) = Writes(j, a)
      /\ \A j \in DOMAIN ROB : j \notin 1 .. visiting - 1 => NamedWrites(j, a) = {}
  BY <1>1, RenamedSoFar
<1>3. CASE Writers(visiting - 1, a) = {}
  <2>1. \A j \in 1 .. visiting - 1 : Writes(j, a) = {}
    BY <1>3 DEF Writers
  <2>2. \A j \in DOMAIN ROB : NamedWrites(j, a) = {}
    BY <1>2, <2>1
  <2>3. frontend_RAT[a] = backend_RAT[a]
    BY <2>2 DEF Reads, FrontendNewest
  <2>4. QED
    BY <1>3, <2>3 DEF NameAfter
<1>4. CASE Writers(visiting - 1, a) # {}
  <2>1. PICK i \in 1 .. visiting - 1 : \E k \in Writes(i, a) :
          /\ \A l \in Writes(i, a) : l <= k
          /\ \A j \in 1 .. visiting - 1 : j > i => Writes(j, a) = {}
          /\ NameAfter(visiting - 1, a) = ROB[i].dst[k]
    BY <1>1, <1>4, NameFound
  <2>2. PICK k \in Writes(i, a) :
          /\ \A l \in Writes(i, a) : l <= k
          /\ \A j \in 1 .. visiting - 1 : j > i => Writes(j, a) = {}
          /\ NameAfter(visiting - 1, a) = ROB[i].dst[k]
    BY <2>1
  <2>3. i \in DOMAIN ROB /\ k \in DOMAIN ROB[i].adst
    BY <1>1 DEF Writes
  <2>4. \A j \in DOMAIN ROB : j > i => NamedWrites(j, a) = {}
    BY <1>2, <2>2
  <2>5. YoungestNamed(a, i, k)
    BY <1>2, <2>2, <2>4 DEF YoungestNamed
  <2>6. frontend_RAT[a] = ROB[i].dst[k]
    BY <2>3, <2>5 DEF Reads, FrontendNewest
  <2>7. QED
    BY <2>2, <2>6
<1>5. QED
  BY <1>3, <1>4

LEMMA NamePhys ==
  ASSUME Shape, InOrder, Reads, pc = "rename", NEW a, Writers(visiting - 1, a) # {}
  PROVE  NameAfter(visiting - 1, a) \in Phys
<1>1. /\ retired = 0 /\ visiting \in DOMAIN ROB /\ visiting - 1 \in 0 .. Len(ROB)
      /\ 1 .. visiting - 1 \subseteq DOMAIN ROB /\ ROB \in Seq(EntryType)
  BY DEF Shape, Progress, TypeOK
<1>2. PICK i \in 1 .. visiting - 1 :
        \E k \in Writes(i, a) : NameAfter(visiting - 1, a) = ROB[i].dst[k]
  BY <1>1, NameFound
<1>3. PICK k \in Writes(i, a) : NameAfter(visiting - 1, a) = ROB[i].dst[k]
  BY <1>2
<1>4. i \in DOMAIN ROB /\ i < visiting
  BY <1>1
<1>5. ROB[i].scheduled
  BY <1>4 DEF InOrder, OlderRenamed
<1>6. k \in DOMAIN ROB[i].dst
  <2>1. PICK e \in EntryType : e = ROB[i]
    BY <1>1, <1>4
  <2>2. Len(e.adst) = Len(e.dst)
    BY <1>4, <2>1 DEF Reads, OperandsKept
  <2>3. k \in DOMAIN e.dst
    BY <2>1, <2>2 DEF EntryType, Writes
  <2>4. QED
    BY <2>1, <2>3
<1>7. k \in Named(i)
  BY <1>1, <1>4, <1>5, <1>6, AllNamed
<1>8. QED
  BY <1>3, <1>4, <1>7, InFlightNames

(* What rename_src_register does to the entry at v: its k-th source, the    *)
(* register a, becomes p.                                                  *)
SrcNaming(v, e, f, k, a, p) ==
  /\ v = visiting /\ v \in DOMAIN ROB /\ e = ROB[v] /\ k = e.named + 1
  /\ k \in DOMAIN e.src /\ k \in DOMAIN e.asrc /\ a = e.asrc[k]
  /\ ROB' = [ROB EXCEPT ![v] = f]
  /\ f.dst = e.dst /\ f.asrc = e.asrc /\ f.adst = e.adst /\ f.named = k
  /\ f.executed = e.executed /\ f.completed = e.completed
  /\ Len(f.src) = Len(e.src) /\ DOMAIN f.src = DOMAIN e.src
  /\ \A j \in DOMAIN e.src : f.src[j] = IF j = k THEN p ELSE e.src[j]
  /\ \A j \in DOMAIN e.dst : ~(j + Len(e.src) <= e.named) /\ ~(j + Len(e.src) <= k)
  /\ \/ /\ isAllocated(a) /\ p = frontend_RAT[a]
        /\ UNCHANGED <<frontend_RAT, backend_RAT, reg>>
     \/ /\ ~isAllocated(a) /\ free_registers # <<>> /\ p = Head(free_registers)
        /\ frontend_RAT' = [frontend_RAT EXCEPT ![a] = p]
        /\ backend_RAT' = [backend_RAT EXCEPT ![a] = p]
        /\ reg' = [reg EXCEPT ![p] = [arch |-> a, valid |-> TRUE]]

LEMMA RenameSrcStep ==
  ASSUME Shape, InOrder, Reads, rename_src_register
  PROVE  \E v \in Nat : \E e, f \in EntryType : \E k \in Nat : \E a \in Arch : \E p \in Phys :
           SrcNaming(v, e, f, k, a, p)
<1>1. PICK e \in EntryType : e = ROB[visiting]
  BY DEF rename_src_register, Shape, TypeOK, Progress
<1>2. visiting \in DOMAIN ROB /\ e.named < Len(e.src) /\ EntryProgress(e)
  BY <1>1 DEF rename_src_register, Shape, Progress
<1>3. PICK k \in Nat : k = e.named + 1 /\ k \in DOMAIN e.src
  BY <1>2 DEF EntryType
<1>4. PICK a \in Arch : a = e.src[k]
  BY <1>3 DEF EntryType
<1>5. k \in DOMAIN e.asrc /\ a = e.asrc[k]
  <2>1. /\ Len(e.asrc) = Len(e.src)
        /\ \A j \in DOMAIN e.src : j > e.named => e.src[j] = e.asrc[j]
    BY <1>1, <1>2 DEF Reads, OperandsKept
  <2>2. DOMAIN e.asrc = DOMAIN e.src /\ k > e.named
    BY <1>3, <2>1 DEF EntryType
  <2>3. QED
    BY <1>3, <1>4, <2>1, <2>2
<1>6. PICK p : p = IF isAllocated(a) THEN frontend_RAT[a] ELSE Head(free_registers)
  OBVIOUS
<1>7. free_registers \in Seq(Phys) /\ frontend_RAT \in [Arch -> Phys \cup {NoReg}]
  BY DEF Shape, TypeOK
<1>8. ~isAllocated(a) => free_registers # <<>>
  <2>1. pc = "rename"
    BY DEF rename_src_register
  <2>2. QED
    BY <2>1, <1>1, <1>2, <1>3, <1>4, ShapeAtHand DEF RegisterAtHand
<1>9. p \in Phys
  BY <1>6, <1>7, <1>8 DEF isAllocated
<1>10. PICK f \in EntryType : f = NamedSrc(e, k, p)
  BY <1>2, <1>3, <1>9, NamedSrcType
<1>11. /\ f.dst = e.dst /\ f.named = k
       /\ Len(f.src) = Len(e.src) /\ DOMAIN f.src = DOMAIN e.src
       /\ \A j \in DOMAIN e.src : f.src[j] = IF j = k THEN p ELSE e.src[j]
  BY <1>2, <1>3, <1>9, <1>10, NamedSrcType
<1>12. /\ f.asrc = e.asrc /\ f.adst = e.adst
       /\ f.executed = e.executed /\ f.completed = e.completed
  BY <1>10 DEF NamedSrc, EntryType
<1>13. ROB' = [ROB EXCEPT ![visiting] = f]
  BY <1>1, <1>3, <1>4, <1>6, <1>10 DEF rename_src_register
<1>14. \A j \in DOMAIN e.dst : ~(j + Len(e.src) <= e.named) /\ ~(j + Len(e.src) <= k)
  <2>1. PICK n, s, d \in Nat : n = e.named /\ s = Len(e.src) /\ d = Len(e.dst)
    BY DEF EntryType
  <2>2. DOMAIN e.dst = 1 .. d
    BY <2>1 DEF EntryType
  <2>3. n < s /\ k = n + 1
    BY <2>1, <1>2, <1>3
  <2>4. \A j \in 1 .. d : ~(j + s <= n) /\ ~(j + s <= k)
    BY <2>3
  <2>5. QED
    BY <2>1, <2>2, <2>4, Zenon
<1>15. \/ /\ isAllocated(a) /\ p = frontend_RAT[a]
          /\ UNCHANGED <<frontend_RAT, backend_RAT, reg>>
       \/ /\ ~isAllocated(a) /\ free_registers # <<>> /\ p = Head(free_registers)
          /\ frontend_RAT' = [frontend_RAT EXCEPT ![a] = p]
          /\ backend_RAT' = [backend_RAT EXCEPT ![a] = p]
          /\ reg' = [reg EXCEPT ![p] = [arch |-> a, valid |-> TRUE]]
  <2>1. CASE isAllocated(a)
    BY <1>1, <1>3, <1>4, <1>6, <2>1 DEF rename_src_register, tables
  <2>2. CASE ~isAllocated(a)
    BY <1>1, <1>3, <1>4, <1>6, <1>8, <2>2 DEF rename_src_register, Renamed, NamedEntry
  <2>3. QED
    BY <2>1, <2>2
<1>16. PICK v \in Nat : v = visiting
  BY DEF Shape, TypeOK
<1>17. SrcNaming(v, e, f, k, a, p)
  BY <1>1, <1>2, <1>3, <1>5, <1>11, <1>12, <1>13, <1>14, <1>15, <1>16 DEF SrcNaming
<1>18. QED
  BY <1>9, <1>17

LEMMA RenameSrcReads ==
  ASSUME Shape, Placed, InOrder, Reads, rename_src_register
  PROVE  Reads'
<1>1. PICK v \in Nat, e, f \in EntryType, k \in Nat, a \in Arch, p \in Phys : SrcNaming(v, e, f, k, a, p)
  BY RenameSrcStep
<1>2. /\ v = visiting /\ v \in DOMAIN ROB /\ e = ROB[v] /\ k = e.named + 1
      /\ k \in DOMAIN e.src /\ k \in DOMAIN e.asrc /\ a = e.asrc[k]
      /\ ROB' = [ROB EXCEPT ![v] = f]
      /\ f.dst = e.dst /\ f.asrc = e.asrc /\ f.adst = e.adst /\ f.named = k
      /\ f.executed = e.executed /\ f.completed = e.completed
      /\ Len(f.src) = Len(e.src) /\ DOMAIN f.src = DOMAIN e.src
      /\ \A j \in DOMAIN e.src : f.src[j] = IF j = k THEN p ELSE e.src[j]
      /\ \A j \in DOMAIN e.dst : ~(j + Len(e.src) <= e.named) /\ ~(j + Len(e.src) <= k)
      /\ \/ /\ isAllocated(a) /\ p = frontend_RAT[a]
            /\ UNCHANGED <<frontend_RAT, backend_RAT, reg>>
         \/ /\ ~isAllocated(a) /\ free_registers # <<>> /\ p = Head(free_registers)
            /\ frontend_RAT' = [frontend_RAT EXCEPT ![a] = p]
            /\ backend_RAT' = [backend_RAT EXCEPT ![a] = p]
            /\ reg' = [reg EXCEPT ![p] = [arch |-> a, valid |-> TRUE]]
  BY <1>1 DEF SrcNaming
<1>3. /\ pc = "rename" /\ pc' = "rename" /\ retired' = retired /\ visiting' = visiting
      /\ ROB \in Seq(EntryType) /\ EntryProgress(e)
      /\ frontend_RAT \in [Arch -> Phys \cup {NoReg}] /\ backend_RAT \in [Arch -> Phys \cup {NoReg}]
      /\ reg \in [Phys -> [arch : Arch, valid : BOOLEAN]]
      /\ free_registers \in Seq(Phys)
  BY <1>2 DEF rename_src_register, Shape, TypeOK, Progress
<1>4. /\ DOMAIN ROB' = DOMAIN ROB /\ ROB'[v] = f
      /\ \A j \in DOMAIN ROB : j # v => ROB'[j] = ROB[j]
  BY <1>2, <1>3, EntryChange
<1>5. \A j \in DOMAIN ROB : /\ ROB'[j].dst = ROB[j].dst /\ ROB'[j].adst = ROB[j].adst
                            /\ ROB'[j].asrc = ROB[j].asrc
                            /\ ROB'[j].executed = ROB[j].executed
                            /\ ROB'[j].completed = ROB[j].completed
  BY <1>2, <1>4
<1>6. DOMAIN e.adst = DOMAIN e.dst /\ DOMAIN e.asrc = DOMAIN e.src
  <2>1. Len(e.adst) = Len(e.dst) /\ Len(e.asrc) = Len(e.src)
    BY <1>2 DEF Reads, OperandsKept
  <2>2. QED
    BY <2>1 DEF EntryType
<1>7. /\ \A b : NamedWrites(v, b) = {} /\ NamedWrites(v, b)' = {}
      /\ \A b : \A j \in DOMAIN ROB : NamedWrites(j, b)' = NamedWrites(j, b)
  <2>1. \A b : NamedWrites(v, b) = {} /\ NamedWrites(v, b)' = {}
    BY <1>2, <1>3, <1>4, <1>6 DEF NamedWrites, Writes
  <2>2. \A b : \A j \in DOMAIN ROB : j # v => NamedWrites(j, b)' = NamedWrites(j, b)
    BY <1>4 DEF NamedWrites, Writes
  <2>3. QED
    BY <2>1, <2>2
<1>8. \A j \in DOMAIN ROB : Named(j)' = Named(j)
  <2>1. Named(v) = {} /\ Named(v)' = {}
    BY <1>2, <1>3, <1>4 DEF Named
  <2>2. \A j \in DOMAIN ROB : j # v => Named(j)' = Named(j)
    BY <1>3, <1>4 DEF Named
  <2>3. QED
    BY <2>1, <2>2
(* The name is the one that the program asks for. *)
<1>9. frontend_RAT[a] = NameAfter(v - 1, a)
  BY <1>2, <1>3, <1>7, FrontendName
<1>10. ~isAllocated(a) => backend_RAT[a] = NoReg /\ Writers(v - 1, a) = {}
  <2>1. ASSUME ~isAllocated(a), Writers(v - 1, a) # {} PROVE FALSE
    <3>1. NameAfter(v - 1, a) \in Phys
      BY <1>2, <1>3, <2>1, NamePhys
    <3>2. QED
      BY <3>1, <1>9, <2>1, NamesFit DEF isAllocated
  <2>2. QED
    BY <2>1 DEF Placed, Mapped
<1>11. /\ v - 1 \in 0 .. Len(ROB)
       /\ \A j \in DOMAIN ROB : j - 1 \in 0 .. Len(ROB) /\ 1 .. j - 1 \subseteq DOMAIN ROB
  BY <1>2, <1>3
<1>12. NameAfter(v - 1, a)' = p
  <2>1. CASE isAllocated(a)
    <3>1. p = frontend_RAT[a] /\ backend_RAT'[a] = backend_RAT[a]
      BY <1>2, <2>1
    <3>2. \A j \in 1 .. v - 1 : ROB'[j].adst = ROB[j].adst /\ ROB'[j].dst = ROB[j].dst
      BY <1>2, <1>5, <1>11
    <3>3. NameAfter(v - 1, a)' = NameAfter(v - 1, a)
      BY <3>1, <3>2, <1>11, NameKept
    <3>4. QED
      BY <3>1, <3>3, <1>9
  <2>2. CASE ~isAllocated(a)
    <3>1. \A j \in 1 .. v - 1 : Writes(j, a)' = Writes(j, a)
      BY <1>2, <1>5, <1>11 DEF Writes
    <3>2. Writers(v - 1, a)' = {}
      BY <2>2, <3>1, <1>3, <1>10 DEF Writers
    <3>3. backend_RAT'[a] = p
      BY <1>2, <1>3, <2>2
    <3>4. QED
      BY <3>2, <3>3 DEF NameAfter
  <2>3. QED
    BY <2>1, <2>2
<1>13. SourcesNamed'
  <2> SUFFICES ASSUME NEW j \in DOMAIN ROB', NEW m \in DOMAIN ROB'[j].src, m <= ROB'[j].named,
                      NEW b, b = ROB'[j].asrc[m]
               PROVE  ROB'[j].src[m] = NameAfter(j - 1, b)'
    BY DEF SourcesNamed
  <2>1. CASE j = v /\ m = k
    BY <2>1, <1>2, <1>4, <1>12
  <2>2. CASE ~(j = v /\ m = k)
    <3>1. j \in DOMAIN ROB /\ m \in DOMAIN ROB[j].src /\ m <= ROB[j].named /\ b = ROB[j].asrc[m]
          /\ ROB'[j].src[m] = ROB[j].src[m]
      <4>1. CASE j = v
        <5>1. m \in DOMAIN e.src /\ m # k /\ m <= k
          BY <4>1, <2>2, <1>2, <1>4
        <5>2. m <= e.named
          BY <5>1, <1>2 DEF EntryType
        <5>3. QED
          BY <4>1, <5>1, <5>2, <1>2, <1>4
      <4>2. CASE j # v
        BY <4>2, <1>4
      <4>3. QED
        BY <4>1, <4>2
    <3>2. ROB[j].src[m] = NameAfter(j - 1, b)
      BY <3>1, <1>3 DEF Reads, SourcesNamed
    <3>3. Writers(j - 1, b) # {} \/ backend_RAT'[b] = backend_RAT[b]
      <4>1. ROB[j].src[m] \in Phys
        BY <3>1 DEF Shape, Progress, EntryProgress
      <4>2. Writers(j - 1, b) = {} => backend_RAT[b] # NoReg
        BY <4>1, <3>2, NamesFit DEF NameAfter
      <4>3. CASE b = a
        BY <4>2, <4>3, <1>2, <1>10
      <4>4. CASE b # a
        <5>1. b \in Arch
          <6>1. PICK g \in EntryType : g = ROB[j]
            BY <3>1, <1>3
          <6>2. Len(g.asrc) = Len(g.src)
            BY <3>1, <6>1 DEF Reads, OperandsKept
          <6>3. m \in DOMAIN g.asrc
            BY <3>1, <6>1, <6>2 DEF EntryType
          <6>4. QED
            BY SMTT(30), <3>1, <6>1, <6>3 DEF EntryType
        <5>2. QED
          BY <4>4, <5>1, <1>2, <1>3
      <4>5. QED
        BY <4>3, <4>4
    <3>4. NameAfter(j - 1, b)' = NameAfter(j - 1, b)
      BY <3>1, <3>3, <1>5, <1>11, NameKept
    <3>5. QED
      BY <3>1, <3>2, <3>4
  <2>3. QED
    BY <2>1, <2>2
<1>14. FrontendNewest'
  <2>1. CASE isAllocated(a)
    BY <2>1, <1>2, <1>4, <1>5, <1>7, SameNewest
  <2>2. CASE ~isAllocated(a)
    <3>1. \A j \in DOMAIN ROB : NamedWrites(j, a)' = {}
      <4>1. \A j \in 1 .. v - 1 : Writes(j, a) = {}
        BY <2>2, <1>10 DEF Writers
      <4>2. \A j \in DOMAIN ROB : j < v => j \in 1 .. v - 1
        BY <1>2, <1>3
      <4>3. \A j \in DOMAIN ROB : j # v => NamedWrites(j, a) = {}
        BY <1>2, <1>3, <4>1, <4>2, RenamedSoFar
      <4>4. QED
        BY <4>3, <1>7
    <3>2. \A b \in Arch : /\ b # a => frontend_RAT'[b] = frontend_RAT[b] /\ backend_RAT'[b] = backend_RAT[b]
                          /\ b = a => frontend_RAT'[b] = p /\ backend_RAT'[b] = p
      BY <2>2, <1>2, <1>3
    <3>3. \A b \in Arch : \A j \in DOMAIN ROB : \A m : YoungestNamed(b, j, m)' => YoungestNamed(b, j, m)
      BY <1>4, <1>7 DEF YoungestNamed
    <3>4. \A j \in DOMAIN ROB : \A m : ~YoungestNamed(a, j, m)'
      BY <3>1 DEF YoungestNamed
    <3>5. ASSUME NEW b \in Arch
          PROVE  /\ (\A j \in DOMAIN ROB' : NamedWrites(j, b)' = {}) => frontend_RAT'[b] = backend_RAT'[b]
                 /\ \A j \in DOMAIN ROB' : \A m \in DOMAIN ROB'[j].adst :
                      YoungestNamed(b, j, m)' => frontend_RAT'[b] = ROB'[j].dst[m]
      <4>1. CASE b = a
        BY <4>1, <3>2, <3>4, <1>4
      <4>2. CASE b # a
        BY <4>2, <3>2, <3>3, <1>4, <1>5, <1>7 DEF Reads, FrontendNewest
      <4>3. QED
        BY <4>1, <4>2
    <3>6. QED
      BY <3>5 DEF FrontendNewest
  <2>3. QED
    BY <2>1, <2>2
<1>15. FileKept'
  <2>1. \A j \in DOMAIN ROB : \A m \in Named(j) : reg'[ROB[j].dst[m]] = reg[ROB[j].dst[m]]
    <3>1. CASE isAllocated(a)
      BY <3>1, <1>2
    <3>2. CASE ~isAllocated(a)
      <4>1. 1 \in DOMAIN free_registers /\ p = free_registers[1]
        BY <3>2, <1>2, <1>3
      <4>2. \A j \in DOMAIN ROB : \A m \in Named(j) : ROB[j].dst[m] # p /\ ROB[j].dst[m] \in Phys
        BY <4>1, InFlightNames DEF Placed, OnePlace, FreeNotInFlight
      <4>3. \A q \in Phys : q # p => reg'[q] = reg[q]
        BY <3>2, <1>2, <1>3
      <4>4. QED
        BY <4>2, <4>3
    <3>3. QED
      BY <3>1, <3>2
  <2>2. QED
    BY <2>1, <1>4, <1>5, <1>8, SameFile
<1>16. OperandsKept'
  <2>1. /\ Len(f.asrc) = Len(f.src) /\ Len(f.adst) = Len(f.dst)
        /\ \A m \in DOMAIN f.src : m > f.named => f.src[m] = f.asrc[m]
        /\ \A m \in DOMAIN f.dst : m + Len(f.src) > f.named => f.dst[m] = f.adst[m]
    <3>1. /\ Len(e.asrc) = Len(e.src) /\ Len(e.adst) = Len(e.dst)
          /\ \A m \in DOMAIN e.src : m > e.named => e.src[m] = e.asrc[m]
          /\ \A m \in DOMAIN e.dst : m + Len(e.src) > e.named => e.dst[m] = e.adst[m]
      BY <1>2 DEF Reads, OperandsKept
    <3>2. \A m \in DOMAIN e.src : m > k => m > e.named /\ m # k
      BY <1>2 DEF EntryType
    <3>3. \A m \in DOMAIN e.dst : m + Len(e.src) > e.named
      <4>1. PICK n, s, d \in Nat : n = e.named /\ s = Len(e.src) /\ d = Len(e.dst)
        BY DEF EntryType
      <4>2. DOMAIN e.dst = 1 .. d
        BY <4>1 DEF EntryType
      <4>3. \A m \in 1 .. d : ~(m + s <= n) => m + s > n
        BY <4>1
      <4>4. QED
        BY <4>1, <4>2, <4>3, <1>2, Zenon
    <3>4. \A m \in DOMAIN e.dst : e.dst[m] = e.adst[m]
      BY <3>1, <3>3, Zenon
    <3>5. \A m \in DOMAIN e.src : m > k => f.src[m] = e.asrc[m]
      BY <3>1, <3>2, <1>2
    <3>6. /\ f.dst = e.dst /\ f.asrc = e.asrc /\ f.adst = e.adst /\ f.named = k
          /\ Len(f.src) = Len(e.src) /\ DOMAIN f.src = DOMAIN e.src
      BY <1>2
    <3>7. QED
      BY <3>1, <3>4, <3>5, <3>6
  <2>2. ASSUME NEW j \in DOMAIN ROB'
        PROVE  LET g == ROB'[j]
               IN  /\ Len(g.asrc) = Len(g.src) /\ Len(g.adst) = Len(g.dst)
                   /\ \A m \in DOMAIN g.src : m > g.named => g.src[m] = g.asrc[m]
                   /\ \A m \in DOMAIN g.dst : m + Len(g.src) > g.named => g.dst[m] = g.adst[m]
    <3>1. CASE j = v
      BY <3>1, <1>4, <2>1
    <3>2. CASE j # v
      BY <3>2, <1>4 DEF Reads, OperandsKept
    <3>3. QED
      BY <3>1, <3>2
  <2>3. QED
    BY <2>2 DEF OperandsKept
<1>17. ExecutesAfterProducers'
  BY <1>4, <1>5, SameExecuted
<1>18. RetiredCommitted'
  BY <1>3 DEF RetiredCommitted
<1>19. QED
  BY <1>13, <1>14, <1>15, <1>16, <1>17, <1>18 DEF Reads

(* What rename_dest_register does to the entry at v: its m-th destination,  *)
(* the register a, becomes p.                                              *)
DstNaming(v, e, f, m, a, p) ==
  /\ v = visiting /\ v \in DOMAIN ROB /\ e = ROB[v]
  /\ m \in DOMAIN e.dst /\ m \in DOMAIN e.adst /\ a = e.adst[m]
  /\ ROB' = [ROB EXCEPT ![v] = f]
  /\ f.src = e.src /\ f.asrc = e.asrc /\ f.adst = e.adst /\ f.named = e.named + 1
  /\ f.executed = e.executed /\ f.completed = e.completed
  /\ Len(f.dst) = Len(e.dst) /\ DOMAIN f.dst = DOMAIN e.dst
  /\ \A j \in DOMAIN e.dst : f.dst[j] = IF j = m THEN p ELSE e.dst[j]
  /\ \A j \in DOMAIN e.dst :
       /\ j + Len(e.src) <= e.named + 1 <=> j + Len(e.src) <= e.named \/ j = m
       /\ j + Len(e.src) <= e.named => j < m
       /\ j + Len(e.src) > e.named + 1 => j + Len(e.src) > e.named /\ j # m
  /\ \A j \in DOMAIN e.src : j <= e.named
  /\ free_registers # <<>> /\ p = Head(free_registers)
  /\ frontend_RAT' = [frontend_RAT EXCEPT ![a] = p]
  /\ backend_RAT' = backend_RAT
  /\ reg' = [reg EXCEPT ![p] = [arch |-> a, valid |-> FALSE]]

LEMMA RenameDestStep ==
  ASSUME Shape, InOrder, Reads, rename_dest_register
  PROVE  \E v \in Nat : \E e, f \in EntryType : \E m \in Nat : \E a \in Arch : \E p \in Phys :
           DstNaming(v, e, f, m, a, p)
<1>1. PICK e \in EntryType : e = ROB[visiting]
  BY DEF rename_dest_register, Shape, TypeOK, Progress
<1>2. PICK m : m = e.named + 1 - Len(e.src)
  OBVIOUS
<1>3. m \in 1 .. Len(e.dst)
  BY <1>1, <1>2 DEF rename_dest_register
<1>4. PICK p : p = Head(free_registers)
  OBVIOUS
<1>5. free_registers # <<>> /\ p \in Phys
  BY <1>4, RenameDestShape DEF Shape, TypeOK
<1>6. visiting \in DOMAIN ROB /\ EntryProgress(e)
  BY <1>1 DEF rename_dest_register, Shape, Progress
<1>7. /\ e.named + 1 = m + Len(e.src) /\ m \in Nat /\ m \in DOMAIN e.dst
      /\ Len(e.dst) \in Nat /\ Len(e.src) \in Nat /\ e.named \in Nat
      /\ DOMAIN e.dst = 1 .. Len(e.dst) /\ DOMAIN e.src = 1 .. Len(e.src)
  BY <1>2, <1>3 DEF EntryType
<1>8. PICK f \in EntryType : f = NamedDst(e, m, p)
  BY <1>3, <1>5, <1>6, <1>7, NamedDstType
<1>9. /\ f.src = e.src /\ f.named = e.named + 1
      /\ Len(f.dst) = Len(e.dst) /\ DOMAIN f.dst = DOMAIN e.dst
      /\ \A j \in DOMAIN e.dst : f.dst[j] = IF j = m THEN p ELSE e.dst[j]
  BY <1>3, <1>5, <1>6, <1>7, <1>8, NamedDstType
<1>10. /\ f.asrc = e.asrc /\ f.adst = e.adst
       /\ f.executed = e.executed /\ f.completed = e.completed
  BY <1>8 DEF NamedDst, EntryType
<1>11. PICK a \in Arch : a = e.dst[m]
  BY <1>3 DEF EntryType
<1>12. /\ ROB' = [ROB EXCEPT ![visiting] = f]
       /\ frontend_RAT' = [frontend_RAT EXCEPT ![a] = p]
       /\ reg' = [reg EXCEPT ![p] = [arch |-> a, valid |-> FALSE]]
       /\ backend_RAT' = backend_RAT
  BY <1>1, <1>2, <1>4, <1>8, <1>11 DEF rename_dest_register, Renamed, NamedEntry
<1>13. /\ \A j \in DOMAIN e.dst :
             /\ j + Len(e.src) <= e.named + 1 <=> j + Len(e.src) <= e.named \/ j = m
             /\ j + Len(e.src) <= e.named => j < m
             /\ j + Len(e.src) > e.named + 1 => j + Len(e.src) > e.named /\ j # m
       /\ m + Len(e.src) > e.named
       /\ \A j \in DOMAIN e.src : j <= e.named
  <2>1. PICK n, s, d \in Nat : n = e.named /\ s = Len(e.src) /\ d = Len(e.dst)
    BY <1>7
  <2>2. n + 1 = m + s /\ m \in 1 .. d
    BY <2>1, <1>3, <1>7
  <2>3. /\ \A j \in 1 .. d :
             /\ j + s <= n + 1 <=> j + s <= n \/ j = m
             /\ j + s <= n => j < m
             /\ j + s > n + 1 => j + s > n /\ j # m
        /\ m + s > n
        /\ \A j \in 1 .. s : j <= n
    BY <2>2
  <2>4. QED
    BY <2>1, <2>3, <1>7, Zenon
<1>14. m \in DOMAIN e.adst /\ a = e.adst[m]
  <2>1. /\ Len(e.adst) = Len(e.dst)
        /\ \A j \in DOMAIN e.dst : j + Len(e.src) > e.named => e.dst[j] = e.adst[j]
    BY <1>1, <1>6 DEF Reads, OperandsKept
  <2>2. DOMAIN e.adst = DOMAIN e.dst
    BY <2>1 DEF EntryType
  <2>3. QED
    BY <1>7, <1>11, <1>13, <2>1, <2>2
<1>15. PICK v \in Nat : v = visiting
  BY DEF Shape, TypeOK
<1>16. DstNaming(v, e, f, m, a, p)
  BY <1>1, <1>4, <1>5, <1>6, <1>7, <1>9, <1>10, <1>12, <1>13, <1>14, <1>15, Zenon DEF DstNaming
<1>17. QED
  BY <1>5, <1>7, <1>16

LEMMA RenameDestReads ==
  ASSUME Shape, Placed, InOrder, Reads, rename_dest_register
  PROVE  Reads'
<1>1. PICK v \in Nat, e, f \in EntryType, m \in Nat, a \in Arch, p \in Phys :
        DstNaming(v, e, f, m, a, p)
  BY RenameDestStep
<1>2. /\ v = visiting /\ v \in DOMAIN ROB /\ e = ROB[v]
      /\ m \in DOMAIN e.dst /\ m \in DOMAIN e.adst /\ a = e.adst[m]
      /\ ROB' = [ROB EXCEPT ![v] = f]
      /\ f.src = e.src /\ f.asrc = e.asrc /\ f.adst = e.adst /\ f.named = e.named + 1
      /\ f.executed = e.executed /\ f.completed = e.completed
      /\ Len(f.dst) = Len(e.dst) /\ DOMAIN f.dst = DOMAIN e.dst
      /\ \A j \in DOMAIN e.dst : f.dst[j] = IF j = m THEN p ELSE e.dst[j]
  BY <1>1 DEF DstNaming
<1>3. /\ \A j \in DOMAIN e.dst :
           /\ j + Len(e.src) <= e.named + 1 <=> j + Len(e.src) <= e.named \/ j = m
           /\ j + Len(e.src) <= e.named => j < m
           /\ j + Len(e.src) > e.named + 1 => j + Len(e.src) > e.named /\ j # m
      /\ \A j \in DOMAIN e.src : j <= e.named
  BY <1>1 DEF DstNaming
<1>4. /\ free_registers # <<>> /\ p = Head(free_registers)
      /\ frontend_RAT' = [frontend_RAT EXCEPT ![a] = p]
      /\ backend_RAT' = backend_RAT
      /\ reg' = [reg EXCEPT ![p] = [arch |-> a, valid |-> FALSE]]
  BY <1>1 DEF DstNaming
<1>5. /\ pc = "rename" /\ pc' = "rename" /\ retired' = retired /\ retired = 0
      /\ ROB \in Seq(EntryType)
      /\ frontend_RAT \in [Arch -> Phys \cup {NoReg}]
      /\ reg \in [Phys -> [arch : Arch, valid : BOOLEAN]]
      /\ free_registers \in Seq(Phys)
  BY DEF rename_dest_register, Shape, TypeOK, Progress
<1>6. /\ DOMAIN ROB' = DOMAIN ROB /\ ROB'[v] = f
      /\ \A j \in DOMAIN ROB : j # v => ROB'[j] = ROB[j]
  BY <1>2, <1>5, EntryChange
<1>7. \A j \in DOMAIN ROB : /\ ROB'[j].adst = ROB[j].adst /\ ROB'[j].asrc = ROB[j].asrc
                            /\ ROB'[j].executed = ROB[j].executed
                            /\ ROB'[j].completed = ROB[j].completed
  BY <1>2, <1>6
<1>8. DOMAIN e.adst = DOMAIN e.dst
  <2>1. Len(e.adst) = Len(e.dst)
    BY <1>2 DEF Reads, OperandsKept
  <2>2. QED
    BY <2>1 DEF EntryType
<1>9. \A j \in DOMAIN ROB : j - 1 \in 0 .. Len(ROB) /\ 1 .. j - 1 \subseteq DOMAIN ROB
                            /\ \A l \in 1 .. j - 1 : l < j /\ l \in Nat
  BY <1>5
<1>10. \A j \in DOMAIN ROB : j # v /\ ~(j < v) => ROB[j].named = 0 /\ \A b : NamedWrites(j, b) = {}
  BY <1>2, <1>5, RenamedSoFar
<1>11. SourcesNamed'
  <2> SUFFICES ASSUME NEW j \in DOMAIN ROB', NEW k \in DOMAIN ROB'[j].src, k <= ROB'[j].named,
                      NEW b, b = ROB'[j].asrc[k]
               PROVE  ROB'[j].src[k] = NameAfter(j - 1, b)'
    BY DEF SourcesNamed
  <2>1. /\ j \in DOMAIN ROB /\ k \in DOMAIN ROB[j].src /\ b = ROB[j].asrc[k]
        /\ ROB'[j].src[k] = ROB[j].src[k] /\ k <= ROB[j].named
    <3>1. CASE j = v
      BY <3>1, <1>2, <1>3, <1>6
    <3>2. CASE j # v
      BY <3>2, <1>6
    <3>3. QED
      BY <3>1, <3>2
  <2>2. ROB[j].src[k] = NameAfter(j - 1, b)
    BY <2>1, <1>5 DEF Reads, SourcesNamed
  <2>3. j = v \/ j < v
    <3>1. PICK g \in EntryType : g = ROB[j]
      BY <2>1, <1>5
    <3>2. k > 0 /\ k \in Nat
      BY SMTT(30), <2>1, <3>1 DEF EntryType
    <3>3. ROB[j].named # 0
      BY <2>1, <3>2
    <3>4. QED
      BY <2>1, <3>3, <1>10
  <2>4. \A l \in 1 .. j - 1 : l \in DOMAIN ROB /\ l # v
    BY <2>1, <2>3, <1>2, <1>5
  <2>5. \A l \in 1 .. j - 1 : ROB'[l].adst = ROB[l].adst /\ ROB'[l].dst = ROB[l].dst
    BY <2>4, <1>6
  <2>6. j - 1 \in 0 .. Len(ROB)
    BY <2>1, <1>9
  <2>7. NameAfter(j - 1, b)' = NameAfter(j - 1, b)
    BY <2>5, <2>6, <1>4, NameKept
  <2>8. QED
    BY <2>1, <2>2, <2>7
<1>12. /\ \A b : \A j \in DOMAIN ROB : j # v => NamedWrites(j, b)' = NamedWrites(j, b)
       /\ \A b : b # a => NamedWrites(v, b)' = NamedWrites(v, b)
       /\ NamedWrites(v, a)' = NamedWrites(v, a) \cup {m}
       /\ \A b : \A l \in NamedWrites(v, b) : l < m /\ l \in DOMAIN e.dst
  <2>1. \A b : \A j \in DOMAIN ROB : j # v => NamedWrites(j, b)' = NamedWrites(j, b)
    BY <1>6 DEF NamedWrites, Writes
  <2>2. \A b : /\ NamedWrites(v, b) = {l \in DOMAIN e.adst : e.adst[l] = b /\ l + Len(e.src) <= e.named}
               /\ NamedWrites(v, b)' =
                    {l \in DOMAIN e.adst : e.adst[l] = b /\ l + Len(e.src) <= e.named + 1}
    BY <1>2, <1>6 DEF NamedWrites, Writes
  <2>3. \A l \in DOMAIN e.adst :
          /\ l + Len(e.src) <= e.named + 1 <=> l + Len(e.src) <= e.named \/ l = m
          /\ l + Len(e.src) <= e.named => l < m
    BY <1>3, <1>8, Zenon
  <2>4. m \in DOMAIN e.adst /\ e.adst[m] = a
    BY <1>2
  <2>5. ASSUME NEW b, b # a PROVE NamedWrites(v, b)' = NamedWrites(v, b)
    <3>1. \A l \in DOMAIN e.adst : e.adst[l] = b => l # m
      BY <2>5, <2>4
    <3>2. \A l \in DOMAIN e.adst :
            e.adst[l] = b => (l + Len(e.src) <= e.named + 1 <=> l + Len(e.src) <= e.named)
      BY <2>3, <3>1, Zenon
    <3>3. QED
      BY <2>2, <3>2, Zenon
  <2>6. NamedWrites(v, a)' = NamedWrites(v, a) \cup {m}
    <3>1. ASSUME NEW l
          PROVE  l \in NamedWrites(v, a)' <=> l \in NamedWrites(v, a) \/ l = m
      <4>1. CASE l = m
        BY <4>1, <2>2, <2>3, <2>4, Zenon
      <4>2. CASE l # m
        BY <4>2, <2>2, <2>3, Zenon
      <4>3. QED
        BY <4>1, <4>2
    <3>2. QED
      BY <3>1, Zenon
  <2>7. \A b : \A l \in NamedWrites(v, b) : l < m /\ l \in DOMAIN e.dst
    BY <2>2, <2>3, <1>8, Zenon
  <2>8. QED
    BY <2>1, <2>5, <2>6, <2>7
<1>13. FrontendNewest'
  <2> SUFFICES ASSUME NEW b \in Arch
               PROVE  /\ (\A j \in DOMAIN ROB' : NamedWrites(j, b)' = {})
                           => frontend_RAT'[b] = backend_RAT'[b]
                      /\ \A j \in DOMAIN ROB' : \A l \in DOMAIN ROB'[j].adst :
                           YoungestNamed(b, j, l)' => frontend_RAT'[b] = ROB'[j].dst[l]
    BY DEF FrontendNewest
  <2>1. CASE b = a
    <3>1. m \in NamedWrites(v, a)'
      BY <1>12
    <3>2. ASSUME NEW j \in DOMAIN ROB, NEW l, YoungestNamed(a, j, l)'
          PROVE  j = v /\ l = m
      <4>1. /\ l \in NamedWrites(j, a)'
            /\ \A x \in NamedWrites(j, a)' : x <= l
            /\ \A i \in DOMAIN ROB' : i > j => NamedWrites(i, a)' = {}
        BY <3>2 DEF YoungestNamed
      <4>2. ~(v > j)
        BY <4>1, <3>1, <1>2, <1>6
      <4>3. j = v \/ NamedWrites(j, a) = {}
        BY <4>2, <1>2, <1>5, <1>10
      <4>4. j = v
        BY <4>1, <4>3, <1>12
      <4>5. l = m \/ l < m
        BY <4>1, <4>4, <1>12
      <4>6. m <= l
        BY <4>1, <4>4, <3>1
      <4>7. l \in Nat
        <5>1. DOMAIN e.dst \subseteq Nat
          BY DEF EntryType
        <5>2. QED
          BY <4>1, <4>4, <5>1, <1>12
      <4>8. \A x, y \in Nat : (x = y \/ x < y) /\ y <= x => x = y
        OBVIOUS
      <4>9. QED
        BY <4>4, <4>5, <4>6, <4>7, <4>8, Zenon
    <3>3. frontend_RAT'[a] = p /\ ROB'[v].dst[m] = p
      BY <1>2, <1>4, <1>5, <1>6
    <3>4. ~(\A j \in DOMAIN ROB' : NamedWrites(j, a)' = {})
      BY <3>1, <1>2, <1>6
    <3>5. \A j \in DOMAIN ROB' : \A l : YoungestNamed(a, j, l)' => frontend_RAT'[a] = ROB'[j].dst[l]
      BY <3>2, <3>3, <1>6
    <3>6. QED
      BY <2>1, <3>4, <3>5
  <2>2. CASE b # a
    <3>1. \A j \in DOMAIN ROB : NamedWrites(j, b)' = NamedWrites(j, b)
      BY <2>2, <1>12
    <3>2. \A j \in DOMAIN ROB : \A l : YoungestNamed(b, j, l)' => YoungestNamed(b, j, l)
      BY <3>1, <1>6 DEF YoungestNamed
    <3>3. frontend_RAT'[b] = frontend_RAT[b] /\ backend_RAT'[b] = backend_RAT[b]
      BY <2>2, <1>4, <1>5
    <3>4. \A j \in DOMAIN ROB : \A l \in NamedWrites(j, b) : ROB'[j].dst[l] = ROB[j].dst[l]
      BY <1>2, <1>6, <1>12
    <3>5. \A j \in DOMAIN ROB : \A l : YoungestNamed(b, j, l) => l \in NamedWrites(j, b)
      BY DEF YoungestNamed
    <3>6. /\ (\A j \in DOMAIN ROB : NamedWrites(j, b) = {}) => frontend_RAT[b] = backend_RAT[b]
          /\ \A j \in DOMAIN ROB : \A l \in DOMAIN ROB[j].adst :
               YoungestNamed(b, j, l) => frontend_RAT[b] = ROB[j].dst[l]
      BY DEF Reads, FrontendNewest
    <3>7. QED
      BY <3>1, <3>2, <3>3, <3>4, <3>5, <3>6, <1>6, <1>7
  <2>3. QED
    BY <2>1, <2>2
<1>14. FileKept'
  <2>1. /\ \A j \in DOMAIN ROB : j # v => Named(j)' = Named(j)
        /\ Named(v)' = Named(v) \cup {m} /\ m \notin Named(v) /\ Named(v) \subseteq DOMAIN e.dst
    <3>1. \A l \in DOMAIN e.dst : l > 0
      BY DEF EntryType
    <3>2. /\ Named(v) = {l \in DOMAIN e.dst : l + Len(e.src) <= e.named}
          /\ Named(v)' = {l \in DOMAIN e.dst : l + Len(e.src) <= e.named + 1}
      BY SMTT(30), <3>1, <1>2, <1>5, <1>6 DEF Named
    <3>3. \A j \in DOMAIN ROB : j # v => Named(j)' = Named(j)
      BY <1>5, <1>6 DEF Named
    <3>4. ~(m < m)
      OBVIOUS
    <3>5. QED
      BY <3>2, <3>3, <3>4, <1>2, <1>3
  <2>2. 1 \in DOMAIN free_registers /\ p = free_registers[1]
    BY <1>4, <1>5
  <2>3. \A j \in DOMAIN ROB : \A l \in Named(j) : ROB[j].dst[l] # p /\ ROB[j].dst[l] \in Phys
    BY <2>2, InFlightNames DEF Placed, OnePlace, FreeNotInFlight
  <2>4. /\ \A q \in Phys : q # p => reg'[q] = reg[q]
        /\ reg'[p].arch = a /\ ~reg'[p].valid
    BY <1>4, <1>5
  <2> SUFFICES ASSUME NEW j \in DOMAIN ROB, NEW l \in Named(j)'
               PROVE  /\ reg'[ROB'[j].dst[l]].arch = ROB'[j].adst[l]
                      /\ reg'[ROB'[j].dst[l]].valid => ROB'[j].completed
    BY <1>6 DEF FileKept
  <2>5. CASE j = v /\ l = m
    BY <2>4, <2>5, <1>2, <1>6
  <2>6. CASE ~(j = v /\ l = m)
    <3>1. l \in Named(j)
      BY <2>1, <2>6
    <3>2. ROB'[j].dst[l] = ROB[j].dst[l]
      BY <2>1, <2>6, <3>1, <1>2, <1>6
    <3>3. reg'[ROB[j].dst[l]] = reg[ROB[j].dst[l]]
      BY <2>3, <2>4, <3>1
    <3>4. QED
      BY <3>1, <3>2, <3>3, <1>7 DEF Reads, FileKept
  <2>7. QED
    BY <2>5, <2>6
<1>15. OperandsKept'
  <2>1. /\ Len(f.asrc) = Len(f.src) /\ Len(f.adst) = Len(f.dst)
        /\ \A k \in DOMAIN f.src : k > f.named => f.src[k] = f.asrc[k]
        /\ \A k \in DOMAIN f.dst : k + Len(f.src) > f.named => f.dst[k] = f.adst[k]
    <3>1. /\ Len(e.asrc) = Len(e.src) /\ Len(e.adst) = Len(e.dst)
          /\ \A k \in DOMAIN e.dst : k + Len(e.src) > e.named => e.dst[k] = e.adst[k]
      BY <1>2 DEF Reads, OperandsKept
    <3>2. \A k \in DOMAIN e.dst : k + Len(e.src) > e.named + 1 => f.dst[k] = e.adst[k]
      BY <3>1, <1>2, <1>3
    <3>3. \A k \in DOMAIN e.src : ~(k > e.named + 1)
      <4>1. \A k \in DOMAIN e.src : k \in Nat /\ e.named \in Nat
        BY DEF EntryType
      <4>2. QED
        BY <4>1, <1>3
    <3>4. QED
      BY <3>1, <3>2, <3>3, <1>2
  <2>2. ASSUME NEW j \in DOMAIN ROB'
        PROVE  LET g == ROB'[j]
               IN  /\ Len(g.asrc) = Len(g.src) /\ Len(g.adst) = Len(g.dst)
                   /\ \A k \in DOMAIN g.src : k > g.named => g.src[k] = g.asrc[k]
                   /\ \A k \in DOMAIN g.dst : k + Len(g.src) > g.named => g.dst[k] = g.adst[k]
    <3>1. CASE j = v
      BY <3>1, <1>6, <2>1
    <3>2. CASE j # v
      BY <3>2, <1>6 DEF Reads, OperandsKept
    <3>3. QED
      BY <3>1, <3>2
  <2>3. QED
    BY <2>2 DEF OperandsKept
<1>16. ExecutesAfterProducers'
  BY <1>6, <1>7, SameExecuted
<1>17. RetiredCommitted'
  BY <1>5 DEF RetiredCommitted
<1>18. QED
  BY <1>11, <1>13, <1>14, <1>15, <1>16, <1>17 DEF Reads

-----------------------------------------------------------------------------
(* Retirement.                                                              *)
-----------------------------------------------------------------------------
(* The head, all of whose destinations have names.                          *)
LEMMA HeadNamed ==
  ASSUME Shape, Reads, pc = "retire", NEW e, e = Head(ROB)
  PROVE  /\ ROB \in Seq(EntryType) /\ 1 \in DOMAIN ROB /\ e = ROB[1] /\ e \in EntryType
         /\ DOMAIN e.adst = DOMAIN e.dst /\ DOMAIN e.dst = 1 .. Len(e.dst) /\ Len(e.dst) \in Nat
         /\ \A k \in DOMAIN e.dst : k + Len(e.src) <= e.named
         /\ retired \in 0 .. Len(e.dst)
<1>1. ROB \in Seq(EntryType) /\ ROB # <<>> /\ e.completed /\ retired <= Len(e.dst) /\ retired \in Nat
  BY DEF Shape, TypeOK, Progress
<1>2. 1 \in DOMAIN ROB /\ e = ROB[1] /\ e \in EntryType
  BY <1>1
<1>3. Len(e.adst) = Len(e.dst)
  BY <1>2 DEF Reads, OperandsKept
<1>4. /\ DOMAIN e.adst = DOMAIN e.dst /\ DOMAIN e.dst = 1 .. Len(e.dst) /\ Len(e.dst) \in Nat
      /\ Len(e.src) \in Nat
  BY <1>2, <1>3 DEF EntryType
<1>5. e.named = Len(e.src) + Len(e.dst)
  BY <1>1, <1>2 DEF Shape, Progress, EntryProgress, Size
<1>6. \A k \in DOMAIN e.dst : k + Len(e.src) <= e.named
  <2>1. \A s, d \in Nat : \A k \in 1 .. d : k + s <= s + d
    OBVIOUS
  <2>2. QED
    BY <2>1, <1>4, <1>5, Zenon
<1>7. QED
  BY <1>1, <1>2, <1>4, <1>6

(* A destination of the head becomes the committed name of its register.    *)
LEMMA RetireDestReads ==
  ASSUME Shape, Placed, Reads, retire_dest_register
  PROVE  Reads'
<1>1. PICK e : e = Head(ROB)
  OBVIOUS
<1>2. pc = "retire"
  BY DEF retire_dest_register
<1>3. /\ ROB \in Seq(EntryType) /\ 1 \in DOMAIN ROB /\ e = ROB[1] /\ e \in EntryType
      /\ DOMAIN e.adst = DOMAIN e.dst /\ DOMAIN e.dst = 1 .. Len(e.dst) /\ Len(e.dst) \in Nat
      /\ \A k \in DOMAIN e.dst : k + Len(e.src) <= e.named
      /\ retired \in 0 .. Len(e.dst)
  BY <1>1, <1>2, HeadNamed
<1>4. PICK k \in DOMAIN e.dst : k = retired + 1
  BY SMTT(30), <1>1, <1>3 DEF retire_dest_register
<1>5. k \in Named(1)
  BY SMTT(30), <1>3, <1>4 DEF Named
<1>6. PICK p \in Phys : p = e.dst[k]
  BY <1>3, <1>5, InFlightNames
<1>7. PICK a \in Arch : a = e.adst[k]
  BY <1>3, <1>4 DEF EntryType
<1>8. reg[p].arch = a
  BY <1>3, <1>5, <1>6, <1>7 DEF Reads, FileKept
<1>9. /\ backend_RAT' = [backend_RAT EXCEPT ![a] = p]
      /\ \A q \in Phys : q # backend_RAT[a] => reg'[q] = reg[q]
      /\ retired' = retired + 1 /\ pc' = "retire"
      /\ frontend_RAT' = frontend_RAT /\ ROB' = ROB
      /\ backend_RAT \in [Arch -> Phys \cup {NoReg}]
  <2>1. reg \in [Phys -> [arch : Arch, valid : BOOLEAN]] /\ backend_RAT \in [Arch -> Phys \cup {NoReg}]
    BY DEF Shape, TypeOK
  <2>2. reg' = IF backend_RAT[a] = NoReg THEN reg
               ELSE [reg EXCEPT ![backend_RAT[a]] = [arch |-> RAT_SIZE - 1, valid |-> FALSE]]
    BY <1>1, <1>4, <1>6, <1>8 DEF retire_dest_register
  <2>3. /\ backend_RAT' = [backend_RAT EXCEPT ![a] = p]
        /\ retired' = retired + 1 /\ pc' = "retire"
        /\ frontend_RAT' = frontend_RAT /\ ROB' = ROB
    BY <1>1, <1>4, <1>6, <1>8 DEF retire_dest_register, Committed
  <2>4. \A q \in Phys : q # backend_RAT[a] => reg'[q] = reg[q]
    BY <2>1, <2>2
  <2>5. QED
    BY <2>1, <2>3, <2>4
<1>10. \A b \in Arch : b # a => backend_RAT'[b] = backend_RAT[b]
  BY <1>9
<1>11. k \in Writes(1, a) /\ k \in NamedWrites(1, a)
  BY <1>3, <1>4, <1>7 DEF Writes, NamedWrites
<1>12. OperandsKept'
  BY <1>9 DEF Reads, OperandsKept
<1>13. FileKept'
  <2>1. \A j \in DOMAIN ROB : Named(j)' \subseteq Named(j)
    <3>1. \A l \in DOMAIN e.dst : l > retired + 1 => l > retired
      BY <1>3
    <3>2. Named(1)' \subseteq Named(1)
      BY <3>1, <1>3, <1>9 DEF Named
    <3>3. \A j \in DOMAIN ROB : j # 1 => Named(j)' = Named(j)
      BY <1>9 DEF Named
    <3>4. QED
      BY <3>2, <3>3
  <2>2. \A j \in DOMAIN ROB : \A l \in Named(j) :
          ROB[j].dst[l] \in Phys /\ ROB[j].dst[l] # backend_RAT[a]
    BY InFlightNames DEF Placed, OnePlace, CommittedNotInFlight
  <2>3. \A j \in DOMAIN ROB : \A l \in Named(j) : reg'[ROB[j].dst[l]] = reg[ROB[j].dst[l]]
    BY <2>2, <1>9
  <2>4. QED
    BY <2>1, <2>3, <1>9, SameFile
<1>14. SourcesNamed'
  <2> SUFFICES ASSUME NEW j \in DOMAIN ROB, j > 1, NEW m \in DOMAIN ROB[j].src, m <= ROB[j].named,
                      NEW b, b = ROB[j].asrc[m]
               PROVE  ROB[j].src[m] = NameAfter(j - 1, b)'
    BY <1>9 DEF SourcesNamed
  <2>1. ROB[j].src[m] = NameAfter(j - 1, b)
    BY DEF Reads, SourcesNamed
  <2>2. b \in Arch
    <3>1. PICK g \in EntryType : g = ROB[j]
      BY <1>3
    <3>2. Len(g.asrc) = Len(g.src)
      BY <3>1 DEF Reads, OperandsKept
    <3>3. m \in DOMAIN g.asrc
      BY <3>1, <3>2 DEF EntryType
    <3>4. QED
      BY <3>1, <3>3 DEF EntryType
  <2>3. Writers(j - 1, b) # {} \/ backend_RAT'[b] = backend_RAT[b]
    <3>1. CASE b = a
      <4>1. 1 \in 1 .. j - 1 /\ Writes(1, a) # {}
        BY <1>3, <1>11
      <4>2. 1 \in Writers(j - 1, a)
        BY <4>1 DEF Writers
      <4>3. QED
        BY <3>1, <4>2
    <3>2. CASE b # a
      BY <2>2, <3>2, <1>10
    <3>3. QED
      BY <3>1, <3>2
  <2>4. j - 1 \in 0 .. Len(ROB)
    BY <1>3
  <2>5. NameAfter(j - 1, b)' = NameAfter(j - 1, b)
    BY <2>3, <2>4, <1>9, NameKept
  <2>6. QED
    BY <2>1, <2>5
<1>15. FrontendNewest'
  <2>1. \A j \in DOMAIN ROB : \A b : NamedWrites(j, b)' = NamedWrites(j, b)
    BY <1>9 DEF NamedWrites, Writes
  <2>2. \A j \in DOMAIN ROB : \A b \in Arch : \A m : YoungestNamed(b, j, m)' => YoungestNamed(b, j, m)
    BY <2>1, <1>9 DEF YoungestNamed
  <2>3. ASSUME NEW b \in Arch
        PROVE  /\ (\A j \in DOMAIN ROB' : NamedWrites(j, b)' = {}) => frontend_RAT'[b] = backend_RAT'[b]
               /\ \A j \in DOMAIN ROB' : \A m \in DOMAIN ROB'[j].adst :
                    YoungestNamed(b, j, m)' => frontend_RAT'[b] = ROB'[j].dst[m]
    <3>1. /\ (\A j \in DOMAIN ROB : NamedWrites(j, b) = {}) => frontend_RAT[b] = backend_RAT[b]
          /\ \A j \in DOMAIN ROB : \A m \in DOMAIN ROB[j].adst :
               YoungestNamed(b, j, m) => frontend_RAT[b] = ROB[j].dst[m]
      BY DEF Reads, FrontendNewest
    <3>2. (\A j \in DOMAIN ROB' : NamedWrites(j, b)' = {}) => b # a
      BY <2>1, <1>3, <1>9, <1>11
    <3>3. QED
      BY <3>1, <3>2, <2>1, <2>2, <1>9, <1>10
  <2>4. QED
    BY <2>3 DEF FrontendNewest
<1>16. RetiredCommitted'
  <2> SUFFICES ASSUME NEW m \in 1 .. retired + 1,
                      \A l \in 1 .. retired + 1 : e.adst[l] = e.adst[m] => l <= m
               PROVE  backend_RAT'[e.adst[m]] = e.dst[m]
    BY <1>1, <1>9 DEF RetiredCommitted
  <2>1. k \in 1 .. retired + 1 /\ retired \in Nat
    BY <1>3, <1>4
  <2>2. CASE e.adst[m] = a
    <3>1. k <= m
      BY <2>1, <2>2, <1>7
    <3>2. m = k
      BY <2>1, <3>1, <1>4
    <3>3. QED
      BY <3>2, <1>6, <1>7, <1>9
  <2>3. CASE e.adst[m] # a
    <3>1. m # k
      BY <2>3, <1>7
    <3>2. m \in 1 .. retired /\ \A l \in 1 .. retired : l \in 1 .. retired + 1
      BY <2>1, <3>1, <1>4
    <3>3. backend_RAT[e.adst[m]] = e.dst[m]
      BY <3>2, <1>1, <1>2 DEF Reads, RetiredCommitted
    <3>4. e.adst[m] \in Arch
      <4>1. m \in DOMAIN e.adst
        BY <3>2, <1>3
      <4>2. QED
        BY SMTT(30), <4>1, <1>3 DEF EntryType
    <3>5. QED
      BY <2>3, <3>3, <3>4, <1>10
  <2>4. QED
    BY <2>2, <2>3
<1>17. ExecutesAfterProducers'
  BY <1>9, SameExecuted
<1>18. QED
  BY <1>12, <1>13, <1>14, <1>15, <1>16, <1>17 DEF Reads

(* What a step that takes the head away leaves of the others. *)
HeadGone ==
  /\ ROB \in Seq(EntryType) /\ 1 \in DOMAIN ROB
  /\ \A i \in DOMAIN ROB' : i \in Nat \ {0} /\ i + 1 \in DOMAIN ROB /\ ROB'[i] = ROB[i + 1]
  /\ \A i \in DOMAIN ROB : i = 1 \/ (i - 1 \in DOMAIN ROB' /\ ROB'[i - 1] = ROB[i])
  /\ \A i \in DOMAIN ROB' : \A b : /\ Writes(i, b)' = Writes(i + 1, b)
                                   /\ NamedWrites(i, b)' = NamedWrites(i + 1, b)
  /\ \A i \in DOMAIN ROB' : 1 .. i \subseteq DOMAIN ROB' /\ i \in 0 .. Len(ROB)
  /\ \A i \in DOMAIN ROB' : \A j : j \in 1 .. i - 1 => j + 1 \in 1 .. i
  /\ \A i \in DOMAIN ROB' : \A j \in 1 .. i : j = 1 \/ (j - 1 \in 1 .. i - 1)

LEMMA EndRetireStep ==
  ASSUME Shape, EndRetire
  PROVE  HeadGone
<1>1. ROB \in Seq(EntryType) /\ ROB # <<>> /\ ROB' = Tail(ROB) /\ 1 \in DOMAIN ROB
  BY DEF EndRetire, Shape, TypeOK, Progress
<1>2. \A i \in DOMAIN ROB' : i \in Nat \ {0} /\ i + 1 \in DOMAIN ROB /\ ROB'[i] = ROB[i + 1]
  BY <1>1, TailROB
<1>3. \A i \in DOMAIN ROB : i = 1 \/ (i - 1 \in DOMAIN ROB' /\ ROB'[i - 1] = ROB[i])
  BY <1>1
<1>4. \A i \in DOMAIN ROB' : \A b : /\ Writes(i, b)' = Writes(i + 1, b)
                                    /\ NamedWrites(i, b)' = NamedWrites(i + 1, b)
  BY <1>2 DEF Writes, NamedWrites
<1>5. \A i \in DOMAIN ROB' : 1 .. i \subseteq DOMAIN ROB' /\ i \in 0 .. Len(ROB)
  BY <1>1
<1>6. /\ \A i \in DOMAIN ROB' : \A j : j \in 1 .. i - 1 => j + 1 \in 1 .. i
      /\ \A i \in DOMAIN ROB' : \A j \in 1 .. i : j = 1 \/ (j - 1 \in 1 .. i - 1)
  <2>1. \A i \in Nat : /\ \A j : j \in 1 .. i - 1 => j + 1 \in 1 .. i
                       /\ \A j \in 1 .. i : j = 1 \/ (j - 1 \in 1 .. i - 1)
    OBVIOUS
  <2>2. QED
    BY <1>2, <2>1
<1>7. QED
  BY <1>1, <1>2, <1>3, <1>4, <1>5, <1>6 DEF HeadGone

(* The last write of the head is committed when the head is gone. *)
LEMMA HeadCommitted ==
  ASSUME Shape, Reads, EndRetire, NEW a, NEW k \in Writes(1, a), \A l \in Writes(1, a) : l <= k
  PROVE  backend_RAT[a] = ROB[1].dst[k]
<1>1. PICK e : e = Head(ROB)
  OBVIOUS
<1>2. pc = "retire" /\ retired = Len(e.dst)
  BY <1>1 DEF EndRetire
<1>3. e = ROB[1] /\ DOMAIN e.adst = 1 .. retired
  BY <1>1, <1>2, HeadNamed
<1>4. k \in 1 .. retired /\ e.adst[k] = a
  BY <1>3 DEF Writes
<1>5. \A l \in 1 .. retired : e.adst[l] = e.adst[k] => l <= k
  BY <1>3, <1>4 DEF Writes
<1>6. QED
  BY <1>1, <1>2, <1>3, <1>4, <1>5 DEF Reads, RetiredCommitted

(* The names of the program do not change when the head leaves. *)
LEMMA NameShifted ==
  ASSUME Shape, Reads, EndRetire, NEW n \in DOMAIN ROB', NEW a
  PROVE  /\ NameAfter(n - 1, a)' = NameAfter(n, a)
         /\ \A l \in Writers(n - 1, a)' : /\ l + 1 \in Writers(n, a)
                                          /\ l = Latest(Writers(n - 1, a)') => l + 1 = Latest(Writers(n, a))
<1>1. HeadGone
  BY EndRetireStep
<1>2. backend_RAT' = backend_RAT
  BY DEF EndRetire, tables
<1>3. /\ n \in Nat \ {0} /\ n \in 0 .. Len(ROB) /\ 1 .. n \subseteq DOMAIN ROB'
      /\ \A j : j \in 1 .. n - 1 => j + 1 \in 1 .. n
      /\ \A j \in 1 .. n : j = 1 \/ (j - 1 \in 1 .. n - 1)
  BY <1>1 DEF HeadGone
<1>4. \A j \in 1 .. n - 1 : j \in DOMAIN ROB' /\ j + 1 \in 1 .. n /\ Writes(j, a)' = Writes(j + 1, a)
  <2>1. \A j \in 1 .. n - 1 : j \in 1 .. n
    BY <1>3
  <2>2. QED
    BY <2>1, <1>1, <1>3 DEF HeadGone
<1>5. Writers(n - 1, a)' = {j \in 1 .. n - 1 : Writes(j + 1, a) # {}}
  BY <1>4 DEF Writers
<1>6. \A j \in Writers(n - 1, a)' : j + 1 \in Writers(n, a)
  BY <1>4, <1>5 DEF Writers
<1>7. \A j \in Writers(n, a) : j = 1 \/ j - 1 \in Writers(n - 1, a)'
  <2>1. \A j \in 1 .. n : (j - 1) + 1 = j
    BY <1>3
  <2>2. QED
    BY <2>1, <1>3, <1>5 DEF Writers
<1>8. ASSUME Writers(n - 1, a)' # {}
      PROVE  /\ Latest(Writers(n - 1, a)') \in 1 .. n - 1
             /\ Latest(Writers(n - 1, a)') \in Writers(n - 1, a)'
             /\ Latest(Writers(n - 1, a)') + 1 = Latest(Writers(n, a))
  <2>1. PICK W : W = Writers(n - 1, a)'
    OBVIOUS
  <2>2. W \subseteq 0 .. n /\ W # {} /\ W \subseteq 1 .. n - 1
    BY <2>1, <1>3, <1>5, <1>8
  <2>3. Latest(W) \in W /\ \A y \in W : y <= Latest(W)
    BY <2>2, <1>3, LatestIn
  <2>4. PICK x \in 1 .. n - 1 : x = Latest(W) /\ x \in W /\ \A y \in W : y <= x
    BY <2>2, <2>3
  <2>5. x + 1 \in Writers(n, a) /\ Writers(n, a) \subseteq 1 .. n
    BY <2>1, <2>4, <1>6 DEF Writers
  <2>6. \A y \in Writers(n, a) : y <= x + 1
    <3>1. \A y \in 1 .. n : y - 1 <= x => y <= x + 1
      BY <2>4
    <3>2. 1 <= x + 1
      BY <2>4
    <3>3. QED
      BY <2>1, <2>4, <2>5, <3>1, <3>2, <1>7
  <2>7. Writers(n, a) \subseteq Int
    BY <2>5
  <2>8. Latest(Writers(n, a)) = x + 1
    BY <2>5, <2>6, <2>7, LatestIs
  <2>9. QED
    BY <2>1, <2>4, <2>8
<1>9. CASE Writers(n - 1, a)' # {}
  <2>1. PICK x \in 1 .. n - 1 : x = Latest(Writers(n - 1, a)') /\ x + 1 = Latest(Writers(n, a))
                                /\ x \in Writers(n - 1, a)'
    BY <1>8, <1>9
  <2>2. Writers(n, a) # {}
    BY <2>1, <1>6
  <2>3. NameAfter(n, a) = ROB[x + 1].dst[Latest(Writes(x + 1, a))]
    BY <2>1, <2>2 DEF NameAfter
  <2>4. NameAfter(n - 1, a)' = ROB'[x].dst[Latest(Writes(x, a)')]
    BY <2>1, <1>9 DEF NameAfter
  <2>5. ROB'[x] = ROB[x + 1] /\ Writes(x, a)' = Writes(x + 1, a)
    BY <2>1, <1>1, <1>4 DEF HeadGone
  <2>6. QED
    BY <2>1, <2>3, <2>4, <2>5, <1>6
<1>10. CASE Writers(n - 1, a)' = {}
  <2>1. NameAfter(n - 1, a)' = backend_RAT[a]
    BY <1>2, <1>10 DEF NameAfter
  <2>2. NameAfter(n, a) = backend_RAT[a]
    <3>1. CASE Writers(n, a) = {}
      BY <3>1 DEF NameAfter
    <3>2. CASE Writers(n, a) # {}
      <4>1. PICK i \in 1 .. n : \E k \in Writes(i, a) :
              /\ \A l \in Writes(i, a) : l <= k
              /\ NameAfter(n, a) = ROB[i].dst[k]
        BY <3>2, <1>3, NameFound
      <4>2. PICK k \in Writes(i, a) :
              (\A l \in Writes(i, a) : l <= k) /\ NameAfter(n, a) = ROB[i].dst[k]
        BY <4>1
      <4>3. i \in Writers(n, a)
        BY <4>2 DEF Writers
      <4>4. i = 1
        BY <4>3, <1>7, <1>10
      <4>5. QED
        BY <4>2, <4>4, HeadCommitted
    <3>3. QED
      BY <3>1, <3>2
  <2>3. QED
    BY <2>1, <2>2, <1>10
<1>11. QED
  BY <1>9, <1>10

LEMMA EndRetireReads ==
  ASSUME Shape, Reads, EndRetire
  PROVE  Reads'
<1>1. HeadGone
  BY EndRetireStep
<1>2. /\ ROB \in Seq(EntryType) /\ 1 \in DOMAIN ROB
      /\ \A i \in DOMAIN ROB' : i \in Nat \ {0} /\ i + 1 \in DOMAIN ROB /\ ROB'[i] = ROB[i + 1]
      /\ \A i \in DOMAIN ROB : i = 1 \/ (i - 1 \in DOMAIN ROB' /\ ROB'[i - 1] = ROB[i])
  BY <1>1 DEF HeadGone
<1>3. /\ \A i \in DOMAIN ROB' : \A b : NamedWrites(i, b)' = NamedWrites(i + 1, b)
      /\ \A i \in DOMAIN ROB : i - 1 \in DOMAIN ROB' => (i - 1) + 1 = i
  BY <1>1 DEF HeadGone
<1>4. /\ UNCHANGED <<frontend_RAT, backend_RAT>> /\ reg' = reg
      /\ pc = "retire" /\ pc' = "stages" /\ retired' = 0
  BY DEF EndRetire, tables
<1>5. OperandsKept'
  <2>1. ASSUME NEW j \in DOMAIN ROB'
        PROVE  LET g == ROB'[j]
               IN  /\ Len(g.asrc) = Len(g.src) /\ Len(g.adst) = Len(g.dst)
                   /\ \A k \in DOMAIN g.src : k > g.named => g.src[k] = g.asrc[k]
                   /\ \A k \in DOMAIN g.dst : k + Len(g.src) > g.named => g.dst[k] = g.adst[k]
    <3>1. PICK i \in DOMAIN ROB : ROB'[j] = ROB[i]
      BY <1>2
    <3>2. QED
      BY <3>1 DEF Reads, OperandsKept
  <2>2. QED
    BY <2>1 DEF OperandsKept
<1>6. FileKept'
  <2>1. ASSUME NEW j \in DOMAIN ROB', NEW l \in Named(j)'
        PROVE  /\ reg'[ROB'[j].dst[l]].arch = ROB'[j].adst[l]
               /\ reg'[ROB'[j].dst[l]].valid => ROB'[j].completed
    <3>1. j + 1 # 1
      BY <1>2
    <3>2. l \in Named(j + 1)
      BY <2>1, <3>1, <1>2 DEF Named
    <3>3. QED
      BY <3>2, <1>2, <1>4 DEF Reads, FileKept
  <2>2. QED
    BY <2>1 DEF FileKept
<1>7. SourcesNamed'
  <2> SUFFICES ASSUME NEW j \in DOMAIN ROB', NEW m \in DOMAIN ROB'[j].src, m <= ROB'[j].named,
                      NEW b, b = ROB'[j].asrc[m]
               PROVE  ROB'[j].src[m] = NameAfter(j - 1, b)'
    BY DEF SourcesNamed
  <2>1. PICK i \in DOMAIN ROB : i = j + 1 /\ ROB'[j] = ROB[i] /\ i > 1 /\ i - 1 = j
    BY <1>2
  <2>2. ROB[i].src[m] = NameAfter(i - 1, b)
    BY <2>1 DEF Reads, SourcesNamed
  <2>3. NameAfter(j - 1, b)' = NameAfter(j, b)
    BY NameShifted
  <2>4. QED
    BY <2>1, <2>2, <2>3
<1>8. FrontendNewest'
  <2> SUFFICES ASSUME NEW b \in Arch
               PROVE  /\ (\A j \in DOMAIN ROB' : NamedWrites(j, b)' = {})
                           => frontend_RAT'[b] = backend_RAT'[b]
                      /\ \A j \in DOMAIN ROB' : \A l \in DOMAIN ROB'[j].adst :
                           YoungestNamed(b, j, l)' => frontend_RAT'[b] = ROB'[j].dst[l]
    BY DEF FrontendNewest
  <2>1. /\ (\A j \in DOMAIN ROB : NamedWrites(j, b) = {}) => frontend_RAT[b] = backend_RAT[b]
        /\ \A j \in DOMAIN ROB : \A l \in DOMAIN ROB[j].adst :
             YoungestNamed(b, j, l) => frontend_RAT[b] = ROB[j].dst[l]
    BY DEF Reads, FrontendNewest
  <2>2. ASSUME \A j \in DOMAIN ROB' : NamedWrites(j, b)' = {}
        PROVE  frontend_RAT[b] = backend_RAT[b]
    <3>1. \A j \in DOMAIN ROB : j # 1 => NamedWrites(j, b) = {}
      BY <2>2, <1>2, <1>3
    <3>2. NamedWrites(1, b) = Writes(1, b)
      <4>1. PICK e : e = Head(ROB)
        OBVIOUS
      <4>2. e = ROB[1] /\ DOMAIN e.adst = DOMAIN e.dst /\ \A k \in DOMAIN e.dst : k + Len(e.src) <= e.named
        BY <4>1, <1>4, HeadNamed
      <4>3. QED
        BY <4>2 DEF NamedWrites, Writes
    <3>3. CASE Writes(1, b) = {}
      BY <3>1, <3>2, <3>3, <2>1
    <3>4. CASE Writes(1, b) # {}
      <4>1. Len(ROB[1].adst) \in Nat /\ Writes(1, b) \subseteq 0 .. Len(ROB[1].adst)
        BY <1>2, WritesBounded
      <4>2. PICK k \in Writes(1, b) : \A l \in Writes(1, b) : l <= k
        BY <4>1, <3>4, GreatestNat
      <4>3. YoungestNamed(b, 1, k)
        <5>1. \A j \in DOMAIN ROB : j > 1 => j # 1
          OBVIOUS
        <5>2. QED
          BY <4>2, <5>1, <3>1, <3>2 DEF YoungestNamed
      <4>4. k \in DOMAIN ROB[1].adst
        BY DEF Writes
      <4>5. frontend_RAT[b] = ROB[1].dst[k]
        BY <4>3, <4>4, <2>1, <1>2
      <4>6. QED
        BY <4>2, <4>5, HeadCommitted
    <3>5. QED
      BY <3>3, <3>4
  <2>3. ASSUME NEW j \in DOMAIN ROB', NEW l \in DOMAIN ROB'[j].adst, YoungestNamed(b, j, l)'
        PROVE  frontend_RAT[b] = ROB'[j].dst[l]
    <3>1. PICK i \in DOMAIN ROB : i = j + 1 /\ ROB'[j] = ROB[i] /\ NamedWrites(j, b)' = NamedWrites(i, b)
      BY <1>2, <1>3
    <3>2. /\ l \in NamedWrites(i, b) /\ \A m \in NamedWrites(i, b) : m <= l
          /\ \A m \in DOMAIN ROB' : m > j => NamedWrites(m, b)' = {}
      BY <2>3, <3>1 DEF YoungestNamed
    <3>3. \A m \in DOMAIN ROB : m > i => NamedWrites(m, b) = {}
      <4>1. \A m \in DOMAIN ROB : m > i => m # 1 /\ m - 1 > j
        BY <3>1, <1>2
      <4>2. QED
        BY <4>1, <3>2, <1>2, <1>3
    <3>4. YoungestNamed(b, i, l)
      BY <3>2, <3>3 DEF YoungestNamed
    <3>5. QED
      BY <3>1, <3>4, <2>1
  <2>4. QED
    BY <2>2, <2>3, <1>4
<1>9. RetiredCommitted'
  BY <1>4 DEF RetiredCommitted
<1>10. ExecutesAfterProducers'
  <2> SUFFICES ASSUME NEW j \in DOMAIN ROB', ROB'[j].executed, NEW k \in DOMAIN ROB'[j].asrc,
                      NEW a, a = ROB'[j].asrc[k],
                      NEW l \in Writers(j - 1, a)', l = Latest(Writers(j - 1, a)')
               PROVE  ROB'[l].completed
    BY DEF ExecutesAfterProducers
  <2>1. PICK i \in DOMAIN ROB : i = j + 1 /\ ROB'[j] = ROB[i] /\ i - 1 = j
    BY <1>2
  <2>2. l + 1 \in Writers(j, a) /\ l + 1 = Latest(Writers(j, a))
    BY NameShifted
  <2>3. ROB[l + 1].completed
    BY <2>1, <2>2 DEF Reads, ExecutesAfterProducers
  <2>4. l \in DOMAIN ROB'
    <3>1. l \in 1 .. j - 1 /\ 1 .. j \subseteq DOMAIN ROB' /\ j \in Nat
      BY <1>1 DEF Writers, HeadGone
    <3>2. QED
      BY <3>1
  <2>5. QED
    BY <2>3, <2>4, <1>2
<1>11. QED
  BY <1>5, <1>6, <1>7, <1>8, <1>9, <1>10 DEF Reads

LEMMA NextReads == Shape /\ Shape' /\ Placed /\ InOrder /\ Reads /\ [Next]_vars => Reads'
<1> SUFFICES ASSUME Shape, Shape', Placed, InOrder, Reads, [Next]_vars PROVE Reads'
  OBVIOUS
<1>1. ASSUME NEW in \in Instructions, Dispatch(in) PROVE Reads'
  BY <1>1, DispatchReads
<1>2. CASE \/ StartScheduling \/ PassScheduled \/ OutOfRegisters \/ EndScheduling
           \/ StartRename \/ UNCHANGED vars
  <2>1. UNCHANGED <<retired, tables, ROB>>
    BY <1>2 DEF StartScheduling, PassScheduled, OutOfRegisters, EndScheduling, StartRename, vars
  <2>2. (pc # "retire" /\ pc' # "retire") \/ pc' = pc
    BY <1>2 DEF StartScheduling, PassScheduled, OutOfRegisters, EndScheduling, StartRename, vars, Visiting
  <2>3. QED
    BY <2>1, <2>2, QuietReads
<1>3. CASE rename_src_register
  BY <1>3, RenameSrcReads
<1>4. CASE rename_dest_register
  BY <1>4, RenameDestReads
<1>5. CASE EndRename
  BY <1>5, EndRenameReads
<1>6. ASSUME NEW i \in DOMAIN ROB, Execute(i) PROVE Reads'
  BY <1>6, ExecuteReads
<1>7. ASSUME NEW i \in DOMAIN ROB, Complete(i) PROVE Reads'
  BY <1>7, CompleteReads
<1>8. CASE StartRetire
  <2>1. retired = 0 /\ pc' = "retire"
    BY <1>8 DEF StartRetire, Shape, Progress
  <2>2. UNCHANGED <<retired, tables, ROB>>
    BY <1>8, <2>1 DEF StartRetire
  <2>3. QED
    BY <2>1, <2>2, QuietReads
<1>9. CASE retire_dest_register
  BY <1>9, RetireDestReads
<1>10. CASE EndRetire
  BY <1>10, EndRetireReads
<1>11. QED
  BY <1>1, <1>2, <1>3, <1>4, <1>5, <1>6, <1>7, <1>8, <1>9, <1>10 DEF Next

-----------------------------------------------------------------------------
THEOREM ReadInvHolds == Spec => []ReadInv
<1>1. Init => Shape /\ Placed /\ InOrder /\ Reads
  BY InitShape, InitPlaced, InitInOrder, InitReads
<1>2. (Shape /\ Placed /\ InOrder /\ Reads) /\ [Next]_vars => (Shape /\ Placed /\ InOrder /\ Reads)'
  BY NextShape, NextPlaced, NextInOrder, NextReads
<1>3. Shape /\ Placed /\ InOrder /\ Reads => ReadInv
  BY DEF Shape, Placed, InOrder, Inv, Reads, ReadInv
<1>4. QED
  BY <1>1, <1>2, <1>3, PTL DEF Spec

(* A renamed instruction in the ROB has, for each source, the name of the    *)
(* last older write of the register, and executes only after that write.   *)
LEMMA ReadsInOrder == ReadInv => OperandsFollowProgramOrder
<1> SUFFICES ASSUME ReadInv PROVE OperandsFollowProgramOrder
  OBVIOUS
<1>1. SourcesFollowProgramOrder
  <2> SUFFICES ASSUME pc = "stages", NEW i \in DOMAIN ROB, ROB[i].scheduled,
                      NEW k \in DOMAIN ROB[i].src
               PROVE  ROB[i].src[k] = NameAfter(i - 1, ROB[i].asrc[k])
    BY DEF SourcesFollowProgramOrder
  <2>1. Shape /\ retired = 0
    BY DEF ReadInv, Inv, Shape, Progress
  <2>2. k <= ROB[i].named
    BY <2>1, AllNamed
  <2>3. QED
    BY <2>2 DEF ReadInv, SourcesNamed
<1>2. QED
  BY <1>1 DEF OperandsFollowProgramOrder, ReadInv

(* Renaming in place, the two alias tables and the free list give every      *)
(* instruction the value the program asks for: schedule_instruction,        *)
(* rename_src_register, execute_instruction and retire_dest_register, for   *)
(* every size of the tables and every program.                             *)
THEOREM OperandsInProgramOrder == Spec => []OperandsFollowProgramOrder
BY ReadInvHolds, ReadsInOrder, PTL
=============================================================================
