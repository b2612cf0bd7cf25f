---------------------------- MODULE FrontEndProofs ----------------------------
(* Proofs about FrontEnd, for a trace of any length, buffers of any size and *)
(* any layout of the instructions in blocks and lines.                     *)
EXTENDS FrontEnd, SequenceTheorems, TLAPS

(* What is in order: every buffer by itself, and the dispatched instructions. *)
Buffers ==
  /\ IFETCH_BUFFER \in Seq(InstructionType)
  /\ DIB_HIT_BUFFER \in Seq(InstructionType)
  /\ DECODE_BUFFER \in Seq(InstructionType)
  /\ DISPATCH_BUFFER \in Seq(DispatchedType)
  /\ ROB \subseteq DispatchedType

Sorted(buffer) ==
  \A i, j \in 1..Len(buffer) : i < j => buffer[i].instr_id < buffer[j].instr_id

(* The instructions of the ROB, by their numbers, come before the last that  *)
(* was dispatched.                                                         *)
Dispatch_n == Len(DISPATCH_BUFFER)
Decode_n == Len(DIB_HIT_BUFFER) + Len(DECODE_BUFFER)
Fetch_n == Len(IFETCH_BUFFER)
First == read - (Dispatch_n + Decode_n + Fetch_n)
Middle == First + Dispatch_n

RobBefore ==
  /\ \A x \in ROB : x.instr_id <= First
  /\ \A x, y \in ROB : x.instr_id = y.instr_id => x = y

(* The numbers of the instructions of two sequences. *)
Numbers(a, b) == {x.instr_id : x \in ToSet(a) \cup ToSet(b)}

(* Two sequences, sorted each on its own and without a common instruction,   *)
(* that together hold the numbers that follow m.                           *)
Merges(a, b, m) ==
  /\ Sorted(a) /\ Sorted(b)
  /\ \A i \in 1..Len(a), j \in 1..Len(b) : a[i].instr_id # b[j].instr_id
  /\ \A k \in Int : k \in Numbers(a, b) <=> m + 1 <= k /\ k <= m + (Len(a) + Len(b))

(* The hits and the instructions to decode are such sequences, which is what *)
(* the merge of decode_instruction needs.                                  *)
Consecutive ==
  /\ read \in 0..TRACE_LENGTH
  /\ \A i \in 1..Dispatch_n : DISPATCH_BUFFER[i].instr_id = First + i
  /\ Merges(DIB_HIT_BUFFER, DECODE_BUFFER, Middle)
  /\ \A i \in 1..Fetch_n : IFETCH_BUFFER[i].instr_id = Middle + Decode_n + i

QueueInv == Buffers /\ Consecutive /\ RobBefore

-----------------------------------------------------------------------------
LEMMA NumbersOf ==
  ASSUME NEW S, NEW a \in Seq(S), NEW b \in Seq(S)
  PROVE  \A k : k \in Numbers(a, b)
                  <=> \/ \E i \in 1..Len(a) : a[i].instr_id = k
                      \/ \E i \in 1..Len(b) : b[i].instr_id = k
<1>1. DOMAIN a = 1..Len(a) /\ DOMAIN b = 1..Len(b)
  BY LenProperties
<1>2. QED
  BY <1>1 DEF ToSet, Numbers

(* The fields of an instruction. *)
LEMMA FieldsOf ==
  ASSUME NEW x \in InstructionType
  PROVE  /\ x.instr_id \in 1..TRACE_LENGTH /\ x.ip \in Ip
         /\ x.branch_mispredicted \in BOOLEAN /\ x.found_at_decode \in BOOLEAN
         /\ x.dib_checked \in BOOLEAN /\ x.fetch_issued \in BOOLEAN
         /\ x.fetch_completed \in BOOLEAN /\ x.decoded \in BOOLEAN
BY DEF InstructionType

(* The numbers in the buffers are numbers. *)
LEMMA NumbersInt ==
  ASSUME Buffers
  PROVE  /\ \A i \in 1..Len(IFETCH_BUFFER) : IFETCH_BUFFER[i] \in InstructionType
         /\ \A i \in 1..Len(DIB_HIT_BUFFER) :
              DIB_HIT_BUFFER[i] \in InstructionType /\ DIB_HIT_BUFFER[i].instr_id \in Int
         /\ \A i \in 1..Len(DECODE_BUFFER) :
              DECODE_BUFFER[i] \in InstructionType /\ DECODE_BUFFER[i].instr_id \in Int
         /\ \A i \in 1..Len(DISPATCH_BUFFER) :
              DISPATCH_BUFFER[i] \in DispatchedType /\ DISPATCH_BUFFER[i].instr_id \in Int
         /\ \A x \in ROB : x.instr_id \in Int
<1>1. \A x \in InstructionType : x.instr_id \in Int
  BY FieldsOf, LengthAssumption
<1>2. \A x \in DispatchedType : x.instr_id \in Int
  BY LengthAssumption DEF DispatchedType
<1>3. QED
  BY <1>1, <1>2, ElementOfSeq DEF Buffers

LEMMA LengthsNat ==
  ASSUME Buffers
  PROVE  /\ Len(IFETCH_BUFFER) \in Nat /\ Len(DIB_HIT_BUFFER) \in Nat
         /\ Len(DECODE_BUFFER) \in Nat /\ Len(DISPATCH_BUFFER) \in Nat
         /\ DOMAIN IFETCH_BUFFER = 1..Len(IFETCH_BUFFER)
         /\ DOMAIN DIB_HIT_BUFFER = 1..Len(DIB_HIT_BUFFER)
         /\ DOMAIN DECODE_BUFFER = 1..Len(DECODE_BUFFER)
         /\ DOMAIN DISPATCH_BUFFER = 1..Len(DISPATCH_BUFFER)
BY LenProperties DEF Buffers

LEMMA InitQueue == Init => QueueInv
<1> SUFFICES ASSUME Init PROVE QueueInv
  OBVIOUS
<1>1. Buffers
  BY EmptySeq DEF Init, Buffers
<1>2. /\ Len(IFETCH_BUFFER) = 0 /\ Len(DIB_HIT_BUFFER) = 0 /\ Len(DECODE_BUFFER) = 0
      /\ Len(DISPATCH_BUFFER) = 0 /\ ROB = {} /\ read = 0
  BY EmptySeq DEF Init
<1>3. \A k : k \notin Numbers(DIB_HIT_BUFFER, DECODE_BUFFER)
  <2>1. ToSet(DIB_HIT_BUFFER) = {} /\ ToSet(DECODE_BUFFER) = {}
    BY <1>1, <1>2, LengthsNat DEF ToSet
  <2>2. QED
    BY <2>1 DEF Numbers
<1>4. Merges(DIB_HIT_BUFFER, DECODE_BUFFER, 0)
  BY <1>2, <1>3 DEF Merges, Sorted
<1>5. Consecutive
  BY <1>2, <1>4, LengthAssumption DEF Consecutive, Dispatch_n, Decode_n, Fetch_n, First, Middle
<1>6. RobBefore
  BY <1>2 DEF RobBefore
<1>7. QED
  BY <1>1, <1>5, <1>6 DEF QueueInv

LEMMA SameInterval == \A m, n \in Nat : 1..m = 1..n => m = n
<1>1. SUFFICES ASSUME NEW m \in Nat, NEW n \in Nat, 1..m = 1..n, m < n PROVE FALSE
  OBVIOUS
<1>2. n \in 1..n /\ n \notin 1..m
  BY <1>1
<1>3. QED
  BY <1>1, <1>2

LEMMA FunctionSeq ==
  ASSUME NEW S, NEW n \in Nat, NEW f \in [1..n -> S]
  PROVE  f \in Seq(S) /\ Len(f) = n
<1>1. f \in Seq(S)
  BY SeqDef
<1>2. QED
  BY <1>1, LenProperties, SameInterval

(* The handlers that only set marks of instructions in the fetch buffer:     *)
(* CheckDib, Fetch and MemoryReturn.                                       *)
OnlyMarks ==
  /\ IFETCH_BUFFER' \in Seq(InstructionType)
  /\ Len(IFETCH_BUFFER') = Len(IFETCH_BUFFER)
  /\ \A i \in 1..Len(IFETCH_BUFFER) :
       /\ IFETCH_BUFFER'[i].instr_id = IFETCH_BUFFER[i].instr_id
       /\ IFETCH_BUFFER'[i].branch_mispredicted = IFETCH_BUFFER[i].branch_mispredicted
  /\ UNCHANGED <<warmup, read, DIB_HIT_BUFFER, DECODE_BUFFER, DISPATCH_BUFFER, ROB, fetch_resume>>

LEMMA CheckDibMarks == ASSUME Buffers, CheckDib PROVE OnlyMarks
<1> DEFINE n == Len(IFETCH_BUFFER)
<1>1. n \in Nat /\ DOMAIN IFETCH_BUFFER = 1..n /\ IFETCH_BUFFER \in [1..n -> InstructionType]
  BY LenProperties DEF Buffers
<1>2. PICK i : \E hit \in BOOLEAN :
        IFETCH_BUFFER' = [IFETCH_BUFFER EXCEPT ![i].dib_checked = TRUE,
                                               ![i].fetch_completed = @ \/ hit,
                                               ![i].decoded = @ \/ hit]
  BY DEF CheckDib, Contains
<1>3. PICK hit \in BOOLEAN :
       IFETCH_BUFFER' = [IFETCH_BUFFER EXCEPT ![i].dib_checked = TRUE,
                                              ![i].fetch_completed = @ \/ hit,
                                              ![i].decoded = @ \/ hit]
  BY <1>2
<1>4. ASSUME NEW j \in 1..n
      PROVE  /\ IFETCH_BUFFER'[j] \in InstructionType
             /\ IFETCH_BUFFER'[j].instr_id = IFETCH_BUFFER[j].instr_id
             /\ IFETCH_BUFFER'[j].branch_mispredicted = IFETCH_BUFFER[j].branch_mispredicted
  <2>1. IFETCH_BUFFER[j] \in InstructionType
    BY <1>1
  <2>2. CASE j # i
    BY <1>1, <1>3, <2>1, <2>2
  <2>3. CASE j = i
    <3>1. IFETCH_BUFFER'[j] = [IFETCH_BUFFER[j] EXCEPT !.dib_checked = TRUE,
                                                       !.fetch_completed = @ \/ hit,
                                                       !.decoded = @ \/ hit]
      BY <1>1, <1>3, <2>3
    <3>2. QED
      BY <2>1, <3>1 DEF InstructionType
  <2>4. QED
    BY <2>2, <2>3
<1>5. IFETCH_BUFFER' \in [1..n -> InstructionType]
  BY <1>1, <1>3, <1>4
<1>6. QED
  BY ZenonT(40), <1>1, <1>4, <1>5, FunctionSeq DEF CheckDib, OnlyMarks

LEMMA FetchMarks == ASSUME Buffers, Fetch PROVE OnlyMarks
<1> DEFINE n == Len(IFETCH_BUFFER)
<1>1. n \in Nat /\ DOMAIN IFETCH_BUFFER = 1..n /\ IFETCH_BUFFER \in [1..n -> InstructionType]
  BY LenProperties DEF Buffers
<1>2. PICK group :
        IFETCH_BUFFER' = [j \in 1..n |-> IF j \in group
                                           THEN [IFETCH_BUFFER[j] EXCEPT !.fetch_issued = TRUE]
                                           ELSE IFETCH_BUFFER[j]]
  BY <1>1 DEF Fetch
<1>3. ASSUME NEW j \in 1..n
      PROVE  /\ IFETCH_BUFFER'[j] \in InstructionType
             /\ IFETCH_BUFFER'[j].instr_id = IFETCH_BUFFER[j].instr_id
             /\ IFETCH_BUFFER'[j].branch_mispredicted = IFETCH_BUFFER[j].branch_mispredicted
  <2>1. IFETCH_BUFFER[j] \in InstructionType
    BY <1>1
  <2>2. \/ IFETCH_BUFFER'[j] = IFETCH_BUFFER[j]
        \/ IFETCH_BUFFER'[j] = [IFETCH_BUFFER[j] EXCEPT !.fetch_issued = TRUE]
    BY <1>2
  <2>3. QED
    BY <2>1, <2>2 DEF InstructionType
<1>4. IFETCH_BUFFER' \in [1..n -> InstructionType]
  BY <1>1, <1>2, <1>3
<1>5. QED
  BY <1>1, <1>3, <1>4, FunctionSeq DEF Fetch, OnlyMarks

LEMMA MemoryReturnMarks == ASSUME Buffers, MemoryReturn PROVE OnlyMarks
<1> DEFINE n == Len(IFETCH_BUFFER)
<1>1. n \in Nat /\ DOMAIN IFETCH_BUFFER = 1..n /\ IFETCH_BUFFER \in [1..n -> InstructionType]
  BY LenProperties DEF Buffers
<1>2. PICK fetched :
        IFETCH_BUFFER' =
          [j \in 1..n |-> [IFETCH_BUFFER[j] EXCEPT !.fetch_completed = @ \/ j \in fetched]]
  BY <1>1 DEF MemoryReturn
<1>3. ASSUME NEW j \in 1..n
      PROVE  /\ IFETCH_BUFFER'[j] \in InstructionType
             /\ IFETCH_BUFFER'[j].instr_id = IFETCH_BUFFER[j].instr_id
             /\ IFETCH_BUFFER'[j].branch_mispredicted = IFETCH_BUFFER[j].branch_mispredicted
  <2>1. IFETCH_BUFFER[j] \in InstructionType
    BY <1>1
  <2>2. IFETCH_BUFFER'[j] = [IFETCH_BUFFER[j] EXCEPT !.fetch_completed = @ \/ j \in fetched]
    BY <1>2
  <2>3. QED
    BY <2>1, <2>2 DEF InstructionType
<1>4. IFETCH_BUFFER' \in [1..n -> InstructionType]
  BY <1>1, <1>2, <1>3
<1>5. QED
  BY <1>1, <1>3, <1>4, FunctionSeq DEF MemoryReturn, OnlyMarks

LEMMA MarkQueue == ASSUME QueueInv, OnlyMarks PROVE QueueInv'
<1>1. Buffers'
  BY DEF QueueInv, Buffers, OnlyMarks
<1>2. /\ First' = First /\ Middle' = Middle
      /\ Fetch_n' = Fetch_n /\ Decode_n' = Decode_n /\ Dispatch_n' = Dispatch_n
  BY DEF Dispatch_n, Decode_n, Fetch_n, First, Middle, OnlyMarks
<1>3. Consecutive'
  BY <1>2 DEF QueueInv, Consecutive, Fetch_n, OnlyMarks
<1>4. RobBefore'
  BY <1>2 DEF QueueInv, RobBefore, OnlyMarks
<1>5. QED
  BY <1>1, <1>3, <1>4 DEF QueueInv

(* What a read appends. *)
LEMMA ReadAppends ==
  ASSUME Buffers, read \in 0..TRACE_LENGTH, ReadAny
  PROVE  \E x \in InstructionType :
           /\ IFETCH_BUFFER' = Append(IFETCH_BUFFER, x)
           /\ x.instr_id = read + 1
           /\ fetch_resume' = IF x.branch_mispredicted THEN "never" ELSE "now"
           /\ fetch_resume = "now"
           /\ read' = read + 1 /\ read' \in 0..TRACE_LENGTH
           /\ UNCHANGED <<warmup, DIB_HIT_BUFFER, DECODE_BUFFER, DISPATCH_BUFFER, ROB>>
<1>1. PICK ip \in Ip, registers \in Registers, d \in BOOLEAN, t \in BOOLEAN :
        Read(ip, registers, d, t)
  BY DEF ReadAny
<1> DEFINE branch == BranchType(registers[1], registers[2])
           wrong == branch # "NOT_BRANCH" /\ ~(d /\ t)
           x == [instr_id |-> read + 1, ip |-> ip,
                 branch_mispredicted |-> wrong /\ ~warmup,
                 found_at_decode |-> wrong /\ ~warmup /\ FoundAtDecode(branch, d),
                 dib_checked |-> FALSE, fetch_issued |-> FALSE,
                 fetch_completed |-> FALSE, decoded |-> FALSE]
<1>2. /\ IFETCH_BUFFER' = Append(IFETCH_BUFFER, x)
      /\ fetch_resume' = IF wrong /\ ~warmup THEN "never" ELSE fetch_resume
      /\ fetch_resume = "now" /\ read < TRACE_LENGTH /\ read' = read + 1
      /\ UNCHANGED <<warmup, DIB_HIT_BUFFER, DECODE_BUFFER, DISPATCH_BUFFER, ROB>>
  BY <1>1 DEF Read
<1>3. read + 1 \in 1..TRACE_LENGTH
  BY <1>2, LengthAssumption
<1>4. FoundAtDecode(branch, d) \in BOOLEAN
  BY DEF FoundAtDecode
<1>5. x \in InstructionType
  BY <1>3, <1>4 DEF InstructionType
<1>6. x.instr_id = read + 1 /\ x.branch_mispredicted = (wrong /\ ~warmup)
  OBVIOUS
<1>7. /\ x.instr_id = read + 1
      /\ fetch_resume' = IF x.branch_mispredicted THEN "never" ELSE "now"
  BY <1>2, <1>6
<1>8. read' \in 0..TRACE_LENGTH
  BY <1>2, <1>3, LengthAssumption
<1> HIDE DEF x, wrong
<1>9. QED
  BY <1>2, <1>5, <1>7, <1>8

LEMMA ReadQueue == ASSUME QueueInv, ReadAny PROVE QueueInv'
<1>1. Buffers /\ Consecutive /\ RobBefore
  BY DEF QueueInv
<1>2. PICK x \in InstructionType :
        /\ IFETCH_BUFFER' = Append(IFETCH_BUFFER, x)
        /\ x.instr_id = read + 1
        /\ read' = read + 1 /\ read' \in 0..TRACE_LENGTH
        /\ UNCHANGED <<DIB_HIT_BUFFER, DECODE_BUFFER, DISPATCH_BUFFER, ROB>>
  BY <1>1, ReadAppends DEF Consecutive
<1>3. /\ IFETCH_BUFFER' \in Seq(InstructionType)
      /\ Len(IFETCH_BUFFER') = Len(IFETCH_BUFFER) + 1
      /\ \A i \in 1..Len(IFETCH_BUFFER) : IFETCH_BUFFER'[i] = IFETCH_BUFFER[i]
      /\ IFETCH_BUFFER'[Len(IFETCH_BUFFER) + 1] = x
  BY <1>1, <1>2, AppendProperties DEF Buffers
<1>4. Buffers'
  BY <1>1, <1>2, <1>3 DEF Buffers
<1>5. read \in Int /\ Dispatch_n \in Nat /\ Decode_n \in Nat /\ Fetch_n \in Nat
  BY <1>1, LengthsNat DEF Consecutive, Dispatch_n, Decode_n, Fetch_n
<1>6. /\ First' = First /\ Middle' = Middle
      /\ Fetch_n' = Fetch_n + 1 /\ Decode_n' = Decode_n /\ Dispatch_n' = Dispatch_n
  <2>1. Fetch_n' = Fetch_n + 1 /\ Decode_n' = Decode_n /\ Dispatch_n' = Dispatch_n
    BY <1>2, <1>3 DEF Dispatch_n, Decode_n, Fetch_n
  <2>2. QED
    BY <2>1, <1>2, <1>5 DEF First, Middle
<1>7. read + 1 = Middle + Decode_n + (Fetch_n + 1)
  BY <1>5 DEF First, Middle
<1>8. \A i \in 1..Fetch_n' : IFETCH_BUFFER'[i].instr_id = Middle + Decode_n + i
  BY <1>1, <1>2, <1>3, <1>5, <1>6, <1>7 DEF Consecutive, Fetch_n
<1>9. Consecutive'
  BY <1>1, <1>2, <1>6, <1>8 DEF Consecutive
<1>10. RobBefore'
  BY <1>1, <1>2, <1>6 DEF RobBefore
<1>11. QED
  BY <1>4, <1>9, <1>10 DEF QueueInv

(* The merge of decode_instruction: of two sorted sequences that hold the    *)
(* numbers from m + 1 on, the one whose head goes first holds m + 1 there.  *)
LEMMA MergeTakesFirst ==
  ASSUME NEW a \in Seq(InstructionType), NEW b \in Seq(InstructionType), NEW m \in Int,
         Merges(a, b, m), GoesFirst(a, b)
  PROVE  /\ a # <<>> /\ Head(a) = a[1] /\ a[1] \in InstructionType
         /\ a[1].instr_id = m + 1
         /\ Tail(a) \in Seq(InstructionType) /\ Len(Tail(a)) = Len(a) - 1
         /\ \A i \in 1..Len(Tail(a)) : Tail(a)[i] = a[i + 1] /\ Tail(a)[i].instr_id > m + 1
         /\ \A i \in 1..Len(b) : b[i].instr_id > m + 1
         /\ Merges(Tail(a), b, m + 1)
<1>0. /\ Sorted(a) /\ Sorted(b)
      /\ \A i \in 1..Len(a), j \in 1..Len(b) : a[i].instr_id # b[j].instr_id
      /\ \A k \in Int : k \in Numbers(a, b) <=> m + 1 <= k /\ k <= m + (Len(a) + Len(b))
  BY DEF Merges
<1>1. a # <<>> /\ \A i \in 1..Len(b) : i = 1 => a[1].instr_id < b[i].instr_id
  BY LenProperties DEF GoesFirst
<1>2. Len(a) \in Nat /\ Len(b) \in Nat /\ Len(a) >= 1 /\ DOMAIN a = 1..Len(a)
  BY <1>1, LenProperties, EmptySeq
<1>3. /\ \A i \in 1..Len(a) : a[i] \in InstructionType /\ a[i].instr_id \in Int
      /\ \A i \in 1..Len(b) : b[i] \in InstructionType /\ b[i].instr_id \in Int
  BY ElementOfSeq, FieldsOf, LengthAssumption
<1>4. /\ Head(a) = a[1]
      /\ Tail(a) \in Seq(InstructionType) /\ Len(Tail(a)) = Len(a) - 1
      /\ \A i \in 1..Len(Tail(a)) : Tail(a)[i] = a[i + 1]
  BY <1>1, HeadTailProperties
<1>5. \A i \in 1..Len(a) : a[1].instr_id <= a[i].instr_id
  BY <1>0, <1>2, <1>3 DEF Sorted
<1>6. \A i \in 1..Len(b) : a[1].instr_id < b[i].instr_id
  <2>1. SUFFICES ASSUME NEW i \in 1..Len(b) PROVE a[1].instr_id < b[i].instr_id
    OBVIOUS
  <2>2. 1 \in 1..Len(b) /\ a[1].instr_id < b[1].instr_id /\ b[1].instr_id \in Int
    BY <1>1, <1>2, <1>3
  <2>3. b[1].instr_id <= b[i].instr_id
    BY <1>0, <1>3, <2>2 DEF Sorted
  <2>4. QED
    BY <1>2, <1>3, <2>2, <2>3
<1>7. a[1].instr_id = m + 1
  <2>1. a[1].instr_id >= m + 1
    <3>1. 1 \in 1..Len(a) /\ a[1].instr_id \in Int
      BY <1>2, <1>3
    <3>2. a[1].instr_id \in Numbers(a, b)
      BY <3>1, NumbersOf
    <3>3. QED
      BY <1>0, <3>1, <3>2
  <2>2. m + 1 \in Numbers(a, b)
    BY <1>0, <1>2
  <2>3. \/ \E i \in 1..Len(a) : a[i].instr_id = m + 1
        \/ \E i \in 1..Len(b) : b[i].instr_id = m + 1
    BY <2>2, NumbersOf
  <2>4. QED
    BY <1>2, <1>3, <1>5, <1>6, <2>1, <2>3
<1>8. \A i \in 1..Len(Tail(a)) : i + 1 \in 1..Len(a) /\ Tail(a)[i].instr_id = a[i + 1].instr_id
  BY <1>2, <1>4
<1>9. Sorted(Tail(a))
  <2>1. SUFFICES ASSUME NEW i \in 1..Len(Tail(a)), NEW j \in 1..Len(Tail(a)), i < j
                 PROVE  Tail(a)[i].instr_id < Tail(a)[j].instr_id
    BY DEF Sorted
  <2>2. a[i + 1].instr_id < a[j + 1].instr_id
    BY <1>0, <1>2, <1>8, <2>1 DEF Sorted
  <2>3. QED
    BY <1>8, <2>2
<1>10. \A i \in 1..Len(Tail(a)) : Tail(a)[i].instr_id > m + 1
  <2>1. SUFFICES ASSUME NEW i \in 1..Len(Tail(a)) PROVE Tail(a)[i].instr_id > m + 1
    OBVIOUS
  <2>2. i + 1 \in 1..Len(a) /\ 1 \in 1..Len(a) /\ 1 < i + 1
    BY <1>2, <1>8
  <2>3. a[1].instr_id < a[i + 1].instr_id
    BY <1>0, <2>2 DEF Sorted
  <2>4. QED
    BY <1>3, <1>7, <1>8, <2>2, <2>3
<1>11. \A i \in 1..Len(Tail(a)), j \in 1..Len(b) : Tail(a)[i].instr_id # b[j].instr_id
  BY <1>0, <1>8
<1>12. ASSUME NEW k \in Int
       PROVE  k \in Numbers(Tail(a), b)
                <=> m + 2 <= k /\ k <= m + (Len(a) + Len(b))
  <2>1. k \in Numbers(Tail(a), b)
          <=> \/ \E i \in 1..Len(Tail(a)) : Tail(a)[i].instr_id = k
              \/ \E i \in 1..Len(b) : b[i].instr_id = k
    <3>1. Tail(a) \in Seq(InstructionType)
      BY <1>4
    <3>2. \A t \in Seq(InstructionType) :
            k \in Numbers(t, b)
              <=> \/ \E i \in 1..Len(t) : t[i].instr_id = k
                  \/ \E i \in 1..Len(b) : b[i].instr_id = k
      BY SMTT(30), NumbersOf
    <3>3. QED
      BY <3>1, <3>2, Zenon
  <2>2. m + 1 <= k /\ k <= m + (Len(a) + Len(b))
          <=> \/ \E i \in 1..Len(a) : a[i].instr_id = k
              \/ \E i \in 1..Len(b) : b[i].instr_id = k
    <3>1. k \in Numbers(a, b) <=> m + 1 <= k /\ k <= m + (Len(a) + Len(b))
      BY <1>0
    <3>2. QED
      BY <3>1, NumbersOf
  <2>3. (\E i \in 1..Len(a) : a[i].instr_id = k)
          <=> k = m + 1 \/ \E i \in 1..Len(Tail(a)) : Tail(a)[i].instr_id = k
    <3>1. ASSUME NEW i \in 1..Len(a), a[i].instr_id = k, k # m + 1
          PROVE  \E j \in 1..Len(Tail(a)) : Tail(a)[j].instr_id = k
      <4>1. i # 1
        BY <1>7, <3>1
      <4>2. i - 1 \in 1..Len(Tail(a)) /\ (i - 1) + 1 = i
        BY <1>2, <1>4, <4>1
      <4>3. QED
        BY <1>8, <3>1, <4>2
    <3>2. QED
      BY <1>2, <1>7, <1>8, <3>1
  <2>4. ~\E i \in 1..Len(Tail(a)) : Tail(a)[i].instr_id = m + 1
    BY <1>10, <1>8, <1>3
  <2>5. ~\E i \in 1..Len(b) : b[i].instr_id = m + 1
    BY <1>3, <1>6, <1>7
  <2>6. QED
    BY <1>2, <2>1, <2>2, <2>3, <2>4, <2>5
<1>13. \A k \in Int : k \in Numbers(Tail(a), b)
                        <=> (m + 1) + 1 <= k /\ k <= (m + 1) + (Len(Tail(a)) + Len(b))
  BY <1>2, <1>4, <1>12
<1>14. Merges(Tail(a), b, m + 1)
  BY <1>0, <1>9, <1>11, <1>13 DEF Merges
<1>15. QED
  BY <1>1, <1>4, <1>6, <1>7, <1>3, <1>2, <1>10, <1>14

(* Removing the first element of a sequence is taking its tail. *)
LEMMA RemoveFirstIsTail ==
  ASSUME NEW S, NEW s \in Seq(S), s # <<>>
  PROVE  RemoveAt(s, 1) = Tail(s)
<1>1. SubSeq(s, 1, 0) = <<>>
  BY SubSeqEmpty
<1>2. Tail(s) = SubSeq(s, 2, Len(s)) /\ Tail(s) \in Seq(S)
  BY TailIsSubSeq, HeadTailProperties
<1>3. <<>> \o Tail(s) = Tail(s)
  BY <1>2, ConcatEmptySeq
<1>4. QED
  BY <1>1, <1>2, <1>3 DEF RemoveAt

(* What promotion moves. *)
LEMMA PromoteMoves ==
  ASSUME Buffers, PromoteAny
  PROVE  /\ IFETCH_BUFFER # <<>>
         /\ IFETCH_BUFFER[1] \in InstructionType
         /\ Len(IFETCH_BUFFER) \in Nat \ {0}
         /\ IFETCH_BUFFER' \in Seq(InstructionType)
         /\ Len(IFETCH_BUFFER') = Len(IFETCH_BUFFER) - 1
         /\ \A i \in 1..Len(IFETCH_BUFFER') : IFETCH_BUFFER'[i] = IFETCH_BUFFER[i + 1]
         /\ \/ /\ DIB_HIT_BUFFER' = Append(DIB_HIT_BUFFER, IFETCH_BUFFER[1])
               /\ UNCHANGED DECODE_BUFFER
            \/ /\ DECODE_BUFFER' = Append(DECODE_BUFFER, IFETCH_BUFFER[1])
               /\ UNCHANGED DIB_HIT_BUFFER
         /\ UNCHANGED <<warmup, read, DISPATCH_BUFFER, ROB, fetch_resume>>
<1>1. PICK i \in DOMAIN IFETCH_BUFFER : PromoteToDecode(i)
  BY DEF PromoteAny
<1>2. i = 1
  BY <1>1 DEF PromoteToDecode, Promotable
<1>3. IFETCH_BUFFER \in Seq(InstructionType)
  BY DEF Buffers
<1>4. 1 \in 1..Len(IFETCH_BUFFER) /\ Len(IFETCH_BUFFER) \in Nat
  BY <1>1, <1>2, LengthsNat
<1>5. IFETCH_BUFFER # <<>>
  BY <1>4, EmptySeq
<1>6. IFETCH_BUFFER' = Tail(IFETCH_BUFFER)
  BY <1>1, <1>2, <1>3, <1>5, RemoveFirstIsTail DEF PromoteToDecode
<1>7. /\ IFETCH_BUFFER' \in Seq(InstructionType)
      /\ Len(IFETCH_BUFFER') = Len(IFETCH_BUFFER) - 1
      /\ \A j \in 1..Len(IFETCH_BUFFER') : IFETCH_BUFFER'[j] = IFETCH_BUFFER[j + 1]
  BY <1>3, <1>5, <1>6, HeadTailProperties
<1>8. IFETCH_BUFFER[1] \in InstructionType
  BY <1>3, <1>4, ElementOfSeq
<1>9. QED
  BY <1>1, <1>2, <1>4, <1>5, <1>7, <1>8 DEF PromoteToDecode

LEMMA MergesSwap ==
  ASSUME NEW a \in Seq(InstructionType), NEW b \in Seq(InstructionType), NEW m, Merges(a, b, m)
  PROVE  Merges(b, a, m)
<1>1. Numbers(a, b) = Numbers(b, a)
  BY DEF Numbers
<1>2. Len(a) + Len(b) = Len(b) + Len(a)
  BY LenProperties
<1>3. QED
  BY <1>1, <1>2 DEF Merges

(* The buffer that an instruction is promoted to stays sorted, apart from    *)
(* the other, and both together hold one number more.                      *)
LEMMA PromoteSorted ==
  ASSUME NEW a \in Seq(InstructionType), NEW b \in Seq(InstructionType), NEW m \in Int,
         Merges(a, b, m),
         NEW x \in InstructionType, x.instr_id = m + (Len(a) + Len(b)) + 1
  PROVE  /\ Append(a, x) \in Seq(InstructionType) /\ Len(Append(a, x)) = Len(a) + 1
         /\ Merges(Append(a, x), b, m)
<1> DEFINE c == Append(a, x)
<1>0. /\ Sorted(a) /\ Sorted(b)
      /\ \A i \in 1..Len(a), j \in 1..Len(b) : a[i].instr_id # b[j].instr_id
      /\ \A k \in Int : k \in Numbers(a, b) <=> m + 1 <= k /\ k <= m + (Len(a) + Len(b))
  BY DEF Merges
<1>1. /\ c \in Seq(InstructionType) /\ Len(c) = Len(a) + 1
      /\ \A i \in 1..Len(a) : c[i] = a[i]
      /\ c[Len(a) + 1] = x
  BY AppendProperties
<1> HIDE DEF c
<1>2. Len(a) \in Nat /\ Len(b) \in Nat
  BY LenProperties
<1>3. /\ \A i \in 1..Len(a) : a[i].instr_id \in Int
      /\ \A i \in 1..Len(b) : b[i].instr_id \in Int
  BY ElementOfSeq, FieldsOf, LengthAssumption
<1>4. \A k : k \in Numbers(a, b) <=> \/ \E i \in 1..Len(a) : a[i].instr_id = k
                                     \/ \E i \in 1..Len(b) : b[i].instr_id = k
  BY NumbersOf
<1>5. /\ \A i \in 1..Len(a) : a[i].instr_id < x.instr_id
      /\ \A i \in 1..Len(b) : b[i].instr_id < x.instr_id
  <2>1. ASSUME NEW k \in Int, k \in Numbers(a, b) PROVE k < x.instr_id
    BY <1>0, <1>2, <2>1
  <2>2. ASSUME NEW i \in 1..Len(a) PROVE a[i].instr_id \in Int /\ a[i].instr_id \in Numbers(a, b)
    BY <1>3, <1>4
  <2>3. ASSUME NEW i \in 1..Len(b) PROVE b[i].instr_id \in Int /\ b[i].instr_id \in Numbers(a, b)
    BY <1>3, <1>4
  <2>4. \A i \in 1..Len(a) : a[i].instr_id < x.instr_id
    BY <2>1, <2>2
  <2>5. \A i \in 1..Len(b) : b[i].instr_id < x.instr_id
    BY <2>1, <2>3
  <2>6. QED
    BY <2>4, <2>5
<1>6. Sorted(c)
  <2>1. SUFFICES ASSUME NEW i \in 1..Len(c), NEW j \in 1..Len(c), i < j
                 PROVE  c[i].instr_id < c[j].instr_id
    BY DEF Sorted
  <2>2. i \in 1..Len(a) /\ c[i] = a[i]
    BY <1>1, <1>2, <2>1
  <2>3. CASE j = Len(a) + 1
    BY <1>1, <1>5, <2>2, <2>3
  <2>4. CASE j # Len(a) + 1
    <3>1. j \in 1..Len(a) /\ c[j] = a[j]
      BY <1>1, <1>2, <2>4
    <3>2. QED
      BY <1>0, <2>1, <2>2, <3>1 DEF Sorted
  <2>5. QED
    BY <2>3, <2>4
<1>7. \A i \in 1..Len(c), j \in 1..Len(b) : c[i].instr_id # b[j].instr_id
  <2>1. SUFFICES ASSUME NEW i \in 1..Len(c), NEW j \in 1..Len(b)
                 PROVE  c[i].instr_id # b[j].instr_id
    OBVIOUS
  <2>2. CASE i = Len(a) + 1
    <3>1. c[i] = x /\ b[j].instr_id < x.instr_id /\ b[j].instr_id \in Int
      BY <1>1, <1>3, <1>5, <2>2
    <3>2. x.instr_id \in Int
      BY <1>2
    <3>3. QED
      BY <3>1, <3>2
  <2>3. CASE i # Len(a) + 1
    <3>1. i \in 1..Len(a)
      BY <1>1, <1>2, <2>3
    <3>2. QED
      BY <1>0, <1>1, <3>1
  <2>4. QED
    BY <2>2, <2>3
<1>8. ASSUME NEW k \in Int
      PROVE  k \in Numbers(c, b) <=> m + 1 <= k /\ k <= m + (Len(c) + Len(b))
  <2>1. k \in Numbers(c, b) <=> \/ \E i \in 1..Len(c) : c[i].instr_id = k
                                \/ \E i \in 1..Len(b) : b[i].instr_id = k
    <3>1. \A s \in Seq(InstructionType) :
            k \in Numbers(s, b)
              <=> \/ \E i \in 1..Len(s) : s[i].instr_id = k
                  \/ \E i \in 1..Len(b) : b[i].instr_id = k
      BY NumbersOf
    <3>2. QED
      BY <1>1, <3>1, Zenon
  <2>2. (\E i \in 1..Len(c) : c[i].instr_id = k)
          <=> k = x.instr_id \/ \E i \in 1..Len(a) : a[i].instr_id = k
    <3>1. ASSUME NEW i \in 1..Len(c), c[i].instr_id = k, k # x.instr_id
          PROVE  \E j \in 1..Len(a) : a[j].instr_id = k
      BY <1>1, <1>2, <3>1
    <3>2. \A i \in 1..Len(a) : i \in 1..Len(c) /\ c[i] = a[i]
      BY <1>1, <1>2
    <3>3. Len(a) + 1 \in 1..Len(c)
      BY <1>1, <1>2
    <3>4. QED
      BY <1>1, <3>1, <3>2, <3>3
  <2>3. k \in Numbers(c, b) <=> k = x.instr_id \/ k \in Numbers(a, b)
    BY <1>4, <2>1, <2>2
  <2>4. k \in Numbers(a, b) <=> m + 1 <= k /\ k <= m + (Len(a) + Len(b))
    BY <1>0
  <2>5. Len(c) = Len(a) + 1 /\ x.instr_id = m + (Len(a) + Len(b)) + 1
    BY <1>1
  <2>6. QED
    BY <1>2, <2>3, <2>4, <2>5
<1>9. Merges(c, b, m)
  BY <1>0, <1>6, <1>7, <1>8 DEF Merges
<1>10. QED
  BY <1>1, <1>9 DEF c

LEMMA PromoteQueue == ASSUME QueueInv, PromoteAny PROVE QueueInv'
<1>1. Buffers /\ Consecutive /\ RobBefore
  BY DEF QueueInv
<1> DEFINE x == IFETCH_BUFFER[1]
           a == DIB_HIT_BUFFER
           b == DECODE_BUFFER
<1>2. /\ x \in InstructionType
      /\ Len(IFETCH_BUFFER) \in Nat \ {0}
      /\ IFETCH_BUFFER' \in Seq(InstructionType)
      /\ Len(IFETCH_BUFFER') = Len(IFETCH_BUFFER) - 1
      /\ \A i \in 1..Len(IFETCH_BUFFER') : IFETCH_BUFFER'[i] = IFETCH_BUFFER[i + 1]
      /\ UNCHANGED <<read, DISPATCH_BUFFER, ROB>>
  BY <1>1, PromoteMoves
<1>3. /\ read \in Int /\ Dispatch_n \in Nat /\ Decode_n \in Nat /\ Fetch_n \in Nat
      /\ Middle \in Int /\ Len(a) \in Nat /\ Len(b) \in Nat
  BY <1>1, LengthsNat DEF Consecutive, Dispatch_n, Decode_n, Fetch_n, Middle, First
<1>4. x.instr_id = Middle + Decode_n + 1
  BY <1>1, <1>2 DEF Consecutive, Fetch_n
<1>5. /\ a' \in Seq(InstructionType) /\ b' \in Seq(InstructionType)
      /\ Decode_n' = Decode_n + 1
      /\ Merges(a', b', Middle)
  <2>1. a \in Seq(InstructionType) /\ b \in Seq(InstructionType) /\ Merges(a, b, Middle)
    BY <1>1 DEF Buffers, Consecutive
  <2>2. CASE a' = Append(a, x) /\ UNCHANGED b
    <3>1. x.instr_id = Middle + (Len(a) + Len(b)) + 1
      BY <1>4 DEF Decode_n
    <3>2. a' \in Seq(InstructionType) /\ Len(a') = Len(a) + 1 /\ Merges(a', b, Middle)
      BY <1>2, <1>3, <2>1, <2>2, <3>1, PromoteSorted
    <3>3. QED
      BY <1>3, <2>1, <2>2, <3>2 DEF Decode_n
  <2>3. CASE b' = Append(b, x) /\ UNCHANGED a
    <3>1. x.instr_id = Middle + (Len(b) + Len(a)) + 1
      BY <1>3, <1>4 DEF Decode_n
    <3>2. Merges(b, a, Middle)
      BY <2>1, MergesSwap
    <3>3. b' \in Seq(InstructionType) /\ Len(b') = Len(b) + 1 /\ Merges(b', a, Middle)
      BY <1>2, <1>3, <2>1, <2>3, <3>1, <3>2, PromoteSorted
    <3>4. Merges(a, b', Middle)
      BY <2>1, <3>3, MergesSwap
    <3>5. QED
      BY <1>3, <2>1, <2>3, <3>3, <3>4 DEF Decode_n
  <2>4. QED
    BY <1>1, <2>2, <2>3, PromoteMoves
<1>6. /\ Dispatch_n' = Dispatch_n /\ Fetch_n' = Fetch_n - 1 /\ First' = First /\ Middle' = Middle
  <2>1. Dispatch_n' = Dispatch_n /\ Fetch_n' = Fetch_n - 1
    BY <1>2 DEF Dispatch_n, Fetch_n
  <2>2. QED
    BY <2>1, <1>2, <1>3, <1>5 DEF First, Middle
<1>7. \A i \in 1..Fetch_n' : IFETCH_BUFFER'[i].instr_id = Middle + Decode_n' + i
  <2>1. ASSUME NEW i \in 1..Fetch_n'
        PROVE  IFETCH_BUFFER'[i].instr_id = Middle + Decode_n' + i
    <3>1. i + 1 \in 1..Fetch_n /\ IFETCH_BUFFER'[i] = IFETCH_BUFFER[i + 1]
      BY <1>2, <1>3, <1>6, <2>1 DEF Fetch_n
    <3>2. IFETCH_BUFFER[i + 1].instr_id = Middle + Decode_n + (i + 1)
      BY <1>1, <3>1 DEF Consecutive
    <3>3. QED
      BY <1>3, <1>5, <3>1, <3>2
  <2>2. QED
    BY <2>1
<1>8. Buffers'
  BY <1>1, <1>2, <1>5 DEF Buffers
<1>9. Consecutive'
  BY <1>1, <1>2, <1>5, <1>6, <1>7 DEF Consecutive
<1>10. RobBefore'
  BY <1>1, <1>2, <1>6 DEF RobBefore
<1>11. QED
  BY <1>8, <1>9, <1>10 DEF QueueInv

(* The first instruction being decoded moves to the dispatch buffer. *)
LEMMA TakeQueue ==
  ASSUME QueueInv, NEW d \in DispatchedType, d.instr_id = Middle + 1,
         DISPATCH_BUFFER' = Append(DISPATCH_BUFFER, d),
         DIB_HIT_BUFFER' \in Seq(InstructionType), DECODE_BUFFER' \in Seq(InstructionType),
         Len(DIB_HIT_BUFFER') + Len(DECODE_BUFFER') = Decode_n - 1,
         Merges(DIB_HIT_BUFFER', DECODE_BUFFER', Middle + 1),
         UNCHANGED <<read, IFETCH_BUFFER, ROB>>
  PROVE  QueueInv'
<1>1. Buffers /\ Consecutive /\ RobBefore
  BY DEF QueueInv
<1>2. /\ DISPATCH_BUFFER' \in Seq(DispatchedType)
      /\ Len(DISPATCH_BUFFER') = Len(DISPATCH_BUFFER) + 1
      /\ \A i \in 1..Len(DISPATCH_BUFFER) : DISPATCH_BUFFER'[i] = DISPATCH_BUFFER[i]
      /\ DISPATCH_BUFFER'[Len(DISPATCH_BUFFER) + 1] = d
  BY <1>1, AppendProperties DEF Buffers
<1>3. /\ read \in Int /\ Dispatch_n \in Nat /\ Decode_n \in Nat /\ Fetch_n \in Nat
      /\ Middle \in Int /\ First \in Int
  BY <1>1, LengthsNat DEF Consecutive, Dispatch_n, Decode_n, Fetch_n, Middle, First
<1>4. /\ Dispatch_n' = Dispatch_n + 1 /\ Decode_n' = Decode_n - 1 /\ Fetch_n' = Fetch_n
      /\ First' = First /\ Middle' = Middle + 1
  <2>1. Dispatch_n' = Dispatch_n + 1 /\ Decode_n' = Decode_n - 1 /\ Fetch_n' = Fetch_n
    BY <1>2 DEF Dispatch_n, Decode_n, Fetch_n
  <2>2. First' = First
    BY <2>1, <1>3 DEF First
  <2>3. QED
    BY <2>1, <2>2, <1>3 DEF Middle
<1>5. Buffers'
  BY <1>1, <1>2 DEF Buffers
<1>6. \A i \in 1..Dispatch_n' : DISPATCH_BUFFER'[i].instr_id = First + i
  <2>1. SUFFICES ASSUME NEW i \in 1..Dispatch_n'
                 PROVE  DISPATCH_BUFFER'[i].instr_id = First + i
    OBVIOUS
  <2>2. CASE i = Dispatch_n + 1
    BY <1>2, <1>3, <2>2 DEF Dispatch_n, Middle
  <2>3. CASE i # Dispatch_n + 1
    <3>1. i \in 1..Dispatch_n
      BY <1>3, <1>4, <2>3
    <3>2. QED
      BY <1>1, <1>2, <3>1 DEF Consecutive, Dispatch_n
  <2>4. QED
    BY <2>2, <2>3
<1>7. \A i \in 1..Fetch_n : IFETCH_BUFFER[i].instr_id = (Middle + 1) + (Decode_n - 1) + i
  BY <1>1, <1>3 DEF Consecutive
<1>8. Consecutive'
  BY <1>1, <1>4, <1>6, <1>7 DEF Consecutive
<1>9. RobBefore'
  BY <1>1, <1>4 DEF RobBefore
<1>10. QED
  BY <1>5, <1>8, <1>9 DEF QueueInv

LEMMA DispatchedIs ==
  ASSUME NEW x \in InstructionType, NEW mark \in BOOLEAN
  PROVE  /\ Dispatched(x, mark) \in DispatchedType
         /\ Dispatched(x, mark).instr_id = x.instr_id
         /\ Dispatched(x, mark).branch_mispredicted = mark
BY FieldsOf DEF Dispatched, DispatchedType

LEMMA AfterDecodeIs ==
  ASSUME NEW x \in InstructionType
  PROVE  /\ AfterDecode(x) \in DispatchedType
         /\ AfterDecode(x).instr_id = x.instr_id
         /\ AfterDecode(x).branch_mispredicted = (x.branch_mispredicted /\ ~ResolvedAtDecode(x))
<1>1. (x.branch_mispredicted /\ ~ResolvedAtDecode(x)) \in BOOLEAN
  BY FieldsOf
<1>2. QED
  BY <1>1, DispatchedIs DEF AfterDecode

LEMMA DibHitQueue == ASSUME QueueInv, DibHit PROVE QueueInv'
<1> DEFINE a == DIB_HIT_BUFFER
           b == DECODE_BUFFER
<1>1. /\ a \in Seq(InstructionType) /\ b \in Seq(InstructionType) /\ Merges(a, b, Middle)
      /\ Middle \in Int /\ Len(a) \in Nat /\ Len(b) \in Nat
  BY LengthsNat DEF QueueInv, Buffers, Consecutive, Middle, First, Dispatch_n, Decode_n, Fetch_n
<1>2. /\ a # <<>> /\ Head(a) = a[1] /\ a[1] \in InstructionType
      /\ a[1].instr_id = Middle + 1
      /\ Tail(a) \in Seq(InstructionType) /\ Len(Tail(a)) = Len(a) - 1
      /\ Merges(Tail(a), b, Middle + 1)
  BY <1>1, MergeTakesFirst DEF DibHit
<1>3. /\ a' = Tail(a) /\ b' = b
      /\ DISPATCH_BUFFER' = Append(DISPATCH_BUFFER, Dispatched(a[1], a[1].branch_mispredicted))
      /\ UNCHANGED <<read, IFETCH_BUFFER, ROB>>
  BY <1>2 DEF DibHit
<1>4. /\ Dispatched(a[1], a[1].branch_mispredicted) \in DispatchedType
      /\ Dispatched(a[1], a[1].branch_mispredicted).instr_id = Middle + 1
  BY <1>2, FieldsOf, DispatchedIs
<1>5. /\ a' \in Seq(InstructionType) /\ b' \in Seq(InstructionType)
      /\ Len(a') + Len(b') = Decode_n - 1 /\ Merges(a', b', Middle + 1)
  BY <1>1, <1>2, <1>3 DEF Decode_n
<1>6. QED
  BY <1>3, <1>4, <1>5, TakeQueue

LEMMA DecodeQueue == ASSUME QueueInv, Decode PROVE QueueInv'
<1> DEFINE a == DECODE_BUFFER
           b == DIB_HIT_BUFFER
<1>1. /\ a \in Seq(InstructionType) /\ b \in Seq(InstructionType) /\ Merges(b, a, Middle)
      /\ Middle \in Int /\ Len(a) \in Nat /\ Len(b) \in Nat
  BY LengthsNat DEF QueueInv, Buffers, Consecutive, Middle, First, Dispatch_n, Decode_n, Fetch_n
<1>2. Merges(a, b, Middle)
  BY <1>1, MergesSwap
<1>3. /\ a # <<>> /\ Head(a) = a[1] /\ a[1] \in InstructionType
      /\ a[1].instr_id = Middle + 1
      /\ Tail(a) \in Seq(InstructionType) /\ Len(Tail(a)) = Len(a) - 1
      /\ Merges(Tail(a), b, Middle + 1)
  BY <1>1, <1>2, MergeTakesFirst DEF Decode
<1>4. /\ a' = Tail(a) /\ b' = b
      /\ DISPATCH_BUFFER' = Append(DISPATCH_BUFFER, AfterDecode(a[1]))
      /\ UNCHANGED <<read, IFETCH_BUFFER, ROB>>
  BY <1>3 DEF Decode
<1>5. AfterDecode(a[1]) \in DispatchedType /\ AfterDecode(a[1]).instr_id = Middle + 1
  BY <1>3, AfterDecodeIs
<1>6. Merges(b', a', Middle + 1)
  BY <1>1, <1>3, <1>4, MergesSwap
<1>7. /\ a' \in Seq(InstructionType) /\ b' \in Seq(InstructionType)
      /\ Len(b') + Len(a') = Decode_n - 1
  BY <1>1, <1>3, <1>4 DEF Decode_n
<1>8. QED
  BY <1>4, <1>5, <1>6, <1>7, TakeQueue

LEMMA DispatchQueue == ASSUME QueueInv, Dispatch PROVE QueueInv'
<1>1. Buffers /\ Consecutive /\ RobBefore
  BY DEF QueueInv
<1> DEFINE s == DISPATCH_BUFFER
<1>2. /\ s \in Seq(DispatchedType) /\ s # <<>> /\ s' = Tail(s) /\ ROB' = ROB \cup {Head(s)}
      /\ UNCHANGED <<read, IFETCH_BUFFER, DIB_HIT_BUFFER, DECODE_BUFFER>>
  BY <1>1 DEF Dispatch, Buffers
<1>3. /\ Head(s) \in DispatchedType /\ Head(s) = s[1]
      /\ s' \in Seq(DispatchedType) /\ Len(s') = Len(s) - 1
      /\ \A i \in 1..Len(s') : s'[i] = s[i + 1]
      /\ Len(s) \in Nat \ {0}
  BY <1>2, HeadTailProperties, EmptySeq
<1>4. /\ read \in Int /\ Dispatch_n \in Nat /\ Decode_n \in Nat /\ Fetch_n \in Nat
      /\ Middle \in Int /\ First \in Int
  BY <1>1, LengthsNat DEF Consecutive, Dispatch_n, Decode_n, Fetch_n, Middle, First
<1>5. /\ Dispatch_n' = Dispatch_n - 1 /\ Decode_n' = Decode_n /\ Fetch_n' = Fetch_n
      /\ First' = First + 1 /\ Middle' = Middle
  <2>1. Dispatch_n' = Dispatch_n - 1 /\ Decode_n' = Decode_n /\ Fetch_n' = Fetch_n
    BY <1>2, <1>3 DEF Dispatch_n, Decode_n, Fetch_n
  <2>2. First' = First + 1
    BY <2>1, <1>2, <1>4 DEF First
  <2>3. QED
    BY <2>1, <2>2, <1>4 DEF Middle
<1>6. Head(s).instr_id = First + 1
  BY <1>1, <1>3 DEF Consecutive, Dispatch_n
<1>7. Buffers'
  BY <1>1, <1>2, <1>3 DEF Buffers
<1>8. \A i \in 1..Dispatch_n' : s'[i].instr_id = First' + i
  <2>1. ASSUME NEW i \in 1..Dispatch_n' PROVE s'[i].instr_id = First' + i
    <3>1. i + 1 \in 1..Dispatch_n /\ s'[i] = s[i + 1]
      BY <1>3, <1>4, <1>5 DEF Dispatch_n
    <3>2. s[i + 1].instr_id = First + (i + 1)
      BY <1>1, <3>1 DEF Consecutive
    <3>3. QED
      BY <1>4, <1>5, <3>1, <3>2
  <2>2. QED
    BY <2>1
<1>9. Consecutive'
  BY <1>1, <1>2, <1>5, <1>8 DEF Consecutive
<1>10. RobBefore'
  <2>1. \A x \in ROB : x.instr_id \in Int /\ x.instr_id <= First
    BY <1>1, NumbersInt DEF RobBefore
  <2>2. \A x \in ROB' : x.instr_id <= First'
    BY <1>2, <1>4, <1>5, <1>6, <2>1
  <2>3. \A x, y \in ROB' : x.instr_id = y.instr_id => x = y
    BY <1>1, <1>2, <1>4, <1>6, <2>1 DEF RobBefore
  <2>4. QED
    BY <2>2, <2>3 DEF RobBefore
<1>11. QED
  BY <1>7, <1>9, <1>10 DEF QueueInv

LEMMA RestQueue ==
  ASSUME QueueInv, ROB' \subseteq ROB,
         UNCHANGED <<read, IFETCH_BUFFER, DIB_HIT_BUFFER, DECODE_BUFFER, DISPATCH_BUFFER>>
  PROVE  QueueInv'
<1>1. /\ Dispatch_n' = Dispatch_n /\ Decode_n' = Decode_n /\ Fetch_n' = Fetch_n
      /\ First' = First /\ Middle' = Middle
  BY DEF Dispatch_n, Decode_n, Fetch_n, First, Middle
<1>2. Buffers'
  BY DEF QueueInv, Buffers
<1>3. Consecutive'
  BY <1>1 DEF QueueInv, Consecutive
<1>4. RobBefore'
  BY <1>1 DEF QueueInv, RobBefore
<1>5. QED
  BY <1>2, <1>3, <1>4 DEF QueueInv

-----------------------------------------------------------------------------
(* The mispredicted instructions in flight, by their numbers. *)
Marked(s, k) == \E i \in 1..Len(s) : s[i].branch_mispredicted /\ s[i].instr_id = k
MarkedIn(S, k) == \E x \in S : x.branch_mispredicted /\ x.instr_id = k
Mark(k) ==
  \/ Marked(IFETCH_BUFFER, k) \/ Marked(DIB_HIT_BUFFER, k) \/ Marked(DECODE_BUFFER, k)
  \/ Marked(DISPATCH_BUFFER, k) \/ MarkedIn(ROB, k)

Stopped ==
  /\ fetch_resume \in {"now", "penalty", "never"}
  /\ warmup \in BOOLEAN
  /\ fetch_resume = "never" <=> \E k \in Int : Mark(k)
  /\ \A k \in Int : Mark(k) => k = read

LEMMA MarkedAppend ==
  ASSUME NEW S, NEW s \in Seq(S), NEW x \in S
  PROVE  \A k : Marked(Append(s, x), k)
                  <=> Marked(s, k) \/ (x.branch_mispredicted /\ x.instr_id = k)
<1> DEFINE c == Append(s, x)
<1>1. /\ Len(c) = Len(s) + 1 /\ \A i \in 1..Len(s) : c[i] = s[i]
      /\ c[Len(s) + 1] = x
  BY AppendProperties
<1>2. Len(s) \in Nat
  BY LenProperties
<1> HIDE DEF c
<1>3. \A i \in 1..Len(c) : i \in 1..Len(s) \/ i = Len(s) + 1
  BY <1>1, <1>2
<1>4. (\A i \in 1..Len(s) : i \in 1..Len(c)) /\ Len(s) + 1 \in 1..Len(c)
  BY <1>1, <1>2
<1>5. QED
  BY <1>1, <1>3, <1>4 DEF Marked, c

LEMMA MarkedTail ==
  ASSUME NEW S, NEW s \in Seq(S), s # <<>>,
         NEW t, Len(t) = Len(s) - 1, \A i \in 1..Len(t) : t[i] = s[i + 1]
  PROVE  \A k : Marked(s, k)
                  <=> Marked(t, k) \/ (s[1].branch_mispredicted /\ s[1].instr_id = k)
<1>1. Len(s) \in Nat \ {0}
  BY EmptySeq
<1>2. \A i \in 1..Len(s) : i = 1 \/ (i - 1 \in 1..Len(t) /\ t[i - 1] = s[i])
  BY <1>1
<1>3. \A i \in 1..Len(t) : i + 1 \in 1..Len(s)
  BY <1>1
<1>4. 1 \in 1..Len(s)
  BY <1>1
<1>5. QED
  BY <1>2, <1>3, <1>4 DEF Marked

LEMMA InFlightIs ==
  \A x : x \in InFlight
           <=> \/ x \in ToSet(IFETCH_BUFFER) \/ x \in ToSet(DIB_HIT_BUFFER)
               \/ x \in ToSet(DECODE_BUFFER) \/ x \in ToSet(DISPATCH_BUFFER)
               \/ x \in ROB
<1> DEFINE Four == {IFETCH_BUFFER, DIB_HIT_BUFFER, DECODE_BUFFER, DISPATCH_BUFFER}
<1>1. ASSUME NEW x
      PROVE  x \in InFlight <=> (\E s \in Four : x \in ToSet(s)) \/ x \in ROB
  <2> DEFINE All == UNION {ToSet(s) : s \in Four}
  <2>1. InFlight = All \cup ROB
    BY DEF InFlight, All, Four
  <2> HIDE DEF Four
  <2>2. x \in All <=> \E s \in Four : x \in ToSet(s)
    OBVIOUS
  <2> HIDE DEF All
  <2>3. QED
    BY <2>1, <2>2
<1>2. QED
  BY <1>1

LEMMA MarksAre ==
  ASSUME Buffers
  PROVE  \A k : Mark(k) <=> \E x \in Mispredicted : x.instr_id = k
<1>2. \A x : x \in Mispredicted
               <=> /\ \/ \E i \in 1..Len(IFETCH_BUFFER) : x = IFETCH_BUFFER[i]
                      \/ \E i \in 1..Len(DIB_HIT_BUFFER) : x = DIB_HIT_BUFFER[i]
                      \/ \E i \in 1..Len(DECODE_BUFFER) : x = DECODE_BUFFER[i]
                      \/ \E i \in 1..Len(DISPATCH_BUFFER) : x = DISPATCH_BUFFER[i]
                      \/ x \in ROB
                   /\ x.branch_mispredicted
  BY InFlightIs, LengthsNat DEF Mispredicted, ToSet
<1>3. QED
  BY <1>2 DEF Mark, Marked, MarkedIn

LEMMA StoppedImplies == ASSUME Buffers, Stopped PROVE StoppedByYoungest
<1>1. \A x \in Mispredicted : x.instr_id \in Int
  <2>1. \A x \in InFlight : x \in InstructionType \/ x \in DispatchedType
    BY InFlightIs, NumbersInt, LengthsNat DEF ToSet, Buffers
  <2>2. QED
    BY <2>1, LengthAssumption DEF Mispredicted, InstructionType, DispatchedType
<1>2. fetch_resume = "never" <=> Mispredicted # {}
  BY <1>1, MarksAre DEF Stopped
<1>3. \A x \in Mispredicted : x.instr_id = read
  BY <1>1, MarksAre DEF Stopped
<1>4. QED
  BY <1>2, <1>3 DEF StoppedByYoungest

LEMMA InitStopped == Init => Stopped
<1> SUFFICES ASSUME Init PROVE Stopped
  OBVIOUS
<1>1. /\ Len(IFETCH_BUFFER) = 0 /\ Len(DIB_HIT_BUFFER) = 0 /\ Len(DECODE_BUFFER) = 0
      /\ Len(DISPATCH_BUFFER) = 0 /\ ROB = {} /\ fetch_resume = "now" /\ warmup \in BOOLEAN
  BY EmptySeq DEF Init
<1>2. QED
  BY <1>1 DEF Stopped, Mark, Marked, MarkedIn

(* Steps that move marks from one place to another. *)
LEMMA SameMarks ==
  ASSUME Stopped, \A k \in Int : Mark(k)' <=> Mark(k), UNCHANGED <<warmup, read, fetch_resume>>
  PROVE  Stopped'
BY DEF Stopped

LEMMA MarkStopped == ASSUME Buffers, Stopped, OnlyMarks PROVE Stopped'
<1>1. \A k : Marked(IFETCH_BUFFER', k) <=> Marked(IFETCH_BUFFER, k)
  BY DEF OnlyMarks, Marked
<1>2. \A k : Mark(k)' <=> Mark(k)
  BY <1>1 DEF Mark, OnlyMarks
<1>3. QED
  BY <1>2, SameMarks DEF OnlyMarks

LEMMA ReadStopped == ASSUME QueueInv, Stopped, ReadAny PROVE Stopped'
<1>1. PICK x \in InstructionType :
        /\ IFETCH_BUFFER' = Append(IFETCH_BUFFER, x)
        /\ x.instr_id = read + 1
        /\ fetch_resume' = IF x.branch_mispredicted THEN "never" ELSE "now"
        /\ fetch_resume = "now"
        /\ read' = read + 1 /\ read' \in 0..TRACE_LENGTH
        /\ UNCHANGED <<warmup, DIB_HIT_BUFFER, DECODE_BUFFER, DISPATCH_BUFFER, ROB>>
  BY ReadAppends DEF QueueInv, Consecutive
<1>2. \A k : Marked(IFETCH_BUFFER', k)
               <=> Marked(IFETCH_BUFFER, k) \/ (x.branch_mispredicted /\ x.instr_id = k)
  BY <1>1, MarkedAppend DEF QueueInv, Buffers
<1>3. \A k \in Int : ~Mark(k)
  BY <1>1 DEF Stopped
<1>4. \A k \in Int : Mark(k)' <=> x.branch_mispredicted /\ x.instr_id = k
  BY <1>1, <1>2, <1>3 DEF Mark
<1>5. x.instr_id \in Int /\ x.instr_id = read'
  BY <1>1, LengthAssumption
<1>6. QED
  BY <1>1, <1>4, <1>5 DEF Stopped

LEMMA PromoteStopped == ASSUME Buffers, Stopped, PromoteAny PROVE Stopped'
<1> DEFINE x == IFETCH_BUFFER[1]
           marks(k) == x.branch_mispredicted /\ x.instr_id = k
<1>1. /\ IFETCH_BUFFER \in Seq(InstructionType) /\ DIB_HIT_BUFFER \in Seq(InstructionType)
      /\ DECODE_BUFFER \in Seq(InstructionType)
  BY DEF Buffers
<1>2. x \in InstructionType /\ UNCHANGED <<warmup, read, DISPATCH_BUFFER, ROB, fetch_resume>>
  BY PromoteMoves
<1>3. \A k : Marked(IFETCH_BUFFER, k) <=> Marked(IFETCH_BUFFER', k) \/ marks(k)
  BY <1>1, PromoteMoves, MarkedTail
<1>4. \A k : Marked(DIB_HIT_BUFFER', k) \/ Marked(DECODE_BUFFER', k)
               <=> Marked(DIB_HIT_BUFFER, k) \/ Marked(DECODE_BUFFER, k) \/ marks(k)
  <2>1. CASE DIB_HIT_BUFFER' = Append(DIB_HIT_BUFFER, x) /\ UNCHANGED DECODE_BUFFER
    <3>1. \A k : Marked(DIB_HIT_BUFFER', k) <=> Marked(DIB_HIT_BUFFER, k) \/ marks(k)
      BY <1>1, <1>2, <2>1, MarkedAppend
    <3>2. DECODE_BUFFER' = DECODE_BUFFER
      BY <2>1
    <3>3. QED
      BY <3>1, <3>2
  <2>2. CASE DECODE_BUFFER' = Append(DECODE_BUFFER, x) /\ UNCHANGED DIB_HIT_BUFFER
    <3>1. \A k : Marked(DECODE_BUFFER', k) <=> Marked(DECODE_BUFFER, k) \/ marks(k)
      BY <1>1, <1>2, <2>2, MarkedAppend
    <3>2. DIB_HIT_BUFFER' = DIB_HIT_BUFFER
      BY <2>2
    <3>3. QED
      BY <3>1, <3>2
  <2>3. QED
    BY <2>1, <2>2, PromoteMoves
<1>5. \A k : Mark(k)' <=> Mark(k)
  BY <1>2, <1>3, <1>4 DEF Mark
<1>6. QED
  BY <1>2, <1>5, SameMarks

(* The head of a queue, with its mark, becomes the last of the next. *)
LEMMA DibHitStopped == ASSUME QueueInv, Stopped, DibHit PROVE Stopped'
<1> DEFINE a == DIB_HIT_BUFFER
           d == Dispatched(a[1], a[1].branch_mispredicted)
<1>1. /\ a \in Seq(InstructionType) /\ DISPATCH_BUFFER \in Seq(DispatchedType)
      /\ a # <<>>
  BY DEF QueueInv, Buffers, DibHit, GoesFirst
<1>2. /\ Head(a) = a[1] /\ a[1] \in InstructionType
      /\ Len(Tail(a)) = Len(a) - 1 /\ \A i \in 1..Len(Tail(a)) : Tail(a)[i] = a[i + 1]
  BY <1>1, HeadTailProperties, EmptySeq
<1>3. /\ a' = Tail(a) /\ DISPATCH_BUFFER' = Append(DISPATCH_BUFFER, d)
      /\ UNCHANGED <<warmup, read, IFETCH_BUFFER, DECODE_BUFFER, ROB, fetch_resume>>
  BY <1>2 DEF DibHit
<1>4. /\ d \in DispatchedType /\ d.instr_id = a[1].instr_id
      /\ d.branch_mispredicted = a[1].branch_mispredicted
  BY <1>2, FieldsOf, DispatchedIs
<1> HIDE DEF d
<1>5. \A k : Marked(a, k) <=> Marked(a', k) \/ (a[1].branch_mispredicted /\ a[1].instr_id = k)
  BY <1>1, <1>2, <1>3, MarkedTail
<1>6. \A k : Marked(DISPATCH_BUFFER', k)
               <=> \/ Marked(DISPATCH_BUFFER, k)
                   \/ a[1].branch_mispredicted /\ a[1].instr_id = k
  BY <1>1, <1>3, <1>4, MarkedAppend
<1>7. \A k : Mark(k)' <=> Mark(k)
  BY <1>3, <1>5, <1>6 DEF Mark
<1>8. QED
  BY <1>3, <1>7, SameMarks

(* Nothing in the ROB or in the dispatch buffer is younger than what is       *)
(* being decoded.                                                          *)
LEMMA OldOnes ==
  ASSUME QueueInv
  PROVE  /\ \A k \in Int : Marked(DISPATCH_BUFFER, k) => First < k /\ k <= Middle
         /\ \A k \in Int : MarkedIn(ROB, k) => k <= First
         /\ First \in Int /\ Middle \in Int /\ First <= Middle
         /\ read = Middle + (Len(DIB_HIT_BUFFER) + Len(DECODE_BUFFER)) + Len(IFETCH_BUFFER)
         /\ Middle = First + Len(DISPATCH_BUFFER)
         /\ Len(IFETCH_BUFFER) \in Nat /\ Len(DIB_HIT_BUFFER) \in Nat
         /\ Len(DECODE_BUFFER) \in Nat /\ Len(DISPATCH_BUFFER) \in Nat
<1>1. Buffers /\ Consecutive /\ RobBefore
  BY DEF QueueInv
<1>2. /\ read \in Int /\ Len(IFETCH_BUFFER) \in Nat /\ Len(DIB_HIT_BUFFER) \in Nat
      /\ Len(DECODE_BUFFER) \in Nat /\ Len(DISPATCH_BUFFER) \in Nat
  BY <1>1, LengthsNat DEF Consecutive
<1>3. /\ First \in Int /\ Middle = First + Len(DISPATCH_BUFFER)
      /\ read = Middle + (Len(DIB_HIT_BUFFER) + Len(DECODE_BUFFER)) + Len(IFETCH_BUFFER)
  BY <1>2 DEF First, Middle, Dispatch_n, Decode_n, Fetch_n
<1>4. \A k \in Int : Marked(DISPATCH_BUFFER, k) => First < k /\ k <= Middle
  BY SMTT(30), <1>1, <1>2, <1>3 DEF Marked, Consecutive, Dispatch_n
<1>5. \A k \in Int : MarkedIn(ROB, k) => k <= First
  BY <1>1 DEF MarkedIn, RobBefore
<1>6. QED
  BY <1>2, <1>3, <1>4, <1>5

LEMMA DecodeStopped == ASSUME QueueInv, Stopped, Decode PROVE Stopped'
<1> DEFINE a == DECODE_BUFFER
           b == DIB_HIT_BUFFER
           x == a[1]
           d == AfterDecode(x)
<1>1. /\ a \in Seq(InstructionType) /\ b \in Seq(InstructionType) /\ Merges(b, a, Middle)
      /\ DISPATCH_BUFFER \in Seq(DispatchedType) /\ Middle \in Int
  BY OldOnes DEF QueueInv, Buffers, Consecutive
<1>2. Merges(a, b, Middle)
  BY <1>1, MergesSwap
<1>3. /\ a # <<>> /\ Head(a) = x /\ x \in InstructionType
      /\ x.instr_id = Middle + 1
      /\ Len(Tail(a)) = Len(a) - 1 /\ \A i \in 1..Len(Tail(a)) : Tail(a)[i] = a[i + 1]
  BY <1>1, <1>2, MergeTakesFirst DEF Decode
<1>4. /\ a' = Tail(a) /\ DISPATCH_BUFFER' = Append(DISPATCH_BUFFER, d)
      /\ fetch_resume' = IF ResolvedAtDecode(x) THEN "penalty" ELSE fetch_resume
      /\ UNCHANGED <<warmup, read, IFETCH_BUFFER, DIB_HIT_BUFFER, ROB>>
  BY <1>3 DEF Decode
<1>5. /\ d \in DispatchedType /\ d.instr_id = x.instr_id
      /\ d.branch_mispredicted = (x.branch_mispredicted /\ ~ResolvedAtDecode(x))
  BY <1>3, AfterDecodeIs
<1>6. \A k : Marked(a, k) <=> Marked(a', k) \/ (x.branch_mispredicted /\ x.instr_id = k)
  BY <1>1, <1>3, <1>4, MarkedTail
<1>7. \A k : Marked(DISPATCH_BUFFER', k)
               <=> \/ Marked(DISPATCH_BUFFER, k)
                   \/ d.branch_mispredicted /\ x.instr_id = k
  BY <1>1, <1>4, <1>5, MarkedAppend
<1> HIDE DEF d
<1>8. CASE ~ResolvedAtDecode(x)
  <2>1. d.branch_mispredicted <=> x.branch_mispredicted
    BY <1>3, <1>5, <1>8, FieldsOf
  <2>2. \A k : Mark(k)' <=> Mark(k)
    BY <1>4, <1>6, <1>7, <2>1 DEF Mark
  <2>3. QED
    BY <1>4, <1>8, <2>2, SameMarks
<1>9. CASE ResolvedAtDecode(x)
  <2>1. x.branch_mispredicted /\ ~d.branch_mispredicted
    BY <1>3, <1>5, <1>9 DEF ResolvedAtDecode
  <2>2. Mark(x.instr_id) /\ x.instr_id \in Int
    BY <1>1, <1>3, <1>6, <2>1 DEF Mark
  <2>3. read = Middle + 1
    BY <1>3, <2>2 DEF Stopped
  <2>4. Len(a) = 1 /\ Len(b) = 0 /\ Len(IFETCH_BUFFER) = 0
    <3>1. Len(a) \in Nat /\ Len(a) # 0 /\ Len(b) \in Nat /\ Len(IFETCH_BUFFER) \in Nat
      BY <1>1, <1>3, EmptySeq, OldOnes
    <3>2. read = Middle + (Len(b) + Len(a)) + Len(IFETCH_BUFFER) /\ Middle \in Int
      BY OldOnes
    <3>3. \A m \in Int, p, q, r \in Nat :
            m + 1 = m + (p + q) + r /\ q # 0 => q = 1 /\ p = 0 /\ r = 0
      OBVIOUS
    <3>4. Middle + 1 = Middle + (Len(b) + Len(a)) + Len(IFETCH_BUFFER)
      BY <2>3, <3>2
    <3>5. QED
      BY <3>1, <3>2, <3>3, <3>4, Zenon
  <2>5. Len(IFETCH_BUFFER') = 0 /\ Len(b') = 0 /\ Len(a') = 0
    BY <1>3, <1>4, <2>4
  <2>6. \A k : ~Marked(IFETCH_BUFFER', k) /\ ~Marked(b', k) /\ ~Marked(a', k)
    BY <2>5 DEF Marked
  <2>7. \A k \in Int : ~Mark(k)'
    <3>1. SUFFICES ASSUME NEW k \in Int, Mark(k)' PROVE FALSE
      OBVIOUS
    <3>2. Marked(DISPATCH_BUFFER, k) \/ MarkedIn(ROB, k)
      BY <1>4, <1>7, <2>1, <2>6, <3>1 DEF Mark
    <3>3. k <= Middle /\ Mark(k)
      BY <3>2, OldOnes DEF Mark
    <3>4. k = read
      BY <3>3 DEF Stopped
    <3>5. QED
      BY <1>1, <2>3, <3>3, <3>4
  <2>8. QED
    BY <1>4, <1>9, <2>7 DEF Stopped
<1>10. QED
  BY <1>8, <1>9

LEMMA DispatchStopped == ASSUME QueueInv, Stopped, Dispatch PROVE Stopped'
<1> DEFINE s == DISPATCH_BUFFER
<1>1. /\ s \in Seq(DispatchedType) /\ s # <<>> /\ s' = Tail(s) /\ ROB' = ROB \cup {Head(s)}
      /\ UNCHANGED <<warmup, read, IFETCH_BUFFER, DIB_HIT_BUFFER, DECODE_BUFFER, fetch_resume>>
  BY DEF Dispatch, QueueInv, Buffers
<1>2. /\ Head(s) = s[1] /\ Len(s') = Len(s) - 1
      /\ \A i \in 1..Len(s') : s'[i] = s[i + 1]
  BY <1>1, HeadTailProperties
<1>3. \A k : Marked(s, k) <=> Marked(s', k) \/ (s[1].branch_mispredicted /\ s[1].instr_id = k)
  <2>1. s \in Seq(DispatchedType) /\ s # <<>>
    BY <1>1
  <2>2. QED
    BY <1>2, <2>1, MarkedTail
<1>4. \A k : MarkedIn(ROB', k)
               <=> MarkedIn(ROB, k) \/ (s[1].branch_mispredicted /\ s[1].instr_id = k)
  BY <1>1, <1>2 DEF MarkedIn
<1>5. \A k : Mark(k)' <=> Mark(k)
  BY <1>1, <1>3, <1>4 DEF Mark
<1>6. QED
  BY <1>1, <1>5, SameMarks

LEMMA CompleteStopped == ASSUME QueueInv, Stopped, CompleteAny PROVE Stopped'
<1>1. PICK x \in ROB : Complete(x)
  BY DEF CompleteAny
<1>2. /\ ROB' = ROB \ {x}
      /\ fetch_resume' = IF x.branch_mispredicted THEN "penalty" ELSE fetch_resume
      /\ UNCHANGED <<warmup, read, IFETCH_BUFFER, DIB_HIT_BUFFER, DECODE_BUFFER, DISPATCH_BUFFER>>
  BY <1>1 DEF Complete
<1>3. CASE ~x.branch_mispredicted
  <2>1. \A k : MarkedIn(ROB', k) <=> MarkedIn(ROB, k)
    BY <1>2, <1>3 DEF MarkedIn
  <2>2. \A k : Mark(k)' <=> Mark(k)
    BY <1>2, <2>1 DEF Mark
  <2>3. QED
    BY <1>2, <1>3, <2>2, SameMarks
<1>4. CASE x.branch_mispredicted
  <2>1. MarkedIn(ROB, x.instr_id) /\ x.instr_id \in Int
    BY <1>4, NumbersInt DEF MarkedIn, QueueInv
  <2>2. x.instr_id = read /\ read <= First
    BY <2>1, OldOnes DEF Stopped, Mark
  <2>3. /\ Len(IFETCH_BUFFER) = 0 /\ Len(DIB_HIT_BUFFER) = 0 /\ Len(DECODE_BUFFER) = 0
        /\ Len(DISPATCH_BUFFER) = 0
    BY <2>2, OldOnes
  <2>4. \A k \in Int : ~Mark(k)'
    <3>1. SUFFICES ASSUME NEW k \in Int, Mark(k)' PROVE FALSE
      OBVIOUS
    <3>2. MarkedIn(ROB', k)
      BY <1>2, <2>3, <3>1 DEF Mark, Marked
    <3>3. PICK y \in ROB : y # x /\ y.branch_mispredicted /\ y.instr_id = k
      BY <1>2, <3>2 DEF MarkedIn
    <3>4. Mark(k)
      BY <3>3 DEF Mark, MarkedIn
    <3>5. y.instr_id = x.instr_id
      BY <2>2, <3>3, <3>4 DEF Stopped
    <3>6. QED
      BY <3>3, <3>5 DEF QueueInv, RobBefore
  <2>5. QED
    BY <1>2, <1>4, <2>4 DEF Stopped
<1>5. QED
  BY <1>3, <1>4

-----------------------------------------------------------------------------
Inv == QueueInv /\ Stopped

LEMMA NextInv == Inv /\ [Next]_vars => Inv'
<1> SUFFICES ASSUME Inv, [Next]_vars PROVE Inv'
  OBVIOUS
<1>1. QueueInv /\ Stopped /\ Buffers /\ read \in 0..TRACE_LENGTH
  BY DEF Inv, QueueInv, Consecutive
<1>2. CASE ReadAny
  BY <1>1, <1>2, ReadQueue, ReadStopped DEF Inv
<1>3. CASE CheckDib
  BY <1>1, <1>3, CheckDibMarks, MarkQueue, MarkStopped DEF Inv
<1>4. CASE Fetch
  BY <1>1, <1>4, FetchMarks, MarkQueue, MarkStopped DEF Inv
<1>5. CASE AnswerAny
  <2>1. UNCHANGED <<warmup, read, IFETCH_BUFFER, DIB_HIT_BUFFER, DECODE_BUFFER, DISPATCH_BUFFER,
                    ROB, fetch_resume>>
    BY <1>5 DEF AnswerAny, L1IAnswer
  <2>2. \A k : Mark(k)' <=> Mark(k)
    BY <2>1 DEF Mark
  <2>3. QED
    BY <1>1, <2>1, <2>2, RestQueue, SameMarks DEF Inv
<1>6. CASE MemoryReturn
  BY <1>1, <1>6, MemoryReturnMarks, MarkQueue, MarkStopped DEF Inv
<1>7. CASE PromoteAny
  BY <1>1, <1>7, PromoteQueue, PromoteStopped DEF Inv
<1>8. CASE DibHit
  BY <1>1, <1>8, DibHitQueue, DibHitStopped DEF Inv
<1>9. CASE Decode
  BY <1>1, <1>9, DecodeQueue, DecodeStopped DEF Inv
<1>10. CASE Dispatch
  BY <1>1, <1>10, DispatchQueue, DispatchStopped DEF Inv
<1>11. CASE CompleteAny
  <2>1. /\ ROB' \subseteq ROB
        /\ UNCHANGED <<read, IFETCH_BUFFER, DIB_HIT_BUFFER, DECODE_BUFFER, DISPATCH_BUFFER>>
    BY <1>11 DEF CompleteAny, Complete
  <2>2. QED
    BY <1>1, <1>11, <2>1, RestQueue, CompleteStopped DEF Inv
<1>12. CASE Resume \/ EndWarmup \/ UNCHANGED vars
  <2>1. /\ UNCHANGED <<read, IFETCH_BUFFER, DIB_HIT_BUFFER, DECODE_BUFFER, DISPATCH_BUFFER, ROB>>
        /\ warmup' \in BOOLEAN
        /\ \/ UNCHANGED fetch_resume
           \/ fetch_resume = "penalty" /\ fetch_resume' = "now"
    BY <1>1, <1>12 DEF Resume, EndWarmup, vars, Stopped
  <2>2. \A k : Mark(k)' <=> Mark(k)
    BY <2>1 DEF Mark
  <2>3. Stopped'
    BY <1>1, <2>1, <2>2 DEF Stopped
  <2>4. QED
    BY <1>1, <2>1, <2>3, RestQueue DEF Inv
<1>13. QED
  BY <1>2, <1>3, <1>4, <1>5, <1>6, <1>7, <1>8, <1>9, <1>10, <1>11, <1>12 DEF Next

THEOREM InvHolds == Spec => []Inv
<1>1. Init => Inv
  BY InitQueue, InitStopped DEF Inv
<1>2. QED
  BY <1>1, NextInv, PTL DEF Spec

LEMMA InvTyped == ASSUME Inv PROVE TypeOK
<1>1. Buffers /\ read \in 0..TRACE_LENGTH /\ warmup \in BOOLEAN
      /\ fetch_resume \in {"now", "penalty", "never"}
  BY DEF Inv, QueueInv, Consecutive, Stopped
<1>2. /\ ToSet(IFETCH_BUFFER) \subseteq InstructionType
      /\ ToSet(DIB_HIT_BUFFER) \subseteq InstructionType
      /\ ToSet(DECODE_BUFFER) \subseteq InstructionType
      /\ ToSet(DISPATCH_BUFFER) \subseteq DispatchedType
  BY <1>1, NumbersInt, LengthsNat DEF ToSet
<1>3. ROB \subseteq DispatchedType
  BY <1>1 DEF Buffers
<1>4. QED
  BY <1>1, <1>2, <1>3 DEF TypeOK

LEMMA InvInOrder == ASSUME Inv PROVE OneQueue
<1>1. Buffers /\ Consecutive /\ QueueInv
  BY DEF Inv, QueueInv
<1>2. Decoding = (Middle + 1)..(Middle + Decode_n)
  <2>1. Decoding = Numbers(DIB_HIT_BUFFER, DECODE_BUFFER)
    BY DEF Decoding, Numbers
  <2>2. \A k \in Int : k \in Decoding <=> Middle + 1 <= k /\ k <= Middle + Decode_n
    BY <1>1, <2>1 DEF Consecutive, Merges, Decode_n
  <2>3. \A k \in Decoding : k \in Int
    <3>1. ASSUME NEW k \in Numbers(DIB_HIT_BUFFER, DECODE_BUFFER) PROVE k \in Int
      <4>1. \/ \E i \in 1..Len(DIB_HIT_BUFFER) : DIB_HIT_BUFFER[i].instr_id = k
            \/ \E i \in 1..Len(DECODE_BUFFER) : DECODE_BUFFER[i].instr_id = k
        BY <1>1, NumbersOf DEF Buffers
      <4>2. QED
        BY <1>1, <4>1, NumbersInt
    <3>2. QED
      BY <2>1, <3>1
  <2>4. Middle \in Int /\ Decode_n \in Int
    BY <1>1, OldOnes, LengthsNat DEF Decode_n
  <2>5. \A k : k \in Decoding <=> k \in (Middle + 1)..(Middle + Decode_n)
    BY <2>2, <2>3, <2>4
  <2>6. QED
    BY <2>5
<1>3. QED
  BY <1>1, <1>2, InvTyped, LengthsNat
  DEF OneQueue, Consecutive, First, Middle, Dispatch_n, Decode_n, Fetch_n

(* The front end is one queue in program order, whatever hits in the DIB, and  *)
(* reading is stopped exactly by the youngest branch when it was predicted   *)
(* wrong (promote_to_decode, decode_instruction, do_init_instruction).     *)
THEOREM FrontEndInOrder == Spec => []InOrderUntilStopped
<1>1. Inv => InOrderUntilStopped
  BY InvInOrder, StoppedImplies DEF InOrderUntilStopped, Inv, QueueInv
<1>2. QED
  BY <1>1, InvHolds, PTL
=============================================================================
