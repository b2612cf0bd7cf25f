------------------------------ MODULE VMemProofs ------------------------------
(***************************************************************************)
(* Proofs about VMem and about the Walker over it, for every page table,    *)
(* every amount of memory and every size of the walker's queues and caches. *)
(* First the virtual memory: the pages that are free are taken by nothing.  *)
(* Then the walker, handler by handler along a cycle: every walk is on its  *)
(* path, has a read under way and waits in one place.                       *)
(***************************************************************************)
EXTENDS Walker, SequenceTheorems, FiniteSetTheorems, WellFoundedInduction, TLAPS

(* The pages that are free are taken by nothing, and the table page that is *)
(* being filled is filled up to next.                                       *)
FreeOnce(m) == \A i, j \in DOMAIN m.free : m.free[i] = m.free[j] => i = j
FreeUnused(m) ==
  \A i \in DOMAIN m.free :
     /\ m.free[i] # m.active
     /\ \A x \in DOMAIN m.pages : m.pages[x] # m.free[i]
     /\ \A y \in DOMAIN m.tables : m.tables[y][1] # m.free[i]
ActiveFilled(m) ==
  /\ \A x \in DOMAIN m.pages : m.pages[x] # m.active
  /\ \A y \in DOMAIN m.tables : m.tables[y][1] = m.active => m.tables[y][2] < m.next
Apart(m) ==
  /\ \A x, y \in DOMAIN m.pages : m.pages[x] = m.pages[y] => x = y
  /\ \A x, y \in DOMAIN m.tables : m.tables[x] = m.tables[y] => x = y
  /\ \A x \in DOMAIN m.pages, y \in DOMAIN m.tables : m.pages[x] # m.tables[y][1]

(* The virtual memories that VMemTypeOK speaks of, but for the list being empty. *)
VMType == [pages : PageMap, tables : TableMap, free : Seq(Page), active : 0..PAGES,
           next : Slot, refilled : BOOLEAN]

MemInv(m) ==
  /\ m \in VMType /\ m.free # <<>>
  /\ ~m.refilled => FreeOnce(m) /\ FreeUnused(m) /\ ActiveFilled(m) /\ Apart(m)

(* What is added to the maps changes nothing in them.                        *)
Grows(m, d) ==
  /\ \A x \in DOMAIN m.pages : x \in DOMAIN d.pages /\ d.pages[x] = m.pages[x]
  /\ \A x \in DOMAIN m.tables : x \in DOMAIN d.tables /\ d.tables[x] = m.tables[x]

LEMMA AllPagesFree ==
  AllPages \in Seq(Page) /\ AllPages # <<>> /\ DOMAIN AllPages = Page
<1>1. PAGES \in Nat /\ PAGES > 0
  BY VMemAssumption
<1>2. AllPages \in Seq(Page) /\ Len(AllPages) = PAGES
  BY <1>1 DEF AllPages, Page
<1>3. QED
  BY <1>1, <1>2 DEF AllPages, Page

LEMMA NewGood == MemInv(NewVMem) /\ ~NewVMem.refilled
<1> DEFINE m == NewVMem
<1>1. /\ m = [pages |-> <<>>, tables |-> <<>>, free |-> AllPages, active |-> 0, next |-> 0,
              refilled |-> FALSE]
      /\ DOMAIN m.pages = {} /\ DOMAIN m.tables = {}
  BY DEF NewVMem
<1> HIDE DEF m
<1>2. m.pages \in PageMap
  <2>1. m.pages \in [{} -> Page]
    BY <1>1
  <2>2. QED
    BY <2>1 DEF PageMap
<1>3. m.tables \in TableMap
  <2>1. m.tables \in [{} -> (0..PAGES) \X Slot]
    BY <1>1
  <2>2. QED
    BY <2>1 DEF TableMap
<1>4. 0 \in 0..PAGES /\ 0 \in Slot
  BY VMemAssumption DEF Slot
<1>5. m \in VMType /\ m.free # <<>>
  BY <1>1, <1>2, <1>3, <1>4, AllPagesFree DEF VMType
<1>6. FreeOnce(m) /\ FreeUnused(m) /\ ActiveFilled(m) /\ Apart(m)
  BY <1>1, AllPagesFree DEF FreeOnce, FreeUnused, ActiveFilled, Apart, AllPages, Page
<1>7. MemInv(m) /\ ~m.refilled
  BY <1>1, <1>5, <1>6 DEF MemInv
<1>8. QED
  BY <1>7 DEF m

(* Pop takes the page at the front, and says so when it fills the list again. *)
LEMMA PopTakes ==
  ASSUME NEW m \in VMType, m.free # <<>>
  PROVE  /\ Front(m) \in Page /\ 1 \in DOMAIN m.free /\ Front(m) = m.free[1]
         /\ Pop(m) \in VMType /\ Pop(m).free # <<>>
         /\ Pop(m).pages = m.pages /\ Pop(m).tables = m.tables
         /\ Pop(m).active = m.active /\ Pop(m).next = m.next
         /\ ~Pop(m).refilled =>
               /\ ~m.refilled
               /\ \A i \in DOMAIN Pop(m).free :
                     i + 1 \in DOMAIN m.free /\ Pop(m).free[i] = m.free[i + 1]
<1>1. m.free \in Seq(Page) /\ m.free # <<>>
  BY DEF VMType
<1>2. Front(m) \in Page /\ 1 \in DOMAIN m.free /\ Front(m) = m.free[1]
  BY <1>1 DEF Front
<1>3. CASE Len(m.free) = 1
  <2>1. Pop(m) = [m EXCEPT !.free = AllPages, !.refilled = TRUE]
    BY <1>3 DEF Pop
  <2>2. QED
    BY <1>2, <2>1, AllPagesFree DEF VMType
<1>4. CASE Len(m.free) # 1
  <2>1. Pop(m) = [m EXCEPT !.free = Tail(m.free)]
    BY <1>4 DEF Pop
  <2>2. Tail(m.free) \in Seq(Page) /\ Len(Tail(m.free)) = Len(m.free) - 1
    BY <1>1, HeadTailProperties
  <2>3. Tail(m.free) # <<>>
    <3>1. Len(m.free) \in Nat /\ Len(m.free) # 0
      BY <1>1
    <3>2. Len(Tail(m.free)) # 0
      BY <1>4, <2>2, <3>1
    <3>3. QED
      BY <2>2, <3>2, EmptySeq
  <2>4. \A i \in DOMAIN Tail(m.free) :
           i + 1 \in DOMAIN m.free /\ Tail(m.free)[i] = m.free[i + 1]
    BY <1>1
  <2>5. QED
    BY <1>2, <2>1, <2>2, <2>3, <2>4 DEF VMType
<1>5. QED
  BY <1>3, <1>4

(* A map that is extended is a map.                                         *)
LEMMA ExtendedPages ==
  ASSUME NEW f \in PageMap, NEW cpu \in Cpu, NEW v \in VPage, NEW p \in Page
  PROVE  Extended(f, <<cpu, v>>, p) \in PageMap
<1>1. PICK D \in SUBSET (Cpu \X VPage) : f \in [D -> Page]
  BY DEF PageMap
<1>2. Extended(f, <<cpu, v>>, p) \in [D \cup {<<cpu, v>>} -> Page]
  BY <1>1 DEF Extended
<1>3. QED
  BY <1>1, <1>2 DEF PageMap

LEMMA ExtendedTables ==
  ASSUME NEW f \in TableMap, NEW key \in TableKey, NEW t \in (0..PAGES) \X Slot
  PROVE  Extended(f, key, t) \in TableMap
<1>1. PICK D \in SUBSET TableKey : f \in [D -> (0..PAGES) \X Slot]
  BY DEF TableMap
<1>2. Extended(f, key, t) \in [D \cup {key} -> (0..PAGES) \X Slot]
  BY <1>1 DEF Extended
<1>3. QED
  BY <1>1, <1>2 DEF TableMap

LEMMA TablesTyped ==
  ASSUME NEW f \in TableMap, NEW y \in DOMAIN f
  PROVE  f[y] \in (0..PAGES) \X Slot
BY DEF TableMap

LEMMA TranslatedGood ==
  ASSUME NEW m, MemInv(m), NEW cpu \in Cpu, NEW v \in VPage, NEW d, d = Translated(m, cpu, v)
  PROVE  MemInv(d) /\ Grows(m, d) /\ <<cpu, v>> \in DOMAIN d.pages
<1>1. CASE ~PageFault(m, cpu, v)
  <2>1. d = m
    BY <1>1 DEF Translated
  <2>2. QED
    BY <1>1, <2>1 DEF Grows, PageFault, TableFault
<1>2. CASE PageFault(m, cpu, v)
  <2> DEFINE key == <<cpu, v>>
             p == Pop(m)
  <2>1. m \in VMType /\ m.free # <<>>
    BY DEF MemInv
  <2>2. /\ Front(m) \in Page /\ 1 \in DOMAIN m.free /\ Front(m) = m.free[1]
        /\ p \in VMType /\ p.free # <<>>
        /\ p.pages = m.pages /\ p.tables = m.tables
        /\ p.active = m.active /\ p.next = m.next
        /\ ~p.refilled =>
              /\ ~m.refilled
              /\ \A i \in DOMAIN p.free :
                    i + 1 \in DOMAIN m.free /\ p.free[i] = m.free[i + 1]
    BY <2>1, PopTakes
  <2>3. d = [p EXCEPT !.pages = Extended(m.pages, key, Front(m))]
    BY <1>2 DEF Translated
  <2>4. /\ d.pages = Extended(m.pages, key, Front(m))
        /\ d.tables = m.tables /\ d.free = p.free /\ d.active = m.active
        /\ d.next = m.next /\ d.refilled = p.refilled
    BY <2>2, <2>3 DEF VMType
  <2>5. /\ DOMAIN d.pages = DOMAIN m.pages \cup {key}
        /\ d.pages[key] = Front(m)
        /\ \A x \in DOMAIN m.pages : x # key /\ d.pages[x] = m.pages[x]
    BY <1>2, <2>4 DEF Extended, PageFault
  <2>6. Extended(m.pages, key, Front(m)) \in PageMap
    BY <2>1, <2>2, ExtendedPages DEF VMType
  <2>7. d \in VMType /\ d.free # <<>>
    BY <2>2, <2>3, <2>4, <2>6 DEF VMType
  <2>8. ASSUME ~d.refilled
        PROVE  FreeOnce(d) /\ FreeUnused(d) /\ ActiveFilled(d) /\ Apart(d)
    <3> HIDE DEF p, key
    <3>1. FreeOnce(m) /\ FreeUnused(m) /\ ActiveFilled(m) /\ Apart(m)
      BY <2>2, <2>4, <2>8 DEF MemInv
    <3>2. \A i \in DOMAIN d.free :
             /\ i \in Nat /\ i + 1 \in DOMAIN m.free /\ d.free[i] = m.free[i + 1]
             /\ d.free[i] # Front(m)
      <4>1. \A i \in DOMAIN d.free :
             i \in Nat \ {0} /\ i + 1 \in DOMAIN m.free /\ d.free[i] = m.free[i + 1]
        BY <2>2, <2>4, <2>8 DEF VMType
      <4>2. QED
        BY <2>2, <3>1, <4>1 DEF FreeOnce
    <3>3. FreeOnce(d)
      BY <3>1, <3>2 DEF FreeOnce
    <3>4. FreeUnused(d)
      BY <2>4, <2>5, <3>1, <3>2 DEF FreeUnused
    <3>5. ActiveFilled(d)
      BY <2>2, <2>4, <2>5, <3>1 DEF FreeUnused, ActiveFilled
    <3>6. Apart(d)
      BY <2>2, <2>4, <2>5, <3>1 DEF FreeUnused, Apart
    <3>7. QED
      BY <3>3, <3>4, <3>5, <3>6
  <2>9. Grows(m, d) /\ key \in DOMAIN d.pages
    BY <2>4, <2>5 DEF Grows
  <2>10. QED
    BY <2>7, <2>8, <2>9 DEF MemInv
<1>3. QED
  BY <1>1, <1>2

LEMMA WithTableGood ==
  ASSUME NEW m, MemInv(m), NEW cpu \in Cpu, NEW v \in VPage, NEW l \in Level,
         NEW d, d = WithTable(m, cpu, v, l)
  PROVE  MemInv(d) /\ Grows(m, d) /\ <<cpu, l, Above(v, l)>> \in DOMAIN d.tables
<1>1. CASE ~TableFault(m, cpu, v, l)
  <2>1. d = m
    BY <1>1 DEF WithTable
  <2>2. QED
    BY <1>1, <2>1 DEF Grows, PageFault, TableFault
<1>2. CASE TableFault(m, cpu, v, l)
  <2> DEFINE key == <<cpu, l, Above(v, l)>>
             place == <<m.active, m.next>>
             kept == [m EXCEPT !.tables = Extended(@, key, place),
                                !.next = (m.next + 1) % TABLES_PER_PAGE]
  <2>1. m \in VMType /\ m.free # <<>>
    BY DEF MemInv
  <2>2. key \in TableKey /\ place \in (0..PAGES) \X Slot
    BY <2>1 DEF TableKey, VMType
  <2>3. Extended(m.tables, key, place) \in TableMap
    BY <2>1, <2>2, ExtendedTables DEF VMType
  <2>4. /\ (m.next + 1) % TABLES_PER_PAGE \in Slot
        /\ m.next + 1 = TABLES_PER_PAGE \/
             (m.next + 1 < TABLES_PER_PAGE /\ (m.next + 1) % TABLES_PER_PAGE = m.next + 1)
    <3>1. TABLES_PER_PAGE \in Nat \ {0} /\ m.next \in 0..(TABLES_PER_PAGE - 1)
      BY <2>1, VMemAssumption DEF VMType, Slot
    <3>2. QED
      BY <3>1 DEF Slot
  <2>5. /\ kept \in VMType /\ kept.free = m.free /\ kept.refilled = m.refilled
        /\ kept.tables = Extended(m.tables, key, place) /\ kept.pages = m.pages
        /\ kept.active = m.active /\ kept.next = (m.next + 1) % TABLES_PER_PAGE
    BY <2>1, <2>3, <2>4 DEF VMType
  <2>6. /\ DOMAIN kept.tables = DOMAIN m.tables \cup {key}
        /\ kept.tables[key] = place
        /\ \A y \in DOMAIN m.tables : y # key /\ kept.tables[y] = m.tables[y]
    BY <1>2, <2>5 DEF Extended, TableFault
  <2>7. \A y \in DOMAIN m.tables :
           m.tables[y] = <<m.tables[y][1], m.tables[y][2]>> /\ m.tables[y][2] \in Int
    BY <2>1, TablesTyped, VMemAssumption DEF VMType, Slot
  <2>8. m.next \in Nat
    BY <2>1, VMemAssumption DEF VMType, Slot
  <2>9. CASE m.next + 1 # TABLES_PER_PAGE
    <3>1. d = kept
      BY <1>2, <2>9 DEF WithTable
    <3>2. d.next = m.next + 1
      BY <2>4, <2>5, <2>9, <3>1
    <3>3. d \in VMType /\ d.free # <<>>
      BY <2>1, <2>5, <3>1 DEF VMType
    <3>4. ASSUME ~d.refilled
          PROVE  FreeOnce(d) /\ FreeUnused(d) /\ ActiveFilled(d) /\ Apart(d)
      <4> HIDE DEF kept, key
      <4>1. FreeOnce(m) /\ FreeUnused(m) /\ ActiveFilled(m) /\ Apart(m)
        BY <2>5, <3>1, <3>4 DEF MemInv
      <4>2. /\ d.tables[key][1] = m.active /\ d.tables[key][2] = m.next
            /\ \A y \in DOMAIN m.tables : d.tables[y] # d.tables[key]
        BY <2>6, <2>7, <2>8, <3>1, <4>1 DEF ActiveFilled
      <4>3. FreeOnce(d) /\ FreeUnused(d)
        BY <2>5, <2>6, <3>1, <4>1, <4>2 DEF FreeOnce, FreeUnused
      <4>4. ActiveFilled(d)
        BY <2>5, <2>6, <2>7, <2>8, <3>1, <3>2, <4>1, <4>2 DEF ActiveFilled
      <4>5. Apart(d)
        BY <2>5, <2>6, <3>1, <4>1, <4>2 DEF Apart, ActiveFilled
      <4>6. QED
        BY <4>3, <4>4, <4>5
    <3>5. Grows(m, d) /\ key \in DOMAIN d.tables
      BY <2>5, <2>6, <3>1 DEF Grows
    <3>6. QED
      BY <3>3, <3>4, <3>5 DEF MemInv
  <2>10. CASE m.next + 1 = TABLES_PER_PAGE
    <3> DEFINE p == Pop(kept)
    <3>1. /\ Front(m) \in Page /\ 1 \in DOMAIN m.free /\ Front(m) = m.free[1]
          /\ p \in VMType /\ p.free # <<>>
          /\ p.pages = kept.pages /\ p.tables = kept.tables
          /\ p.active = kept.active /\ p.next = kept.next
          /\ ~p.refilled =>
                /\ ~m.refilled
                /\ \A i \in DOMAIN p.free :
                      i + 1 \in DOMAIN m.free /\ p.free[i] = m.free[i + 1]
      <4> HIDE DEF kept
      <4>1. QED
        BY <2>1, <2>5, PopTakes
    <3>2. d = [p EXCEPT !.active = Front(m)]
      BY <1>2, <2>10 DEF WithTable
    <3> HIDE DEF p, kept, key
    <3>3. /\ d.pages = m.pages /\ d.tables = kept.tables /\ d.free = p.free
          /\ d.active = Front(m) /\ d.next = kept.next /\ d.refilled = p.refilled
      BY <2>5, <3>1, <3>2 DEF VMType
    <3>4. d \in VMType /\ d.free # <<>>
      <4>1. Front(m) \in 0..PAGES
        BY <3>1, VMemAssumption DEF Page
      <4>2. QED
        BY <3>1, <3>2, <4>1 DEF VMType
    <3>5. ASSUME ~d.refilled
          PROVE  FreeOnce(d) /\ FreeUnused(d) /\ ActiveFilled(d) /\ Apart(d)
      <4>1. FreeOnce(m) /\ FreeUnused(m) /\ ActiveFilled(m) /\ Apart(m)
        BY <3>1, <3>3, <3>5 DEF MemInv
      <4>2. \A i \in DOMAIN d.free :
               /\ i + 1 \in DOMAIN m.free /\ d.free[i] = m.free[i + 1]
               /\ i \in Nat /\ d.free[i] # Front(m)
        <5>1. \A i \in DOMAIN d.free :
               i \in Nat \ {0} /\ i + 1 \in DOMAIN m.free /\ d.free[i] = m.free[i + 1]
          BY <3>1, <3>3, <3>5 DEF VMType
        <5>2. QED
          BY <3>1, <4>1, <5>1 DEF FreeOnce
      <4>3. /\ d.tables[key][1] = m.active /\ d.tables[key][2] = m.next
            /\ \A y \in DOMAIN m.tables : d.tables[y] # d.tables[key]
            /\ \A y \in DOMAIN d.tables : d.tables[y][1] # Front(m)
        BY <2>6, <2>7, <2>8, <3>1, <3>3, <4>1 DEF ActiveFilled, FreeUnused
      <4>4. FreeOnce(d)
        BY <4>1, <4>2 DEF FreeOnce
      <4>5. FreeUnused(d)
        BY <2>6, <3>3, <4>1, <4>2, <4>3 DEF FreeUnused
      <4>6. ActiveFilled(d)
        BY <3>1, <3>3, <4>1, <4>3 DEF ActiveFilled, FreeUnused
      <4>7. Apart(d)
        BY <2>6, <3>3, <4>1, <4>3 DEF Apart, ActiveFilled
      <4>8. QED
        BY <4>4, <4>5, <4>6, <4>7
    <3>6. Grows(m, d) /\ key \in DOMAIN d.tables
      BY <2>5, <2>6, <3>3 DEF Grows
    <3>7. QED
      BY <3>4, <3>5, <3>6 DEF MemInv, key
  <2>11. QED
    BY <2>9, <2>10
<1>3. QED
  BY <1>1, <1>2

Inv == MemInv(vm)

LEMMA InvTyped == Inv => VMemTypeOK
BY DEF Inv, MemInv, VMType, VMemTypeOK

LEMMA StepKeeps == Inv /\ [VMemNext]_<<vm>> => Inv' /\ Grows(vm, vm')
<1> SUFFICES ASSUME Inv, [VMemNext]_<<vm>> PROVE Inv' /\ Grows(vm, vm')
  OBVIOUS
<1>1. CASE UNCHANGED <<vm>>
  BY <1>1 DEF Inv, Grows
<1>2. ASSUME NEW cpu \in Cpu, NEW v \in VPage, va_to_pa(cpu, v)
      PROVE  Inv' /\ Grows(vm, vm')
  BY <1>2, TranslatedGood DEF va_to_pa, Inv
<1>3. ASSUME NEW cpu \in Cpu, NEW v \in VPage, NEW l \in Level, get_pte_pa(cpu, v, l)
      PROVE  Inv' /\ Grows(vm, vm')
  BY <1>3, WithTableGood DEF get_pte_pa, Inv
<1>4. QED
  BY <1>1, <1>2, <1>3 DEF VMemNext

(* Everything the virtual memory reaches satisfies Inv.                     *)
THEOREM VMemInv == VMemSpec => []Inv
<1>1. VMemInit => Inv
  BY NewGood DEF VMemInit, Inv
<1>2. QED
  BY <1>1, StepKeeps, PTL DEF VMemSpec

LEMMA InvApart == Inv => PagesApart
BY DEF Inv, MemInv, Apart, PagesApart

(* Until the list of pages has been filled again, virtual pages and page    *)
(* table pages have places of their own (va_to_pa, get_pte_pa), whatever    *)
(* the size of the page table and in whatever order they are asked for.     *)
THEOREM PagesStayApart == VMemSpec => []PagesApart
BY InvApart, VMemInv, PTL

(* A translation that has been made is never changed, not even by the pages *)
(* being handed out a second time: what a TLB or a PSCL keeps stays right   *)
(* (va_to_pa and get_pte_pa only ever add to their maps).                   *)
THEOREM TranslationsNeverChange == VMemSpec => TranslationsStay
<1>1. Inv /\ [VMemNext]_<<vm>> =>
        [/\ \A x \in DOMAIN vm.pages : x \in DOMAIN vm'.pages /\ vm'.pages[x] = vm.pages[x]
         /\ \A x \in DOMAIN vm.tables : x \in DOMAIN vm'.tables /\ vm'.tables[x] = vm.tables[x]]_<<vm>>
  BY StepKeeps DEF Grows
<1>2. QED
  BY <1>1, VMemInv, PTL DEF VMemSpec, TranslationsStay

-----------------------------------------------------------------------------
(* The walker.  A cycle is a chain of handlers on one record; what holds of  *)
(* the record between two of them is Kept.                                  *)
ReqType == [id : Ids, v : VPage]
BlockType == [page : 0..PAGES, table : Slot, block : {o \div PER_BLOCK : o \in Offset}]
BelowType == UNION {[D -> Nat \ {0}] : D \in SUBSET BlockType}
DataType == AddressType \cup {InPage(p) : p \in 0..PAGES}
WalkType == [id : Ids, v : VPage, level : 0..TOP, data : DataType, ready_in : Nat,
             address : AddressType]
PsclType == [v : VPage, address : AddressType]
CycleType ==
  [vm : VMType, RQ : [Ul -> Seq(ReqType)], MSHR : Seq(WalkType), finished : Seq(WalkType),
   completed : Seq(WalkType), pscl : [1..TOP -> Seq(PsclType)], below : BelowType,
   answered : SUBSET Ids, next : Seq(WalkType), room : Nat, fills : Nat, reads : Nat]

(* What the walks have of the page table m.  Where a page table page is not *)
(* a page of memory a walk that a PSCL has helped loses its way.            *)
Rooted(m) == <<CPU, LEVELS, Above(Zero, LEVELS)>> \in DOMAIN m.tables
RootOf(m, v) == [page |-> Cr3(m).page, table |-> 0, offset |-> v[TOP]]
ReadsPath(m, e) ==
  TABLES_PER_PAGE = 1 =>
     \/ e.level = TOP /\ e.address = RootOf(m, e.v)
     \/ \E l \in {e.level, e.level + 1} \cap (1..TOP) :
           ~TableFault(m, CPU, e.v, l) /\ e.address = Entry(m, CPU, e.v, l)
HasRead(m, e) ==
  e.level # 0 /\ ~TableFault(m, CPU, e.v, e.level) /\ e.data = Entry(m, CPU, e.v, e.level)
Translates(m, e) == ~PageFault(m, CPU, e.v) /\ e.data = InPage(PageOf(m, CPU, e.v))
Remembers(m, l, x) == ~TableFault(m, CPU, x.v, l) /\ x.address = Entry(m, CPU, x.v, l)

Paths(w) ==
  /\ MemInv(w.vm) /\ Rooted(w.vm)
  /\ \A i \in DOMAIN w.MSHR : ReadsPath(w.vm, w.MSHR[i])
  /\ \A i \in DOMAIN w.next : ReadsPath(w.vm, w.next[i])
  /\ \A i \in DOMAIN w.finished : HasRead(w.vm, w.finished[i])
  /\ \A i \in DOMAIN w.completed : Translates(w.vm, w.completed[i])
  /\ \A l \in 1..TOP : \A i \in DOMAIN w.pscl[l] : Remembers(w.vm, l, w.pscl[l][i])

(* Queues and PSCLs never outgrow their sizes.                              *)
Sized(w) ==
  /\ \A ul \in Ul : Len(w.RQ[ul]) <= RQ_SIZE
  /\ \A l \in 1..TOP : Len(w.pscl[l]) <= PSCL_WAYS

(* Each walk has a read below, or an answer that has not been taken up.      *)
Awaits(w, came) ==
  /\ \A i \in DOMAIN w.MSHR :
        \/ BagIn(BlockOf(w.MSHR[i].address), w.below)
        \/ \E k \in DOMAIN came : came[k] = BlockOf(w.MSHR[i].address)
  /\ \A i \in DOMAIN w.next : BagIn(BlockOf(w.next[i].address), w.below)

(* Each instruction waits in one place.                                     *)
Place == ({"walks"} \X {"MSHR", "finished", "completed", "next"}) \cup ({"RQ"} \X Ul)
Queue(w, p) == IF p[1] = "walks" THEN w[p[2]] ELSE w.RQ[p[2]]
Once(w) ==
  \A p, o \in Place : \A i \in DOMAIN Queue(w, p), j \in DOMAIN Queue(w, o) :
     Queue(w, p)[i].id = Queue(w, o)[j].id => p = o /\ i = j
WaitingIn(w) == {id \in Ids : \E p \in Place : \E i \in DOMAIN Queue(w, p) : Queue(w, p)[i].id = id}

Kept(w, came) ==
  /\ w \in CycleType /\ Paths(w) /\ Sized(w) /\ Awaits(w, came) /\ Once(w)
  /\ WaitingIn(w) \cap w.answered = {}

LEMMA LevelsAre ==
  /\ TOP \in Nat \ {0} /\ 1..TOP \subseteq Level /\ TOP + 1 \in Level
  /\ \A v \in VPage : \A l \in Level : v[l] \in Offset
BY VMemAssumption, WalkerAssumption DEF TOP, Level

LEMMA EntryTyped ==
  ASSUME NEW m \in VMType, NEW v, NEW l \in Level, v[l] \in Offset, ~TableFault(m, CPU, v, l)
  PROVE  Entry(m, CPU, v, l) \in AddressType
<1>. DEFINE table == m.tables[<<CPU, l, Above(v, l)>>]
<1>1. table \in (0..PAGES) \X Slot
  BY TablesTyped DEF VMType, TableFault
<1>2. Entry(m, CPU, v, l) = [page |-> table[1], table |-> table[2], offset |-> v[l]]
  BY DEF Entry
<1>. HIDE DEF table
<1>. QED  BY <1>1, <1>2 DEF AddressType, Slot

LEMMA EntryStays ==
  ASSUME NEW m, NEW d, Grows(m, d), NEW v, NEW l, ~TableFault(m, CPU, v, l)
  PROVE  ~TableFault(d, CPU, v, l) /\ Entry(d, CPU, v, l) = Entry(m, CPU, v, l)
BY DEF Grows, TableFault, Entry

LEMMA PageTyped ==
  ASSUME NEW m \in VMType, NEW v, ~PageFault(m, CPU, v)
  PROVE  InPage(PageOf(m, CPU, v)) \in DataType
<1>1. m.pages \in PageMap /\ <<CPU, v>> \in DOMAIN m.pages
  BY DEF VMType, PageFault
<1>2. m.pages[<<CPU, v>>] \in Page
  BY <1>1 DEF PageMap
<1>3. PageOf(m, CPU, v) \in 0..PAGES
  BY <1>2, VMemAssumption DEF Page, PageOf
<1>. QED  BY <1>3 DEF DataType

LEMMA PageStays ==
  ASSUME NEW m, NEW d, Grows(m, d), NEW v, ~PageFault(m, CPU, v)
  PROVE  ~PageFault(d, CPU, v) /\ PageOf(d, CPU, v) = PageOf(m, CPU, v)
BY DEF Grows, PageFault, PageOf

LEMMA RootTyped ==
  ASSUME NEW m \in VMType, Rooted(m), NEW v \in VPage, NEW o \in Offset
  PROVE  /\ RootOf(m, v) \in AddressType
         /\ [page |-> Cr3(m).page, table |-> 0, offset |-> o] \in AddressType
<1>. DEFINE table == m.tables[<<CPU, LEVELS, Above(Zero, LEVELS)>>]
<1>1. table \in (0..PAGES) \X Slot
  BY TablesTyped DEF VMType, Rooted
<1>2. Cr3(m).page = table[1]
  BY DEF Cr3, Entry
<1>. HIDE DEF table
<1>3. Cr3(m).page \in 0..PAGES /\ 0 \in Slot
  BY <1>1, <1>2, VMemAssumption DEF Slot
<1>4. v[TOP] \in Offset
  BY LevelsAre
<1>. QED  BY <1>3, <1>4 DEF AddressType, RootOf, Slot

LEMMA RootStays ==
  ASSUME NEW m, NEW d, Grows(m, d), Rooted(m)
  PROVE  Rooted(d) /\ Cr3(d) = Cr3(m)
BY DEF Grows, Rooted, Cr3, Entry

(* What a walk has of a page table it has of one that has grown.             *)
LEMMA PathStays ==
  ASSUME NEW m, NEW d, Grows(m, d), Rooted(m)
  PROVE  /\ \A e : ReadsPath(m, e) => ReadsPath(d, e)
         /\ \A e : HasRead(m, e) => HasRead(d, e)
         /\ \A e : Translates(m, e) => Translates(d, e)
         /\ \A l, x : Remembers(m, l, x) => Remembers(d, l, x)
<1>1. Cr3(d) = Cr3(m)
  BY RootStays
<1>2. ASSUME NEW e, ReadsPath(m, e) PROVE ReadsPath(d, e)
  BY <1>1, <1>2, EntryStays DEF ReadsPath, RootOf
<1>3. ASSUME NEW e, HasRead(m, e) PROVE HasRead(d, e)
  BY <1>3, EntryStays DEF HasRead
<1>4. ASSUME NEW e, Translates(m, e) PROVE Translates(d, e)
  BY <1>4, PageStays DEF Translates
<1>5. ASSUME NEW l, NEW x, Remembers(m, l, x) PROVE Remembers(d, l, x)
  BY <1>5, EntryStays DEF Remembers
<1>. QED  BY <1>2, <1>3, <1>4, <1>5

LEMMA PathsStay ==
  ASSUME NEW w, Paths(w), NEW d, MemInv(d), Grows(w.vm, d), NEW x,
         x.vm = d, x.MSHR = w.MSHR, x.next = w.next, x.finished = w.finished,
         x.completed = w.completed, x.pscl = w.pscl
  PROVE  Paths(x)
<1>1. Rooted(w.vm) /\ Rooted(d)
  BY RootStays DEF Paths
<1>. QED  BY <1>1, PathStays DEF Paths

-----------------------------------------------------------------------------
(* Where instructions wait, when walks change places.                        *)
LEMMA QueueTyped ==
  ASSUME NEW w \in CycleType, NEW p \in Place
  PROVE  /\ Queue(w, p) \in Seq(WalkType \cup ReqType)
         /\ \A i \in DOMAIN Queue(w, p) : i \in Nat \ {0} /\ Queue(w, p)[i].id \in Ids
<1>1. Queue(w, p) \in Seq(WalkType) \/ Queue(w, p) \in Seq(ReqType)
  <2>1. CASE p[1] = "walks"
    <3>1. p[2] \in {"MSHR", "finished", "completed", "next"}
      BY <2>1 DEF Place
    <3>2. Queue(w, p) = w[p[2]]
      BY <2>1 DEF Queue
    <3>. QED  BY <3>1, <3>2 DEF CycleType
  <2>2. CASE p[1] # "walks"
    <3>1. p[2] \in Ul
      BY <2>2 DEF Place
    <3>2. Queue(w, p) = w.RQ[p[2]]
      BY <2>2 DEF Queue
    <3>. QED  BY <3>1, <3>2 DEF CycleType
  <2>. QED  BY <2>1, <2>2
<1>2. ASSUME NEW S, NEW q \in Seq(S) PROVE q \in Seq(S \cup WalkType \cup ReqType) /\ \A i \in DOMAIN q : i \in Nat \ {0} /\ q[i] \in S
  BY SeqMonotonic
<1>. PICK q : q = Queue(w, p)
  OBVIOUS
<1>3. q \in Seq(WalkType \cup ReqType)
  BY <1>1, SeqMonotonic
<1>4. \A i \in DOMAIN q : i \in Nat \ {0} /\ q[i] \in WalkType \cup ReqType
  BY <1>3
<1>. QED  BY <1>3, <1>4 DEF WalkType, ReqType

LEMMA Hop ==
  ASSUME NEW w \in CycleType, NEW d \in CycleType, Once(w),
         NEW p \in Place, NEW o \in Place, p # o, NEW x,
         Queue(w, p) # <<>>, x.id = Head(Queue(w, p)).id,
         Queue(d, p) = Tail(Queue(w, p)), Queue(d, o) = Append(Queue(w, o), x),
         \A r \in Place : r # p /\ r # o => Queue(d, r) = Queue(w, r)
  PROVE  Once(d) /\ WaitingIn(d) = WaitingIn(w)
<1>. DEFINE n == Len(Queue(w, o)) + 1
            Was(r, i) == IF r = o /\ i = n THEN p ELSE r
            At(r, i) == IF r = o /\ i = n THEN 1 ELSE IF r = p THEN i + 1 ELSE i
<1>1. /\ Queue(w, p) \in Seq(WalkType \cup ReqType) /\ Queue(w, o) \in Seq(WalkType \cup ReqType)
      /\ 1 \in DOMAIN Queue(w, p) /\ Head(Queue(w, p)) = Queue(w, p)[1]
  BY QueueTyped
<1>2. /\ \A i \in DOMAIN Queue(d, p) :
           i + 1 \in DOMAIN Queue(w, p) /\ Queue(d, p)[i] = Queue(w, p)[i + 1]
      /\ \A i \in DOMAIN Queue(w, p) : i = 1 \/ i - 1 \in DOMAIN Queue(d, p)
      /\ n \in Nat /\ DOMAIN Queue(d, o) = DOMAIN Queue(w, o) \cup {n} /\ n \notin DOMAIN Queue(w, o)
      /\ Queue(d, o)[n] = x
      /\ \A i \in DOMAIN Queue(w, o) : Queue(d, o)[i] = Queue(w, o)[i]
  BY <1>1
<1>. HIDE DEF n
<1>3. \A r \in Place : \A i \in DOMAIN Queue(d, r) :
         /\ Was(r, i) \in Place /\ At(r, i) \in DOMAIN Queue(w, Was(r, i))
         /\ Queue(d, r)[i].id = Queue(w, Was(r, i))[At(r, i)].id
  BY <1>1, <1>2
<1>4. \A r, s \in Place : \A i \in DOMAIN Queue(d, r), j \in DOMAIN Queue(d, s) :
         Was(r, i) = Was(s, j) /\ At(r, i) = At(s, j) => r = s /\ i = j
  <2>1. \A i \in DOMAIN Queue(d, p) : i \in Nat /\ i # 0
    BY QueueTyped
  <2>. QED  BY <2>1, <1>2
<1>5. \A r \in Place : \A i \in DOMAIN Queue(w, r) :
         \E s \in Place : \E j \in DOMAIN Queue(d, s) : Queue(d, s)[j].id = Queue(w, r)[i].id
  <2>. SUFFICES ASSUME NEW r \in Place, NEW i \in DOMAIN Queue(w, r)
                PROVE  \E s \in Place : \E j \in DOMAIN Queue(d, s) : Queue(d, s)[j].id = Queue(w, r)[i].id
    OBVIOUS
  <2>1. CASE r = p /\ i = 1
    BY <1>1, <1>2, <2>1
  <2>2. CASE r = p /\ i # 1
    <3>1. i - 1 \in DOMAIN Queue(d, p) /\ i \in Nat
      BY <1>2, <2>2, QueueTyped
    <3>2. Queue(d, p)[i - 1] = Queue(w, p)[(i - 1) + 1] /\ (i - 1) + 1 = i
      BY <1>2, <3>1
    <3>. QED  BY <2>2, <3>1, <3>2
  <2>3. CASE r # p
    BY <1>2, <2>3
  <2>. QED  BY <2>1, <2>2, <2>3
<1>. HIDE DEF Was, At
<1>6. Once(d)
  <2>. SUFFICES ASSUME NEW r \in Place, NEW s \in Place, NEW i \in DOMAIN Queue(d, r),
                       NEW j \in DOMAIN Queue(d, s), Queue(d, r)[i].id = Queue(d, s)[j].id
                PROVE  r = s /\ i = j
    BY DEF Once
  <2>1. Queue(w, Was(r, i))[At(r, i)].id = Queue(w, Was(s, j))[At(s, j)].id
    BY <1>3
  <2>2. Was(r, i) = Was(s, j) /\ At(r, i) = At(s, j)
    BY <1>3, <2>1 DEF Once
  <2>. QED  BY <1>4, <2>2
<1>7. WaitingIn(d) = WaitingIn(w)
  <2>1. ASSUME NEW id, id \in WaitingIn(d) PROVE id \in WaitingIn(w)
    BY <1>3, <2>1 DEF WaitingIn
  <2>2. ASSUME NEW id, id \in WaitingIn(w) PROVE id \in WaitingIn(d)
    BY <1>5, <2>2 DEF WaitingIn
  <2>. QED  BY <2>1, <2>2
<1>. QED  BY <1>6, <1>7

(* Nothing changes places, or the MSHRs are only put in another order.       *)
LEMMA Stay ==
  ASSUME NEW w \in CycleType, NEW d \in CycleType, Once(w),
         \A r \in Place : /\ DOMAIN Queue(d, r) = DOMAIN Queue(w, r)
                          /\ \A i \in DOMAIN Queue(w, r) : Queue(d, r)[i].id = Queue(w, r)[i].id
  PROVE  Once(d) /\ WaitingIn(d) = WaitingIn(w)
BY DEF Once, WaitingIn

(* f puts the places D in another order. *)
Permutes(f, D) ==
  /\ f \in [D -> D] /\ \A i, j \in D : f[i] = f[j] => i = j
  /\ \A i \in D : \E j \in D : f[j] = i
LEMMA Reordered ==
  ASSUME NEW w \in CycleType, NEW d \in CycleType, Once(w), NEW p \in Place,
         \A r \in Place : r # p => Queue(d, r) = Queue(w, r),
         NEW f, Permutes(f, DOMAIN Queue(w, p)), DOMAIN Queue(d, p) = DOMAIN Queue(w, p),
         \A i \in DOMAIN Queue(w, p) : Queue(d, p)[i] = Queue(w, p)[f[i]]
  PROVE  Once(d) /\ WaitingIn(d) = WaitingIn(w)
<1>. DEFINE At(r, i) == IF r = p THEN f[i] ELSE i
<1>. USE DEF Permutes
<1>1. \A r \in Place : \A i \in DOMAIN Queue(d, r) :
         At(r, i) \in DOMAIN Queue(w, r) /\ Queue(d, r)[i].id = Queue(w, r)[At(r, i)].id
  OBVIOUS
<1>2. \A r \in Place : \A i, j \in DOMAIN Queue(d, r) : At(r, i) = At(r, j) => i = j
  OBVIOUS
<1>3. \A r \in Place : \A i \in DOMAIN Queue(w, r) :
         \E j \in DOMAIN Queue(d, r) : Queue(d, r)[j].id = Queue(w, r)[i].id
  OBVIOUS
<1>. HIDE DEF At
<1>4. Once(d)
  <2>. SUFFICES ASSUME NEW r \in Place, NEW s \in Place, NEW i \in DOMAIN Queue(d, r),
                       NEW j \in DOMAIN Queue(d, s), Queue(d, r)[i].id = Queue(d, s)[j].id
                PROVE  r = s /\ i = j
    BY DEF Once
  <2>1. r = s /\ At(r, i) = At(s, j)
    BY <1>1 DEF Once
  <2>. QED  BY <1>2, <2>1
<1>5. WaitingIn(d) = WaitingIn(w)
  <2>1. ASSUME NEW id, id \in WaitingIn(d) PROVE id \in WaitingIn(w)
    <3>1. PICK r \in Place : \E i \in DOMAIN Queue(d, r) : Queue(d, r)[i].id = id
      BY <2>1 DEF WaitingIn
    <3>2. PICK i \in DOMAIN Queue(d, r) : Queue(d, r)[i].id = id
      BY <3>1
    <3>3. At(r, i) \in DOMAIN Queue(w, r) /\ Queue(w, r)[At(r, i)].id = id
      BY <1>1, <3>2
    <3>. QED  BY <2>1, <3>3 DEF WaitingIn
  <2>2. ASSUME NEW id, id \in WaitingIn(w) PROVE id \in WaitingIn(d)
    <3>1. PICK r \in Place : \E i \in DOMAIN Queue(w, r) : Queue(w, r)[i].id = id
      BY <2>2 DEF WaitingIn
    <3>2. PICK i \in DOMAIN Queue(w, r) : Queue(w, r)[i].id = id
      BY <3>1
    <3>3. PICK j \in DOMAIN Queue(d, r) : Queue(d, r)[j].id = id
      BY <1>3, <3>2
    <3>. QED  BY <2>2, <3>3 DEF WaitingIn
  <2>. QED  BY <2>1, <2>2
<1>. QED  BY <1>4, <1>5

-----------------------------------------------------------------------------
(* A walk that makes its read leaves the queue it waited in for the next     *)
(* MSHRs: common to the walks that go on (handle_fill) and those that begin  *)
(* (handle_read).                                                          *)
LEMMA BlockTyped ==
  ASSUME NEW a \in AddressType PROVE BlockOf(a) \in BlockType
BY DEF AddressType, BlockType, BlockOf, Slot

LEMMA BelowAdded ==
  ASSUME NEW B \in BelowType, NEW b \in BlockType
  PROVE  /\ B (+) SetToBag({b}) \in BelowType
         /\ BagIn(b, B (+) SetToBag({b}))
         /\ \A c : BagIn(c, B) => BagIn(c, B (+) SetToBag({b}))
<1>1. PICK D \in SUBSET BlockType : B \in [D -> Nat \ {0}]
  BY DEF BelowType
<1>2. B (+) SetToBag({b}) \in [D \cup {b} -> Nat \ {0}]
  BY <1>1 DEF (+), SetToBag
<1>3. B (+) SetToBag({b}) \in BelowType
  BY <1>2 DEF BelowType
<1>. QED  BY <1>3 DEF (+), SetToBag, BagIn, BagToSet

Sent(e) == [e EXCEPT !.data = NoAddress, !.ready_in = 0]

LEMMA SentTyped ==
  ASSUME NEW e \in WalkType
  PROVE  /\ Sent(e) \in WalkType /\ Sent(e).id = e.id /\ Sent(e).v = e.v
         /\ Sent(e).level = e.level /\ Sent(e).address = e.address
<1>1. NoAddress \in DataType
  BY VMemAssumption DEF NoAddress, DataType
<1>. QED  BY <1>1 DEF Sent, WalkType

LEMMA StepTranslationIs ==
  ASSUME NEW w \in CycleType, w.room # 0, NEW e \in WalkType, NEW d, d = StepTranslation(w, e)
  PROVE  /\ d \in CycleType
         /\ d.next = Append(w.next, Sent(e)) /\ d.below = w.below (+) SetToBag({BlockOf(e.address)})
         /\ d.room = w.room - 1 /\ d.vm = w.vm /\ d.RQ = w.RQ /\ d.MSHR = w.MSHR
         /\ d.finished = w.finished /\ d.completed = w.completed /\ d.pscl = w.pscl
         /\ d.answered = w.answered /\ d.fills = w.fills /\ d.reads = w.reads
<1>. DEFINE below1 == w.below (+) SetToBag({BlockOf(e.address)})
            next1 == Append(w.next, Sent(e))
<1>1. below1 \in BelowType
  BY BlockTyped, BelowAdded DEF CycleType, WalkType
<1>2. next1 \in Seq(WalkType)
  BY SentTyped DEF CycleType
<1>3. w.room - 1 \in Nat
  BY DEF CycleType
<1>4. d = [w EXCEPT !.below = below1, !.room = w.room - 1, !.next = next1]
  BY DEF StepTranslation, Sent
<1>. HIDE DEF below1, next1
<1>5. /\ d \in CycleType
      /\ d.next = next1 /\ d.below = below1
      /\ d.room = w.room - 1 /\ d.vm = w.vm /\ d.RQ = w.RQ /\ d.MSHR = w.MSHR
      /\ d.finished = w.finished /\ d.completed = w.completed /\ d.pscl = w.pscl
      /\ d.answered = w.answered /\ d.fills = w.fills /\ d.reads = w.reads
  BY <1>1, <1>2, <1>3, <1>4, ZenonT(60) DEF CycleType
<1>. QED  BY <1>5 DEF below1, next1

(* The walk at the head of p is sent as e. *)
PlaceNext == <<"walks", "next">>
LEMMA SentKeeps ==
  ASSUME NEW w, NEW came, Kept(w, came), NEW d \in CycleType,
         NEW p \in Place, p # PlaceNext, NEW e \in WalkType, ReadsPath(w.vm, e),
         Queue(w, p) # <<>>, e.id = Head(Queue(w, p)).id, Queue(d, p) = Tail(Queue(w, p)),
         \A r \in Place : r # p /\ r # PlaceNext => Queue(d, r) = Queue(w, r),
         d.vm = w.vm, d.next = Append(w.next, Sent(e)), d.answered = w.answered,
         d.below = w.below (+) SetToBag({BlockOf(e.address)}),
         d.MSHR = w.MSHR, d.completed = w.completed,
         \A i \in DOMAIN d.finished : HasRead(w.vm, d.finished[i]),
         \A l \in 1..TOP : \A i \in DOMAIN d.pscl[l] : Remembers(w.vm, l, d.pscl[l][i]),
         Sized(d)
  PROVE  Kept(d, came) /\ WaitingIn(d) = WaitingIn(w)
<1>1. w \in CycleType /\ Once(w) /\ WaitingIn(w) \cap w.answered = {}
  BY DEF Kept
<1>2. PlaceNext \in Place /\ Queue(w, PlaceNext) = w.next /\ Queue(d, PlaceNext) = d.next
  BY DEF Place, Queue, PlaceNext
<1>3. Once(d) /\ WaitingIn(d) = WaitingIn(w)
  BY <1>1, <1>2, Hop, SentTyped, SMTT(40)
<1>4. /\ \A i \in DOMAIN d.next : (i \in DOMAIN w.next /\ d.next[i] = w.next[i]) \/ d.next[i] = Sent(e)
      /\ w.next \in Seq(WalkType)
  BY <1>1, SentTyped, SMTT(40) DEF CycleType
<1>5. ReadsPath(w.vm, Sent(e))
  BY SentTyped DEF ReadsPath
<1>6. Paths(d)
  BY <1>4, <1>5 DEF Kept, Paths
<1>7. BlockOf(e.address) \in BlockType /\ w.below \in BelowType
  BY <1>1, BlockTyped DEF WalkType, CycleType
<1>8. Awaits(d, came)
  BY <1>4, <1>7, BelowAdded, SentTyped, ZenonT(60) DEF Kept, Awaits
<1>. QED  BY <1>1, <1>3, <1>6, <1>8 DEF Kept
-----------------------------------------------------------------------------
(* The PSCLs: a table keeps what it was given, in some order.                *)
LEMMA UsedIs ==
  ASSUME NEW S, NEW table \in Seq(S), NEW i \in DOMAIN table
  PROVE  Used(table, i) \in Seq(S) /\ Len(Used(table, i)) = Len(table)
<1>. DEFINE a == SubSeq(table, 1, i - 1)
            b == SubSeq(table, i + 1, Len(table))
<1>1. i \in 1..Len(table) /\ Len(table) \in Nat /\ table[i] \in S
  OBVIOUS
<1>2. a \in Seq(S) /\ Len(a) = i - 1
  BY <1>1, SubSeqProperties
<1>3. b \in Seq(S) /\ Len(b) = Len(table) - i
  BY <1>1, SubSeqProperties
<1>4. Used(table, i) = (<<table[i]>> \o a) \o b
  BY DEF Used, DropFirst
<1>. HIDE DEF a, b
<1>5. <<table[i]>> \o a \in Seq(S) /\ Len(<<table[i]>> \o a) = i
  BY <1>1, <1>2
<1>. QED  BY <1>1, <1>3, <1>4, <1>5

LEMMA TouchedIs ==
  ASSUME NEW S, NEW table \in Seq(S), NEW v, NEW l
  PROVE  Touched(table, v, l) \in Seq(S) /\ Len(Touched(table, v, l)) = Len(table)
<1>1. CASE PsclHit(table, v, l) = {}
  BY <1>1 DEF Touched
<1>2. CASE PsclHit(table, v, l) # {}
  <2>1. PICK i : i = CHOOSE j \in PsclHit(table, v, l) : TRUE
    OBVIOUS
  <2>2. i \in DOMAIN table
    BY <1>2, <2>1 DEF PsclHit
  <2>3. Touched(table, v, l) = Used(table, i)
    BY <1>2, <2>1 DEF Touched
  <2>. QED  BY <2>2, <2>3, UsedIs
<1>. QED  BY <1>1, <1>2

LEMMA FilledIs ==
  ASSUME NEW S, NEW table \in Seq(S), NEW v, NEW l, NEW x \in S
  PROVE  Filled(table, v, l, x) \in Seq(S) /\ Len(Filled(table, v, l, x)) <= PSCL_WAYS
<1>. DEFINE others == IF PsclHit(table, v, l) = {} THEN table ELSE Tail(Touched(table, v, l))
            n == IF Len(others) < PSCL_WAYS THEN Len(others) ELSE PSCL_WAYS - 1
<1>1. others \in Seq(S)
  <2>1. CASE PsclHit(table, v, l) = {}
    BY <2>1
  <2>2. CASE PsclHit(table, v, l) # {}
    <3>1. Len(table) > 0
      BY <2>2 DEF PsclHit
    <3>2. PICK t : t = Touched(table, v, l)
      OBVIOUS
    <3>3. t \in Seq(S) /\ t # <<>>
      BY <3>1, <3>2, TouchedIs
    <3>. QED  BY <2>2, <3>2, <3>3
  <2>. QED  BY <2>1, <2>2
<1>2. PSCL_WAYS \in Nat /\ PSCL_WAYS > 0
  BY WalkerAssumption
<1>3. Filled(table, v, l, x) = <<x>> \o SubSeq(others, 1, n)
  BY DEF Filled
<1>. HIDE DEF others
<1>4. n \in 0..Len(others) /\ n < PSCL_WAYS
  BY <1>1, <1>2
<1>. HIDE DEF n
<1>5. SubSeq(others, 1, n) \in Seq(S) /\ Len(SubSeq(others, 1, n)) = n
  BY <1>1, <1>4, SubSeqProperties
<1>. QED  BY <1>2, <1>3, <1>4, <1>5

(* The entries of the PSCL of a level that are right. *)
RightEntries(m, l) == {x \in PsclType : Remembers(m, l, x)}
LEMMA PsclsRight ==
  ASSUME NEW w, NEW came, Kept(w, came), NEW l \in 1..TOP
  PROVE  w.pscl[l] \in Seq(RightEntries(w.vm, l)) /\ Len(w.pscl[l]) <= PSCL_WAYS
<1>1. w.pscl[l] \in Seq(PsclType) /\ Len(w.pscl[l]) <= PSCL_WAYS
  BY DEF Kept, CycleType, Sized
<1>2. \A i \in DOMAIN w.pscl[l] : w.pscl[l][i] \in RightEntries(w.vm, l)
  BY <1>1 DEF RightEntries, Kept, Paths
<1>. PICK q : q = w.pscl[l]
  OBVIOUS
<1>3. q \in Seq(RightEntries(w.vm, l))
  BY <1>1, <1>2
<1>. QED  BY <1>1, <1>3

(* The first finished walk goes on. *)
WithFinished(w, q) == [w EXCEPT !.finished = q]
LEMMA HandleFillKeeps ==
  ASSUME NEW w, NEW came, Kept(w, came), w.finished # <<>>, w.room # 0,
         NEW u, u = HandleFill(w, Head(w.finished)), NEW d, d = WithFinished(u, Tail(w.finished))
  PROVE  /\ Kept(d, came) /\ WaitingIn(d) = WaitingIn(w)
         /\ d.finished = Tail(w.finished) /\ d.room = w.room - 1
         /\ d.answered = w.answered /\ d.RQ = w.RQ /\ d.reads = w.reads /\ d.fills = w.fills
<1>. DEFINE e == Head(w.finished)
            next == [e EXCEPT !.address = e.data, !.level = e.level - 1]
            x == [v |-> e.v, address |-> e.data]
            table == Filled(w.pscl[e.level], e.v, e.level, x)
            w1 == [w EXCEPT !.pscl[e.level] = table]
            w2 == StepTranslation(w1, next)
<1>1. /\ w \in CycleType /\ e \in WalkType /\ HasRead(w.vm, e) /\ w.vm \in VMType
      /\ w.finished \in Seq(WalkType)
      /\ \A i \in DOMAIN w.finished : HasRead(w.vm, w.finished[i])
  <2>1. /\ w \in CycleType /\ w.vm \in VMType /\ w.finished \in Seq(WalkType)
        /\ \A i \in DOMAIN w.finished : HasRead(w.vm, w.finished[i])
    BY DEF Kept, Paths, CycleType
  <2>2. e = w.finished[1] /\ 1 \in DOMAIN w.finished
    BY <2>1
  <2>. QED  BY <2>1, <2>2
<1>. HIDE DEF e
<1>2. /\ e.level \in 1..TOP /\ e.v \in VPage /\ e.v[e.level] \in Offset
      /\ ~TableFault(w.vm, CPU, e.v, e.level)
      /\ e.data = Entry(w.vm, CPU, e.v, e.level) /\ e.data \in AddressType
  <2>1. e.level \in 1..TOP /\ e.v \in VPage
    BY <1>1, LevelsAre DEF WalkType, HasRead
  <2>2. e.v[e.level] \in Offset /\ e.level \in Level
    BY <2>1, LevelsAre
  <2>3. ~TableFault(w.vm, CPU, e.v, e.level) /\ e.data = Entry(w.vm, CPU, e.v, e.level)
    BY <1>1 DEF HasRead
  <2>. QED  BY <1>1, <2>1, <2>2, <2>3, EntryTyped
<1>3. /\ next \in WalkType /\ next.id = e.id /\ next.v = e.v /\ next.level = e.level - 1
      /\ next.address = e.data
  <2>1. e.level - 1 \in 0..TOP
    BY <1>2, LevelsAre
  <2>. QED  BY <1>1, <1>2, <2>1 DEF WalkType
<1>4. ReadsPath(w.vm, next)
  <2>1. next.level + 1 = e.level /\ next.level \in Int
    BY <1>2, <1>3, LevelsAre
  <2>. HIDE DEF next
  <2>. QED  BY <1>2, <1>3, <2>1 DEF ReadsPath
<1>5. x \in RightEntries(w.vm, e.level)
  BY <1>2 DEF RightEntries, PsclType, Remembers
<1>. HIDE DEF next, x
<1>6. table \in Seq(RightEntries(w.vm, e.level)) /\ Len(table) <= PSCL_WAYS
  BY <1>2, <1>5, PsclsRight, FilledIs
<1>7. table \in Seq(PsclType) /\ \A i \in DOMAIN table : Remembers(w.vm, e.level, table[i])
  BY <1>6 DEF RightEntries
<1>. HIDE DEF table
<1>8. /\ w1 \in CycleType /\ w1.room = w.room
      /\ w1.next = w.next /\ w1.below = w.below /\ w1.vm = w.vm /\ w1.RQ = w.RQ
      /\ w1.MSHR = w.MSHR /\ w1.finished = w.finished /\ w1.completed = w.completed
      /\ w1.answered = w.answered /\ w1.fills = w.fills /\ w1.reads = w.reads
      /\ w1.pscl[e.level] = table /\ \A l \in 1..TOP : l # e.level => w1.pscl[l] = w.pscl[l]
  BY <1>1, <1>2, <1>7 DEF CycleType
<1>9. HandleFill(w, e) = w2
  BY DEF HandleFill, next, x, table
<1>. HIDE DEF w1
<1>10. /\ w2 \in CycleType
       /\ w2.next = Append(w1.next, Sent(next)) /\ w2.below = w1.below (+) SetToBag({BlockOf(next.address)})
       /\ w2.room = w1.room - 1 /\ w2.vm = w1.vm /\ w2.RQ = w1.RQ /\ w2.MSHR = w1.MSHR
       /\ w2.finished = w1.finished /\ w2.completed = w1.completed /\ w2.pscl = w1.pscl
       /\ w2.answered = w1.answered /\ w2.fills = w1.fills /\ w2.reads = w1.reads
  BY <1>3, <1>8, StepTranslationIs
<1>. HIDE DEF w2
<1>11. Tail(w.finished) \in Seq(WalkType)
  BY <1>1
<1>12. /\ d \in CycleType /\ d.finished = Tail(w.finished)
       /\ d.next = w2.next /\ d.below = w2.below /\ d.room = w2.room /\ d.vm = w2.vm
       /\ d.RQ = w2.RQ /\ d.MSHR = w2.MSHR /\ d.completed = w2.completed /\ d.pscl = w2.pscl
       /\ d.answered = w2.answered /\ d.fills = w2.fills /\ d.reads = w2.reads
  <2>1. d = [w2 EXCEPT !.finished = Tail(w.finished)]
    BY <1>9 DEF e, WithFinished
  <2>. QED  BY <1>10, <1>11, <2>1, ZenonT(60) DEF CycleType
<1>13. /\ \A l \in 1..TOP : \A i \in DOMAIN d.pscl[l] : Remembers(w.vm, l, d.pscl[l][i])
       /\ Sized(d)
  <2>1. /\ d.pscl[e.level] = table /\ \A l \in 1..TOP : l # e.level => d.pscl[l] = w.pscl[l]
        /\ d.RQ = w.RQ
    BY <1>8, <1>10, <1>12
  <2>2. /\ \A l \in 1..TOP : \A i \in DOMAIN w.pscl[l] : Remembers(w.vm, l, w.pscl[l][i])
        /\ Sized(w)
    BY DEF Kept, Paths
  <2>3. ASSUME NEW l \in 1..TOP
        PROVE  /\ \A i \in DOMAIN d.pscl[l] : Remembers(w.vm, l, d.pscl[l][i])
               /\ Len(d.pscl[l]) <= PSCL_WAYS
    <3>1. CASE l = e.level
      BY <1>6, <1>7, <2>1, <3>1
    <3>2. CASE l # e.level
      BY <2>1, <2>2, <3>2 DEF Sized
    <3>. QED  BY <3>1, <3>2
  <2>. QED  BY <2>1, <2>2, <2>3 DEF Sized
<1>14. \A i \in DOMAIN d.finished : HasRead(w.vm, d.finished[i])
  <2>. PICK q : q = w.finished
    OBVIOUS
  <2>1. q \in Seq(WalkType) /\ q # <<>> /\ d.finished = Tail(q)
    BY <1>1, <1>12
  <2>2. \A i \in DOMAIN Tail(q) : i + 1 \in DOMAIN q /\ Tail(q)[i] = q[i + 1]
    BY <2>1
  <2>. QED  BY <1>1, <2>1, <2>2
<1>. DEFINE p == <<"walks", "finished">>
<1>15. /\ p \in Place /\ p # PlaceNext /\ Queue(w, p) = w.finished /\ Queue(d, p) = d.finished
       /\ \A r \in Place : r # p /\ r # PlaceNext => Queue(d, r) = Queue(w, r)
  <2>1. p \in Place /\ p # PlaceNext /\ Queue(w, p) = w.finished /\ Queue(d, p) = d.finished
    BY DEF Place, PlaceNext, Queue
  <2>2. ASSUME NEW r \in Place, r # p, r # PlaceNext PROVE Queue(d, r) = Queue(w, r)
    <3>1. r = <<r[1], r[2]>> /\ (r[1] = "walks" => r[2] \in {"MSHR", "completed"})
      BY <2>2 DEF Place, PlaceNext
    <3>2. d.RQ = w.RQ /\ d.MSHR = w.MSHR /\ d.completed = w.completed
      BY <1>8, <1>10, <1>12
    <3>3. CASE r[1] = "walks"
      BY <3>1, <3>2, <3>3 DEF Queue
    <3>4. CASE r[1] # "walks"
      BY <3>2, <3>4 DEF Queue
    <3>. QED  BY <3>3, <3>4
  <2>. QED  BY <2>1, <2>2
<1>. HIDE DEF p
<1>16. Kept(d, came) /\ WaitingIn(d) = WaitingIn(w)
  <2>1. /\ d.vm = w.vm /\ d.next = Append(w.next, Sent(next)) /\ d.answered = w.answered
        /\ d.below = w.below (+) SetToBag({BlockOf(next.address)})
        /\ d.MSHR = w.MSHR /\ d.completed = w.completed /\ d \in CycleType
    BY <1>8, <1>10, <1>12
  <2>2. /\ Queue(w, p) # <<>> /\ next.id = Head(Queue(w, p)).id /\ Queue(d, p) = Tail(Queue(w, p))
    BY <1>3, <1>12, <1>15 DEF e
  <2>. QED  BY <1>3, <1>4, <1>13, <1>14, <1>15, <2>1, <2>2, SentKeeps
<1>. QED  BY <1>8, <1>10, <1>12, <1>16

(* What handle_fill leaves in the PSCLs, whether or not there is room below. *)
RightPscls(m, t) ==
  /\ t \in [1..TOP -> Seq(PsclType)]
  /\ \A l \in 1..TOP : Len(t[l]) <= PSCL_WAYS /\ \A i \in DOMAIN t[l] : Remembers(m, l, t[l][i])

LEMMA PsclsChanged ==
  ASSUME NEW w, NEW came, Kept(w, came), NEW d \in CycleType, RightPscls(w.vm, d.pscl),
         d.vm = w.vm, d.RQ = w.RQ, d.MSHR = w.MSHR, d.finished = w.finished,
         d.completed = w.completed, d.below = w.below, d.answered = w.answered, d.next = w.next
  PROVE  Kept(d, came) /\ WaitingIn(d) = WaitingIn(w)
<1>1. w \in CycleType /\ Once(w)
  BY DEF Kept
<1>2. \A r \in Place : Queue(d, r) = Queue(w, r)
  BY DEF Place, Queue
<1>3. Once(d) /\ WaitingIn(d) = WaitingIn(w)
  BY <1>1, <1>2, Stay
<1>4. Paths(d) /\ Sized(d)
  BY DEF Kept, Paths, Sized, RightPscls
<1>5. Awaits(d, came)
  BY DEF Kept, Awaits
<1>. QED  BY <1>3, <1>4, <1>5 DEF Kept

LEMMA HandleFillPscls ==
  ASSUME NEW w, NEW came, Kept(w, came), w.finished # <<>>
  PROVE  RightPscls(w.vm, HandleFill(w, Head(w.finished)).pscl)
<1>. DEFINE e == Head(w.finished)
            x == [v |-> e.v, address |-> e.data]
            table == Filled(w.pscl[e.level], e.v, e.level, x)
            w1 == [w EXCEPT !.pscl[e.level] = table]
<1>1. /\ w \in CycleType /\ e \in WalkType /\ HasRead(w.vm, e) /\ w.vm \in VMType
  <2>1. /\ w \in CycleType /\ w.vm \in VMType /\ w.finished \in Seq(WalkType)
        /\ \A i \in DOMAIN w.finished : HasRead(w.vm, w.finished[i])
    BY DEF Kept, Paths, CycleType
  <2>2. e = w.finished[1] /\ 1 \in DOMAIN w.finished
    BY <2>1
  <2>. QED  BY <2>1, <2>2
<1>2. /\ e.level \in 1..TOP /\ e.v \in VPage
      /\ ~TableFault(w.vm, CPU, e.v, e.level)
      /\ e.data = Entry(w.vm, CPU, e.v, e.level) /\ e.data \in AddressType
  <2>. HIDE DEF e
  <2>1. e.level \in 1..TOP /\ e.v \in VPage
    BY <1>1, LevelsAre DEF WalkType, HasRead
  <2>2. e.v[e.level] \in Offset /\ e.level \in Level
    BY <2>1, LevelsAre
  <2>3. ~TableFault(w.vm, CPU, e.v, e.level) /\ e.data = Entry(w.vm, CPU, e.v, e.level)
    BY <1>1 DEF HasRead
  <2>. QED  BY <1>1, <2>1, <2>2, <2>3, EntryTyped
<1>. HIDE DEF e
<1>4. x \in RightEntries(w.vm, e.level)
  BY <1>2 DEF RightEntries, PsclType, Remembers
<1>. HIDE DEF x
<1>5. table \in Seq(RightEntries(w.vm, e.level)) /\ Len(table) <= PSCL_WAYS
  BY <1>2, <1>4, PsclsRight, FilledIs
<1>6. table \in Seq(PsclType) /\ \A i \in DOMAIN table : Remembers(w.vm, e.level, table[i])
  BY <1>5 DEF RightEntries
<1>. HIDE DEF table
<1>7. /\ w.pscl \in [1..TOP -> Seq(PsclType)]
      /\ \A l \in 1..TOP : Len(w.pscl[l]) <= PSCL_WAYS
                           /\ \A i \in DOMAIN w.pscl[l] : Remembers(w.vm, l, w.pscl[l][i])
  BY DEF Kept, CycleType, Sized, Paths
<1>8. RightPscls(w.vm, [w.pscl EXCEPT ![e.level] = table])
  BY <1>2, <1>5, <1>6, <1>7 DEF RightPscls
<1>9. w1 \in CycleType /\ w1.pscl = [w.pscl EXCEPT ![e.level] = table]
  BY <1>1, <1>2, <1>6 DEF CycleType
<1>10. HandleFill(w, e) = StepTranslation(w1, [e EXCEPT !.address = e.data, !.level = e.level - 1])
  BY DEF HandleFill, x, table
<1>. HIDE DEF w1
<1>11. \A y : StepTranslation(w1, y).pscl = w1.pscl
  BY <1>9 DEF StepTranslation, CycleType
<1>. QED  BY <1>8, <1>9, <1>10, <1>11 DEF e

-----------------------------------------------------------------------------
(* The loops of a cycle: the record after each round.                        *)

LEMMA FirstFound ==
  ASSUME NEW S, S \subseteq Nat, S # {}
  PROVE  Least(S) \in S /\ \A y \in S : Least(S) <= y
<1>. DEFINE R == OpToRel(<, Nat)
<1>1. \A x, y \in Nat : x < y => <<x, y>> \in R
  BY DEF OpToRel
<1>2. IsWellFoundedOn(R, Nat)
  BY NatLessThanWellFounded
<1>. HIDE DEF R
<1>3. PICK x \in S : \A y \in S : <<y, x>> \notin R
  BY <1>2, WFMin
<1>4. \A y \in S : ~(y < x)
  BY <1>1, <1>3
<1>5. \A y \in S : x <= y
  BY <1>4
<1>. QED  BY <1>5 DEF Least

FinishWalk(w, e) == IF e.level = 0 THEN FinishedLastStep(w, e) ELSE FinishedStep(w, e)
Step(k, w, x) ==
  CASE k = "fill" -> HandleFill(w, x)
    [] k = "read" -> HandleRead(w, x)
    [] k = "level" -> Read(w, x)
    [] k = "walk" -> FinishWalk(w, x)
    [] OTHER -> FinishPacket(w, x)
Loop(f, N, k, w, q) ==
  f = [i \in 0..N |-> IF i = 0 THEN w ELSE Step(k, f[i - 1], q[i])]

LEMMA LoopExists ==
  ASSUME NEW k, NEW w, NEW q, NEW N \in Nat
  PROVE  \E f : Loop(f, N, k, w, q)
<1>. DEFINE S == {n \in Nat : ~\E f : Loop(f, n, k, w, q)}
<1>1. SUFFICES ASSUME S # {} PROVE FALSE
  OBVIOUS
<1>. DEFINE n == Least(S)
<1>2. n \in S /\ \A m \in S : n <= m
  BY <1>1, FirstFound
<1>3. n \in Nat /\ ~\E f : Loop(f, n, k, w, q)
  BY <1>2
<1>4. n # 0
  <2>1. Loop([i \in 0..0 |-> w], 0, k, w, q)
    BY DEF Loop
  <2>. QED  BY <2>1, <1>3
<1>5. n - 1 \in Nat /\ n - 1 \notin S
  <2>. HIDE DEF n
  <2>1. n - 1 \in Nat /\ ~(n <= n - 1)
    BY <1>3, <1>4
  <2>. QED  BY <2>1, <1>2
<1>. HIDE DEF n
<1>6. PICK f : Loop(f, n - 1, k, w, q)
  BY <1>5
<1>. HIDE DEF S
<1>. DEFINE V(h, m) == IF m = 0 THEN w ELSE Step(k, h[m - 1], q[m])
            g == [m \in 0..n |-> IF m < n THEN f[m] ELSE V(f, n)]
<1>7. \A m \in 0..n - 1 : f[m] = V(f, m)
  <2>1. f = [m \in 0..n - 1 |-> V(f, m)]
    BY <1>6 DEF Loop
  <2>. QED  BY <2>1
<1>8. \A m \in 0..n : m # 0 => g[m - 1] = f[m - 1]
  BY <1>3
<1>9. \A m \in 0..n : V(g, m) = V(f, m)
  BY <1>8
<1>10. ASSUME NEW m \in 0..n PROVE g[m] = V(f, m)
  <2>1. CASE m < n
    <3>1. m \in 0..n - 1
      BY <2>1, <1>3
    <3>. QED  BY <2>1, <3>1, <1>7
  <2>2. CASE ~(m < n)
    <3>1. m = n
      BY <2>2, <1>3
    <3>2. g[n] = V(f, n)
      BY <1>3
    <3>. QED  BY <3>1, <3>2
  <2>. QED  BY <2>1, <2>2
<1>11. g = [m \in 0..n |-> g[m]]
  OBVIOUS
<1>. HIDE DEF g
<1>12. g = [m \in 0..n |-> V(g, m)]
  <2>1. \A m \in 0..n : g[m] = V(g, m)
    BY <1>9, <1>10
  <2>. HIDE DEF V
  <2>. QED  BY <1>11, <2>1
<1>13. Loop(g, n, k, w, q)
  BY <1>12 DEF Loop
<1>. QED  BY <1>13, <1>3

LEMMA LoopRounds ==
  ASSUME NEW k, NEW w, NEW q, NEW N \in Nat, NEW f, Loop(f, N, k, w, q)
  PROVE  f[0] = w /\ \A i \in 1..N : f[i] = Step(k, f[i - 1], q[i])
<1>. DEFINE V(i) == IF i = 0 THEN w ELSE Step(k, f[i - 1], q[i])
<1>1. f = [i \in 0..N |-> V(i)]
  BY DEF Loop
<1>2. V(0) = w /\ \A i \in 1..N : V(i) = Step(k, f[i - 1], q[i])
  OBVIOUS
<1>. HIDE DEF V
<1>3. \A i \in 0..N : f[i] = V(i)
  BY <1>1
<1>. QED  BY <1>2, <1>3

(* A prefix that is ready is there.                                         *)
LEMMA ReadyPrefixIs ==
  ASSUME NEW q \in Seq(WalkType), NEW max \in Nat
  PROVE  ReadyPrefix(q, max) \in 0..Len(q) /\ ReadyPrefix(q, max) <= max
<1>. DEFINE S == {n \in 0..Len(q) : n = Len(q) \/ n = max \/ q[n + 1].ready_in > 0}
            n == Least(S)
<1>1. Len(q) \in Nat /\ S \subseteq Nat /\ Len(q) \in S
  OBVIOUS
<1>2. n \in S /\ \A m \in S : n <= m
  <2>. HIDE DEF S
  <2>. QED  BY <1>1, FirstFound
<1>. HIDE DEF n
<1>3. \A i \in 1..n : i - 1 \notin S
  <2>1. \A i \in 1..n : ~(n <= i - 1)
    BY <1>2
  <2>. QED  BY <1>2, <2>1
<1>4. \A i \in 1..n : i \in DOMAIN q /\ q[i].ready_in <= 0
  <2>1. ASSUME NEW i \in 1..n PROVE i \in DOMAIN q /\ q[i].ready_in <= 0
    <3>1. i \in 1..Len(q) /\ i - 1 \in 0..Len(q)
      BY <1>1, <1>2
    <3>2. ~(q[(i - 1) + 1].ready_in > 0)
      BY <1>3, <3>1
    <3>3. q[i].ready_in \in Nat
      <4>1. q[i] \in WalkType
        BY <3>1
      <4>. QED  BY <4>1 DEF WalkType
    <3>. QED  BY <3>1, <3>2, <3>3
  <2>. QED  BY <2>1
<1>5. n <= max
  <2>. SUFFICES ASSUME max < n PROVE FALSE
    BY <1>1, <1>2
  <2>1. max + 1 \in 1..n /\ (max + 1) - 1 = max /\ max \in 0..Len(q)
    BY <1>2
  <2>2. max \notin S
    BY <1>3, <2>1
  <2>. QED  BY <2>1, <2>2
<1>6. /\ n \in 0..Len(q) /\ n <= max
      /\ \A i \in 1..n : q[i].ready_in <= 0
      /\ n = Len(q) \/ n = max \/ q[n + 1].ready_in > 0
  BY <1>2, <1>4, <1>5
<1>. QED  BY <1>6 DEF ReadyPrefix
-----------------------------------------------------------------------------
(* What the handlers do to each field of the record.                         *)
LEMMA CycleRecord ==
  ASSUME NEW w \in CycleType
  PROVE  w = [vm |-> w.vm, RQ |-> w.RQ, MSHR |-> w.MSHR, finished |-> w.finished,
              completed |-> w.completed, pscl |-> w.pscl, below |-> w.below,
              answered |-> w.answered, next |-> w.next, room |-> w.room, fills |-> w.fills,
              reads |-> w.reads]
BY DEF CycleType

LEMMA HandleFillRecord ==
  ASSUME NEW w \in CycleType, NEW e \in WalkType
  PROVE  HandleFill(w, e) =
           [vm |-> w.vm, RQ |-> w.RQ, MSHR |-> w.MSHR, finished |-> w.finished,
            completed |-> w.completed,
            pscl |-> [w.pscl EXCEPT ![e.level] = Filled(w.pscl[e.level], e.v, e.level, [v |-> e.v, address |-> e.data])],
            below |-> w.below (+) SetToBag({BlockOf(e.data)}),
            answered |-> w.answered,
            next |-> Append(w.next, Sent([e EXCEPT !.address = e.data, !.level = e.level - 1])),
            room |-> w.room - 1, fills |-> w.fills, reads |-> w.reads]
<1>. DEFINE filled == [w.pscl EXCEPT ![e.level] = Filled(w.pscl[e.level], e.v, e.level, [v |-> e.v, address |-> e.data])]
            w1 == [w EXCEPT !.pscl = filled]
            next == [e EXCEPT !.address = e.data, !.level = e.level - 1]
<1>1. HandleFill(w, e) = [w1 EXCEPT !.below = @ (+) SetToBag({BlockOf(next.address)}), !.room = @ - 1,
                                    !.next = Append(@, Sent(next))]
  BY DEF HandleFill, StepTranslation, Sent
<1>2. next.address = e.data
  BY DEF WalkType
<1>. HIDE DEF filled, next
<1>3. w1 = [vm |-> w.vm, RQ |-> w.RQ, MSHR |-> w.MSHR, finished |-> w.finished,
            completed |-> w.completed, pscl |-> filled, below |-> w.below,
            answered |-> w.answered, next |-> w.next, room |-> w.room, fills |-> w.fills,
            reads |-> w.reads]
  BY CycleRecord
<1>. HIDE DEF w1
<1>4. HandleFill(w, e) =
        [vm |-> w.vm, RQ |-> w.RQ, MSHR |-> w.MSHR, finished |-> w.finished,
         completed |-> w.completed, pscl |-> filled,
         below |-> w.below (+) SetToBag({BlockOf(e.data)}),
         answered |-> w.answered, next |-> Append(w.next, Sent(next)), room |-> w.room - 1,
         fills |-> w.fills, reads |-> w.reads]
  BY <1>1, <1>2, <1>3, ZenonT(60)
<1>. QED  BY <1>4 DEF filled, next

(* A handler does not look at the queue its walk came from. *)
LEMMA HandleFillApart ==
  ASSUME NEW w \in CycleType, NEW e \in WalkType, NEW q \in Seq(WalkType),
         NEW v, v = WithFinished(w, q)
  PROVE  /\ HandleFill(v, e) = WithFinished(HandleFill(w, e), q)
         /\ HandleFill(w, e) = WithFinished(HandleFill(v, e), w.finished)
         /\ LET d == HandleFill(w, e)
            IN  /\ d.finished = w.finished /\ d.room = w.room - 1 /\ d.vm = w.vm /\ d.RQ = w.RQ
                /\ d.MSHR = w.MSHR /\ d.completed = w.completed /\ d.answered = w.answered
                /\ d.fills = w.fills /\ d.reads = w.reads
<1>. DEFINE p == [w.pscl EXCEPT ![e.level] = Filled(w.pscl[e.level], e.v, e.level, [v |-> e.v, address |-> e.data])]
            b == w.below (+) SetToBag({BlockOf(e.data)})
            x == Append(w.next, Sent([e EXCEPT !.address = e.data, !.level = e.level - 1]))
            d == HandleFill(w, e)
            c == HandleFill(v, e)
<1>1. /\ v \in CycleType /\ v.finished = q /\ v.room = w.room /\ v.vm = w.vm /\ v.RQ = w.RQ
      /\ v.MSHR = w.MSHR /\ v.completed = w.completed /\ v.pscl = w.pscl /\ v.below = w.below
      /\ v.answered = w.answered /\ v.next = w.next /\ v.fills = w.fills /\ v.reads = w.reads
  BY DEF CycleType, WithFinished
<1>2. d = [vm |-> w.vm, RQ |-> w.RQ, MSHR |-> w.MSHR, finished |-> w.finished,
           completed |-> w.completed, pscl |-> p, below |-> b, answered |-> w.answered,
           next |-> x, room |-> w.room - 1, fills |-> w.fills, reads |-> w.reads]
  BY HandleFillRecord
<1>3. c = [vm |-> v.vm, RQ |-> v.RQ, MSHR |-> v.MSHR, finished |-> v.finished,
           completed |-> v.completed, pscl |-> p, below |-> b, answered |-> v.answered,
           next |-> x, room |-> v.room - 1, fills |-> v.fills, reads |-> v.reads]
  BY <1>1, HandleFillRecord, ZenonT(60)
<1>. HIDE DEF p, b, x, d, c
<1>4. c = WithFinished(d, q) /\ d = WithFinished(c, w.finished)
  BY <1>1, <1>2, <1>3 DEF WithFinished
<1>5. /\ d.finished = w.finished /\ d.room = w.room - 1 /\ d.vm = w.vm /\ d.RQ = w.RQ
      /\ d.MSHR = w.MSHR /\ d.completed = w.completed /\ d.answered = w.answered
      /\ d.fills = w.fills /\ d.reads = w.reads
  BY <1>2
<1>. QED  BY <1>4, <1>5 DEF d, c

LEMMA DropFirstIs ==
  ASSUME NEW S, NEW q \in Seq(S), NEW i \in 0..Len(q)
  PROVE  /\ DropFirst(q, i) \in Seq(S) /\ Len(DropFirst(q, i)) = Len(q) - i
         /\ \A j \in 1..(Len(q) - i) : DropFirst(q, i)[j] = q[i + j]
         /\ DropFirst(q, 0) = q
         /\ i < Len(q) => /\ DropFirst(q, i) # <<>> /\ Head(DropFirst(q, i)) = q[i + 1]
                          /\ Tail(DropFirst(q, i)) = DropFirst(q, i + 1)
<1>1. /\ DropFirst(q, i) \in Seq(S) /\ Len(DropFirst(q, i)) = Len(q) - i
      /\ \A j \in 1..(Len(q) - i) : DropFirst(q, i)[j] = q[i + j]
  BY DEF DropFirst
<1>2. DropFirst(q, 0) = q
  BY DEF DropFirst
<1>3. ASSUME i < Len(q)
      PROVE  /\ DropFirst(q, i) # <<>> /\ Head(DropFirst(q, i)) = q[i + 1]
             /\ Tail(DropFirst(q, i)) = DropFirst(q, i + 1)
  <2>1. DropFirst(q, i) # <<>> /\ Head(DropFirst(q, i)) = q[i + 1]
    BY <1>1, <1>3
  <2>. PICK r, s : r = DropFirst(q, i) /\ s = DropFirst(q, i + 1)
    OBVIOUS
  <2>2. /\ s \in Seq(S) /\ Len(s) = Len(q) - (i + 1)
        /\ \A j \in 1..(Len(q) - (i + 1)) : s[j] = q[i + 1 + j]
    BY <1>3 DEF DropFirst
  <2>3. /\ r \in Seq(S) /\ r # <<>> /\ Len(r) = Len(q) - i
        /\ \A j \in 1..(Len(q) - i) : r[j] = q[i + j]
    BY <1>1, <2>1
  <2>4. /\ Tail(r) \in Seq(S) /\ Len(Tail(r)) = Len(s)
        /\ \A j \in 1..Len(s) : Tail(r)[j] = r[j + 1]
    BY <2>2, <2>3
  <2>5. \A j \in 1..Len(s) : Tail(r)[j] = s[j]
    <3>1. ASSUME NEW j \in 1..Len(s) PROVE Tail(r)[j] = s[j]
      <4>1. j \in 1..(Len(q) - (i + 1)) /\ j + 1 \in 1..(Len(q) - i) /\ i + (j + 1) = i + 1 + j
        BY <2>2
      <4>. QED  BY <2>2, <2>3, <2>4, <4>1
    <3>. QED  BY <3>1
  <2>6. Tail(r) = s
    BY <2>2, <2>4, <2>5, SeqEqual
  <2>. QED  BY <2>1, <2>6
<1>. QED  BY <1>1, <1>2, <1>3

LEMMA Dropped ==
  ASSUME NEW S, NEW q \in Seq(S), NEW n \in 0..Len(q), NEW r, r = DropFirst(q, n)
  PROVE  \A i \in DOMAIN r : n + i \in DOMAIN q /\ ~(n + i <= n) /\ r[i] = q[n + i]
<1>1. /\ r \in Seq(S) /\ Len(r) = Len(q) - n
      /\ \A j \in 1..(Len(q) - n) : r[j] = q[n + j]
  BY DEF DropFirst
<1>2. ASSUME NEW i \in DOMAIN r PROVE n + i \in DOMAIN q /\ ~(n + i <= n) /\ r[i] = q[n + i]
  <2>1. i \in 1..(Len(q) - n) /\ r[i] = q[n + i]
    BY <1>1
  <2>. QED  BY <2>1
<1>. QED  BY <1>2

LEMMA DropNext ==
  ASSUME NEW S, NEW q \in Seq(S), NEW i \in 1..Len(q)
  PROVE  /\ q[i] \in S /\ DropFirst(q, i - 1) \in Seq(S) /\ DropFirst(q, i - 1) # <<>>
         /\ Head(DropFirst(q, i - 1)) = q[i]
         /\ Tail(DropFirst(q, i - 1)) = DropFirst(q, i) /\ DropFirst(q, i) \in Seq(S)
<1>. PICK j : j = i - 1
  OBVIOUS
<1>1. j \in 0..Len(q) /\ j < Len(q) /\ j + 1 = i /\ q[i] \in S /\ i \in 0..Len(q)
  OBVIOUS
<1>2. /\ DropFirst(q, j) \in Seq(S) /\ DropFirst(q, j) # <<>> /\ Head(DropFirst(q, j)) = q[j + 1]
      /\ Tail(DropFirst(q, j)) = DropFirst(q, j + 1)
  BY <1>1, DropFirstIs, SMTT(40)
<1>3. DropFirst(q, i) \in Seq(S)
  BY <1>1, DropFirstIs
<1>. QED  BY <1>1, <1>2, <1>3

-----------------------------------------------------------------------------
(* The loop over the finished walks: those sent are no longer counted among  *)
(* the finished ones, which are erased after the loop.                      *)
FillGood(w, came, u, i) ==
  /\ u \in CycleType /\ u.finished = w.finished /\ u.room = w.room - i
  /\ u.answered = w.answered /\ u.RQ = w.RQ /\ u.reads = w.reads /\ u.fills = w.fills
  /\ LET v == WithFinished(u, DropFirst(w.finished, i))
     IN  Kept(v, came) /\ WaitingIn(v) = WaitingIn(w)

LEMMA FillRound ==
  ASSUME NEW w \in CycleType, NEW came, NEW i \in 1..Len(w.finished), i <= w.room,
         NEW u, FillGood(w, came, u, i - 1)
  PROVE  FillGood(w, came, HandleFill(u, w.finished[i]), i)
<1>. DEFINE e == w.finished[i]
            rest == DropFirst(w.finished, i - 1)
            v == WithFinished(u, rest)
            u2 == HandleFill(u, e)
            d == WithFinished(HandleFill(v, e), Tail(rest))
<1>1. /\ w.finished \in Seq(WalkType) /\ e \in WalkType /\ w.room \in Nat
      /\ u \in CycleType /\ u.finished = w.finished /\ u.room = w.room - (i - 1)
  BY DEF CycleType, FillGood
<1>2. /\ rest \in Seq(WalkType) /\ rest # <<>> /\ Head(rest) = e
      /\ Tail(rest) = DropFirst(w.finished, i) /\ Tail(rest) \in Seq(WalkType)
  <2>. PICK q : q = w.finished
    OBVIOUS
  <2>1. q \in Seq(WalkType) /\ i \in 1..Len(q)
    BY <1>1
  <2>2. /\ DropFirst(q, i - 1) \in Seq(WalkType) /\ DropFirst(q, i - 1) # <<>>
        /\ Head(DropFirst(q, i - 1)) = q[i]
        /\ Tail(DropFirst(q, i - 1)) = DropFirst(q, i) /\ DropFirst(q, i) \in Seq(WalkType)
    BY ONLY <2>1, DropNext
  <2>. QED  BY <2>2
<1>. HIDE DEF e, rest
<1>3. Kept(v, came) /\ WaitingIn(v) = WaitingIn(w)
  BY DEF FillGood, rest
<1>4. /\ v \in CycleType /\ v.finished = rest /\ v.room = u.room /\ v.vm = u.vm /\ v.RQ = u.RQ
      /\ v.MSHR = u.MSHR /\ v.completed = u.completed /\ v.pscl = u.pscl /\ v.below = u.below
      /\ v.answered = u.answered /\ v.next = u.next /\ v.fills = u.fills /\ v.reads = u.reads
  BY <1>1, <1>2 DEF CycleType, WithFinished
<1>. HIDE DEF v
<1>5. v.room # 0
  BY <1>1, <1>4
<1>6. /\ Kept(d, came) /\ WaitingIn(d) = WaitingIn(v)
      /\ d.finished = Tail(rest) /\ d.room = v.room - 1
      /\ d.answered = v.answered /\ d.RQ = v.RQ /\ d.reads = v.reads /\ d.fills = v.fills
  <2>. PICK c : c = HandleFill(v, e)
    OBVIOUS
  <2>1. c = HandleFill(v, Head(v.finished)) /\ d = WithFinished(c, Tail(v.finished))
    BY <1>2, <1>4
  <2>2. v.finished # <<>>
    BY <1>2, <1>4
  <2>. HIDE DEF d
  <2>3. /\ Kept(d, came) /\ WaitingIn(d) = WaitingIn(v)
        /\ d.finished = Tail(v.finished) /\ d.room = v.room - 1
        /\ d.answered = v.answered /\ d.RQ = v.RQ /\ d.reads = v.reads /\ d.fills = v.fills
    BY <1>3, <1>5, <2>1, <2>2, HandleFillKeeps
  <2>. QED  BY <1>4, <2>3
<1>7. d = WithFinished(u2, Tail(rest))
  <2>. DEFINE c == HandleFill(v, e)
  <2>1. c = WithFinished(u2, rest)
    <3>1. v = WithFinished(u, rest)
      BY DEF v
    <3>. QED  BY <1>1, <1>2, <3>1, HandleFillApart
  <2>2. d = WithFinished(c, Tail(rest))
    OBVIOUS
  <2>. HIDE DEF u2, c, d
  <2>. QED  BY <2>1, <2>2 DEF WithFinished
<1>. HIDE DEF d
<1>8. u2 \in CycleType /\ u2.finished = w.finished /\ u2.room = u.room - 1
      /\ u2.answered = u.answered /\ u2.RQ = u.RQ /\ u2.reads = u.reads /\ u2.fills = u.fills
  <2>. DEFINE c == HandleFill(v, e)
  <2>1. u2 = WithFinished(c, u.finished)
        /\ u2.finished = w.finished /\ u2.room = u.room - 1
        /\ u2.answered = u.answered /\ u2.RQ = u.RQ /\ u2.reads = u.reads /\ u2.fills = u.fills
    <3>1. v = WithFinished(u, rest)
      BY DEF v
    <3>. QED  BY <1>1, <1>2, <3>1, HandleFillApart
  <2>2. d = WithFinished(c, Tail(rest))
    BY DEF d
  <2>3. d \in CycleType
    BY <1>6 DEF Kept
  <2>. HIDE DEF u2, c
  <2>4. u2 = WithFinished(d, w.finished)
    BY <1>1, <2>1, <2>2 DEF WithFinished
  <2>5. u2 \in CycleType
    BY <1>1, <2>3, <2>4 DEF CycleType, WithFinished
  <2>. QED  BY <2>1, <2>5
<1>. HIDE DEF u2
<1>9. WithFinished(u2, DropFirst(w.finished, i)) = d
  BY <1>2, <1>7
<1>10. FillGood(w, came, u2, i)
  BY <1>1, <1>3, <1>6, <1>8, <1>9 DEF FillGood
<1>. QED  BY <1>10 DEF u2, e

(* Nothing is the first to go wrong. *)
LEMMA NoFirst ==
  ASSUME NEW k \in Nat, NEW S, S \subseteq 0..k, 0 \notin S,
         \A i \in 1..k : i - 1 \notin S => i \notin S
  PROVE  S = {}
<1>. SUFFICES ASSUME S # {} PROVE FALSE
  OBVIOUS
<1>. DEFINE n == Least(S)
<1>1. n \in S /\ \A m \in S : n <= m
  <2>1. S \subseteq Nat
    OBVIOUS
  <2>. QED  BY <2>1, FirstFound
<1>. HIDE DEF n
<1>2. n \in 1..k /\ ~(n <= n - 1)
  BY <1>1
<1>. QED  BY <1>1, <1>2

LEMMA FillLoop ==
  ASSUME NEW w, NEW came, Kept(w, came), NEW k \in 0..Len(w.finished), k <= w.room,
         NEW f, Loop(f, k, "fill", w, w.finished)
  PROVE  FillGood(w, came, f[k], k)
<1>. DEFINE S == {i \in 0..k : ~FillGood(w, came, f[i], i)}
<1>1. w \in CycleType /\ w.finished \in Seq(WalkType) /\ w.room \in Nat /\ Len(w.finished) \in Nat
  BY DEF Kept, CycleType
<1>2. f[0] = w /\ \A i \in 1..k : f[i] = HandleFill(f[i - 1], w.finished[i])
  <2>1. k \in Nat
    BY <1>1
  <2>2. \A u, x : Step("fill", u, x) = HandleFill(u, x)
    BY DEF Step
  <2>3. f[0] = w /\ \A i \in 1..k : f[i] = Step("fill", f[i - 1], w.finished[i])
    BY <2>1, LoopRounds
  <2>. QED  BY <2>2, <2>3
<1>3. FillGood(w, came, f[0], 0)
  <2>1. WithFinished(w, DropFirst(w.finished, 0)) = w
    <3>1. DropFirst(w.finished, 0) = w.finished
      BY <1>1 DEF DropFirst
    <3>. QED  BY <1>1, <3>1 DEF WithFinished, CycleType
  <2>2. w.room - 0 = w.room
    BY <1>1
  <2>. QED  BY <1>1, <1>2, <2>1, <2>2 DEF FillGood
<1>4. ASSUME NEW i \in 1..k, FillGood(w, came, f[i - 1], i - 1) PROVE FillGood(w, came, f[i], i)
  <2>1. i \in 1..Len(w.finished) /\ i <= w.room
    BY <1>1
  <2>2. f[i] = HandleFill(f[i - 1], w.finished[i])
    BY <1>2
  <2>3. FillGood(w, came, HandleFill(f[i - 1], w.finished[i]), i)
    BY <1>1, <1>4, <2>1, FillRound
  <2>. QED  BY <2>2, <2>3
<1>5. S = {}
  <2>1. k \in Nat /\ 0 \notin S /\ S \subseteq 0..k
    BY <1>1, <1>3
  <2>2. \A i \in 1..k : i - 1 \notin S => i \notin S
    BY <1>1, <1>4
  <2>. HIDE DEF S
  <2>. QED  BY <2>1, <2>2, NoFirst
<1>. QED  BY <1>1, <1>5

(* The walk that finds no room only fills the PSCL. *)
LEMMA FillRefused ==
  ASSUME NEW w, NEW came, Kept(w, came), NEW k \in 0..Len(w.finished), k < Len(w.finished),
         NEW u, FillGood(w, came, u, k),
         NEW d, d = [u EXCEPT !.pscl = HandleFill(u, w.finished[k + 1]).pscl]
  PROVE  FillGood(w, came, d, k)
<1>. DEFINE rest == DropFirst(w.finished, k)
            v == WithFinished(u, rest)
            e == w.finished[k + 1]
            c == WithFinished(d, rest)
<1>1. /\ w \in CycleType /\ w.finished \in Seq(WalkType) /\ u \in CycleType /\ e \in WalkType
      /\ u.finished = w.finished
  <2>1. w \in CycleType /\ w.finished \in Seq(WalkType) /\ u \in CycleType /\ u.finished = w.finished
    BY DEF Kept, CycleType, FillGood
  <2>. QED  BY <2>1
<1>2. rest \in Seq(WalkType) /\ rest # <<>> /\ Head(rest) = e
  BY <1>1, DropFirstIs
<1>. HIDE DEF rest, e
<1>3. Kept(v, came) /\ WaitingIn(v) = WaitingIn(w)
  BY DEF FillGood, rest
<1>4. v.finished = rest /\ HandleFill(v, e) = WithFinished(HandleFill(u, e), rest)
  <2>1. v.finished = rest
    BY <1>1 DEF CycleType, WithFinished
  <2>2. v = WithFinished(u, rest)
    OBVIOUS
  <2>. QED  BY <1>1, <1>2, <2>1, <2>2, HandleFillApart
<1>5. RightPscls(v.vm, HandleFill(v, e).pscl)
  <2>. HIDE DEF v
  <2>. QED  BY <1>2, <1>3, <1>4, HandleFillPscls
<1>. PICK t : t = HandleFill(u, e).pscl
  OBVIOUS
<1>6. HandleFill(v, e).pscl = t
  <2>. PICK h : h = HandleFill(u, e)
    OBVIOUS
  <2>1. WithFinished(h, rest).pscl = h.pscl
    BY DEF WithFinished
  <2>. QED  BY <1>4, <2>1
<1>7. RightPscls(v.vm, t) /\ t \in [1..TOP -> Seq(PsclType)]
  BY <1>5, <1>6 DEF RightPscls
<1>8. d = [u EXCEPT !.pscl = t]
  BY DEF e
<1>9. /\ d \in CycleType /\ d.finished = u.finished /\ d.room = u.room /\ d.answered = u.answered
      /\ d.RQ = u.RQ /\ d.reads = u.reads /\ d.fills = u.fills
  BY <1>1, <1>7, <1>8 DEF CycleType
<1>10. /\ c \in CycleType /\ c.pscl = t /\ c.vm = v.vm /\ c.RQ = v.RQ /\ c.MSHR = v.MSHR
       /\ c.finished = v.finished /\ c.completed = v.completed /\ c.below = v.below
       /\ c.answered = v.answered /\ c.next = v.next
  <2>1. c = [v EXCEPT !.pscl = t]
    BY <1>1, <1>8 DEF WithFinished, CycleType
  <2>2. v \in CycleType
    BY <1>3 DEF Kept
  <2>. HIDE DEF v, c
  <2>. QED  BY <1>7, <2>1, <2>2 DEF CycleType
<1>11. Kept(c, came) /\ WaitingIn(c) = WaitingIn(v)
  <2>. HIDE DEF v, c
  <2>. QED  BY <1>3, <1>7, <1>10, PsclsChanged
<1>12. c = WithFinished(d, DropFirst(w.finished, k))
  BY DEF rest
<1>. HIDE DEF c, v
<1>. QED  BY <1>1, <1>3, <1>9, <1>11, <1>12 DEF FillGood

-----------------------------------------------------------------------------
(* What the handlers do to the virtual memory: they only add to its maps.    *)
Whole(w) == "vm" \in DOMAIN w /\ {"pages", "tables"} \subseteq DOMAIN w.vm
Widens(w, d) == DOMAIN d = DOMAIN w /\ DOMAIN d.vm = DOMAIN w.vm /\ Grows(w.vm, d.vm)

LEMMA WidensOn ==
  /\ \A w : Widens(w, w)
  /\ \A w, d : Whole(w) /\ Widens(w, d) => Whole(d)
  /\ \A w, d, x : Widens(w, d) /\ Widens(d, x) => Widens(w, x)
BY DEF Whole, Widens, Grows

LEMMA ExtendedGrows ==
  ASSUME NEW f, NEW x, x \notin DOMAIN f, NEW y
  PROVE  \A z \in DOMAIN f : z \in DOMAIN Extended(f, x, y) /\ Extended(f, x, y)[z] = f[z]
BY DEF Extended

LEMMA PopGrows ==
  ASSUME NEW m, {"pages", "tables"} \subseteq DOMAIN m
  PROVE  DOMAIN Pop(m) = DOMAIN m /\ Pop(m).pages = m.pages /\ Pop(m).tables = m.tables
BY DEF Pop

LEMMA TranslatedGrows ==
  ASSUME NEW m, {"pages", "tables"} \subseteq DOMAIN m, NEW cpu, NEW v, NEW d, d = Translated(m, cpu, v)
  PROVE  DOMAIN d = DOMAIN m /\ Grows(m, d)
<1>1. CASE ~PageFault(m, cpu, v)
  BY <1>1 DEF Translated, Grows
<1>2. CASE PageFault(m, cpu, v)
  <2>. PICK p, g : p = Pop(m) /\ g = Extended(m.pages, <<cpu, v>>, Front(m))
    OBVIOUS
  <2>1. d = [p EXCEPT !.pages = g] /\ DOMAIN p = DOMAIN m /\ p.pages = m.pages /\ p.tables = m.tables
    BY <1>2, PopGrows DEF Translated
  <2>2. \A z \in DOMAIN m.pages : z \in DOMAIN g /\ g[z] = m.pages[z]
    BY <1>2, ExtendedGrows DEF PageFault
  <2>. QED  BY <2>1, <2>2 DEF Grows
<1>. QED  BY <1>1, <1>2

LEMMA WithTableGrows ==
  ASSUME NEW m, {"pages", "tables"} \subseteq DOMAIN m, NEW cpu, NEW v, NEW l,
         NEW d, d = WithTable(m, cpu, v, l)
  PROVE  DOMAIN d = DOMAIN m /\ Grows(m, d)
<1>1. CASE ~TableFault(m, cpu, v, l)
  BY <1>1 DEF WithTable, Grows
<1>2. CASE TableFault(m, cpu, v, l)
  <2>. PICK g, n : g = Extended(m.tables, <<cpu, l, Above(v, l)>>, <<m.active, m.next>>)
                   /\ n = (m.next + 1) % TABLES_PER_PAGE
    OBVIOUS
  <2>. PICK kept : kept = [m EXCEPT !.tables = g, !.next = n]
    OBVIOUS
  <2>1. DOMAIN kept = DOMAIN m /\ kept.pages = m.pages /\ kept.tables = g
    OBVIOUS
  <2>2. d = kept \/ d = [Pop(kept) EXCEPT !.active = Front(m)]
    BY <1>2 DEF WithTable
  <2>3. DOMAIN Pop(kept) = DOMAIN m /\ Pop(kept).pages = m.pages /\ Pop(kept).tables = g
    BY <2>1, PopGrows
  <2>4. DOMAIN d = DOMAIN m /\ d.pages = m.pages /\ d.tables = g
    BY <2>1, <2>2, <2>3
  <2>5. \A z \in DOMAIN m.tables : z \in DOMAIN g /\ g[z] = m.tables[z]
    BY <1>2, ExtendedGrows DEF TableFault
  <2>. QED  BY <2>4, <2>5 DEF Grows
<1>. QED  BY <1>1, <1>2

LEMMA FinishWalkWidens ==
  ASSUME NEW w, Whole(w), NEW e PROVE Widens(w, FinishWalk(w, e))
<1>1. CASE e.level = 0
  <2>. PICK m, c : m = Translated(w.vm, CPU, e.v) /\ FinishWalk(w, e) = [w EXCEPT !.vm = m, !.completed = c]
    BY <1>1 DEF FinishWalk, FinishedLastStep
  <2>1. DOMAIN m = DOMAIN w.vm /\ Grows(w.vm, m)
    BY TranslatedGrows DEF Whole
  <2>. QED  BY <2>1 DEF Widens, Whole
<1>2. CASE e.level # 0
  <2>. PICK m, c : m = WithTable(w.vm, CPU, e.v, e.level) /\ FinishWalk(w, e) = [w EXCEPT !.vm = m, !.finished = c]
    BY <1>2 DEF FinishWalk, FinishedStep
  <2>1. DOMAIN m = DOMAIN w.vm /\ Grows(w.vm, m)
    BY WithTableGrows DEF Whole
  <2>. QED  BY <2>1 DEF Widens, Whole
<1>. QED  BY <1>1, <1>2

LEMMA SameWidens ==
  ASSUME NEW w, Whole(w), NEW d, DOMAIN d = DOMAIN w, d.vm = w.vm
  PROVE  Widens(w, d)
BY DEF Widens, Grows

LEMMA StepTranslationWidens ==
  ASSUME NEW w, Whole(w), NEW e PROVE Widens(w, StepTranslation(w, e))
<1>1. DOMAIN StepTranslation(w, e) = DOMAIN w /\ StepTranslation(w, e).vm = w.vm
  BY DEF StepTranslation, Whole
<1>. QED  BY <1>1, SameWidens

LEMMA HandleFillWidens ==
  ASSUME NEW w, Whole(w), NEW e PROVE Widens(w, HandleFill(w, e))
<1>. PICK d, x : /\ DOMAIN d = DOMAIN w /\ d.vm = w.vm /\ HandleFill(w, e) = StepTranslation(d, x)
  BY DEF HandleFill, Whole
<1>1. Widens(w, d)
  BY SameWidens
<1>. QED  BY <1>1, StepTranslationWidens, WidensOn

LEMMA HandleReadWidens ==
  ASSUME NEW w, Whole(w), NEW r PROVE Widens(w, HandleRead(w, r))
<1>. PICK d, x : /\ DOMAIN d = DOMAIN w /\ d.vm = w.vm /\ HandleRead(w, r) = StepTranslation(d, x)
  BY DEF HandleRead, Whole
<1>1. Widens(w, d)
  BY SameWidens
<1>. QED  BY <1>1, StepTranslationWidens, WidensOn

LEMMA LoopWidens ==
  ASSUME NEW k, NEW w, Whole(w), NEW q, NEW n \in Nat, NEW f, Loop(f, n, k, w, q),
         \A u, x : Whole(u) => Widens(u, Step(k, u, x))
  PROVE  Widens(w, f[n])
<1>. DEFINE S == {i \in 0..n : ~Widens(w, f[i])}
<1>1. f[0] = w /\ \A i \in 1..n : f[i] = Step(k, f[i - 1], q[i])
  BY LoopRounds
<1>2. S = {}
  <2>1. 0 \notin S /\ S \subseteq 0..n
    BY <1>1, WidensOn
  <2>2. \A i \in 1..n : i - 1 \notin S => i \notin S
    <3>. SUFFICES ASSUME NEW i \in 1..n, i - 1 \notin S PROVE i \notin S
      OBVIOUS
    <3>1. i - 1 \in 0..n
      OBVIOUS
    <3>2. Widens(w, f[i - 1])
      BY <3>1
    <3>3. Widens(f[i - 1], f[i])
      BY <1>1, <3>2, WidensOn
    <3>. QED  BY <3>2, <3>3, WidensOn
  <2>. HIDE DEF S
  <2>. QED  BY <2>1, <2>2, NoFirst
<1>. QED  BY <1>2

LEMMA CycleWhole == \A w \in CycleType : Whole(w)
BY SMTT(40) DEF CycleType, Whole, VMType

LEMMA FillKeeps ==
  ASSUME NEW w, NEW came, Kept(w, came), NEW d, d = Fill(w)
  PROVE  /\ Kept(d, came) /\ WaitingIn(d) = WaitingIn(w) /\ d.answered = w.answered
         /\ d.RQ = w.RQ /\ d.reads = w.reads /\ Widens(w, d)
<1>. DEFINE n == ReadyPrefix(w.finished, w.fills)
            k == IF n < w.room THEN n ELSE w.room
            F(f) == [i \in 0..k |-> IF i = 0 THEN w ELSE HandleFill(f[i - 1], w.finished[i])]
            f == CHOOSE f : f = F(f)
            tried == IF k < n THEN [f[k] EXCEPT !.pscl = HandleFill(f[k], w.finished[k + 1]).pscl]
                     ELSE f[k]
<1>1. d = [tried EXCEPT !.finished = DropFirst(@, k), !.fills = @ - k]
  BY DEF Fill
<1>2. /\ w \in CycleType /\ w.finished \in Seq(WalkType) /\ w.fills \in Nat /\ w.room \in Nat
  BY DEF Kept, CycleType
<1>3. n \in 0..Len(w.finished) /\ n <= w.fills
  BY <1>2, ReadyPrefixIs
<1>. HIDE DEF n
<1>4. /\ k \in Nat /\ k \in 0..Len(w.finished) /\ k <= w.room /\ k <= w.fills /\ k <= n
  BY <1>2, <1>3
<1>. HIDE DEF k
<1>5. \A g : g = F(g) <=> Loop(g, k, "fill", w, w.finished)
  BY DEF Loop, Step
<1>6. \E g : g = F(g)
  BY <1>4, <1>5, LoopExists
<1>7. f = F(f)
  BY <1>6
<1>. HIDE DEF f
<1>8. FillGood(w, came, f[k], k)
  <2>1. Loop(f, k, "fill", w, w.finished)
    BY <1>5, <1>7
  <2>. QED  BY <1>4, <2>1, FillLoop
<1>. HIDE DEF F
<1>9. FillGood(w, came, tried, k)
  <2>1. CASE k < n
    <3>1. k < Len(w.finished) /\ k \in 0..Len(w.finished)
      BY <1>3, <1>4, <2>1
    <3>2. tried = [f[k] EXCEPT !.pscl = HandleFill(f[k], w.finished[k + 1]).pscl]
      BY <2>1
    <3>. HIDE DEF tried
    <3>. QED  BY <1>8, <3>1, <3>2, FillRefused
  <2>2. CASE ~(k < n)
    BY <1>8, <2>2
  <2>. QED  BY <2>1, <2>2
<1>a. Widens(w, f[k]) /\ Whole(f[k])
  <2>1. Loop(f, k, "fill", w, w.finished)
    BY <1>5, <1>7
  <2>2. \A u, x : Step("fill", u, x) = HandleFill(u, x)
    BY DEF Step
  <2>3. \A u, x : Whole(u) => Widens(u, Step("fill", u, x))
    BY <2>2, HandleFillWidens
  <2>4. Whole(w)
    BY <1>2, CycleWhole
  <2>5. Widens(w, f[k])
    BY <1>4, <2>1, <2>3, <2>4, LoopWidens
  <2>. QED  BY <2>4, <2>5, WidensOn
<1>b. DOMAIN tried = DOMAIN f[k] /\ tried.vm = f[k].vm
  BY <1>a DEF Whole
<1>. HIDE DEF tried
<1>c. Widens(w, d)
  <2>1. DOMAIN d = DOMAIN tried /\ d.vm = tried.vm
    BY <1>1, <1>a, <1>b DEF Whole
  <2>. QED  BY <1>a, <1>b, <2>1 DEF Widens
<1>. DEFINE v == WithFinished(tried, DropFirst(w.finished, k))
<1>10. /\ Kept(v, came) /\ WaitingIn(v) = WaitingIn(w)
       /\ tried \in CycleType /\ tried.finished = w.finished
       /\ tried.answered = w.answered /\ tried.RQ = w.RQ /\ tried.reads = w.reads /\ tried.fills = w.fills
  BY <1>8, <1>9 DEF FillGood
<1>11. /\ v \in CycleType /\ v.answered = w.answered /\ v.RQ = w.RQ /\ v.reads = w.reads
       /\ v.fills = w.fills
  BY <1>10 DEF WithFinished, CycleType, Kept
<1>12. d = [v EXCEPT !.fills = w.fills - k]
  BY <1>1, <1>10 DEF WithFinished, CycleType
<1>13. w.fills - k \in Nat
  BY <1>2, <1>4
<1>. HIDE DEF v
<1>14. /\ d \in CycleType /\ d.answered = v.answered /\ d.RQ = v.RQ /\ d.reads = v.reads
       /\ d.pscl = v.pscl /\ d.vm = v.vm /\ d.MSHR = v.MSHR /\ d.finished = v.finished
       /\ d.completed = v.completed /\ d.below = v.below /\ d.next = v.next
  BY <1>11, <1>12, <1>13 DEF CycleType
<1>15. RightPscls(v.vm, d.pscl)
  BY <1>10, <1>11, <1>14 DEF Kept, RightPscls, Paths, Sized, CycleType
<1>16. Kept(d, came) /\ WaitingIn(d) = WaitingIn(v)
  BY <1>10, <1>14, <1>15, PsclsChanged
<1>. QED  BY <1>c, <1>10, <1>11, <1>14, <1>16

-----------------------------------------------------------------------------
(* handle_read: the walk that begins. *)
LEMMA WalkInitIs ==
  ASSUME NEW w, NEW came, Kept(w, came), NEW r \in ReqType
  PROVE  /\ WalkInit(w, r) \in WalkType /\ WalkInit(w, r).id = r.id
         /\ ReadsPath(w.vm, WalkInit(w, r))
<1>. DEFINE hits == {l \in 1..TOP : PsclHit(w.pscl[l], r.v, l) # {}}
            low == Least(hits)
            j == CHOOSE i \in PsclHit(w.pscl[low], r.v, low) : TRUE
            hit == w.pscl[low][j]
            start == IF hits = {} THEN [address |-> Cr3(w.vm), level |-> TOP]
                                  ELSE [address |-> hit.address, level |-> low]
            e == WalkInit(w, r)
            Walk(a, l) == [id |-> r.id, v |-> r.v, level |-> l, data |-> NoAddress, ready_in |-> 0,
                           address |-> [page |-> a.page, table |-> 0, offset |-> r.v[l]]]
<1>1. e = Walk(start.address, start.level)
  BY DEF WalkInit, Least
<1>2. /\ w \in CycleType /\ w.vm \in VMType /\ Rooted(w.vm) /\ r.id \in Ids /\ r.v \in VPage
      /\ w.pscl \in [1..TOP -> Seq(PsclType)]
      /\ \A l \in 1..TOP : \A i \in DOMAIN w.pscl[l] : Remembers(w.vm, l, w.pscl[l][i])
  BY DEF Kept, CycleType, ReqType, Paths
<1>. HIDE DEF e, hits
<1>3. NoAddress \in DataType
  BY VMemAssumption DEF NoAddress, DataType
<1>4. ASSUME NEW a, NEW l \in 1..TOP, [page |-> a.page, table |-> 0, offset |-> r.v[l]] \in AddressType
      PROVE  Walk(a, l) \in WalkType
  <2>1. l \in 0..TOP
    BY LevelsAre
  <2>. QED  BY <1>2, <1>3, <1>4, <2>1 DEF WalkType
<1>5. CASE hits = {}
  <2>1. e = Walk(Cr3(w.vm), TOP)
    BY <1>1, <1>5
  <2>2. r.v[TOP] \in Offset /\ TOP \in 1..TOP
    BY <1>2, LevelsAre
  <2>3. [page |-> Cr3(w.vm).page, table |-> 0, offset |-> r.v[TOP]] \in AddressType
    BY <1>2, <2>2, RootTyped
  <2>4. e.level = TOP /\ e.v = r.v /\ e.address = RootOf(w.vm, r.v) /\ e.id = r.id
    BY <2>1 DEF RootOf
  <2>5. ReadsPath(w.vm, e)
    BY <2>4 DEF ReadsPath
  <2>. QED  BY <1>4, <2>1, <2>2, <2>3, <2>4, <2>5 DEF e
<1>6. CASE hits # {}
  <2>1. low \in hits
    <3>1. hits \subseteq Nat
      BY DEF hits
    <3>. QED  BY <1>6, <3>1, FirstFound
  <2>. HIDE DEF low
  <2>2. low \in 1..TOP /\ PsclHit(w.pscl[low], r.v, low) # {}
    BY <2>1 DEF hits
  <2>3. j \in PsclHit(w.pscl[low], r.v, low)
    BY <2>2
  <2>. HIDE DEF j
  <2>4. j \in DOMAIN w.pscl[low] /\ PsclTag(hit.v, low) = PsclTag(r.v, low)
    BY <2>3 DEF PsclHit
  <2>5. hit \in PsclType /\ Remembers(w.vm, low, hit)
    <3>1. w.pscl[low] \in Seq(PsclType)
      BY <1>2, <2>2
    <3>2. Remembers(w.vm, low, w.pscl[low][j])
      BY <1>2, <2>2, <2>4
    <3>3. w.pscl[low][j] \in PsclType
      BY <2>4, <3>1
    <3>. QED  BY <3>2, <3>3
  <2>. HIDE DEF hit
  <2>6. /\ ~TableFault(w.vm, CPU, hit.v, low) /\ hit.address = Entry(w.vm, CPU, hit.v, low)
        /\ hit.address \in AddressType /\ Above(hit.v, low) = Above(r.v, low)
    BY <2>4, <2>5 DEF Remembers, PsclType, PsclTag
  <2>7. ~TableFault(w.vm, CPU, r.v, low)
    BY <2>6 DEF TableFault
  <2>8. /\ hit.address.page = Entry(w.vm, CPU, r.v, low).page
        /\ hit.address.table = Entry(w.vm, CPU, r.v, low).table
    BY <2>6 DEF Entry
  <2>9. r.v[low] \in Offset /\ low \in Level
    BY <1>2, <2>2, LevelsAre
  <2>10. e = Walk(hit.address, low)
    BY <1>1, <1>6
  <2>11. [page |-> hit.address.page, table |-> 0, offset |-> r.v[low]] \in AddressType
    <3>1. 0 \in 0..(TABLES_PER_PAGE - 1)
      BY VMemAssumption
    <3>. QED  BY <2>6, <2>9, <3>1 DEF AddressType
  <2>12. Entry(w.vm, CPU, r.v, low) \in AddressType
    BY <1>2, <2>7, <2>9, EntryTyped
  <2>13. TABLES_PER_PAGE = 1 => [page |-> hit.address.page, table |-> 0, offset |-> r.v[low]]
                                   = Entry(w.vm, CPU, r.v, low)
    <3>. SUFFICES ASSUME TABLES_PER_PAGE = 1
                  PROVE  [page |-> hit.address.page, table |-> 0, offset |-> r.v[low]]
                                   = Entry(w.vm, CPU, r.v, low)
      OBVIOUS
    <3>. PICK a : a = Entry(w.vm, CPU, r.v, low)
      OBVIOUS
    <3>1. a.table = 0
      BY <2>12 DEF AddressType
    <3>2. a.offset = r.v[low]
      BY DEF Entry
    <3>3. a = [page |-> a.page, table |-> a.table, offset |-> a.offset]
      BY <2>12 DEF AddressType
    <3>. QED  BY <2>8, <3>1, <3>2, <3>3
  <2>14. /\ e.level = low /\ e.v = r.v /\ e.id = r.id
         /\ e.address = [page |-> hit.address.page, table |-> 0, offset |-> r.v[low]]
    BY <2>10
  <2>15. ReadsPath(w.vm, e)
    BY <2>2, <2>7, <2>13, <2>14 DEF ReadsPath
  <2>. QED  BY <1>4, <2>2, <2>10, <2>11, <2>14, <2>15 DEF e
<1>. QED  BY <1>5, <1>6

(* A look-up leaves the same entries in the PSCLs. *)
LEMMA TouchedPscls ==
  ASSUME NEW w, NEW came, Kept(w, came), NEW v
  PROVE  RightPscls(w.vm, [l \in 1..TOP |-> Touched(w.pscl[l], v, l)])
<1>. DEFINE t == [l \in 1..TOP |-> Touched(w.pscl[l], v, l)]
<1>1. ASSUME NEW l \in 1..TOP
      PROVE  /\ t[l] \in Seq(PsclType) /\ Len(t[l]) <= PSCL_WAYS
             /\ \A i \in DOMAIN t[l] : Remembers(w.vm, l, t[l][i])
  <2>1. w.pscl[l] \in Seq(RightEntries(w.vm, l)) /\ Len(w.pscl[l]) <= PSCL_WAYS
    BY PsclsRight
  <2>2. Touched(w.pscl[l], v, l) \in Seq(RightEntries(w.vm, l)) /\ Len(Touched(w.pscl[l], v, l)) <= PSCL_WAYS
    BY <2>1, TouchedIs
  <2>3. PICK q : q = Touched(w.pscl[l], v, l)
    OBVIOUS
  <2>4. t[l] = q
    BY <2>3
  <2>5. q \in Seq(PsclType) /\ \A i \in DOMAIN q : q[i] \in RightEntries(w.vm, l)
    BY <2>2, <2>3 DEF RightEntries
  <2>. QED  BY <2>2, <2>3, <2>4, <2>5 DEF RightEntries
<1>. QED  BY <1>1 DEF RightPscls

WithRQ(w, ul, q) == [w EXCEPT !.RQ = [w.RQ EXCEPT ![ul] = q]]

LEMMA HandleReadRecord ==
  ASSUME NEW w \in CycleType, NEW r
  PROVE  HandleRead(w, r) =
           [vm |-> w.vm, RQ |-> w.RQ, MSHR |-> w.MSHR, finished |-> w.finished,
            completed |-> w.completed,
            pscl |-> [l \in 1..TOP |-> Touched(w.pscl[l], r.v, l)],
            below |-> w.below (+) SetToBag({BlockOf(WalkInit(w, r).address)}),
            answered |-> w.answered, next |-> Append(w.next, Sent(WalkInit(w, r))),
            room |-> w.room - 1, fills |-> w.fills, reads |-> w.reads]
<1>. DEFINE t == [l \in 1..TOP |-> Touched(w.pscl[l], r.v, l)]
            w1 == [w EXCEPT !.pscl = t]
            e == WalkInit(w, r)
            b == SetToBag({BlockOf(e.address)})
            x == Sent(e)
<1>1. HandleRead(w, r) = [w1 EXCEPT !.below = @ (+) b, !.room = @ - 1, !.next = Append(@, x)]
  BY DEF HandleRead, StepTranslation, Sent
<1>. HIDE DEF t, e, b, x
<1>2. w1 = [vm |-> w.vm, RQ |-> w.RQ, MSHR |-> w.MSHR, finished |-> w.finished,
            completed |-> w.completed, pscl |-> t, below |-> w.below,
            answered |-> w.answered, next |-> w.next, room |-> w.room, fills |-> w.fills,
            reads |-> w.reads]
  BY CycleRecord
<1>. HIDE DEF w1
<1>3. HandleRead(w, r) =
        [vm |-> w.vm, RQ |-> w.RQ, MSHR |-> w.MSHR, finished |-> w.finished,
         completed |-> w.completed, pscl |-> t, below |-> w.below (+) b,
         answered |-> w.answered, next |-> Append(w.next, x), room |-> w.room - 1,
         fills |-> w.fills, reads |-> w.reads]
  BY <1>1, <1>2, ZenonT(60)
<1>. QED  BY <1>3 DEF t, e, b, x

LEMMA WithRQTyped ==
  ASSUME NEW w \in CycleType, NEW ul \in Ul, NEW q \in Seq(ReqType), NEW v, v = WithRQ(w, ul, q)
  PROVE  /\ v \in CycleType /\ v.room = w.room /\ v.vm = w.vm
         /\ v.MSHR = w.MSHR /\ v.completed = w.completed /\ v.pscl = w.pscl /\ v.below = w.below
         /\ v.answered = w.answered /\ v.next = w.next /\ v.fills = w.fills /\ v.reads = w.reads
         /\ v.finished = w.finished /\ v.RQ[ul] = q
         /\ \A u \in Ul : u # ul => v.RQ[u] = w.RQ[u]
<1>1. [w.RQ EXCEPT ![ul] = q] \in [Ul -> Seq(ReqType)]
  BY DEF CycleType
<1>2. /\ [w.RQ EXCEPT ![ul] = q][ul] = q
      /\ \A u \in Ul : u # ul => [w.RQ EXCEPT ![ul] = q][u] = w.RQ[u]
  BY DEF CycleType
<1>. PICK p : p = [w.RQ EXCEPT ![ul] = q]
  OBVIOUS
<1>3. v = [w EXCEPT !.RQ = p]
  BY DEF WithRQ
<1>4. /\ v \in CycleType /\ v.room = w.room /\ v.vm = w.vm
      /\ v.MSHR = w.MSHR /\ v.completed = w.completed /\ v.pscl = w.pscl /\ v.below = w.below
      /\ v.answered = w.answered /\ v.next = w.next /\ v.fills = w.fills /\ v.reads = w.reads
      /\ v.finished = w.finished /\ v.RQ = p
  BY <1>1, <1>3 DEF CycleType
<1>. QED  BY <1>2, <1>4

LEMMA HandleReadApart ==
  ASSUME NEW w \in CycleType, NEW ul \in Ul, NEW q \in Seq(ReqType), NEW r,
         NEW v, v = WithRQ(w, ul, q)
  PROVE  /\ HandleRead(v, r) = WithRQ(HandleRead(w, r), ul, q)
         /\ HandleRead(w, r) = WithRQ(HandleRead(v, r), ul, w.RQ[ul])
         /\ LET d == HandleRead(w, r)
            IN  /\ d.finished = w.finished /\ d.room = w.room - 1 /\ d.vm = w.vm /\ d.RQ = w.RQ
                /\ d.MSHR = w.MSHR /\ d.completed = w.completed /\ d.answered = w.answered
                /\ d.fills = w.fills /\ d.reads = w.reads
<1>. DEFINE p == [l \in 1..TOP |-> Touched(w.pscl[l], r.v, l)]
            b == w.below (+) SetToBag({BlockOf(WalkInit(w, r).address)})
            x == Append(w.next, Sent(WalkInit(w, r)))
            d == HandleRead(w, r)
            c == HandleRead(v, r)
<1>1. /\ v \in CycleType /\ v.finished = w.finished /\ v.room = w.room /\ v.vm = w.vm
      /\ v.MSHR = w.MSHR /\ v.completed = w.completed /\ v.pscl = w.pscl /\ v.below = w.below
      /\ v.answered = w.answered /\ v.next = w.next /\ v.fills = w.fills /\ v.reads = w.reads
      /\ v.RQ = [w.RQ EXCEPT ![ul] = q]
  <2>1. v.RQ = [w.RQ EXCEPT ![ul] = q]
    <3>. PICK p1 : p1 = [w.RQ EXCEPT ![ul] = q]
      OBVIOUS
    <3>1. v = [w EXCEPT !.RQ = p1]
      BY DEF WithRQ
    <3>. QED  BY <3>1 DEF CycleType
  <2>. QED  BY <2>1, WithRQTyped
<1>2. WalkInit(v, r) = WalkInit(w, r)
  BY <1>1 DEF WalkInit
<1>3. d = [vm |-> w.vm, RQ |-> w.RQ, MSHR |-> w.MSHR, finished |-> w.finished,
           completed |-> w.completed, pscl |-> p, below |-> b, answered |-> w.answered,
           next |-> x, room |-> w.room - 1, fills |-> w.fills, reads |-> w.reads]
  BY HandleReadRecord
<1>4. c = [vm |-> v.vm, RQ |-> v.RQ, MSHR |-> v.MSHR, finished |-> v.finished,
           completed |-> v.completed, pscl |-> p, below |-> b, answered |-> v.answered,
           next |-> x, room |-> v.room - 1, fills |-> v.fills, reads |-> v.reads]
  <2>1. /\ p = [l \in 1..TOP |-> Touched(v.pscl[l], r.v, l)]
        /\ b = v.below (+) SetToBag({BlockOf(WalkInit(v, r).address)})
        /\ x = Append(v.next, Sent(WalkInit(v, r)))
    BY <1>1, <1>2
  <2>. HIDE DEF p, b, x
  <2>. QED  BY <1>1, <2>1, HandleReadRecord
<1>. HIDE DEF p, b, x, d, c
<1>5. c = [d EXCEPT !.RQ = [d.RQ EXCEPT ![ul] = q]]
  <2>1. d.RQ = w.RQ
    BY <1>3
  <2>. PICK n : n = [w.RQ EXCEPT ![ul] = q]
    OBVIOUS
  <2>2. c = [d EXCEPT !.RQ = n]
    BY <1>1, <1>3, <1>4
  <2>. QED  BY <2>1, <2>2
<1>6. d = [c EXCEPT !.RQ = [c.RQ EXCEPT ![ul] = w.RQ[ul]]]
  <2>1. c.RQ = [w.RQ EXCEPT ![ul] = q]
    BY <1>1, <1>4
  <2>2. [c.RQ EXCEPT ![ul] = w.RQ[ul]] = w.RQ
    BY <2>1, ZenonT(60) DEF CycleType
  <2>. QED  BY <1>1, <1>3, <1>4, <2>2
<1>7. /\ d.finished = w.finished /\ d.room = w.room - 1 /\ d.vm = w.vm /\ d.RQ = w.RQ
      /\ d.MSHR = w.MSHR /\ d.completed = w.completed /\ d.answered = w.answered
      /\ d.fills = w.fills /\ d.reads = w.reads
  BY <1>3
<1>. QED  BY <1>5, <1>6, <1>7 DEF d, c, WithRQ

(* The read at the head of the queue of an upper level begins its walk. *)
LEMMA HandleReadKeeps ==
  ASSUME NEW w, NEW came, Kept(w, came), NEW ul \in Ul, w.RQ[ul] # <<>>, w.room # 0,
         NEW d, d = WithRQ(HandleRead(w, Head(w.RQ[ul])), ul, Tail(w.RQ[ul]))
  PROVE  Kept(d, came) /\ WaitingIn(d) = WaitingIn(w)
<1>. DEFINE r == Head(w.RQ[ul])
            e == WalkInit(w, r)
            t == [l \in 1..TOP |-> Touched(w.pscl[l], r.v, l)]
            w1 == [w EXCEPT !.pscl = t]
            w2 == StepTranslation(w1, e)
            rest == Tail(w.RQ[ul])
<1>1. /\ w \in CycleType /\ w.RQ \in [Ul -> Seq(ReqType)] /\ w.RQ[ul] \in Seq(ReqType)
      /\ Len(w.RQ[ul]) <= RQ_SIZE
      /\ \A u \in Ul : Len(w.RQ[u]) <= RQ_SIZE
      /\ \A i \in DOMAIN w.finished : HasRead(w.vm, w.finished[i])
  BY DEF Kept, CycleType, Sized, Paths
<1>2. r \in ReqType /\ rest \in Seq(ReqType) /\ Len(rest) <= RQ_SIZE
  <2>. PICK q : q = w.RQ[ul]
    OBVIOUS
  <2>1. q \in Seq(ReqType) /\ q # <<>> /\ Len(q) <= RQ_SIZE /\ RQ_SIZE \in Nat
    BY <1>1, WalkerAssumption
  <2>2. Head(q) \in ReqType /\ Tail(q) \in Seq(ReqType) /\ Len(Tail(q)) <= RQ_SIZE
    BY <2>1
  <2>. QED  BY <2>2
<1>. HIDE DEF r, rest
<1>3. e \in WalkType /\ e.id = r.id /\ ReadsPath(w.vm, e)
  BY <1>2, WalkInitIs
<1>4. RightPscls(w.vm, t)
  BY TouchedPscls
<1>. HIDE DEF e, t
<1>5. /\ w1 \in CycleType /\ w1.room = w.room
      /\ w1.next = w.next /\ w1.below = w.below /\ w1.vm = w.vm /\ w1.RQ = w.RQ
      /\ w1.MSHR = w.MSHR /\ w1.finished = w.finished /\ w1.completed = w.completed
      /\ w1.answered = w.answered /\ w1.fills = w.fills /\ w1.reads = w.reads
      /\ w1.pscl = t
  BY <1>1, <1>4 DEF CycleType, RightPscls
<1>6. HandleRead(w, r) = w2
  BY DEF HandleRead, t, e
<1>. HIDE DEF w1
<1>7. /\ w2 \in CycleType
      /\ w2.next = Append(w1.next, Sent(e)) /\ w2.below = w1.below (+) SetToBag({BlockOf(e.address)})
      /\ w2.room = w1.room - 1 /\ w2.vm = w1.vm /\ w2.RQ = w1.RQ /\ w2.MSHR = w1.MSHR
      /\ w2.finished = w1.finished /\ w2.completed = w1.completed /\ w2.pscl = w1.pscl
      /\ w2.answered = w1.answered /\ w2.fills = w1.fills /\ w2.reads = w1.reads
  BY <1>3, <1>5, StepTranslationIs
<1>. HIDE DEF w2
<1>8. d = WithRQ(w2, ul, rest)
  BY <1>6 DEF r, rest
<1>9. /\ d \in CycleType /\ d.vm = w2.vm
      /\ d.MSHR = w2.MSHR /\ d.completed = w2.completed /\ d.pscl = w2.pscl /\ d.below = w2.below
      /\ d.answered = w2.answered /\ d.next = w2.next
      /\ d.finished = w2.finished /\ d.RQ[ul] = rest
      /\ \A u \in Ul : u # ul => d.RQ[u] = w2.RQ[u]
  <2>1. w2 \in CycleType /\ rest \in Seq(ReqType)
    BY <1>2, <1>7
  <2>. QED  BY <1>8, <2>1, WithRQTyped
<1>10. Sized(d)
  <2>1. d.pscl = t /\ \A u \in Ul : Len(d.RQ[u]) <= RQ_SIZE
    <3>1. d.pscl = t
      BY <1>5, <1>7, <1>9
    <3>2. \A u \in Ul : u # ul => d.RQ[u] = w.RQ[u]
      BY <1>5, <1>7, <1>9
    <3>. QED  BY <1>1, <1>2, <1>9, <3>1, <3>2
  <2>. QED  BY <1>4, <2>1 DEF Sized, RightPscls
<1>. DEFINE p == <<"RQ", ul>>
<1>11. /\ p \in Place /\ p # PlaceNext /\ Queue(w, p) = w.RQ[ul] /\ Queue(d, p) = rest
  BY <1>9 DEF Place, PlaceNext, Queue
<1>12. \A x \in Place : x # p /\ x # PlaceNext => Queue(d, x) = Queue(w, x)
  <2>. SUFFICES ASSUME NEW x \in Place, x # p, x # PlaceNext PROVE Queue(d, x) = Queue(w, x)
    OBVIOUS
  <2>1. x = <<x[1], x[2]>> /\ (x[1] = "walks" => x[2] \in {"MSHR", "finished", "completed"})
        /\ (x[1] # "walks" => x[1] = "RQ" /\ x[2] \in Ul)
    BY DEF Place, PlaceNext
  <2>2. CASE x[1] = "walks"
    BY <1>5, <1>7, <1>9, <2>1, <2>2 DEF Queue
  <2>3. CASE x[1] # "walks"
    <3>1. x[2] \in Ul /\ x[2] # ul
      BY <2>1, <2>3
    <3>2. d.RQ[x[2]] = w.RQ[x[2]]
      BY <1>5, <1>7, <1>9, <3>1
    <3>. QED  BY <2>3, <3>2 DEF Queue
  <2>. QED  BY <2>2, <2>3
<1>. HIDE DEF p
<1>13. /\ d.vm = w.vm /\ d.next = Append(w.next, Sent(e)) /\ d.answered = w.answered
       /\ d.below = w.below (+) SetToBag({BlockOf(e.address)})
       /\ d.MSHR = w.MSHR /\ d.completed = w.completed /\ d.finished = w.finished /\ d.pscl = t
  BY <1>5, <1>7, <1>9
<1>14. \A l \in 1..TOP : \A i \in DOMAIN d.pscl[l] : Remembers(w.vm, l, d.pscl[l][i])
  BY <1>4, <1>13 DEF RightPscls
<1>15. /\ Queue(w, p) # <<>> /\ e.id = Head(Queue(w, p)).id /\ Queue(d, p) = Tail(Queue(w, p))
  BY <1>3, <1>11 DEF r, rest
<1>. QED  BY <1>1, <1>3, <1>9, <1>10, <1>11, <1>12, <1>13, <1>14, <1>15, SentKeeps, ZenonT(60)

(* The loop over the queue of an upper level, as Fill's. *)
ReadGood(w, came, ul, u, i) ==
  /\ u \in CycleType /\ u.RQ = w.RQ /\ u.room = w.room - i
  /\ u.answered = w.answered /\ u.reads = w.reads /\ u.fills = w.fills
  /\ LET v == WithRQ(u, ul, DropFirst(w.RQ[ul], i))
     IN  Kept(v, came) /\ WaitingIn(v) = WaitingIn(w)

LEMMA ReadRound ==
  ASSUME NEW w \in CycleType, NEW came, NEW ul \in Ul, NEW i \in 1..Len(w.RQ[ul]), i <= w.room,
         NEW u, ReadGood(w, came, ul, u, i - 1)
  PROVE  ReadGood(w, came, ul, HandleRead(u, w.RQ[ul][i]), i)
<1>. DEFINE r == w.RQ[ul][i]
            rest == DropFirst(w.RQ[ul], i - 1)
            v == WithRQ(u, ul, rest)
            u2 == HandleRead(u, r)
            c == HandleRead(v, r)
            d == WithRQ(c, ul, Tail(rest))
<1>1. /\ w.RQ[ul] \in Seq(ReqType) /\ w.room \in Nat
      /\ u \in CycleType /\ u.RQ = w.RQ /\ u.room = w.room - (i - 1)
  BY DEF CycleType, ReadGood
<1>2. /\ r \in ReqType /\ rest \in Seq(ReqType) /\ rest # <<>> /\ Head(rest) = r
      /\ Tail(rest) = DropFirst(w.RQ[ul], i) /\ Tail(rest) \in Seq(ReqType)
  <2>. PICK q : q = w.RQ[ul]
    OBVIOUS
  <2>1. q \in Seq(ReqType) /\ i \in 1..Len(q)
    BY <1>1
  <2>2. /\ q[i] \in ReqType /\ DropFirst(q, i - 1) \in Seq(ReqType) /\ DropFirst(q, i - 1) # <<>>
        /\ Head(DropFirst(q, i - 1)) = q[i]
        /\ Tail(DropFirst(q, i - 1)) = DropFirst(q, i) /\ DropFirst(q, i) \in Seq(ReqType)
    BY <2>1, DropNext, ZenonT(60)
  <2>. QED  BY <2>2
<1>. HIDE DEF r, rest
<1>3. Kept(v, came) /\ WaitingIn(v) = WaitingIn(w)
  BY DEF ReadGood, rest
<1>4. v = WithRQ(u, ul, rest)
  OBVIOUS
<1>. HIDE DEF v
<1>5. /\ v \in CycleType /\ v.RQ[ul] = rest /\ v.room # 0
  <2>1. v \in CycleType /\ v.RQ[ul] = rest /\ v.room = u.room
    <3>1. u \in CycleType /\ rest \in Seq(ReqType)
      BY <1>1, <1>2
    <3>. QED  BY <1>4, <3>1, WithRQTyped
  <2>. QED  BY <1>1, <2>1
<1>6. Kept(d, came) /\ WaitingIn(d) = WaitingIn(v)
  <2>1. d = WithRQ(HandleRead(v, Head(v.RQ[ul])), ul, Tail(v.RQ[ul])) /\ v.RQ[ul] # <<>>
    BY <1>2, <1>5
  <2>. HIDE DEF d
  <2>. QED  BY <1>3, <1>5, <2>1, HandleReadKeeps
<1>7. /\ c = WithRQ(u2, ul, rest) /\ u2 = WithRQ(c, ul, w.RQ[ul])
      /\ u2.finished = u.finished /\ u2.room = u.room - 1 /\ u2.answered = u.answered
      /\ u2.RQ = u.RQ /\ u2.fills = u.fills /\ u2.reads = u.reads
  BY <1>1, <1>2, <1>4, HandleReadApart
<1>8. d = WithRQ(c, ul, Tail(rest)) /\ d \in CycleType
  BY <1>6 DEF Kept
<1>. HIDE DEF u2, c, d
<1>9. d = WithRQ(u2, ul, Tail(rest))
  <2>. DEFINE x == [u2.RQ EXCEPT ![ul] = rest]
              y == [x EXCEPT ![ul] = Tail(rest)]
  <2>1. c = [u2 EXCEPT !.RQ = x] /\ d = [c EXCEPT !.RQ = [c.RQ EXCEPT ![ul] = Tail(rest)]]
    BY <1>7, <1>8 DEF WithRQ
  <2>2. y = [u2.RQ EXCEPT ![ul] = Tail(rest)]
    BY <1>1, <1>7 DEF CycleType
  <2>3. "RQ" \in DOMAIN u2
    <3>1. "RQ" \in DOMAIN d
      BY <1>8 DEF CycleType
    <3>. HIDE DEF x
    <3>. QED  BY <2>1, <3>1
  <2>. HIDE DEF x
  <2>4. c.RQ = x
    BY <2>1, <2>3
  <2>5. d = [c EXCEPT !.RQ = y]
    BY <2>1, <2>4
  <2>. HIDE DEF y
  <2>6. d = [u2 EXCEPT !.RQ = y]
    BY <2>1, <2>5
  <2>. QED  BY <2>2, <2>6 DEF WithRQ
<1>10. u2 \in CycleType
  <2>. PICK q : q = u2.RQ
    OBVIOUS
  <2>1. q \in [Ul -> Seq(ReqType)]
    BY <1>1, <1>7 DEF CycleType
  <2>. PICK y : y = [u2.RQ EXCEPT ![ul] = Tail(rest)]
    OBVIOUS
  <2>2. d = [u2 EXCEPT !.RQ = y]
    BY <1>9 DEF WithRQ
  <2>3. u2 = [u2 EXCEPT !.RQ = u2.RQ]
    <3>1. u2 = [c EXCEPT !.RQ = [c.RQ EXCEPT ![ul] = w.RQ[ul]]]
      BY <1>7 DEF WithRQ
    <3>. PICK z : z = [c.RQ EXCEPT ![ul] = w.RQ[ul]]
      OBVIOUS
    <3>2. u2 = [c EXCEPT !.RQ = z]
      BY <3>1
    <3>. QED  BY <3>2
  <2>4. u2 = [d EXCEPT !.RQ = q]
    BY <2>2, <2>3
  <2>. QED  BY <1>8, <2>1, <2>4 DEF CycleType
<1>11. WithRQ(u2, ul, DropFirst(w.RQ[ul], i)) = d
  BY <1>2, <1>9
<1>12. u2.room = w.room - i
  BY <1>1, <1>7
<1>13. ReadGood(w, came, ul, u2, i)
  BY <1>1, <1>3, <1>6, <1>7, <1>10, <1>11, <1>12 DEF ReadGood
<1>. QED  BY <1>13 DEF u2, r

LEMMA ReadRounds ==
  ASSUME NEW w, NEW q, NEW k \in Nat, NEW f, Loop(f, k, "read", w, q)
  PROVE  f[0] = w /\ \A i \in 1..k : f[i] = HandleRead(f[i - 1], q[i])
<1>1. \A u, x : Step("read", u, x) = HandleRead(u, x)
  BY DEF Step
<1>2. f[0] = w /\ \A i \in 1..k : f[i] = Step("read", f[i - 1], q[i])
  BY LoopRounds
<1>. QED  BY <1>1, <1>2

LEMMA ReadLoop ==
  ASSUME NEW w, NEW came, Kept(w, came), NEW ul \in Ul, NEW q, q = w.RQ[ul], NEW k \in 0..Len(q), k <= w.room,
         NEW f, f[0] = w, \A i \in 1..k : f[i] = HandleRead(f[i - 1], q[i])
  PROVE  ReadGood(w, came, ul, f[k], k)
<1>. DEFINE S == {i \in 0..k : ~ReadGood(w, came, ul, f[i], i)}
<1>1. /\ w \in CycleType /\ q \in Seq(ReqType) /\ w.room \in Nat /\ Len(q) \in Nat
      /\ w.RQ \in [Ul -> Seq(ReqType)]
  BY DEF Kept, CycleType
<1>2. f[0] = w /\ \A i \in 1..k : f[i] = HandleRead(f[i - 1], q[i])
  OBVIOUS
<1>3. ReadGood(w, came, ul, f[0], 0)
  <2>1. WithRQ(w, ul, DropFirst(w.RQ[ul], 0)) = w
    <3>1. DropFirst(q, 0) = q
      BY <1>1 DEF DropFirst
    <3>2. [w.RQ EXCEPT ![ul] = w.RQ[ul]] = w.RQ
      BY <1>1
    <3>. QED  BY <1>1, <3>1, <3>2 DEF WithRQ, CycleType
  <2>2. w.room - 0 = w.room
    BY <1>1
  <2>. QED  BY <1>1, <1>2, <2>1, <2>2 DEF ReadGood
<1>4. ASSUME NEW i \in 1..k, ReadGood(w, came, ul, f[i - 1], i - 1) PROVE ReadGood(w, came, ul, f[i], i)
  <2>1. i \in 1..Len(q) /\ i <= w.room
    BY <1>1
  <2>2. f[i] = HandleRead(f[i - 1], q[i])
    BY <1>2
  <2>3. ReadGood(w, came, ul, HandleRead(f[i - 1], q[i]), i)
    BY <1>1, <1>4, <2>1, ReadRound
  <2>. QED  BY <2>2, <2>3
<1>5. S = {}
  <2>1. k \in Nat /\ 0 \notin S /\ S \subseteq 0..k
    BY <1>1, <1>3
  <2>2. \A i \in 1..k : i - 1 \notin S => i \notin S
    BY <1>1, <1>4
  <2>. HIDE DEF S
  <2>. QED  BY <2>1, <2>2, NoFirst
<1>. QED  BY <1>1, <1>5

LEMMA WithRQBoth ==
  ASSUME NEW u \in CycleType, NEW d \in CycleType, NEW ul \in Ul, NEW q \in Seq(ReqType),
         d.RQ = u.RQ, d.vm = u.vm, d.MSHR = u.MSHR, d.completed = u.completed, d.below = u.below,
         d.next = u.next, d.finished = u.finished, d.answered = u.answered,
         NEW v, v = WithRQ(u, ul, q), NEW c, c = WithRQ(d, ul, q)
  PROVE  /\ v \in CycleType /\ v.vm = u.vm /\ v.pscl = u.pscl
         /\ c \in CycleType /\ c.pscl = d.pscl /\ c.vm = v.vm /\ c.MSHR = v.MSHR
         /\ c.finished = v.finished /\ c.completed = v.completed /\ c.below = v.below
         /\ c.answered = v.answered /\ c.next = v.next /\ c.RQ = v.RQ
<1>. PICK p : p = [u.RQ EXCEPT ![ul] = q]
  OBVIOUS
<1>1. p \in [Ul -> Seq(ReqType)]
  BY DEF CycleType
<1>2. v = [u EXCEPT !.RQ = p] /\ c = [d EXCEPT !.RQ = p]
  BY DEF WithRQ
<1>3. ASSUME NEW x \in CycleType, NEW y, y = [x EXCEPT !.RQ = p]
      PROVE  /\ y \in CycleType /\ y.RQ = p /\ y.vm = x.vm /\ y.pscl = x.pscl /\ y.MSHR = x.MSHR
             /\ y.finished = x.finished /\ y.completed = x.completed /\ y.below = x.below
             /\ y.answered = x.answered /\ y.next = x.next
  BY ONLY <1>1, <1>3 DEF CycleType
<1>4. /\ v \in CycleType /\ v.RQ = p /\ v.vm = u.vm /\ v.pscl = u.pscl /\ v.MSHR = u.MSHR
      /\ v.finished = u.finished /\ v.completed = u.completed /\ v.below = u.below
      /\ v.answered = u.answered /\ v.next = u.next
  BY <1>2, <1>3
<1>5. /\ c \in CycleType /\ c.RQ = p /\ c.vm = d.vm /\ c.pscl = d.pscl /\ c.MSHR = d.MSHR
      /\ c.finished = d.finished /\ c.completed = d.completed /\ c.below = d.below
      /\ c.answered = d.answered /\ c.next = d.next
  BY <1>2, <1>3
<1>. QED  BY <1>4, <1>5

(* The read that finds no room only looks the PSCLs up. *)
LEMMA ReadPscls ==
  ASSUME NEW w, NEW came, Kept(w, came), NEW ul \in Ul, NEW q, q = w.RQ[ul], NEW k \in 0..Len(q),
         NEW u, ReadGood(w, came, ul, u, k), NEW r
  PROVE  RightPscls(u.vm, HandleRead(u, r).pscl)
<1>. DEFINE rest == DropFirst(q, k)
            v == WithRQ(u, ul, rest)
            t == [l \in 1..TOP |-> Touched(u.pscl[l], r.v, l)]
<1>1. q \in Seq(ReqType) /\ u \in CycleType
  BY DEF Kept, CycleType, ReadGood
<1>2. rest \in Seq(ReqType)
  BY <1>1, DropFirstIs
<1>. HIDE DEF rest
<1>3. Kept(v, came)
  BY DEF ReadGood, rest
<1>4. v = WithRQ(u, ul, rest)
  OBVIOUS
<1>. HIDE DEF v
<1>5. v.vm = u.vm /\ v.pscl = u.pscl
  BY <1>1, <1>2, <1>4, WithRQBoth
<1>6. RightPscls(v.vm, t)
  <2>1. t = [l \in 1..TOP |-> Touched(v.pscl[l], r.v, l)]
    BY <1>5
  <2>. HIDE DEF t
  <2>2. RightPscls(v.vm, [l \in 1..TOP |-> Touched(v.pscl[l], r.v, l)])
    BY <1>3, TouchedPscls
  <2>. QED  BY <2>1, <2>2
<1>7. HandleRead(u, r).pscl = t
  <2>. PICK b, x : /\ b = u.below (+) SetToBag({BlockOf(WalkInit(u, r).address)})
                   /\ x = Append(u.next, Sent(WalkInit(u, r)))
    OBVIOUS
  <2>1. HandleRead(u, r) =
           [vm |-> u.vm, RQ |-> u.RQ, MSHR |-> u.MSHR, finished |-> u.finished,
            completed |-> u.completed, pscl |-> t, below |-> b,
            answered |-> u.answered, next |-> x,
            room |-> u.room - 1, fills |-> u.fills, reads |-> u.reads]
    BY <1>1, HandleReadRecord
  <2>. HIDE DEF t
  <2>. QED  BY <2>1
<1>. HIDE DEF t
<1>. QED  BY <1>5, <1>6, <1>7

LEMMA ReadRefused ==
  ASSUME NEW w, NEW came, Kept(w, came), NEW ul \in Ul, NEW q, q = w.RQ[ul], NEW k \in 0..Len(q),
         NEW u, ReadGood(w, came, ul, u, k), NEW d \in CycleType, RightPscls(u.vm, d.pscl),
         d.RQ = u.RQ, d.vm = u.vm, d.MSHR = u.MSHR, d.completed = u.completed, d.below = u.below,
         d.next = u.next, d.finished = u.finished, d.answered = u.answered,
         d.room = u.room, d.reads = u.reads, d.fills = u.fills
  PROVE  ReadGood(w, came, ul, d, k)
<1>. DEFINE rest == DropFirst(q, k)
            v == WithRQ(u, ul, rest)
            c == WithRQ(d, ul, rest)
<1>1. q \in Seq(ReqType) /\ u \in CycleType
  BY DEF Kept, CycleType, ReadGood
<1>2. rest \in Seq(ReqType)
  BY <1>1, DropFirstIs
<1>. HIDE DEF rest
<1>3. Kept(v, came) /\ WaitingIn(v) = WaitingIn(w)
  BY DEF ReadGood, rest
<1>4. v = WithRQ(u, ul, rest) /\ c = WithRQ(d, ul, rest)
  OBVIOUS
<1>5. c = WithRQ(d, ul, DropFirst(w.RQ[ul], k))
  BY <1>4 DEF rest
<1>. HIDE DEF v, c
<1>6. /\ v \in CycleType /\ v.vm = u.vm
      /\ c \in CycleType /\ c.pscl = d.pscl /\ c.vm = v.vm /\ c.MSHR = v.MSHR
      /\ c.finished = v.finished /\ c.completed = v.completed /\ c.below = v.below
      /\ c.answered = v.answered /\ c.next = v.next /\ c.RQ = v.RQ
  BY <1>1, <1>2, <1>4, WithRQBoth
<1>7. RightPscls(v.vm, c.pscl)
  BY <1>6
<1>8. Kept(c, came) /\ WaitingIn(c) = WaitingIn(v)
  BY <1>3, <1>6, <1>7, PsclsChanged
<1>9. /\ u.RQ = w.RQ /\ u.room = w.room - k
      /\ u.answered = w.answered /\ u.reads = w.reads /\ u.fills = w.fills
  BY DEF ReadGood
<1>. QED  BY <1>3, <1>5, <1>8, <1>9 DEF ReadGood

LEMMA ReadKeeps ==
  ASSUME NEW w, NEW came, Kept(w, came), NEW ul \in Ul, NEW d, d = Read(w, ul)
  PROVE  /\ Kept(d, came) /\ WaitingIn(d) = WaitingIn(w) /\ d.answered = w.answered
         /\ Widens(w, d)
<1>. DEFINE q == w.RQ[ul]
            k == Least({Len(q), w.reads, w.room})
            tries == Least({Len(q), w.reads})
            F(f) == [i \in 0..k |-> IF i = 0 THEN w ELSE HandleRead(f[i - 1], q[i])]
            f == CHOOSE f : f = F(f)
            tried == IF k < tries THEN [f[k] EXCEPT !.pscl = HandleRead(f[k], q[k + 1]).pscl]
                     ELSE f[k]
<1>1. d = [tried EXCEPT !.RQ[ul] = DropFirst(@, k), !.reads = @ - k]
  BY ZenonT(60) DEF Read
<1>2. /\ w \in CycleType /\ q \in Seq(ReqType) /\ w.reads \in Nat /\ w.room \in Nat
      /\ Len(q) \in Nat
  BY DEF Kept, CycleType
<1>3. /\ k \in Nat /\ k \in 0..Len(q) /\ k <= w.room /\ k <= w.reads
  <2>. PICK S : S = {Len(q), w.reads, w.room}
    OBVIOUS
  <2>1. S \subseteq Nat /\ S # {}
    BY <1>2
  <2>2. Least(S) \in S /\ \A y \in S : Least(S) <= y
    BY <2>1, FirstFound
  <2>3. Len(q) \in S /\ w.reads \in S /\ w.room \in S /\ Least(S) \in Nat
    BY <2>1, <2>2
  <2>4. k = Least(S)
    OBVIOUS
  <2>. HIDE DEF k
  <2>. QED  BY <1>2, <2>2, <2>3, <2>4
<1>. HIDE DEF k, tries
<1>5. \A g : g = F(g) <=> Loop(g, k, "read", w, q)
  BY DEF Loop, Step
<1>6. \E g : g = F(g)
  BY <1>3, <1>5, LoopExists
<1>7. f = F(f)
  BY <1>6
<1>. HIDE DEF f
<1>8. ReadGood(w, came, ul, f[k], k)
  <2>. PICK p : p = q
    OBVIOUS
  <2>1. Loop(f, k, "read", w, p) /\ k \in Nat
    BY <1>3, <1>5, <1>7
  <2>2. f[0] = w /\ \A i \in 1..k : f[i] = HandleRead(f[i - 1], p[i])
    BY ONLY <2>1, ReadRounds
  <2>3. k \in 0..Len(p) /\ k <= w.room
    BY <1>3
  <2>. QED  BY <2>2, <2>3, ReadLoop
<1>. HIDE DEF F
<1>9. ReadGood(w, came, ul, tried, k)
  <2>1. CASE k < tries
    <3>. PICK u : u = f[k]
      OBVIOUS
    <3>. PICK t : t = HandleRead(u, q[k + 1]).pscl
      OBVIOUS
    <3>1. tried = [u EXCEPT !.pscl = t]
      BY <2>1
    <3>2. RightPscls(u.vm, t)
      BY <1>3, <1>8, ReadPscls
    <3>3. t \in [1..TOP -> Seq(PsclType)] /\ u \in CycleType
      BY <1>8, <3>2 DEF RightPscls, ReadGood
    <3>. HIDE DEF tried
    <3>4. /\ tried \in CycleType /\ tried.pscl = t
          /\ tried.RQ = u.RQ /\ tried.vm = u.vm /\ tried.MSHR = u.MSHR
          /\ tried.completed = u.completed /\ tried.below = u.below
          /\ tried.next = u.next /\ tried.finished = u.finished /\ tried.answered = u.answered
          /\ tried.room = u.room /\ tried.reads = u.reads /\ tried.fills = u.fills
      BY <3>1, <3>3 DEF CycleType
    <3>5. RightPscls(u.vm, tried.pscl)
      BY <3>2, <3>4
    <3>. QED  BY <1>3, <1>8, <3>4, <3>5, ReadRefused
  <2>2. CASE ~(k < tries)
    BY <1>8, <2>2
  <2>. QED  BY <2>1, <2>2
<1>a. Widens(w, f[k]) /\ Whole(f[k])
  <2>1. Loop(f, k, "read", w, q)
    BY <1>5, <1>7
  <2>2. \A u, x : Step("read", u, x) = HandleRead(u, x)
    BY DEF Step
  <2>3. \A u, x : Whole(u) => Widens(u, Step("read", u, x))
    BY <2>2, HandleReadWidens
  <2>4. Whole(w)
    BY <1>2, CycleWhole
  <2>5. Widens(w, f[k])
    BY <1>3, <2>1, <2>3, <2>4, LoopWidens
  <2>. QED  BY <2>4, <2>5, WidensOn
<1>b. DOMAIN tried = DOMAIN f[k] /\ tried.vm = f[k].vm
  BY <1>a DEF Whole
<1>. HIDE DEF tried
<1>c. Widens(w, d)
  <2>. PICK p1 : d = [tried EXCEPT !.RQ = p1, !.reads = @ - k]
    BY <1>1
  <2>1. DOMAIN d = DOMAIN tried /\ d.vm = tried.vm
    BY <1>a, <1>b DEF Whole
  <2>. QED  BY <1>a, <1>b, <2>1 DEF Widens
<1>. DEFINE v == WithRQ(tried, ul, DropFirst(q, k))
<1>10. /\ Kept(v, came) /\ WaitingIn(v) = WaitingIn(w)
       /\ tried \in CycleType /\ tried.RQ = w.RQ
       /\ tried.answered = w.answered /\ tried.reads = w.reads
  BY <1>9 DEF ReadGood
<1>11. DropFirst(q, k) \in Seq(ReqType)
  BY <1>2, <1>3, DropFirstIs
<1>12. v = WithRQ(tried, ul, DropFirst(q, k))
  OBVIOUS
<1>13. d = [v EXCEPT !.reads = w.reads - k]
  <2>. PICK p1 : p1 = [tried.RQ EXCEPT ![ul] = DropFirst(q, k)]
    OBVIOUS
  <2>1. d = [tried EXCEPT !.RQ = p1, !.reads = w.reads - k]
    BY <1>1, <1>10
  <2>2. v = [tried EXCEPT !.RQ = p1]
    BY DEF WithRQ
  <2>. HIDE DEF v
  <2>. QED  BY <1>10, <2>1, <2>2 DEF CycleType
<1>. HIDE DEF v
<1>14. v \in CycleType /\ v.answered = w.answered
  BY <1>10, <1>11, <1>12, WithRQTyped
<1>15. w.reads - k \in Nat
  BY <1>2, <1>3
<1>16. /\ d \in CycleType /\ d.answered = v.answered /\ d.RQ = v.RQ
       /\ d.pscl = v.pscl /\ d.vm = v.vm /\ d.MSHR = v.MSHR /\ d.finished = v.finished
       /\ d.completed = v.completed /\ d.below = v.below /\ d.next = v.next
  BY <1>13, <1>14, <1>15 DEF CycleType
<1>17. RightPscls(v.vm, d.pscl)
  BY <1>10, <1>14, <1>16 DEF Kept, RightPscls, Paths, Sized, CycleType
<1>18. Kept(d, came) /\ WaitingIn(d) = WaitingIn(v)
  BY <1>10, <1>16, <1>17, PsclsChanged
<1>. QED  BY <1>c, <1>10, <1>14, <1>16, <1>18, SMTT(40)

LEMMA ReadAllKeeps ==
  ASSUME NEW w, NEW came, Kept(w, came), NEW d, d = ReadAll(w)
  PROVE  /\ Kept(d, came) /\ WaitingIn(d) = WaitingIn(w) /\ d.answered = w.answered
         /\ Widens(w, d)
<1>. DEFINE N == Len(Upper)
            F(f) == [u \in 0..N |-> IF u = 0 THEN w ELSE Read(f[u - 1], Upper[u])]
            f == CHOOSE f : f = F(f)
            Good(u) == /\ Kept(u, came) /\ WaitingIn(u) = WaitingIn(w)
                       /\ u.answered = w.answered /\ Widens(w, u)
            S == {i \in 0..N : ~Good(f[i])}
<1>1. N \in Nat /\ \A i \in 1..N : Upper[i] \in Ul
  BY WalkerAssumption
<1>2. d = f[N]
  BY DEF ReadAll
<1>. HIDE DEF N
<1>3. \A g : g = F(g) <=> Loop(g, N, "level", w, Upper)
  BY DEF Loop, Step
<1>4. \E g : g = F(g)
  BY <1>1, <1>3, LoopExists
<1>5. f = F(f)
  BY <1>4
<1>. HIDE DEF f
<1>6. Loop(f, N, "level", w, Upper)
  BY <1>3, <1>5
<1>. HIDE DEF F
<1>7. f[0] = w /\ \A i \in 1..N : f[i] = Read(f[i - 1], Upper[i])
  <2>1. \A u, x : Step("level", u, x) = Read(u, x)
    BY DEF Step
  <2>2. f[0] = w /\ \A i \in 1..N : f[i] = Step("level", f[i - 1], Upper[i])
    BY <1>1, <1>6, LoopRounds
  <2>. QED  BY <2>1, <2>2
<1>8. \A i \in 1..N : Good(f[i - 1]) => Good(f[i])
  <2>. SUFFICES ASSUME NEW i \in 1..N, Good(f[i - 1]) PROVE Good(f[i])
    OBVIOUS
  <2>1. f[i] = Read(f[i - 1], Upper[i]) /\ Upper[i] \in Ul
    BY <1>1, <1>7
  <2>2. /\ Kept(f[i], came) /\ WaitingIn(f[i]) = WaitingIn(f[i - 1])
        /\ f[i].answered = f[i - 1].answered /\ Widens(f[i - 1], f[i])
    BY <2>1, ReadKeeps
  <2>3. Widens(w, f[i])
    BY <2>2, WidensOn
  <2>. QED  BY <2>2, <2>3
<1>9. S = {}
  <2>1. 0 \notin S /\ S \subseteq 0..N
    BY <1>7, WidensOn
  <2>2. \A i \in 1..N : i - 1 \notin S => i \notin S
    BY <1>1, <1>8
  <2>. HIDE DEF S
  <2>. QED  BY <1>1, <2>1, <2>2, NoFirst
<1>. QED  BY <1>1, <1>2, <1>9

-----------------------------------------------------------------------------
(* partition: the places that change are paired, the first of the ones that  *)
(* go with the last of the ones that come, so that it is a permutation.      *)
Chain(S, f) ==
  /\ f \in [S -> SUBSET S] /\ \A i \in S : i \notin f[i]
  /\ \A i, j \in S : i # j => (i \in f[j] /\ f[i] \subseteq f[j]) \/ (j \in f[i] /\ f[j] \subseteq f[i])
Ranks(S, f) ==
  /\ \A i \in S : Cardinality(f[i]) \in 0..Cardinality(S) - 1
  /\ \A i, j \in S : Cardinality(f[i]) = Cardinality(f[j]) => i = j
  /\ \A c \in 0..Cardinality(S) - 1 : \E i \in S : Cardinality(f[i]) = c

LEMMA Ranked ==
  ASSUME NEW S, IsFiniteSet(S), NEW f, Chain(S, f)
  PROVE  Ranks(S, f)
<1>. USE DEF Chain
<1>. DEFINE n == Cardinality(S)
            g == [i \in S |-> Cardinality(f[i])]
<1>1. n \in Nat
  BY FS_CardinalityType
<1>2. \A i \in S : IsFiniteSet(f[i]) /\ Cardinality(f[i]) \in Nat
  BY FS_Subset, FS_CardinalityType
<1>3. ASSUME NEW i \in S PROVE Cardinality(f[i]) \in 0..n - 1
  <2>1. f[i] \in SUBSET S /\ f[i] # S
    OBVIOUS
  <2>2. Cardinality(f[i]) <= n /\ Cardinality(f[i]) # n
    BY <2>1, FS_Subset
  <2>. HIDE DEF n
  <2>. QED  BY <1>1, <1>2, <2>2
<1>4. ASSUME NEW i \in S, NEW j \in S, Cardinality(f[i]) = Cardinality(f[j]) PROVE i = j
  <2>1. ASSUME NEW a \in S, NEW b \in S, a \in f[b], f[a] \subseteq f[b]
        PROVE  Cardinality(f[a]) # Cardinality(f[b])
    <3>1. f[a] # f[b]
      BY <2>1
    <3>. QED  BY <1>2, <2>1, <3>1, FS_Subset
  <2>. QED  BY <1>4, <2>1
<1>5. g \in Injection(S, 0..n - 1)
  BY <1>3, <1>4 DEF Injection, IsInjective
<1>. HIDE DEF n
<1>6. IsFiniteSet(0..n - 1) /\ Cardinality(0..n - 1) = n
  BY <1>1, FS_Interval
<1>7. g \in Surjection(S, 0..n - 1)
  <2>. HIDE DEF g
  <2>. QED  BY <1>5, <1>6, FS_Injection DEF n
<1>8. \A c \in 0..n - 1 : \E i \in S : g[i] = c
  BY <1>7 DEF Surjection
<1>. QED  BY <1>3, <1>4, <1>8 DEF n, Ranks, g

Before(i, S) == Cardinality({k \in S : k < i})
After(i, S) == Cardinality({k \in S : k > i})

LEMMA RanksAre ==
  ASSUME NEW n \in Nat, NEW S, S \subseteq 1..n
  PROVE  /\ \A i \in S : Before(i, S) \in 0..Cardinality(S) - 1 /\ After(i, S) \in 0..Cardinality(S) - 1
         /\ \A i, j \in S : Before(i, S) = Before(j, S) => i = j
         /\ \A i, j \in S : After(i, S) = After(j, S) => i = j
         /\ \A c \in 0..Cardinality(S) - 1 : \E i \in S : Before(i, S) = c
         /\ \A c \in 0..Cardinality(S) - 1 : \E i \in S : After(i, S) = c
<1>. DEFINE f == [i \in S |-> {k \in S : k < i}]
            g == [i \in S |-> {k \in S : k > i}]
<1>1. IsFiniteSet(S)
  <2>1. IsFiniteSet(1..n)
    BY FS_Interval
  <2>. QED  BY <2>1, FS_Subset
<1>2. /\ \A i \in S : f[i] = {k \in S : k < i}
      /\ \A i \in S : g[i] = {k \in S : k > i}
      /\ f \in [S -> SUBSET S] /\ g \in [S -> SUBSET S]
  OBVIOUS
<1>. HIDE DEF f, g
<1>3. \A i, k \in S : (k \in f[i] <=> k < i) /\ (k \in g[i] <=> k > i)
  BY <1>2
<1>4. \A i, j, k \in S : /\ ~(i < i) /\ ~(i > i) /\ (i # j => i < j \/ j < i)
                         /\ (k < i /\ i < j => k < j) /\ (k > i /\ i > j => k > j) /\ (i < j <=> j > i)
  OBVIOUS
<1>5. Chain(S, f)
  <2>1. ASSUME NEW i \in S, NEW j \in S, i < j PROVE i \in f[j] /\ f[i] \subseteq f[j]
    BY <1>2, <1>3, <1>4, <2>1
  <2>. QED  BY <1>2, <1>3, <1>4, <2>1 DEF Chain
<1>6. Chain(S, g)
  <2>1. ASSUME NEW i \in S, NEW j \in S, i > j PROVE i \in g[j] /\ g[i] \subseteq g[j]
    BY <1>2, <1>3, <1>4, <2>1
  <2>. QED  BY <1>2, <1>3, <1>4, <2>1 DEF Chain
<1>7. Ranks(S, f) /\ Ranks(S, g)
  BY <1>1, <1>5, <1>6, Ranked
<1>8. ASSUME NEW i \in S PROVE Before(i, S) = Cardinality(f[i]) /\ After(i, S) = Cardinality(g[i])
  <2>1. f[i] = {k \in S : k < i} /\ g[i] = {k \in S : k > i}
    BY <1>2
  <2>. QED  BY <2>1 DEF Before, After
<1>. QED  BY <1>7, <1>8 DEF Ranks

Goes(M) == (1..Cardinality(M)) \ M
Comes(M) == M \ (1..Cardinality(M))
Swap(M, n) ==
  [i \in 1..n |->
     IF i \in Goes(M) THEN CHOOSE k \in Comes(M) : After(k, Comes(M)) = Before(i, Goes(M))
     ELSE IF i \in Comes(M) THEN CHOOSE k \in Goes(M) : Before(k, Goes(M)) = After(i, Comes(M))
     ELSE i]

LEMMA SwapIs ==
  ASSUME NEW n \in Nat, NEW M, M \subseteq 1..n, NEW f, f = Swap(M, n)
  PROVE  /\ Cardinality(M) \in 0..n
         /\ f \in [1..n -> 1..n] /\ \A i \in 1..n : f[f[i]] = i
         /\ \A i \in 1..n : f[i] \in M <=> i <= Cardinality(M)
<1>. DEFINE m == Cardinality(M)
            out == Goes(M)
            in == Comes(M)
            There(i) == CHOOSE k \in in : After(k, in) = Before(i, out)
            Back(i) == CHOOSE k \in out : Before(k, out) = After(i, in)
<1>1. IsFiniteSet(M) /\ m \in Nat /\ m <= n
  <2>1. IsFiniteSet(1..n) /\ Cardinality(1..n) = n
    BY FS_Interval
  <2>. QED  BY <2>1, FS_Subset, FS_CardinalityType
<1>2. out = (1..m) \ M /\ in = M \ (1..m)
  BY DEF Goes, Comes
<1>3. Cardinality(out) = Cardinality(in)
  <2>1. IsFiniteSet(1..m) /\ Cardinality(1..m) = m
    BY <1>1, FS_Interval
  <2>. PICK a : a = 1..m
    OBVIOUS
  <2>2. /\ Cardinality(a \ M) = Cardinality(a) - Cardinality(a \cap M)
        /\ Cardinality(M \ a) = Cardinality(M) - Cardinality(M \cap a)
    BY <1>1, <2>1, FS_Difference
  <2>3. a \cap M = M \cap a
    OBVIOUS
  <2>. QED  BY <1>2, <2>1, <2>2, <2>3
<1>. HIDE DEF m
<1>4. out \subseteq 1..n /\ in \subseteq 1..n /\ out \cap in = {}
  BY <1>1, <1>2
<1>. HIDE DEF out, in
<1>5. /\ \A i \in out : Before(i, out) \in 0..Cardinality(out) - 1
      /\ \A i, j \in out : Before(i, out) = Before(j, out) => i = j
      /\ \A c \in 0..Cardinality(out) - 1 : \E i \in out : Before(i, out) = c
  BY <1>4, RanksAre
<1>6. /\ \A i \in in : After(i, in) \in 0..Cardinality(in) - 1
      /\ \A i, j \in in : After(i, in) = After(j, in) => i = j
      /\ \A c \in 0..Cardinality(in) - 1 : \E i \in in : After(i, in) = c
  BY <1>4, RanksAre
<1>7. ASSUME NEW i \in out PROVE There(i) \in in /\ After(There(i), in) = Before(i, out)
  <2>1. \E k \in in : After(k, in) = Before(i, out)
    BY <1>3, <1>5, <1>6
  <2>. QED  BY <2>1
<1>8. ASSUME NEW i \in in PROVE Back(i) \in out /\ Before(Back(i), out) = After(i, in)
  <2>1. \E k \in out : Before(k, out) = After(i, in)
    BY <1>3, <1>5, <1>6
  <2>. QED  BY <2>1
<1>9. f = [i \in 1..n |-> IF i \in out THEN There(i) ELSE IF i \in in THEN Back(i) ELSE i]
  BY DEF Swap, out, in
<1>. HIDE DEF There, Back
<1>10. /\ \A i \in out : f[i] = There(i)
       /\ \A i \in in : f[i] = Back(i)
       /\ \A i \in 1..n : i \notin out /\ i \notin in => f[i] = i
  BY <1>4, <1>9
<1>11. f \in [1..n -> 1..n]
  <2>1. ASSUME NEW i \in 1..n PROVE f[i] \in 1..n
    <3>1. CASE i \in out
      BY <1>4, <1>7, <1>10, <3>1
    <3>2. CASE i \in in
      BY <1>4, <1>8, <1>10, <3>2
    <3>3. CASE i \notin out /\ i \notin in
      BY <1>10, <3>3
    <3>. QED  BY <3>1, <3>2, <3>3
  <2>. QED  BY <1>9, <2>1
<1>12. ASSUME NEW i \in 1..n PROVE f[f[i]] = i
  <2>1. CASE i \in out
    <3>1. There(i) \in in /\ Back(There(i)) \in out /\ Before(Back(There(i)), out) = Before(i, out)
      BY <1>7, <1>8, <2>1
    <3>2. Back(There(i)) = i
      BY <1>5, <2>1, <3>1
    <3>. QED  BY <1>10, <2>1, <3>1, <3>2
  <2>2. CASE i \in in
    <3>1. Back(i) \in out /\ There(Back(i)) \in in /\ After(There(Back(i)), in) = After(i, in)
      BY <1>7, <1>8, <2>2
    <3>2. There(Back(i)) = i
      BY <1>6, <2>2, <3>1
    <3>. QED  BY <1>10, <2>2, <3>1, <3>2
  <2>3. CASE i \notin out /\ i \notin in
    BY <1>10, <2>3
  <2>. QED  BY <2>1, <2>2, <2>3
<1>13. ASSUME NEW i \in 1..n PROVE f[i] \in M <=> i <= m
  <2>1. CASE i \in out
    <3>1. f[i] \in in
      BY <1>7, <1>10, <2>1
    <3>. QED  BY <1>1, <1>2, <2>1, <3>1
  <2>2. CASE i \in in
    <3>1. f[i] \in out
      BY <1>8, <1>10, <2>2
    <3>. QED  BY <1>1, <1>2, <2>2, <3>1
  <2>3. CASE i \notin out /\ i \notin in
    BY <1>1, <1>2, <1>10, <2>3
  <2>. QED  BY <2>1, <2>2, <2>3
<1>. QED  BY <1>1, <1>11, <1>12, <1>13 DEF m

LEMMA PartitionedIs ==
  ASSUME NEW q \in Seq(WalkType), NEW block, NEW found, found = Partitioned(q, block)
  PROVE  /\ found.count \in 0..Len(q) /\ found.queue \in Seq(WalkType) /\ DOMAIN found.queue = DOMAIN q
         /\ Len(found.queue) = Len(q)
         /\ \A i \in DOMAIN q : BlockOf(found.queue[i].address) = block <=> i <= found.count
         /\ \E f \in [DOMAIN q -> DOMAIN q] : \A i \in DOMAIN q : f[f[i]] = i /\ found.queue[i] = q[f[i]]
<1>. DEFINE M == {i \in DOMAIN q : BlockOf(q[i].address) = block}
            n == Len(q)
            f == Swap(M, n)
<1>1. n \in Nat /\ DOMAIN q = 1..n /\ M \subseteq 1..n
  OBVIOUS
<1>2. /\ Cardinality(M) \in 0..n
      /\ f \in [1..n -> 1..n] /\ \A i \in 1..n : f[f[i]] = i
      /\ \A i \in 1..n : f[i] \in M <=> i <= Cardinality(M)
  <2>. HIDE DEF M, n
  <2>. QED  BY <1>1, SwapIs
<1>3. found.count = Cardinality(M)
  BY DEF Partitioned
<1>4. /\ found.queue = [i \in DOMAIN q |->
          IF i \in Goes(M) THEN q[CHOOSE k \in Comes(M) : After(k, Comes(M)) = Before(i, Goes(M))]
          ELSE IF i \in Comes(M) THEN q[CHOOSE k \in Goes(M) : Before(k, Goes(M)) = After(i, Comes(M))]
          ELSE q[i]]
  BY DEF Partitioned, Goes, Comes, Before, After
<1>5. \A i \in 1..n : M = M /\ (i \in M <=> BlockOf(q[i].address) = block)
  BY <1>1
<1>. HIDE DEF M, n
<1>6. \A i \in 1..n : found.queue[i] = q[f[i]]
  BY <1>1, <1>4 DEF Swap
<1>. HIDE DEF f
<1>7. DOMAIN found.queue = 1..n
  BY <1>1, <1>4
<1>8. \A i \in 1..n : q[f[i]] \in WalkType /\ (BlockOf(q[f[i]].address) = block <=> i <= Cardinality(M))
  BY <1>1, <1>2, <1>5
<1>9. found.queue \in [1..n -> WalkType]
  <2>1. \A i \in 1..n : found.queue[i] \in WalkType
    BY <1>6, <1>8
  <2>. QED  BY <1>1, <1>4, <2>1
<1>10. found.queue \in Seq(WalkType) /\ Len(found.queue) = n
  BY <1>1, <1>9
<1>11. \A i \in DOMAIN q : BlockOf(found.queue[i].address) = block <=> i <= found.count
  BY <1>1, <1>3, <1>6, <1>8
<1>12. \E g \in [DOMAIN q -> DOMAIN q] : \A i \in DOMAIN q : g[g[i]] = i /\ found.queue[i] = q[g[i]]
  BY <1>1, <1>2, <1>6
<1>. QED  BY <1>1, <1>2, <1>3, <1>7, <1>10, <1>11, <1>12 DEF n

-----------------------------------------------------------------------------
(* finish_packet: the walk at the head of the MSHRs has its answer.          *)
LEMMA MovedKeeps ==
  ASSUME NEW w, NEW came, Kept(w, came), w.MSHR # <<>>, NEW d \in CycleType,
         MemInv(d.vm), Grows(w.vm, d.vm), NEW x \in WalkType, x.id = Head(w.MSHR).id,
         d.MSHR = Tail(w.MSHR), d.next = w.next, d.pscl = w.pscl, d.below = w.below,
         d.answered = w.answered, d.RQ = w.RQ,
         \/ d.completed = w.completed /\ d.finished = Append(w.finished, x) /\ HasRead(d.vm, x)
         \/ d.finished = w.finished /\ d.completed = Append(w.completed, x) /\ Translates(d.vm, x)
  PROVE  Kept(d, came) /\ WaitingIn(d) = WaitingIn(w)
<1>. DEFINE p == <<"walks", "MSHR">>
            o == IF d.finished = w.finished THEN <<"walks", "completed">> ELSE <<"walks", "finished">>
<1>1. /\ w \in CycleType /\ Once(w) /\ WaitingIn(w) \cap w.answered = {}
      /\ w.MSHR \in Seq(WalkType) /\ w.finished \in Seq(WalkType) /\ w.completed \in Seq(WalkType)
  BY DEF Kept, CycleType
<1>2. Append(w.finished, x) # w.finished
  <2>1. Len(Append(w.finished, x)) = Len(w.finished) + 1 /\ Len(w.finished) \in Nat
    BY <1>1
  <2>. QED  BY <2>1
<1>3. /\ p \in Place /\ o \in Place /\ p # o
      /\ Queue(w, p) = w.MSHR /\ Queue(d, p) = Tail(w.MSHR)
      /\ Queue(d, o) = Append(Queue(w, o), x)
  <2>1. CASE d.finished = w.finished
    BY <1>2, <2>1 DEF Place, Queue
  <2>2. CASE d.finished # w.finished
    BY <1>2, <2>2 DEF Place, Queue
  <2>. QED  BY <2>1, <2>2
<1>4. ASSUME NEW r \in Place, r # p, r # o PROVE Queue(d, r) = Queue(w, r)
  <2>1. r = <<r[1], r[2]>> /\ (r[1] = "walks" => r[2] \in {"MSHR", "finished", "completed", "next"})
    BY DEF Place
  <2>2. CASE r[1] # "walks"
    BY <2>2 DEF Queue
  <2>3. CASE r[1] = "walks"
    <3>1. r[2] # "MSHR"
      BY <1>4, <2>1, <2>3
    <3>2. r[2] = "finished" => d.finished = w.finished
      BY <1>4, <2>1, <2>3
    <3>3. r[2] = "completed" => d.completed = w.completed
      BY <1>4, <2>1, <2>3
    <3>. QED  BY <2>1, <2>3, <3>1, <3>2, <3>3 DEF Queue
  <2>. QED  BY <2>2, <2>3
<1>. HIDE DEF p, o
<1>5. Once(d) /\ WaitingIn(d) = WaitingIn(w)
  BY <1>1, <1>3, <1>4, Hop, SMTT(40)
<1>6. /\ MemInv(w.vm) /\ Rooted(w.vm) /\ Rooted(d.vm)
      /\ \A i \in DOMAIN w.MSHR : ReadsPath(d.vm, w.MSHR[i])
      /\ \A i \in DOMAIN w.next : ReadsPath(d.vm, w.next[i])
      /\ \A i \in DOMAIN w.finished : HasRead(d.vm, w.finished[i])
      /\ \A i \in DOMAIN w.completed : Translates(d.vm, w.completed[i])
      /\ \A l \in 1..TOP : \A i \in DOMAIN w.pscl[l] : Remembers(d.vm, l, w.pscl[l][i])
  <2>1. MemInv(w.vm) /\ Rooted(w.vm)
    BY DEF Kept, Paths
  <2>2. Rooted(d.vm)
    BY <2>1, RootStays
  <2>3. /\ \A e : ReadsPath(w.vm, e) => ReadsPath(d.vm, e)
        /\ \A e : HasRead(w.vm, e) => HasRead(d.vm, e)
        /\ \A e : Translates(w.vm, e) => Translates(d.vm, e)
        /\ \A l, e : Remembers(w.vm, l, e) => Remembers(d.vm, l, e)
    BY <2>1, PathStays
  <2>. QED  BY <2>1, <2>2, <2>3 DEF Kept, Paths
<1>7. \A i \in DOMAIN d.MSHR : i + 1 \in DOMAIN w.MSHR /\ d.MSHR[i] = w.MSHR[i + 1]
  <2>. PICK q : q = w.MSHR
    OBVIOUS
  <2>1. q \in Seq(WalkType) /\ q # <<>> /\ d.MSHR = Tail(q)
    BY <1>1
  <2>2. \A i \in DOMAIN Tail(q) : i + 1 \in DOMAIN q /\ Tail(q)[i] = q[i + 1]
    BY <2>1
  <2>. QED  BY <2>1, <2>2
<1>8. \A i \in DOMAIN d.finished : HasRead(d.vm, d.finished[i])
  <2>1. CASE d.finished = w.finished
    BY <1>6, <2>1
  <2>2. CASE d.finished = Append(w.finished, x) /\ HasRead(d.vm, x)
    <3>1. \A i \in DOMAIN d.finished : (i \in DOMAIN w.finished /\ d.finished[i] = w.finished[i]) \/ d.finished[i] = x
      BY <1>1, <2>2
    <3>. QED  BY <1>6, <2>2, <3>1
  <2>. QED  BY <2>1, <2>2
<1>9. \A i \in DOMAIN d.completed : Translates(d.vm, d.completed[i])
  <2>1. CASE d.completed = w.completed
    BY <1>6, <2>1
  <2>2. CASE d.completed = Append(w.completed, x) /\ Translates(d.vm, x)
    <3>1. \A i \in DOMAIN d.completed : (i \in DOMAIN w.completed /\ d.completed[i] = w.completed[i]) \/ d.completed[i] = x
      BY <1>1, <2>2
    <3>. QED  BY <1>6, <2>2, <3>1
  <2>. QED  BY <2>1, <2>2
<1>10. Paths(d)
  <2>1. \A i \in DOMAIN d.MSHR : ReadsPath(d.vm, d.MSHR[i])
    BY <1>6, <1>7
  <2>. QED  BY <1>6, <1>8, <1>9, <2>1 DEF Paths
<1>11. Sized(d)
  BY DEF Kept, Sized
<1>12. Awaits(d, came)
  <2>1. \A i \in DOMAIN w.MSHR :
          \/ BagIn(BlockOf(w.MSHR[i].address), w.below)
          \/ \E k \in DOMAIN came : came[k] = BlockOf(w.MSHR[i].address)
    BY DEF Kept, Awaits
  <2>2. \A i \in DOMAIN d.MSHR :
          \/ BagIn(BlockOf(d.MSHR[i].address), d.below)
          \/ \E k \in DOMAIN came : came[k] = BlockOf(d.MSHR[i].address)
    BY <1>7, <2>1
  <2>3. \A i \in DOMAIN d.next : BagIn(BlockOf(d.next[i].address), d.below)
    BY DEF Kept, Awaits
  <2>. QED  BY <2>2, <2>3 DEF Awaits
<1>. QED  BY <1>1, <1>5, <1>10, <1>11, <1>12 DEF Kept

(* finish_step and finish_last_step, as seen from the record before. *)
WithMSHR(w, q) == [w EXCEPT !.MSHR = q]

LEMMA FinishWalkIs ==
  ASSUME NEW w \in CycleType, MemInv(w.vm), NEW e \in WalkType, NEW d, d = FinishWalk(w, e)
  PROVE  /\ d \in CycleType /\ MemInv(d.vm) /\ Grows(w.vm, d.vm)
         /\ d.MSHR = w.MSHR /\ d.next = w.next /\ d.pscl = w.pscl /\ d.below = w.below
         /\ d.answered = w.answered /\ d.RQ = w.RQ /\ d.fills = w.fills
         /\ \E x \in WalkType :
              /\ x.id = e.id
              /\ \/ d.completed = w.completed /\ d.finished = Append(w.finished, x) /\ HasRead(d.vm, x)
                 \/ d.finished = w.finished /\ d.completed = Append(w.completed, x) /\ Translates(d.vm, x)
<1>. DEFINE Late(fault) == HIT_LATENCY + (IF fault THEN FAULT_PENALTY ELSE 0)
<1>1. /\ CPU \in Cpu /\ e.v \in VPage /\ e.level \in 0..TOP
      /\ \A fault \in BOOLEAN : Late(fault) \in Nat
      /\ w.finished \in Seq(WalkType) /\ w.completed \in Seq(WalkType)
  <2>1. HIT_LATENCY \in Nat /\ FAULT_PENALTY \in Nat /\ CPU \in Cpu
    BY WalkerAssumption
  <2>2. \A fault \in BOOLEAN : Late(fault) \in Nat
    BY <2>1
  <2>. HIDE DEF Late
  <2>. QED  BY <2>1, <2>2 DEF WalkType, CycleType
<1>2. CASE e.level = 0
  <2>. DEFINE m == Translated(w.vm, CPU, e.v)
              late == Late(PageFault(w.vm, CPU, e.v))
              data == InPage(PageOf(m, CPU, e.v))
              x == [e EXCEPT !.data = data, !.ready_in = late]
  <2>1. MemInv(m) /\ Grows(w.vm, m) /\ ~PageFault(m, CPU, e.v)
    BY <1>1, TranslatedGood DEF PageFault
  <2>2. late \in Nat
    BY <1>1 DEF PageFault
  <2>3. d = [w EXCEPT !.vm = m, !.completed = Append(w.completed, x)]
    BY <1>2 DEF FinishWalk, FinishedLastStep
  <2>. HIDE DEF m, late
  <2>4. m \in VMType /\ data \in DataType
    BY <2>1, PageTyped DEF MemInv
  <2>. HIDE DEF data
  <2>5. x \in WalkType /\ x.id = e.id /\ x.v = e.v /\ x.data = data
    BY <2>2, <2>4 DEF WalkType
  <2>6. Translates(m, x)
    <3>. HIDE DEF x
    <3>. QED  BY <2>1, <2>5 DEF Translates, data
  <2>. HIDE DEF x
  <2>. PICK q : q = Append(w.completed, x)
    OBVIOUS
  <2>7. q \in Seq(WalkType) /\ d = [w EXCEPT !.vm = m, !.completed = q]
    BY <1>1, <2>3, <2>5
  <2>8. /\ d \in CycleType /\ d.vm = m /\ d.completed = q /\ d.finished = w.finished
        /\ d.MSHR = w.MSHR /\ d.next = w.next /\ d.pscl = w.pscl /\ d.below = w.below
        /\ d.answered = w.answered /\ d.RQ = w.RQ /\ d.fills = w.fills
    BY <2>4, <2>7 DEF CycleType
  <2>. QED  BY <2>1, <2>5, <2>6, <2>8
<1>3. CASE e.level # 0
  <2>. DEFINE m == WithTable(w.vm, CPU, e.v, e.level)
              late == Late(TableFault(w.vm, CPU, e.v, e.level))
              data == Entry(m, CPU, e.v, e.level)
              x == [e EXCEPT !.data = data, !.ready_in = late]
  <2>0. e.level \in Level /\ e.level \in 1..TOP /\ e.v[e.level] \in Offset
    <3>1. e.level \in 1..TOP
      BY <1>1, <1>3, LevelsAre
    <3>. QED  BY <1>1, <3>1, LevelsAre
  <2>1. MemInv(m) /\ Grows(w.vm, m) /\ ~TableFault(m, CPU, e.v, e.level)
    BY <1>1, <2>0, WithTableGood DEF TableFault
  <2>2. late \in Nat
    BY <1>1 DEF TableFault
  <2>3. d = [w EXCEPT !.vm = m, !.finished = Append(w.finished, x)]
    BY <1>3 DEF FinishWalk, FinishedStep
  <2>. HIDE DEF m, late
  <2>4. m \in VMType /\ data \in DataType
    <3>1. m \in VMType
      BY <2>1 DEF MemInv
    <3>2. data \in AddressType
      BY <2>0, <2>1, <3>1, EntryTyped
    <3>. QED  BY <3>1, <3>2 DEF DataType
  <2>. HIDE DEF data
  <2>5. x \in WalkType /\ x.id = e.id /\ x.v = e.v /\ x.data = data /\ x.level = e.level
    BY <2>2, <2>4 DEF WalkType
  <2>6. HasRead(m, x)
    <3>. HIDE DEF x
    <3>. QED  BY <1>3, <2>1, <2>5 DEF HasRead, data
  <2>. HIDE DEF x
  <2>. PICK q : q = Append(w.finished, x)
    OBVIOUS
  <2>7. q \in Seq(WalkType) /\ d = [w EXCEPT !.vm = m, !.finished = q]
    BY <1>1, <2>3, <2>5
  <2>8. /\ d \in CycleType /\ d.vm = m /\ d.finished = q /\ d.completed = w.completed
        /\ d.MSHR = w.MSHR /\ d.next = w.next /\ d.pscl = w.pscl /\ d.below = w.below
        /\ d.answered = w.answered /\ d.RQ = w.RQ /\ d.fills = w.fills
    BY <2>4, <2>7 DEF CycleType
  <2>. QED  BY <2>1, <2>5, <2>6, <2>8
<1>. QED  BY <1>2, <1>3

LEMMA FinishWalkKeeps ==
  ASSUME NEW w, NEW came, Kept(w, came), w.MSHR # <<>>,
         NEW u, u = FinishWalk(w, Head(w.MSHR)), NEW d, d = WithMSHR(u, Tail(w.MSHR))
  PROVE  Kept(d, came) /\ WaitingIn(d) = WaitingIn(w)
<1>. DEFINE e == Head(w.MSHR)
<1>1. w \in CycleType /\ w.MSHR \in Seq(WalkType) /\ MemInv(w.vm)
  BY DEF Kept, CycleType, Paths
<1>2. e \in WalkType /\ Tail(w.MSHR) \in Seq(WalkType)
  BY <1>1
<1>. HIDE DEF e
<1>3. /\ u \in CycleType /\ MemInv(u.vm) /\ Grows(w.vm, u.vm)
      /\ u.MSHR = w.MSHR /\ u.next = w.next /\ u.pscl = w.pscl /\ u.below = w.below
      /\ u.answered = w.answered /\ u.RQ = w.RQ /\ u.fills = w.fills
      /\ \E x \in WalkType :
           /\ x.id = e.id
           /\ \/ u.completed = w.completed /\ u.finished = Append(w.finished, x) /\ HasRead(u.vm, x)
              \/ u.finished = w.finished /\ u.completed = Append(w.completed, x) /\ Translates(u.vm, x)
  <2>1. u = FinishWalk(w, e)
    BY DEF e
  <2>. QED  BY <1>1, <1>2, <2>1, FinishWalkIs
<1>4. /\ d \in CycleType /\ d.MSHR = Tail(w.MSHR) /\ d.vm = u.vm /\ d.next = u.next /\ d.pscl = u.pscl
      /\ d.below = u.below /\ d.answered = u.answered /\ d.RQ = u.RQ
      /\ d.completed = u.completed /\ d.finished = u.finished
  <2>. PICK q : q = Tail(w.MSHR)
    OBVIOUS
  <2>1. d = [u EXCEPT !.MSHR = q] /\ q \in Seq(WalkType)
    BY <1>2 DEF WithMSHR
  <2>. QED  BY <1>3, <2>1 DEF CycleType
<1>5. PICK x \in WalkType :
           /\ x.id = e.id
           /\ \/ u.completed = w.completed /\ u.finished = Append(w.finished, x) /\ HasRead(u.vm, x)
              \/ u.finished = w.finished /\ u.completed = Append(w.completed, x) /\ Translates(u.vm, x)
  BY <1>3
<1>6. /\ MemInv(d.vm) /\ Grows(w.vm, d.vm) /\ x.id = Head(w.MSHR).id
      /\ d.next = w.next /\ d.pscl = w.pscl /\ d.below = w.below
      /\ d.answered = w.answered /\ d.RQ = w.RQ
      /\ \/ d.completed = w.completed /\ d.finished = Append(w.finished, x) /\ HasRead(d.vm, x)
         \/ d.finished = w.finished /\ d.completed = Append(w.completed, x) /\ Translates(d.vm, x)
  BY <1>3, <1>4, <1>5 DEF e
<1>. QED  BY <1>4, <1>6, MovedKeeps

LEMMA FinishWalkApart ==
  ASSUME NEW w \in CycleType, NEW e \in WalkType, NEW q \in Seq(WalkType),
         NEW v, v = WithMSHR(w, q)
  PROVE  FinishWalk(v, e) = WithMSHR(FinishWalk(w, e), q)
<1>1. v.vm = w.vm /\ v = [w EXCEPT !.MSHR = q] /\ v.completed = w.completed /\ v.finished = w.finished
  BY DEF WithMSHR, CycleType
<1>2. CASE e.level = 0
  <2>. PICK m, x : /\ m = Translated(w.vm, CPU, e.v)
                   /\ x = [e EXCEPT !.data = InPage(PageOf(m, CPU, e.v)),
                                    !.ready_in = HIT_LATENCY + (IF PageFault(w.vm, CPU, e.v) THEN FAULT_PENALTY ELSE 0)]
    OBVIOUS
  <2>1. FinishWalk(w, e) = [w EXCEPT !.vm = m, !.completed = Append(@, x)]
    BY <1>2 DEF FinishWalk, FinishedLastStep
  <2>2. FinishWalk(v, e) = [v EXCEPT !.vm = m, !.completed = Append(@, x)]
    BY <1>1, <1>2 DEF FinishWalk, FinishedLastStep
  <2>. PICK c : c = Append(w.completed, x)
    OBVIOUS
  <2>3. FinishWalk(w, e) = [w EXCEPT !.vm = m, !.completed = c]
    BY <2>1
  <2>4. FinishWalk(v, e) = [v EXCEPT !.vm = m, !.completed = c]
    BY <1>1, <2>2
  <2>. QED  BY <1>1, <2>3, <2>4, ZenonT(60) DEF WithMSHR, CycleType
<1>3. CASE e.level # 0
  <2>. PICK m, x : /\ m = WithTable(w.vm, CPU, e.v, e.level)
                   /\ x = [e EXCEPT !.data = Entry(m, CPU, e.v, e.level),
                                    !.ready_in = HIT_LATENCY + (IF TableFault(w.vm, CPU, e.v, e.level) THEN FAULT_PENALTY ELSE 0)]
    OBVIOUS
  <2>1. FinishWalk(w, e) = [w EXCEPT !.vm = m, !.finished = Append(@, x)]
    BY <1>3 DEF FinishWalk, FinishedStep
  <2>2. FinishWalk(v, e) = [v EXCEPT !.vm = m, !.finished = Append(@, x)]
    BY <1>1, <1>3 DEF FinishWalk, FinishedStep
  <2>. PICK c : c = Append(w.finished, x)
    OBVIOUS
  <2>3. FinishWalk(w, e) = [w EXCEPT !.vm = m, !.finished = c]
    BY <2>1
  <2>4. FinishWalk(v, e) = [v EXCEPT !.vm = m, !.finished = c]
    BY <1>1, <2>2
  <2>. QED  BY <1>1, <2>3, <2>4, ZenonT(60) DEF WithMSHR, CycleType
<1>. QED  BY <1>2, <1>3

(* The loop over the walks that wait for the block, as Fill's.               *)
FinishGood(w, q, came, u, i) ==
  /\ u \in CycleType /\ u.answered = w.answered /\ u.fills = w.fills
  /\ LET v == WithMSHR(u, DropFirst(q, i))
     IN  Kept(v, came) /\ WaitingIn(v) = WaitingIn(w)

LEMMA FinishRound ==
  ASSUME NEW w, NEW q \in Seq(WalkType), NEW came, NEW i \in 1..Len(q),
         NEW u, FinishGood(w, q, came, u, i - 1)
  PROVE  FinishGood(w, q, came, FinishWalk(u, q[i]), i)
<1>. DEFINE e == q[i]
            rest == DropFirst(q, i - 1)
            v == WithMSHR(u, rest)
            u2 == FinishWalk(u, e)
            c == FinishWalk(v, e)
            d == WithMSHR(c, Tail(rest))
<1>1. /\ e \in WalkType /\ rest \in Seq(WalkType) /\ rest # <<>> /\ Head(rest) = e
      /\ Tail(rest) = DropFirst(q, i) /\ Tail(rest) \in Seq(WalkType)
  BY DropNext
<1>2. Kept(v, came) /\ WaitingIn(v) = WaitingIn(w) /\ u \in CycleType
      /\ u.answered = w.answered /\ u.fills = w.fills
  BY DEF FinishGood
<1>. HIDE DEF e, rest
<1>3. v = WithMSHR(u, rest)
  OBVIOUS
<1>4. /\ v.MSHR = rest /\ v.vm = u.vm
  BY <1>2 DEF WithMSHR, CycleType
<1>. HIDE DEF v
<1>5. Kept(d, came) /\ WaitingIn(d) = WaitingIn(v)
  <2>1. c = FinishWalk(v, Head(v.MSHR)) /\ d = WithMSHR(c, Tail(v.MSHR)) /\ v.MSHR # <<>>
    BY <1>1, <1>4
  <2>. HIDE DEF c, d
  <2>. QED  BY <1>2, <2>1, FinishWalkKeeps
<1>6. MemInv(u.vm)
  BY <1>2, <1>4 DEF Kept, Paths
<1>7. u2 \in CycleType /\ u2.answered = u.answered /\ u2.fills = u.fills
  BY <1>1, <1>2, <1>6, FinishWalkIs
<1>8. c = WithMSHR(u2, rest)
  BY <1>1, <1>2, <1>3, FinishWalkApart
<1>9. d = WithMSHR(u2, Tail(rest))
  <2>. HIDE DEF c, u2
  <2>. QED  BY <1>7, <1>8 DEF WithMSHR, CycleType
<1>. HIDE DEF c, d, u2
<1>10. d = WithMSHR(u2, DropFirst(q, i))
  BY <1>1, <1>9
<1>11. FinishGood(w, q, came, u2, i)
  BY <1>2, <1>5, <1>7, <1>10 DEF FinishGood
<1>. QED  BY <1>11 DEF u2, e

LEMMA FinishLoop ==
  ASSUME NEW w, NEW q \in Seq(WalkType), NEW came, FinishGood(w, q, came, w, 0),
         NEW n \in 0..Len(q), NEW f, Loop(f, n, "walk", w, q)
  PROVE  FinishGood(w, q, came, f[n], n)
<1>. DEFINE S == {i \in 0..n : ~FinishGood(w, q, came, f[i], i)}
<1>1. n \in Nat
  OBVIOUS
<1>2. f[0] = w /\ \A i \in 1..n : f[i] = FinishWalk(f[i - 1], q[i])
  <2>1. \A u, x : Step("walk", u, x) = FinishWalk(u, x)
    BY DEF Step
  <2>2. f[0] = w /\ \A i \in 1..n : f[i] = Step("walk", f[i - 1], q[i])
    BY <1>1, LoopRounds
  <2>. QED  BY <2>1, <2>2
<1>3. ASSUME NEW i \in 1..n, FinishGood(w, q, came, f[i - 1], i - 1)
      PROVE  FinishGood(w, q, came, f[i], i)
  <2>1. i \in 1..Len(q) /\ f[i] = FinishWalk(f[i - 1], q[i])
    BY <1>2
  <2>2. FinishGood(w, q, came, FinishWalk(f[i - 1], q[i]), i)
    BY <1>3, <2>1, FinishRound
  <2>. QED  BY <2>1, <2>2
<1>4. S = {}
  <2>1. 0 \notin S /\ S \subseteq 0..n
    BY <1>2
  <2>2. \A i \in 1..n : i - 1 \notin S => i \notin S
    BY <1>1, <1>3
  <2>. HIDE DEF S
  <2>. QED  BY <1>1, <2>1, <2>2, NoFirst
<1>. QED  BY <1>1, <1>4

(* The walks that wait for the block go to the front of the MSHRs. *)
LEMMA PartitionKeeps ==
  ASSUME NEW w, NEW came, Kept(w, came), NEW block, NEW q, q = Partitioned(w.MSHR, block).queue,
         NEW d, d = WithMSHR(w, q)
  PROVE  Kept(d, came) /\ WaitingIn(d) = WaitingIn(w)
<1>. DEFINE p == <<"walks", "MSHR">>
<1>1. w \in CycleType /\ Once(w) /\ w.MSHR \in Seq(WalkType) /\ WaitingIn(w) \cap w.answered = {}
  BY DEF Kept, CycleType
<1>2. /\ q \in Seq(WalkType) /\ DOMAIN q = DOMAIN w.MSHR
      /\ \E f \in [DOMAIN w.MSHR -> DOMAIN w.MSHR] :
            \A i \in DOMAIN w.MSHR : f[f[i]] = i /\ q[i] = w.MSHR[f[i]]
  <2>. PICK found : found = Partitioned(w.MSHR, block)
    OBVIOUS
  <2>. PICK m : m = w.MSHR
    OBVIOUS
  <2>1. /\ found.queue \in Seq(WalkType) /\ DOMAIN found.queue = DOMAIN m
        /\ \E f \in [DOMAIN m -> DOMAIN m] : \A i \in DOMAIN m : f[f[i]] = i /\ found.queue[i] = m[f[i]]
    BY <1>1, PartitionedIs
  <2>. QED  BY <2>1
<1>3. PICK f \in [DOMAIN w.MSHR -> DOMAIN w.MSHR] :
            \A i \in DOMAIN w.MSHR : f[f[i]] = i /\ q[i] = w.MSHR[f[i]]
  BY <1>2
<1>4. /\ d \in CycleType /\ d.MSHR = q /\ d.vm = w.vm /\ d.next = w.next /\ d.pscl = w.pscl
      /\ d.below = w.below /\ d.answered = w.answered /\ d.RQ = w.RQ
      /\ d.completed = w.completed /\ d.finished = w.finished
  BY <1>1, <1>2 DEF WithMSHR, CycleType
<1>5. p \in Place /\ Queue(w, p) = w.MSHR /\ Queue(d, p) = q
  BY <1>4 DEF Place, Queue
<1>6. ASSUME NEW r \in Place, r # p PROVE Queue(d, r) = Queue(w, r)
  <2>1. r = <<r[1], r[2]>> /\ (r[1] = "walks" => r[2] \in {"MSHR", "finished", "completed", "next"})
    BY DEF Place
  <2>2. r[1] = "walks" => r[2] # "MSHR"
    BY <1>6, <2>1
  <2>. QED  BY <1>4, <2>1, <2>2 DEF Queue
<1>. HIDE DEF p
<1>7. /\ \A i, j \in DOMAIN w.MSHR : f[i] = f[j] => i = j
      /\ \A i \in DOMAIN w.MSHR : \E j \in DOMAIN w.MSHR : f[j] = i
  BY <1>3
<1>8. Once(d) /\ WaitingIn(d) = WaitingIn(w)
  <2>1. /\ Permutes(f, DOMAIN Queue(w, p)) /\ DOMAIN Queue(d, p) = DOMAIN Queue(w, p)
        /\ \A i \in DOMAIN Queue(w, p) : Queue(d, p)[i] = Queue(w, p)[f[i]]
    BY <1>2, <1>3, <1>5, <1>7 DEF Permutes
  <2>2. w \in CycleType /\ d \in CycleType /\ Once(w) /\ p \in Place
    BY <1>1, <1>4, <1>5
  <2>3. \A r \in Place : r # p => Queue(d, r) = Queue(w, r)
    BY <1>6
  <2>. QED  BY ONLY <2>1, <2>2, <2>3, Reordered
<1>9. \A i \in DOMAIN d.MSHR : f[i] \in DOMAIN w.MSHR /\ d.MSHR[i] = w.MSHR[f[i]]
  BY <1>2, <1>3, <1>4
<1>10. Paths(d)
  BY <1>4, <1>9 DEF Kept, Paths
<1>11. Sized(d)
  BY <1>4 DEF Kept, Sized
<1>12. Awaits(d, came)
  BY <1>4, <1>9 DEF Kept, Awaits
<1>. QED  BY <1>1, <1>4, <1>8, <1>10, <1>11, <1>12 DEF Kept

LEMMA FinishPacketKeeps ==
  ASSUME NEW w, NEW came \in Seq(BlockType), came # <<>>, Kept(w, came),
         NEW d, d = FinishPacket(w, Head(came))
  PROVE  /\ Kept(d, Tail(came)) /\ WaitingIn(d) = WaitingIn(w) /\ d.answered = w.answered
         /\ Widens(w, d)
<1>. DEFINE block == Head(came)
            found == Partitioned(w.MSHR, block)
            n == found.count
            q == found.queue
            F(f) == [i \in 0..n |-> IF i = 0 THEN w
                                    ELSE IF q[i].level = 0 THEN FinishedLastStep(f[i - 1], q[i])
                                    ELSE FinishedStep(f[i - 1], q[i])]
            f == CHOOSE f : f = F(f)
<1>1. d = [f[n] EXCEPT !.MSHR = DropFirst(q, n)]
  BY ZenonT(60) DEF FinishPacket
<1>2. w \in CycleType /\ w.MSHR \in Seq(WalkType)
  BY DEF Kept, CycleType
<1>3. /\ n \in 0..Len(w.MSHR) /\ q \in Seq(WalkType) /\ Len(q) = Len(w.MSHR)
      /\ \A i \in DOMAIN q : BlockOf(q[i].address) = block <=> i <= n
  <2>1. /\ found.count \in 0..Len(w.MSHR) /\ found.queue \in Seq(WalkType)
        /\ DOMAIN found.queue = DOMAIN w.MSHR /\ Len(found.queue) = Len(w.MSHR)
        /\ \A i \in DOMAIN w.MSHR : BlockOf(found.queue[i].address) = block <=> i <= found.count
    BY <1>2, PartitionedIs
  <2>. HIDE DEF found
  <2>. QED  BY <2>1
<1>4. q = Partitioned(w.MSHR, block).queue
  OBVIOUS
<1>. HIDE DEF n, q
<1>5. n \in Nat /\ n \in 0..Len(q)
  BY <1>2, <1>3
<1>6. \A g : g = F(g) <=> Loop(g, n, "walk", w, q)
  BY DEF Loop, Step, FinishWalk
<1>7. \E g : g = F(g)
  BY <1>5, <1>6, LoopExists
<1>8. f = F(f)
  BY <1>7
<1>. HIDE DEF f
<1>9. Loop(f, n, "walk", w, q)
  BY <1>6, <1>8
<1>. HIDE DEF F
<1>10. FinishGood(w, q, came, w, 0)
  <2>1. DropFirst(q, 0) = q
    BY <1>3 DEF DropFirst
  <2>2. Kept(WithMSHR(w, q), came) /\ WaitingIn(WithMSHR(w, q)) = WaitingIn(w)
    BY <1>4, PartitionKeeps
  <2>. QED  BY <1>2, <2>1, <2>2 DEF FinishGood
<1>11. FinishGood(w, q, came, f[n], n)
  BY <1>3, <1>5, <1>9, <1>10, FinishLoop
<1>12. /\ Kept(d, came) /\ WaitingIn(d) = WaitingIn(w) /\ f[n] \in CycleType /\ f[n].answered = w.answered
  BY <1>1, <1>11 DEF FinishGood, WithMSHR
<1>13. d.MSHR = DropFirst(q, n) /\ d.answered = w.answered
  BY <1>1, <1>12 DEF CycleType
<1>a. Widens(w, d)
  <2>2. \A u, x : Step("walk", u, x) = FinishWalk(u, x)
    BY DEF Step
  <2>3. \A u, x : Whole(u) => Widens(u, Step("walk", u, x))
    BY <2>2, FinishWalkWidens
  <2>4. Whole(w)
    BY <1>2, CycleWhole
  <2>5. Widens(w, f[n]) /\ Whole(f[n])
    BY <1>5, <1>9, <2>3, <2>4, LoopWidens, WidensOn
  <2>6. DOMAIN d = DOMAIN f[n] /\ d.vm = f[n].vm
    BY <1>1, <2>5 DEF Whole
  <2>. QED  BY <2>5, <2>6 DEF Widens
<1>14. \A i \in DOMAIN d.MSHR : BlockOf(d.MSHR[i].address) # block
  <2>. PICK r : r = DropFirst(q, n)
    OBVIOUS
  <2>1. \A i \in DOMAIN r : n + i \in DOMAIN q /\ ~(n + i <= n) /\ r[i] = q[n + i]
    BY <1>3, <1>5, Dropped
  <2>2. ASSUME NEW i \in DOMAIN r PROVE BlockOf(r[i].address) # block
    BY <1>3, <2>1
  <2>. QED  BY <1>13, <2>2
<1>15. Awaits(d, Tail(came))
  <2>1. block = came[1] /\ \A k \in DOMAIN came : k # 1 => k - 1 \in DOMAIN Tail(came) /\ Tail(came)[k - 1] = came[k]
    <3>1. \A k \in DOMAIN came : k # 1 => k - 1 \in 1..(Len(came) - 1) /\ (k - 1) + 1 = k
      OBVIOUS
    <3>2. DOMAIN Tail(came) = 1..(Len(came) - 1) /\ \A j \in 1..(Len(came) - 1) : Tail(came)[j] = came[j + 1]
      OBVIOUS
    <3>3. block = came[1]
      OBVIOUS
    <3>. QED  BY <3>1, <3>2, <3>3
  <2>2. \A i \in DOMAIN d.MSHR :
          \/ BagIn(BlockOf(d.MSHR[i].address), d.below)
          \/ \E k \in DOMAIN came : came[k] = BlockOf(d.MSHR[i].address)
    BY <1>12 DEF Kept, Awaits
  <2>3. ASSUME NEW i \in DOMAIN d.MSHR, ~BagIn(BlockOf(d.MSHR[i].address), d.below)
        PROVE  \E k \in DOMAIN Tail(came) : Tail(came)[k] = BlockOf(d.MSHR[i].address)
    <3>1. PICK k \in DOMAIN came : came[k] = BlockOf(d.MSHR[i].address)
      BY <2>2, <2>3
    <3>2. k # 1
      BY <1>14, <2>1, <3>1
    <3>. QED  BY <2>1, <3>1, <3>2
  <2>4. \A i \in DOMAIN d.next : BagIn(BlockOf(d.next[i].address), d.below)
    BY <1>12 DEF Kept, Awaits
  <2>. QED  BY <2>3, <2>4 DEF Awaits
<1>. QED  BY <1>a, <1>12, <1>13, <1>15, SMTT(40) DEF Kept

LEMMA FinishPacketsKeeps ==
  ASSUME returned \in Seq(BlockType), NEW w, Kept(w, returned), NEW d, d = FinishPackets(w)
  PROVE  /\ Kept(d, <<>>) /\ WaitingIn(d) = WaitingIn(w) /\ d.answered = w.answered
         /\ Widens(w, d)
<1>. DEFINE N == Len(returned)
            F(f) == [i \in 0..N |-> IF i = 0 THEN w ELSE FinishPacket(f[i - 1], returned[i])]
            f == CHOOSE f : f = F(f)
            Good(u, i) == /\ Kept(u, DropFirst(returned, i)) /\ Widens(w, u)
                          /\ WaitingIn(u) = WaitingIn(w) /\ u.answered = w.answered
            S == {i \in 0..N : ~Good(f[i], i)}
<1>1. N \in Nat
  OBVIOUS
<1>2. d = f[N]
  BY DEF FinishPackets
<1>3. \A g : g = F(g) <=> Loop(g, N, "packet", w, returned)
  BY DEF Loop, Step
<1>4. \E g : g = F(g)
  BY <1>1, <1>3, LoopExists
<1>5. f = F(f)
  BY <1>4
<1>. HIDE DEF f
<1>6. Loop(f, N, "packet", w, returned)
  BY <1>3, <1>5
<1>. HIDE DEF F
<1>7. f[0] = w /\ \A i \in 1..N : f[i] = FinishPacket(f[i - 1], returned[i])
  <2>1. \A u, x : Step("packet", u, x) = FinishPacket(u, x)
    BY DEF Step
  <2>2. f[0] = w /\ \A i \in 1..N : f[i] = Step("packet", f[i - 1], returned[i])
    BY <1>1, <1>6, LoopRounds
  <2>. QED  BY <2>1, <2>2
<1>8. \A i \in 1..N : Good(f[i - 1], i - 1) => Good(f[i], i)
  <2>. SUFFICES ASSUME NEW i \in 1..N, Good(f[i - 1], i - 1) PROVE Good(f[i], i)
    OBVIOUS
  <2>. PICK came : came = DropFirst(returned, i - 1)
    OBVIOUS
  <2>1. /\ came \in Seq(BlockType) /\ came # <<>> /\ Head(came) = returned[i]
        /\ Tail(came) = DropFirst(returned, i)
    BY DropNext
  <2>2. Kept(f[i - 1], came) /\ f[i] = FinishPacket(f[i - 1], Head(came))
    BY <1>7, <2>1
  <2>3. /\ Kept(f[i], Tail(came)) /\ WaitingIn(f[i]) = WaitingIn(f[i - 1])
        /\ f[i].answered = f[i - 1].answered /\ Widens(f[i - 1], f[i])
    BY <2>1, <2>2, FinishPacketKeeps
  <2>4. Widens(w, f[i])
    BY <2>3, WidensOn
  <2>. QED  BY <2>1, <2>3, <2>4
<1>9. Good(f[0], 0)
  <2>1. DropFirst(returned, 0) = returned
    BY DEF DropFirst
  <2>. QED  BY <1>7, <2>1, WidensOn
<1>10. S = {}
  <2>1. 0 \notin S /\ S \subseteq 0..N
    BY <1>9
  <2>2. \A i \in 1..N : i - 1 \notin S => i \notin S
    BY <1>1, <1>8
  <2>. HIDE DEF S
  <2>. QED  BY <1>1, <2>1, <2>2, NoFirst
<1>11. Good(f[N], N)
  BY <1>1, <1>10
<1>12. DropFirst(returned, N) = <<>>
  BY DEF DropFirst
<1>. QED  BY <1>2, <1>11, <1>12

-----------------------------------------------------------------------------
(* The walks that are answered wait no longer.                              *)
LEMMA CompleteKeeps ==
  ASSUME NEW w, NEW came, Kept(w, came), NEW d, d = Complete(w)
  PROVE  /\ Kept(d, came) /\ w.answered \subseteq d.answered
         /\ d.answered \ w.answered \subseteq WaitingIn(w)
         /\ WaitingIn(d) = WaitingIn(w) \ (d.answered \ w.answered)
         /\ d.vm = w.vm
<1>. DEFINE n == ReadyPrefix(w.completed, w.fills)
            r == DropFirst(w.completed, n)
            ids == {w.completed[i].id : i \in 1..n}
            p == <<"walks", "completed">>
<1>1. /\ w \in CycleType /\ Once(w) /\ w.completed \in Seq(WalkType) /\ w.fills \in Nat
      /\ WaitingIn(w) \cap w.answered = {}
  BY DEF Kept, CycleType
<1>2. n \in 0..Len(w.completed) /\ n <= w.fills
  BY <1>1, ReadyPrefixIs
<1>3. d = [w EXCEPT !.answered = w.answered \cup ids, !.completed = r, !.fills = w.fills - n]
  BY DEF Complete
<1>. HIDE DEF n
<1>4. /\ r \in Seq(WalkType) /\ DOMAIN r = 1..(Len(w.completed) - n)
      /\ \A i \in DOMAIN r : n + i \in DOMAIN w.completed /\ ~(n + i <= n) /\ r[i] = w.completed[n + i]
  <2>1. r \in Seq(WalkType) /\ DOMAIN r = 1..(Len(w.completed) - n)
    BY <1>1, <1>2 DEF DropFirst
  <2>. PICK q : q = w.completed
    OBVIOUS
  <2>2. \A i \in DOMAIN DropFirst(q, n) :
           n + i \in DOMAIN q /\ ~(n + i <= n) /\ DropFirst(q, n)[i] = q[n + i]
    BY <1>1, <1>2, Dropped
  <2>. QED  BY <2>1, <2>2
<1>. HIDE DEF r
<1>5. ids \subseteq Ids /\ w.fills - n \in Nat
  <2>1. \A i \in 1..n : w.completed[i].id \in Ids
    <3>1. \A i \in 1..n : w.completed[i] \in WalkType
      BY <1>1, <1>2
    <3>. QED  BY <3>1 DEF WalkType
  <2>2. w.fills - n \in Nat
    BY <1>1, <1>2
  <2>. QED  BY <2>1, <2>2
<1>6. \A i \in 1..n : i \in DOMAIN w.completed
  BY <1>1, <1>2
<1>7. \A id : id \in ids <=> \E i \in 1..n : w.completed[i].id = id
  OBVIOUS
<1>. HIDE DEF ids
<1>8. /\ d \in CycleType /\ d.answered = w.answered \cup ids /\ d.completed = r
      /\ d.vm = w.vm /\ d.RQ = w.RQ /\ d.MSHR = w.MSHR /\ d.finished = w.finished
      /\ d.pscl = w.pscl /\ d.below = w.below /\ d.next = w.next
  BY <1>1, <1>3, <1>4, <1>5, ZenonT(60) DEF CycleType
<1>9. p \in Place /\ Queue(w, p) = w.completed /\ Queue(d, p) = r
  BY <1>8 DEF Place, Queue
<1>10. ASSUME NEW o \in Place, o # p PROVE Queue(d, o) = Queue(w, o)
  <2>1. o = <<o[1], o[2]>> /\ (o[1] = "walks" => o[2] \in {"MSHR", "finished", "completed", "next"})
    BY DEF Place
  <2>2. o[1] = "walks" => o[2] # "completed"
    BY <1>10, <2>1
  <2>. QED  BY <1>8, <2>1, <2>2 DEF Queue
<1>. HIDE DEF p
<1>. DEFINE At(o, i) == IF o = p THEN n + i ELSE i
<1>11. \A o \in Place : \A i \in DOMAIN Queue(d, o) :
          /\ At(o, i) \in DOMAIN Queue(w, o) /\ Queue(d, o)[i] = Queue(w, o)[At(o, i)]
          /\ o = p => ~(At(o, i) <= n)
  BY <1>4, <1>9, <1>10
<1>12. \A o \in Place : \A i, j \in DOMAIN Queue(d, o) : At(o, i) = At(o, j) => i = j
  BY <1>2, <1>4, <1>9
<1>13. \A i \in DOMAIN w.completed : i \in 1..n \/ (i - n \in DOMAIN r /\ r[i - n] = w.completed[i])
  <2>. SUFFICES ASSUME NEW i \in DOMAIN w.completed, i \notin 1..n
                PROVE  i - n \in DOMAIN r /\ r[i - n] = w.completed[i]
    OBVIOUS
  <2>1. i \in Nat /\ i > n /\ i <= Len(w.completed) /\ n + (i - n) = i
    BY <1>1, <1>2
  <2>2. i - n \in DOMAIN r
    BY <1>1, <1>2, <1>4, <2>1
  <2>. QED  BY <1>4, <2>1, <2>2
<1>. HIDE DEF At
<1>14. Once(d)
  <2>. SUFFICES ASSUME NEW o \in Place, NEW s \in Place, NEW i \in DOMAIN Queue(d, o),
                       NEW j \in DOMAIN Queue(d, s), Queue(d, o)[i].id = Queue(d, s)[j].id
                PROVE  o = s /\ i = j
    BY DEF Once
  <2>1. o = s /\ At(o, i) = At(s, j)
    BY <1>1, <1>11 DEF Once
  <2>. QED  BY <1>12, <2>1
<1>15. ids \subseteq WaitingIn(w)
  BY <1>5, <1>6, <1>7, <1>9 DEF WaitingIn
<1>16. WaitingIn(d) \subseteq WaitingIn(w) \ ids
  <2>. SUFFICES ASSUME NEW id \in WaitingIn(d) PROVE id \in WaitingIn(w) /\ id \notin ids
    OBVIOUS
  <2>1. PICK o \in Place : \E i \in DOMAIN Queue(d, o) : Queue(d, o)[i].id = id
    BY DEF WaitingIn
  <2>2. PICK i \in DOMAIN Queue(d, o) : Queue(d, o)[i].id = id
    BY <2>1
  <2>3. At(o, i) \in DOMAIN Queue(w, o) /\ Queue(w, o)[At(o, i)].id = id
    BY <1>11, <2>2
  <2>4. \A k \in 1..n : w.completed[k].id # id
    <3>. SUFFICES ASSUME NEW k \in 1..n, w.completed[k].id = id PROVE FALSE
      OBVIOUS
    <3>1. k \in DOMAIN Queue(w, p) /\ Queue(w, p)[k].id = id
      BY <1>6, <1>9
    <3>2. o = p /\ At(o, i) = k
      BY <1>1, <1>9, <2>3, <3>1 DEF Once
    <3>3. ~(k <= n)
      BY <1>11, <3>2
    <3>. QED  BY <1>2, <3>3
  <2>. QED  BY <1>7, <2>3, <2>4 DEF WaitingIn
<1>17. WaitingIn(w) \ ids \subseteq WaitingIn(d)
  <2>. SUFFICES ASSUME NEW id \in WaitingIn(w), id \notin ids PROVE id \in WaitingIn(d)
    OBVIOUS
  <2>1. PICK o \in Place : \E i \in DOMAIN Queue(w, o) : Queue(w, o)[i].id = id
    BY DEF WaitingIn
  <2>2. PICK i \in DOMAIN Queue(w, o) : Queue(w, o)[i].id = id
    BY <2>1
  <2>3. CASE o = p
    <3>1. i \in DOMAIN w.completed /\ w.completed[i].id = id
      BY <1>9, <2>2, <2>3
    <3>2. i - n \in DOMAIN r /\ r[i - n] = w.completed[i]
      BY <1>7, <1>13, <3>1
    <3>. QED  BY <1>9, <3>1, <3>2 DEF WaitingIn
  <2>4. CASE o # p
    BY <1>10, <2>2, <2>4 DEF WaitingIn
  <2>. QED  BY <2>3, <2>4
<1>18. WaitingIn(d) = WaitingIn(w) \ ids
  BY <1>16, <1>17
<1>19. Paths(d)
  BY <1>4, <1>8 DEF Kept, Paths
<1>20. Sized(d)
  BY <1>8 DEF Kept, Sized
<1>21. Awaits(d, came)
  BY <1>8 DEF Kept, Awaits
<1>22. d.answered \ w.answered = ids
  BY <1>1, <1>8, <1>15
<1>. QED  BY <1>1, <1>8, <1>14, <1>15, <1>18, <1>19, <1>20, <1>21, <1>22 DEF Kept

-----------------------------------------------------------------------------
(* The state between two cycles, as a record.                                *)
Now ==
  [vm |-> vm, RQ |-> RQ, MSHR |-> MSHR, finished |-> finished, completed |-> completed,
   pscl |-> pscl, below |-> below, answered |-> answered,
   next |-> <<>>, room |-> 0, fills |-> 0, reads |-> 0]

(* Every walk is on its path, has a read under way and waits in one place.   *)
WalkerInv == Kept(Now, returned) /\ returned \in Seq(BlockType)

LEMMA NowIs ==
  /\ Now.vm = vm /\ Now.RQ = RQ /\ Now.MSHR = MSHR /\ Now.finished = finished
  /\ Now.completed = completed /\ Now.pscl = pscl /\ Now.below = below
  /\ Now.answered = answered /\ Now.next = <<>>
BY DEF Now

LEMMA SoonerIs ==
  ASSUME NEW q \in Seq(WalkType), NEW s, s = Sooner(q)
  PROVE  /\ s \in Seq(WalkType) /\ DOMAIN s = DOMAIN q
         /\ \A i \in DOMAIN q : /\ s[i].id = q[i].id /\ s[i].v = q[i].v
                                /\ s[i].level = q[i].level /\ s[i].data = q[i].data
<1>. DEFINE E(e) == [e EXCEPT !.ready_in = IF e.ready_in = 0 THEN 0 ELSE e.ready_in - 1]
<1>1. \A e \in WalkType : /\ E(e) \in WalkType /\ E(e).id = e.id /\ E(e).v = e.v
                          /\ E(e).level = e.level /\ E(e).data = e.data
  <2>. SUFFICES ASSUME NEW e \in WalkType
                PROVE  /\ E(e) \in WalkType /\ E(e).id = e.id /\ E(e).v = e.v
                       /\ E(e).level = e.level /\ E(e).data = e.data
    OBVIOUS
  <2>. PICK t : t = IF e.ready_in = 0 THEN 0 ELSE e.ready_in - 1
    OBVIOUS
  <2>1. t \in Nat
    BY DEF WalkType
  <2>2. E(e) = [e EXCEPT !.ready_in = t]
    OBVIOUS
  <2>. HIDE DEF E
  <2>. QED  BY <2>1, <2>2 DEF WalkType
<1>2. s = [i \in DOMAIN q |-> E(q[i])]
  BY DEF Sooner
<1>. HIDE DEF E
<1>3. DOMAIN q = 1..Len(q) /\ Len(q) \in Nat /\ \A i \in DOMAIN q : q[i] \in WalkType
  OBVIOUS
<1>4. s \in [1..Len(q) -> WalkType]
  BY <1>1, <1>2, <1>3
<1>5. s \in Seq(WalkType)
  BY <1>3, <1>4
<1>. QED  BY <1>1, <1>2, <1>3, <1>5

LEMMA BeginKeeps ==
  ASSUME NEW came, Kept(Now, came), NEW room \in Nat, NEW d, d = Begin(room)
  PROVE  Kept(d, came) /\ WaitingIn(d) = WaitingIn(Now) /\ d.answered = answered /\ d.vm = vm
<1>. PICK w : w = Now
  OBVIOUS
<1>1. /\ w \in CycleType /\ Once(w) /\ WaitingIn(w) \cap w.answered = {}
      /\ w.finished \in Seq(WalkType) /\ w.completed \in Seq(WalkType)
  BY DEF Kept, CycleType
<1>. PICK f, c : f = Sooner(w.finished) /\ c = Sooner(w.completed)
  OBVIOUS
<1>2. /\ f \in Seq(WalkType) /\ DOMAIN f = DOMAIN w.finished
      /\ \A i \in DOMAIN w.finished :
           /\ f[i].id = w.finished[i].id /\ f[i].v = w.finished[i].v
           /\ f[i].level = w.finished[i].level /\ f[i].data = w.finished[i].data
  <2>. PICK q : q = w.finished
    OBVIOUS
  <2>. QED  BY <1>1, SoonerIs
<1>3. /\ c \in Seq(WalkType) /\ DOMAIN c = DOMAIN w.completed
      /\ \A i \in DOMAIN w.completed :
           /\ c[i].id = w.completed[i].id /\ c[i].v = w.completed[i].v
           /\ c[i].level = w.completed[i].level /\ c[i].data = w.completed[i].data
  <2>. PICK q : q = w.completed
    OBVIOUS
  <2>. QED  BY <1>1, SoonerIs
<1>4. /\ w.finished = finished /\ w.completed = completed /\ w.next = <<>>
      /\ w.vm = vm /\ w.RQ = RQ /\ w.MSHR = MSHR /\ w.pscl = pscl /\ w.below = below
      /\ w.answered = answered
  BY NowIs
<1>5. /\ d.finished = f /\ d.completed = c /\ d.next = w.next /\ d.vm = w.vm /\ d.RQ = w.RQ
      /\ d.MSHR = w.MSHR /\ d.pscl = w.pscl /\ d.below = w.below /\ d.answered = w.answered
      /\ d.room = room /\ d.fills = MAX_FILL /\ d.reads = MAX_READ
      /\ d = [vm |-> d.vm, RQ |-> d.RQ, MSHR |-> d.MSHR, finished |-> d.finished,
              completed |-> d.completed, pscl |-> d.pscl, below |-> d.below,
              answered |-> d.answered, next |-> d.next, room |-> d.room, fills |-> d.fills,
              reads |-> d.reads]
  BY <1>4 DEF Begin
<1>6. d \in CycleType
  BY <1>1, <1>2, <1>3, <1>5, WalkerAssumption DEF CycleType
<1>7. ASSUME NEW r \in Place
      PROVE  /\ DOMAIN Queue(d, r) = DOMAIN Queue(w, r)
             /\ \A i \in DOMAIN Queue(w, r) : Queue(d, r)[i].id = Queue(w, r)[i].id
  <2>1. r[1] = "walks" => r[2] \in {"MSHR", "finished", "completed", "next"}
    BY DEF Place
  <2>. QED  BY <1>2, <1>3, <1>5, <2>1 DEF Queue
<1>8. Once(d) /\ WaitingIn(d) = WaitingIn(w)
  BY <1>1, <1>6, <1>7, Stay
<1>9. Paths(d)
  <2>1. \A i \in DOMAIN d.finished : HasRead(d.vm, d.finished[i])
    BY <1>2, <1>5 DEF Kept, Paths, HasRead
  <2>2. \A i \in DOMAIN d.completed : Translates(d.vm, d.completed[i])
    BY <1>3, <1>5 DEF Kept, Paths, Translates
  <2>. QED  BY <1>5, <2>1, <2>2 DEF Kept, Paths
<1>10. Sized(d)
  BY <1>5 DEF Kept, Sized
<1>11. Awaits(d, came)
  BY <1>5 DEF Kept, Awaits
<1>. QED  BY <1>1, <1>4, <1>5, <1>6, <1>8, <1>9, <1>10, <1>11 DEF Kept

(* At the end of the cycle the walks that made a step are put in the MSHRs.  *)
LEMMA Joined ==
  ASSUME NEW S, NEW a \in Seq(S), NEW b \in Seq(S), NEW c, c = a \o b, NEW n, n = Len(a)
  PROVE  /\ \A i \in DOMAIN c : \/ i <= n /\ i \in DOMAIN a /\ c[i] = a[i]
                                \/ ~(i <= n) /\ i - n \in DOMAIN b /\ c[i] = b[i - n]
         /\ \A i \in DOMAIN a : i \in DOMAIN c /\ c[i] = a[i]
         /\ \A i \in DOMAIN b : n + i \in DOMAIN c /\ c[n + i] = b[i]
         /\ \A i \in DOMAIN c : i \in Nat
<1>. PICK m : m = Len(b)
  OBVIOUS
<1>1. n \in Nat /\ m \in Nat /\ DOMAIN a = 1..n /\ DOMAIN b = 1..m
  BY LenProperties
<1>2. c \in Seq(S) /\ DOMAIN c = 1..(n + m)
  <2>1. c \in Seq(S) /\ Len(c) = n + m
    BY ConcatProperties
  <2>. QED  BY <2>1, LenProperties
<1>3. \A i \in 1..(n + m) : c[i] = IF i <= n THEN a[i] ELSE b[i - n]
  BY ConcatProperties
<1>4. \A i \in 1..(n + m) : IF i <= n THEN i \in 1..n ELSE i - n \in 1..m
  BY <1>1
<1>5. \A i \in 1..m : n + i \in 1..(n + m) /\ ~(n + i <= n) /\ (n + i) - n = i
  BY <1>1
<1>6. \A i \in 1..n : i \in 1..(n + m) /\ i <= n
  BY <1>1
<1>7. \A i \in 1..(n + m) : i \in Nat
  BY <1>1
<1>8. \A i \in DOMAIN b : n + i \in DOMAIN c /\ c[n + i] = b[i]
  <2>. SUFFICES ASSUME NEW i \in DOMAIN b PROVE n + i \in DOMAIN c /\ c[n + i] = b[i]
    OBVIOUS
  <2>1. n + i \in 1..(n + m) /\ ~(n + i <= n) /\ (n + i) - n = i
    BY <1>1, <1>5
  <2>2. c[n + i] = b[(n + i) - n]
    BY <1>3, <2>1
  <2>. QED  BY <1>2, <2>1, <2>2
<1>. QED  BY <1>1, <1>2, <1>3, <1>4, <1>6, <1>7, <1>8

LEMMA EndKeeps ==
  ASSUME NEW w, Kept(w, <<>>), NEW d \in CycleType,
         d.MSHR = w.MSHR \o w.next, d.next = <<>>, d.vm = w.vm, d.RQ = w.RQ,
         d.finished = w.finished, d.completed = w.completed, d.pscl = w.pscl,
         d.below = w.below, d.answered = w.answered
  PROVE  Kept(d, <<>>) /\ WaitingIn(d) = WaitingIn(w)
<1>. DEFINE p == <<"walks", "MSHR">>
            o == <<"walks", "next">>
            n == Len(w.MSHR)
<1>1. /\ w \in CycleType /\ Once(w) /\ WaitingIn(w) \cap w.answered = {}
      /\ w.MSHR \in Seq(WalkType) /\ w.next \in Seq(WalkType) /\ n \in Nat
  BY DEF Kept, CycleType
<1>2. /\ p \in Place /\ o \in Place /\ p # o
      /\ Queue(w, p) = w.MSHR /\ Queue(w, o) = w.next /\ Queue(d, p) = d.MSHR /\ Queue(d, o) = <<>>
  BY DEF Place, Queue
<1>3. ASSUME NEW r \in Place, r # p, r # o PROVE Queue(d, r) = Queue(w, r)
  <2>1. r = <<r[1], r[2]>> /\ (r[1] = "walks" => r[2] \in {"MSHR", "finished", "completed", "next"})
    BY DEF Place
  <2>2. r[1] = "walks" => r[2] # "MSHR" /\ r[2] # "next"
    BY <1>3, <2>1
  <2>. QED  BY <2>1, <2>2 DEF Queue
<1>4. /\ \A i \in DOMAIN d.MSHR :
           \/ i <= n /\ i \in DOMAIN w.MSHR /\ d.MSHR[i] = w.MSHR[i]
           \/ ~(i <= n) /\ i - n \in DOMAIN w.next /\ d.MSHR[i] = w.next[i - n]
      /\ \A i \in DOMAIN w.MSHR : i \in DOMAIN d.MSHR /\ d.MSHR[i] = w.MSHR[i]
      /\ \A i \in DOMAIN w.next : n + i \in DOMAIN d.MSHR /\ d.MSHR[n + i] = w.next[i]
      /\ \A i \in DOMAIN d.MSHR : i \in Nat
  <2>. PICK a, b, c : a = w.MSHR /\ b = w.next /\ c = d.MSHR
    OBVIOUS
  <2>1. a \in Seq(WalkType) /\ b \in Seq(WalkType) /\ c = a \o b /\ n = Len(a)
    BY <1>1
  <2>. HIDE DEF n
  <2>2. /\ \A i \in DOMAIN c : \/ i <= n /\ i \in DOMAIN a /\ c[i] = a[i]
                               \/ ~(i <= n) /\ i - n \in DOMAIN b /\ c[i] = b[i - n]
        /\ \A i \in DOMAIN a : i \in DOMAIN c /\ c[i] = a[i]
        /\ \A i \in DOMAIN b : n + i \in DOMAIN c /\ c[n + i] = b[i]
        /\ \A i \in DOMAIN c : i \in Nat
    BY ONLY <2>1, Joined
  <2>. QED  BY <2>2
<1>. HIDE DEF n, p, o
<1>. DEFINE Was(r, i) == IF r = p /\ ~(i <= n) THEN o ELSE r
            At(r, i) == IF r = p /\ ~(i <= n) THEN i - n ELSE i
<1>5. \A r \in Place : \A i \in DOMAIN Queue(d, r) :
         /\ Was(r, i) \in Place /\ At(r, i) \in DOMAIN Queue(w, Was(r, i))
         /\ Queue(d, r)[i].id = Queue(w, Was(r, i))[At(r, i)].id
  <2>. SUFFICES ASSUME NEW r \in Place, NEW i \in DOMAIN Queue(d, r)
                PROVE  /\ Was(r, i) \in Place /\ At(r, i) \in DOMAIN Queue(w, Was(r, i))
                       /\ Queue(d, r)[i].id = Queue(w, Was(r, i))[At(r, i)].id
    OBVIOUS
  <2>1. CASE r = p
    <3>1. i \in DOMAIN d.MSHR /\ Queue(d, r)[i] = d.MSHR[i]
      BY <1>2, <2>1
    <3>2. CASE i <= n /\ i \in DOMAIN w.MSHR /\ d.MSHR[i] = w.MSHR[i]
      BY <1>2, <2>1, <3>1, <3>2
    <3>3. CASE ~(i <= n) /\ i - n \in DOMAIN w.next /\ d.MSHR[i] = w.next[i - n]
      BY <1>2, <2>1, <3>1, <3>3
    <3>. QED  BY <1>4, <3>1, <3>2, <3>3
  <2>2. CASE r = o
    BY <1>2, <2>2
  <2>3. CASE r # p /\ r # o
    BY <1>3, <2>3
  <2>. QED  BY <2>1, <2>2, <2>3
<1>6. \A r, s \in Place : \A i \in DOMAIN Queue(d, r), j \in DOMAIN Queue(d, s) :
         Was(r, i) = Was(s, j) /\ At(r, i) = At(s, j) => r = s /\ i = j
  <2>1. \A r \in Place : \A i \in DOMAIN Queue(d, r) : r # o /\ i \in Nat
    BY <1>2, QueueTyped
  <2>. QED  BY <1>1, <1>2, <2>1
<1>7. \A r \in Place : \A i \in DOMAIN Queue(w, r) :
         \E s \in Place : \E j \in DOMAIN Queue(d, s) : Queue(d, s)[j].id = Queue(w, r)[i].id
  <2>. SUFFICES ASSUME NEW r \in Place, NEW i \in DOMAIN Queue(w, r)
                PROVE  \E s \in Place : \E j \in DOMAIN Queue(d, s) : Queue(d, s)[j].id = Queue(w, r)[i].id
    OBVIOUS
  <2>1. CASE r = p
    BY <1>2, <1>4, <2>1, ZenonT(60)
  <2>2. CASE r = o
    <3>1. i \in DOMAIN w.next /\ Queue(w, r)[i] = w.next[i]
      BY <1>2, <2>2
    <3>2. n + i \in DOMAIN d.MSHR /\ d.MSHR[n + i] = w.next[i]
      BY <1>4, <3>1
    <3>3. n + i \in DOMAIN Queue(d, p) /\ Queue(d, p)[n + i].id = Queue(w, r)[i].id
      BY <1>2, <3>1, <3>2
    <3>. QED  BY <1>2, <3>3
  <2>3. CASE r # p /\ r # o
    BY <1>3, <2>3
  <2>. QED  BY <2>1, <2>2, <2>3
<1>. HIDE DEF Was, At
<1>8. Once(d)
  <2>. SUFFICES ASSUME NEW r \in Place, NEW s \in Place, NEW i \in DOMAIN Queue(d, r),
                       NEW j \in DOMAIN Queue(d, s), Queue(d, r)[i].id = Queue(d, s)[j].id
                PROVE  r = s /\ i = j
    BY DEF Once
  <2>1. Queue(w, Was(r, i))[At(r, i)].id = Queue(w, Was(s, j))[At(s, j)].id
    BY <1>5
  <2>2. Was(r, i) = Was(s, j) /\ At(r, i) = At(s, j)
    BY <1>1, <1>5, <2>1 DEF Once
  <2>. QED  BY <1>6, <2>2
<1>9. WaitingIn(d) = WaitingIn(w)
  <2>1. ASSUME NEW id, id \in WaitingIn(d) PROVE id \in WaitingIn(w)
    BY <1>5, <2>1 DEF WaitingIn
  <2>2. ASSUME NEW id, id \in WaitingIn(w) PROVE id \in WaitingIn(d)
    BY <1>7, <2>2 DEF WaitingIn
  <2>. QED  BY <2>1, <2>2
<1>10. \A i \in DOMAIN d.next : FALSE
  OBVIOUS
<1>11. Paths(d)
  <2>1. \A i \in DOMAIN d.MSHR : ReadsPath(d.vm, d.MSHR[i])
    BY <1>4 DEF Kept, Paths
  <2>2. \A i \in DOMAIN d.next : ReadsPath(d.vm, d.next[i])
    BY <1>10
  <2>. QED  BY <2>1, <2>2 DEF Kept, Paths
<1>12. Sized(d)
  BY DEF Kept, Sized
<1>13. Awaits(d, <<>>)
  <2>1. \A i \in DOMAIN w.MSHR : BagIn(BlockOf(w.MSHR[i].address), w.below)
    BY DEF Kept, Awaits
  <2>2. \A i \in DOMAIN d.MSHR : BagIn(BlockOf(d.MSHR[i].address), d.below)
    BY <1>4, <2>1 DEF Kept, Awaits
  <2>3. \A i \in DOMAIN d.next : BagIn(BlockOf(d.next[i].address), d.below)
    BY <1>10
  <2>. QED  BY <2>2, <2>3 DEF Awaits
<1>. QED  BY <1>1, <1>8, <1>9, <1>11, <1>12, <1>13 DEF Kept

-----------------------------------------------------------------------------
(* The steps between two cycles.                                            *)
LEMMA WaitingIs ==
  ASSUME Now \in CycleType
  PROVE  Waiting = WaitingIn(Now)
<1>. PICK w : w = Now
  OBVIOUS
<1>0. /\ w \in CycleType /\ w.MSHR = MSHR /\ w.finished = finished /\ w.completed = completed
      /\ w.next = <<>> /\ w.RQ = RQ
  BY NowIs
<1>. DEFINE M == <<"walks", "MSHR">>
            F == <<"walks", "finished">>
            C == <<"walks", "completed">>
<1>1. /\ M \in Place /\ Queue(w, M) = MSHR /\ F \in Place /\ Queue(w, F) = finished
      /\ C \in Place /\ Queue(w, C) = completed
  BY <1>0 DEF Place, Queue
<1>2. \A ul \in Ul : <<"RQ", ul>> \in Place /\ Queue(w, <<"RQ", ul>>) = RQ[ul]
  BY <1>0 DEF Place, Queue
<1>. HIDE DEF M, F, C
<1>3. Waiting \subseteq WaitingIn(w)
  <2>. SUFFICES ASSUME NEW id \in Waiting
                PROVE  id \in Ids /\ \E p \in Place : \E i \in DOMAIN Queue(w, p) : Queue(w, p)[i].id = id
    BY DEF WaitingIn
  <2>1. \E p \in Place : \E i \in DOMAIN Queue(w, p) : Queue(w, p)[i].id = id
    <3>1. CASE \E i \in DOMAIN MSHR : MSHR[i].id = id
      BY <1>1, <3>1
    <3>2. CASE \E i \in DOMAIN finished : finished[i].id = id
      BY <1>1, <3>2
    <3>3. CASE \E i \in DOMAIN completed : completed[i].id = id
      BY <1>1, <3>3
    <3>4. CASE \E ul \in Ul : \E i \in DOMAIN RQ[ul] : RQ[ul][i].id = id
      BY <1>2, <3>4
    <3>. QED  BY <3>1, <3>2, <3>3, <3>4 DEF Waiting, Walks
  <2>. QED  BY <1>0, <2>1, QueueTyped
<1>4. WaitingIn(w) \subseteq Waiting
  <2>. SUFFICES ASSUME NEW id, NEW p \in Place, NEW i \in DOMAIN Queue(w, p), Queue(w, p)[i].id = id
                PROVE  id \in Waiting
    BY DEF WaitingIn
  <2>1. CASE p[1] = "walks"
    <3>1. p[2] \in {"MSHR", "finished", "completed", "next"} /\ Queue(w, p) = w[p[2]]
      BY <2>1 DEF Place, Queue
    <3>2. CASE p[2] = "MSHR"
      BY <1>0, <3>1, <3>2 DEF Waiting, Walks
    <3>3. CASE p[2] = "finished"
      BY <1>0, <3>1, <3>3 DEF Waiting, Walks
    <3>4. CASE p[2] = "completed"
      BY <1>0, <3>1, <3>4 DEF Waiting
    <3>5. CASE p[2] = "next"
      BY <1>0, <3>1, <3>5
    <3>. QED  BY <3>1, <3>2, <3>3, <3>4, <3>5
  <2>2. CASE p[1] # "walks"
    <3>1. p[2] \in Ul /\ Queue(w, p) = RQ[p[2]]
      BY <1>0, <2>2 DEF Place, Queue
    <3>. QED  BY <3>1 DEF Waiting
  <2>. QED  BY <2>1, <2>2
<1>. QED  BY <1>3, <1>4

LEMMA AddRqKeeps ==
  ASSUME NEW w, NEW came, Kept(w, came), NEW ul \in Ul, NEW r \in ReqType,
         r.id \notin WaitingIn(w), r.id \notin w.answered, NEW q, q = w.RQ[ul],
         Len(q) < RQ_SIZE, NEW d, d = WithRQ(w, ul, Append(q, r))
  PROVE  Kept(d, came) /\ WaitingIn(d) = WaitingIn(w) \cup {r.id}
<1>. DEFINE p == <<"RQ", ul>>
            n == Len(q) + 1
<1>1. /\ w \in CycleType /\ Once(w) /\ WaitingIn(w) \cap w.answered = {} /\ q \in Seq(ReqType)
      /\ RQ_SIZE \in Nat
  BY WalkerAssumption DEF Kept, CycleType
<1>. PICK a : a = Append(q, r)
  OBVIOUS
<1>2. /\ a \in Seq(ReqType) /\ Len(a) = n /\ n \in Nat /\ DOMAIN a = DOMAIN q \cup {n} /\ n \notin DOMAIN q
      /\ a[n] = r /\ Len(a) <= RQ_SIZE
      /\ \A i \in DOMAIN q : a[i] = q[i]
  BY <1>1
<1>. HIDE DEF n
<1>3. /\ d \in CycleType /\ d.RQ = [w.RQ EXCEPT ![ul] = a]
      /\ d.vm = w.vm /\ d.MSHR = w.MSHR /\ d.finished = w.finished /\ d.completed = w.completed
      /\ d.pscl = w.pscl /\ d.below = w.below /\ d.next = w.next /\ d.answered = w.answered
  <2>. PICK t : t = [w.RQ EXCEPT ![ul] = a]
    OBVIOUS
  <2>1. t \in [Ul -> Seq(ReqType)]
    BY <1>1, <1>2 DEF CycleType
  <2>2. d = [w EXCEPT !.RQ = t]
    BY DEF WithRQ
  <2>3. /\ d \in CycleType /\ d.RQ = t
        /\ d.vm = w.vm /\ d.MSHR = w.MSHR /\ d.finished = w.finished /\ d.completed = w.completed
        /\ d.pscl = w.pscl /\ d.below = w.below /\ d.next = w.next /\ d.answered = w.answered
    BY <1>1, <2>1, <2>2 DEF CycleType
  <2>. QED  BY <2>3
<1>4. d.RQ[ul] = a /\ \A u \in Ul : u # ul => d.RQ[u] = w.RQ[u]
  BY <1>1, <1>3 DEF CycleType
<1>5. p \in Place /\ Queue(w, p) = q /\ Queue(d, p) = a
  BY <1>4 DEF Place, Queue
<1>6. ASSUME NEW o \in Place, o # p PROVE Queue(d, o) = Queue(w, o)
  <2>1. o = <<o[1], o[2]>> /\ (o[1] = "walks" \/ (o[1] = "RQ" /\ o[2] \in Ul))
    BY DEF Place
  <2>2. CASE o[1] = "walks"
    <3>1. o[2] \in {"MSHR", "finished", "completed", "next"}
      BY <2>2 DEF Place
    <3>. QED  BY <1>3, <2>2, <3>1 DEF Queue
  <2>3. CASE o[1] # "walks"
    <3>1. o[2] \in Ul /\ o[2] # ul
      BY <1>6, <2>1, <2>3
    <3>. QED  BY <1>4, <2>3, <3>1 DEF Queue
  <2>. QED  BY <2>2, <2>3
<1>. HIDE DEF p
<1>7. r.id \in Ids
  BY DEF ReqType
<1>8. \A o \in Place : \A i \in DOMAIN Queue(w, o) :
         i \in DOMAIN Queue(d, o) /\ Queue(d, o)[i] = Queue(w, o)[i] /\ Queue(w, o)[i].id # r.id
  <2>1. \A o \in Place : \A i \in DOMAIN Queue(w, o) : i \in DOMAIN Queue(d, o) /\ Queue(d, o)[i] = Queue(w, o)[i]
    BY <1>2, <1>5, <1>6
  <2>. QED  BY <1>7, <2>1 DEF WaitingIn
<1>9. \A o \in Place : \A i \in DOMAIN Queue(d, o) :
         \/ o = p /\ i = n
         \/ i \in DOMAIN Queue(w, o) /\ Queue(d, o)[i] = Queue(w, o)[i]
  BY <1>2, <1>5, <1>6
<1>10. n \in DOMAIN Queue(d, p) /\ Queue(d, p)[n] = r
  BY <1>2, <1>5
<1>11. Once(d)
  <2>. SUFFICES ASSUME NEW o \in Place, NEW s \in Place, NEW i \in DOMAIN Queue(d, o),
                       NEW j \in DOMAIN Queue(d, s), Queue(d, o)[i].id = Queue(d, s)[j].id
                PROVE  o = s /\ i = j
    BY DEF Once
  <2>1. CASE o = p /\ i = n
    BY <1>8, <1>9, <1>10, <2>1
  <2>2. CASE s = p /\ j = n
    BY <1>8, <1>9, <1>10, <2>2
  <2>3. CASE ~(o = p /\ i = n) /\ ~(s = p /\ j = n)
    BY <1>1, <1>9, <2>3 DEF Once
  <2>. QED  BY <2>1, <2>2, <2>3
<1>12. WaitingIn(d) = WaitingIn(w) \cup {r.id}
  <2>1. ASSUME NEW id, id \in WaitingIn(d) PROVE id \in WaitingIn(w) \cup {r.id}
    BY <1>9, <1>10, <2>1 DEF WaitingIn
  <2>2. ASSUME NEW id, id \in WaitingIn(w) PROVE id \in WaitingIn(d)
    BY <1>8, <2>2 DEF WaitingIn
  <2>3. r.id \in WaitingIn(d)
    BY <1>5, <1>7, <1>10 DEF WaitingIn
  <2>. QED  BY <2>1, <2>2, <2>3
<1>13. Paths(d)
  BY <1>3 DEF Kept, Paths
<1>14. Sized(d)
  <2>1. \A u \in Ul : Len(d.RQ[u]) <= RQ_SIZE
    BY <1>2, <1>4 DEF Kept, Sized
  <2>. QED  BY <1>3, <2>1 DEF Kept, Sized
<1>15. Awaits(d, came)
  BY <1>3 DEF Kept, Awaits
<1>. QED  BY <1>1, <1>3, <1>11, <1>12, <1>13, <1>14, <1>15 DEF Kept

(* Some of the reads of a block are answered: the other reads stay.          *)
Taken(B, block, n) == B (-) [b \in {block} |-> n]
LEMMA BelowTaken ==
  ASSUME NEW B \in BelowType, NEW block \in BagToSet(B), NEW n \in 1..B[block],
         NEW D, D = Taken(B, block, n)
  PROVE  /\ block \in BlockType /\ D \in BelowType
         /\ \A c : BagIn(c, B) => c = block \/ BagIn(c, D)
<1>1. PICK S \in SUBSET BlockType : B \in [S -> Nat \ {0}]
  BY DEF BelowType
<1>2. block \in S
  BY <1>1 DEF BagToSet
<1>. DEFINE Rest == [e \in S |-> IF e = block THEN B[e] - n ELSE B[e]]
            Left == {e \in S : Rest[e] > 0}
<1>3. D = [e \in Left |-> Rest[e]]
  <2>1. [e \in DOMAIN B |-> IF e \in DOMAIN [b \in {block} |-> n] THEN B[e] - [b \in {block} |-> n][e] ELSE B[e]] = Rest
    BY <1>1
  <2>. HIDE DEF Rest
  <2>2. DOMAIN Rest = S
    BY DEF Rest
  <2>. QED  BY <2>1, <2>2 DEF (-), Taken
<1>4. \A e \in S : Rest[e] \in Int
  BY <1>1, <1>2
<1>5. \A e \in S : e # block => Rest[e] = B[e] /\ B[e] \in Nat \ {0}
  BY <1>1
<1>. HIDE DEF Rest
<1>6. D \in [Left -> Nat \ {0}] /\ Left \in SUBSET BlockType
  BY <1>1, <1>3, <1>4
<1>7. D \in BelowType
  BY <1>6 DEF BelowType
<1>8. \A c : BagIn(c, B) => c = block \/ BagIn(c, D)
  <2>1. \A c : BagIn(c, B) => c \in S
    BY <1>1 DEF BagIn, BagToSet
  <2>2. \A c \in S : c # block => c \in Left
    BY <1>5
  <2>3. DOMAIN D = Left
    BY <1>3
  <2>. QED  BY <2>1, <2>2, <2>3 DEF BagIn, BagToSet
<1>. QED  BY <1>1, <1>2, <1>7, <1>8

-----------------------------------------------------------------------------
(* Every step keeps WalkerInv, and is a step of MemService or none.          *)
ServiceStep == [Service!Next]_(Service!vars)

LEMMA LaterIs ==
  ASSUME NEW d, d = Now'
  PROVE  /\ d.vm = vm' /\ d.RQ = RQ' /\ d.MSHR = MSHR' /\ d.finished = finished'
         /\ d.completed = completed' /\ d.pscl = pscl' /\ d.below = below'
         /\ d.answered = answered' /\ d.next = <<>>
         /\ d = [vm |-> d.vm, RQ |-> d.RQ, MSHR |-> d.MSHR, finished |-> d.finished,
                 completed |-> d.completed, pscl |-> d.pscl, below |-> d.below,
                 answered |-> d.answered, next |-> d.next, room |-> 0, fills |-> 0, reads |-> 0]
BY DEF Now

LEMMA WaitingLater == (Now \in CycleType => Waiting = WaitingIn(Now))'
<1>1. Now \in CycleType => Waiting = WaitingIn(Now)
  BY WaitingIs
<1>. QED  BY <1>1, PTL

LEMMA LaterHolds ==
  ASSUME NEW d, d = Now', Kept(d, returned'), returned' \in Seq(BlockType)
  PROVE  WalkerInv' /\ Waiting' = WaitingIn(d)
<1>1. WalkerInv'
  BY DEF WalkerInv
<1>2. Now' \in CycleType => Waiting' = WaitingIn(Now')
  BY WaitingLater
<1>3. d \in CycleType
  BY DEF Kept
<1>. QED  BY <1>1, <1>2, <1>3

LEMMA NowHolds ==
  ASSUME WalkerInv, NEW w, w = Now
  PROVE  /\ Kept(w, returned) /\ w \in CycleType /\ Waiting = WaitingIn(w)
         /\ Waiting \subseteq Ids /\ Waiting \cap answered = {} /\ answered \subseteq Ids
         /\ returned \in Seq(BlockType)
<1>1. Kept(w, returned) /\ w \in CycleType /\ returned \in Seq(BlockType) /\ WaitingIn(w) \cap w.answered = {}
  BY DEF WalkerInv, Kept
<1>2. Waiting = WaitingIn(w)
  BY <1>1, WaitingIs
<1>3. w.answered = answered /\ w.answered \subseteq Ids
  BY <1>1, NowIs DEF CycleType
<1>4. WaitingIn(w) \subseteq Ids
  BY DEF WaitingIn
<1>. QED  BY <1>1, <1>2, <1>3, <1>4

LEMMA AddRqStep ==
  ASSUME WalkerInv, NEW ul \in Ul, NEW id \in Ids, NEW v \in VPage, AddRq(ul, id, v)
  PROVE  WalkerInv' /\ ServiceStep /\ Grows(vm, vm')
<1>. PICK w, d : w = Now /\ d = Now'
  OBVIOUS
<1>1. /\ Kept(w, returned) /\ w \in CycleType /\ Waiting = WaitingIn(w) /\ returned \in Seq(BlockType)
  BY NowHolds
<1>. PICK r, q : r = [id |-> id, v |-> v] /\ q = RQ[ul]
  OBVIOUS
<1>2. r \in ReqType /\ r.id = id /\ q = w.RQ[ul] /\ Len(q) < RQ_SIZE
  BY NowIs DEF ReqType, AddRq
<1>3. r.id \notin WaitingIn(w) /\ r.id \notin w.answered
  BY <1>1, <1>2, NowIs DEF AddRq
<1>4. d = WithRQ(w, ul, Append(q, r))
  <2>. PICK t : t = [RQ EXCEPT ![ul] = Append(q, r)]
    OBVIOUS
  <2>1. RQ' = t /\ UNCHANGED <<vm, MSHR, finished, completed, pscl, below, answered>>
    BY DEF AddRq
  <2>2. w.RQ = RQ
    BY NowIs
  <2>3. WithRQ(w, ul, Append(q, r)) = [w EXCEPT !.RQ = t]
    BY <2>2 DEF WithRQ
  <2>. QED  BY <2>1, <2>3, ZenonT(60) DEF Now
<1>5. Kept(d, returned) /\ WaitingIn(d) = WaitingIn(w) \cup {id}
  BY <1>1, <1>2, <1>3, <1>4, AddRqKeeps
<1>6. returned' = returned /\ answered' = answered /\ id \notin Waiting \cup answered
  BY DEF AddRq
<1>7. WalkerInv' /\ Waiting' = WaitingIn(d)
  BY <1>1, <1>5, <1>6, LaterHolds
<1>8. Service!Request(id)
  BY <1>1, <1>5, <1>6, <1>7 DEF Service!Request
<1>9. vm' = vm
  BY DEF AddRq
<1>. QED  BY <1>7, <1>8, <1>9 DEF ServiceStep, Service!Next, Grows

LEMMA LowerAnswerStep ==
  ASSUME WalkerInv, NEW block \in BagToSet(below), NEW n \in 1..Copies(block), LowerAnswer(block, n)
  PROVE  WalkerInv' /\ ServiceStep /\ Grows(vm, vm')
<1>. PICK w, d : w = Now /\ d = Now'
  OBVIOUS
<1>1. /\ Kept(w, returned) /\ w \in CycleType /\ Waiting = WaitingIn(w) /\ returned \in Seq(BlockType)
      /\ Once(w) /\ WaitingIn(w) \cap w.answered = {}
  BY NowHolds DEF Kept
<1>2. /\ below' = below (-) [b \in {block} |-> n] /\ returned' = Append(returned, block)
      /\ UNCHANGED <<vm, RQ, MSHR, finished, completed, pscl, answered>>
  BY DEF LowerAnswer
<1>3. /\ w.below = below /\ below \in BelowType /\ n \in 1..below[block]
  BY <1>1, NowIs DEF CycleType, Copies, BagIn
<1>4. /\ block \in BlockType /\ below' \in BelowType
      /\ \A c : BagIn(c, below) => c = block \/ BagIn(c, below')
  <2>. PICK B, D : B = below /\ D = below'
    OBVIOUS
  <2>1. B \in BelowType /\ block \in BagToSet(B) /\ n \in 1..B[block] /\ D = Taken(B, block, n)
    BY <1>2, <1>3 DEF Taken
  <2>2. /\ block \in BlockType /\ D \in BelowType
        /\ \A c : BagIn(c, B) => c = block \/ BagIn(c, D)
    BY ONLY <2>1, BelowTaken
  <2>. QED  BY <2>2
<1>5. /\ d.vm = w.vm /\ d.RQ = w.RQ /\ d.MSHR = w.MSHR /\ d.finished = w.finished
      /\ d.completed = w.completed /\ d.pscl = w.pscl /\ d.below = below' /\ d.answered = w.answered
      /\ d.next = w.next /\ w.next = <<>>
      /\ d = [vm |-> d.vm, RQ |-> d.RQ, MSHR |-> d.MSHR, finished |-> d.finished,
              completed |-> d.completed, pscl |-> d.pscl, below |-> d.below,
              answered |-> d.answered, next |-> d.next, room |-> 0, fills |-> 0, reads |-> 0]
  BY <1>2, NowIs, LaterIs
<1>6. d \in CycleType
  BY <1>1, <1>4, <1>5 DEF CycleType
<1>7. \A r \in Place : Queue(d, r) = Queue(w, r)
  <2>1. \A r \in Place : r[1] = "walks" => r[2] \in {"MSHR", "finished", "completed", "next"}
    BY DEF Place
  <2>. QED  BY <1>5, <2>1 DEF Queue
<1>8. Once(d) /\ WaitingIn(d) = WaitingIn(w)
  BY <1>1, <1>6, <1>7, Stay
<1>9. Paths(d) /\ Sized(d)
  BY <1>1, <1>5 DEF Kept, Paths, Sized
<1>10. /\ returned' \in Seq(BlockType)
       /\ \A k \in DOMAIN returned : k \in DOMAIN returned' /\ returned'[k] = returned[k]
       /\ \E k \in DOMAIN returned' : returned'[k] = block
  <2>. PICK q : q = returned'
    OBVIOUS
  <2>1. q = Append(returned, block)
    BY <1>2
  <2>2. /\ q \in Seq(BlockType) /\ DOMAIN q = 1..(Len(returned) + 1) /\ q[Len(returned) + 1] = block
        /\ Len(returned) \in Nat /\ \A k \in DOMAIN returned : k \in DOMAIN q /\ q[k] = returned[k]
    BY <1>1, <1>4, <2>1
  <2>3. Len(returned) + 1 \in DOMAIN q
    BY <2>2
  <2>. QED  BY <2>2, <2>3
<1>11. Awaits(d, returned')
  <2>1. \A i \in DOMAIN w.MSHR :
          \/ BagIn(BlockOf(w.MSHR[i].address), w.below)
          \/ \E k \in DOMAIN returned : returned[k] = BlockOf(w.MSHR[i].address)
    BY <1>1 DEF Kept, Awaits
  <2>2. \A i \in DOMAIN d.MSHR :
          \/ BagIn(BlockOf(d.MSHR[i].address), d.below)
          \/ \E k \in DOMAIN returned' : returned'[k] = BlockOf(d.MSHR[i].address)
    BY <1>3, <1>4, <1>5, <1>10, <2>1
  <2>3. \A i \in DOMAIN d.next : FALSE
    BY <1>5
  <2>. QED  BY <2>2, <2>3 DEF Awaits
<1>12. Kept(d, returned')
  BY <1>1, <1>5, <1>6, <1>8, <1>9, <1>11 DEF Kept
<1>13. WalkerInv' /\ Waiting' = WaitingIn(d)
  BY <1>10, <1>12, LaterHolds
<1>. QED  BY <1>1, <1>2, <1>8, <1>13 DEF ServiceStep, Service!vars, Grows

LEMMA CollectStep ==
  ASSUME WalkerInv, NEW id \in Ids, Collect(id)
  PROVE  WalkerInv' /\ ServiceStep /\ Grows(vm, vm')
<1>. PICK w, d : w = Now /\ d = Now'
  OBVIOUS
<1>1. /\ Kept(w, returned) /\ w \in CycleType /\ Waiting = WaitingIn(w) /\ returned \in Seq(BlockType)
      /\ Once(w) /\ WaitingIn(w) \cap w.answered = {}
  BY NowHolds DEF Kept
<1>2. /\ id \in answered /\ answered' = answered \ {id}
      /\ UNCHANGED <<vm, RQ, MSHR, finished, completed, pscl, below, returned>>
  BY DEF Collect
<1>3. /\ d.vm = w.vm /\ d.RQ = w.RQ /\ d.MSHR = w.MSHR /\ d.finished = w.finished
      /\ d.completed = w.completed /\ d.pscl = w.pscl /\ d.below = w.below
      /\ d.answered = w.answered \ {id} /\ d.next = w.next
      /\ d = [vm |-> d.vm, RQ |-> d.RQ, MSHR |-> d.MSHR, finished |-> d.finished,
              completed |-> d.completed, pscl |-> d.pscl, below |-> d.below,
              answered |-> d.answered, next |-> d.next, room |-> 0, fills |-> 0, reads |-> 0]
  BY <1>2, NowIs, LaterIs
<1>4. d \in CycleType
  BY <1>1, <1>3 DEF CycleType
<1>5. \A r \in Place : Queue(d, r) = Queue(w, r)
  <2>1. \A r \in Place : r[1] = "walks" => r[2] \in {"MSHR", "finished", "completed", "next"}
    BY DEF Place
  <2>. QED  BY <1>3, <2>1 DEF Queue
<1>6. Once(d) /\ WaitingIn(d) = WaitingIn(w)
  BY <1>1, <1>4, <1>5, Stay
<1>7. Paths(d) /\ Sized(d) /\ Awaits(d, returned')
  BY <1>1, <1>2, <1>3 DEF Kept, Paths, Sized, Awaits
<1>8. Kept(d, returned')
  BY <1>1, <1>3, <1>4, <1>6, <1>7 DEF Kept
<1>9. WalkerInv' /\ Waiting' = WaitingIn(d)
  BY <1>1, <1>2, <1>8, LaterHolds
<1>10. Service!Collect({id})
  BY <1>1, <1>2, <1>6, <1>9 DEF Service!Collect
<1>. QED  BY <1>2, <1>9, <1>10 DEF ServiceStep, Service!Next, Grows

LEMMA OperateStep ==
  ASSUME WalkerInv, NEW room \in 0..MaxRoom, Operate(room)
  PROVE  WalkerInv' /\ ServiceStep /\ Grows(vm, vm')
<1>. PICK w, d : w = Now /\ d = Now'
  OBVIOUS
<1>1. /\ Kept(w, returned) /\ w \in CycleType /\ Waiting = WaitingIn(w) /\ returned \in Seq(BlockType)
      /\ w.answered = answered
  BY NowHolds, NowIs
<1>. PICK begun, came, done, filled, read :
            /\ begun = Begin(room) /\ came = FinishPackets(begun) /\ done = Complete(came)
            /\ filled = Fill(done) /\ read = ReadAll(filled)
  OBVIOUS
<1>2. /\ vm' = read.vm /\ RQ' = read.RQ /\ finished' = read.finished
      /\ completed' = read.completed /\ pscl' = read.pscl /\ below' = read.below
      /\ answered' = read.answered /\ MSHR' = read.MSHR \o read.next /\ returned' = <<>>
  BY DEF Operate
<1>3. Kept(begun, returned) /\ WaitingIn(begun) = WaitingIn(w) /\ begun.answered = answered
      /\ begun.vm = vm
  <2>1. room \in Nat
    BY WalkerAssumption DEF MaxRoom
  <2>. QED  BY <1>1, <2>1, BeginKeeps
<1>4. Kept(came, <<>>) /\ WaitingIn(came) = WaitingIn(w) /\ came.answered = answered
      /\ Widens(begun, came)
  BY <1>1, <1>3, FinishPacketsKeeps
<1>5. /\ Kept(done, <<>>) /\ answered \subseteq done.answered
      /\ done.answered \ answered \subseteq WaitingIn(w)
      /\ WaitingIn(done) = WaitingIn(w) \ (done.answered \ answered)
      /\ done.vm = came.vm
  BY <1>4, CompleteKeeps
<1>6. Kept(filled, <<>>) /\ WaitingIn(filled) = WaitingIn(done) /\ filled.answered = done.answered
      /\ Widens(done, filled)
  BY <1>5, FillKeeps
<1>7. Kept(read, <<>>) /\ WaitingIn(read) = WaitingIn(done) /\ read.answered = done.answered
      /\ Widens(filled, read)
  BY <1>6, ReadAllKeeps
<1>8. /\ d.MSHR = read.MSHR \o read.next /\ d.next = <<>> /\ d.vm = read.vm /\ d.RQ = read.RQ
      /\ d.finished = read.finished /\ d.completed = read.completed /\ d.pscl = read.pscl
      /\ d.below = read.below /\ d.answered = read.answered
      /\ d = [vm |-> d.vm, RQ |-> d.RQ, MSHR |-> d.MSHR, finished |-> d.finished,
              completed |-> d.completed, pscl |-> d.pscl, below |-> d.below,
              answered |-> d.answered, next |-> d.next, room |-> 0, fills |-> 0, reads |-> 0]
  BY <1>2, LaterIs
<1>9. d \in CycleType
  <2>1. read \in CycleType /\ read.MSHR \in Seq(WalkType) /\ read.next \in Seq(WalkType)
    BY <1>7 DEF Kept, CycleType
  <2>2. d.MSHR \in Seq(WalkType) /\ d.next \in Seq(WalkType)
    BY <1>8, <2>1
  <2>3. /\ d.vm \in VMType /\ d.RQ \in [Ul -> Seq(ReqType)] /\ d.finished \in Seq(WalkType)
        /\ d.completed \in Seq(WalkType) /\ d.pscl \in [1..TOP -> Seq(PsclType)]
        /\ d.below \in BelowType /\ d.answered \in SUBSET Ids
    BY <1>8, <2>1 DEF CycleType
  <2>4. d = [vm |-> d.vm, RQ |-> d.RQ, MSHR |-> d.MSHR, finished |-> d.finished,
             completed |-> d.completed, pscl |-> d.pscl, below |-> d.below,
             answered |-> d.answered, next |-> d.next, room |-> 0, fills |-> 0, reads |-> 0]
    BY <1>8
  <2>. QED  BY ONLY <2>2, <2>3, <2>4 DEF CycleType
<1>10. Kept(d, <<>>) /\ WaitingIn(d) = WaitingIn(read)
  BY <1>7, <1>8, <1>9, EndKeeps
<1>11. returned' \in Seq(BlockType) /\ Kept(d, returned')
  BY <1>2, <1>10
<1>12. WalkerInv' /\ Waiting' = WaitingIn(d)
  BY <1>11, LaterHolds
<1>. DEFINE S == answered' \ answered
<1>13. /\ S \subseteq Waiting /\ Waiting' = Waiting \ S /\ answered' = answered \cup S
  BY <1>1, <1>2, <1>5, <1>7, <1>10, <1>12
<1>14. S \in SUBSET Ids
  BY <1>13, NowHolds
<1>15. ServiceStep
  <2>1. CASE S = {}
    <3>1. Waiting' = Waiting /\ answered' = answered
      BY <1>13, <2>1
    <3>. QED  BY <3>1 DEF ServiceStep, Service!vars
  <2>2. CASE S # {}
    <3>. HIDE DEF S
    <3>1. Service!Respond(S)
      BY <1>13, <2>2 DEF Service!Respond
    <3>. QED  BY <1>14, <3>1 DEF ServiceStep, Service!Next
  <2>. QED  BY <2>1, <2>2
<1>16. Grows(vm, vm')
  <2>1. /\ Grows(vm, came.vm) /\ Grows(came.vm, filled.vm) /\ Grows(filled.vm, vm')
    BY <1>2, <1>3, <1>4, <1>5, <1>6, <1>7 DEF Widens
  <2>. QED  BY <2>1 DEF Grows
<1>. QED  BY <1>12, <1>15, <1>16

LEMMA WalkerStep == WalkerInv /\ [Next]_vars => WalkerInv' /\ ServiceStep /\ Grows(vm, vm')
<1>. SUFFICES ASSUME WalkerInv, [Next]_vars PROVE WalkerInv' /\ ServiceStep /\ Grows(vm, vm')
  OBVIOUS
<1>1. ASSUME UNCHANGED vars PROVE WalkerInv' /\ ServiceStep /\ Grows(vm, vm')
  <2>1. /\ UNCHANGED <<vm, RQ, MSHR, finished, completed, pscl, below, returned, answered>>
    BY <1>1 DEF vars
  <2>. PICK d : d = Now'
    OBVIOUS
  <2>2. d = Now /\ returned' = returned
    BY <2>1 DEF Now
  <2>3. Kept(d, returned') /\ returned' \in Seq(BlockType) /\ WaitingIn(d) = Waiting
    BY <2>2, NowHolds
  <2>4. WalkerInv' /\ Waiting' = WaitingIn(d)
    BY <2>3, LaterHolds
  <2>. QED  BY <2>1, <2>3, <2>4 DEF ServiceStep, Service!vars, Grows
<1>2. ASSUME NEW ul \in Ul, NEW id \in Ids, NEW v \in VPage, AddRq(ul, id, v)
      PROVE  WalkerInv' /\ ServiceStep /\ Grows(vm, vm')
  BY <1>2, AddRqStep
<1>3. ASSUME NEW room \in 0..MaxRoom, Operate(room) PROVE WalkerInv' /\ ServiceStep /\ Grows(vm, vm')
  BY <1>3, OperateStep
<1>4. ASSUME NEW block \in BagToSet(below), NEW n \in 1..Copies(block), LowerAnswer(block, n)
      PROVE  WalkerInv' /\ ServiceStep /\ Grows(vm, vm')
  BY <1>4, LowerAnswerStep
<1>5. ASSUME NEW id \in Ids, Collect(id) PROVE WalkerInv' /\ ServiceStep /\ Grows(vm, vm')
  BY <1>5, CollectStep
<1>. QED  BY <1>1, <1>2, <1>3, <1>4, <1>5 DEF Next

(* The constructor's walker: the root of the table is there.                 *)
LEMMA WalkerInit == Init => WalkerInv /\ Service!Init
<1>. SUFFICES ASSUME Init PROVE WalkerInv /\ Service!Init
  OBVIOUS
<1>. PICK w : w = Now
  OBVIOUS
<1>1. /\ w.vm = WithTable(NewVMem, CPU, Zero, LEVELS)
      /\ w.RQ = [ul \in Ul |-> <<>>] /\ w.MSHR = <<>> /\ w.finished = <<>> /\ w.completed = <<>>
      /\ w.pscl = [l \in 1..TOP |-> <<>>] /\ w.below = EmptyBag /\ w.answered = {} /\ w.next = <<>>
      /\ w = [vm |-> w.vm, RQ |-> w.RQ, MSHR |-> w.MSHR, finished |-> w.finished,
              completed |-> w.completed, pscl |-> w.pscl, below |-> w.below,
              answered |-> w.answered, next |-> w.next, room |-> 0, fills |-> 0, reads |-> 0]
  BY DEF Init, Now
<1>2. MemInv(w.vm) /\ Rooted(w.vm)
  <2>. PICK v : v \in VPage
    BY WalkerAssumption
  <2>1. CPU \in Cpu /\ LEVELS \in Level /\ MemInv(NewVMem)
    BY NewGood, VMemAssumption, WalkerAssumption DEF Level
  <2>2. Above(v, LEVELS) = Above(Zero, LEVELS)
    <3>1. (LEVELS + 1)..LEVELS = {}
      BY VMemAssumption
    <3>. QED  BY <3>1 DEF Above
  <2>3. WithTable(NewVMem, CPU, v, LEVELS) = WithTable(NewVMem, CPU, Zero, LEVELS)
    BY <2>2 DEF WithTable, TableFault
  <2>4. MemInv(w.vm) /\ <<CPU, LEVELS, Above(v, LEVELS)>> \in DOMAIN w.vm.tables
    BY <1>1, <2>1, <2>3, WithTableGood
  <2>. QED  BY <2>2, <2>4 DEF Rooted
<1>3. \A S : <<>> \in Seq(S)
  OBVIOUS
<1>4. EmptyBag \in BelowType
  <2>1. EmptyBag \in [{} -> Nat \ {0}]
    BY DEF EmptyBag, SetToBag
  <2>. QED  BY <2>1 DEF BelowType
<1>5. w \in CycleType
  <2>1. w.vm \in VMType
    BY <1>2 DEF MemInv
  <2>2. w.RQ \in [Ul -> Seq(ReqType)] /\ w.pscl \in [1..TOP -> Seq(PsclType)]
    BY <1>1, <1>3
  <2>3. /\ w.MSHR \in Seq(WalkType) /\ w.finished \in Seq(WalkType)
        /\ w.completed \in Seq(WalkType) /\ w.next \in Seq(WalkType)
        /\ w.below \in BelowType /\ w.answered \in SUBSET Ids
    BY <1>1, <1>3, <1>4
  <2>4. w = [vm |-> w.vm, RQ |-> w.RQ, MSHR |-> w.MSHR, finished |-> w.finished,
             completed |-> w.completed, pscl |-> w.pscl, below |-> w.below,
             answered |-> w.answered, next |-> w.next, room |-> 0, fills |-> 0, reads |-> 0]
    BY <1>1
  <2>. QED  BY ONLY <2>1, <2>2, <2>3, <2>4 DEF CycleType
<1>6. \A i : i \notin DOMAIN <<>>
  OBVIOUS
<1>7. \A p \in Place : Queue(w, p) = <<>>
  <2>1. \A p \in Place : (p[1] = "walks" /\ p[2] \in {"MSHR", "finished", "completed", "next"})
                           \/ (p[1] # "walks" /\ p[2] \in Ul)
    BY DEF Place
  <2>. QED  BY <1>1, <2>1 DEF Queue
<1>8. Once(w) /\ WaitingIn(w) = {}
  BY <1>6, <1>7 DEF Once, WaitingIn
<1>9. Paths(w)
  <2>1. \A l \in 1..TOP : w.pscl[l] = <<>>
    BY <1>1
  <2>. QED  BY <1>1, <1>2, <1>6, <2>1 DEF Paths
<1>10. Sized(w)
  <2>1. RQ_SIZE \in Nat /\ PSCL_WAYS \in Nat /\ Len(<<>>) = 0
    BY WalkerAssumption
  <2>2. (\A ul \in Ul : w.RQ[ul] = <<>>) /\ \A l \in 1..TOP : w.pscl[l] = <<>>
    BY <1>1
  <2>. QED  BY <2>1, <2>2 DEF Sized
<1>11. Awaits(w, returned)
  BY <1>1, <1>6 DEF Awaits
<1>12. returned = <<>>
  BY DEF Init
<1>13. WalkerInv
  BY <1>1, <1>3, <1>5, <1>8, <1>9, <1>10, <1>11, <1>12 DEF WalkerInv, Kept
<1>14. Waiting = {} /\ answered = {}
  BY <1>1, <1>5, <1>8, WaitingIs, NowIs
<1>. QED  BY <1>13, <1>14 DEF Service!Init

LEMMA AwaitedThere == WalkerInv => StepAwaited
<1>. SUFFICES ASSUME WalkerInv PROVE StepAwaited
  OBVIOUS
<1>. PICK w : w = Now
  OBVIOUS
<1>1. Kept(w, returned) /\ w \in CycleType
  BY NowHolds
<1>2. /\ w.vm = vm /\ w.RQ = RQ /\ w.MSHR = MSHR /\ w.finished = finished
      /\ w.pscl = pscl /\ w.below = below
  BY NowIs
<1>3. VMemTypeOK
  BY <1>1, <1>2 DEF Kept, Paths, MemInv, VMType, VMemTypeOK
<1>4. MSHR \in Seq(WalkType) /\ finished \in Seq(WalkType)
  BY <1>1, <1>2 DEF CycleType
<1>5. \A e \in Walks : e.address \in AddressType /\ e.level \in 0..TOP
  <2>1. \A e \in Walks : e \in WalkType
    BY <1>4 DEF Walks
  <2>. QED  BY <2>1 DEF WalkType
<1>6. TypeOK
  BY <1>1, <1>2, <1>3, <1>5 DEF TypeOK, Kept, Sized
<1>. QED  BY <1>1, <1>2, <1>6 DEF StepAwaited, Kept, Awaits

(* What walks have read, what is answered and what the PSCLs keep is right,  *)
(* in parts of a page as well.                                              *)
AnswersRight ==
  /\ \A i \in DOMAIN finished :
        HasEntry(finished[i].v, finished[i].level)
          /\ finished[i].data = EntryOf(finished[i].v, finished[i].level)
  /\ \A i \in DOMAIN completed : completed[i].data = InPage(PageOf(vm, CPU, completed[i].v))
  /\ \A l \in 1..TOP : \A i \in DOMAIN pscl[l] :
        HasEntry(pscl[l][i].v, l) /\ pscl[l][i].address = EntryOf(pscl[l][i].v, l)

LEMMA AnswersThere == WalkerInv => AnswersRight
<1>. SUFFICES ASSUME WalkerInv PROVE AnswersRight
  OBVIOUS
<1>. PICK w : w = Now
  OBVIOUS
<1>1. /\ \A i \in DOMAIN w.finished : HasRead(w.vm, w.finished[i])
      /\ \A i \in DOMAIN w.completed : Translates(w.vm, w.completed[i])
      /\ \A l \in 1..TOP : \A i \in DOMAIN w.pscl[l] : Remembers(w.vm, l, w.pscl[l][i])
  BY NowHolds DEF Kept, Paths
<1>2. /\ w.vm = vm /\ w.finished = finished /\ w.completed = completed /\ w.pscl = pscl
  BY NowIs
<1>3. \A i \in DOMAIN finished :
        HasEntry(finished[i].v, finished[i].level)
          /\ finished[i].data = EntryOf(finished[i].v, finished[i].level)
  BY <1>1, <1>2 DEF HasRead, HasEntry, EntryOf
<1>4. \A i \in DOMAIN completed : completed[i].data = InPage(PageOf(vm, CPU, completed[i].v))
  BY <1>1, <1>2 DEF Translates
<1>5. \A l \in 1..TOP : \A i \in DOMAIN pscl[l] :
        HasEntry(pscl[l][i].v, l) /\ pscl[l][i].address = EntryOf(pscl[l][i].v, l)
  BY <1>1, <1>2 DEF Remembers, HasEntry, EntryOf
<1>. QED  BY <1>3, <1>4, <1>5 DEF AnswersRight

LEMMA PathsThere == TABLES_PER_PAGE = 1 /\ WalkerInv => OnPath
<1>. SUFFICES ASSUME TABLES_PER_PAGE = 1, WalkerInv PROVE OnPath
  OBVIOUS
<1>. PICK w : w = Now
  OBVIOUS
<1>1. \A i \in DOMAIN w.MSHR : ReadsPath(w.vm, w.MSHR[i])
  BY NowHolds DEF Kept, Paths
<1>2. w.vm = vm /\ w.MSHR = MSHR
  BY NowIs
<1>3. \A i \in DOMAIN MSHR :
        \/ MSHR[i].level = TOP /\ MSHR[i].address = RootRead(MSHR[i].v)
        \/ \E l \in {MSHR[i].level, MSHR[i].level + 1} \cap (1..TOP) :
              HasEntry(MSHR[i].v, l) /\ MSHR[i].address = EntryOf(MSHR[i].v, l)
  BY <1>1, <1>2 DEF ReadsPath, RootOf, RootRead, HasEntry, EntryOf
<1>. QED  BY <1>3, AnswersThere DEF OnPath, AnswersRight

LEMMA ApartThere == WalkerInv => PagesApart
<1>. SUFFICES ASSUME WalkerInv PROVE PagesApart
  OBVIOUS
<1>. PICK w : w = Now
  OBVIOUS
<1>1. MemInv(w.vm) /\ w.vm = vm
  BY NowHolds, NowIs DEF Kept, Paths
<1>. QED  BY <1>1, InvApart DEF Inv

-----------------------------------------------------------------------------
(* Everything the walker reaches satisfies WalkerInv.                       *)
THEOREM WalkerInvHolds == Spec => []WalkerInv
<1>1. Init => WalkerInv
  BY WalkerInit
<1>2. WalkerInv /\ [Next]_vars => WalkerInv'
  BY WalkerStep
<1>. QED  BY <1>1, <1>2, PTL DEF Spec

(* A walk in an MSHR always has a read of its block under way or an answer  *)
(* that the next operate takes up (handle_read, handle_fill, finish_packet),*)
(* however many walks wait for one block, in whatever order the level below *)
(* answers and however little room it has.                                  *)
THEOREM StepsAlwaysAwaited == Spec => []StepAwaited
BY WalkerInvHolds, AwaitedThere, PTL

(* Where each page of the page table fills a page of memory, a walk never    *)
(* strays from the path of its page, wherever it began, whatever the PSCLs  *)
(* have kept and lost, and after pages have run out (handle_read's search   *)
(* of the PSCLs, handle_fill, finish_step, finish_last_step).               *)
THEOREM WalksAlwaysOnPath == TABLES_PER_PAGE = 1 => (Spec => []WalksOnPath)
<1>. SUFFICES ASSUME TABLES_PER_PAGE = 1 PROVE Spec => []WalksOnPath
  OBVIOUS
<1>1. WalkerInv => WalksOnPath
  BY AwaitedThere, PathsThere DEF WalksOnPath
<1>. QED  BY <1>1, WalkerInvHolds, PTL

(* Whatever the size of the page table's pages, a walk that has read holds   *)
(* the entry of its own page and level, what is answered is the physical    *)
(* page of the page asked for, and a PSCL keeps what the page table holds   *)
(* (handle_fill, finish_step, finish_last_step).                            *)
THEOREM AnswersAlwaysRight == Spec => []AnswersRight
BY WalkerInvHolds, AnswersThere, PTL

(* The walker hands out pages as walks reach them, but no two virtual pages *)
(* or page table pages ever share one before pages run out.                 *)
THEOREM WalkerKeepsPagesApart == Spec => []PagesApart
BY WalkerInvHolds, ApartThere, PTL

(* Whatever a cycle of the walker hands out, no translation and no entry of *)
(* the page table ever changes under a PSCL or a walk that knows it.        *)
THEOREM WalkerKeepsTranslations == Spec => TranslationsStay
<1>1. WalkerInv /\ [Next]_vars =>
        [/\ \A x \in DOMAIN vm.pages : x \in DOMAIN vm'.pages /\ vm'.pages[x] = vm.pages[x]
         /\ \A x \in DOMAIN vm.tables : x \in DOMAIN vm'.tables /\ vm'.tables[x] = vm.tables[x]]_<<vm>>
  BY WalkerStep DEF Grows
<1>. QED  BY <1>1, WalkerInvHolds, PTL DEF Spec, TranslationsStay

(* The walker implements the service of MemService: each walk that was       *)
(* accepted waits in one place, from add_rq through the partitioned MSHRs   *)
(* and the finished and completed walks, and is answered once.              *)
THEOREM WalkerServes == Spec => ServiceSpec
<1>1. Init => WalkerInv /\ Service!Init
  BY WalkerInit
<1>2. WalkerInv /\ [Next]_vars => WalkerInv' /\ [Service!Next]_(Service!vars)
  BY WalkerStep DEF ServiceStep
<1>. QED  BY <1>1, <1>2, PTL DEF Spec, ServiceSpec, Service!Spec
=============================================================================
