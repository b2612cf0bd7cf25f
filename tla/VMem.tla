--------------------------------- MODULE VMem ---------------------------------
(***************************************************************************)
(* Virtual memory (src/src/vmem.cc): physical pages are handed out from a   *)
(* list, one to every virtual page that is translated, and one to every    *)
(* TABLES_PER_PAGE page table pages.  When the list is used up it is        *)
(* filled again from the start.                                            *)
(*                                                                         *)
(* A virtual page is the function of its offsets, one for each level of the *)
(* page table.  The virtual memory is one record and its calls are          *)
(* operators on it, which the page table walker (Walker) is built from;     *)
(* VMemSpec is the virtual memory by itself, called in any order.          *)
(***************************************************************************)
EXTENDS Naturals, Sequences

CONSTANTS
  Cpu,
  VPage,              \* virtual pages
  LEVELS,             \* pt_levels
  Offset,             \* offsets into a page table page
  TABLES_PER_PAGE,    \* PAGE_SIZE / pte_page_size
  PAGES               \* the physical pages are numbered from 1; 0 is never handed out

Level == 1..LEVELS

ASSUME VMemAssumption ==
  /\ LEVELS \in Nat /\ TABLES_PER_PAGE \in Nat \ {0} /\ PAGES \in Nat \ {0}
  /\ VPage \subseteq [Level -> Offset]

VARIABLE vm

(* The part of an address above a level: the key of its page table page. *)
Above(v, l) == [k \in (l + 1)..LEVELS |-> v[k]]
TableKey == {<<cpu, l, Above(v, l)>> : cpu \in Cpu, l \in Level, v \in VPage}

(* populate_pages *)
AllPages == [i \in 1..PAGES |-> i]

(* No page has been translated: next counts the page table pages in the    *)
(* active page.  refilled is the model's: the list has been filled again.   *)
NewVMem ==
  [pages |-> <<>>, tables |-> <<>>, free |-> AllPages, active |-> 0, next |-> 0,
   refilled |-> FALSE]

(* ppage_front and ppage_pop *)
Front(m) == Head(m.free)
PopKeepsLast(m) ==                                             \* mutant
  IF Len(m.free) = 1 THEN m ELSE [m EXCEPT !.free = Tail(@)]
Pop(m) ==
  IF Len(m.free) = 1 THEN [m EXCEPT !.free = AllPages, !.refilled = TRUE]
                     ELSE [m EXCEPT !.free = Tail(@)]

Extended(f, x, y) == [z \in DOMAIN f \cup {x} |-> IF z = x THEN y ELSE f[z]]

(* va_to_pa: Translated is what it leaves behind, PageOf what it returns. *)
PageFault(m, cpu, v) == <<cpu, v>> \notin DOMAIN m.pages
TranslatedEachTime(m, cpu, v) ==                               \* mutant
  [Pop(m) EXCEPT !.pages = Extended(m.pages, <<cpu, v>>, Front(m))]
Translated(m, cpu, v) ==
  IF PageFault(m, cpu, v) THEN [Pop(m) EXCEPT !.pages = Extended(m.pages, <<cpu, v>>, Front(m))]
                          ELSE m
PageOf(m, cpu, v) == m.pages[<<cpu, v>>]

(* get_pte_pa: WithTable is what it leaves behind, Entry what it returns.   *)
TableFault(m, cpu, v, l) == <<cpu, l, Above(v, l)>> \notin DOMAIN m.tables
WithTable(m, cpu, v, l) ==
  LET full == m.next + 1 = TABLES_PER_PAGE
      kept == [m EXCEPT !.tables = Extended(@, <<cpu, l, Above(v, l)>>, <<m.active, m.next>>),
                        !.next = (m.next + 1) % TABLES_PER_PAGE]
  IN  IF ~TableFault(m, cpu, v, l) THEN m
      ELSE IF full THEN [Pop(kept) EXCEPT !.active = Front(m)]
      ELSE kept
Entry(m, cpu, v, l) ==
  LET table == m.tables[<<cpu, l, Above(v, l)>>]
  IN  [page |-> table[1], table |-> table[2], offset |-> v[l]]

-----------------------------------------------------------------------------
VMemInit == vm = NewVMem

va_to_pa(cpu, v) == vm' = Translated(vm, cpu, v)
get_pte_pa(cpu, v, l) == vm' = WithTable(vm, cpu, v, l)

VMemNext ==
  \E cpu \in Cpu, v \in VPage :
     \/ va_to_pa(cpu, v)
     \/ \E l \in Level : get_pte_pa(cpu, v, l)

VMemSpec == VMemInit /\ [][VMemNext]_<<vm>>

-----------------------------------------------------------------------------
Page == 1..PAGES
Slot == 0..(TABLES_PER_PAGE - 1)
PageMap == UNION {[D -> Page] : D \in SUBSET (Cpu \X VPage)}
TableMap == UNION {[D -> (0..PAGES) \X Slot] : D \in SUBSET TableKey}

VMemTypeOK ==
  /\ vm \in [pages : PageMap, tables : TableMap, free : Seq(Page), active : 0..PAGES,
             next : Slot, refilled : BOOLEAN]
  /\ vm.free # <<>>

(* Until the list of pages has been filled again, everything has a place of *)
(* its own in physical memory: no two virtual pages share a page, no two    *)
(* page table pages share a place, and no virtual page is put where the     *)
(* page table is.  va_to_pa and get_pte_pa take pages from one list         *)
(* (src/src/vmem.cc:117, 141), in whatever order walks reach them.          *)
PagesApart ==
  ~vm.refilled =>
     /\ \A x, y \in DOMAIN vm.pages : vm.pages[x] = vm.pages[y] => x = y
     /\ \A x, y \in DOMAIN vm.tables : vm.tables[x] = vm.tables[y] => x = y
     /\ \A x \in DOMAIN vm.pages, y \in DOMAIN vm.tables : vm.pages[x] # vm.tables[y][1]

(* A translation never changes once it has been made, not even when pages   *)
(* run out and are handed out again: TLBs and the walker's PSCLs keep them. *)
TranslationsStay ==
  [][/\ \A x \in DOMAIN vm.pages : x \in DOMAIN vm'.pages /\ vm'.pages[x] = vm.pages[x]
     /\ \A x \in DOMAIN vm.tables : x \in DOMAIN vm'.tables /\ vm'.tables[x] = vm.tables[x]]_<<vm>>
=============================================================================
