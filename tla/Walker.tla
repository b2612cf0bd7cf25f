-------------------------------- MODULE Walker --------------------------------
(***************************************************************************)
(* The page table walker (src/src/ptw.cc) over the virtual memory (VMem).   *)
(* A read from a level above becomes a walk: a chain of reads of page table *)
(* entries from the level below, one for each level of the table, shortened *)
(* by the walker's caches of page table entries (PSCLs).                    *)
(*                                                                         *)
(* The level below is external: it answers reads of a block in any order,   *)
(* one answer for any number of the reads of the block, and has room for    *)
(* some of the reads the walker makes in a cycle.  A time_point is kept as  *)
(* the number of cycles until it comes.                                     *)
(***************************************************************************)
EXTENDS VMem, Integers, FiniteSets, Bags

CONSTANTS
  Ids,                \* instructions that wait for a translation
  Upper,              \* <<upper level, ...>>: in the order they are served
  CPU,                \* whose walker it is
  PER_BLOCK,          \* page table entries in a block
  PSCL_WAYS,          \* there is a PSCL for each level but the lowest
  MAX_READ, MAX_FILL,
  RQ_SIZE,
  HIT_LATENCY, FAULT_PENALTY,
  LATE                \* reads that may be answered late

VARIABLES
  RQ,                 \* RQ of each level above
  MSHR, finished, completed,
  pscl,               \* of each level the entries, the last used one first
  below,              \* reads of the level below that have no answer
  returned,           \* lower_level->returned
  answered            \* instructions whose answer has not been collected

vars == <<vm, RQ, MSHR, finished, completed, pscl, below, returned, answered>>

Ul == {Upper[u] : u \in DOMAIN Upper}

(* A walk begins at the level below the highest, and is for some page. *)
ASSUME WalkerAssumption ==
  /\ CPU \in Cpu /\ VPage # {} /\ LEVELS > 1
  /\ Upper \in Seq(Ul)
  /\ {PER_BLOCK, PSCL_WAYS, MAX_READ, MAX_FILL, RQ_SIZE} \subseteq Nat \ {0}
  /\ {HIT_LATENCY, FAULT_PENALTY} \subseteq Nat

(* The walk starts at the level below the highest: std::size(pscl). *)
TOP == LEVELS - 1

(* A virtual page for a root entry: page_number{} *)
Zero == [l \in 1..LEVELS |-> 0]

(* The constructor allocates the root of the table. *)
Cr3(m) == Entry(m, CPU, Zero, LEVELS)

Init ==
  /\ vm = WithTable(NewVMem, CPU, Zero, LEVELS)
  /\ RQ = [ul \in Ul |-> <<>>]
  /\ MSHR = <<>> /\ finished = <<>> /\ completed = <<>>
  /\ pscl = [l \in 1..TOP |-> <<>>]
  /\ below = EmptyBag /\ returned = <<>>
  /\ answered = {}

-----------------------------------------------------------------------------
(* The start of a page; champsim::address{} stands for no address. *)
InPage(page) == [page |-> page, table |-> 0, offset |-> 0]
NoAddress == InPage(0)

BlockOf(e) == [page |-> e.page, table |-> e.table, block |-> e.offset \div PER_BLOCK]

(* get_span_p with a bandwidth: the length of the longest prefix of ready   *)
(* entries, at most as long as max.                                        *)
ReadyPrefix(q, max) ==
  CHOOSE n \in 0..Len(q) :
     /\ n <= max /\ \A i \in 1..n : q[i].ready_in <= 0
     /\ n = Len(q) \/ n = max \/ q[n + 1].ready_in > 0

DropFirst(q, n) == SubSeq(q, n + 1, Len(q))

(* The state of a cycle as operate goes along: w.room is how many reads the *)
(* level below will still take, w.next the walks that made a step.          *)
Sooner(q) == [i \in DOMAIN q |-> [q[i] EXCEPT !.ready_in = IF @ = 0 THEN 0 ELSE @ - 1]]
Begin(room) ==
  [vm |-> vm, RQ |-> RQ, MSHR |-> MSHR, finished |-> Sooner(finished),
   completed |-> Sooner(completed), pscl |-> pscl, below |-> below, answered |-> answered,
   next |-> <<>>, room |-> room, fills |-> MAX_FILL, reads |-> MAX_READ]

(* finish_step and finish_last_step: what the walk reads in its page table  *)
(* entry, and when it has it.                                              *)
FinishedStep(w, e) ==
  LET fault == TableFault(w.vm, CPU, e.v, e.level)
      after == WithTable(w.vm, CPU, e.v, e.level)
  IN  [w EXCEPT !.vm = after,
                !.finished = Append(@, [e EXCEPT
                   !.data = Entry(after, CPU, e.v, e.level),
                   !.ready_in = HIT_LATENCY + (IF fault THEN FAULT_PENALTY ELSE 0)])]
FinishedLastStep(w, e) ==
  LET fault == PageFault(w.vm, CPU, e.v)
      after == Translated(w.vm, CPU, e.v)
  IN  [w EXCEPT !.vm = after,
                !.completed = Append(@, [e EXCEPT
                   !.data = InPage(PageOf(after, CPU, e.v)),
                   !.ready_in = HIT_LATENCY + (IF fault THEN FAULT_PENALTY ELSE 0)])]

(* std::partition: what does not match and stands where the matching ones    *)
(* go changes places with them, the first with the last.                    *)
Partitioned(q, block) ==
  LET match == {i \in DOMAIN q : BlockOf(q[i].address) = block}
      m == Cardinality(match)
      out == (1..m) \ match
      in == match \ (1..m)
      Before(i, S) == Cardinality({k \in S : k < i})
      After(i, S) == Cardinality({k \in S : k > i})
  IN  [count |-> m,
       queue |-> [i \in DOMAIN q |->
          IF i \in out THEN q[CHOOSE k \in in : After(k, in) = Before(i, out)]
          ELSE IF i \in in THEN q[CHOOSE k \in out : Before(k, out) = After(i, in)]
          ELSE q[i]]]

(* finish_packet: every walk that waits for the block goes on. *)
FinishPacket(w, block) ==
  LET found == Partitioned(w.MSHR, block)
      after[i \in 0..found.count] ==
        IF i = 0 THEN w
        ELSE IF found.queue[i].level = 0 THEN FinishedLastStep(after[i - 1], found.queue[i])
        ELSE FinishedStep(after[i - 1], found.queue[i])
  IN  [after[found.count] EXCEPT !.MSHR = DropFirst(found.queue, found.count)]

FinishPackets(w) ==
  LET after[i \in 0..Len(returned)] ==
        IF i = 0 THEN w ELSE FinishPacket(after[i - 1], returned[i])
  IN  after[Len(returned)]

(* Completed walks that are ready are answered. *)
Complete(w) ==
  LET n == ReadyPrefix(w.completed, w.fills)
  IN  [w EXCEPT !.answered = @ \cup {w.completed[i].id : i \in 1..n},
                !.completed = DropFirst(@, n),
                !.fills = @ - n]

(* step_translation: the read of the walk's page table entry is made, if    *)
(* the level below has room for it.                                        *)
StepTranslation(w, e) ==
  [w EXCEPT !.below = @ (+) SetToBag({BlockOf(e.address)}),
            !.room = @ - 1,
            !.next = Append(@, [e EXCEPT !.data = NoAddress, !.ready_in = 0])]

(* A PSCL: check_hit and fill of the least recently used table of each      *)
(* level, with one set.                                                    *)
PsclTagOneLow(v, l) == Above(v, l + 1)                       \* mutant
PsclTag(v, l) == Above(v, l)
PsclHit(table, v, l) == {i \in DOMAIN table : PsclTag(table[i].v, l) = PsclTag(v, l)}
Used(table, i) == <<table[i]>> \o SubSeq(table, 1, i - 1) \o DropFirst(table, i)
Touched(table, v, l) ==
  LET hit == PsclHit(table, v, l)
  IN  IF hit = {} THEN table ELSE Used(table, CHOOSE i \in hit : TRUE)
Filled(table, v, l, entry) ==
  LET others == IF PsclHit(table, v, l) = {} THEN table ELSE Tail(Touched(table, v, l))
  IN  <<entry>> \o SubSeq(others, 1, IF Len(others) < PSCL_WAYS THEN Len(others) ELSE PSCL_WAYS - 1)

(* handle_fill: the entry is kept in the PSCL of its level, and the walk    *)
(* goes on to the entry it refers to.                                      *)
HandleFillSameLevel(w, e) ==                                   \* mutant
  StepTranslation(
    [w EXCEPT !.pscl[e.level] = Filled(@, e.v, e.level, [v |-> e.v, address |-> e.data])],
    [e EXCEPT !.address = e.data])
HandleFill(w, e) ==
  StepTranslation(
    [w EXCEPT !.pscl[e.level] = Filled(@, e.v, e.level, [v |-> e.v, address |-> e.data])],
    [e EXCEPT !.address = e.data, !.level = e.level - 1])

(* The finished walks that are ready, until one finds no room below: its    *)
(* PSCL is filled, but it stays where it is.                                *)
FillRefusedToo(w) ==                                           \* mutant
  LET n == ReadyPrefix(w.finished, w.fills)
      k == IF n < w.room THEN n ELSE w.room
      after[i \in 0..k] == IF i = 0 THEN w ELSE HandleFill(after[i - 1], w.finished[i])
  IN  [after[k] EXCEPT !.finished = DropFirst(@, n), !.fills = @ - n]
Fill(w) ==
  LET n == ReadyPrefix(w.finished, w.fills)
      k == IF n < w.room THEN n ELSE w.room
      after[i \in 0..k] == IF i = 0 THEN w ELSE HandleFill(after[i - 1], w.finished[i])
      tried == IF k < n THEN [after[k] EXCEPT !.pscl = HandleFill(after[k], w.finished[k + 1]).pscl]
                        ELSE after[k]
  IN  [tried EXCEPT !.finished = DropFirst(@, k), !.fills = @ - k]

(* handle_read: the walk starts at the lowest level some PSCL knows, with    *)
(* that level's own entry, or else at the root.                             *)
WalkInit(w, r) ==
  LET hits == {l \in 1..TOP : PsclHit(w.pscl[l], r.v, l) # {}}
      low == CHOOSE l \in hits : \A k \in hits : l <= k
      hit == w.pscl[low][CHOOSE i \in PsclHit(w.pscl[low], r.v, low) : TRUE]
      start == IF hits = {} THEN [address |-> Cr3(w.vm), level |-> TOP]
                            ELSE [address |-> hit.address, level |-> low]
  IN  [id |-> r.id, v |-> r.v, level |-> start.level, data |-> NoAddress, ready_in |-> 0,
       address |-> [page |-> start.address.page, table |-> 0, offset |-> r.v[start.level]]]
HandleRead(w, r) ==
  StepTranslation([w EXCEPT !.pscl = [l \in 1..TOP |-> Touched(@[l], r.v, l)]], WalkInit(w, r))

Least(S) == CHOOSE n \in S : \A k \in S : n <= k
Read(w, ul) ==
  LET q == w.RQ[ul]
      k == Least({Len(q), w.reads, w.room})
      tries == Least({Len(q), w.reads})
      after[i \in 0..k] == IF i = 0 THEN w ELSE HandleRead(after[i - 1], q[i])
      tried == IF k < tries THEN [after[k] EXCEPT !.pscl = HandleRead(after[k], q[k + 1]).pscl]
                            ELSE after[k]
  IN  [tried EXCEPT !.RQ[ul] = DropFirst(@, k), !.reads = @ - k]
ReadAll(w) ==
  LET after[u \in 0..Len(Upper)] == IF u = 0 THEN w ELSE Read(after[u - 1], Upper[u])
  IN  after[Len(Upper)]

-----------------------------------------------------------------------------
(* The waiting instructions, from add_rq to the answer. *)
Walks == {MSHR[i] : i \in DOMAIN MSHR} \cup {finished[i] : i \in DOMAIN finished}
Waiting ==
  {w.id : w \in Walks} \cup {completed[i].id : i \in DOMAIN completed}
    \cup UNION {{RQ[ul][i].id : i \in DOMAIN RQ[ul]} : ul \in Ul}

AddRq(ul, id, v) ==
  /\ id \notin Waiting \cup answered
  /\ Len(RQ[ul]) < RQ_SIZE
  /\ RQ' = [RQ EXCEPT ![ul] = Append(@, [id |-> id, v |-> v])]
  /\ UNCHANGED <<vm, MSHR, finished, completed, pscl, below, returned, answered>>

Operate(room) ==
  \E came \in {FinishPackets(Begin(room))} :
  \E done \in {Complete(came)} :
  \E filled \in {Fill(done)} :
  \E read \in {ReadAll(filled)} :
     /\ vm' = read.vm /\ RQ' = read.RQ /\ finished' = read.finished
     /\ completed' = read.completed /\ pscl' = read.pscl /\ below' = read.below
     /\ answered' = read.answered
     /\ MSHR' = read.MSHR \o read.next
     /\ returned' = <<>>

(* How many reads of a block the level below has. *)
Copies(block) == IF BagIn(block, below) THEN below[block] ELSE 0

(* The level below answers some of the reads of a block: at most LATE reads  *)
(* are left that no walk waits for any more.                                *)
Unanswered(came) ==
  Cardinality({i \in DOMAIN MSHR : ~ \E k \in DOMAIN came : came[k] = BlockOf(MSHR[i].address)})
LowerAnswer(block, n) ==
  /\ below' = below (-) [b \in {block} |-> n]
  /\ returned' = Append(returned, block)
  /\ BagCardinality(below') <= Unanswered(returned') + LATE
  /\ UNCHANGED <<vm, RQ, MSHR, finished, completed, pscl, answered>>

Collect(id) ==
  /\ id \in answered
  /\ answered' = answered \ {id}
  /\ UNCHANGED <<vm, RQ, MSHR, finished, completed, pscl, below, returned>>

(* The most reads the walker can make in a cycle. *)
MaxRoom == MAX_FILL + MAX_READ

Next ==
  \/ \E ul \in Ul, id \in Ids, v \in VPage : AddRq(ul, id, v)
  \/ \E room \in 0..MaxRoom : Operate(room)
  \/ \E block \in BagToSet(below) : \E n \in 1..Copies(block) : LowerAnswer(block, n)
  \/ \E id \in Ids : Collect(id)

Spec == Init /\ [][Next]_vars

(* The walker operates in every cycle of its clock, and again and again the  *)
(* level below has room: an operate with nothing to do changes nothing.     *)
(* The level below answers every read.                                      *)
ReadOf(id) == {BlockOf(MSHR[i].address) : i \in {k \in DOMAIN MSHR : MSHR[k].id = id}}
Idle == finished = <<>> /\ completed = <<>> /\ returned = <<>> /\ \A ul \in Ul : RQ[ul] = <<>>
Fairness ==
  /\ []<>Idle \/ []<><<Operate(MaxRoom)>>_vars
  /\ \A id \in Ids : WF_vars(\E block \in ReadOf(id) \cap BagToSet(below) : LowerAnswer(block, Copies(block)))

FairSpec == Spec /\ Fairness

-----------------------------------------------------------------------------
AddressType == [page : 0..PAGES, table : 0..(TABLES_PER_PAGE - 1), offset : Offset]
TypeOK ==
  /\ VMemTypeOK
  /\ \A ul \in Ul : Len(RQ[ul]) <= RQ_SIZE
  /\ \A e \in Walks : e.address \in AddressType /\ e.level \in 0..TOP
  /\ \A l \in 1..TOP : Len(pscl[l]) <= PSCL_WAYS

(* A walk in an MSHR always has a read of its block under way: operate makes *)
(* the read before it inserts the walk, several walks may wait for one      *)
(* block, and an answer may come for a read made by a walk that has gone on *)
(* already.  A walk without a read waits for ever.                          *)
StepAwaited ==
  /\ TypeOK
  /\ \A i \in DOMAIN MSHR :
        \/ BagIn(BlockOf(MSHR[i].address), below)
        \/ \E k \in DOMAIN returned : returned[k] = BlockOf(MSHR[i].address)

(* A walk never strays: what it reads is the entry of its own page in the   *)
(* table of the level above its own or, when a PSCL gave it the address, of *)
(* its own level, and what it has read is the entry of its own level.  Each *)
(* PSCL is filled at the index |pscl| - level and looked up by a shift of   *)
(* its own (src/src/ptw.cc:94, inc/ptw.h:50): the two must agree.           *)
EntryOf(v, l) == Entry(vm, CPU, v, l)
HasEntry(v, l) == ~TableFault(vm, CPU, v, l)
RootRead(v) == [page |-> Cr3(vm).page, table |-> 0, offset |-> v[TOP]]
OnPath ==
  /\ \A i \in DOMAIN MSHR :
        LET e == MSHR[i] IN
        \/ e.level = TOP /\ e.address = RootRead(e.v)
        \/ \E l \in {e.level, e.level + 1} \cap (1..TOP) :
              HasEntry(e.v, l) /\ e.address = EntryOf(e.v, l)
  /\ \A i \in DOMAIN finished :
        HasEntry(finished[i].v, finished[i].level)
          /\ finished[i].data = EntryOf(finished[i].v, finished[i].level)
  /\ \A i \in DOMAIN completed : completed[i].data = InPage(PageOf(vm, CPU, completed[i].v))

(* In whatever order walks merge, wait and go on. *)
WalksOnPath == StepAwaited /\ OnPath

(* Every translation that is asked for is answered, however walks merge,    *)
(* whenever the level below is full, and after pages have run out.          *)
WalksAnswered == \A id \in Ids : id \in Waiting ~> id \in answered

(* The walker keeps the promise of MemService: one answer for each walk. *)
Service == INSTANCE MemService WITH Ids <- Ids, pending <- Waiting, answered <- answered
ServiceSpec == Service!Spec
=============================================================================
