--------------------------------- MODULE Dram ---------------------------------
(***************************************************************************)
(* One channel of the DRAM controller (src/src/dram_controller.cc).  Reads  *)
(* and writes wait in slots; a request is scheduled on its bank, then put   *)
(* on the data bus, then finished.  Banks are refreshed periodically, and   *)
(* the channel serves reads or writes, never both.                         *)
(*                                                                         *)
(* The channel is one record, a handler of DRAM_CHANNEL::operate one       *)
(* operator on it, and Cycle their composition.  A time_point is kept as    *)
(* the number of cycles until it comes.  Of times in the past only the     *)
(* order is kept, and only where the code compares them.                   *)
(***************************************************************************)
EXTENDS Integers, FiniteSets

CONSTANTS
  Ids,                \* instructions that wait for a read
  Addr,               \* blocks of memory
  Prefetched,         \* blocks that are also read with no response requested
  Written,            \* blocks that are also written
  Bank, BankOf,       \* [Addr -> Bank]; banks are numbered
  Group, GroupOf,     \* [Bank -> Group]
  Row, RowOf,         \* [Addr -> Row]
  NoRow, NoBank, Empty,
  RQ_SIZE, WQ_SIZE,
  tRP, tRCD, tCAS, tREF, tRFC,
  DBUS_TURN_AROUND, DBUS_RETURN, BANKGROUP_STALL

SlotType ==
  [addr : Addr, wanted : BOOLEAN, deps : SUBSET Ids, checked : BOOLEAN, scheduled : BOOLEAN,
   since : Nat]

ASSUME DramAssumption ==
  /\ Empty \notin SlotType
  /\ BankOf \in [Addr -> Bank] /\ GroupOf \in [Bank -> Group] /\ RowOf \in [Addr -> Row]
  /\ Bank \subseteq Nat /\ IsFiniteSet(Bank)
  /\ Prefetched \subseteq Addr /\ Written \subseteq Addr
  /\ NoRow \notin Row /\ NoBank \notin Bank
  /\ {RQ_SIZE, WQ_SIZE, tREF} \subseteq Nat \ {0}
  /\ {tRP, tRCD, tCAS, tRFC, DBUS_TURN_AROUND, DBUS_RETURN, BANKGROUP_STALL} \subseteq Nat

VARIABLES
  warmup,     \* the phase is a warmup phase
  c,          \* the channel
  answered    \* instructions whose answer has not been collected

vars == <<warmup, c, answered>>

QueueSize(q) == IF q = "RQ" THEN RQ_SIZE ELSE WQ_SIZE
NoSlot == <<"RQ", 0>>
IdleBank ==
  [valid |-> FALSE, need_refresh |-> FALSE, under_refresh |-> FALSE, open_row |-> NoRow,
   ready_in |-> 0, pkt |-> NoSlot]

Init ==
  /\ warmup \in BOOLEAN
  /\ c = [RQ |-> [i \in 1..RQ_SIZE |-> Empty], WQ |-> [i \in 1..WQ_SIZE |-> Empty],
          bank |-> [b \in Bank |-> IdleBank], active |-> NoBank, write_mode |-> FALSE,
          dbus_in |-> 0, group_in |-> [g \in Group |-> 0], refresh_in |-> tREF,
          returned |-> {}]
  /\ answered = {}

-----------------------------------------------------------------------------
Slots == ({"RQ"} \X (1..RQ_SIZE)) \cup ({"WQ"} \X (1..WQ_SIZE))
At(ch, s) == ch[s[1]][s[2]]
Put(ch, s, slot) == [ch EXCEPT ![s[1]][s[2]] = slot]
Occupied(queue) == {i \in DOMAIN queue : queue[i] # Empty}

(* The request of a slot is answered, to everyone it was made for. *)
AnsweredBy(slot) == IF slot.wanted THEN slot.deps ELSE {}

(* Waiting requests are ordered by the time since when they wait, and banks *)
(* by the time since when their request is ready for the data bus.  NOW is *)
(* later than every earlier time of a request.                             *)
NOW == RQ_SIZE + WQ_SIZE
Waits(slot) == slot # Empty /\ ~slot.scheduled
Rank(t, times) == Cardinality({u \in times : u < t})
NormalQueue(queue) ==
  LET times == {queue[i].since : i \in {j \in DOMAIN queue : Waits(queue[j])}}
  IN  [i \in DOMAIN queue |->
         IF Waits(queue[i]) THEN [queue[i] EXCEPT !.since = Rank(@, times)] ELSE queue[i]]
NormalBanks(bank) ==
  LET late == {bank[b].ready_in : b \in {x \in Bank : bank[x].valid /\ bank[x].ready_in < 0}}
  IN  [b \in Bank |->
         IF ~bank[b].valid /\ ~bank[b].under_refresh THEN [bank[b] EXCEPT !.ready_in = 0]
         ELSE IF bank[b].ready_in >= 0 THEN bank[b]
         ELSE [bank[b] EXCEPT !.ready_in = Rank(@, late) - Cardinality(late)]]

(* add_rq and add_wq: the first empty slot. *)
FirstEmpty(queue) ==
  LET empty == DOMAIN queue \ Occupied(queue)
  IN  IF empty = {} THEN 0 ELSE CHOOSE i \in empty : \A j \in empty : i <= j
NewSlot(a, wanted, deps) ==
  [addr |-> a, wanted |-> wanted, deps |-> deps, checked |-> FALSE, scheduled |-> FALSE,
   since |-> NOW]

(* One cycle of the clock. *)
Sooner(t) == IF t = 0 THEN 0 ELSE t - 1
Tick(ch) ==
  [ch EXCEPT !.bank = [b \in Bank |-> [ch.bank[b] EXCEPT !.ready_in = @ - 1]],
             !.dbus_in = Sooner(@),
             !.group_in = [g \in Group |-> Sooner(ch.group_in[g])],
             !.refresh_in = Sooner(@)]

(* In a warmup phase everything is answered at once, and writes are gone. *)
WarmupAnswers(ch) ==
  IF ~warmup THEN ch
  ELSE [ch EXCEPT !.returned = @ \cup UNION {AnsweredBy(ch.RQ[i]) : i \in Occupied(ch.RQ)},
                  !.RQ = [i \in DOMAIN @ |-> Empty],
                  !.WQ = [i \in DOMAIN @ |-> Empty]]

(* find_if with checker *)
CollidesAlsoWithItself(queue, addr, self) ==                   \* mutant
  {i \in Occupied(queue) : queue[i].addr = addr}
Collides(queue, addr, self) == {i \in Occupied(queue) \ {self} : queue[i].addr = addr}
Unchecked(queue, i) == queue[i] # Empty /\ ~queue[i].checked

(* check_write_collision: a new write to a block that is already being      *)
(* written is dropped.                                                     *)
CheckWrite(ch, i) ==
  IF ~Unchecked(ch.WQ, i) THEN ch
  ELSE IF Collides(ch.WQ, ch.WQ[i].addr, i) # {} THEN [ch EXCEPT !.WQ[i] = Empty]
  ELSE [ch EXCEPT !.WQ[i].checked = TRUE]
CheckWriteCollision(ch) ==
  LET after[i \in 0..WQ_SIZE] == IF i = 0 THEN ch ELSE CheckWrite(after[i - 1], i)
  IN  after[WQ_SIZE]

(* check_read_collision: a new read is answered from a write to its block,  *)
(* or joins another read of it, an earlier slot before a later one.        *)
JoinedUnanswered(slot, new) == [slot EXCEPT !.wanted = @ \/ new.wanted]       \* mutant
Joined(slot, new) ==
  [slot EXCEPT !.wanted = @ \/ new.wanted,
               !.deps = @ \cup new.deps]
CheckRead(ch, i) ==
  LET new == ch.RQ[i]
      others == Collides(ch.RQ, new.addr, i)
      dest == CHOOSE j \in others : \A k \in others : j <= k
  IN
  IF ~Unchecked(ch.RQ, i) THEN ch
  ELSE IF Collides(ch.WQ, new.addr, 0) # {}
    THEN [ch EXCEPT !.RQ[i] = Empty, !.returned = @ \cup AnsweredBy(new)]
  ELSE IF others # {} THEN [ch EXCEPT !.RQ[dest] = Joined(@, new), !.RQ[i] = Empty]
  ELSE [ch EXCEPT !.RQ[i].checked = TRUE]
CheckReadCollision(ch) ==
  LET after[i \in 0..RQ_SIZE] == IF i = 0 THEN ch ELSE CheckRead(after[i - 1], i)
  IN  after[RQ_SIZE]

(* finish_dbus_request *)
Finish(ch) ==
  IF ch.active = NoBank \/ ch.bank[ch.active].ready_in > 0 THEN ch
  ELSE LET s == ch.bank[ch.active].pkt IN
       [Put(ch, s, Empty) EXCEPT !.returned = @ \cup AnsweredBy(At(ch, s)),
                                 !.bank[ch.active] = [@ EXCEPT !.valid = FALSE, !.pkt = NoSlot],
                                 !.active = NoBank]

(* swap_write_mode: requests that are scheduled but not on the data bus are *)
(* taken back; a bank that would be ready within tCAS loses its row.       *)
HIGH_WM == (WQ_SIZE * 7) \div 8
LOW_WM == (WQ_SIZE * 6) \div 8
Unbalanced(ch) ==
  LET writes == Cardinality(Occupied(ch.WQ))
      reads == Cardinality(Occupied(ch.RQ))
  IN  IF ch.write_mode THEN writes = 0 \/ (reads > 0 /\ writes < LOW_WM)
      ELSE writes >= HIGH_WM \/ (reads = 0 /\ writes > 0)

TakenBackAll(ch) == {b \in Bank : ch.bank[b].valid}                        \* mutant
TakenBack(ch) == {b \in Bank : b # ch.active /\ ch.bank[b].valid}

Unscheduled(queue, taken) ==
  [i \in DOMAIN queue |->
     IF i \in taken THEN [queue[i] EXCEPT !.scheduled = FALSE, !.since = NOW] ELSE queue[i]]

SwapWriteMode(ch) ==
  LET back == TakenBack(ch)
      taken(q) == {i \in DOMAIN ch[q] : \E b \in back : ch.bank[b].pkt = <<q, i>>}
  IN
  IF ~Unbalanced(ch) THEN ch
  ELSE [ch EXCEPT
         !.bank = [b \in Bank |->
            IF b \notin back THEN ch.bank[b]
            ELSE [ch.bank[b] EXCEPT !.valid = FALSE, !.pkt = NoSlot,
                              !.open_row = IF ch.bank[b].ready_in < tCAS THEN NoRow ELSE @]],
         !.RQ = Unscheduled(@, taken("RQ")),
         !.WQ = Unscheduled(@, taken("WQ")),
         !.dbus_in = DBUS_TURN_AROUND + (IF ch.active = NoBank THEN 0 ELSE ch.bank[ch.active].ready_in),
         !.write_mode = ~@]

(* schedule_refresh: every tREF each bank needs a refresh, which begins when *)
(* the bank is free and closes its row when it ends.                       *)
Refreshed(b, due) ==
  LET need == b.need_refresh \/ due
  IN  IF need /\ ~b.valid
        THEN [b EXCEPT !.need_refresh = FALSE, !.under_refresh = TRUE, !.ready_in = tRFC]
      ELSE IF b.under_refresh /\ b.ready_in <= 0
        THEN [b EXCEPT !.need_refresh = need, !.under_refresh = FALSE, !.open_row = NoRow]
      ELSE [b EXCEPT !.need_refresh = need]
ScheduleRefresh(ch) ==
  LET due == ch.refresh_in = 0
  IN  [ch EXCEPT !.bank = [b \in Bank |-> Refreshed(ch.bank[b], due)],
                 !.refresh_in = IF due THEN tREF ELSE @]

(* populate_dbus: the valid bank that is ready first goes onto the data bus. *)
PopulateDbus(ch) ==
  LET ready == {b \in Bank : ch.bank[b].valid /\ ch.bank[b].ready_in <= 0}
      first == CHOOSE b \in ready : \A d \in ready \ {b} :
                 \/ ch.bank[b].ready_in < ch.bank[d].ready_in
                 \/ ch.bank[b].ready_in = ch.bank[d].ready_in /\ b < d
      group == GroupOf[first]
  IN
  IF ch.active # NoBank \/ ch.dbus_in > 0 \/ ready = {} THEN ch
  ELSE [ch EXCEPT !.active = first,
                  !.bank[first].ready_in = ch.group_in[group] + DBUS_RETURN,
                  !.group_in[group] = DBUS_RETURN + BANKGROUP_STALL]

(* schedule_packet: the request of the current mode whose bank is free, then *)
(* the one that waits longest, then the last slot.                         *)
BeforeLastFirst(ch, queue, i, j) ==                                        \* mutant
  queue[i].since > queue[j].since \/ (queue[i].since = queue[j].since /\ i > j)
Before(ch, queue, i, j) ==
  LET ready(k) == ~ch.bank[BankOf[queue[k].addr]].valid
  IN  IF ready(i) # ready(j) THEN ready(i)
      ELSE queue[i].since < queue[j].since \/ (queue[i].since = queue[j].since /\ i > j)
NextPacket(ch) ==
  LET q == IF ch.write_mode THEN "WQ" ELSE "RQ"
      waiting == {i \in DOMAIN ch[q] : Waits(ch[q][i])}
  IN  IF waiting = {} THEN NoSlot
      ELSE <<q, CHOOSE i \in waiting : \A j \in waiting \ {i} : Before(ch, ch[q], i, j)>>

(* service_packet *)
Free(bank) == ~bank.valid /\ ~bank.under_refresh
ServicePacket(ch) ==
  LET s == NextPacket(ch)
      b == BankOf[At(ch, s).addr]
      row == ch.bank[b].open_row
      charge == IF row = NoRow THEN tRCD ELSE IF row = RowOf[At(ch, s).addr] THEN 0 ELSE tRP + tRCD
  IN
  IF s = NoSlot \/ ~Free(ch.bank[b]) THEN ch
  ELSE [Put(ch, s, [At(ch, s) EXCEPT !.scheduled = TRUE, !.since = 0]) EXCEPT
         !.bank[b] = [valid |-> TRUE, need_refresh |-> FALSE, under_refresh |-> FALSE,
                      open_row |-> RowOf[At(ch, s).addr], ready_in |-> tCAS + charge, pkt |-> s]]

-----------------------------------------------------------------------------
IdsOf(queue) == UNION {AnsweredBy(queue[i]) : i \in Occupied(queue)}
Idle == Ids \ (IdsOf(c.RQ) \cup answered)

(* initiate_requests: the head of a queue of a level above is accepted when *)
(* there is an empty slot.                                                 *)
Accept(q, a, wanted, deps) ==
  LET i == FirstEmpty(c[q])
  IN  /\ i # 0
      /\ c' = Put(c, <<q, i>>, NewSlot(a, wanted, deps))
AddRead(a, i) == Accept("RQ", a, TRUE, {i}) /\ UNCHANGED <<warmup, answered>>
AddPrefetch(a) == Accept("RQ", a, FALSE, {}) /\ UNCHANGED <<warmup, answered>>
AddWrite(a) == Accept("WQ", a, FALSE, {}) /\ UNCHANGED <<warmup, answered>>

(* operate: the handlers in their order. *)
Cycle ==
  \E ticked \in {WarmupAnswers(Tick(c))} :
  \E merged \in {CheckWriteCollision(ticked)} :
  \E checked \in {CheckReadCollision(merged)} :
  \E finished \in {Finish(checked)} :
  \E swapped \in {SwapWriteMode(finished)} :
  \E refreshed \in {ScheduleRefresh(swapped)} :
  \E populated \in {PopulateDbus(refreshed)} :
  \E serviced \in {ServicePacket(populated)} :
     /\ c' = [serviced EXCEPT !.returned = {}, !.bank = NormalBanks(@),
                              !.RQ = NormalQueue(@), !.WQ = NormalQueue(@)]
     /\ answered' = answered \cup serviced.returned
     /\ UNCHANGED warmup

Collect(i) == i \in answered /\ answered' = answered \ {i} /\ UNCHANGED <<warmup, c>>
EndWarmup == warmup /\ warmup' = FALSE /\ UNCHANGED <<c, answered>>

Next ==
  \/ \E a \in Addr, i \in Idle : AddRead(a, i)
  \/ \E a \in Prefetched : AddPrefetch(a)
  \/ \E a \in Written : AddWrite(a)
  \/ Cycle
  \/ \E i \in Ids : Collect(i)
  \/ EndWarmup

Spec == Init /\ [][Next]_vars

(* The controller operates in every cycle of its clock.  Writes are the      *)
(* dirty blocks of the levels above, which they evict to make room for the *)
(* reads they wait for: without answers they come to an end.               *)
FairSpec ==
  /\ Spec
  /\ []<><<Cycle>>_vars
  /\ <>[][~ \E a \in Written : AddWrite(a)]_vars

-----------------------------------------------------------------------------
BankType ==
  [valid : BOOLEAN, need_refresh : BOOLEAN, under_refresh : BOOLEAN,
   open_row : Row \cup {NoRow}, ready_in : Int, pkt : Slots \cup {NoSlot}]
ChannelType ==
  [RQ : [1..RQ_SIZE -> SlotType \cup {Empty}], WQ : [1..WQ_SIZE -> SlotType \cup {Empty}],
   bank : [Bank -> BankType], active : Bank \cup {NoBank}, write_mode : BOOLEAN,
   dbus_in : Int, group_in : [Group -> Int], refresh_in : Int, returned : SUBSET Ids]

TypeOK == warmup \in BOOLEAN /\ c \in ChannelType /\ answered \subseteq Ids

(* A bank with a request refers to a slot that still holds it: the slot is  *)
(* marked scheduled, is for this bank and, unless it is on the data bus,   *)
(* for the mode the channel is in; and every slot that is marked scheduled *)
(* has its bank.  The bank keeps an iterator into the queues               *)
(* (src/inc/dram_controller.h:134) that finishing, swapping modes and      *)
(* merging must never leave behind, and a slot marked scheduled without a  *)
(* bank would wait for ever.                                               *)
Scheduled(slot) == slot # Empty /\ slot.scheduled
PacketsOfBanks(ch) ==
  /\ \A b \in Bank : ch.bank[b].valid =>
        LET s == ch.bank[b].pkt IN
        /\ s \in Slots
        /\ Scheduled(At(ch, s))
        /\ BankOf[At(ch, s).addr] = b
        /\ b # ch.active => (s[1] = "WQ" <=> ch.write_mode)
  /\ \A s \in Slots :
        Scheduled(At(ch, s)) => \E b \in Bank : ch.bank[b].valid /\ ch.bank[b].pkt = s
  /\ ch.active # NoBank => ch.bank[ch.active].valid
BanksMatchSlots == PacketsOfBanks(c)

(* A bank is never refreshed while it has a request, and a refresh it needs *)
(* is put off only by a request (schedule_refresh and service_packet look  *)
(* at each other's flags, src/src/dram_controller.cc:197, 366).            *)
RefreshAlone ==
  \A b \in Bank :
     /\ ~(c.bank[b].valid /\ c.bank[b].under_refresh)
     /\ c.bank[b].need_refresh => c.bank[b].valid

(* Outside of warmup a block that is to be written leaves the write queue   *)
(* only when its write has been on the data bus: check_write_collision     *)
(* drops a new write only for an older one to the same block.              *)
WriteBlocks(ch) == {ch.WQ[i].addr : i \in Occupied(ch.WQ)}
WritesKept ==
  [][~warmup =>
       \A a \in WriteBlocks(c) \ WriteBlocks(c') :
          c.active # NoBank /\ c.bank[c.active].pkt \in {<<"WQ", i>> : i \in {j \in 1..WQ_SIZE : c.WQ[j] # Empty /\ c.WQ[j].addr = a}}]_vars

(* Banks, slots, the mode and the refreshes agree in every order of         *)
(* arrivals, merges, mode swaps, refreshes and finished requests.           *)
BanksAgree == TypeOK /\ BanksMatchSlots /\ RefreshAlone

(* Why BanksAgree holds: what merging drops was not scheduled, because a    *)
(* request is scheduled only after it was checked, and in a warmup phase   *)
(* no request waits long enough to be scheduled.                           *)
NewUnscheduled(ch) ==
  \A s \in Slots : Scheduled(At(ch, s)) => At(ch, s).checked
DramInv ==
  /\ BanksAgree
  /\ NewUnscheduled(c)
  /\ warmup => \A b \in Bank : ~c.bank[b].valid

(* Once the levels above have no more writes, every read is answered,       *)
(* whatever the order of banks, refreshes and mode swaps; and however busy  *)
(* it is, every bank is refreshed again and again (swap_write_mode,         *)
(* src/src/dram_controller.cc:218, and schedule_refresh, :175).              *)
ReadsAnswered == \A i \in Ids : i \in IdsOf(c.RQ) ~> i \in answered
RefreshedForEver == \A b \in Bank : []<>(c.bank[b].under_refresh)
EverythingServed == ReadsAnswered /\ RefreshedForEver

(* The channel keeps the promise of MemService: merged and forwarded reads  *)
(* are answered, once.                                                     *)
Service == INSTANCE MemService WITH Ids <- Ids, pending <- IdsOf(c.RQ), answered <- answered
ServiceSpec == Service!Spec
=============================================================================
