------------------------------- MODULE DramProofs -------------------------------
(* What Dram promises, for queues of every size, every number of banks and   *)
(* all timings.  A cycle is the composition of eight handlers, so there is   *)
(* one lemma per handler: it keeps StageInv, what holds of the channel       *)
(* between two handlers.                                                   *)
EXTENDS Dram, FiniteSetTheorems, FunctionTheorems, WellFoundedInduction, TLAPS

Queues == {"RQ", "WQ"}

(* What holds of the channel between two handlers of a cycle: all of DramInv *)
(* but that a bank that needs a refresh has a request, which finishing and   *)
(* swapping modes break until the refreshes are scheduled; and in a warmup   *)
(* phase nothing waits any more.                                           *)
NotBoth(ch) == \A b \in Bank : ~(ch.bank[b].valid /\ ch.bank[b].under_refresh)
NothingWaits(ch) ==
  /\ \A b \in Bank : ~ch.bank[b].valid
  /\ \A s \in Slots : At(ch, s) = Empty
StageInv(ch) ==
  /\ ch \in ChannelType
  /\ PacketsOfBanks(ch) /\ NewUnscheduled(ch) /\ NotBoth(ch)
  /\ warmup => NothingWaits(ch)

-----------------------------------------------------------------------------
(* A set of numbers that is not empty has a first one.                       *)
FirstOf(S) == CHOOSE x \in S : \A y \in S : x <= y

LEMMA FirstFound ==
  ASSUME NEW S, S \subseteq Nat, S # {}
  PROVE  FirstOf(S) \in S /\ \A y \in S : FirstOf(S) <= y
<1>. DEFINE R == OpToRel(<, Nat)
<1>1. \A x, y \in Nat : x < y => <<x, y>> \in R
  BY DEF OpToRel
<1>2. IsWellFoundedOn(R, Nat)
  BY NatLessThanWellFounded
<1>. HIDE DEF R
<1>3. PICK x \in S : \A y \in S : <<y, x>> \notin R
  BY <1>2, WFMin
<1>4. \A y \in S : ~(y < x)
  BY <1>1, <1>3
<1>5. \A y \in S : x <= y
  BY <1>4
<1>. QED  BY <1>5 DEF FirstOf

-----------------------------------------------------------------------------
(* Slots.                                                                  *)

LEMMA SlotParts ==
  ASSUME NEW s \in Slots
  PROVE  /\ s[1] \in Queues /\ s[2] \in 1..QueueSize(s[1])
         /\ s = <<s[1], s[2]>>
BY DEF Slots, Queues, QueueSize

LEMMA SlotOf ==
  ASSUME NEW q \in Queues, NEW i \in 1..QueueSize(q)
  PROVE  <<q, i>> \in Slots
BY DEF Slots, Queues, QueueSize

LEMMA QueueTyped ==
  ASSUME NEW ch \in ChannelType, NEW q \in Queues
  PROVE  /\ ch[q] \in [1..QueueSize(q) -> SlotType \cup {Empty}]
         /\ DOMAIN ch[q] = 1..QueueSize(q)
BY DEF ChannelType, Queues, QueueSize

LEMMA SlotTyped ==
  ASSUME NEW ch \in ChannelType, NEW s \in Slots
  PROVE  At(ch, s) \in SlotType \cup {Empty} /\ (At(ch, s) # Empty => At(ch, s) \in SlotType)
BY SlotParts, QueueTyped DEF At

LEMMA SizesAre == RQ_SIZE \in Nat \ {0} /\ WQ_SIZE \in Nat \ {0}
BY DramAssumption

LEMMA TimesAre ==
  /\ tRP \in Nat /\ tRCD \in Nat /\ tCAS \in Nat /\ tREF \in Nat /\ tRFC \in Nat
  /\ DBUS_TURN_AROUND \in Nat /\ DBUS_RETURN \in Nat /\ BANKGROUP_STALL \in Nat
BY DramAssumption

(* Handlers that change no bank, and of slots only those that are not        *)
(* scheduled, or not whether they are scheduled, checked, or for which block. *)
KeepsScheduled(ch, d) ==
  /\ d \in ChannelType
  /\ d.bank = ch.bank /\ d.active = ch.active /\ d.write_mode = ch.write_mode
  /\ \A s \in Slots :
       \/ At(d, s) = At(ch, s)
       \/ At(ch, s) # Empty /\ ~At(ch, s).scheduled
            /\ (At(d, s) # Empty => ~At(d, s).scheduled)
       \/ /\ At(ch, s) # Empty /\ At(d, s) # Empty
          /\ At(d, s).scheduled = At(ch, s).scheduled
          /\ At(d, s).checked = At(ch, s).checked
          /\ At(d, s).addr = At(ch, s).addr

LEMMA KeepsStageInv ==
  ASSUME NEW ch, StageInv(ch), NEW d, KeepsScheduled(ch, d)
  PROVE  StageInv(d)
<1>1. \A s \in Slots : Scheduled(At(ch, s)) <=> Scheduled(At(d, s))
  BY DEF KeepsScheduled, Scheduled
<1>2. \A s \in Slots : Scheduled(At(d, s)) =>
        At(d, s).addr = At(ch, s).addr /\ At(d, s).checked = At(ch, s).checked
  BY DEF KeepsScheduled, Scheduled
<1>3. d \in ChannelType /\ d.bank = ch.bank /\ d.active = ch.active /\ d.write_mode = ch.write_mode
  BY DEF KeepsScheduled
<1>4. PacketsOfBanks(d)
  BY <1>1, <1>2, <1>3 DEF StageInv, PacketsOfBanks
<1>5. NewUnscheduled(d)
  BY <1>1, <1>2 DEF StageInv, NewUnscheduled
<1>6. NotBoth(d)
  BY <1>3 DEF StageInv, NotBoth
<1>7. warmup => NothingWaits(d)
  BY <1>3 DEF StageInv, NothingWaits, KeepsScheduled
<1>. QED  BY <1>3, <1>4, <1>5, <1>6, <1>7 DEF StageInv

-----------------------------------------------------------------------------
(* The first handlers: the clock, and the answers of a warmup phase.         *)

LEMMA BankReadyIn ==
  ASSUME NEW x \in BankType
  PROVE  /\ [x EXCEPT !.ready_in = @ - 1] \in BankType
         /\ \A r \in Int : [x EXCEPT !.ready_in = r] \in BankType
         /\ x.ready_in \in Int /\ x.pkt \in Slots \cup {NoSlot}
BY DEF BankType

LEMMA TickKeeps ==
  ASSUME NEW ch, ch \in ChannelType
  PROVE  /\ Tick(ch) \in ChannelType
         /\ Tick(ch).RQ = ch.RQ /\ Tick(ch).WQ = ch.WQ
         /\ Tick(ch).active = ch.active /\ Tick(ch).write_mode = ch.write_mode
         /\ Tick(ch).returned = ch.returned
         /\ \A b \in Bank : Tick(ch).bank[b] = [ch.bank[b] EXCEPT !.ready_in = @ - 1]
<1>1. \A b \in Bank : [ch.bank[b] EXCEPT !.ready_in = @ - 1] \in BankType
  BY BankReadyIn DEF ChannelType
<1>2. \A t \in Int : Sooner(t) \in Int
  BY DEF Sooner
<1>. QED  BY <1>1, <1>2 DEF Tick, ChannelType

LEMMA WarmupAnswersKeeps ==
  ASSUME NEW ch, ch \in ChannelType, PacketsOfBanks(ch), NewUnscheduled(ch), NotBoth(ch),
         warmup => \A b \in Bank : ~ch.bank[b].valid
  PROVE  StageInv(WarmupAnswers(Tick(ch)))
<1>. DEFINE t == Tick(ch)
            d == WarmupAnswers(t)
<1>. SUFFICES StageInv(d)
  OBVIOUS
<1>1. /\ t \in ChannelType /\ t.RQ = ch.RQ /\ t.WQ = ch.WQ
      /\ t.active = ch.active /\ t.write_mode = ch.write_mode
      /\ \A b \in Bank : t.bank[b] = [ch.bank[b] EXCEPT !.ready_in = @ - 1]
  BY TickKeeps
<1>2. \A s \in Slots : At(t, s) = At(ch, s)
  BY <1>1, SlotParts DEF At, Queues
<1>3. \A b \in Bank : /\ t.bank[b].valid = ch.bank[b].valid
                      /\ t.bank[b].under_refresh = ch.bank[b].under_refresh
                      /\ t.bank[b].pkt = ch.bank[b].pkt
  BY <1>1 DEF ChannelType, BankType
<1>4. /\ PacketsOfBanks(t) /\ NewUnscheduled(t) /\ NotBoth(t)
      /\ warmup => \A b \in Bank : ~t.bank[b].valid
  <2>1. PacketsOfBanks(t)
    <3>1. \A b \in Bank : t.bank[b].valid => 
             /\ t.bank[b].pkt \in Slots
             /\ Scheduled(At(t, t.bank[b].pkt))
             /\ BankOf[At(t, t.bank[b].pkt).addr] = b
             /\ b # t.active => (t.bank[b].pkt[1] = "WQ" <=> t.write_mode)
      BY <1>1, <1>2, <1>3 DEF PacketsOfBanks
    <3>2. \A s \in Slots :
             Scheduled(At(t, s)) => \E b \in Bank : t.bank[b].valid /\ t.bank[b].pkt = s
      BY <1>2, <1>3 DEF PacketsOfBanks
    <3>3. t.active # NoBank => t.bank[t.active].valid
      BY <1>1, <1>3 DEF PacketsOfBanks, ChannelType
    <3>. QED  BY <3>1, <3>2, <3>3 DEF PacketsOfBanks
  <2>. QED  BY <1>2, <1>3, <2>1 DEF NewUnscheduled, NotBoth
<1>. HIDE DEF t
<1>5. CASE ~warmup
  BY <1>1, <1>4, <1>5 DEF StageInv, WarmupAnswers
<1>6. CASE warmup
  <2>1. /\ d \in ChannelType
        /\ d.RQ = [i \in 1..RQ_SIZE |-> Empty] /\ d.WQ = [i \in 1..WQ_SIZE |-> Empty]
        /\ d.bank = t.bank /\ d.active = t.active
    <3>. DEFINE new == UNION {AnsweredBy(t.RQ[i]) : i \in Occupied(t.RQ)}
    <3>1. new \subseteq Ids
      <4>1. \A i \in Occupied(t.RQ) : t.RQ[i] \in SlotType
        BY <1>1 DEF Occupied, ChannelType
      <4>. QED  BY <4>1 DEF AnsweredBy, SlotType
    <3>2. DOMAIN t.RQ = 1..RQ_SIZE /\ DOMAIN t.WQ = 1..WQ_SIZE
      BY <1>1 DEF ChannelType
    <3>3. d = [t EXCEPT !.returned = @ \cup new,
                        !.RQ = [i \in 1..RQ_SIZE |-> Empty], !.WQ = [i \in 1..WQ_SIZE |-> Empty]]
      BY <1>6, <3>2 DEF WarmupAnswers
    <3>. HIDE DEF new, d
    <3>. QED  BY <1>1, <3>1, <3>3 DEF ChannelType
  <2>. HIDE DEF d
  <2>2. ASSUME NEW s \in Slots PROVE At(d, s) = Empty
    <3>. PICK q, i : q = s[1] /\ i = s[2]
      OBVIOUS
    <3>1. q \in Queues /\ i \in 1..QueueSize(q)
      BY SlotParts
    <3>2. d[q] = [j \in 1..QueueSize(q) |-> Empty]
      BY ONLY <2>1, <3>1 DEF Queues, QueueSize
    <3>. QED  BY <3>1, <3>2 DEF At
  <2>3. \A b \in Bank : ~d.bank[b].valid
    BY <1>4, <1>6, <2>1
  <2>4. d.active = NoBank
    BY <1>4, <1>6, <2>1, <2>3 DEF PacketsOfBanks, ChannelType
  <2>5. PacketsOfBanks(d)
    BY <2>2, <2>3, <2>4 DEF PacketsOfBanks, Scheduled
  <2>. QED  BY <2>1, <2>2, <2>3, <2>5 DEF StageInv, NewUnscheduled, NotBoth, NothingWaits, Scheduled
<1>. QED  BY <1>5, <1>6

-----------------------------------------------------------------------------
(* A request in one slot is changed, answered or forgotten.                  *)

LEMMA SlotPut ==
  ASSUME NEW ch \in ChannelType, NEW q \in Queues, NEW i \in 1..QueueSize(q),
         NEW v \in SlotType \cup {Empty}, NEW d, d = [ch EXCEPT ![q] = [ch[q] EXCEPT ![i] = v]]
  PROVE  /\ d \in ChannelType
         /\ d.bank = ch.bank /\ d.active = ch.active /\ d.write_mode = ch.write_mode
         /\ d.returned = ch.returned
         /\ q = "WQ" => d.RQ = ch.RQ
         /\ q = "RQ" => d.WQ = ch.WQ
         /\ At(d, <<q, i>>) = v
         /\ \A s \in Slots : s # <<q, i>> => At(d, s) = At(ch, s)
<1>1. ch[q] \in [1..QueueSize(q) -> SlotType \cup {Empty}]
  BY QueueTyped
<1>2. [ch[q] EXCEPT ![i] = v] \in [1..QueueSize(q) -> SlotType \cup {Empty}]
  BY <1>1
<1>. PICK new : new = [ch[q] EXCEPT ![i] = v]
  OBVIOUS
<1>3. new \in [1..QueueSize(q) -> SlotType \cup {Empty}] /\ d = [ch EXCEPT ![q] = new]
  BY <1>2
<1>4. d \in ChannelType
  BY <1>3 DEF ChannelType, Queues, QueueSize
<1>5. /\ d[q] = new /\ \A p \in Queues : p # q => d[p] = ch[p]
      /\ d.bank = ch.bank /\ d.active = ch.active /\ d.write_mode = ch.write_mode
      /\ d.returned = ch.returned
  BY <1>3 DEF ChannelType, Queues
<1>6. new[i] = v /\ \A j \in 1..QueueSize(q) : j # i => new[j] = ch[q][j]
  BY <1>1
<1>7. \A s \in Slots : s # <<q, i>> => At(d, s) = At(ch, s)
  BY <1>5, <1>6, SlotParts DEF At
<1>. QED  BY <1>4, <1>5, <1>6, <1>7 DEF At, Queues

LEMMA PutIs ==
  ASSUME NEW ch \in ChannelType, NEW s \in Slots, NEW v \in SlotType \cup {Empty}
  PROVE  LET d == Put(ch, s, v) IN
         /\ d \in ChannelType
         /\ d.bank = ch.bank /\ d.active = ch.active /\ d.write_mode = ch.write_mode
         /\ d.returned = ch.returned
         /\ At(d, s) = v
         /\ \A t \in Slots : t # s => At(d, t) = At(ch, t)
<1>. PICK q, i, d : q = s[1] /\ i = s[2] /\ d = Put(ch, s, v)
  OBVIOUS
<1>1. q \in Queues /\ i \in 1..QueueSize(q) /\ s = <<q, i>>
  BY SlotParts
<1>2. d = [ch EXCEPT ![q] = [ch[q] EXCEPT ![i] = v]]
  BY DEF Put
<1>3. /\ d \in ChannelType
      /\ d.bank = ch.bank /\ d.active = ch.active /\ d.write_mode = ch.write_mode
      /\ d.returned = ch.returned
      /\ At(d, <<q, i>>) = v
      /\ \A t \in Slots : t # <<q, i>> => At(d, t) = At(ch, t)
  BY <1>1, <1>2, SlotPut, SMTT(30)
<1>. QED  BY <1>1, <1>3

LEMMA SameQueues ==
  ASSUME NEW ch, NEW d, d.RQ = ch.RQ, d.WQ = ch.WQ
  PROVE  \A s \in Slots : At(d, s) = At(ch, s)
BY SlotParts DEF At, Queues

LEMMA WriteSlotPut ==
  ASSUME NEW ch \in ChannelType, NEW i \in 1..WQ_SIZE, NEW v \in SlotType \cup {Empty},
         NEW d, d = [ch EXCEPT !.WQ = [ch.WQ EXCEPT ![i] = v]]
  PROVE  /\ d \in ChannelType
         /\ d.bank = ch.bank /\ d.active = ch.active /\ d.write_mode = ch.write_mode
         /\ d.returned = ch.returned /\ d.RQ = ch.RQ
         /\ At(d, <<"WQ", i>>) = v
         /\ \A s \in Slots : s # <<"WQ", i>> => At(d, s) = At(ch, s)
<1>. PICK q : q = "WQ"
  OBVIOUS
<1>1. q \in Queues /\ i \in 1..QueueSize(q) /\ ch[q] = ch.WQ
  BY DEF Queues, QueueSize
<1>2. d = [ch EXCEPT ![q] = [ch[q] EXCEPT ![i] = v]]
  BY <1>1
<1>. QED  BY <1>1, <1>2, SlotPut

LEMMA ReadSlotPut ==
  ASSUME NEW ch \in ChannelType, NEW i \in 1..RQ_SIZE, NEW v \in SlotType \cup {Empty},
         NEW d, d = [ch EXCEPT !.RQ = [ch.RQ EXCEPT ![i] = v]]
  PROVE  /\ d \in ChannelType
         /\ d.bank = ch.bank /\ d.active = ch.active /\ d.write_mode = ch.write_mode
         /\ d.returned = ch.returned /\ d.WQ = ch.WQ
         /\ At(d, <<"RQ", i>>) = v
         /\ \A s \in Slots : s # <<"RQ", i>> => At(d, s) = At(ch, s)
<1>. PICK q : q = "RQ"
  OBVIOUS
<1>1. q \in Queues /\ i \in 1..QueueSize(q) /\ ch[q] = ch.RQ
  BY DEF Queues, QueueSize
<1>2. d = [ch EXCEPT ![q] = [ch[q] EXCEPT ![i] = v]]
  BY <1>1
<1>. QED  BY <1>1, <1>2, SlotPut

-----------------------------------------------------------------------------
(* Every request waits in one slot: everybody whose answer is due waits for  *)
(* one slot of the RQ, and is not among those that were answered.            *)
OneSlotEach(ch) ==
  /\ \A s \in Slots : At(ch, s) # Empty =>
        /\ At(ch, s).deps # {} => At(ch, s).wanted
        /\ s[1] = "WQ" => At(ch, s).deps = {}
        /\ At(ch, s).deps \cap ch.returned = {}
  /\ \A s, t \in Slots : s # t /\ At(ch, s) # Empty /\ At(ch, t) # Empty =>
        At(ch, s).deps \cap At(ch, t).deps = {}

(* No instruction is forgotten by a handler, and no block that is written.   *)
Accounts(ch, d) == IdsOf(d.RQ) \cup d.returned = IdsOf(ch.RQ) \cup ch.returned
KeepsWrites(ch, d) == WriteBlocks(d) = WriteBlocks(ch)

LEMMA AnsweredByIs ==
  ASSUME NEW ch, OneSlotEach(ch), NEW s \in Slots, At(ch, s) # Empty
  PROVE  AnsweredBy(At(ch, s)) = At(ch, s).deps
BY DEF OneSlotEach, AnsweredBy

LEMMA IdsAre ==
  ASSUME NEW ch \in ChannelType, OneSlotEach(ch)
  PROVE  \A x : x \in IdsOf(ch.RQ) <=>
                  \E s \in Slots : At(ch, s) # Empty /\ x \in At(ch, s).deps
<1>1. DOMAIN ch.RQ = 1..RQ_SIZE
  BY DEF ChannelType
<1>2. \A i \in 1..RQ_SIZE : <<"RQ", i>> \in Slots /\ At(ch, <<"RQ", i>>) = ch.RQ[i]
  BY DEF Slots, At
<1>3. \A i \in 1..RQ_SIZE : ch.RQ[i] # Empty => AnsweredBy(ch.RQ[i]) = ch.RQ[i].deps
  BY <1>2, AnsweredByIs
<1>4. \A x : x \in IdsOf(ch.RQ) <=> \E i \in 1..RQ_SIZE : ch.RQ[i] # Empty /\ x \in ch.RQ[i].deps
  BY <1>1, <1>3 DEF IdsOf, Occupied
<1>5. \A s \in Slots : At(ch, s) # Empty /\ At(ch, s).deps # {} =>
         s[2] \in 1..RQ_SIZE /\ s = <<"RQ", s[2]>>
  BY SlotParts DEF OneSlotEach, Queues, QueueSize
<1>. QED  BY <1>2, <1>4, <1>5

LEMMA WriteBlocksAre ==
  ASSUME NEW ch \in ChannelType
  PROVE  /\ \A a : a \in WriteBlocks(ch) <=>
              \E i \in 1..WQ_SIZE : At(ch, <<"WQ", i>>) # Empty /\ At(ch, <<"WQ", i>>).addr = a
         /\ \A i \in 1..WQ_SIZE : <<"WQ", i>> \in Slots /\ At(ch, <<"WQ", i>>) = ch.WQ[i]
<1>1. DOMAIN ch.WQ = 1..WQ_SIZE
  BY DEF ChannelType
<1>2. \A i \in 1..WQ_SIZE : <<"WQ", i>> \in Slots /\ At(ch, <<"WQ", i>>) = ch.WQ[i]
  BY DEF Slots, At
<1>. QED  BY <1>1, <1>2 DEF WriteBlocks, Occupied

-----------------------------------------------------------------------------
(* check_write_collision.                                                  *)

LEMMA SlotChecked ==
  ASSUME NEW x \in SlotType
  PROVE  /\ [x EXCEPT !.checked = TRUE] \in SlotType
         /\ [x EXCEPT !.checked = TRUE].checked
         /\ [x EXCEPT !.checked = TRUE].scheduled = x.scheduled
         /\ [x EXCEPT !.checked = TRUE].addr = x.addr
         /\ [x EXCEPT !.checked = TRUE].deps = x.deps
         /\ [x EXCEPT !.checked = TRUE].wanted = x.wanted
         /\ [x EXCEPT !.checked = TRUE] # Empty
BY DramAssumption DEF SlotType

LEMMA CheckWriteKeeps ==
  ASSUME NEW ch, StageInv(ch), OneSlotEach(ch), NEW i \in 1..WQ_SIZE
  PROVE  LET d == CheckWrite(ch, i) IN
         /\ KeepsScheduled(ch, d) /\ OneSlotEach(d)
         /\ d.RQ = ch.RQ /\ d.returned = ch.returned
         /\ \A s \in Slots : s # <<"WQ", i>> => At(d, s) = At(ch, s)
         /\ At(d, <<"WQ", i>>) # Empty => At(d, <<"WQ", i>>).checked
         /\ KeepsWrites(ch, d)
<1>. DEFINE d == CheckWrite(ch, i)
            s == <<"WQ", i>>
            Kept == /\ KeepsScheduled(ch, d) /\ OneSlotEach(d)
                    /\ d.RQ = ch.RQ /\ d.returned = ch.returned
                    /\ \A t \in Slots : t # s => At(d, t) = At(ch, t)
                    /\ At(d, s) # Empty => At(d, s).checked
                    /\ KeepsWrites(ch, d)
<1>. SUFFICES Kept
  OBVIOUS
<1>1. ch \in ChannelType
  BY DEF StageInv
<1>2. s \in Slots /\ At(ch, s) = ch.WQ[i] /\ ch["WQ"] = ch.WQ
  BY <1>1, WriteBlocksAre DEF ChannelType
<1>3. CASE ~Unchecked(ch.WQ, i)
  <2>1. d = ch
    BY <1>3 DEF CheckWrite
  <2>2. KeepsScheduled(ch, ch)
    BY <1>1 DEF KeepsScheduled
  <2>. QED  BY <1>2, <1>3, <2>1, <2>2 DEF Unchecked, KeepsWrites
<1>4. CASE Unchecked(ch.WQ, i)
  <2>. DEFINE x == ch.WQ[i]
  <2>1. x \in SlotType /\ x # Empty /\ ~x.checked /\ ~x.scheduled
    BY <1>1, <1>2, <1>4, SlotTyped DEF Unchecked, StageInv, NewUnscheduled, Scheduled
  <2>2. PICK v \in {Empty, [x EXCEPT !.checked = TRUE]} :
           /\ d = [ch EXCEPT !.WQ = [ch.WQ EXCEPT ![i] = v]]
           /\ v = Empty => Collides(ch.WQ, x.addr, i) # {}
    <3>1. CASE Collides(ch.WQ, x.addr, i) # {}
      <4>1. d = [ch EXCEPT !.WQ = [ch.WQ EXCEPT ![i] = Empty]]
        BY <1>4, <3>1 DEF CheckWrite
      <4>. QED  BY <3>1, <4>1
    <3>2. CASE Collides(ch.WQ, x.addr, i) = {}
      <4>1. d = [ch EXCEPT !.WQ = [ch.WQ EXCEPT ![i] = [x EXCEPT !.checked = TRUE]]]
        BY <1>4, <3>2 DEF CheckWrite
      <4>2. [x EXCEPT !.checked = TRUE] # Empty
        BY <2>1, SlotChecked
      <4>. HIDE DEF d
      <4>. QED  BY <4>1, <4>2
    <3>. QED  BY <3>1, <3>2
  <2>3. v \in SlotType \cup {Empty}
    BY <2>1, SlotChecked
  <2>4. /\ d \in ChannelType
        /\ d.bank = ch.bank /\ d.active = ch.active /\ d.write_mode = ch.write_mode
        /\ d.returned = ch.returned /\ d.RQ = ch.RQ
        /\ At(d, s) = v
        /\ \A t \in Slots : t # s => At(d, t) = At(ch, t)
    <3>. HIDE DEF d
    <3>. QED  BY <1>1, <2>2, <2>3, WriteSlotPut
  <2>. HIDE DEF d
  <2>5. v # Empty => /\ v.checked /\ ~v.scheduled /\ v.addr = x.addr
                     /\ v.deps = x.deps /\ v.wanted = x.wanted
    BY <2>1, <2>2, SlotChecked
  <2>6. KeepsScheduled(ch, d)
    BY <1>2, <2>1, <2>4, <2>5 DEF KeepsScheduled
  <2>7. OneSlotEach(d)
    BY <1>2, <2>1, <2>4, <2>5 DEF OneSlotEach
  <2>8. KeepsWrites(ch, d)
    <3>1. \A a : a \in WriteBlocks(d) => a \in WriteBlocks(ch)
      <4>1. ASSUME NEW a, NEW j \in 1..WQ_SIZE,
                   At(d, <<"WQ", j>>) # Empty /\ At(d, <<"WQ", j>>).addr = a
            PROVE  At(ch, <<"WQ", j>>) # Empty /\ At(ch, <<"WQ", j>>).addr = a
        <5>1. CASE j = i
          BY <1>2, <2>1, <2>4, <2>5, <4>1, <5>1
        <5>2. CASE j # i
          BY <1>1, <2>4, <4>1, <5>2, WriteBlocksAre
        <5>. QED  BY <5>1, <5>2
      <4>2. ASSUME NEW a, a \in WriteBlocks(d) PROVE a \in WriteBlocks(ch)
        <5>1. PICK j \in 1..WQ_SIZE : At(d, <<"WQ", j>>) # Empty /\ At(d, <<"WQ", j>>).addr = a
          BY <2>4, <4>2, WriteBlocksAre
        <5>2. At(ch, <<"WQ", j>>) # Empty /\ At(ch, <<"WQ", j>>).addr = a
          BY <4>1, <5>1
        <5>. QED  BY <1>1, <5>2, WriteBlocksAre
      <4>. QED  BY <4>2
    <3>2. ASSUME NEW a \in WriteBlocks(ch) PROVE a \in WriteBlocks(d)
      <4>1. PICK j \in 1..WQ_SIZE : At(ch, <<"WQ", j>>) # Empty /\ At(ch, <<"WQ", j>>).addr = a
        BY <1>1, WriteBlocksAre
      <4>2. CASE j # i \/ v # Empty
        BY <1>1, <1>2, <2>4, <2>5, <4>1, <4>2, WriteBlocksAre
      <4>3. CASE j = i /\ v = Empty
        <5>1. PICK k \in 1..WQ_SIZE : k # i /\ ch.WQ[k] # Empty /\ ch.WQ[k].addr = x.addr
          BY <1>1, <2>2, <4>3 DEF Collides, Occupied, ChannelType
        <5>2. At(d, <<"WQ", k>>) = ch.WQ[k] /\ x.addr = a
          BY <1>1, <1>2, <2>4, <4>1, <4>3, <5>1, WriteBlocksAre
        <5>. QED  BY <2>4, <5>1, <5>2, WriteBlocksAre
      <4>. QED  BY <4>2, <4>3
    <3>. QED  BY <3>1, <3>2 DEF KeepsWrites
  <2>. QED  BY <2>4, <2>5, <2>6, <2>7, <2>8
<1>. QED  BY <1>3, <1>4

-----------------------------------------------------------------------------
(* check_read_collision.                                                   *)

LEMMA JoinedIs ==
  ASSUME NEW x \in SlotType, NEW y \in SlotType
  PROVE  /\ Joined(x, y) \in SlotType /\ Joined(x, y) # Empty
         /\ Joined(x, y).checked = x.checked /\ Joined(x, y).scheduled = x.scheduled
         /\ Joined(x, y).addr = x.addr
         /\ Joined(x, y).deps = x.deps \cup y.deps
         /\ Joined(x, y).wanted <=> x.wanted \/ y.wanted
<1>. PICK w : w = (x.wanted \/ y.wanted) /\ w \in BOOLEAN
  OBVIOUS
<1>. PICK e : e = x.deps \cup y.deps
  OBVIOUS
<1>1. e \in SUBSET Ids
  BY DEF SlotType
<1>2. Joined(x, y) = [x EXCEPT !.wanted = w, !.deps = e]
  BY DEF Joined
<1>. PICK z : z = Joined(x, y)
  OBVIOUS
<1>3. /\ z \in SlotType
      /\ z.checked = x.checked /\ z.scheduled = x.scheduled /\ z.addr = x.addr
      /\ z.deps = e /\ z.wanted = w
  BY ONLY <1>1, <1>2, x \in SlotType, w \in BOOLEAN, z = Joined(x, y) DEF SlotType
<1>4. z # Empty
  BY <1>3, DramAssumption
<1>. QED  BY <1>3, <1>4

(* A request of the RQ is answered, or joins another one.                    *)
LEMMA AnswerAccounts ==
  ASSUME NEW ch \in ChannelType, OneSlotEach(ch), NEW s \in Slots, At(ch, s) # Empty,
         NEW d \in ChannelType,
         d.returned = ch.returned \cup AnsweredBy(At(ch, s)),
         At(d, s) = Empty, \A t \in Slots : t # s => At(d, t) = At(ch, t)
  PROVE  OneSlotEach(d) /\ Accounts(ch, d)
<1>1. AnsweredBy(At(ch, s)) = At(ch, s).deps
  BY AnsweredByIs
<1>2. OneSlotEach(d)
  <2>1. ASSUME NEW t \in Slots, At(d, t) # Empty
        PROVE  /\ At(d, t).deps # {} => At(d, t).wanted
               /\ t[1] = "WQ" => At(d, t).deps = {}
               /\ At(d, t).deps \cap d.returned = {}
    <3>1. t # s /\ At(d, t) = At(ch, t)
      BY <2>1
    <3>2. At(ch, t).deps \cap At(ch, s).deps = {} /\ At(ch, t).deps \cap ch.returned = {}
      BY <2>1, <3>1 DEF OneSlotEach
    <3>. QED  BY <1>1, <2>1, <3>1, <3>2 DEF OneSlotEach
  <2>2. ASSUME NEW t \in Slots, NEW u \in Slots, t # u, At(d, t) # Empty, At(d, u) # Empty
        PROVE  At(d, t).deps \cap At(d, u).deps = {}
    BY <2>2 DEF OneSlotEach
  <2>. QED  BY <2>1, <2>2 DEF OneSlotEach
<1>3. Accounts(ch, d)
  <2>1. \A x : x \in IdsOf(d.RQ) \cup d.returned <=> x \in IdsOf(ch.RQ) \cup ch.returned
    <3>1. \A x : x \in IdsOf(d.RQ) <=> \E t \in Slots : At(d, t) # Empty /\ x \in At(d, t).deps
      BY <1>2, IdsAre
    <3>2. \A x : x \in IdsOf(ch.RQ) <=> \E t \in Slots : At(ch, t) # Empty /\ x \in At(ch, t).deps
      BY IdsAre
    <3>. QED  BY <1>1, <3>1, <3>2
  <2>. QED  BY <2>1 DEF Accounts
<1>. QED  BY <1>2, <1>3

LEMMA ForwardKeeps ==
  ASSUME NEW ch \in ChannelType, OneSlotEach(ch), NEW s \in Slots, At(ch, s) # Empty,
         ~At(ch, s).scheduled,
         NEW d \in ChannelType,
         d.bank = ch.bank /\ d.active = ch.active /\ d.write_mode = ch.write_mode,
         d.returned = ch.returned \cup AnsweredBy(At(ch, s)),
         At(d, s) = Empty, \A t \in Slots : t # s => At(d, t) = At(ch, t)
  PROVE  KeepsScheduled(ch, d) /\ OneSlotEach(d) /\ Accounts(ch, d)
<1>1. KeepsScheduled(ch, d)
  BY DEF KeepsScheduled
<1>. QED  BY <1>1, AnswerAccounts

LEMMA JoinKeeps ==
  ASSUME NEW ch \in ChannelType, OneSlotEach(ch),
         NEW s \in Slots, At(ch, s) # Empty, ~At(ch, s).scheduled,
         NEW r \in Slots, r # s, r[1] = "RQ", At(ch, r) # Empty,
         NEW d \in ChannelType,
         d.bank = ch.bank /\ d.active = ch.active /\ d.write_mode = ch.write_mode,
         d.returned = ch.returned,
         At(d, s) = Empty, At(d, r) = Joined(At(ch, r), At(ch, s)),
         \A t \in Slots : t # s /\ t # r => At(d, t) = At(ch, t)
  PROVE  KeepsScheduled(ch, d) /\ OneSlotEach(d) /\ Accounts(ch, d)
<1>1. /\ At(d, r) # Empty
      /\ At(d, r).checked = At(ch, r).checked /\ At(d, r).scheduled = At(ch, r).scheduled
      /\ At(d, r).addr = At(ch, r).addr
      /\ At(d, r).deps = At(ch, r).deps \cup At(ch, s).deps
      /\ At(d, r).wanted <=> At(ch, r).wanted \/ At(ch, s).wanted
  BY SlotTyped, JoinedIs
<1>2. KeepsScheduled(ch, d)
  BY <1>1 DEF KeepsScheduled
<1>3. OneSlotEach(d)
  <2>1. ASSUME NEW t \in Slots, At(d, t) # Empty
        PROVE  /\ At(d, t).deps # {} => At(d, t).wanted
               /\ t[1] = "WQ" => At(d, t).deps = {}
               /\ At(d, t).deps \cap d.returned = {}
    <3>1. CASE t = r
      BY <1>1, <3>1 DEF OneSlotEach
    <3>2. CASE t # r
      BY <2>1, <3>2 DEF OneSlotEach
    <3>. QED  BY <3>1, <3>2
  <2>2. ASSUME NEW t \in Slots, NEW u \in Slots, t # u, At(d, t) # Empty, At(d, u) # Empty
        PROVE  At(d, t).deps \cap At(d, u).deps = {}
    <3>1. CASE t # r /\ u # r
      BY <2>2, <3>1 DEF OneSlotEach
    <3>2. ASSUME NEW v \in Slots, v # r, v # s, At(ch, v) # Empty
          PROVE  At(ch, v).deps \cap At(d, r).deps = {}
      <4>1. At(ch, v).deps \cap At(ch, r).deps = {} /\ At(ch, v).deps \cap At(ch, s).deps = {}
        BY <3>2 DEF OneSlotEach
      <4>. QED  BY <1>1, <4>1
    <3>3. CASE t = r
      <4>1. u # r /\ u # s /\ At(d, u) = At(ch, u)
        BY <2>2, <3>3
      <4>. QED  BY <2>2, <3>2, <3>3, <4>1
    <3>4. CASE u = r
      <4>1. t # r /\ t # s /\ At(d, t) = At(ch, t)
        BY <2>2, <3>4
      <4>. QED  BY <2>2, <3>2, <3>4, <4>1
    <3>. QED  BY <3>1, <3>3, <3>4
  <2>. QED  BY <2>1, <2>2 DEF OneSlotEach
<1>4. Accounts(ch, d)
  <2>1. \A x : x \in IdsOf(d.RQ) <=> x \in IdsOf(ch.RQ)
    <3>1. \A x : x \in IdsOf(d.RQ) <=> \E t \in Slots : At(d, t) # Empty /\ x \in At(d, t).deps
      BY <1>3, IdsAre
    <3>2. \A x : x \in IdsOf(ch.RQ) <=> \E t \in Slots : At(ch, t) # Empty /\ x \in At(ch, t).deps
      BY IdsAre
    <3>3. ASSUME NEW x, NEW t \in Slots, At(d, t) # Empty, x \in At(d, t).deps
          PROVE  \E u \in Slots : At(ch, u) # Empty /\ x \in At(ch, u).deps
      BY <1>1, <3>3
    <3>4. ASSUME NEW x, NEW t \in Slots, At(ch, t) # Empty, x \in At(ch, t).deps
          PROVE  \E u \in Slots : At(d, u) # Empty /\ x \in At(d, u).deps
      <4>1. CASE t = r \/ t = s
        BY <1>1, <3>4, <4>1
      <4>2. CASE t # r /\ t # s
        BY <3>4, <4>2
      <4>. QED  BY <4>1, <4>2
    <3>. QED  BY <3>1, <3>2, <3>3, <3>4
  <2>. QED  BY <2>1 DEF Accounts
<1>. QED  BY <1>2, <1>3, <1>4

LEMMA CheckReadKeeps ==
  ASSUME NEW ch, StageInv(ch), OneSlotEach(ch), NEW i \in 1..RQ_SIZE
  PROVE  LET d == CheckRead(ch, i) IN
         /\ KeepsScheduled(ch, d) /\ OneSlotEach(d) /\ Accounts(ch, d)
         /\ d.WQ = ch.WQ
         /\ \A t \in Slots : t # <<"RQ", i>> /\ At(d, t) # Empty =>
               At(ch, t) # Empty /\ At(d, t).checked = At(ch, t).checked
         /\ At(d, <<"RQ", i>>) # Empty => At(d, <<"RQ", i>>).checked
<1>. DEFINE d == CheckRead(ch, i)
            s == <<"RQ", i>>
            x == ch.RQ[i]
            Kept == /\ KeepsScheduled(ch, d) /\ OneSlotEach(d) /\ Accounts(ch, d)
                    /\ d.WQ = ch.WQ
                    /\ \A t \in Slots : t # s /\ At(d, t) # Empty =>
                          At(ch, t) # Empty /\ At(d, t).checked = At(ch, t).checked
                    /\ At(d, s) # Empty => At(d, s).checked
            others == Collides(ch.RQ, x.addr, i)
            dest == FirstOf(others)
<1>. SUFFICES Kept
  OBVIOUS
<1>1. ch \in ChannelType /\ DOMAIN ch.RQ = 1..RQ_SIZE
  BY DEF StageInv, ChannelType
<1>2. s \in Slots /\ At(ch, s) = x
  BY <1>1 DEF Slots, At
<1>3. CASE ~Unchecked(ch.RQ, i)
  <2>1. d = ch
    BY <1>3 DEF CheckRead
  <2>2. KeepsScheduled(ch, ch)
    BY <1>1 DEF KeepsScheduled
  <2>. QED  BY <1>2, <1>3, <2>1, <2>2 DEF Unchecked, Accounts
<1>4. CASE Unchecked(ch.RQ, i)
  <2>1. x \in SlotType /\ x # Empty /\ ~x.checked /\ ~x.scheduled
    BY <1>1, <1>2, <1>4, SlotTyped DEF Unchecked, StageInv, NewUnscheduled, Scheduled
  <2>2. CASE Collides(ch.WQ, x.addr, 0) # {}
    <3>. PICK e : e = [ch EXCEPT !.RQ = [ch.RQ EXCEPT ![i] = Empty]]
      OBVIOUS
    <3>1. /\ e \in ChannelType
          /\ e.bank = ch.bank /\ e.active = ch.active /\ e.write_mode = ch.write_mode
          /\ e.returned = ch.returned /\ e.WQ = ch.WQ
          /\ At(e, s) = Empty /\ \A t \in Slots : t # s => At(e, t) = At(ch, t)
      BY <1>1, ReadSlotPut
    <3>2. d = [e EXCEPT !.returned = ch.returned \cup AnsweredBy(x)]
      BY <1>1, <1>4, <2>2 DEF CheckRead, ChannelType
    <3>3. AnsweredBy(x) \subseteq Ids
      BY <2>1 DEF AnsweredBy, SlotType
    <3>. HIDE DEF d, x
    <3>4. /\ d \in ChannelType
          /\ d.bank = ch.bank /\ d.active = ch.active /\ d.write_mode = ch.write_mode
          /\ d.returned = ch.returned \cup AnsweredBy(x) /\ d.RQ = e.RQ /\ d.WQ = ch.WQ
      BY <1>1, <3>1, <3>2, <3>3 DEF ChannelType
    <3>5. \A t \in Slots : At(d, t) = At(e, t)
      BY <3>1, <3>4, SlotParts DEF At, Queues
    <3>6. KeepsScheduled(ch, d) /\ OneSlotEach(d) /\ Accounts(ch, d)
      BY <1>1, <1>2, <2>1, <3>1, <3>4, <3>5, ForwardKeeps
    <3>. QED  BY <1>2, <3>1, <3>4, <3>5, <3>6
  <2>3. CASE Collides(ch.WQ, x.addr, 0) = {} /\ others # {}
    <3>1. dest \in 1..RQ_SIZE /\ dest # i /\ ch.RQ[dest] # Empty
      <4>1. others \subseteq Nat /\ others \subseteq 1..RQ_SIZE
        BY <1>1 DEF Collides, Occupied
      <4>2. dest \in others
        BY ONLY <2>3, <4>1, FirstFound
      <4>. QED  BY <1>1, <4>2 DEF Collides, Occupied
    <3>2. <<"RQ", dest>> \in Slots /\ At(ch, <<"RQ", dest>>) = ch.RQ[dest]
          /\ <<"RQ", dest>> # s
      BY <1>1, <3>1 DEF Slots, At
    <3>3. d = [ch EXCEPT !.RQ[dest] = Joined(@, x), !.RQ[i] = Empty]
      BY <1>4, <2>3 DEF CheckRead, FirstOf
    <3>. PICK j : j = dest
      OBVIOUS
    <3>. DEFINE r == <<"RQ", j>>
    <3>. HIDE DEF d, x, dest, others
    <3>. PICK e : e = [ch EXCEPT !.RQ = [ch.RQ EXCEPT ![j] = Joined(ch.RQ[j], x)]]
      OBVIOUS
    <3>4. j \in 1..RQ_SIZE /\ j # i /\ ch.RQ[j] # Empty
      BY <3>1
    <3>5. r \in Slots /\ At(ch, r) = ch.RQ[j] /\ r # s
      BY <3>2
    <3>6. Joined(ch.RQ[j], x) \in SlotType
      BY <1>1, <2>1, <3>4, <3>5, SlotTyped, JoinedIs
    <3>7. /\ e \in ChannelType
          /\ e.bank = ch.bank /\ e.active = ch.active /\ e.write_mode = ch.write_mode
          /\ e.returned = ch.returned /\ e.WQ = ch.WQ
          /\ At(e, r) = Joined(ch.RQ[j], x)
          /\ \A t \in Slots : t # r => At(e, t) = At(ch, t)
      BY <1>1, <3>4, <3>6, ReadSlotPut
    <3>8. d = [e EXCEPT !.RQ = [e.RQ EXCEPT ![i] = Empty]]
      BY <1>1, <3>3, <3>4 DEF ChannelType
    <3>9. /\ d \in ChannelType
          /\ d.bank = ch.bank /\ d.active = ch.active /\ d.write_mode = ch.write_mode
          /\ d.returned = ch.returned /\ d.WQ = ch.WQ
          /\ At(d, s) = Empty
          /\ \A t \in Slots : t # s => At(d, t) = At(e, t)
      <4>1. e \in ChannelType /\ Empty \in SlotType \cup {Empty} /\ i \in 1..RQ_SIZE
        BY <3>7
      <4>2. /\ d \in ChannelType
            /\ d.bank = e.bank /\ d.active = e.active /\ d.write_mode = e.write_mode
            /\ d.returned = e.returned /\ d.WQ = e.WQ
            /\ At(d, <<"RQ", i>>) = Empty
            /\ \A t \in Slots : t # <<"RQ", i>> => At(d, t) = At(e, t)
        BY ONLY <4>1, <3>8, ReadSlotPut
      <4>. QED  BY <3>7, <4>2
    <3>10. /\ At(d, r) = Joined(At(ch, r), At(ch, s))
           /\ \A t \in Slots : t # s /\ t # r => At(d, t) = At(ch, t)
      BY <1>2, <3>5, <3>7, <3>9
    <3>11. KeepsScheduled(ch, d) /\ OneSlotEach(d) /\ Accounts(ch, d)
      BY <1>1, <1>2, <2>1, <3>4, <3>5, <3>9, <3>10, JoinKeeps
    <3>12. At(d, r).checked = At(ch, r).checked
      BY <1>1, <1>2, <2>1, <3>4, <3>5, <3>10, SlotTyped, JoinedIs
    <3>. QED  BY <3>4, <3>5, <3>9, <3>10, <3>11, <3>12
  <2>4. CASE Collides(ch.WQ, x.addr, 0) = {} /\ others = {}
    <3>. DEFINE v == [x EXCEPT !.checked = TRUE]
    <3>1. d = [ch EXCEPT !.RQ = [ch.RQ EXCEPT ![i] = v]]
      BY <1>4, <2>4 DEF CheckRead
    <3>2. /\ v \in SlotType /\ v # Empty /\ v.checked /\ v.scheduled = x.scheduled
          /\ v.addr = x.addr /\ v.deps = x.deps /\ v.wanted = x.wanted
      BY <2>1, SlotChecked
    <3>. HIDE DEF d, v
    <3>3. /\ d \in ChannelType
          /\ d.bank = ch.bank /\ d.active = ch.active /\ d.write_mode = ch.write_mode
          /\ d.returned = ch.returned /\ d.WQ = ch.WQ
          /\ At(d, s) = v /\ \A t \in Slots : t # s => At(d, t) = At(ch, t)
      BY <1>1, <3>1, <3>2, ReadSlotPut
    <3>. HIDE DEF x
    <3>4. KeepsScheduled(ch, d)
      BY <1>2, <2>1, <3>2, <3>3 DEF KeepsScheduled
    <3>5. OneSlotEach(d)
      BY <1>2, <2>1, <3>2, <3>3 DEF OneSlotEach
    <3>6. Accounts(ch, d)
      <4>1. \A x0 : x0 \in IdsOf(d.RQ) <=> x0 \in IdsOf(ch.RQ)
        <5>1. \A x0 : x0 \in IdsOf(d.RQ) <=> \E t \in Slots : At(d, t) # Empty /\ x0 \in At(d, t).deps
          BY <3>3, <3>5, IdsAre
        <5>2. \A x0 : x0 \in IdsOf(ch.RQ) <=> \E t \in Slots : At(ch, t) # Empty /\ x0 \in At(ch, t).deps
          BY <1>1, IdsAre
        <5>3. \A t \in Slots : (At(d, t) # Empty <=> At(ch, t) # Empty)
                  /\ (At(ch, t) # Empty => At(d, t).deps = At(ch, t).deps)
          BY <1>2, <2>1, <3>2, <3>3
        <5>. QED  BY ONLY <5>1, <5>2, <5>3
      <4>. QED  BY <3>3, <4>1 DEF Accounts
    <3>. QED  BY <3>2, <3>3, <3>4, <3>5, <3>6
  <2>. QED  BY <2>2, <2>3, <2>4
<1>. QED  BY <1>3, <1>4

-----------------------------------------------------------------------------
(* The loops of check_write_collision and check_read_collision: the channel  *)
(* after each slot.                                                        *)
CheckSlot(q, ch, i) == IF q = "WQ" THEN CheckWrite(ch, i) ELSE CheckRead(ch, i)
Loop(f, N, q, ch) ==
  f = [i \in 0..N |-> IF i = 0 THEN ch ELSE CheckSlot(q, f[i - 1], i)]

LEMMA LoopExists ==
  ASSUME NEW q, NEW ch, NEW N \in Nat
  PROVE  \E f : Loop(f, N, q, ch)
<1>. DEFINE S == {n \in Nat : ~\E f : Loop(f, n, q, ch)}
<1>1. SUFFICES ASSUME S # {} PROVE FALSE
  OBVIOUS
<1>. DEFINE n == FirstOf(S)
<1>2. n \in S /\ \A m \in S : n <= m
  BY <1>1, FirstFound
<1>3. n \in Nat /\ ~\E f : Loop(f, n, q, ch)
  BY <1>2
<1>4. n # 0
  <2>1. Loop([i \in 0..0 |-> ch], 0, q, ch)
    BY DEF Loop
  <2>. QED  BY <2>1, <1>3
<1>5. n - 1 \in Nat /\ n - 1 \notin S
  <2>. HIDE DEF n
  <2>1. n - 1 \in Nat /\ ~(n <= n - 1)
    BY <1>3, <1>4
  <2>. QED  BY <2>1, <1>2
<1>. HIDE DEF n
<1>6. PICK f : Loop(f, n - 1, q, ch)
  BY <1>5
<1>. HIDE DEF S
<1>. DEFINE V(h, m) == IF m = 0 THEN ch ELSE CheckSlot(q, h[m - 1], m)
            g == [m \in 0..n |-> IF m < n THEN f[m] ELSE V(f, n)]
<1>7. \A m \in 0..n - 1 : f[m] = V(f, m)
  <2>1. f = [m \in 0..n - 1 |-> V(f, m)]
    BY <1>6 DEF Loop
  <2>. QED  BY <2>1
<1>8. \A m \in 0..n : m # 0 => g[m - 1] = f[m - 1]
  BY <1>3
<1>9. \A m \in 0..n : V(g, m) = V(f, m)
  BY <1>8
<1>10. ASSUME NEW m \in 0..n PROVE g[m] = V(f, m)
  <2>1. CASE m < n
    <3>1. m \in 0..n - 1
      BY <2>1, <1>3
    <3>. QED  BY <2>1, <3>1, <1>7
  <2>2. CASE ~(m < n)
    <3>1. m = n
      BY <2>2, <1>3
    <3>2. g[n] = V(f, n)
      BY <1>3
    <3>. QED  BY <3>1, <3>2
  <2>. QED  BY <2>1, <2>2
<1>11. g = [m \in 0..n |-> g[m]]
  OBVIOUS
<1>. HIDE DEF g
<1>12. g = [m \in 0..n |-> V(g, m)]
  <2>1. \A m \in 0..n : g[m] = V(g, m)
    BY <1>9, <1>10
  <2>. HIDE DEF V
  <2>. QED  BY <1>11, <2>1
<1>13. Loop(g, n, q, ch)
  BY <1>12 DEF Loop
<1>. QED  BY <1>13, <1>3

(* What holds after the first n slots of a queue.                            *)
Looped(q, ch, d, n) ==
  /\ StageInv(d) /\ OneSlotEach(d)
  /\ d.bank = ch.bank /\ d.active = ch.active /\ d.write_mode = ch.write_mode
  /\ Accounts(ch, d) /\ KeepsWrites(ch, d)
  /\ \A s \in Slots : Scheduled(At(ch, s)) => Scheduled(At(d, s)) /\ At(d, s).addr = At(ch, s).addr
  /\ q = "RQ" => d.WQ = ch.WQ
  /\ \A i \in 1..n : At(d, <<q, i>>) # Empty => At(d, <<q, i>>).checked

LEMMA LoopStep ==
  ASSUME NEW q \in Queues, NEW ch, NEW d, NEW n \in 1..QueueSize(q), Looped(q, ch, d, n - 1)
  PROVE  Looped(q, ch, CheckSlot(q, d, n), n)
<1>. DEFINE e == CheckSlot(q, d, n)
<1>. SUFFICES Looped(q, ch, e, n)
  OBVIOUS
<1>1. /\ KeepsScheduled(d, e) /\ OneSlotEach(e)
      /\ Accounts(d, e) /\ KeepsWrites(d, e)
      /\ q = "RQ" => e.WQ = d.WQ
      /\ \A t \in Slots : t # <<q, n>> /\ At(e, t) # Empty =>
               At(d, t) # Empty /\ At(e, t).checked = At(d, t).checked
      /\ At(e, <<q, n>>) # Empty => At(e, <<q, n>>).checked
  <2>1. StageInv(d) /\ OneSlotEach(d)
    BY DEF Looped
  <2>2. CASE q = "WQ"
    <3>1. e = CheckWrite(d, n) /\ n \in 1..WQ_SIZE
      BY <2>2 DEF CheckSlot, QueueSize
    <3>. HIDE DEF e
    <3>2. /\ KeepsScheduled(d, e) /\ OneSlotEach(e)
          /\ e.RQ = d.RQ /\ e.returned = d.returned
          /\ \A s \in Slots : s # <<"WQ", n>> => At(e, s) = At(d, s)
          /\ At(e, <<"WQ", n>>) # Empty => At(e, <<"WQ", n>>).checked
          /\ KeepsWrites(d, e)
      BY <2>1, <3>1, CheckWriteKeeps
    <3>3. Accounts(d, e)
      BY <3>2 DEF Accounts
    <3>. QED  BY <2>2, <3>2, <3>3
  <2>3. CASE q = "RQ"
    <3>1. e = CheckRead(d, n) /\ n \in 1..RQ_SIZE
      BY <2>3 DEF CheckSlot, QueueSize
    <3>. HIDE DEF e
    <3>2. /\ KeepsScheduled(d, e) /\ OneSlotEach(e) /\ Accounts(d, e)
          /\ e.WQ = d.WQ
          /\ \A t \in Slots : t # <<"RQ", n>> /\ At(e, t) # Empty =>
                At(d, t) # Empty /\ At(e, t).checked = At(d, t).checked
          /\ At(e, <<"RQ", n>>) # Empty => At(e, <<"RQ", n>>).checked
      BY <2>1, <3>1, CheckReadKeeps
    <3>3. KeepsWrites(d, e)
      BY <3>2 DEF KeepsWrites, WriteBlocks
    <3>. QED  BY <2>3, <3>2, <3>3
  <2>. QED  BY <2>2, <2>3 DEF Queues
<1>. HIDE DEF e
<1>2. StageInv(e)
  BY <1>1, KeepsStageInv DEF Looped
<1>3. e.bank = ch.bank /\ e.active = ch.active /\ e.write_mode = ch.write_mode
  BY <1>1 DEF Looped, KeepsScheduled
<1>4. Accounts(ch, e) /\ KeepsWrites(ch, e)
  BY <1>1 DEF Looped, Accounts, KeepsWrites
<1>5. ASSUME NEW s \in Slots, Scheduled(At(ch, s))
      PROVE  Scheduled(At(e, s)) /\ At(e, s).addr = At(ch, s).addr
  <2>1. Scheduled(At(d, s)) /\ At(d, s).addr = At(ch, s).addr
    BY <1>5 DEF Looped
  <2>2. Scheduled(At(e, s)) /\ At(e, s).addr = At(d, s).addr
    BY <1>1, <2>1 DEF KeepsScheduled, Scheduled
  <2>. QED  BY <2>1, <2>2
<1>6. \A i \in 1..n : At(e, <<q, i>>) # Empty => At(e, <<q, i>>).checked
  <2>1. ASSUME NEW i \in 1..n, At(e, <<q, i>>) # Empty PROVE At(e, <<q, i>>).checked
    <3>1. CASE i = n
      BY <1>1, <2>1, <3>1
    <3>2. CASE i # n
      <4>1. <<q, i>> \in Slots /\ <<q, i>> # <<q, n>> /\ i \in 1..n - 1
        BY <3>2, SlotOf, SizesAre DEF QueueSize
      <4>. QED  BY <1>1, <2>1, <4>1 DEF Looped
    <3>. QED  BY <3>1, <3>2
  <2>. QED  BY <2>1
<1>. QED  BY <1>1, <1>2, <1>3, <1>4, <1>5, <1>6 DEF Looped

LEMMA LoopEnds ==
  ASSUME NEW q \in Queues, NEW ch, StageInv(ch), OneSlotEach(ch),
         NEW f, Loop(f, QueueSize(q), q, ch)
  PROVE  Looped(q, ch, f[QueueSize(q)], QueueSize(q))
<1>. DEFINE N == QueueSize(q)
            S == {n \in 0..N : ~Looped(q, ch, f[n], n)}
            n == FirstOf(S)
<1>1. N \in Nat
  BY SizesAre DEF QueueSize
<1>2. f[0] = ch /\ \A m \in 1..N : f[m] = CheckSlot(q, f[m - 1], m)
  BY <1>1 DEF Loop
<1>. HIDE DEF N
<1>3. Looped(q, ch, f[0], 0)
  BY <1>2 DEF Looped, Accounts, KeepsWrites
<1>4. SUFFICES ASSUME S # {} PROVE FALSE
  BY <1>1 DEF N
<1>5. n \in S /\ \A m \in S : n <= m
  <2>1. S \subseteq Nat
    BY <1>1
  <2>. QED  BY ONLY <1>4, <2>1, FirstFound
<1>. HIDE DEF n
<1>6. n \in 1..N /\ n - 1 \in 0..N /\ n - 1 \notin S
  <2>1. n \in 0..N /\ n # 0
    BY <1>3, <1>5
  <2>2. n - 1 \in 0..N /\ ~(n <= n - 1)
    BY <1>1, <2>1
  <2>. QED  BY <1>1, <1>5, <2>1, <2>2
<1>7. Looped(q, ch, f[n - 1], n - 1)
  BY <1>6
<1>8. Looped(q, ch, f[n], n)
  BY <1>2, <1>6, <1>7, LoopStep DEF N
<1>. QED  BY <1>5, <1>8

LEMMA CheckWriteCollisionKeeps ==
  ASSUME NEW ch, StageInv(ch), OneSlotEach(ch)
  PROVE  Looped("WQ", ch, CheckWriteCollision(ch), WQ_SIZE)
<1>. DEFINE f == CHOOSE f : f = [i \in 0..WQ_SIZE |-> IF i = 0 THEN ch ELSE CheckWrite(f[i - 1], i)]
<1>1. CheckWriteCollision(ch) = f[WQ_SIZE]
  BY DEF CheckWriteCollision
<1>2. \A g : g = [i \in 0..WQ_SIZE |-> IF i = 0 THEN ch ELSE CheckWrite(g[i - 1], i)]
               <=> Loop(g, WQ_SIZE, "WQ", ch)
  BY DEF Loop, CheckSlot
<1>3. \E g : g = [i \in 0..WQ_SIZE |-> IF i = 0 THEN ch ELSE CheckWrite(g[i - 1], i)]
  BY <1>2, LoopExists, SizesAre
<1>4. f = [i \in 0..WQ_SIZE |-> IF i = 0 THEN ch ELSE CheckWrite(f[i - 1], i)]
  BY <1>3
<1>. HIDE DEF f
<1>5. Loop(f, QueueSize("WQ"), "WQ", ch)
  BY <1>2, <1>4 DEF QueueSize
<1>6. Looped("WQ", ch, f[QueueSize("WQ")], QueueSize("WQ"))
  BY <1>5, LoopEnds DEF Queues
<1>. QED  BY <1>1, <1>6 DEF QueueSize

LEMMA CheckReadCollisionKeeps ==
  ASSUME NEW ch, StageInv(ch), OneSlotEach(ch)
  PROVE  Looped("RQ", ch, CheckReadCollision(ch), RQ_SIZE)
<1>. DEFINE f == CHOOSE f : f = [i \in 0..RQ_SIZE |-> IF i = 0 THEN ch ELSE CheckRead(f[i - 1], i)]
<1>1. CheckReadCollision(ch) = f[RQ_SIZE]
  BY DEF CheckReadCollision
<1>2. \A g : g = [i \in 0..RQ_SIZE |-> IF i = 0 THEN ch ELSE CheckRead(g[i - 1], i)]
               <=> Loop(g, RQ_SIZE, "RQ", ch)
  BY DEF Loop, CheckSlot
<1>3. \E g : g = [i \in 0..RQ_SIZE |-> IF i = 0 THEN ch ELSE CheckRead(g[i - 1], i)]
  BY <1>2, LoopExists, SizesAre
<1>4. f = [i \in 0..RQ_SIZE |-> IF i = 0 THEN ch ELSE CheckRead(f[i - 1], i)]
  BY <1>3
<1>. HIDE DEF f
<1>5. Loop(f, QueueSize("RQ"), "RQ", ch)
  BY <1>2, <1>4 DEF QueueSize
<1>6. Looped("RQ", ch, f[QueueSize("RQ")], QueueSize("RQ"))
  BY <1>5, LoopEnds DEF Queues
<1>. QED  BY <1>1, <1>6 DEF QueueSize

(* After both loops every request is checked, and those that were scheduled  *)
(* are still there.                                                        *)
AllChecked(ch) == \A s \in Slots : At(ch, s) # Empty => At(ch, s).checked
Checked(ch, d) ==
  /\ StageInv(d) /\ OneSlotEach(d) /\ AllChecked(d)
  /\ d.bank = ch.bank /\ d.active = ch.active /\ d.write_mode = ch.write_mode
  /\ Accounts(ch, d) /\ KeepsWrites(ch, d)
  /\ \A s \in Slots : Scheduled(At(ch, s)) => Scheduled(At(d, s)) /\ At(d, s).addr = At(ch, s).addr

LEMMA CollisionsKeep ==
  ASSUME NEW ch, StageInv(ch), OneSlotEach(ch)
  PROVE  Checked(ch, CheckReadCollision(CheckWriteCollision(ch)))
<1>. PICK d : d = CheckWriteCollision(ch)
  OBVIOUS
<1>. PICK e : e = CheckReadCollision(d)
  OBVIOUS
<1>1. Looped("WQ", ch, d, WQ_SIZE)
  BY CheckWriteCollisionKeeps
<1>2. Looped("RQ", d, e, RQ_SIZE)
  BY <1>1, CheckReadCollisionKeeps DEF Looped
<1>3. AllChecked(e)
  <2>1. \A i \in 1..WQ_SIZE : At(e, <<"WQ", i>>) # Empty => At(e, <<"WQ", i>>).checked
    <3>1. \A i \in 1..WQ_SIZE : At(e, <<"WQ", i>>) = At(d, <<"WQ", i>>)
      <4>1. d \in ChannelType /\ e \in ChannelType /\ e.WQ = d.WQ
        BY <1>1, <1>2 DEF Looped, StageInv
      <4>2. \A i \in 1..WQ_SIZE : At(d, <<"WQ", i>>) = d.WQ[i]
        BY <4>1, WriteBlocksAre
      <4>3. \A i \in 1..WQ_SIZE : At(e, <<"WQ", i>>) = e.WQ[i]
        BY <4>1, WriteBlocksAre
      <4>. QED  BY <4>1, <4>2, <4>3
    <3>. QED  BY <1>1, <3>1 DEF Looped
  <2>2. \A i \in 1..RQ_SIZE : At(e, <<"RQ", i>>) # Empty => At(e, <<"RQ", i>>).checked
    BY <1>2 DEF Looped
  <2>3. \A s \in Slots : \/ s[2] \in 1..WQ_SIZE /\ s = <<"WQ", s[2]>>
                         \/ s[2] \in 1..RQ_SIZE /\ s = <<"RQ", s[2]>>
    BY SlotParts DEF Queues, QueueSize
  <2>. QED  BY <2>1, <2>2, <2>3 DEF AllChecked
<1>4. \A s \in Slots : Scheduled(At(ch, s)) => Scheduled(At(e, s)) /\ At(e, s).addr = At(ch, s).addr
  BY <1>1, <1>2 DEF Looped
<1>. QED  BY <1>1, <1>2, <1>3, <1>4 DEF Looped, Checked, Accounts, KeepsWrites

-----------------------------------------------------------------------------
(* finish_dbus_request.                                                    *)
Handled(ch) == StageInv(ch) /\ OneSlotEach(ch) /\ AllChecked(ch)

Finishes(ch) == ch.active # NoBank /\ ch.bank[ch.active].ready_in <= 0
Pkt(ch) == ch.bank[ch.active].pkt

LEMMA FinishIs ==
  ASSUME NEW ch, StageInv(ch), Finishes(ch)
  PROVE  LET d == Finish(ch)
             b == ch.active
             s == Pkt(ch)
         IN
         /\ b \in Bank /\ ch.bank[b].valid
         /\ s \in Slots /\ Scheduled(At(ch, s)) /\ BankOf[At(ch, s).addr] = b
         /\ d \in ChannelType
         /\ d.active = NoBank /\ d.write_mode = ch.write_mode
         /\ d.returned = ch.returned \cup AnsweredBy(At(ch, s))
         /\ \A x \in Bank : x # b => d.bank[x] = ch.bank[x]
         /\ ~d.bank[b].valid
         /\ At(d, s) = Empty
         /\ \A t \in Slots : t # s => At(d, t) = At(ch, t)
<1>. PICK d : d = Finish(ch)
  OBVIOUS
<1>. PICK b : b = ch.active
  OBVIOUS
<1>. PICK s : s = Pkt(ch)
  OBVIOUS
<1>1. ch \in ChannelType /\ ch.active # NoBank
  BY DEF StageInv, Finishes
<1>2. b \in Bank /\ ch.bank[b] \in BankType /\ ch.bank[b].valid
  BY <1>1 DEF ChannelType, StageInv, PacketsOfBanks
<1>3. s \in Slots /\ Scheduled(At(ch, s)) /\ BankOf[At(ch, s).addr] = b
  BY <1>2 DEF StageInv, PacketsOfBanks, Pkt
<1>. PICK v : v = AnsweredBy(At(ch, s))
  OBVIOUS
<1>4. v \subseteq Ids
  BY <1>1, <1>3, SlotTyped DEF AnsweredBy, SlotType, Scheduled
<1>. PICK k : k = [ch.bank[b] EXCEPT !.valid = FALSE, !.pkt = NoSlot]
  OBVIOUS
<1>5. k \in BankType /\ ~k.valid
  BY <1>2 DEF BankType
<1>. PICK e : e = Put(ch, s, Empty)
  OBVIOUS
<1>6. /\ e \in ChannelType
      /\ e.bank = ch.bank /\ e.active = ch.active /\ e.write_mode = ch.write_mode
      /\ e.returned = ch.returned
      /\ At(e, s) = Empty /\ \A t \in Slots : t # s => At(e, t) = At(ch, t)
  <2>1. Empty \in SlotType \cup {Empty}
    OBVIOUS
  <2>. QED  BY <1>1, <1>3, <2>1, PutIs
<1>7. d = [e EXCEPT !.returned = e.returned \cup v,
                    !.bank = [e.bank EXCEPT ![b] = k],
                    !.active = NoBank]
  <2>1. ch.bank[b].ready_in \in Int /\ ~(ch.bank[b].ready_in > 0)
    BY <1>2 DEF Finishes, BankType
  <2>2. d = [e EXCEPT !.returned = @ \cup v,
                      !.bank[b] = [ch.bank[b] EXCEPT !.valid = FALSE, !.pkt = NoSlot],
                      !.active = NoBank]
    BY <1>1, <1>6, <2>1 DEF Finish, Pkt
  <2>. QED  BY <1>2, <1>6, <2>2 DEF ChannelType
<1>8. /\ d \in ChannelType
      /\ d.active = NoBank /\ d.write_mode = ch.write_mode /\ d.returned = ch.returned \cup v
      /\ d.bank = [ch.bank EXCEPT ![b] = k] /\ d.RQ = e.RQ /\ d.WQ = e.WQ
  BY ONLY <1>2, <1>4, <1>5, <1>6, <1>7 DEF ChannelType
<1>9. \A t \in Slots : At(d, t) = At(e, t)
  BY <1>6, <1>8, SameQueues
<1>10. d.bank[b] = k /\ \A x \in Bank : x # b => d.bank[x] = ch.bank[x]
  BY <1>1, <1>2, <1>8 DEF ChannelType
<1>11. At(d, s) = Empty /\ \A t \in Slots : t # s => At(d, t) = At(ch, t)
  BY <1>3, <1>6, <1>9
<1>12. /\ b \in Bank /\ ch.bank[b].valid
       /\ s \in Slots /\ Scheduled(At(ch, s)) /\ BankOf[At(ch, s).addr] = b
       /\ d \in ChannelType
       /\ d.active = NoBank /\ d.write_mode = ch.write_mode
       /\ d.returned = ch.returned \cup AnsweredBy(At(ch, s))
       /\ \A x \in Bank : x # b => d.bank[x] = ch.bank[x]
       /\ ~d.bank[b].valid
       /\ At(d, s) = Empty
       /\ \A t \in Slots : t # s => At(d, t) = At(ch, t)
  BY <1>2, <1>3, <1>5, <1>8, <1>10, <1>11
<1>. QED  BY ONLY <1>12, d = Finish(ch), b = ch.active, s = Pkt(ch)

LEMMA FinishKeeps ==
  ASSUME NEW ch, Handled(ch)
  PROVE  LET d == Finish(ch) IN
         /\ Handled(d) /\ Accounts(ch, d)
         /\ \A a \in WriteBlocks(ch) \ WriteBlocks(d) :
               /\ ch.active # NoBank
               /\ Pkt(ch) \in Slots /\ Pkt(ch)[1] = "WQ" /\ At(ch, Pkt(ch)).addr = a
<1>. PICK d : d = Finish(ch)
  OBVIOUS
<1>. PICK b : b = ch.active
  OBVIOUS
<1>. PICK s : s = Pkt(ch)
  OBVIOUS
<1>1. ch \in ChannelType /\ StageInv(ch) /\ OneSlotEach(ch) /\ AllChecked(ch)
  BY DEF Handled, StageInv
<1>2. CASE ~Finishes(ch)
  <2>1. d = ch
    <3>1. ch.active # NoBank => ch.bank[ch.active].ready_in \in Int
      BY <1>1 DEF ChannelType, BankType
    <3>. QED  BY <1>2, <3>1 DEF Finishes, Finish
  <2>. QED  BY <2>1 DEF Accounts
<1>3. CASE Finishes(ch)
  <2>1. /\ b \in Bank /\ ch.bank[b].valid
        /\ s \in Slots /\ Scheduled(At(ch, s)) /\ BankOf[At(ch, s).addr] = b
        /\ d \in ChannelType
        /\ d.active = NoBank /\ d.write_mode = ch.write_mode
        /\ d.returned = ch.returned \cup AnsweredBy(At(ch, s))
        /\ \A x \in Bank : x # b => d.bank[x] = ch.bank[x]
        /\ ~d.bank[b].valid
        /\ At(d, s) = Empty
        /\ \A t \in Slots : t # s => At(d, t) = At(ch, t)
    BY <1>1, <1>3, FinishIs
  <2>2. At(ch, s) # Empty /\ s = ch.bank[b].pkt
    BY <2>1 DEF Scheduled, Pkt
  <2>3. PacketsOfBanks(d)
    <3>1. ASSUME NEW x \in Bank, d.bank[x].valid
          PROVE  /\ d.bank[x].pkt \in Slots
                 /\ Scheduled(At(d, d.bank[x].pkt))
                 /\ BankOf[At(d, d.bank[x].pkt).addr] = x
                 /\ x # d.active => (d.bank[x].pkt[1] = "WQ" <=> d.write_mode)
      <4>1. x # b /\ d.bank[x] = ch.bank[x]
        BY <2>1, <3>1
      <4>2. /\ ch.bank[x].pkt \in Slots
            /\ Scheduled(At(ch, ch.bank[x].pkt))
            /\ BankOf[At(ch, ch.bank[x].pkt).addr] = x
            /\ ch.bank[x].pkt[1] = "WQ" <=> ch.write_mode
        BY <1>1, <3>1, <4>1 DEF StageInv, PacketsOfBanks
      <4>3. ch.bank[x].pkt # s
        BY <2>1, <4>1, <4>2
      <4>. QED  BY <2>1, <4>1, <4>2, <4>3
    <3>2. ASSUME NEW t \in Slots, Scheduled(At(d, t))
          PROVE  \E x \in Bank : d.bank[x].valid /\ d.bank[x].pkt = t
      <4>1. t # s /\ At(d, t) = At(ch, t)
        BY <2>1, <3>2 DEF Scheduled
      <4>2. PICK x \in Bank : ch.bank[x].valid /\ ch.bank[x].pkt = t
        BY <1>1, <3>2, <4>1 DEF StageInv, PacketsOfBanks
      <4>. QED  BY <2>1, <2>2, <4>1, <4>2
    <3>. QED  BY <2>1, <3>1, <3>2 DEF PacketsOfBanks
  <2>4. NewUnscheduled(d) /\ AllChecked(d)
    BY <1>1, <2>1 DEF AllChecked, NewUnscheduled, Scheduled
  <2>5. NotBoth(d)
    BY <1>1, <2>1 DEF StageInv, NotBoth
  <2>6. ~warmup
    BY <1>1, <2>1, <2>2 DEF StageInv, NothingWaits
  <2>7. /\ At(d, s) = Empty /\ AnsweredBy(At(ch, s)) = At(ch, s).deps
    BY <1>1, <2>1, <2>2, AnsweredByIs
  <2>8. OneSlotEach(d) /\ Accounts(ch, d)
    BY <1>1, <2>1, <2>2, <2>7, AnswerAccounts
  <2>9. ASSUME NEW a \in WriteBlocks(ch), a \notin WriteBlocks(d)
        PROVE  s[1] = "WQ" /\ At(ch, s).addr = a
    <3>1. PICK i \in 1..WQ_SIZE : At(ch, <<"WQ", i>>) # Empty /\ At(ch, <<"WQ", i>>).addr = a
      BY <1>1, WriteBlocksAre
    <3>2. <<"WQ", i>> \in Slots
      BY <1>1, WriteBlocksAre
    <3>3. <<"WQ", i>> = s
      <4>1. SUFFICES ASSUME <<"WQ", i>> # s PROVE FALSE
        OBVIOUS
      <4>2. At(d, <<"WQ", i>>) # Empty /\ At(d, <<"WQ", i>>).addr = a
        BY <2>1, <3>1, <3>2, <4>1
      <4>. QED  BY <2>1, <2>9, <4>2, WriteBlocksAre
    <3>. QED  BY <3>1, <3>3
  <2>. QED
    <3>1. Handled(d)
      BY <2>1, <2>3, <2>4, <2>5, <2>6, <2>8 DEF Handled, StageInv
    <3>2. ch.active # NoBank
      BY <1>3 DEF Finishes
    <3>. QED  BY <2>1, <2>8, <2>9, <3>1, <3>2
<1>. QED  BY <1>2, <1>3

-----------------------------------------------------------------------------
(* The other handlers move no request: they mark it, or order it anew.       *)
SameRequests(ch, d) ==
  /\ ch \in ChannelType /\ d \in ChannelType
  /\ d.returned = ch.returned
  /\ \A s \in Slots :
       /\ At(d, s) # Empty <=> At(ch, s) # Empty
       /\ At(ch, s) # Empty =>
            /\ At(d, s).addr = At(ch, s).addr /\ At(d, s).checked = At(ch, s).checked
            /\ At(d, s).deps = At(ch, s).deps /\ At(d, s).wanted = At(ch, s).wanted

LEMMA SameRequestsKeeps ==
  ASSUME NEW ch, OneSlotEach(ch), AllChecked(ch), NEW d, SameRequests(ch, d)
  PROVE  /\ OneSlotEach(d) /\ AllChecked(d) /\ NewUnscheduled(d)
         /\ Accounts(ch, d) /\ KeepsWrites(ch, d)
<1>1. OneSlotEach(d)
  BY DEF OneSlotEach, SameRequests
<1>2. AllChecked(d)
  BY DEF AllChecked, SameRequests
<1>3. NewUnscheduled(d)
  BY <1>2 DEF AllChecked, NewUnscheduled, Scheduled
<1>4. Accounts(ch, d)
  <2>1. \A x : x \in IdsOf(d.RQ) <=> \E t \in Slots : At(d, t) # Empty /\ x \in At(d, t).deps
    BY <1>1, IdsAre DEF SameRequests
  <2>2. \A x : x \in IdsOf(ch.RQ) <=> \E t \in Slots : At(ch, t) # Empty /\ x \in At(ch, t).deps
    BY IdsAre DEF SameRequests
  <2>3. \A t \in Slots : (At(d, t) # Empty <=> At(ch, t) # Empty)
            /\ (At(ch, t) # Empty => At(d, t).deps = At(ch, t).deps)
    BY DEF SameRequests
  <2>4. \A x : x \in IdsOf(d.RQ) <=> x \in IdsOf(ch.RQ)
    BY ONLY <2>1, <2>2, <2>3
  <2>. QED  BY <2>4 DEF Accounts, SameRequests
<1>5. KeepsWrites(ch, d)
  <2>1. \A a : a \in WriteBlocks(d) <=>
          \E i \in 1..WQ_SIZE : At(d, <<"WQ", i>>) # Empty /\ At(d, <<"WQ", i>>).addr = a
    BY WriteBlocksAre DEF SameRequests
  <2>2. \A a : a \in WriteBlocks(ch) <=>
          \E i \in 1..WQ_SIZE : At(ch, <<"WQ", i>>) # Empty /\ At(ch, <<"WQ", i>>).addr = a
    BY WriteBlocksAre DEF SameRequests
  <2>3. \A i \in 1..WQ_SIZE :
          /\ At(d, <<"WQ", i>>) # Empty <=> At(ch, <<"WQ", i>>) # Empty
          /\ At(ch, <<"WQ", i>>) # Empty => At(d, <<"WQ", i>>).addr = At(ch, <<"WQ", i>>).addr
    <3>1. \A i \in 1..WQ_SIZE : <<"WQ", i>> \in Slots
      BY WriteBlocksAre DEF SameRequests
    <3>. QED  BY <3>1 DEF SameRequests
  <2>4. \A a : a \in WriteBlocks(d) <=> a \in WriteBlocks(ch)
    BY ONLY <2>1, <2>2, <2>3
  <2>. QED  BY <2>4 DEF KeepsWrites
<1>. QED  BY <1>1, <1>2, <1>3, <1>4, <1>5

(* swap_write_mode.                                                        *)
BanksOf(ch, s) == {b \in TakenBack(ch) : ch.bank[b].pkt = s}

LEMMA SwapIs ==
  ASSUME NEW ch, Handled(ch), Unbalanced(ch)
  PROVE  LET d == SwapWriteMode(ch) IN
         /\ d \in ChannelType
         /\ d.active = ch.active /\ d.write_mode = ~ch.write_mode /\ d.returned = ch.returned
         /\ \A b \in Bank : b \notin TakenBack(ch) => d.bank[b] = ch.bank[b]
         /\ \A b \in TakenBack(ch) :
               ~d.bank[b].valid /\ d.bank[b].under_refresh = ch.bank[b].under_refresh
         /\ \A s \in Slots :
               At(d, s) = IF BanksOf(ch, s) # {}
                            THEN [At(ch, s) EXCEPT !.scheduled = FALSE, !.since = NOW]
                            ELSE At(ch, s)
<1>. PICK d : d = SwapWriteMode(ch)
  OBVIOUS
<1>. PICK back : back = TakenBack(ch)
  OBVIOUS
<1>1. ch \in ChannelType /\ StageInv(ch)
  BY DEF Handled, StageInv
<1>. DEFINE taken(q) == {i \in DOMAIN ch[q] : \E b \in back : ch.bank[b].pkt = <<q, i>>}
            newbank == [b \in Bank |->
               IF b \notin back THEN ch.bank[b]
               ELSE [ch.bank[b] EXCEPT !.valid = FALSE, !.pkt = NoSlot,
                              !.open_row = IF ch.bank[b].ready_in < tCAS THEN NoRow ELSE @]]
            newdbus == DBUS_TURN_AROUND + (IF ch.active = NoBank THEN 0 ELSE ch.bank[ch.active].ready_in)
            rq == Unscheduled(ch.RQ, taken("RQ"))
            wq == Unscheduled(ch.WQ, taken("WQ"))
<1>2. d = [ch EXCEPT !.bank = newbank, !.RQ = rq, !.WQ = wq, !.dbus_in = newdbus, !.write_mode = ~@]
  BY DEF SwapWriteMode
<1>3. newbank \in [Bank -> BankType]
  <2>1. ASSUME NEW b \in Bank PROVE newbank[b] \in BankType
    <3>1. ch.bank[b] \in BankType
      BY <1>1 DEF ChannelType
    <3>2. \A x \in BankType, row \in Row \cup {NoRow} :
             [x EXCEPT !.valid = FALSE, !.pkt = NoSlot, !.open_row = row] \in BankType
      BY DEF BankType
    <3>3. ch.bank[b].open_row \in Row \cup {NoRow}
      BY <3>1 DEF BankType
    <3>4. (IF ch.bank[b].ready_in < tCAS THEN NoRow ELSE ch.bank[b].open_row) \in Row \cup {NoRow}
      BY <3>3
    <3>. QED  BY <3>1, <3>2, <3>4
  <2>. QED  BY <2>1
<1>4. newdbus \in Int
  <2>1. ch.active # NoBank => ch.bank[ch.active].ready_in \in Int
    BY <1>1 DEF ChannelType, BankType
  <2>2. DBUS_TURN_AROUND \in Int
    BY TimesAre
  <2>. QED  BY <2>1, <2>2
<1>5. ASSUME NEW q \in Queues
      PROVE  /\ Unscheduled(ch[q], taken(q)) \in [1..QueueSize(q) -> SlotType \cup {Empty}]
             /\ \A i \in 1..QueueSize(q) :
                  Unscheduled(ch[q], taken(q))[i] =
                    IF BanksOf(ch, <<q, i>>) # {}
                      THEN [ch[q][i] EXCEPT !.scheduled = FALSE, !.since = NOW] ELSE ch[q][i]
  <2>1. DOMAIN ch[q] = 1..QueueSize(q) /\ ch[q] \in [1..QueueSize(q) -> SlotType \cup {Empty}]
    BY <1>1, QueueTyped
  <2>2. \A i \in 1..QueueSize(q) : i \in taken(q) <=> BanksOf(ch, <<q, i>>) # {}
    BY <2>1 DEF BanksOf
  <2>3. \A i \in 1..QueueSize(q) : i \in taken(q) => ch[q][i] \in SlotType
    <3>1. ASSUME NEW i \in 1..QueueSize(q), NEW b \in back, ch.bank[b].pkt = <<q, i>>
          PROVE  ch[q][i] \in SlotType
      <4>1. Scheduled(At(ch, <<q, i>>)) /\ <<q, i>> \in Slots
        BY <1>1, <3>1 DEF TakenBack, StageInv, PacketsOfBanks
      <4>2. At(ch, <<q, i>>) \in SlotType
        BY <1>1, <4>1, SlotTyped DEF Scheduled
      <4>. QED  BY <4>2 DEF At
    <3>. QED  BY <3>1
  <2>4. \A x \in SlotType : [x EXCEPT !.scheduled = FALSE, !.since = NOW] \in SlotType
    <3>1. NOW \in Nat
      BY SizesAre DEF NOW
    <3>. QED  BY <3>1 DEF SlotType
  <2>. HIDE DEF taken
  <2>. QED  BY <2>1, <2>2, <2>3, <2>4 DEF Unscheduled
<1>6. /\ rq \in [1..RQ_SIZE -> SlotType \cup {Empty}] /\ wq \in [1..WQ_SIZE -> SlotType \cup {Empty}]
  BY <1>5 DEF Queues, QueueSize
<1>7. /\ \A b \in Bank : b \notin back => newbank[b] = ch.bank[b]
      /\ \A b \in back : ~newbank[b].valid /\ newbank[b].under_refresh = ch.bank[b].under_refresh
  BY <1>1 DEF ChannelType, BankType, TakenBack
<1>8. \A s \in Slots :
        (IF s[1] = "RQ" THEN rq ELSE wq)[s[2]] =
           IF BanksOf(ch, s) # {}
             THEN [At(ch, s) EXCEPT !.scheduled = FALSE, !.since = NOW]
             ELSE At(ch, s)
  <2>1. ASSUME NEW q \in Queues
        PROVE  (IF q = "RQ" THEN rq ELSE wq) = Unscheduled(ch[q], taken(q))
    BY DEF Queues
  <2>. HIDE DEF taken, rq, wq
  <2>2. ASSUME NEW s \in Slots
        PROVE  (IF s[1] = "RQ" THEN rq ELSE wq)[s[2]] =
                 IF BanksOf(ch, s) # {}
                   THEN [At(ch, s) EXCEPT !.scheduled = FALSE, !.since = NOW]
                   ELSE At(ch, s)
    <3>. PICK q, i : q = s[1] /\ i = s[2]
      OBVIOUS
    <3>1. q \in Queues /\ i \in 1..QueueSize(q) /\ s = <<q, i>>
      BY SlotParts
    <3>2. (IF q = "RQ" THEN rq ELSE wq)[i] =
            IF BanksOf(ch, <<q, i>>) # {}
              THEN [ch[q][i] EXCEPT !.scheduled = FALSE, !.since = NOW] ELSE ch[q][i]
      <4>1. Unscheduled(ch[q], taken(q))[i] =
              IF BanksOf(ch, <<q, i>>) # {}
                THEN [ch[q][i] EXCEPT !.scheduled = FALSE, !.since = NOW] ELSE ch[q][i]
        BY <1>5, <3>1
      <4>2. (IF q = "RQ" THEN rq ELSE wq) = Unscheduled(ch[q], taken(q))
        BY <2>1, <3>1
      <4>. QED  BY ONLY <4>1, <4>2
    <3>. QED  BY <3>1, <3>2 DEF At
  <2>. QED  BY <2>2
<1>. HIDE DEF newbank, newdbus, rq, wq
<1>9. /\ d \in ChannelType
      /\ d.active = ch.active /\ d.write_mode = ~ch.write_mode /\ d.returned = ch.returned
      /\ d.bank = newbank /\ d.RQ = rq /\ d.WQ = wq
  BY ONLY <1>1, <1>2, <1>3, <1>4, <1>6 DEF ChannelType
<1>10. \A s \in Slots :
         At(d, s) = IF BanksOf(ch, s) # {}
                      THEN [At(ch, s) EXCEPT !.scheduled = FALSE, !.since = NOW]
                      ELSE At(ch, s)
  BY <1>8, <1>9, SlotParts DEF At, Queues
<1>11. /\ \A b \in Bank : b \notin back => d.bank[b] = ch.bank[b]
       /\ \A b \in back : ~d.bank[b].valid /\ d.bank[b].under_refresh = ch.bank[b].under_refresh
  BY <1>7, <1>9
<1>. QED  BY ONLY <1>9, <1>10, <1>11, d = SwapWriteMode(ch), back = TakenBack(ch)

LEMMA SwapKeeps ==
  ASSUME NEW ch, Handled(ch)
  PROVE  LET d == SwapWriteMode(ch) IN
         Handled(d) /\ Accounts(ch, d) /\ KeepsWrites(ch, d)
<1>. PICK d : d = SwapWriteMode(ch)
  OBVIOUS
<1>1. ch \in ChannelType /\ StageInv(ch) /\ OneSlotEach(ch) /\ AllChecked(ch)
  BY DEF Handled, StageInv
<1>2. CASE ~Unbalanced(ch)
  BY <1>2 DEF SwapWriteMode, Accounts, KeepsWrites
<1>3. CASE Unbalanced(ch)
  <2>1. /\ d \in ChannelType
        /\ d.active = ch.active /\ d.write_mode = ~ch.write_mode /\ d.returned = ch.returned
        /\ \A b \in Bank : b \notin TakenBack(ch) => d.bank[b] = ch.bank[b]
        /\ \A b \in TakenBack(ch) :
              ~d.bank[b].valid /\ d.bank[b].under_refresh = ch.bank[b].under_refresh
        /\ \A s \in Slots :
              At(d, s) = IF BanksOf(ch, s) # {}
                           THEN [At(ch, s) EXCEPT !.scheduled = FALSE, !.since = NOW]
                           ELSE At(ch, s)
    BY <1>3, SwapIs
  <2>2. \A s \in Slots : BanksOf(ch, s) # {} => At(ch, s) \in SlotType
    <3>1. ASSUME NEW s \in Slots, NEW b \in BanksOf(ch, s)
          PROVE  At(ch, s) \in SlotType
      <4>1. b \in Bank /\ ch.bank[b].valid /\ ch.bank[b].pkt = s
        BY <3>1 DEF BanksOf, TakenBack
      <4>2. Scheduled(At(ch, s))
        BY <1>1, <4>1 DEF StageInv, PacketsOfBanks
      <4>. QED  BY <1>1, <4>2, SlotTyped DEF Scheduled
    <3>. QED  BY <3>1
  <2>3. \A x \in SlotType :
           LET y == [x EXCEPT !.scheduled = FALSE, !.since = NOW] IN
           /\ x # Empty /\ y # Empty /\ ~y.scheduled
           /\ y.addr = x.addr /\ y.checked = x.checked /\ y.deps = x.deps /\ y.wanted = x.wanted
    <3>1. \A x \in SlotType : [x EXCEPT !.scheduled = FALSE, !.since = NOW] \in SlotType
      <4>1. NOW \in Nat
        BY SizesAre DEF NOW
      <4>. QED  BY <4>1 DEF SlotType
    <3>. QED  BY <3>1, DramAssumption DEF SlotType
  <2>4. SameRequests(ch, d)
    <3>1. ASSUME NEW s \in Slots
          PROVE  /\ At(d, s) # Empty <=> At(ch, s) # Empty
                 /\ At(ch, s) # Empty =>
                      /\ At(d, s).addr = At(ch, s).addr /\ At(d, s).checked = At(ch, s).checked
                      /\ At(d, s).deps = At(ch, s).deps /\ At(d, s).wanted = At(ch, s).wanted
      <4>1. CASE BanksOf(ch, s) = {}
        BY <2>1, <4>1
      <4>2. CASE BanksOf(ch, s) # {}
        <5>1. At(d, s) = [At(ch, s) EXCEPT !.scheduled = FALSE, !.since = NOW]
          BY <2>1, <4>2
        <5>. QED  BY <2>2, <2>3, <4>2, <5>1
      <4>. QED  BY <4>1, <4>2
    <3>. QED  BY <1>1, <2>1, <3>1 DEF SameRequests
  <2>5. \A s \in Slots : Scheduled(At(d, s)) <=> Scheduled(At(ch, s)) /\ BanksOf(ch, s) = {}
    <3>1. ASSUME NEW s \in Slots, BanksOf(ch, s) = {}
          PROVE  Scheduled(At(d, s)) <=> Scheduled(At(ch, s))
      BY <2>1, <3>1
    <3>2. ASSUME NEW s \in Slots, BanksOf(ch, s) # {}
          PROVE  ~Scheduled(At(d, s))
      <4>1. At(d, s) = [At(ch, s) EXCEPT !.scheduled = FALSE, !.since = NOW]
        BY <2>1, <3>2
      <4>. QED  BY <2>2, <2>3, <3>2, <4>1 DEF Scheduled
    <3>. QED  BY <3>1, <3>2
  <2>6. \A b \in Bank : d.bank[b].valid => b = ch.active /\ ch.bank[b].valid /\ d.bank[b] = ch.bank[b]
    BY <2>1 DEF TakenBack
  <2>7. PacketsOfBanks(d)
    <3>1. ASSUME NEW b \in Bank, d.bank[b].valid
          PROVE  /\ d.bank[b].pkt \in Slots
                 /\ Scheduled(At(d, d.bank[b].pkt))
                 /\ BankOf[At(d, d.bank[b].pkt).addr] = b
                 /\ b = d.active
      <4>. PICK s : s = ch.bank[b].pkt
        OBVIOUS
      <4>1. /\ b = ch.active /\ d.bank[b].pkt = s
            /\ s \in Slots /\ Scheduled(At(ch, s)) /\ BankOf[At(ch, s).addr] = b
        BY <1>1, <2>6, <3>1 DEF StageInv, PacketsOfBanks
      <4>2. BanksOf(ch, s) = {}
        <5>1. ASSUME NEW x \in BanksOf(ch, s) PROVE FALSE
          <6>1. x \in Bank /\ x # ch.active /\ ch.bank[x].valid /\ ch.bank[x].pkt = s
            BY DEF BanksOf, TakenBack
          <6>2. BankOf[At(ch, s).addr] = x
            BY <1>1, <6>1 DEF StageInv, PacketsOfBanks
          <6>. QED  BY <4>1, <6>1, <6>2
        <5>. QED  BY <5>1
      <4>3. At(d, s) = At(ch, s)
        BY <2>1, <4>1, <4>2
      <4>. QED  BY <2>1, <4>1, <4>3
    <3>2. ASSUME NEW s \in Slots, Scheduled(At(d, s))
          PROVE  \E b \in Bank : d.bank[b].valid /\ d.bank[b].pkt = s
      <4>1. Scheduled(At(ch, s)) /\ BanksOf(ch, s) = {}
        BY <2>5, <3>2
      <4>2. PICK b \in Bank : ch.bank[b].valid /\ ch.bank[b].pkt = s
        BY <1>1, <4>1 DEF StageInv, PacketsOfBanks
      <4>3. b \notin TakenBack(ch)
        BY <4>1, <4>2 DEF BanksOf
      <4>. QED  BY <2>1, <4>2, <4>3
    <3>3. d.active # NoBank => d.bank[d.active].valid
      <4>1. SUFFICES ASSUME ch.active # NoBank PROVE d.bank[ch.active].valid
        BY <2>1
      <4>2. ch.active \in Bank /\ ch.bank[ch.active].valid
        BY <1>1, <4>1 DEF StageInv, PacketsOfBanks, ChannelType
      <4>3. ch.active \notin TakenBack(ch)
        BY DEF TakenBack
      <4>. QED  BY <2>1, <4>2, <4>3
    <3>. QED  BY <3>1, <3>2, <3>3 DEF PacketsOfBanks
  <2>8. NotBoth(d)
    BY <1>1, <2>1, <2>6 DEF StageInv, NotBoth
  <2>9. warmup => NothingWaits(d)
    BY <1>1, <2>4, <2>6 DEF StageInv, NothingWaits, SameRequests
  <2>10. /\ OneSlotEach(d) /\ AllChecked(d) /\ NewUnscheduled(d)
         /\ Accounts(ch, d) /\ KeepsWrites(ch, d)
    BY <1>1, <2>4, SameRequestsKeeps
  <2>11. Handled(d) /\ Accounts(ch, d) /\ KeepsWrites(ch, d)
    BY <2>1, <2>7, <2>8, <2>9, <2>10 DEF Handled, StageInv
  <2>. QED  BY ONLY <2>11, d = SwapWriteMode(ch)
<1>. QED  BY <1>2, <1>3

-----------------------------------------------------------------------------
(* schedule_refresh.  Afterwards a bank that needs a refresh has a request.  *)
NeedsLate(ch) == \A b \in Bank : ch.bank[b].need_refresh => ch.bank[b].valid

LEMMA RefreshedIs ==
  ASSUME NEW b \in BankType, ~(b.valid /\ b.under_refresh), NEW due \in BOOLEAN
  PROVE  LET r == Refreshed(b, due) IN
         /\ r \in BankType
         /\ r.valid = b.valid /\ r.pkt = b.pkt
         /\ ~(r.valid /\ r.under_refresh)
         /\ r.need_refresh => r.valid
<1>. PICK r : r = Refreshed(b, due)
  OBVIOUS
<1>. PICK need : need = (b.need_refresh \/ due)
  OBVIOUS
<1>1. need \in BOOLEAN
  BY DEF BankType
<1>2. tRFC \in Int
  BY TimesAre
<1>3. r = IF need /\ ~b.valid
            THEN [b EXCEPT !.need_refresh = FALSE, !.under_refresh = TRUE, !.ready_in = tRFC]
          ELSE IF b.under_refresh /\ b.ready_in <= 0
            THEN [b EXCEPT !.need_refresh = need, !.under_refresh = FALSE, !.open_row = NoRow]
          ELSE [b EXCEPT !.need_refresh = need]
  BY DEF Refreshed
<1>4. CASE need /\ ~b.valid
  <2>1. r = [b EXCEPT !.need_refresh = FALSE, !.under_refresh = TRUE, !.ready_in = tRFC]
    BY <1>3, <1>4
  <2>2. r \in BankType /\ r.valid = b.valid /\ r.pkt = b.pkt /\ ~r.need_refresh
    BY ONLY <1>2, <2>1, b \in BankType DEF BankType
  <2>. QED  BY <1>4, <2>2
<1>5. CASE ~(need /\ ~b.valid) /\ b.under_refresh /\ b.ready_in <= 0
  <2>1. r = [b EXCEPT !.need_refresh = need, !.under_refresh = FALSE, !.open_row = NoRow]
    BY <1>3, <1>5
  <2>2. r \in BankType
    BY ONLY <1>1, <2>1, b \in BankType DEF BankType
  <2>3. r.valid = b.valid /\ r.pkt = b.pkt /\ ~r.under_refresh /\ r.need_refresh = need
    BY ONLY <1>1, <2>1, b \in BankType DEF BankType
  <2>. QED  BY <1>5, <2>2, <2>3
<1>6. CASE ~(need /\ ~b.valid) /\ ~(b.under_refresh /\ b.ready_in <= 0)
  BY <1>1, <1>3, <1>6 DEF BankType
<1>. QED  BY <1>4, <1>5, <1>6

(* A handler that leaves the slots as they are, and of a bank its request.   *)
KeepsRequests(ch, d) ==
  /\ ch \in ChannelType /\ d \in ChannelType
  /\ d.RQ = ch.RQ /\ d.WQ = ch.WQ
  /\ d.write_mode = ch.write_mode /\ d.returned = ch.returned
  /\ \A b \in Bank : d.bank[b].valid = ch.bank[b].valid /\ d.bank[b].pkt = ch.bank[b].pkt

LEMMA RequestsKept ==
  ASSUME NEW ch, NEW d, Handled(ch), KeepsRequests(ch, d), NotBoth(d),
         d.active # ch.active => ch.active = NoBank /\ d.bank[d.active].valid
  PROVE  Handled(d) /\ Accounts(ch, d) /\ KeepsWrites(ch, d)
<1>1. ch \in ChannelType /\ d \in ChannelType /\ StageInv(ch) /\ OneSlotEach(ch) /\ AllChecked(ch)
  BY DEF Handled, KeepsRequests
<1>2. \A s \in Slots : At(d, s) = At(ch, s)
  BY SameQueues DEF KeepsRequests
<1>3. \A b \in Bank : d.bank[b].valid = ch.bank[b].valid /\ d.bank[b].pkt = ch.bank[b].pkt
  BY DEF KeepsRequests
<1>4. SameRequests(ch, d)
  BY <1>1, <1>2 DEF SameRequests, KeepsRequests
<1>5. PacketsOfBanks(d)
  <2>1. ASSUME NEW b \in Bank, d.bank[b].valid
        PROVE  /\ d.bank[b].pkt \in Slots
               /\ Scheduled(At(d, d.bank[b].pkt))
               /\ BankOf[At(d, d.bank[b].pkt).addr] = b
               /\ b # d.active => (d.bank[b].pkt[1] = "WQ" <=> d.write_mode)
    <3>1. /\ ch.bank[b].pkt \in Slots
          /\ Scheduled(At(ch, ch.bank[b].pkt))
          /\ BankOf[At(ch, ch.bank[b].pkt).addr] = b
          /\ b # ch.active => (ch.bank[b].pkt[1] = "WQ" <=> ch.write_mode)
      BY <1>1, <1>3, <2>1 DEF StageInv, PacketsOfBanks
    <3>2. b # d.active => b # ch.active
      BY <1>1, DramAssumption
    <3>. QED  BY <1>2, <1>3, <3>1, <3>2 DEF KeepsRequests
  <2>2. \A s \in Slots : Scheduled(At(d, s)) => \E b \in Bank : d.bank[b].valid /\ d.bank[b].pkt = s
    BY <1>1, <1>2, <1>3 DEF StageInv, PacketsOfBanks
  <2>3. d.active # NoBank => d.bank[d.active].valid
    BY <1>1, <1>3 DEF StageInv, PacketsOfBanks, ChannelType
  <2>. QED  BY <2>1, <2>2, <2>3 DEF PacketsOfBanks
<1>6. warmup => NothingWaits(d)
  BY <1>1, <1>2, <1>3 DEF StageInv, NothingWaits
<1>7. /\ OneSlotEach(d) /\ AllChecked(d) /\ NewUnscheduled(d)
      /\ Accounts(ch, d) /\ KeepsWrites(ch, d)
  BY <1>1, <1>4, SameRequestsKeeps
<1>. QED  BY <1>1, <1>5, <1>6, <1>7 DEF Handled, StageInv

LEMMA ScheduleRefreshKeeps ==
  ASSUME NEW ch, Handled(ch)
  PROVE  LET d == ScheduleRefresh(ch) IN
         Handled(d) /\ NeedsLate(d) /\ Accounts(ch, d) /\ KeepsWrites(ch, d)
<1>. PICK d : d = ScheduleRefresh(ch)
  OBVIOUS
<1>. PICK due : due = (ch.refresh_in = 0)
  OBVIOUS
<1>1. ch \in ChannelType /\ NotBoth(ch) /\ due \in BOOLEAN
  BY DEF Handled, StageInv
<1>. DEFINE new == [b \in Bank |-> Refreshed(ch.bank[b], due)]
            left == IF due THEN tREF ELSE ch.refresh_in
<1>2. d = [ch EXCEPT !.bank = new, !.refresh_in = left]
  BY <1>1 DEF ScheduleRefresh, ChannelType
<1>3. left \in Int
  BY <1>1, TimesAre DEF ChannelType
<1>4. \A b \in Bank : /\ new[b] \in BankType
                      /\ new[b].valid = ch.bank[b].valid /\ new[b].pkt = ch.bank[b].pkt
                      /\ ~(new[b].valid /\ new[b].under_refresh)
                      /\ new[b].need_refresh => new[b].valid
  <2>1. ASSUME NEW b \in Bank
        PROVE  /\ new[b] \in BankType
               /\ new[b].valid = ch.bank[b].valid /\ new[b].pkt = ch.bank[b].pkt
               /\ ~(new[b].valid /\ new[b].under_refresh)
               /\ new[b].need_refresh => new[b].valid
    <3>1. ch.bank[b] \in BankType /\ ~(ch.bank[b].valid /\ ch.bank[b].under_refresh)
      BY <1>1 DEF ChannelType, NotBoth
    <3>2. new[b] = Refreshed(ch.bank[b], due)
      OBVIOUS
    <3>. HIDE DEF new
    <3>. PICK x : x = ch.bank[b]
      OBVIOUS
    <3>3. x \in BankType /\ ~(x.valid /\ x.under_refresh) /\ due \in BOOLEAN
      BY <1>1, <3>1
    <3>. PICK r : r = Refreshed(x, due)
      OBVIOUS
    <3>4. /\ r \in BankType
          /\ r.valid = x.valid /\ r.pkt = x.pkt
          /\ ~(r.valid /\ r.under_refresh)
          /\ r.need_refresh => r.valid
      BY ONLY <3>3, r = Refreshed(x, due), RefreshedIs
    <3>. QED  BY <3>2, <3>4
  <2>. QED  BY <2>1
<1>5. new \in [Bank -> BankType]
  BY <1>4
<1>. HIDE DEF new, left
<1>6. /\ d \in ChannelType /\ d.bank = new /\ d.RQ = ch.RQ /\ d.WQ = ch.WQ
      /\ d.active = ch.active /\ d.write_mode = ch.write_mode /\ d.returned = ch.returned
  BY ONLY <1>1, <1>2, <1>3, <1>5 DEF ChannelType
<1>7. KeepsRequests(ch, d) /\ NotBoth(d) /\ NeedsLate(d)
  BY <1>1, <1>4, <1>6 DEF KeepsRequests, NotBoth, NeedsLate
<1>8. Handled(d) /\ NeedsLate(d) /\ Accounts(ch, d) /\ KeepsWrites(ch, d)
  BY <1>6, <1>7, RequestsKept
<1>. QED  BY ONLY <1>8, d = ScheduleRefresh(ch)

-----------------------------------------------------------------------------
(* populate_dbus and schedule_packet choose the first of finitely many banks *)
(* or slots in an order that leaves no two of them equal.                    *)
FirstBy(S, R) == CHOOSE x \in S : \A y \in S \ {x} : <<x, y>> \in R

LEMMA FirstByFound ==
  ASSUME NEW S, IsFiniteSet(S), S # {}, NEW R,
         \A x \in S : <<x, x>> \notin R,
         \A x, y \in S : x # y => <<x, y>> \in R \/ <<y, x>> \in R,
         \A x, y, z \in S : <<x, y>> \in R /\ <<y, z>> \in R => <<x, z>> \in R
  PROVE  \E x \in S : \A y \in S \ {x} : <<x, y>> \in R
<1>. DEFINE below == [x \in S |-> {y \in S : <<y, x>> \in R}]
            n == [x \in S |-> Cardinality(below[x])]
<1>1. \A x \in S : \A y : y \in below[x] <=> y \in S /\ <<y, x>> \in R
  OBVIOUS
<1>2. \A x \in S : n[x] = Cardinality(below[x])
  OBVIOUS
<1>. HIDE DEF below, n
<1>3. \A x \in S : below[x] \in SUBSET S
  BY <1>1
<1>4. \A x \in S : IsFiniteSet(below[x]) /\ n[x] \in Nat
  BY <1>2, <1>3, FS_Subset, FS_CardinalityType
<1>5. PICK x \in S : \A y \in S : n[x] <= n[y]
  <2>. DEFINE Ns == {n[x] : x \in S}
  <2>1. Ns \subseteq Nat /\ Ns # {}
    BY <1>4
  <2>2. \A y \in S : n[y] \in Ns
    OBVIOUS
  <2>3. \A m \in Ns : \E x \in S : m = n[x]
    OBVIOUS
  <2>. HIDE DEF Ns
  <2>4. FirstOf(Ns) \in Ns /\ \A m \in Ns : FirstOf(Ns) <= m
    BY <2>1, FirstFound
  <2>. QED  BY <2>2, <2>3, <2>4
<1>6. ASSUME NEW y \in S \ {x} PROVE <<x, y>> \in R
  <2>1. SUFFICES ASSUME <<y, x>> \in R PROVE FALSE
    OBVIOUS
  <2>2. y \in below[x] /\ y \notin below[y]
    BY <1>1, <2>1
  <2>3. \A z \in below[y] : z \in below[x]
    BY <1>1, <2>1
  <2>4. below[y] \in SUBSET below[x] /\ below[x] # below[y]
    BY <2>2, <2>3
  <2>5. n[y] <= n[x] /\ n[x] # n[y]
    BY <1>2, <1>4, <2>4, FS_Subset
  <2>. QED  BY <1>4, <1>5, <2>5
<1>. QED  BY <1>6

Ready(ch) == {b \in Bank : ch.bank[b].valid /\ ch.bank[b].ready_in <= 0}
FirstReady(ch, b) ==
  \A d \in Ready(ch) \ {b} :
     \/ ch.bank[b].ready_in < ch.bank[d].ready_in
     \/ ch.bank[b].ready_in = ch.bank[d].ready_in /\ b < d

LEMMA ReadyFound ==
  ASSUME NEW ch \in ChannelType, Ready(ch) # {}
  PROVE  \E b \in Ready(ch) : FirstReady(ch, b)
<1>. DEFINE S == Ready(ch)
            before(b, d) == \/ ch.bank[b].ready_in < ch.bank[d].ready_in
                            \/ ch.bank[b].ready_in = ch.bank[d].ready_in /\ b < d
            R == {p \in S \X S : before(p[1], p[2])}
<1>1. IsFiniteSet(S) /\ S \subseteq Bank /\ S \subseteq Nat
  BY FS_Subset, DramAssumption DEF Ready
<1>2. \A b \in S : ch.bank[b].ready_in \in Int /\ b \in Nat
  BY <1>1 DEF ChannelType, BankType
<1>3. \A b, d \in S : <<b, d>> \in R <=> before(b, d)
  OBVIOUS
<1>4. \A b \in S : ~before(b, b)
  BY <1>2
<1>5. \A b, d \in S : b # d => before(b, d) \/ before(d, b)
  BY <1>2
<1>6. \A b, d, e \in S : before(b, d) /\ before(d, e) => before(b, e)
  BY <1>2
<1>7. S # {}
  OBVIOUS
<1>8. /\ \A b \in S : <<b, b>> \notin R
      /\ \A b, d \in S : b # d => <<b, d>> \in R \/ <<d, b>> \in R
      /\ \A b, d, e \in S : <<b, d>> \in R /\ <<d, e>> \in R => <<b, e>> \in R
  <2>. HIDE DEF S, R, before
  <2>. QED  BY <1>3, <1>4, <1>5, <1>6
<1>. HIDE DEF S, R, before
<1>9. \E b \in S : \A d \in S \ {b} : <<b, d>> \in R
  BY <1>1, <1>7, <1>8, FirstByFound
<1>10. PICK b \in S : \A d \in S \ {b} : before(b, d)
  BY <1>3, <1>9
<1>. QED  BY <1>10 DEF FirstReady, S, before

LEMMA PopulateDbusKeeps ==
  ASSUME NEW ch, Handled(ch), NeedsLate(ch)
  PROVE  LET d == PopulateDbus(ch) IN
         Handled(d) /\ NeedsLate(d) /\ Accounts(ch, d) /\ KeepsWrites(ch, d)
<1>. PICK d : d = PopulateDbus(ch)
  OBVIOUS
<1>1. ch \in ChannelType /\ NotBoth(ch)
  BY DEF Handled, StageInv
<1>. DEFINE first == CHOOSE b \in Ready(ch) : FirstReady(ch, b)
<1>2. PopulateDbus(ch) =
        IF ch.active # NoBank \/ ch.dbus_in > 0 \/ Ready(ch) = {} THEN ch
        ELSE [ch EXCEPT !.active = first,
                        !.bank[first].ready_in = ch.group_in[GroupOf[first]] + DBUS_RETURN,
                        !.group_in[GroupOf[first]] = DBUS_RETURN + BANKGROUP_STALL]
  BY DEF PopulateDbus, Ready, FirstReady
<1>3. Ready(ch) # {} => first \in Ready(ch)
  BY <1>1, ReadyFound
<1>. PICK b : b = first
  OBVIOUS
<1>. HIDE DEF first
<1>4. CASE ch.active # NoBank \/ ch.dbus_in > 0 \/ Ready(ch) = {}
  BY <1>2, <1>4 DEF Accounts, KeepsWrites
<1>5. CASE ~(ch.active # NoBank \/ ch.dbus_in > 0 \/ Ready(ch) = {})
  <2>1. b \in Bank /\ ch.bank[b].valid /\ ch.bank[b] \in BankType
    BY <1>1, <1>3, <1>5 DEF Ready, ChannelType
  <2>. PICK t, g : t = ch.group_in[GroupOf[b]] + DBUS_RETURN /\ g = DBUS_RETURN + BANKGROUP_STALL
    OBVIOUS
  <2>. PICK group : group = GroupOf[b]
    OBVIOUS
  <2>2. group \in Group /\ t \in Int /\ g \in Int
    <3>1. group \in Group
      BY <2>1, DramAssumption
    <3>2. ch.group_in[group] \in Int
      BY <1>1, <3>1 DEF ChannelType
    <3>. QED  BY <3>1, <3>2, TimesAre
  <2>. PICK k : k = [ch.bank[b] EXCEPT !.ready_in = t]
    OBVIOUS
  <2>3. /\ k \in BankType /\ k.valid = ch.bank[b].valid /\ k.pkt = ch.bank[b].pkt
        /\ k.under_refresh = ch.bank[b].under_refresh /\ k.need_refresh = ch.bank[b].need_refresh
    BY <2>1, <2>2 DEF BankType
  <2>4. d = [ch EXCEPT !.active = b, !.bank = [ch.bank EXCEPT ![b] = k],
                       !.group_in = [ch.group_in EXCEPT ![group] = g]]
    <3>1. d = [ch EXCEPT !.active = b, !.bank[b].ready_in = t, !.group_in[group] = g]
      BY <1>2, <1>5
    <3>. QED  BY <1>1, <2>1, <3>1 DEF ChannelType
  <2>5. /\ d \in ChannelType /\ d.active = b /\ d.bank = [ch.bank EXCEPT ![b] = k]
        /\ d.RQ = ch.RQ /\ d.WQ = ch.WQ /\ d.write_mode = ch.write_mode
        /\ d.returned = ch.returned
    BY ONLY <1>1, <2>1, <2>2, <2>3, <2>4 DEF ChannelType
  <2>6. d.bank[b] = k /\ \A x \in Bank : x # b => d.bank[x] = ch.bank[x]
    BY <1>1, <2>1, <2>5 DEF ChannelType
  <2>7. KeepsRequests(ch, d) /\ NotBoth(d) /\ NeedsLate(d)
    BY <1>1, <2>3, <2>5, <2>6 DEF KeepsRequests, NotBoth, NeedsLate
  <2>8. ch.active = NoBank /\ d.bank[d.active].valid
    BY <1>5, <2>1, <2>3, <2>5, <2>6
  <2>9. Handled(d) /\ NeedsLate(d) /\ Accounts(ch, d) /\ KeepsWrites(ch, d)
    BY <2>7, <2>8, RequestsKept
  <2>. QED  BY ONLY <2>9, d = PopulateDbus(ch)
<1>. QED  BY <1>4, <1>5

-----------------------------------------------------------------------------
(* schedule_packet and service_packet.                                     *)
ModeQueue(ch) == IF ch.write_mode THEN "WQ" ELSE "RQ"
Waiting(ch) == {i \in 1..QueueSize(ModeQueue(ch)) : Waits(ch[ModeQueue(ch)][i])}
FirstWaiting(ch, i) == \A j \in Waiting(ch) \ {i} : Before(ch, ch[ModeQueue(ch)], i, j)

LEMMA WaitingFound ==
  ASSUME NEW ch \in ChannelType, Waiting(ch) # {}
  PROVE  \E i \in Waiting(ch) : FirstWaiting(ch, i)
<1>. PICK q, S : q = ModeQueue(ch) /\ S = Waiting(ch)
  OBVIOUS
<1>1. q \in Queues /\ S = {i \in 1..QueueSize(q) : Waits(ch[q][i])}
  BY DEF ModeQueue, Queues, Waiting
<1>2. ch[q] \in [1..QueueSize(q) -> SlotType \cup {Empty}] /\ QueueSize(q) \in Nat
  BY <1>1, QueueTyped, SizesAre DEF QueueSize
<1>. DEFINE late == [i \in S |-> ch.bank[BankOf[ch[q][i].addr]].valid]
            since == [i \in S |-> ch[q][i].since]
            before(i, j) == \/ ~late[i] /\ late[j]
                            \/ /\ late[i] <=> late[j]
                               /\ \/ since[i] < since[j]
                                  \/ since[i] = since[j] /\ i > j
            R == {p \in S \X S : before(p[1], p[2])}
<1>3. IsFiniteSet(S) /\ S \subseteq Nat /\ S # {}
  <2>1. IsFiniteSet(1..QueueSize(q)) /\ S \in SUBSET (1..QueueSize(q))
    BY <1>1, <1>2, FS_Interval
  <2>. QED  BY <1>2, <2>1, FS_Subset
<1>4. \A i \in S : since[i] \in Nat
  <2>1. \A i \in S : ch[q][i] \in SlotType
    BY <1>1, <1>2 DEF Waits
  <2>. QED  BY <2>1 DEF SlotType
<1>5. \A i, j \in S : before(i, j) <=> Before(ch, ch[q], i, j)
  <2>1. ASSUME NEW i \in S, NEW j \in S
        PROVE  before(i, j) <=> Before(ch, ch[q], i, j)
    <3>. PICK x, y : x = ch.bank[BankOf[ch[q][i].addr]].valid /\ y = ch.bank[BankOf[ch[q][j].addr]].valid
      OBVIOUS
    <3>1. x \in BOOLEAN /\ y \in BOOLEAN
      <4>1. \A k \in S : ch.bank[BankOf[ch[q][k].addr]].valid \in BOOLEAN
        <5>1. \A k \in S : ch[q][k] \in SlotType
          BY <1>1, <1>2 DEF Waits
        <5>2. \A k \in S : BankOf[ch[q][k].addr] \in Bank
          BY <5>1, DramAssumption DEF SlotType
        <5>. QED  BY <5>2 DEF ChannelType, BankType
      <4>. QED  BY <4>1
    <3>2. Before(ch, ch[q], i, j) <=>
            IF (~x) # (~y) THEN ~x
            ELSE ch[q][i].since < ch[q][j].since \/ (ch[q][i].since = ch[q][j].since /\ i > j)
      BY DEF Before
    <3>3. before(i, j) <=>
            \/ ~x /\ y
            \/ /\ x <=> y
               /\ ch[q][i].since < ch[q][j].since \/ (ch[q][i].since = ch[q][j].since /\ i > j)
      OBVIOUS
    <3>. HIDE DEF before
    <3>. QED  BY ONLY <3>1, <3>2, <3>3
  <2>. QED  BY <2>1
<1>6. /\ \A i \in S : ~before(i, i)
      /\ \A i, j \in S : i # j => before(i, j) \/ before(j, i)
      /\ \A i, j, k \in S : before(i, j) /\ before(j, k) => before(i, k)
  <2>1. \A i \in S : i \in Nat /\ since[i] \in Nat
    BY <1>3, <1>4
  <2>. HIDE DEF since, late
  <2>2. \A i \in S : ~before(i, i)
    BY ONLY <2>1
  <2>3. \A i, j \in S : i # j => before(i, j) \/ before(j, i)
    BY ONLY <2>1
  <2>4. \A i, j, k \in S : before(i, j) /\ before(j, k) => before(i, k)
    BY ONLY <2>1
  <2>. QED  BY ONLY <2>2, <2>3, <2>4
<1>7. \A i, j \in S : <<i, j>> \in R <=> before(i, j)
  <2>. HIDE DEF late, since, before
  <2>1. R = {p \in S \X S : before(p[1], p[2])}
    BY ONLY DEF R
  <2>. HIDE DEF R
  <2>. QED  BY ONLY <2>1
<1>8. /\ \A i \in S : <<i, i>> \notin R
      /\ \A i, j \in S : i # j => <<i, j>> \in R \/ <<j, i>> \in R
      /\ \A i, j, k \in S : <<i, j>> \in R /\ <<j, k>> \in R => <<i, k>> \in R
  <2>. HIDE DEF R, before
  <2>. QED  BY <1>6, <1>7
<1>. HIDE DEF R, before
<1>9. \E i \in S : \A j \in S \ {i} : <<i, j>> \in R
  <2>1. IsFiniteSet(S) /\ S # {}
    BY <1>3
  <2>. QED  BY ONLY <1>8, <2>1, FirstByFound
<1>10. PICK i \in S : \A j \in S \ {i} : Before(ch, ch[q], i, j)
  <2>1. PICK i \in S : \A j \in S \ {i} : <<i, j>> \in R
    BY <1>9
  <2>2. ASSUME NEW j \in S \ {i} PROVE Before(ch, ch[q], i, j)
    BY <1>5, <1>7, <2>1
  <2>. QED  BY <2>2
<1>. QED  BY <1>10 DEF FirstWaiting

LEMMA NextPacketIs ==
  ASSUME NEW ch \in ChannelType, NextPacket(ch) # NoSlot
  PROVE  LET s == NextPacket(ch) IN
         /\ s \in Slots /\ Waits(At(ch, s)) /\ (s[1] = "WQ" <=> ch.write_mode)
<1>. PICK q : q = ModeQueue(ch)
  OBVIOUS
<1>. DEFINE i == CHOOSE i \in Waiting(ch) : FirstWaiting(ch, i)
<1>1. q \in Queues /\ (q = "WQ" <=> ch.write_mode)
  BY DEF ModeQueue, Queues
<1>2. DOMAIN ch[q] = 1..QueueSize(q)
  BY <1>1, QueueTyped
<1>3. NextPacket(ch) = IF Waiting(ch) = {} THEN NoSlot ELSE <<q, i>>
  BY <1>2 DEF NextPacket, Waiting, FirstWaiting, ModeQueue
<1>4. Waiting(ch) # {} /\ i \in Waiting(ch)
  BY <1>3, WaitingFound
<1>. HIDE DEF i
<1>5. i \in 1..QueueSize(q) /\ Waits(ch[q][i])
  BY <1>4 DEF Waiting
<1>6. <<q, i>> \in Slots /\ At(ch, <<q, i>>) = ch[q][i]
  BY <1>1, <1>5, SlotOf DEF At
<1>7. /\ NextPacket(ch) = <<q, i>> /\ <<q, i>> \in Slots /\ Waits(At(ch, <<q, i>>))
      /\ <<q, i>>[1] = "WQ" <=> ch.write_mode
  BY <1>1, <1>3, <1>4, <1>5, <1>6
<1>. QED  BY <1>7

Serves(ch) == NextPacket(ch) # NoSlot /\ Free(ch.bank[BankOf[At(ch, NextPacket(ch)).addr]])

(* Request s of bank b is served.                                          *)
Serviced(ch, d, s, b) ==
  /\ s \in Slots /\ Waits(At(ch, s)) /\ (s[1] = "WQ" <=> ch.write_mode)
  /\ b \in Bank /\ b = BankOf[At(ch, s).addr] /\ ~ch.bank[b].valid
  /\ d \in ChannelType
  /\ d.active = ch.active /\ d.write_mode = ch.write_mode /\ d.returned = ch.returned
  /\ \A x \in Bank : x # b => d.bank[x] = ch.bank[x]
  /\ d.bank[b].valid /\ d.bank[b].pkt = s
  /\ ~d.bank[b].under_refresh /\ ~d.bank[b].need_refresh
  /\ At(d, s) = [At(ch, s) EXCEPT !.scheduled = TRUE, !.since = 0]
  /\ \A t \in Slots : t # s => At(d, t) = At(ch, t)

LEMMA ServiceIs ==
  ASSUME NEW ch, StageInv(ch), Serves(ch)
  PROVE  \E s, b : Serviced(ch, ServicePacket(ch), s, b)
<1>. PICK d, s : d = ServicePacket(ch) /\ s = NextPacket(ch)
  OBVIOUS
<1>. PICK x : x = At(ch, s)
  OBVIOUS
<1>. PICK b : b = BankOf[x.addr]
  OBVIOUS
<1>1. ch \in ChannelType /\ s # NoSlot /\ Free(ch.bank[b])
  BY DEF StageInv, Serves
<1>2. s \in Slots /\ Waits(x) /\ (s[1] = "WQ" <=> ch.write_mode)
  BY <1>1, NextPacketIs
<1>3. x \in SlotType
  BY <1>1, <1>2, SlotTyped DEF Waits
<1>4. b \in Bank /\ ch.bank[b] \in BankType /\ ~ch.bank[b].valid
  <2>1. b \in Bank
    BY <1>3, DramAssumption DEF SlotType
  <2>. QED  BY <1>1, <2>1 DEF ChannelType, Free
<1>. PICK row, r : row = RowOf[x.addr] /\ r = tCAS +
             (IF ch.bank[b].open_row = NoRow THEN tRCD
              ELSE IF ch.bank[b].open_row = RowOf[x.addr] THEN 0 ELSE tRP + tRCD)
  OBVIOUS
<1>5. row \in Row /\ r \in Int
  <2>1. row \in Row
    BY <1>3, DramAssumption DEF SlotType
  <2>. QED  BY <2>1, TimesAre
<1>. PICK y : y = [x EXCEPT !.scheduled = TRUE, !.since = 0]
  OBVIOUS
<1>6. y \in SlotType \cup {Empty}
  BY <1>3 DEF SlotType
<1>. PICK k : k = [valid |-> TRUE, need_refresh |-> FALSE, under_refresh |-> FALSE,
                   open_row |-> row, ready_in |-> r, pkt |-> s]
  OBVIOUS
<1>7. /\ k \in BankType /\ k.valid /\ k.pkt = s /\ ~k.under_refresh /\ ~k.need_refresh
  BY <1>2, <1>5 DEF BankType
<1>. PICK e : e = Put(ch, s, y)
  OBVIOUS
<1>8. /\ e \in ChannelType
      /\ e.bank = ch.bank /\ e.active = ch.active /\ e.write_mode = ch.write_mode
      /\ e.returned = ch.returned
      /\ At(e, s) = y /\ \A t \in Slots : t # s => At(e, t) = At(ch, t)
  BY <1>1, <1>2, <1>6, PutIs
<1>9. d = [e EXCEPT !.bank = [e.bank EXCEPT ![b] = k]]
  <2>1. d = [e EXCEPT !.bank[b] = k]
    BY <1>1 DEF ServicePacket
  <2>. QED  BY <2>1
<1>10. /\ d \in ChannelType /\ d.bank = [ch.bank EXCEPT ![b] = k]
       /\ d.RQ = e.RQ /\ d.WQ = e.WQ
       /\ d.active = ch.active /\ d.write_mode = ch.write_mode /\ d.returned = ch.returned
  BY ONLY <1>4, <1>7, <1>8, <1>9 DEF ChannelType
<1>11. d.bank[b] = k /\ \A z \in Bank : z # b => d.bank[z] = ch.bank[z]
  BY <1>1, <1>4, <1>10 DEF ChannelType
<1>12. \A t \in Slots : At(d, t) = At(e, t)
  BY <1>10, SameQueues
<1>13. Serviced(ch, d, s, b)
  <2>1. At(d, s) = [At(ch, s) EXCEPT !.scheduled = TRUE, !.since = 0]
    BY <1>2, <1>8, <1>12
  <2>2. \A t \in Slots : t # s => At(d, t) = At(ch, t)
    BY ONLY <1>8, <1>12
  <2>3. s \in Slots /\ Waits(At(ch, s)) /\ b = BankOf[At(ch, s).addr]
    BY <1>2
  <2>. QED  BY ONLY <1>2, <1>4, <1>7, <1>10, <1>11, <2>1, <2>2, <2>3 DEF Serviced
<1>. QED  BY <1>13

LEMMA ServicePacketKeeps ==
  ASSUME NEW ch, Handled(ch), NeedsLate(ch)
  PROVE  LET d == ServicePacket(ch) IN
         Handled(d) /\ NeedsLate(d) /\ Accounts(ch, d) /\ KeepsWrites(ch, d)
<1>. PICK d : d = ServicePacket(ch)
  OBVIOUS
<1>1. ch \in ChannelType /\ StageInv(ch) /\ OneSlotEach(ch) /\ AllChecked(ch)
  BY DEF Handled, StageInv
<1>2. CASE ~Serves(ch)
  BY <1>2 DEF Serves, ServicePacket, Accounts, KeepsWrites
<1>3. CASE Serves(ch)
  <2>. PICK s, b : Serviced(ch, d, s, b)
    BY <1>1, <1>3, ServiceIs
  <2>1. /\ s \in Slots /\ Waits(At(ch, s)) /\ (s[1] = "WQ" <=> ch.write_mode)
        /\ b \in Bank /\ b = BankOf[At(ch, s).addr] /\ ~ch.bank[b].valid
        /\ d \in ChannelType
        /\ d.active = ch.active /\ d.write_mode = ch.write_mode /\ d.returned = ch.returned
        /\ \A x \in Bank : x # b => d.bank[x] = ch.bank[x]
        /\ d.bank[b].valid /\ d.bank[b].pkt = s
        /\ ~d.bank[b].under_refresh /\ ~d.bank[b].need_refresh
        /\ At(d, s) = [At(ch, s) EXCEPT !.scheduled = TRUE, !.since = 0]
        /\ \A t \in Slots : t # s => At(d, t) = At(ch, t)
    BY ONLY Serviced(ch, d, s, b) DEF Serviced
  <2>2. /\ At(ch, s) \in SlotType /\ ~At(ch, s).scheduled /\ At(ch, s) # Empty
    BY <1>1, <2>1, SlotTyped DEF Waits
  <2>3. /\ At(d, s) # Empty /\ At(d, s).scheduled
        /\ At(d, s).addr = At(ch, s).addr /\ At(d, s).checked = At(ch, s).checked
        /\ At(d, s).deps = At(ch, s).deps /\ At(d, s).wanted = At(ch, s).wanted
    <3>. PICK x : x = At(ch, s)
      OBVIOUS
    <3>. PICK y : y = [x EXCEPT !.scheduled = TRUE, !.since = 0]
      OBVIOUS
    <3>1. /\ y \in SlotType /\ y.scheduled
          /\ y.addr = x.addr /\ y.checked = x.checked /\ y.deps = x.deps /\ y.wanted = x.wanted
      <4>1. x \in SlotType
        BY <2>2
      <4>. QED  BY ONLY <4>1, y = [x EXCEPT !.scheduled = TRUE, !.since = 0] DEF SlotType
    <3>2. y # Empty
      BY <3>1, DramAssumption
    <3>. QED  BY <2>1, <3>1, <3>2
  <2>4. SameRequests(ch, d)
    BY <1>1, <2>1, <2>2, <2>3 DEF SameRequests
  <2>5. PacketsOfBanks(d)
    <3>1. ASSUME NEW x \in Bank, d.bank[x].valid
          PROVE  /\ d.bank[x].pkt \in Slots
                 /\ Scheduled(At(d, d.bank[x].pkt))
                 /\ BankOf[At(d, d.bank[x].pkt).addr] = x
                 /\ x # d.active => (d.bank[x].pkt[1] = "WQ" <=> d.write_mode)
      <4>1. CASE x = b
        <5>1. Scheduled(At(d, s)) /\ BankOf[At(d, s).addr] = b
          BY <2>1, <2>3 DEF Scheduled
        <5>. QED  BY <2>1, <4>1, <5>1
      <4>2. CASE x # b
        <5>1. /\ d.bank[x] = ch.bank[x] /\ ch.bank[x].pkt \in Slots
              /\ Scheduled(At(ch, ch.bank[x].pkt))
              /\ BankOf[At(ch, ch.bank[x].pkt).addr] = x
              /\ x # ch.active => (ch.bank[x].pkt[1] = "WQ" <=> ch.write_mode)
          BY <1>1, <2>1, <3>1, <4>2 DEF StageInv, PacketsOfBanks
        <5>2. ch.bank[x].pkt # s
          BY <2>2, <5>1 DEF Scheduled
        <5>. QED  BY <2>1, <5>1, <5>2
      <4>. QED  BY <4>1, <4>2
    <3>2. ASSUME NEW t \in Slots, Scheduled(At(d, t))
          PROVE  \E x \in Bank : d.bank[x].valid /\ d.bank[x].pkt = t
      <4>1. CASE t = s
        BY <2>1, <4>1
      <4>2. CASE t # s
        <5>1. PICK x \in Bank : ch.bank[x].valid /\ ch.bank[x].pkt = t
          BY <1>1, <2>1, <3>2, <4>2 DEF StageInv, PacketsOfBanks
        <5>. QED  BY <2>1, <5>1
      <4>. QED  BY <4>1, <4>2
    <3>3. d.active # NoBank => d.bank[d.active].valid
      <4>1. ch.active # NoBank => ch.active \in Bank /\ ch.bank[ch.active].valid
        BY <1>1 DEF StageInv, PacketsOfBanks, ChannelType
      <4>. QED  BY <2>1, <4>1
    <3>. QED  BY <3>1, <3>2, <3>3 DEF PacketsOfBanks
  <2>6. NotBoth(d) /\ NeedsLate(d)
    BY <1>1, <2>1 DEF StageInv, NotBoth, NeedsLate
  <2>7. ~warmup
    BY <1>1, <2>1, <2>2 DEF StageInv, NothingWaits
  <2>8. /\ OneSlotEach(d) /\ AllChecked(d) /\ NewUnscheduled(d)
        /\ Accounts(ch, d) /\ KeepsWrites(ch, d)
    BY <1>1, <2>4, SameRequestsKeeps
  <2>9. Handled(d) /\ NeedsLate(d) /\ Accounts(ch, d) /\ KeepsWrites(ch, d)
    BY <2>1, <2>5, <2>6, <2>7, <2>8 DEF Handled, StageInv
  <2>. QED  BY ONLY <2>9, d = ServicePacket(ch)
<1>. QED  BY <1>2, <1>3

-----------------------------------------------------------------------------
(* The end of a cycle: times are counted anew, and what was answered leaves. *)
LEMMA RankIsNat ==
  ASSUME NEW S, IsFiniteSet(S), NEW t
  PROVE  Rank(t, S) \in Nat
<1>1. {u \in S : u < t} \in SUBSET S
  OBVIOUS
<1>. QED  BY <1>1, FS_Subset, FS_CardinalityType DEF Rank

LEMMA ImageIsFinite ==
  ASSUME NEW S, IsFiniteSet(S), NEW f, DOMAIN f = S, f = [x \in S |-> f[x]],
         NEW T, \A t : t \in T <=> \E x \in S : t = f[x]
  PROVE  IsFiniteSet(T)
<1>1. f \in [S -> T]
  OBVIOUS
<1>2. f \in Surjection(S, T)
  BY <1>1 DEF Surjection
<1>. QED  BY <1>2, FS_Surjection

(* A queue in which only the times since when requests wait are others.      *)
TimesOnly(n, queue, new) ==
  /\ new \in [1..n -> SlotType \cup {Empty}]
  /\ \A i \in 1..n :
       \/ new[i] = queue[i]
       \/ queue[i] \in SlotType /\ \E t \in Nat : new[i] = [queue[i] EXCEPT !.since = t]

LEMMA NormalQueueIs ==
  ASSUME NEW n \in Nat, NEW queue \in [1..n -> SlotType \cup {Empty}]
  PROVE  TimesOnly(n, queue, NormalQueue(queue))
<1>. DEFINE W == {j \in 1..n : Waits(queue[j])}
            times == {queue[i].since : i \in W}
<1>1. DOMAIN queue = 1..n
  OBVIOUS
<1>2. IsFiniteSet(times)
  <2>1. IsFiniteSet(1..n) /\ W \in SUBSET (1..n)
    BY FS_Interval
  <2>2. IsFiniteSet(W)
    BY <2>1, FS_Subset
  <2>. DEFINE f == [i \in W |-> queue[i].since]
  <2>3. DOMAIN f = W /\ f = [i \in W |-> f[i]]
    OBVIOUS
  <2>4. \A t : t \in times <=> \E i \in W : t = f[i]
    OBVIOUS
  <2>. HIDE DEF W, f, times
  <2>. QED  BY <2>2, <2>3, <2>4, ImageIsFinite
<1>3. NormalQueue(queue) = [i \in 1..n |->
         IF Waits(queue[i]) THEN [queue[i] EXCEPT !.since = Rank(queue[i].since, times)] ELSE queue[i]]
  BY <1>1 DEF NormalQueue
<1>. HIDE DEF times
<1>4. ASSUME NEW i \in 1..n
      PROVE  /\ NormalQueue(queue)[i] \in SlotType \cup {Empty}
             /\ \/ NormalQueue(queue)[i] = queue[i]
                \/ /\ queue[i] \in SlotType
                   /\ \E t \in Nat : NormalQueue(queue)[i] = [queue[i] EXCEPT !.since = t]
  <2>1. CASE ~Waits(queue[i])
    BY <1>3, <2>1
  <2>2. CASE Waits(queue[i])
    <3>. PICK t : t = Rank(queue[i].since, times)
      OBVIOUS
    <3>. PICK x : x = queue[i]
      OBVIOUS
    <3>1. t \in Nat
      BY <1>2, RankIsNat
    <3>2. x \in SlotType
      BY <2>2 DEF Waits
    <3>3. NormalQueue(queue)[i] = [x EXCEPT !.since = t]
      BY <1>3, <2>2
    <3>4. [x EXCEPT !.since = t] \in SlotType
      BY ONLY <3>1, <3>2 DEF SlotType
    <3>. QED  BY <3>1, <3>2, <3>3, <3>4
  <2>. QED  BY <2>1, <2>2
<1>5. NormalQueue(queue) \in [1..n -> SlotType \cup {Empty}]
  BY <1>3, <1>4
<1>. QED  BY <1>4, <1>5 DEF TimesOnly

LEMMA NormalBanksIs ==
  ASSUME NEW bank \in [Bank -> BankType]
  PROVE  /\ NormalBanks(bank) \in [Bank -> BankType]
         /\ \A b \in Bank :
              /\ NormalBanks(bank)[b].valid = bank[b].valid
              /\ NormalBanks(bank)[b].pkt = bank[b].pkt
              /\ NormalBanks(bank)[b].under_refresh = bank[b].under_refresh
              /\ NormalBanks(bank)[b].need_refresh = bank[b].need_refresh
<1>. DEFINE L == {x \in Bank : bank[x].valid /\ bank[x].ready_in < 0}
            late == {bank[b].ready_in : b \in L}
<1>1. IsFiniteSet(late)
  <2>1. IsFiniteSet(Bank) /\ L \in SUBSET Bank
    BY DramAssumption
  <2>2. IsFiniteSet(L)
    BY <2>1, FS_Subset
  <2>. DEFINE f == [b \in L |-> bank[b].ready_in]
  <2>3. DOMAIN f = L /\ f = [b \in L |-> f[b]]
    OBVIOUS
  <2>4. \A t : t \in late <=> \E b \in L : t = f[b]
    OBVIOUS
  <2>. HIDE DEF L, f, late
  <2>. QED  BY <2>2, <2>3, <2>4, ImageIsFinite
<1>2. NormalBanks(bank) = [b \in Bank |->
         IF ~bank[b].valid /\ ~bank[b].under_refresh THEN [bank[b] EXCEPT !.ready_in = 0]
         ELSE IF bank[b].ready_in >= 0 THEN bank[b]
         ELSE [bank[b] EXCEPT !.ready_in = Rank(bank[b].ready_in, late) - Cardinality(late)]]
  BY DEF NormalBanks
<1>. HIDE DEF late
<1>3. ASSUME NEW b \in Bank
      PROVE  /\ NormalBanks(bank)[b] \in BankType
             /\ NormalBanks(bank)[b].valid = bank[b].valid
             /\ NormalBanks(bank)[b].pkt = bank[b].pkt
             /\ NormalBanks(bank)[b].under_refresh = bank[b].under_refresh
             /\ NormalBanks(bank)[b].need_refresh = bank[b].need_refresh
  <2>. PICK x : x = bank[b]
    OBVIOUS
  <2>. PICK r : r = Rank(x.ready_in, late) - Cardinality(late)
    OBVIOUS
  <2>1. x \in BankType
    OBVIOUS
  <2>2. r \in Int
    <3>1. Rank(x.ready_in, late) \in Nat /\ Cardinality(late) \in Nat
      BY <1>1, RankIsNat, FS_CardinalityType
    <3>. QED  BY <3>1
  <2>3. \/ NormalBanks(bank)[b] = x
        \/ NormalBanks(bank)[b] = [x EXCEPT !.ready_in = 0]
        \/ NormalBanks(bank)[b] = [x EXCEPT !.ready_in = r]
    BY <1>2
  <2>4. \A t \in Int :
          /\ [x EXCEPT !.ready_in = t] \in BankType
          /\ [x EXCEPT !.ready_in = t].valid = x.valid
          /\ [x EXCEPT !.ready_in = t].pkt = x.pkt
          /\ [x EXCEPT !.ready_in = t].under_refresh = x.under_refresh
          /\ [x EXCEPT !.ready_in = t].need_refresh = x.need_refresh
    BY ONLY <2>1 DEF BankType
  <2>. PICK y : y = NormalBanks(bank)[b]
    OBVIOUS
  <2>5. /\ y \in BankType
        /\ y.valid = x.valid /\ y.pkt = x.pkt
        /\ y.under_refresh = x.under_refresh /\ y.need_refresh = x.need_refresh
    <3>1. CASE y = x
      BY ONLY <2>1, <3>1
    <3>2. CASE y # x
      <4>1. \E t \in Int : y = [x EXCEPT !.ready_in = t]
        BY <2>2, <2>3, <3>2
      <4>. QED  BY ONLY <2>4, <4>1
    <3>. QED  BY <3>1, <3>2
  <2>. QED  BY <2>5
<1>4. NormalBanks(bank) \in [Bank -> BankType]
  BY <1>2, <1>3
<1>. QED  BY <1>3, <1>4

(* Before the next cycle, or an arrival.                                     *)
Rests(ch) ==
  /\ ch \in ChannelType
  /\ PacketsOfBanks(ch) /\ NewUnscheduled(ch) /\ NotBoth(ch) /\ NeedsLate(ch)
  /\ OneSlotEach(ch) /\ ch.returned = {}
  /\ warmup => \A b \in Bank : ~ch.bank[b].valid

NormalEnd(ch) ==
  [ch EXCEPT !.returned = {}, !.bank = NormalBanks(@), !.RQ = NormalQueue(@), !.WQ = NormalQueue(@)]

LEMMA NormalEndKeeps ==
  ASSUME NEW ch, Handled(ch), NeedsLate(ch)
  PROVE  LET d == NormalEnd(ch) IN
         /\ Rests(d)
         /\ \A x : x \in IdsOf(d.RQ) <=> x \in IdsOf(ch.RQ)
         /\ KeepsWrites(ch, d)
<1>. PICK d : d = NormalEnd(ch)
  OBVIOUS
<1>1. ch \in ChannelType /\ StageInv(ch) /\ OneSlotEach(ch) /\ AllChecked(ch)
  BY DEF Handled, StageInv
<1>. PICK bank : bank = NormalBanks(ch.bank)
  OBVIOUS
<1>. PICK rq : rq = NormalQueue(ch.RQ)
  OBVIOUS
<1>. PICK wq : wq = NormalQueue(ch.WQ)
  OBVIOUS
<1>2. /\ bank \in [Bank -> BankType]
      /\ \A b \in Bank : /\ bank[b].valid = ch.bank[b].valid
                         /\ bank[b].pkt = ch.bank[b].pkt
                         /\ bank[b].under_refresh = ch.bank[b].under_refresh
                         /\ bank[b].need_refresh = ch.bank[b].need_refresh
  <2>1. ch.bank \in [Bank -> BankType]
    BY <1>1 DEF ChannelType
  <2>. QED  BY <2>1, NormalBanksIs
<1>3. TimesOnly(RQ_SIZE, ch.RQ, rq) /\ rq \in [1..RQ_SIZE -> SlotType \cup {Empty}]
  <2>1. ch.RQ \in [1..RQ_SIZE -> SlotType \cup {Empty}] /\ RQ_SIZE \in Nat
    BY <1>1, SizesAre DEF ChannelType
  <2>2. TimesOnly(RQ_SIZE, ch.RQ, NormalQueue(ch.RQ))
    BY ONLY <2>1, NormalQueueIs
  <2>. QED  BY ONLY <2>2, rq = NormalQueue(ch.RQ) DEF TimesOnly
<1>4. TimesOnly(WQ_SIZE, ch.WQ, wq) /\ wq \in [1..WQ_SIZE -> SlotType \cup {Empty}]
  <2>1. ch.WQ \in [1..WQ_SIZE -> SlotType \cup {Empty}] /\ WQ_SIZE \in Nat
    BY <1>1, SizesAre DEF ChannelType
  <2>2. TimesOnly(WQ_SIZE, ch.WQ, NormalQueue(ch.WQ))
    BY ONLY <2>1, NormalQueueIs
  <2>. QED  BY ONLY <2>2, wq = NormalQueue(ch.WQ) DEF TimesOnly
<1>. PICK e : e = [ch EXCEPT !.bank = bank, !.RQ = rq, !.WQ = wq]
  OBVIOUS
<1>5. /\ e \in ChannelType /\ e.bank = bank /\ e.RQ = rq /\ e.WQ = wq
      /\ e.active = ch.active /\ e.write_mode = ch.write_mode /\ e.returned = ch.returned
  BY ONLY <1>1, <1>2, <1>3, <1>4, e = [ch EXCEPT !.bank = bank, !.RQ = rq, !.WQ = wq] DEF ChannelType
<1>6. /\ d \in ChannelType /\ d.bank = bank /\ d.RQ = rq /\ d.WQ = wq
      /\ d.active = ch.active /\ d.write_mode = ch.write_mode /\ d.returned = {}
  <2>1. d = [ch EXCEPT !.returned = {}, !.bank = bank, !.RQ = rq, !.WQ = wq]
    BY DEF NormalEnd
  <2>. QED  BY ONLY <1>1, <1>2, <1>3, <1>4, <2>1 DEF ChannelType
<1>7. \A s \in Slots :
        \/ At(e, s) = At(ch, s)
        \/ At(ch, s) \in SlotType /\ \E t \in Nat : At(e, s) = [At(ch, s) EXCEPT !.since = t]
  <2>1. ASSUME NEW s \in Slots
        PROVE  \/ At(e, s) = At(ch, s)
               \/ At(ch, s) \in SlotType /\ \E t \in Nat : At(e, s) = [At(ch, s) EXCEPT !.since = t]
    <3>. PICK q, i : q = s[1] /\ i = s[2]
      OBVIOUS
    <3>1. q \in Queues /\ i \in 1..QueueSize(q)
      BY SlotParts
    <3>2. \/ e[q][i] = ch[q][i]
          \/ ch[q][i] \in SlotType /\ \E t \in Nat : e[q][i] = [ch[q][i] EXCEPT !.since = t]
      <4>1. CASE q = "RQ"
        <5>1. i \in 1..RQ_SIZE /\ e[q][i] = rq[i] /\ ch[q][i] = ch.RQ[i]
          BY <1>5, <3>1, <4>1 DEF QueueSize
        <5>. QED  BY ONLY <1>3, <5>1 DEF TimesOnly
      <4>2. CASE q = "WQ"
        <5>1. i \in 1..WQ_SIZE /\ e[q][i] = wq[i] /\ ch[q][i] = ch.WQ[i]
          BY <1>5, <3>1, <4>2 DEF QueueSize
        <5>. QED  BY ONLY <1>4, <5>1 DEF TimesOnly
      <4>. QED  BY <3>1, <4>1, <4>2 DEF Queues
    <3>. QED  BY <3>2 DEF At
  <2>. QED  BY <2>1
<1>8. \A x \in SlotType : \A t \in Nat :
        /\ [x EXCEPT !.since = t] # Empty /\ x # Empty
        /\ [x EXCEPT !.since = t].scheduled = x.scheduled
        /\ [x EXCEPT !.since = t].addr = x.addr /\ [x EXCEPT !.since = t].checked = x.checked
        /\ [x EXCEPT !.since = t].deps = x.deps /\ [x EXCEPT !.since = t].wanted = x.wanted
  <2>1. \A x \in SlotType : \A t \in Nat : [x EXCEPT !.since = t] \in SlotType
    BY DEF SlotType
  <2>2. Empty \notin SlotType
    BY DramAssumption
  <2>3. \A x \in SlotType : \A t \in Nat :
          /\ [x EXCEPT !.since = t].scheduled = x.scheduled
          /\ [x EXCEPT !.since = t].addr = x.addr /\ [x EXCEPT !.since = t].checked = x.checked
          /\ [x EXCEPT !.since = t].deps = x.deps /\ [x EXCEPT !.since = t].wanted = x.wanted
    BY DEF SlotType
  <2>. QED  BY ONLY <2>1, <2>2, <2>3
<1>9. \A s \in Slots :
        /\ At(e, s) # Empty <=> At(ch, s) # Empty
        /\ At(ch, s) # Empty =>
             /\ At(e, s).scheduled = At(ch, s).scheduled
             /\ At(e, s).addr = At(ch, s).addr /\ At(e, s).checked = At(ch, s).checked
             /\ At(e, s).deps = At(ch, s).deps /\ At(e, s).wanted = At(ch, s).wanted
  <2>1. ASSUME NEW s \in Slots
        PROVE  /\ At(e, s) # Empty <=> At(ch, s) # Empty
               /\ At(ch, s) # Empty =>
                    /\ At(e, s).scheduled = At(ch, s).scheduled
                    /\ At(e, s).addr = At(ch, s).addr /\ At(e, s).checked = At(ch, s).checked
                    /\ At(e, s).deps = At(ch, s).deps /\ At(e, s).wanted = At(ch, s).wanted
    <3>. PICK x, y : x = At(ch, s) /\ y = At(e, s)
      OBVIOUS
    <3>1. CASE y = x
      BY <3>1
    <3>2. CASE y # x
      <4>1. PICK t \in Nat : x \in SlotType /\ y = [x EXCEPT !.since = t]
        BY <1>7, <3>2
      <4>2. /\ y # Empty /\ x # Empty /\ y.scheduled = x.scheduled
            /\ y.addr = x.addr /\ y.checked = x.checked /\ y.deps = x.deps /\ y.wanted = x.wanted
        BY ONLY <1>8, <4>1, t \in Nat
      <4>. QED  BY <4>2
    <3>. QED  BY <3>1, <3>2
  <2>. QED  BY <2>1
<1>10. SameRequests(ch, e)
  BY ONLY <1>1, <1>5, <1>9 DEF SameRequests
<1>11. /\ OneSlotEach(e) /\ NewUnscheduled(e) /\ Accounts(ch, e) /\ KeepsWrites(ch, e)
  BY <1>1, <1>10, SameRequestsKeeps
<1>12. \A s \in Slots : At(d, s) = At(e, s)
  BY ONLY <1>5, <1>6, SameQueues
<1>13. OneSlotEach(d)
  BY <1>6, <1>11, <1>12 DEF OneSlotEach
<1>14. NewUnscheduled(d)
  BY <1>11, <1>12 DEF NewUnscheduled
<1>15. PacketsOfBanks(d)
  <2>1. \A s \in Slots : /\ Scheduled(At(d, s)) <=> Scheduled(At(ch, s))
                         /\ Scheduled(At(ch, s)) => At(d, s).addr = At(ch, s).addr
    BY <1>9, <1>12 DEF Scheduled
  <2>2. \A b \in Bank : d.bank[b].valid = ch.bank[b].valid /\ d.bank[b].pkt = ch.bank[b].pkt
    BY <1>2, <1>6
  <2>3. ASSUME NEW b \in Bank, d.bank[b].valid
        PROVE  /\ d.bank[b].pkt \in Slots
               /\ Scheduled(At(d, d.bank[b].pkt))
               /\ BankOf[At(d, d.bank[b].pkt).addr] = b
               /\ b # d.active => (d.bank[b].pkt[1] = "WQ" <=> d.write_mode)
    <3>1. /\ ch.bank[b].pkt \in Slots
          /\ Scheduled(At(ch, ch.bank[b].pkt))
          /\ BankOf[At(ch, ch.bank[b].pkt).addr] = b
          /\ b # ch.active => (ch.bank[b].pkt[1] = "WQ" <=> ch.write_mode)
      BY <1>1, <2>2, <2>3 DEF StageInv, PacketsOfBanks
    <3>. QED  BY <1>6, <2>1, <2>2, <3>1
  <2>4. \A s \in Slots : Scheduled(At(d, s)) => \E b \in Bank : d.bank[b].valid /\ d.bank[b].pkt = s
    BY <1>1, <2>1, <2>2 DEF StageInv, PacketsOfBanks
  <2>5. d.active # NoBank => d.bank[d.active].valid
    <3>1. ch.active # NoBank => ch.active \in Bank /\ ch.bank[ch.active].valid
      BY <1>1 DEF StageInv, PacketsOfBanks, ChannelType
    <3>. QED  BY <1>6, <2>2, <3>1
  <2>. QED  BY <2>3, <2>4, <2>5 DEF PacketsOfBanks
<1>16. NotBoth(d) /\ NeedsLate(d) /\ (warmup => \A b \in Bank : ~d.bank[b].valid)
  BY <1>1, <1>2, <1>6 DEF StageInv, NotBoth, NeedsLate, NothingWaits
<1>17. Rests(d)
  BY <1>6, <1>13, <1>14, <1>15, <1>16 DEF Rests
<1>18. \A x : x \in IdsOf(d.RQ) <=> x \in IdsOf(ch.RQ)
  <2>1. \A x : x \in IdsOf(d.RQ) <=> \E t \in Slots : At(d, t) # Empty /\ x \in At(d, t).deps
    BY <1>6, <1>13, IdsAre
  <2>2. \A x : x \in IdsOf(ch.RQ) <=> \E t \in Slots : At(ch, t) # Empty /\ x \in At(ch, t).deps
    BY <1>1, IdsAre
  <2>3. \A t \in Slots : /\ At(d, t) # Empty <=> At(ch, t) # Empty
                         /\ At(ch, t) # Empty => At(d, t).deps = At(ch, t).deps
    BY <1>9, <1>12
  <2>. QED  BY ONLY <2>1, <2>2, <2>3
<1>19. KeepsWrites(ch, d)
  <2>1. d.WQ = e.WQ
    BY <1>5, <1>6
  <2>2. WriteBlocks(d) = WriteBlocks(e)
    BY ONLY <2>1 DEF WriteBlocks
  <2>. QED  BY <1>11, <2>2 DEF KeepsWrites
<1>20. /\ Rests(d)
       /\ \A x : x \in IdsOf(d.RQ) <=> x \in IdsOf(ch.RQ)
       /\ KeepsWrites(ch, d)
  BY <1>17, <1>18, <1>19
<1>. QED  BY ONLY <1>20, d = NormalEnd(ch)

(* The handlers of a cycle, up to its end.                                   *)
Worked(ch) ==
  ServicePacket(PopulateDbus(ScheduleRefresh(SwapWriteMode(Finish(CheckReadCollision(
    CheckWriteCollision(WarmupAnswers(Tick(ch)))))))))

(* What a warmup phase answers, or the requests as they were.                *)
LEMMA TickedKeeps ==
  ASSUME NEW ch, Rests(ch)
  PROVE  LET d == WarmupAnswers(Tick(ch)) IN
         /\ StageInv(d) /\ OneSlotEach(d) /\ Accounts(ch, d)
         /\ ~warmup => /\ d.active = ch.active /\ d.RQ = ch.RQ /\ d.WQ = ch.WQ
                       /\ \A b \in Bank : d.bank[b].pkt = ch.bank[b].pkt
<1>. PICK d : d = WarmupAnswers(Tick(ch))
  OBVIOUS
<1>. PICK t : t = Tick(ch)
  OBVIOUS
<1>1. ch \in ChannelType /\ OneSlotEach(ch)
  BY DEF Rests
<1>2. /\ t \in ChannelType /\ t.RQ = ch.RQ /\ t.WQ = ch.WQ
      /\ t.active = ch.active /\ t.write_mode = ch.write_mode /\ t.returned = ch.returned
      /\ \A b \in Bank : t.bank[b] = [ch.bank[b] EXCEPT !.ready_in = @ - 1]
  BY <1>1, TickKeeps
<1>3. StageInv(d)
  BY WarmupAnswersKeeps DEF Rests
<1>4. CASE ~warmup
  <2>1. d = t
    BY <1>4 DEF WarmupAnswers
  <2>2. ASSUME NEW b \in Bank PROVE d.bank[b].pkt = ch.bank[b].pkt
    <3>1. ch.bank[b] \in BankType
      BY <1>1 DEF ChannelType
    <3>2. d.bank[b] = [ch.bank[b] EXCEPT !.ready_in = @ - 1]
      BY <1>2, <2>1
    <3>. QED  BY ONLY <3>1, <3>2 DEF BankType
  <2>3. OneSlotEach(d)
    BY <1>1, <1>2, <2>1, SameQueues DEF OneSlotEach
  <2>4. Accounts(ch, d)
    BY <1>2, <2>1 DEF Accounts
  <2>5. /\ StageInv(d) /\ OneSlotEach(d) /\ Accounts(ch, d)
        /\ ~warmup => /\ d.active = ch.active /\ d.RQ = ch.RQ /\ d.WQ = ch.WQ
                      /\ \A b \in Bank : d.bank[b].pkt = ch.bank[b].pkt
    BY <1>2, <1>3, <2>1, <2>2, <2>3, <2>4
  <2>. QED  BY ONLY <2>5, d = WarmupAnswers(Tick(ch))
<1>5. CASE warmup
  <2>1. d.returned = ch.returned \cup IdsOf(ch.RQ)
    <3>. PICK new : new = UNION {AnsweredBy(t.RQ[i]) : i \in Occupied(t.RQ)}
      OBVIOUS
    <3>1. d = [t EXCEPT !.returned = @ \cup new,
                        !.RQ = [i \in DOMAIN @ |-> Empty],
                        !.WQ = [i \in DOMAIN @ |-> Empty]]
      BY <1>5 DEF WarmupAnswers
    <3>2. d.returned = t.returned \cup new
      BY ONLY <1>2, <3>1 DEF ChannelType
    <3>3. new = IdsOf(t.RQ)
      BY DEF IdsOf
    <3>. QED  BY <1>2, <3>2, <3>3
  <2>2. \A s \in Slots : At(d, s) = Empty
    BY <1>3, <1>5 DEF StageInv, NothingWaits
  <2>3. OneSlotEach(d)
    BY <2>2 DEF OneSlotEach
  <2>4. IdsOf(d.RQ) = {}
    <3>1. \A x : x \in IdsOf(d.RQ) <=> \E s \in Slots : At(d, s) # Empty /\ x \in At(d, s).deps
      BY <1>3, <2>3, IdsAre DEF StageInv
    <3>. QED  BY <2>2, <3>1
  <2>5. Accounts(ch, d)
    BY <2>1, <2>4 DEF Accounts
  <2>6. /\ StageInv(d) /\ OneSlotEach(d) /\ Accounts(ch, d)
        /\ ~warmup => /\ d.active = ch.active /\ d.RQ = ch.RQ /\ d.WQ = ch.WQ
                      /\ \A b \in Bank : d.bank[b].pkt = ch.bank[b].pkt
    BY <1>3, <1>5, <2>3, <2>5
  <2>. QED  BY ONLY <2>6, d = WarmupAnswers(Tick(ch))
<1>. QED  BY <1>4, <1>5

(* Where a write that leaves is: on the data bus.                            *)
OnDbus(ch, a) ==
  /\ ch.active # NoBank
  /\ Pkt(ch) \in Slots /\ Pkt(ch)[1] = "WQ" /\ At(ch, Pkt(ch)) # Empty /\ At(ch, Pkt(ch)).addr = a

LEMMA WorkedKeeps ==
  ASSUME NEW ch, Rests(ch)
  PROVE  LET d == Worked(ch) IN
         /\ Handled(d) /\ NeedsLate(d) /\ Accounts(ch, d)
         /\ ~warmup => \A a \in WriteBlocks(ch) \ WriteBlocks(d) : OnDbus(ch, a)
<1>. PICK d1 : d1 = WarmupAnswers(Tick(ch))
  OBVIOUS
<1>. PICK d2 : d2 = CheckReadCollision(CheckWriteCollision(d1))
  OBVIOUS
<1>. PICK d3 : d3 = Finish(d2)
  OBVIOUS
<1>. PICK d4 : d4 = SwapWriteMode(d3)
  OBVIOUS
<1>. PICK d5 : d5 = ScheduleRefresh(d4)
  OBVIOUS
<1>. PICK d6 : d6 = PopulateDbus(d5)
  OBVIOUS
<1>. PICK d : d = ServicePacket(d6)
  OBVIOUS
<1>0. d = Worked(ch)
  BY DEF Worked
<1>1. /\ StageInv(d1) /\ OneSlotEach(d1) /\ Accounts(ch, d1)
      /\ ~warmup => /\ d1.active = ch.active /\ d1.RQ = ch.RQ /\ d1.WQ = ch.WQ
                    /\ \A b \in Bank : d1.bank[b].pkt = ch.bank[b].pkt
  BY TickedKeeps
<1>2. Checked(d1, d2)
  BY <1>1, CollisionsKeep
<1>3. Handled(d2) /\ Accounts(d1, d2) /\ KeepsWrites(d1, d2)
  BY <1>2 DEF Checked, Handled
<1>4. /\ Handled(d3) /\ Accounts(d2, d3)
      /\ \A a \in WriteBlocks(d2) \ WriteBlocks(d3) :
            /\ d2.active # NoBank
            /\ Pkt(d2) \in Slots /\ Pkt(d2)[1] = "WQ" /\ At(d2, Pkt(d2)).addr = a
  BY <1>3, FinishKeeps
<1>5. Handled(d4) /\ Accounts(d3, d4) /\ KeepsWrites(d3, d4)
  BY <1>4, SwapKeeps
<1>6. Handled(d5) /\ NeedsLate(d5) /\ Accounts(d4, d5) /\ KeepsWrites(d4, d5)
  BY <1>5, ScheduleRefreshKeeps
<1>7. Handled(d6) /\ NeedsLate(d6) /\ Accounts(d5, d6) /\ KeepsWrites(d5, d6)
  BY <1>6, PopulateDbusKeeps
<1>8. Handled(d) /\ NeedsLate(d) /\ Accounts(d6, d) /\ KeepsWrites(d6, d)
  BY <1>7, ServicePacketKeeps
<1>9. Accounts(ch, d)
  BY <1>1, <1>3, <1>4, <1>5, <1>6, <1>7, <1>8 DEF Accounts
<1>10. ASSUME ~warmup, NEW a \in WriteBlocks(ch), a \notin WriteBlocks(d)
       PROVE  OnDbus(ch, a)
  <2>1. a \in WriteBlocks(d2) /\ a \notin WriteBlocks(d3)
    <3>1. WriteBlocks(d1) = WriteBlocks(ch)
      BY <1>1, <1>10 DEF WriteBlocks
    <3>. QED  BY <1>3, <1>5, <1>6, <1>7, <1>8, <1>10, <3>1 DEF KeepsWrites
  <2>. PICK s : s = Pkt(d2)
    OBVIOUS
  <2>2. d2.active # NoBank /\ s \in Slots /\ s[1] = "WQ" /\ At(d2, s).addr = a
    BY <1>4, <2>1
  <2>3. /\ d2.bank = d1.bank /\ d2.active = d1.active
        /\ \A t \in Slots : Scheduled(At(d1, t)) => At(d2, t).addr = At(d1, t).addr
    BY <1>2 DEF Checked
  <2>4. ch.active \in Bank /\ ch.bank[ch.active].valid /\ d2.active = ch.active
    <3>1. d2.active = ch.active
      BY <1>1, <1>10, <2>3
    <3>. QED  BY <2>2, <3>1 DEF Rests, ChannelType, PacketsOfBanks
  <2>5. Pkt(ch) = s
    BY <1>1, <1>10, <2>3, <2>4 DEF Pkt
  <2>6. Scheduled(At(ch, s))
    BY <2>4, <2>5 DEF Rests, PacketsOfBanks, Pkt
  <2>7. At(d1, s) = At(ch, s)
    BY <1>1, <1>10, <2>2, SameQueues
  <2>8. At(ch, s).addr = a /\ At(ch, s) # Empty
    BY <2>2, <2>3, <2>6, <2>7 DEF Scheduled
  <2>. QED  BY <2>2, <2>4, <2>5, <2>8 DEF OnDbus
<1>11. /\ Handled(d) /\ NeedsLate(d) /\ Accounts(ch, d)
       /\ ~warmup => \A a \in WriteBlocks(ch) \ WriteBlocks(d) : OnDbus(ch, a)
  BY <1>8, <1>9, <1>10
<1>. QED  BY ONLY <1>0, <1>11

-----------------------------------------------------------------------------
(* An arrival.                                                             *)
LEMMA FirstEmptyFound ==
  ASSUME NEW ch \in ChannelType, NEW q \in Queues, FirstEmpty(ch[q]) # 0
  PROVE  <<q, FirstEmpty(ch[q])>> \in Slots /\ At(ch, <<q, FirstEmpty(ch[q])>>) = Empty
<1>. DEFINE E == DOMAIN ch[q] \ Occupied(ch[q])
<1>. PICK i : i = FirstEmpty(ch[q])
  OBVIOUS
<1>1. DOMAIN ch[q] = 1..QueueSize(q)
  BY QueueTyped
<1>2. E # {} /\ i = FirstOf(E)
  BY DEF FirstEmpty, FirstOf
<1>3. E \subseteq Nat
  BY <1>1
<1>. HIDE DEF E
<1>4. i \in E
  BY <1>2, <1>3, FirstFound
<1>5. i \in 1..QueueSize(q) /\ ch[q][i] = Empty
  BY <1>1, <1>4 DEF E, Occupied
<1>. QED  BY <1>5, SlotOf DEF At

LEMMA NewSlotIs ==
  ASSUME NEW a \in Addr, NEW wanted \in BOOLEAN, NEW deps \in SUBSET Ids
  PROVE  LET x == NewSlot(a, wanted, deps) IN
         /\ x \in SlotType /\ x # Empty
         /\ ~x.scheduled /\ x.deps = deps /\ x.wanted = wanted /\ x.addr = a
<1>. PICK x : x = NewSlot(a, wanted, deps)
  OBVIOUS
<1>1. NOW \in Nat
  BY SizesAre DEF NOW
<1>2. /\ x \in SlotType /\ ~x.scheduled /\ x.deps = deps /\ x.wanted = wanted /\ x.addr = a
  BY <1>1 DEF NewSlot, SlotType
<1>3. x # Empty
  BY <1>2, DramAssumption
<1>. QED  BY <1>2, <1>3

LEMMA AcceptKeeps ==
  ASSUME NEW ch, Rests(ch), NEW s \in Slots, At(ch, s) = Empty,
         NEW a \in Addr, NEW wanted \in BOOLEAN, NEW deps \in SUBSET Ids,
         deps \cap IdsOf(ch.RQ) = {}, deps # {} => wanted, s[1] = "WQ" => deps = {}
  PROVE  LET d == Put(ch, s, NewSlot(a, wanted, deps)) IN
         /\ Rests(d)
         /\ \A x : x \in IdsOf(d.RQ) <=> x \in IdsOf(ch.RQ) \/ x \in deps
         /\ \A b \in WriteBlocks(ch) : b \in WriteBlocks(d)
<1>. PICK v : v = NewSlot(a, wanted, deps)
  OBVIOUS
<1>. PICK d : d = Put(ch, s, v)
  OBVIOUS
<1>1. ch \in ChannelType /\ OneSlotEach(ch)
  BY DEF Rests
<1>2. /\ v \in SlotType /\ v # Empty
      /\ ~v.scheduled /\ v.deps = deps /\ v.wanted = wanted
  BY NewSlotIs
<1>3. /\ d \in ChannelType
      /\ d.bank = ch.bank /\ d.active = ch.active /\ d.write_mode = ch.write_mode
      /\ d.returned = ch.returned
      /\ At(d, s) = v
      /\ \A t \in Slots : t # s => At(d, t) = At(ch, t)
  <2>1. v \in SlotType \cup {Empty}
    BY <1>2
  <2>. QED  BY <1>1, <2>1, PutIs
<1>4. \A t \in Slots : /\ Scheduled(At(d, t)) <=> Scheduled(At(ch, t))
                       /\ Scheduled(At(ch, t)) => At(d, t) = At(ch, t)
  BY <1>2, <1>3 DEF Scheduled
<1>5. PacketsOfBanks(d)
  <2>1. ASSUME NEW b \in Bank, d.bank[b].valid
        PROVE  /\ d.bank[b].pkt \in Slots
               /\ Scheduled(At(d, d.bank[b].pkt))
               /\ BankOf[At(d, d.bank[b].pkt).addr] = b
               /\ b # d.active => (d.bank[b].pkt[1] = "WQ" <=> d.write_mode)
    <3>1. /\ ch.bank[b].pkt \in Slots
          /\ Scheduled(At(ch, ch.bank[b].pkt))
          /\ BankOf[At(ch, ch.bank[b].pkt).addr] = b
          /\ b # ch.active => (ch.bank[b].pkt[1] = "WQ" <=> ch.write_mode)
      BY <1>3, <2>1 DEF Rests, PacketsOfBanks
    <3>. QED  BY <1>3, <1>4, <3>1
  <2>2. \A t \in Slots : Scheduled(At(d, t)) => \E b \in Bank : d.bank[b].valid /\ d.bank[b].pkt = t
    BY <1>3, <1>4 DEF Rests, PacketsOfBanks
  <2>3. d.active # NoBank => d.bank[d.active].valid
    BY <1>3 DEF Rests, PacketsOfBanks
  <2>. QED  BY <2>1, <2>2, <2>3 DEF PacketsOfBanks
<1>6. NewUnscheduled(d)
  BY <1>4 DEF Rests, NewUnscheduled
<1>7. /\ NotBoth(d) /\ NeedsLate(d) /\ d.returned = {}
      /\ warmup => \A b \in Bank : ~d.bank[b].valid
  BY <1>3 DEF Rests, NotBoth, NeedsLate
<1>8. OneSlotEach(d)
  <2>1. ASSUME NEW t \in Slots, At(d, t) # Empty
        PROVE  /\ At(d, t).deps # {} => At(d, t).wanted
               /\ t[1] = "WQ" => At(d, t).deps = {}
               /\ At(d, t).deps \cap d.returned = {}
    <3>1. CASE t = s
      BY <1>2, <1>3, <1>7, <3>1
    <3>2. CASE t # s
      BY <1>1, <1>3, <2>1, <3>2 DEF OneSlotEach
    <3>. QED  BY <3>1, <3>2
  <2>2. \A t \in Slots : At(ch, t) # Empty => At(ch, t).deps \cap deps = {}
    BY <1>1, IdsAre
  <2>3. ASSUME NEW t \in Slots, NEW u \in Slots, t # u, At(d, t) # Empty, At(d, u) # Empty
        PROVE  At(d, t).deps \cap At(d, u).deps = {}
    <3>1. CASE t = s
      BY <1>2, <1>3, <2>2, <2>3, <3>1
    <3>2. CASE u = s
      BY <1>2, <1>3, <2>2, <2>3, <3>2
    <3>3. CASE t # s /\ u # s
      BY <1>1, <1>3, <2>3, <3>3 DEF OneSlotEach
    <3>. QED  BY <3>1, <3>2, <3>3
  <2>. QED  BY <2>1, <2>3 DEF OneSlotEach
<1>9. Rests(d)
  BY <1>3, <1>5, <1>6, <1>7, <1>8 DEF Rests
<1>10. \A x : x \in IdsOf(d.RQ) <=> x \in IdsOf(ch.RQ) \/ x \in deps
  <2>1. \A x : x \in IdsOf(d.RQ) <=> \E t \in Slots : At(d, t) # Empty /\ x \in At(d, t).deps
    BY <1>3, <1>8, IdsAre
  <2>2. \A x : x \in IdsOf(ch.RQ) <=> \E t \in Slots : At(ch, t) # Empty /\ x \in At(ch, t).deps
    BY <1>1, IdsAre
  <2>3. /\ s \in Slots /\ At(ch, s) = Empty /\ At(d, s) # Empty /\ At(d, s).deps = deps
        /\ \A t \in Slots : t # s => At(d, t) = At(ch, t)
    BY <1>2, <1>3
  <2>. QED  BY ONLY <2>1, <2>2, <2>3
<1>11. \A b \in WriteBlocks(ch) : b \in WriteBlocks(d)
  <2>1. \A t \in Slots : At(ch, t) # Empty => At(d, t) = At(ch, t)
    BY <1>3
  <2>2. \A b : b \in WriteBlocks(ch) <=>
          \E i \in 1..WQ_SIZE : At(ch, <<"WQ", i>>) # Empty /\ At(ch, <<"WQ", i>>).addr = b
    BY <1>1, WriteBlocksAre
  <2>3. \A b : b \in WriteBlocks(d) <=>
          \E i \in 1..WQ_SIZE : At(d, <<"WQ", i>>) # Empty /\ At(d, <<"WQ", i>>).addr = b
    BY <1>3, WriteBlocksAre
  <2>4. \A i \in 1..WQ_SIZE : <<"WQ", i>> \in Slots
    BY <1>1, WriteBlocksAre
  <2>. QED  BY ONLY <2>1, <2>2, <2>3, <2>4
<1>12. /\ Rests(d)
       /\ \A x : x \in IdsOf(d.RQ) <=> x \in IdsOf(ch.RQ) \/ x \in deps
       /\ \A b \in WriteBlocks(ch) : b \in WriteBlocks(d)
  BY <1>9, <1>10, <1>11
<1>. QED  BY ONLY <1>12, d = Put(ch, s, v), v = NewSlot(a, wanted, deps)

-----------------------------------------------------------------------------
(* The specification.  The inductive invariant is DramInv, that everybody    *)
(* waits for one slot, and that nobody waits whose answer is there.         *)
ServedInv ==
  /\ DramInv
  /\ OneSlotEach(c) /\ c.returned = {}
  /\ answered \cap IdsOf(c.RQ) = {}

LEMMA ServedInvIs ==
  ServedInv <=>
    /\ Rests(c)
    /\ warmup \in BOOLEAN /\ answered \subseteq Ids /\ answered \cap IdsOf(c.RQ) = {}
<1>1. RefreshAlone <=> NotBoth(c) /\ NeedsLate(c)
  BY DEF RefreshAlone, NotBoth, NeedsLate
<1>. QED  BY <1>1 DEF ServedInv, DramInv, BanksAgree, BanksMatchSlots, TypeOK, Rests

LEMMA ServedInvNext ==
  ASSUME Rests(c'), warmup \in BOOLEAN,
         warmup' = warmup \/ warmup' = FALSE,
         answered' \subseteq Ids, answered' \cap IdsOf(c'.RQ) = {}
  PROVE  ServedInv'
<1>1. /\ c' \in ChannelType
      /\ PacketsOfBanks(c') /\ NewUnscheduled(c') /\ NotBoth(c') /\ NeedsLate(c')
      /\ OneSlotEach(c') /\ c'.returned = {}
      /\ warmup => \A b \in Bank : ~c'.bank[b].valid
  BY DEF Rests
<1>2. RefreshAlone'
  BY <1>1 DEF RefreshAlone, NotBoth, NeedsLate
<1>3. TypeOK'
  BY <1>1 DEF TypeOK
<1>4. BanksMatchSlots'
  BY <1>1 DEF BanksMatchSlots
<1>5. NewUnscheduled(c)' /\ (warmup' => \A b \in Bank : ~c'.bank[b].valid)
  BY <1>1
<1>6. OneSlotEach(c)' /\ c'.returned = {} /\ answered' \cap IdsOf(c'.RQ) = {}
  BY <1>1
<1>. QED  BY <1>2, <1>3, <1>4, <1>5, <1>6 DEF ServedInv, DramInv, BanksAgree

LEMMA ServedInvInit ==
  ASSUME Init
  PROVE  ServedInv /\ IdsOf(c.RQ) = {} /\ answered = {}
<1>1. /\ c.RQ = [i \in 1..RQ_SIZE |-> Empty] /\ c.WQ = [i \in 1..WQ_SIZE |-> Empty]
      /\ c.bank = [b \in Bank |-> IdleBank] /\ c.active = NoBank /\ c.returned = {}
      /\ c \in ChannelType
  <2>1. IdleBank \in BankType
    BY DEF IdleBank, BankType
  <2>2. tREF \in Int
    BY TimesAre
  <2>. PICK rq, wq, bank, group :
         /\ rq = [i \in 1..RQ_SIZE |-> Empty] /\ wq = [i \in 1..WQ_SIZE |-> Empty]
         /\ bank = [b \in Bank |-> IdleBank] /\ group = [g \in Group |-> 0]
    OBVIOUS
  <2>3. /\ rq \in [1..RQ_SIZE -> SlotType \cup {Empty}] /\ wq \in [1..WQ_SIZE -> SlotType \cup {Empty}]
        /\ bank \in [Bank -> BankType] /\ group \in [Group -> Int]
    BY <2>1
  <2>4. c = [RQ |-> rq, WQ |-> wq, bank |-> bank, active |-> NoBank, write_mode |-> FALSE,
             dbus_in |-> 0, group_in |-> group, refresh_in |-> tREF, returned |-> {}]
    BY DEF Init
  <2>5. c.RQ = rq /\ c.WQ = wq /\ c.bank = bank /\ c.active = NoBank /\ c.returned = {}
    BY ONLY <2>4
  <2>6. c \in ChannelType
    BY ONLY <2>2, <2>3, <2>4 DEF ChannelType
  <2>. QED  BY <2>5, <2>6
<1>2. ASSUME NEW s \in Slots PROVE At(c, s) = Empty
  <2>. PICK q, i : q = s[1] /\ i = s[2]
    OBVIOUS
  <2>1. q \in Queues /\ i \in 1..QueueSize(q)
    BY SlotParts
  <2>2. c[q][i] = Empty
    <3>1. CASE q = "RQ"
      <4>1. c[q] = [j \in 1..RQ_SIZE |-> Empty] /\ i \in 1..RQ_SIZE
        BY <1>1, <2>1, <3>1 DEF QueueSize
      <4>. QED  BY ONLY <4>1
    <3>2. CASE q = "WQ"
      <4>1. c[q] = [j \in 1..WQ_SIZE |-> Empty] /\ i \in 1..WQ_SIZE
        BY <1>1, <2>1, <3>2 DEF QueueSize
      <4>. QED  BY ONLY <4>1
    <3>. QED  BY <2>1, <3>1, <3>2 DEF Queues
  <2>. QED  BY <2>2 DEF At
<1>3. \A b \in Bank : /\ ~c.bank[b].valid /\ ~c.bank[b].need_refresh /\ ~c.bank[b].under_refresh
  BY <1>1 DEF IdleBank
<1>4. PacketsOfBanks(c)
  BY <1>1, <1>2, <1>3 DEF PacketsOfBanks, Scheduled
<1>5. NewUnscheduled(c) /\ OneSlotEach(c)
  BY <1>2 DEF NewUnscheduled, Scheduled, OneSlotEach
<1>6. NotBoth(c) /\ NeedsLate(c)
  BY <1>3 DEF NotBoth, NeedsLate
<1>7. Rests(c)
  BY <1>1, <1>3, <1>4, <1>5, <1>6 DEF Rests
<1>8. \A x : x \notin IdsOf(c.RQ)
  BY <1>1, <1>2, <1>5, IdsAre
<1>9. IdsOf(c.RQ) = {}
  BY <1>8
<1>. QED  BY <1>7, <1>9, ServedInvIs DEF Init

(* What a step does to who waits: nothing, or a step of the service; and to  *)
(* the blocks that are to be written.                                       *)
ServiceStep == [Service!Next]_(Service!vars)
WritesStep ==
  ~warmup =>
    \A a \in WriteBlocks(c) \ WriteBlocks(c') :
       c.active # NoBank /\ c.bank[c.active].pkt \in {<<"WQ", i>> : i \in {j \in 1..WQ_SIZE : c.WQ[j] # Empty /\ c.WQ[j].addr = a}}

LEMMA ServiceStutters ==
  ASSUME IdsOf(c'.RQ) = IdsOf(c.RQ), answered' = answered
  PROVE  ServiceStep
BY DEF ServiceStep, Service!vars

LEMMA AcceptSteps ==
  ASSUME ServedInv, NEW q \in Queues, NEW a \in Addr, NEW wanted \in BOOLEAN,
         NEW deps \in SUBSET Ids, Accept(q, a, wanted, deps), UNCHANGED <<warmup, answered>>,
         deps \cap IdsOf(c.RQ) = {}, deps \cap answered = {},
         deps # {} => wanted, q = "WQ" => deps = {}
  PROVE  /\ ServedInv' /\ WritesStep
         /\ IdsOf(c'.RQ) = IdsOf(c.RQ) \cup deps
<1>. PICK s : s = <<q, FirstEmpty(c[q])>>
  OBVIOUS
<1>1. /\ Rests(c) /\ c \in ChannelType
      /\ warmup \in BOOLEAN /\ answered \subseteq Ids /\ answered \cap IdsOf(c.RQ) = {}
  BY ServedInvIs DEF Rests
<1>2. FirstEmpty(c[q]) # 0 /\ c' = Put(c, s, NewSlot(a, wanted, deps))
  BY DEF Accept
<1>3. s \in Slots /\ At(c, s) = Empty /\ s[1] = q
  BY <1>1, <1>2, FirstEmptyFound
<1>4. /\ Rests(c')
      /\ \A x : x \in IdsOf(c'.RQ) <=> x \in IdsOf(c.RQ) \/ x \in deps
      /\ \A b \in WriteBlocks(c) : b \in WriteBlocks(c')
  BY <1>1, <1>2, <1>3, AcceptKeeps
<1>5. IdsOf(c'.RQ) = IdsOf(c.RQ) \cup deps
  BY <1>4
<1>6. answered' = answered /\ warmup' = warmup
  OBVIOUS
<1>7. answered' \cap IdsOf(c'.RQ) = {}
  BY <1>1, <1>5, <1>6
<1>8. ServedInv'
  BY <1>1, <1>4, <1>6, <1>7, ServedInvNext
<1>9. WritesStep
  BY <1>4 DEF WritesStep
<1>. QED  BY <1>5, <1>8, <1>9

LEMMA CycleSteps ==
  ASSUME ServedInv, Cycle
  PROVE  ServedInv' /\ WritesStep /\ ServiceStep
<1>. PICK d : d = Worked(c)
  OBVIOUS
<1>. PICK S : S = d.returned
  OBVIOUS
<1>1. /\ Rests(c) /\ c \in ChannelType /\ c.returned = {} /\ OneSlotEach(c)
      /\ warmup \in BOOLEAN /\ answered \subseteq Ids /\ answered \cap IdsOf(c.RQ) = {}
  BY ServedInvIs DEF Rests
<1>2. c' = NormalEnd(d) /\ answered' = answered \cup S /\ warmup' = warmup
  BY DEF Cycle, Worked, NormalEnd
<1>3. /\ Handled(d) /\ NeedsLate(d) /\ Accounts(c, d)
      /\ ~warmup => \A a \in WriteBlocks(c) \ WriteBlocks(d) : OnDbus(c, a)
  BY <1>1, WorkedKeeps
<1>4. /\ Rests(c')
      /\ \A x : x \in IdsOf(c'.RQ) <=> x \in IdsOf(d.RQ)
      /\ WriteBlocks(c') = WriteBlocks(d)
  BY <1>2, <1>3, NormalEndKeeps DEF KeepsWrites
<1>5. d \in ChannelType /\ OneSlotEach(d)
  BY <1>3 DEF Handled, StageInv
<1>6. S \subseteq Ids
  BY <1>5 DEF ChannelType
<1>7. \A x : x \in IdsOf(d.RQ) => x \notin S
  <2>1. \A x : x \in IdsOf(d.RQ) <=> \E t \in Slots : At(d, t) # Empty /\ x \in At(d, t).deps
    BY <1>5, IdsAre
  <2>2. \A t \in Slots : At(d, t) # Empty => At(d, t).deps \cap d.returned = {}
    BY <1>5 DEF OneSlotEach
  <2>. QED  BY <2>1, <2>2
<1>8. \A x : x \in IdsOf(d.RQ) \/ x \in S <=> x \in IdsOf(c.RQ)
  BY <1>1, <1>3 DEF Accounts
<1>9. S \subseteq IdsOf(c.RQ) /\ IdsOf(c'.RQ) = IdsOf(c.RQ) \ S
  BY ONLY <1>4, <1>7, <1>8
<1>10. answered' \subseteq Ids /\ answered' \cap IdsOf(c'.RQ) = {}
  BY ONLY <1>1, <1>2, <1>6, <1>9
<1>11. ServedInv'
  BY <1>1, <1>2, <1>4, <1>10, ServedInvNext
<1>12. ServiceStep
  <2>1. CASE S = {}
    <3>1. IdsOf(c'.RQ) = IdsOf(c.RQ) /\ answered' = answered
      BY <1>2, <1>9, <2>1
    <3>. QED  BY <3>1, ServiceStutters
  <2>2. CASE S # {}
    <3>1. Service!Respond(S)
      BY <1>2, <1>9, <2>2 DEF Service!Respond
    <3>. QED  BY <1>6, <3>1 DEF ServiceStep, Service!Next
  <2>. QED  BY <2>1, <2>2
<1>13. WritesStep
  <2>1. ASSUME ~warmup, NEW a \in WriteBlocks(c), a \notin WriteBlocks(c')
        PROVE  /\ c.active # NoBank
               /\ \E j \in 1..WQ_SIZE :
                    c.WQ[j] # Empty /\ c.WQ[j].addr = a /\ c.bank[c.active].pkt = <<"WQ", j>>
    <3>1. OnDbus(c, a)
      BY <1>3, <1>4, <2>1
    <3>. PICK s : s = Pkt(c)
      OBVIOUS
    <3>2. c.active # NoBank /\ s \in Slots /\ s[1] = "WQ" /\ At(c, s) # Empty /\ At(c, s).addr = a
      BY <3>1 DEF OnDbus
    <3>3. s[2] \in 1..WQ_SIZE /\ s = <<"WQ", s[2]>> /\ At(c, s) = c.WQ[s[2]]
      BY <3>2, SlotParts DEF QueueSize, At
    <3>. QED  BY <3>2, <3>3 DEF Pkt
  <2>. QED  BY <2>1 DEF WritesStep
<1>. QED  BY <1>11, <1>12, <1>13

LEMMA OtherSteps ==
  ASSUME ServedInv,
         UNCHANGED vars \/ EndWarmup \/ \E i \in Ids : Collect(i)
  PROVE  ServedInv' /\ WritesStep /\ ServiceStep
<1>1. /\ Rests(c)
      /\ warmup \in BOOLEAN /\ answered \subseteq Ids /\ answered \cap IdsOf(c.RQ) = {}
  BY ServedInvIs
<1>2. c' = c /\ (warmup' = warmup \/ warmup' = FALSE) /\ answered' \subseteq answered
  BY DEF vars, EndWarmup, Collect
<1>3. Rests(c')
  BY <1>1, <1>2
<1>4. answered' \subseteq Ids /\ answered' \cap IdsOf(c'.RQ) = {}
  BY <1>1, <1>2
<1>5. ServedInv'
  BY <1>1, <1>2, <1>3, <1>4, ServedInvNext
<1>6. WritesStep
  BY <1>2 DEF WritesStep
<1>7. ServiceStep
  <2>1. CASE UNCHANGED vars \/ EndWarmup
    BY <1>2, <2>1, ServiceStutters DEF vars, EndWarmup
  <2>2. ASSUME NEW i \in Ids, Collect(i) PROVE ServiceStep
    <3>1. Service!Collect({i})
      BY <1>2, <2>2 DEF Collect, Service!Collect
    <3>. QED  BY <3>1 DEF ServiceStep, Service!Next
  <2>. QED  BY <2>1, <2>2
<1>. QED  BY <1>5, <1>6, <1>7

LEMMA ServedSteps ==
  ASSUME ServedInv, [Next]_vars
  PROVE  ServedInv' /\ WritesStep /\ ServiceStep
<1>0. Rests(c) /\ answered \cap IdsOf(c.RQ) = {}
  BY ServedInvIs
<1>1. ASSUME NEW a \in Addr, NEW i \in Idle, AddRead(a, i)
      PROVE  ServedInv' /\ WritesStep /\ ServiceStep
  <2>1. i \in Ids /\ {i} \cap IdsOf(c.RQ) = {} /\ {i} \cap answered = {}
    BY DEF Idle
  <2>2. Accept("RQ", a, TRUE, {i}) /\ UNCHANGED <<warmup, answered>>
    BY <1>1 DEF AddRead
  <2>3. ServedInv' /\ WritesStep /\ IdsOf(c'.RQ) = IdsOf(c.RQ) \cup {i}
    BY <2>1, <2>2, AcceptSteps DEF Queues
  <2>4. Service!Request(i)
    BY <2>1, <2>2, <2>3 DEF Service!Request
  <2>. QED  BY <2>1, <2>3, <2>4 DEF ServiceStep, Service!Next
<1>2. ASSUME NEW q \in Queues, NEW a \in Addr, Accept(q, a, FALSE, {}), UNCHANGED <<warmup, answered>>
      PROVE  ServedInv' /\ WritesStep /\ ServiceStep
  <2>1. ServedInv' /\ WritesStep /\ IdsOf(c'.RQ) = IdsOf(c.RQ) \cup {}
    BY <1>2, AcceptSteps
  <2>. QED  BY <1>2, <2>1, ServiceStutters
<1>3. ASSUME NEW a \in Prefetched, AddPrefetch(a)
      PROVE  ServedInv' /\ WritesStep /\ ServiceStep
  BY <1>2, <1>3, DramAssumption DEF AddPrefetch, Queues
<1>4. ASSUME NEW a \in Written, AddWrite(a)
      PROVE  ServedInv' /\ WritesStep /\ ServiceStep
  BY <1>2, <1>4, DramAssumption DEF AddWrite, Queues
<1>5. CASE Cycle
  BY <1>5, CycleSteps
<1>6. CASE UNCHANGED vars \/ EndWarmup \/ \E i \in Ids : Collect(i)
  BY <1>6, OtherSteps
<1>. QED  BY <1>1, <1>3, <1>4, <1>5, <1>6 DEF Next

(* Banks, slots, the mode and the refreshes agree in every order of          *)
(* arrivals, merges, mode swaps, refreshes and finished requests: the       *)
(* iterators the banks keep (src/inc/dram_controller.h:134) never point to  *)
(* another request, and no request is left scheduled without its bank.      *)
THEOREM BanksAlwaysAgree == Spec => []BanksAgree
<1>1. Init => ServedInv
  BY ServedInvInit
<1>2. ServedInv /\ [Next]_vars => ServedInv'
  BY ServedSteps
<1>3. ServedInv => BanksAgree
  BY DEF ServedInv, DramInv
<1>. QED  BY <1>1, <1>2, <1>3, PTL DEF Spec

(* A block that is to be written leaves the write queue only when its write  *)
(* has been on the data bus, however writes and reads of it are merged      *)
(* (src/src/dram_controller.cc:440).                                         *)
THEOREM DramWritesKept == Spec => WritesKept
<1>1. Init => ServedInv
  BY ServedInvInit
<1>2. ServedInv /\ [Next]_vars => ServedInv'
  BY ServedSteps
<1>3. ServedInv /\ [Next]_vars => [WritesStep]_vars
  BY ServedSteps
<1>. QED  BY <1>1, <1>2, <1>3, PTL DEF Spec, WritesKept, WritesStep

(* The controller implements the service of MemService: a read that was      *)
(* forwarded from a write or joined another one is answered with it, and    *)
(* nobody is answered twice (src/src/dram_controller.cc:462).                *)
THEOREM DramServes == Spec => ServiceSpec
<1>1. Init => ServedInv
  BY ServedInvInit
<1>2. Init => Service!Init
  BY ServedInvInit DEF Service!Init
<1>3. ServedInv /\ [Next]_vars => ServedInv'
  BY ServedSteps
<1>4. ServedInv /\ [Next]_vars => [Service!Next]_(Service!vars)
  BY ServedSteps DEF ServiceStep
<1>. QED  BY <1>1, <1>2, <1>3, <1>4, PTL DEF Spec, ServiceSpec, Service!Spec
=============================================================================
