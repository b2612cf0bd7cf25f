-------------------------------- MODULE Rename --------------------------------
(***************************************************************************)
(* Register renaming in the out-of-order core: the RegisterAllocator       *)
(* (src/src/register_allocator.cc) and the stages of O3_CPU that drive it, *)
(* from the dispatch of an instruction into the ROB to its retirement.     *)
(*                                                                         *)
(* Latencies, memory operations and the widths of the stages only decide   *)
(* when an enabled step is taken.  The stages of operate() run one after   *)
(* the other; schedule_instruction and retire_rob change the allocator one *)
(* register at a time, and nothing else runs in between (pc).              *)
(***************************************************************************)
EXTENDS Integers, Sequences, FiniteSets

CONSTANTS
  RAT_SIZE,         \* entries of an alias table (256: register names are bytes)
  NUM_REGISTERS,    \* REGISTER_FILE_SIZE
  ROB_SIZE,
  SCHEDULER_SIZE,
  Instructions      \* the register operands of the traced instructions

Arch == 0 .. RAT_SIZE - 1
Phys == 0 .. NUM_REGISTERS - 1
NoReg == -1

ASSUME RatAssumption == RAT_SIZE \in Nat
(* isAllocated indexes an alias table with the physical names of an        *)
(* instruction already renamed, so a larger file reads past its end.       *)
ASSUME FileAssumption == NUM_REGISTERS \in Nat /\ NUM_REGISTERS <= RAT_SIZE
ASSUME SizeAssumption == ROB_SIZE \in Nat /\ SCHEDULER_SIZE \in Nat
ASSUME InstructionAssumption == Instructions \subseteq [src : Seq(Arch), dst : Seq(Arch)]

VARIABLES
  pc,               \* "stages", or inside a loop: "visit", "rename", "retire"
  visiting,         \* position of schedule_instruction in the ROB
  retired,          \* destinations of the head of the ROB already retired
  frontend_RAT,     \* Arch -> Phys: the newest name of each register
  backend_RAT,      \* Arch -> Phys: the name of the last retired write
  free_registers,   \* queue of physical names
  reg,              \* the physical register file: arch_reg_index and valid
  ROB

tables == <<frontend_RAT, backend_RAT, free_registers, reg>>
vars == <<pc, visiting, retired, tables, ROB>>

(* An instruction in the ROB.  Renaming overwrites src and dst in place;    *)
(* named counts the operands it has reached, sources first.  asrc and adst *)
(* keep the architectural names, for the properties only.                  *)
Entry(in) ==
  [src |-> in.src, dst |-> in.dst, asrc |-> in.src, adst |-> in.dst, named |-> 0,
   scheduled |-> FALSE, executed |-> FALSE, completed |-> FALSE]

Init ==
  /\ pc = "stages"
  /\ visiting = 0
  /\ retired = 0
  /\ frontend_RAT = [a \in Arch |-> NoReg]
  /\ backend_RAT = [a \in Arch |-> NoReg]
  /\ free_registers = [i \in 1 .. NUM_REGISTERS |-> i - 1]
  /\ reg = [p \in Phys |-> [arch |-> 0, valid |-> FALSE]]
  /\ ROB = <<>>

-----------------------------------------------------------------------------
(* dispatch_instruction *)
Dispatch(in) ==
  /\ pc = "stages"
  /\ Len(ROB) < ROB_SIZE
  /\ ROB' = Append(ROB, Entry(in))
  /\ UNCHANGED <<pc, visiting, retired, tables>>

-----------------------------------------------------------------------------
isAllocated(a) == frontend_RAT[a] # NoReg

(* The test at the head of the loop of schedule_instruction.  It is made    *)
(* for every instruction the loop passes, those already renamed included,  *)
(* whose sources are physical names by then.                               *)
HasRegistersForDest(e) == Len(free_registers) >= Len(e.dst)      \* mutant
HasRegisters(e) ==
  Len(free_registers) >=
    Cardinality({k \in DOMAIN e.src : ~isAllocated(e.src[k])}) + Len(e.dst)

(* search_bw: every instruction passed that has not executed costs one. *)
BandwidthLeft == Cardinality({j \in 1 .. visiting - 1 : ~ROB[j].executed}) < SCHEDULER_SIZE

Visiting == pc = "visit" /\ visiting <= Len(ROB) /\ BandwidthLeft

StartScheduling ==
  /\ pc = "stages"
  /\ pc' = "visit"
  /\ visiting' = 1
  /\ UNCHANGED <<retired, tables, ROB>>

(* An instruction that was renamed in an earlier cycle is passed. *)
PassScheduled ==
  /\ Visiting
  /\ HasRegisters(ROB[visiting])
  /\ ROB[visiting].scheduled
  /\ visiting' = visiting + 1
  /\ UNCHANGED <<pc, retired, tables, ROB>>

(* do_scheduling: the sources are renamed in order, then the destinations. *)
StartRename ==
  /\ Visiting
  /\ HasRegisters(ROB[visiting])
  /\ ~ROB[visiting].scheduled
  /\ pc' = "rename"
  /\ UNCHANGED <<visiting, retired, tables, ROB>>

(* The newest name of register a becomes p; the file entry of a new name. *)
RenamedNot(a, p) == frontend_RAT                                \* mutant
Renamed(a, p) == [frontend_RAT EXCEPT ![a] = p]
NamedValid(a, v) == [arch |-> a, valid |-> TRUE]                \* mutant
NamedEntry(a, v) == [arch |-> a, valid |-> v]

(* do_scheduling stores the name it got in the place of the operand. *)
NamedSrc(e, k, p) == [e EXCEPT !.src = [@ EXCEPT ![k] = p], !.named = @ + 1]
NamedDst(e, k, p) == [e EXCEPT !.dst = [@ EXCEPT ![k] = p], !.named = @ + 1]

(* rename_src_register: a register nobody has written yet gets a name that  *)
(* counts as committed and valid.                                          *)
rename_src_register ==
  LET e == ROB[visiting]
      k == e.named + 1
      a == e.src[k]
      p == IF isAllocated(a) THEN frontend_RAT[a] ELSE Head(free_registers)
  IN  /\ pc = "rename"
      /\ e.named < Len(e.src)
      /\ ROB' = [ROB EXCEPT ![visiting] = NamedSrc(e, k, p)]
      /\ IF isAllocated(a)
           THEN UNCHANGED tables
           ELSE /\ free_registers' = Tail(free_registers)
                /\ frontend_RAT' = Renamed(a, p)
                /\ backend_RAT' = [backend_RAT EXCEPT ![a] = p]
                /\ reg' = [reg EXCEPT ![p] = NamedEntry(a, TRUE)]
      /\ UNCHANGED <<pc, visiting, retired>>

rename_dest_register ==
  LET e == ROB[visiting]
      k == e.named + 1 - Len(e.src)
      p == Head(free_registers)
  IN  /\ pc = "rename"
      /\ k \in 1 .. Len(e.dst)
      /\ ROB' = [ROB EXCEPT ![visiting] = NamedDst(e, k, p)]
      /\ free_registers' = Tail(free_registers)
      /\ frontend_RAT' = Renamed(e.dst[k], p)
      /\ reg' = [reg EXCEPT ![p] = NamedEntry(e.dst[k], FALSE)]
      /\ UNCHANGED <<pc, visiting, retired, backend_RAT>>

EndRename ==
  /\ pc = "rename"
  /\ ROB[visiting].named = Len(ROB[visiting].src) + Len(ROB[visiting].dst)
  /\ ROB' = [ROB EXCEPT ![visiting].scheduled = TRUE]
  /\ visiting' = visiting + 1
  /\ pc' = "visit"
  /\ UNCHANGED <<retired, tables>>

(* The loop breaks for want of registers. *)
OutOfRegisters ==
  /\ Visiting
  /\ ~HasRegisters(ROB[visiting])
  /\ pc' = "stages"
  /\ UNCHANGED <<visiting, retired, tables, ROB>>

(* It reaches its end or its bandwidth, or an instruction that is not ready *)
(* (ready times grow along the ROB, so no later one is ready either).      *)
EndScheduling ==
  /\ pc = "visit"
  /\ Visiting => HasRegisters(ROB[visiting]) /\ ~ROB[visiting].scheduled
  /\ pc' = "stages"
  /\ UNCHANGED <<visiting, retired, tables, ROB>>

-----------------------------------------------------------------------------
(* execute_instruction and do_execution: the sources must be valid. *)
Execute(i) ==
  /\ pc = "stages"
  /\ ROB[i].scheduled /\ ~ROB[i].executed
  /\ \A k \in DOMAIN ROB[i].src : reg[ROB[i].src[k]].valid
  /\ ROB' = [ROB EXCEPT ![i].executed = TRUE]
  /\ UNCHANGED <<pc, visiting, retired, tables>>

(* complete_inflight_instruction and do_complete_execution, with            *)
(* complete_dest_register for each destination                             *)
Complete(i) ==
  /\ pc = "stages"
  /\ ROB[i].executed /\ ~ROB[i].completed
  /\ ROB' = [ROB EXCEPT ![i].completed = TRUE]
  /\ reg' = [p \in Phys |->
               [reg[p] EXCEPT !.valid = @ \/ \E k \in DOMAIN ROB[i].dst : ROB[i].dst[k] = p]]
  /\ UNCHANGED <<pc, visiting, retired, frontend_RAT, backend_RAT, free_registers>>

(* retire_rob: the head leaves when it is completed, after each of its     *)
(* destinations has replaced the name its register had.                    *)
StartRetire ==
  /\ pc = "stages"
  /\ ROB # <<>>
  /\ Head(ROB).completed
  /\ pc' = "retire"
  /\ retired' = 0
  /\ UNCHANGED <<visiting, tables, ROB>>

(* free_register, and the test around its call: -1 is no name. *)
FreedNever(old) == free_registers                               \* mutant
Freed(old) == IF old = NoReg THEN free_registers ELSE Append(free_registers, old)

(* retire_dest_register *)
CommittedNot(a, p) == backend_RAT                               \* mutant
Committed(a, p) == [backend_RAT EXCEPT ![a] = p]
retire_dest_register ==
  LET p   == Head(ROB).dst[retired + 1]
      a   == reg[p].arch
      old == backend_RAT[a]
  IN  /\ pc = "retire"
      /\ retired < Len(Head(ROB).dst)
      /\ backend_RAT' = Committed(a, p)
      /\ free_registers' = Freed(old)
      /\ reg' = IF old = NoReg THEN reg
                ELSE [reg EXCEPT ![old] = [arch |-> RAT_SIZE - 1, valid |-> FALSE]]
      /\ retired' = retired + 1
      /\ UNCHANGED <<pc, visiting, frontend_RAT, ROB>>

EndRetire ==
  /\ pc = "retire"
  /\ retired = Len(Head(ROB).dst)
  /\ ROB' = Tail(ROB)
  /\ retired' = 0
  /\ pc' = "stages"
  /\ UNCHANGED <<visiting, tables>>

Next ==
  \/ \E in \in Instructions : Dispatch(in)
  \/ StartScheduling \/ PassScheduled \/ StartRename
  \/ rename_src_register \/ rename_dest_register \/ EndRename
  \/ OutOfRegisters \/ EndScheduling
  \/ \E i \in DOMAIN ROB : Execute(i) \/ Complete(i)
  \/ StartRetire \/ retire_dest_register \/ EndRetire

Spec == Init /\ [][Next]_vars

(* operate() runs every stage in every cycle; every latency ends.          *)
(* Scheduling is strongly fair, because the loop may meet an instruction    *)
(* before it is ready, though not for ever.                                *)
Fairness ==
  /\ WF_vars(StartScheduling)
  /\ WF_vars(PassScheduled)
  /\ SF_vars(StartRename)
  /\ WF_vars(rename_src_register \/ rename_dest_register \/ EndRename)
  /\ WF_vars(OutOfRegisters \/ EndScheduling)
  /\ \A i \in 1 .. ROB_SIZE : SF_vars(i \in DOMAIN ROB /\ (Execute(i) \/ Complete(i)))
  /\ SF_vars(StartRetire)
  /\ WF_vars(retire_dest_register \/ EndRetire)

FairSpec == Spec /\ Fairness

-----------------------------------------------------------------------------
EntryType ==
  [src : Seq(Arch), dst : Seq(Arch), asrc : Seq(Arch), adst : Seq(Arch), named : Nat,
   scheduled : BOOLEAN, executed : BOOLEAN, completed : BOOLEAN]

TypeOK ==
  /\ pc \in {"stages", "visit", "rename", "retire"}
  /\ visiting \in 0 .. ROB_SIZE + 1
  /\ retired \in Nat
  /\ frontend_RAT \in [Arch -> Phys \cup {NoReg}]
  /\ backend_RAT \in [Arch -> Phys \cup {NoReg}]
  /\ free_registers \in Seq(Phys)
  /\ reg \in [Phys -> [arch : Arch, valid : BOOLEAN]]
  /\ ROB \in Seq(EntryType)
  /\ Len(ROB) <= ROB_SIZE

(* The destinations of ROB[i] that hold a physical name and have not yet    *)
(* replaced another name in the backend table.                             *)
Named(i) ==
  {k \in DOMAIN ROB[i].dst :
     /\ k + Len(ROB[i].src) <= ROB[i].named
     /\ i = 1 => k > retired}

(* Every physical register is in one place at most: once in the free list, *)
(* or the committed name of one register, or the destination of one        *)
(* instruction in the ROB.  Nothing is allocated twice or freed twice.     *)
FreeOnce ==
  \A m, n \in DOMAIN free_registers : free_registers[m] = free_registers[n] => m = n
CommittedOnce ==
  \A a, b \in Arch : backend_RAT[a] = backend_RAT[b] /\ backend_RAT[a] # NoReg => a = b
InFlightOnce ==
  \A i, j \in DOMAIN ROB : \A k \in Named(i), l \in Named(j) :
    ROB[i].dst[k] = ROB[j].dst[l] => i = j /\ k = l
FreeNotCommitted ==
  \A m \in DOMAIN free_registers : \A a \in Arch : backend_RAT[a] # free_registers[m]
FreeNotInFlight ==
  \A m \in DOMAIN free_registers : \A i \in DOMAIN ROB : \A k \in Named(i) :
    ROB[i].dst[k] # free_registers[m]
CommittedNotInFlight ==
  \A a \in Arch : \A i \in DOMAIN ROB : \A k \in Named(i) : ROB[i].dst[k] # backend_RAT[a]
OnePlace ==
  /\ FreeOnce /\ CommittedOnce /\ InFlightOnce
  /\ FreeNotCommitted /\ FreeNotInFlight /\ CommittedNotInFlight

(* Every physical register is in one place at least: retirement returns    *)
(* what renaming took, and the file does not shrink over a long run.       *)
Free(p) == \E m \in DOMAIN free_registers : free_registers[m] = p
IsCommitted(p) == \E a \in Arch : backend_RAT[a] = p
IsInFlight(p) == \E i \in DOMAIN ROB : \E k \in Named(i) : ROB[i].dst[k] = p
NoLeak == \A p \in Phys : Free(p) \/ IsCommitted(p) \/ IsInFlight(p)

(* The name of register a for a reader that follows the instructions       *)
(* 1 .. n of the ROB: the last of them that writes a, or the committed one. *)
Writes(i, a) == {k \in DOMAIN ROB[i].adst : ROB[i].adst[k] = a}
Writers(n, a) == {i \in 1 .. n : Writes(i, a) # {}}
Latest(S) == CHOOSE x \in S : \A y \in S : y <= x
NameAfter(n, a) ==
  IF Writers(n, a) = {} THEN backend_RAT[a]
  ELSE LET w == Latest(Writers(n, a)) IN ROB[w].dst[Latest(Writes(w, a))]

(* A renamed source is the name given to the last older write of the same   *)
(* register, for as long as the reader is in the ROB: the name has been     *)
(* neither freed nor given away while the reader could still wait for it.  *)
SourcesFollowProgramOrder ==
  pc = "stages" =>
    \A i \in DOMAIN ROB : ROB[i].scheduled =>
      \A k \in DOMAIN ROB[i].src : ROB[i].src[k] = NameAfter(i - 1, ROB[i].asrc[k])

(* No instruction executes before the older ones it reads from completed. *)
ExecutesAfterProducers ==
  \A i \in DOMAIN ROB : ROB[i].executed =>
    \A k \in DOMAIN ROB[i].asrc :
      \A j \in Writers(i - 1, ROB[i].asrc[k]) :
         j = Latest(Writers(i - 1, ROB[i].asrc[k])) => ROB[j].completed

(* An instruction reads what the last writes before it in the program have   *)
(* left (rename_src_register, schedule_instruction, execute_instruction).  *)
OperandsFollowProgramOrder == SourcesFollowProgramOrder /\ ExecutesAfterProducers

(* There is a free register at every rename: the assertion of              *)
(* rename_dest_register (src/src/register_allocator.cc:18), and the call of *)
(* front() in rename_src_register, which asserts nothing.                  *)
RegisterAtHand ==
  pc = "rename" =>
    LET e == ROB[visiting]
    IN  (\/ e.named < Len(e.src) /\ ~isAllocated(e.src[e.named + 1])
         \/ e.named \in Len(e.src) .. Len(e.src) + Len(e.dst) - 1)
          => free_registers # <<>>

(* The code renames in program order, whatever the loop passes or breaks at. *)
RenamedInOrder ==
  \A i, j \in DOMAIN ROB : i < j /\ ROB[j].named > 0 => ROB[i].scheduled

(* The ROB never gets stuck: with a file that holds a name for every        *)
(* register and the destinations of one instruction more, renaming never   *)
(* waits for a register for ever, whatever the loop test counts.           *)
Retires == \A n \in 1 .. ROB_SIZE : Len(ROB) = n ~> pc = "retire"

-----------------------------------------------------------------------------
(* What the proofs add to TypeOK and the placement of the registers.        *)
-----------------------------------------------------------------------------
Size(e) == Len(e.src) + Len(e.dst)

(* The operands an instruction has reached are physical names, its flags    *)
(* rise in order, and renaming is never left half done.                    *)
EntryProgress(e) ==
  /\ e.named <= Size(e)
  /\ e.completed => e.executed
  /\ e.executed => e.scheduled
  /\ e.scheduled => e.named = Size(e)
  /\ \A k \in DOMAIN e.src : k <= e.named => e.src[k] \in Phys
  /\ \A k \in DOMAIN e.dst : k + Len(e.src) <= e.named => e.dst[k] \in Phys

Progress ==
  /\ pc = "visit" => visiting \in 1 .. Len(ROB) + 1
  /\ pc = "rename" => visiting \in DOMAIN ROB /\ ~ROB[visiting].scheduled
  /\ pc = "retire" => ROB # <<>> /\ Head(ROB).completed /\ retired <= Len(Head(ROB).dst)
  /\ pc # "retire" => retired = 0
  /\ \A i \in DOMAIN ROB :
       /\ EntryProgress(ROB[i])
       /\ ROB[i].named > 0 /\ ~ROB[i].scheduled => pc = "rename" /\ i = visiting

(* The free registers cover what is left of the instruction being renamed:  *)
(* its sources nobody has written, and its destinations.                   *)
Unmapped(e) == {k \in DOMAIN e.src : k > e.named /\ ~isAllocated(e.src[k])}
DestsLeft(e) == IF e.named <= Len(e.src) THEN Len(e.dst) ELSE Size(e) - e.named
Budget ==
  pc = "rename" =>
    Len(free_registers) >= Cardinality(Unmapped(ROB[visiting])) + DestsLeft(ROB[visiting])

(* A register has a committed name, or a write in flight, only when it has  *)
(* a newest name.                                                          *)
Mapped ==
  /\ \A a \in Arch : backend_RAT[a] # NoReg => isAllocated(a)
  /\ \A i \in DOMAIN ROB : \A k \in Named(i) : isAllocated(reg[ROB[i].dst[k]].arch)

(* Where the loop of schedule_instruction is, every older instruction has   *)
(* been renamed.                                                           *)
OlderRenamed ==
  pc \in {"visit", "rename"} => \A i \in DOMAIN ROB : i < visiting => ROB[i].scheduled

(* The inductive invariant: a register is taken only from a queue that      *)
(* holds what the instruction still needs, it leaves that queue for exactly *)
(* one other place, and no instruction overtakes an older one in renaming. *)
Inv ==
  /\ TypeOK /\ Progress /\ Budget
  /\ OnePlace /\ Mapped /\ NoLeak
  /\ RenamedInOrder /\ OlderRenamed
-----------------------------------------------------------------------------
(* What the proofs add for the values an instruction reads.                 *)
-----------------------------------------------------------------------------
(* An operand that has not been reached is still architectural.             *)
OperandsKept ==
  \A i \in DOMAIN ROB :
    LET e == ROB[i]
    IN  /\ Len(e.asrc) = Len(e.src) /\ Len(e.adst) = Len(e.dst)
        /\ \A k \in DOMAIN e.src : k > e.named => e.src[k] = e.asrc[k]
        /\ \A k \in DOMAIN e.dst : k + Len(e.src) > e.named => e.dst[k] = e.adst[k]

(* The register file knows whose name a destination in flight is, and takes *)
(* it for valid only when the instruction has completed.                   *)
FileKept ==
  \A i \in DOMAIN ROB : \A k \in Named(i) :
    /\ reg[ROB[i].dst[k]].arch = ROB[i].adst[k]
    /\ reg[ROB[i].dst[k]].valid => ROB[i].completed

(* A source holds the name its register had at that point of the program,   *)
(* until the head starts to retire: from then on it reads nothing.         *)
SourcesNamed ==
  \A i \in DOMAIN ROB : i > 1 \/ pc # "retire" =>
    \A k \in DOMAIN ROB[i].src :
      k <= ROB[i].named => ROB[i].src[k] = NameAfter(i - 1, ROB[i].asrc[k])

(* The frontend table holds the name of the youngest write that has one,    *)
(* and the committed name when there is none in the ROB.                   *)
NamedWrites(i, a) == {k \in Writes(i, a) : k + Len(ROB[i].src) <= ROB[i].named}
YoungestNamed(a, i, k) ==
  /\ k \in NamedWrites(i, a)
  /\ \A l \in NamedWrites(i, a) : l <= k
  /\ \A j \in DOMAIN ROB : j > i => NamedWrites(j, a) = {}
FrontendNewest ==
  \A a \in Arch :
    /\ (\A i \in DOMAIN ROB : NamedWrites(i, a) = {}) => frontend_RAT[a] = backend_RAT[a]
    /\ \A i \in DOMAIN ROB : \A k \in DOMAIN ROB[i].adst :
         YoungestNamed(a, i, k) => frontend_RAT[a] = ROB[i].dst[k]

(* What the head has retired so far is what the backend table holds.        *)
RetiredCommitted ==
  pc = "retire" =>
    \A k \in 1 .. retired :
      (\A l \in 1 .. retired : Head(ROB).adst[l] = Head(ROB).adst[k] => l <= k)
        => backend_RAT[Head(ROB).adst[k]] = Head(ROB).dst[k]

(* The inductive invariant for the values read: the names follow the        *)
(* program through both tables, and a valid name is a completed write.     *)
ReadInv ==
  /\ Inv
  /\ OperandsKept /\ FileKept /\ SourcesNamed
  /\ FrontendNewest /\ RetiredCommitted /\ ExecutesAfterProducers
=============================================================================
