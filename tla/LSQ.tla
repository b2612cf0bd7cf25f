---------------------------------- MODULE LSQ ----------------------------------
(***************************************************************************)
(* The load and store queues of O3_CPU (src/src/ooo_cpu.cc): memory        *)
(* operations from the dispatch of their instruction to the L1D channel    *)
(* and back, and the retirement that waits for them.                       *)
(*                                                                         *)
(* Latencies and widths only decide when an enabled step is taken, and     *)
(* register operands (module Rename) only delay execution.  The L1D is     *)
(* reduced to its promise: reads of one block may be merged, each is       *)
(* answered, in any order.                                                 *)
(***************************************************************************)
EXTENDS Naturals, Sequences, FiniteSets, Functions

CONSTANTS
  Addr, DataBlock, DataBlockOf,
  Kinds,               \* instructions: the addresses they load and store
  ROB_SIZE, LQ_SIZE, SQ_SIZE,
  RQ_SIZE, WQ_SIZE,    \* room in the L1D channel
  LAST_ID              \* length of the trace

VARIABLES
  pc,        \* "stages", or "dispatch" inside do_memory_scheduling
  placed,    \* loads of the youngest instruction already placed
  next_id,
  rob, LQ, SQ,
  l1d        \* reads below by block, writes below, blocks returned

lsqVars == <<pc, placed, next_id, rob, LQ, SQ, l1d>>

(* An instruction has lists of the addresses it loads and stores. *)
LSQAssumption ==
  /\ DataBlockOf \in [Addr -> DataBlock]
  /\ Kinds \subseteq [loads : Seq(Addr), stores : Seq(Addr)]
  /\ {ROB_SIZE, LQ_SIZE, SQ_SIZE, RQ_SIZE, WQ_SIZE, LAST_ID} \subseteq Nat

Slots == 1 .. LQ_SIZE
Ids == 1 .. LAST_ID
NoProducer == 0
Empty == [id |-> 0]       \* an LQ slot without a value

Youngest == rob[Len(rob)]
FreeSlots == {q \in Slots : LQ[q] = Empty}
FirstOf(S) == CHOOSE x \in S : \A y \in S : x <= y

LSQInit ==
  /\ pc = "stages" /\ placed = 0
  /\ next_id = 1
  /\ rob = <<>>
  /\ LQ = [q \in Slots |-> Empty]
  /\ SQ = <<>>
  /\ l1d = [reads |-> [b \in DataBlock |-> 0], writes |-> 0, returned |-> <<>>]

-----------------------------------------------------------------------------
(* LSQ_ENTRY::finish, for all the operations of the set of ids and counts   *)
(* given by n: completed_mem_ops grows in the ROB entry of each.           *)
Finished(n) == [i \in DOMAIN rob |-> [rob[i] EXCEPT !.ops = @ + n[rob[i].id]]]
CountIn(S) == [d \in Ids |-> Cardinality({q \in S : LQ[q].id = d})]

(* dispatch_instruction: room in the ROB, the LQ and the SQ for all of it. *)
HasRoomFor(k) ==
  /\ Len(rob) < ROB_SIZE
  /\ Cardinality(FreeSlots) >= Len(k.loads)
  /\ Len(k.stores) + Len(SQ) <= SQ_SIZE

DispatchInstruction(k) ==
  /\ pc = "stages"
  /\ next_id <= LAST_ID
  /\ HasRoomFor(k)
  /\ rob' = Append(rob, [id |-> next_id, loads |-> k.loads, stores |-> k.stores, ops |-> 0,
                         executed |-> FALSE, completed |-> FALSE])
  /\ next_id' = next_id + 1
  /\ pc' = "dispatch" /\ placed' = 0
  /\ UNCHANGED <<LQ, SQ, l1d>>

(* std::max_element over the SQ, with the comparison of do_memory_scheduling *)
Precedes(x, y, a) == x.addr # a \/ (y.addr = a /\ x.id < y.id)
MaxElement(a) ==
  LET largest[n \in 1 .. Len(SQ)] ==
        IF n = 1 THEN 1
        ELSE IF Precedes(SQ[largest[n - 1]], SQ[n], a) THEN n ELSE largest[n - 1]
  IN  largest[Len(SQ)]

(* Where a load of a is forwarded from: 0, or a store in the SQ *)
OldestForward(a) ==                                            \* mutant
  LET S == {n \in DOMAIN SQ : SQ[n].addr = a} IN IF S = {} THEN 0 ELSE FirstOf(S)
ForwardedFrom(a) ==
  IF SQ # <<>> /\ SQ[MaxElement(a)].addr = a THEN MaxElement(a) ELSE 0

LoadEntry(a, p) ==
  [id |-> Youngest.id, addr |-> a, ready |-> FALSE, issued |-> FALSE, producer |-> p]

(* do_memory_scheduling, the next load: it is finished at once by a store   *)
(* that was issued, waits for one that was not, or goes to the LQ alone.   *)
PlaceLoad ==
  LET a == Youngest.loads[placed + 1]
      q == FirstOf(FreeSlots)
      n == ForwardedFrom(a)
  IN  /\ pc = "dispatch"
      /\ placed < Len(Youngest.loads)
      /\ FreeSlots # {}
      /\ placed' = placed + 1
      /\ IF n # 0 /\ SQ[n].issued
           THEN /\ rob' = Finished([d \in Ids |-> IF d = Youngest.id THEN 1 ELSE 0])
                /\ UNCHANGED <<LQ, SQ>>
           ELSE /\ LQ' = [LQ EXCEPT ![q] = LoadEntry(a, IF n = 0 THEN NoProducer ELSE SQ[n].id)]
                /\ SQ' = IF n = 0 THEN SQ
                         ELSE [SQ EXCEPT ![n].dependents = @ \cup {q}]
                /\ UNCHANGED rob
      /\ UNCHANGED <<pc, next_id, l1d>>

StoreEntry(a) ==
  [id |-> Youngest.id, addr |-> a, ready |-> FALSE, issued |-> FALSE, dependents |-> {}]

PlaceStores ==
  /\ pc = "dispatch"
  /\ placed = Len(Youngest.loads)
  /\ SQ' = SQ \o [k \in DOMAIN Youngest.stores |-> StoreEntry(Youngest.stores[k])]
  /\ pc' = "stages" /\ placed' = 0
  /\ UNCHANGED <<next_id, rob, LQ, l1d>>

-----------------------------------------------------------------------------
(* do_execution: the addresses of the instruction are known. *)
Execute(i) ==
  /\ pc = "stages"
  /\ ~rob[i].executed
  /\ rob' = [rob EXCEPT ![i] = [@ EXCEPT !.executed = TRUE]]
  /\ LQ' = [q \in Slots |->
              IF LQ[q].id = rob[i].id THEN [LQ[q] EXCEPT !.ready = TRUE] ELSE LQ[q]]
  /\ SQ' = [n \in DOMAIN SQ |->
              IF SQ[n].id = rob[i].id THEN [SQ[n] EXCEPT !.ready = TRUE] ELSE SQ[n]]
  /\ UNCHANGED <<pc, placed, next_id, l1d>>

(* complete_inflight_instruction *)
NumMemOps(e) == Len(e.loads) + Len(e.stores)
ExecutedOnly(e) == e.executed                                  \* mutant
CanComplete(e) == e.executed /\ e.ops = NumMemOps(e)
CompleteInstruction(i) ==
  /\ pc = "stages"
  /\ ~rob[i].completed
  /\ CanComplete(rob[i])
  /\ rob' = [rob EXCEPT ![i] = [@ EXCEPT !.completed = TRUE]]
  /\ UNCHANGED <<pc, placed, next_id, LQ, SQ, l1d>>

(* retire_rob *)
Retire ==
  /\ pc = "stages"
  /\ rob # <<>>
  /\ Head(rob).completed
  /\ rob' = Tail(rob)
  /\ UNCHANGED <<pc, placed, next_id, LQ, SQ, l1d>>

-----------------------------------------------------------------------------
(* operate_lsq                                                             *)
-----------------------------------------------------------------------------
(* The partition point of the SQ: the first store that was not issued. *)
NextToIssue ==
  {n \in DOMAIN SQ : /\ ~SQ[n].issued /\ SQ[n].ready
                     /\ \A m \in 1 .. n - 1 : SQ[m].issued}

(* The slots of finished loads are empty. *)
Released(S) == [q \in Slots |-> IF q \in S THEN Empty ELSE LQ[q]]

(* do_finish_store, with the loads that wait for the store *)
FinishStore ==
  \E n \in NextToIssue :
    LET loads == CountIn(SQ[n].dependents)
    IN  /\ pc = "stages"
        /\ rob' = Finished([d \in Ids |-> loads[d] + IF d = SQ[n].id THEN 1 ELSE 0])
        /\ LQ' = Released(SQ[n].dependents)
        /\ SQ' = [SQ EXCEPT ![n] = [@ EXCEPT !.issued = TRUE]]
        /\ UNCHANGED <<pc, placed, next_id, l1d>>

(* The store at the head has retired: it is older than the whole ROB. *)
HasRetired(s) == \A i \in DOMAIN rob : s.id < rob[i].id

(* do_complete_store, when the L1D takes the write *)
CompleteStore ==
  /\ pc = "stages"
  /\ SQ # <<>>
  /\ HasRetired(Head(SQ)) /\ Head(SQ).ready
  /\ l1d.writes < WQ_SIZE
  /\ SQ' = Tail(SQ)
  /\ l1d' = [l1d EXCEPT !.writes = @ + 1]
  /\ UNCHANGED <<pc, placed, next_id, rob, LQ>>

(* execute_load, for the first slot of the LQ that can be issued *)
Issuable == {q \in Slots : LQ[q] # Empty /\ LQ[q].ready /\ ~LQ[q].issued /\ LQ[q].producer = NoProducer}
ReadsBelow == FoldFunction(+, 0, l1d.reads)
IssueLoad ==
  /\ pc = "stages"
  /\ Issuable # {}
  /\ ReadsBelow < RQ_SIZE
  /\ LET q == FirstOf(Issuable)
     IN  /\ LQ' = [LQ EXCEPT ![q] = [@ EXCEPT !.issued = TRUE]]
         /\ l1d' = [l1d EXCEPT !.reads[DataBlockOf[LQ[q].addr]] = @ + 1]
  /\ UNCHANGED <<pc, placed, next_id, rob, SQ>>

-----------------------------------------------------------------------------
(* handle_memory_return: a block finishes every load of it that was issued. *)
OneOf(S) == IF S = {} THEN {} ELSE {FirstOf(S)}
FirstReturned(b) ==                                            \* mutant
  OneOf({q \in Slots : LQ[q] # Empty /\ LQ[q].issued /\ DataBlockOf[LQ[q].addr] = b})
UnissuedToo(b) == {q \in Slots : LQ[q] # Empty /\ DataBlockOf[LQ[q].addr] = b}    \* mutant
ReturnedLoads(b) == {q \in Slots : LQ[q] # Empty /\ LQ[q].issued /\ DataBlockOf[LQ[q].addr] = b}

HandleReturn ==
  LET done == ReturnedLoads(Head(l1d.returned))
  IN  /\ pc = "stages"
      /\ l1d.returned # <<>>
      /\ rob' = Finished(CountIn(done))
      /\ LQ' = Released(done)
      /\ l1d' = [l1d EXCEPT !.returned = Tail(@)]
      /\ UNCHANGED <<pc, placed, next_id, SQ>>

(* The L1D answers reads of a block, one or several of them merged. *)
AnswerReads(b, n) ==
  /\ pc = "stages"
  /\ n <= l1d.reads[b]
  /\ l1d' = [l1d EXCEPT !.reads[b] = @ - n, !.returned = Append(@, b)]
  /\ UNCHANGED <<pc, placed, next_id, rob, LQ, SQ>>

TakeWrite ==
  /\ pc = "stages"
  /\ l1d.writes > 0
  /\ l1d' = [l1d EXCEPT !.writes = @ - 1]
  /\ UNCHANGED <<pc, placed, next_id, rob, LQ, SQ>>

LSQNext ==
  \/ \E k \in Kinds : DispatchInstruction(k)
  \/ PlaceLoad \/ PlaceStores
  \/ \E i \in DOMAIN rob : Execute(i)
  \/ \E i \in DOMAIN rob : CompleteInstruction(i)
  \/ Retire
  \/ FinishStore \/ CompleteStore \/ IssueLoad
  \/ HandleReturn
  \/ \E b \in DataBlock : \E n \in 1 .. l1d.reads[b] : AnswerReads(b, n)
  \/ TakeWrite

LSQSpec == LSQInit /\ [][LSQNext]_lsqVars

(* operate() runs every stage in every cycle, each latency ends, and the    *)
(* L1D keeps its promise.  No fairness is given to a single instruction or  *)
(* load: the loops over the ROB and the LQ begin at their first entry.     *)
LSQFairness ==
  /\ WF_lsqVars(\E k \in Kinds : DispatchInstruction(k))
  /\ WF_lsqVars(PlaceLoad \/ PlaceStores)
  /\ WF_lsqVars(\E i \in DOMAIN rob : Execute(i))
  /\ WF_lsqVars(\E i \in DOMAIN rob : CompleteInstruction(i))
  /\ WF_lsqVars(Retire)
  /\ WF_lsqVars(FinishStore)
  /\ WF_lsqVars(CompleteStore)
  /\ WF_lsqVars(IssueLoad)
  /\ WF_lsqVars(HandleReturn)
  /\ WF_lsqVars(\E b \in DataBlock : \E n \in 1 .. RQ_SIZE : AnswerReads(b, n))
  /\ WF_lsqVars(TakeWrite)

LSQFairSpec == LSQSpec /\ LSQFairness

-----------------------------------------------------------------------------
(* Properties                                                              *)
-----------------------------------------------------------------------------
Loads == {q \in Slots : LQ[q] # Empty}
InROB == {rob[i].id : i \in DOMAIN rob}

RobType == [id : Ids, loads : Seq(Addr), stores : Seq(Addr), ops : Nat,
            executed : BOOLEAN, completed : BOOLEAN]
LoadType == [id : Ids, addr : Addr, ready : BOOLEAN, issued : BOOLEAN,
             producer : Ids \cup {NoProducer}]
StoreType == [id : Ids, addr : Addr, ready : BOOLEAN, issued : BOOLEAN,
              dependents : SUBSET Slots]

(* The state has its types, and the three queues their sizes. *)
LSQTypeOK ==
  /\ pc \in {"stages", "dispatch"} /\ placed \in Nat /\ next_id \in 1 .. LAST_ID + 1
  /\ rob \in Seq(RobType) /\ Len(rob) <= ROB_SIZE
  /\ LQ \in [Slots -> LoadType \cup {Empty}]
  /\ SQ \in Seq(StoreType) /\ Len(SQ) <= SQ_SIZE
  /\ l1d \in [reads : [DataBlock -> Nat], writes : Nat, returned : Seq(DataBlock)]

(* Every memory operation of an instruction in the ROB is counted once: it  *)
(* was finished, or it is in the LQ, or in the SQ and not issued, or still  *)
(* to be placed.  So completed_mem_ops never passes num_mem_ops() (the      *)
(* assert of LSQ_ENTRY::finish) and never stays short of it.               *)
Unfinished(d) ==
  Cardinality({q \in Loads : LQ[q].id = d}) + Cardinality({n \in DOMAIN SQ : SQ[n].id = d /\ ~SQ[n].issued})
Unplaced(e) ==
  IF pc = "dispatch" /\ e = Youngest THEN NumMemOps(e) - placed ELSE 0
OpsCounted ==
  \A i \in DOMAIN rob :
    rob[i].ops + Unfinished(rob[i].id) + Unplaced(rob[i]) = NumMemOps(rob[i])

(* An instruction retires with nothing left to finish: a load in the LQ or  *)
(* a store not issued still has its ROB entry (rob_entry != end), and what  *)
(* do_complete_store takes from the SQ, without a look at fetch_issued, was *)
(* issued.                                                                 *)
RetiredFinished ==
  /\ \A q \in Loads : LQ[q].id \in InROB
  /\ \A n \in DOMAIN SQ : SQ[n].issued \/ SQ[n].id \in InROB

(* Nothing is counted twice, forgotten or left behind: the operations of    *)
(* every instruction are accounted for from its dispatch to its retirement. *)
OpsAccounted == LSQTypeOK /\ OpsCounted /\ RetiredFinished

(* The references of a store to its dependent loads do not dangle while it  *)
(* waits: each slot still holds a load of its address that waits for it     *)
(* (the asserts of do_finish_store), and a load that waits is referred to   *)
(* by a store that was not issued.                                         *)
WaitsFor(q, n) ==
  LQ[q] # Empty /\ LQ[q].producer = SQ[n].id /\ LQ[q].addr = SQ[n].addr
DependentsHeld ==
  /\ \A n \in DOMAIN SQ : ~SQ[n].issued => \A q \in SQ[n].dependents : WaitsFor(q, n)
  /\ \A q \in Loads : LQ[q].producer # NoProducer =>
       \E n \in DOMAIN SQ : ~SQ[n].issued /\ q \in SQ[n].dependents /\ WaitsFor(q, n)

(* A load waits for the youngest of the stores to its address that precede  *)
(* it in the SQ, and goes to the L1D only when there is none: it never sees *)
(* a value older than the last store before it.                            *)
WaitsForYoungest ==
  \A q \in Loads :
    LET older == {SQ[n].id : n \in {n \in DOMAIN SQ : SQ[n].addr = LQ[q].addr /\ SQ[n].id < LQ[q].id}}
    IN  IF older = {} THEN LQ[q].producer = NoProducer
        ELSE LQ[q].producer \in older /\ \A d \in older : d <= LQ[q].producer

(* A load sent to the L1D has an answer under way for its block, even when  *)
(* another answer finished the load its own request was for.               *)
LoadAwaited ==
  \A q \in Loads : LQ[q].issued =>
    LET b == DataBlockOf[LQ[q].addr]
    IN  l1d.reads[b] > 0 \/ \E n \in DOMAIN l1d.returned : l1d.returned[n] = b

(* Stores leave the SQ in program order and after they retire: those of an  *)
(* instruction in the ROB are all still there, in order.  The issued ones   *)
(* are a prefix, which the binary search of operate_lsq relies on.         *)
StoresHeld ==
  /\ \A m, n \in DOMAIN SQ : m < n => SQ[m].id <= SQ[n].id /\ (SQ[n].issued => SQ[m].issued)
  /\ \A i \in DOMAIN rob :
       LET held == {n \in DOMAIN SQ : SQ[n].id = rob[i].id}
       IN  Cardinality(held) = IF pc = "dispatch" /\ i = Len(rob) THEN 0 ELSE Len(rob[i].stores)

(* The queues hold what each of their entries waits for: a store the loads   *)
(* that depend on it, a load the store or the answer that finishes it, an   *)
(* instruction its stores.                                                 *)
WaitersHeld == DependentsHeld /\ LoadAwaited /\ StoresHeld

(* No operation is lost on its way through the queues. *)
OpsHeld == OpsAccounted /\ WaitersHeld

(* Why these hold: identifiers follow the program, and the stores of the    *)
(* instruction being dispatched come after its loads; what has completed    *)
(* has no operation left; a load sent to the L1D waits for no store; and    *)
(* no load waits for two.                                                  *)
ProgramOrder ==
  /\ \A i, j \in DOMAIN rob : i < j => rob[i].id < rob[j].id
  /\ \A i \in DOMAIN rob : rob[i].id < next_id
  /\ \A q \in Loads : LQ[q].id < next_id
  /\ \A n \in DOMAIN SQ : SQ[n].id < next_id
  /\ pc = "dispatch" =>
       /\ rob # <<>> /\ Youngest.id = next_id - 1
       /\ placed <= Len(Youngest.loads)
       /\ Len(SQ) + Len(Youngest.stores) <= SQ_SIZE
       /\ \A n \in DOMAIN SQ : SQ[n].id < Youngest.id
CompletedDone == \A i \in DOMAIN rob : rob[i].completed => rob[i].ops = NumMemOps(rob[i])
SentAlone == \A q \in Loads : LQ[q].issued => LQ[q].producer = NoProducer
WaitsForOne ==
  \A m, n \in DOMAIN SQ :
    m # n /\ ~SQ[m].issued /\ ~SQ[n].issued => SQ[m].dependents \cap SQ[n].dependents = {}

LSQInv ==
  /\ OpsHeld /\ WaitsForYoungest
  /\ ProgramOrder /\ CompletedDone /\ SentAlone /\ WaitsForOne

(* The whole trace is dispatched and retires, the stores are written, and   *)
(* no load is left in the LQ.                                              *)
Drains == <>[](next_id > LAST_ID /\ rob = <<>> /\ SQ = <<>> /\ Loads = {})
=============================================================================
