------------------------------- MODULE FrontEnd -------------------------------
(***************************************************************************)
(* The front end of a core (src/src/ooo_cpu.cc): instructions are read     *)
(* from the trace, looked up in the decoded instruction buffer (DIB),      *)
(* fetched from the L1I in groups of one block, promoted to the decoder or *)
(* past it, decoded and dispatched.  A mispredicted branch stops reading   *)
(* until it is resolved, at decode or when it completes.                   *)
(*                                                                         *)
(* A step is one instruction (or one L1I request) through one handler, and *)
(* handlers run in any order: the widths of the handlers, the latencies of *)
(* the stages and the clock choose among these interleavings.              *)
(***************************************************************************)
EXTENDS Naturals, FiniteSets, SequencesExt

CONSTANTS
  Ip,              \* addresses of instructions
  Block, BlockOf,  \* [Ip -> Block]: the L1I block of an instruction
  Line, LineOf,    \* [Ip -> Line]: its line of the decoded instruction buffer
  Registers,       \* sets of <<read, written>> register classes the trace may hold
  TRACE_LENGTH,    \* bound: instructions in the trace
  IFETCH_BUFFER_SIZE, DIB_HIT_BUFFER_SIZE, DECODE_BUFFER_SIZE, DISPATCH_BUFFER_SIZE,
  DIB_WAYS,        \* capacity of the decoded instruction buffer
  L1I_QUEUE_SIZE   \* requests the L1I accepts

ASSUME LengthAssumption == TRACE_LENGTH \in Nat

VARIABLES
  warmup,        \* the phase is a warmup phase
  read,          \* instructions read from the trace; they are numbered from 1
  IFETCH_BUFFER, DIB_HIT_BUFFER, DECODE_BUFFER, DISPATCH_BUFFER,
  ROB,           \* dispatched instructions that have not completed
  DIB,           \* lines of the DIB, the most recently used first
  fetch_resume,  \* "now", "penalty" (at a known time) or "never" (time_point::max)
  requests,      \* requests the L1I has accepted and not answered
  returned       \* L1I_bus.lower_level->returned

vars == <<warmup, read, IFETCH_BUFFER, DIB_HIT_BUFFER, DECODE_BUFFER, DISPATCH_BUFFER, ROB,
          DIB, fetch_resume, requests, returned>>

InstructionType ==
  [instr_id : 1..TRACE_LENGTH, ip : Ip, branch_mispredicted : BOOLEAN, found_at_decode : BOOLEAN,
   dib_checked : BOOLEAN, fetch_issued : BOOLEAN, fetch_completed : BOOLEAN, decoded : BOOLEAN]
DispatchedType == [instr_id : 1..TRACE_LENGTH, branch_mispredicted : BOOLEAN]

Init ==
  /\ warmup \in BOOLEAN
  /\ read = 0
  /\ IFETCH_BUFFER = <<>> /\ DIB_HIT_BUFFER = <<>>
  /\ DECODE_BUFFER = <<>> /\ DISPATCH_BUFFER = <<>>
  /\ ROB = {}
  /\ DIB = <<>>
  /\ fetch_resume = "now"
  /\ requests = {}
  /\ returned = <<>>

-----------------------------------------------------------------------------
(* The kind of a branch, from the registers it reads and writes: the       *)
(* constructor of ooo_model_instr tries these in order.                    *)
BranchType(reads, writes) ==
  LET sp == "SP" \in reads
      ip == "IP" \in reads
      flags == "FLAGS" \in reads
      other == "other" \in reads
  IN  CASE "IP" \notin writes -> "NOT_BRANCH"
        [] OTHER ->
           CASE ~sp /\ ~flags /\ ~other -> "DIRECT_JUMP"
             [] ~sp /\ ~ip /\ ~flags /\ other -> "INDIRECT"
             [] ~sp /\ ip /\ "SP" \notin writes /\ (flags \/ other) -> "CONDITIONAL"
             [] sp /\ ip /\ "SP" \in writes /\ ~flags /\ ~other -> "DIRECT_CALL"
             [] sp /\ ip /\ "SP" \in writes /\ ~flags /\ other -> "INDIRECT_CALL"
             [] sp /\ ~ip /\ "SP" \in writes -> "RETURN"
             [] OTHER -> "OTHER"

(* The mispredictions that decode finds out: the target of a direct jump or *)
(* call, and of a branch whose direction was predicted right.              *)
FoundAtDecode(branch, direction_right) ==
  \/ branch \in {"DIRECT_JUMP", "DIRECT_CALL"}
  \/ branch \in {"CONDITIONAL", "OTHER"} /\ direction_right

(* initialize_instruction, one instruction: do_init_instruction predicts    *)
(* it, and a misprediction outside of warmup stops reading.                *)
Read(ip, registers, direction_right, target_right) ==
  LET branch == BranchType(registers[1], registers[2])
      wrong == branch # "NOT_BRANCH" /\ ~(direction_right /\ target_right)
  IN
  /\ fetch_resume = "now"
  /\ read < TRACE_LENGTH
  /\ Len(IFETCH_BUFFER) < IFETCH_BUFFER_SIZE
  /\ branch = "NOT_BRANCH" => direction_right /\ target_right
  /\ read' = read + 1
  /\ IFETCH_BUFFER' =
       Append(IFETCH_BUFFER,
              [instr_id |-> read + 1, ip |-> ip,
               branch_mispredicted |-> wrong /\ ~warmup,
               found_at_decode |-> wrong /\ ~warmup /\ FoundAtDecode(branch, direction_right),
               dib_checked |-> FALSE, fetch_issued |-> FALSE,
               fetch_completed |-> FALSE, decoded |-> FALSE])
  /\ fetch_resume' = IF wrong /\ ~warmup THEN "never" ELSE fetch_resume
  /\ UNCHANGED <<warmup, DIB_HIT_BUFFER, DECODE_BUFFER, DISPATCH_BUFFER, ROB, DIB, requests, returned>>

(* The first instruction of a buffer that a handler has still to look at. *)
FirstUnchecked == SelectInSeq(IFETCH_BUFFER, LAMBDA x : ~x.dib_checked)
FirstToFetch == SelectInSeq(IFETCH_BUFFER, LAMBDA x : x.dib_checked /\ ~x.fetch_issued)

(* DIB.check_hit and DIB.fill: the line becomes the most recently used. *)
Used(dib, line) ==
  LET others == SelectSeq(dib, LAMBDA x : x # line)
  IN  <<line>> \o SubSeq(others, 1, IF Len(others) < DIB_WAYS THEN Len(others) ELSE DIB_WAYS - 1)

(* check_dib, one instruction. *)
CheckDib ==
  LET i == FirstUnchecked
      line == LineOf[IFETCH_BUFFER[i].ip]
      hit == Contains(DIB, line)
  IN
  /\ i # 0
  /\ IFETCH_BUFFER' =
       [IFETCH_BUFFER EXCEPT ![i].dib_checked = TRUE,
                             ![i].fetch_completed = @ \/ hit,
                             ![i].decoded = @ \/ hit]
  /\ DIB' = IF hit THEN Used(DIB, line) ELSE DIB
  /\ UNCHANGED <<warmup, read, DIB_HIT_BUFFER, DECODE_BUFFER, DISPATCH_BUFFER, ROB,
                 fetch_resume, requests, returned>>

(* fetch_instruction, one request: the instructions from the first that is *)
(* to be fetched to the last of the run in its block, the ones that have   *)
(* not been looked up in the DIB yet included.                             *)
Group(first) ==
  {i \in first..Len(IFETCH_BUFFER) :
     \A j \in first..i : BlockOf[IFETCH_BUFFER[j].ip] = BlockOf[IFETCH_BUFFER[first].ip]}

Fetch ==
  LET first == FirstToFetch
      group == Group(first)
  IN
  /\ first # 0
  /\ Cardinality(requests) < L1I_QUEUE_SIZE
  /\ requests' = requests \cup
       {[block |-> BlockOf[IFETCH_BUFFER[first].ip],
         deps |-> {IFETCH_BUFFER[i].instr_id : i \in group}]}
  /\ IFETCH_BUFFER' =
       [i \in DOMAIN IFETCH_BUFFER |->
          IF i \in group THEN [IFETCH_BUFFER[i] EXCEPT !.fetch_issued = TRUE] ELSE IFETCH_BUFFER[i]]
  /\ UNCHANGED <<warmup, read, DIB_HIT_BUFFER, DECODE_BUFFER, DISPATCH_BUFFER, ROB, DIB,
                 fetch_resume, returned>>

(* The L1I answers requests for one block, which it may have merged. *)
L1IAnswer(merged) ==
  /\ requests' = requests \ merged
  /\ returned' = Append(returned, [block |-> (CHOOSE r \in merged : TRUE).block,
                                   deps |-> UNION {r.deps : r \in merged}])
  /\ UNCHANGED <<warmup, read, IFETCH_BUFFER, DIB_HIT_BUFFER, DECODE_BUFFER, DISPATCH_BUFFER,
                 ROB, DIB, fetch_resume>>

(* handle_memory_return, one dependent of the oldest response: the         *)
(* instruction completes its fetch if it is still waiting for it.          *)
FetchedBy(response, id) ==
  {i \in DOMAIN IFETCH_BUFFER :
     /\ IFETCH_BUFFER[i].instr_id = id
     /\ BlockOf[IFETCH_BUFFER[i].ip] = response.block
     /\ IFETCH_BUFFER[i].fetch_issued}

LeftOfAll(response, id) == {}                                  \* mutant
LeftOf(response, id) == response.deps \ {id}

MemoryReturn ==
  /\ returned # <<>>
  /\ LET response == Head(returned)
         id == CHOOSE d \in response.deps : \A e \in response.deps : d <= e
         left == LeftOf(response, id)
     IN
     /\ IFETCH_BUFFER' =
          [i \in DOMAIN IFETCH_BUFFER |->
             [IFETCH_BUFFER[i] EXCEPT !.fetch_completed = @ \/ i \in FetchedBy(response, id)]]
     /\ returned' = IF left = {} THEN Tail(returned)
                    ELSE [returned EXCEPT ![1].deps = left]
  /\ UNCHANGED <<warmup, read, DIB_HIT_BUFFER, DECODE_BUFFER, DISPATCH_BUFFER, ROB, DIB,
                 fetch_resume, requests>>

(* promote_to_decode, one instruction: the oldest, when it is fetched and   *)
(* both buffers have room.                                                 *)
Promotable == {i \in DOMAIN IFETCH_BUFFER : i = 1 /\ IFETCH_BUFFER[i].fetch_completed}

PromoteToDecode(i) ==
  /\ i \in Promotable
  /\ Len(DIB_HIT_BUFFER) < DIB_HIT_BUFFER_SIZE
  /\ Len(DECODE_BUFFER) < DECODE_BUFFER_SIZE
  /\ LET x == IFETCH_BUFFER[i] IN
       IF x.decoded
         THEN DIB_HIT_BUFFER' = Append(DIB_HIT_BUFFER, x) /\ UNCHANGED DECODE_BUFFER
         ELSE DECODE_BUFFER' = Append(DECODE_BUFFER, x) /\ UNCHANGED DIB_HIT_BUFFER
  /\ IFETCH_BUFFER' = RemoveAt(IFETCH_BUFFER, i)
  /\ UNCHANGED <<warmup, read, DISPATCH_BUFFER, ROB, DIB, fetch_resume, requests, returned>>

(* program_order of the heads of the two buffers, the test of the three    *)
(* loops of decode_instruction.                                            *)
GoesFirstAlways(mine, other) == mine # <<>>                    \* mutant
GoesFirst(mine, other) ==
  mine # <<>> /\ \A i \in DOMAIN other : i = 1 => mine[1].instr_id < other[i].instr_id

(* A branch that is resolved at decode loses its mark, so that it does not *)
(* resume the fetch again when it completes.                               *)
ResolvedAtDecode(x) == x.branch_mispredicted /\ x.found_at_decode
Dispatched(x, mispredicted) == [instr_id |-> x.instr_id, branch_mispredicted |-> mispredicted]
AfterDecodeStillMarked(x) == Dispatched(x, x.branch_mispredicted)             \* mutant
AfterDecode(x) == Dispatched(x, x.branch_mispredicted /\ ~ResolvedAtDecode(x))

(* do_dib_hit *)
DibHit ==
  /\ GoesFirst(DIB_HIT_BUFFER, DECODE_BUFFER)
  /\ Len(DISPATCH_BUFFER) < DISPATCH_BUFFER_SIZE
  /\ LET x == Head(DIB_HIT_BUFFER) IN
       DISPATCH_BUFFER' = Append(DISPATCH_BUFFER, Dispatched(x, x.branch_mispredicted))
  /\ DIB_HIT_BUFFER' = Tail(DIB_HIT_BUFFER)
  /\ UNCHANGED <<warmup, read, IFETCH_BUFFER, DECODE_BUFFER, ROB, DIB, fetch_resume, requests, returned>>

(* do_decode *)
Decode ==
  /\ GoesFirst(DECODE_BUFFER, DIB_HIT_BUFFER)
  /\ Len(DISPATCH_BUFFER) < DISPATCH_BUFFER_SIZE
  /\ LET x == Head(DECODE_BUFFER) IN
     /\ DIB' = Used(DIB, LineOf[x.ip])
     /\ fetch_resume' = IF ResolvedAtDecode(x) THEN "penalty" ELSE fetch_resume
     /\ DISPATCH_BUFFER' = Append(DISPATCH_BUFFER, AfterDecode(x))
  /\ DECODE_BUFFER' = Tail(DECODE_BUFFER)
  /\ UNCHANGED <<warmup, read, IFETCH_BUFFER, DIB_HIT_BUFFER, ROB, requests, returned>>

(* dispatch_instruction, one instruction; the room it needs in the ROB and *)
(* in the load and store queues is the subject of Rename and LSQ.          *)
Dispatch ==
  /\ DISPATCH_BUFFER # <<>>
  /\ ROB' = ROB \cup {Head(DISPATCH_BUFFER)}
  /\ DISPATCH_BUFFER' = Tail(DISPATCH_BUFFER)
  /\ UNCHANGED <<warmup, read, IFETCH_BUFFER, DIB_HIT_BUFFER, DECODE_BUFFER, DIB, fetch_resume,
                 requests, returned>>

(* do_complete_execution, in any order. *)
Complete(x) ==
  /\ x \in ROB
  /\ ROB' = ROB \ {x}
  /\ fetch_resume' = IF x.branch_mispredicted THEN "penalty" ELSE fetch_resume
  /\ UNCHANGED <<warmup, read, IFETCH_BUFFER, DIB_HIT_BUFFER, DECODE_BUFFER, DISPATCH_BUFFER,
                 DIB, requests, returned>>

(* The time of fetch_resume_time comes. *)
Resume ==
  /\ fetch_resume = "penalty"
  /\ fetch_resume' = "now"
  /\ UNCHANGED <<warmup, read, IFETCH_BUFFER, DIB_HIT_BUFFER, DECODE_BUFFER, DISPATCH_BUFFER,
                 ROB, DIB, requests, returned>>

(* The warmup phase ends (src/src/champsim.cc). *)
EndWarmup ==
  /\ warmup
  /\ warmup' = FALSE
  /\ UNCHANGED <<read, IFETCH_BUFFER, DIB_HIT_BUFFER, DECODE_BUFFER, DISPATCH_BUFFER, ROB, DIB,
                 fetch_resume, requests, returned>>

ReadAny ==
  \E ip \in Ip, registers \in Registers, d, t \in BOOLEAN : Read(ip, registers, d, t)
AnswerAny ==
  \E merged \in SUBSET requests :
     /\ merged # {}
     /\ \A r, s \in merged : r.block = s.block
     /\ L1IAnswer(merged)
PromoteAny == \E i \in DOMAIN IFETCH_BUFFER : PromoteToDecode(i)
CompleteAny == \E x \in ROB : Complete(x)

Next ==
  \/ ReadAny
  \/ CheckDib
  \/ Fetch
  \/ AnswerAny
  \/ MemoryReturn
  \/ PromoteAny
  \/ DibHit
  \/ Decode
  \/ Dispatch
  \/ CompleteAny
  \/ Resume
  \/ EndWarmup

Spec == Init /\ [][Next]_vars

(* operate calls every handler in every cycle, the trace does not end       *)
(* before TRACE_LENGTH, the L1I answers every request in the end           *)
(* (DemandsAnswered of Cache), and every dispatched instruction completes  *)
(* in the end (Retires of Rename, Drains of LSQ).                          *)
Fairness ==
  /\ WF_vars(ReadAny) /\ WF_vars(CheckDib) /\ WF_vars(Fetch) /\ WF_vars(MemoryReturn)
  /\ WF_vars(PromoteAny) /\ WF_vars(DibHit) /\ WF_vars(Decode) /\ WF_vars(Dispatch)
  /\ WF_vars(Resume)
  /\ WF_vars(AnswerAny)
  /\ \A n \in 1..TRACE_LENGTH : WF_vars(\E x \in ROB : x.instr_id = n /\ Complete(x))

FairSpec == Spec /\ Fairness

-----------------------------------------------------------------------------
TypeOK ==
  /\ warmup \in BOOLEAN
  /\ read \in 0..TRACE_LENGTH
  /\ \A b \in {IFETCH_BUFFER, DIB_HIT_BUFFER, DECODE_BUFFER} : ToSet(b) \subseteq InstructionType
  /\ ToSet(DISPATCH_BUFFER) \cup ROB \subseteq DispatchedType
  /\ fetch_resume \in {"now", "penalty", "never"}

(* The front end is one queue: the dispatch buffer, then what is being      *)
(* decoded or has skipped decode, then the fetch buffer, hold consecutive  *)
(* instructions in program order, none lost or twice, although hits in the *)
(* DIB overtake the decoder and fetches complete out of order              *)
(* (promote_to_decode, decode_instruction; the merge in                    *)
(* src/src/ooo_cpu.cc:396 is only right when both of its inputs are        *)
(* sorted).                                                                *)
Decoding == {x.instr_id : x \in ToSet(DIB_HIT_BUFFER) \cup ToSet(DECODE_BUFFER)}
OneQueue ==
  LET n == Len(DIB_HIT_BUFFER) + Len(DECODE_BUFFER)
      total == Len(DISPATCH_BUFFER) + n + Len(IFETCH_BUFFER)
      first == read - total    \* the last instruction that was dispatched
      middle == first + Len(DISPATCH_BUFFER)
  IN
  /\ TypeOK
  /\ \A i \in DOMAIN DISPATCH_BUFFER : DISPATCH_BUFFER[i].instr_id = first + i
  /\ Decoding = (middle + 1)..(middle + n)
  /\ \A i \in DOMAIN IFETCH_BUFFER : IFETCH_BUFFER[i].instr_id = middle + n + i

(* Reading is stopped exactly while a mispredicted branch is in flight, and *)
(* that branch is the last instruction that was read: no instruction of a  *)
(* wrong path is ever read, no branch resumes the fetch for another one,   *)
(* and the front end never stops with nobody left to start it again, on    *)
(* whichever path the branch went (src/src/ooo_cpu.cc:174, 369, 641).      *)
InFlight ==
  ROB \cup UNION {ToSet(b) : b \in {IFETCH_BUFFER, DIB_HIT_BUFFER, DECODE_BUFFER, DISPATCH_BUFFER}}
Mispredicted == {x \in InFlight : x.branch_mispredicted}
StoppedByYoungest ==
  /\ fetch_resume = "never" <=> Mispredicted # {}
  /\ \A x \in Mispredicted : x.instr_id = read

(* Both: one queue in program order, stopped by its youngest branch         *)
(* (promote_to_decode, decode_instruction, do_init_instruction).           *)
InOrderUntilStopped == OneQueue /\ StoppedByYoungest

(* Every instruction of the trace is read and reaches the reorder buffer,   *)
(* whatever was mispredicted before it, whichever way it took past the     *)
(* decoder and however its fetch was merged (src/src/ooo_cpu.cc:112, 660). *)
AllDispatched == <>(read = TRACE_LENGTH /\ InFlight \subseteq ROB)
=============================================================================
