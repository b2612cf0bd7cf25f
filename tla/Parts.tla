--------------------------------- MODULE Parts ---------------------------------
(* The main loop, tables, addresses and the renamer, each on its own: `part`  *)
(* says which one a behaviour is of, and the variables of the others stay as *)
(* they are.                                                               *)
EXTENDS MainLoop

CONSTANTS
  Part,
  TableSet, Elem, TableSetOf, NUM_WAY, Default, NoElem, MAX_USES,        \* LruTable
  READ_SIZE, MAX_LENGTH, MAX_PASSES,                                     \* TraceReader
  bits, Other, channel_bytes, channels, bankgroups, banks, columns, ranks, rows, pref_size,
  Policy, NUM_SET, SetOf, IpOf, WAYS, Sharer, BRRIP_MAX, PSEL_MAX, SHCT_MAX, MAX_ACCESS,
  Branch, SIZE, Target, TagOf, Tag, BtbSet, SetOfTag, BTB_WAYS, max_size, SlotOf, Slot, HashOf,
  HISTORY, MAX_DEPTH,                                                    \* BTB
  RAT_SIZE, NUM_REGISTERS, ROB_SIZE, SCHEDULER_SIZE, Instructions        \* Rename

VARIABLES
  part,
  lru_block, access_count, returned,
  length, taken, repeat, position, file_eof, instr_buffer, retval, passes,
  slice,
  policy, block, dirty, missing, table, accesses, since, waiting,
  direct, stack, call_size_trackers, indirect, conditional_history, predicted, calls, last_taken,
  stage, visiting, retired, frontend_RAT, backend_RAT, free_registers, reg, ROB

lru == <<lru_block, access_count, returned>>
trace == <<length, taken, repeat, position, file_eof, instr_buffer, retval, passes>>
policies == <<policy, block, dirty, missing, table, accesses, since, waiting>>
btb == <<direct, stack, call_size_trackers, indirect, conditional_history, predicted, calls,
         last_taken>>
renamer == <<stage, visiting, retired, frontend_RAT, backend_RAT, free_registers, reg, ROB>>

Table == INSTANCE LruTable WITH
  Set <- TableSet, SetOf <- TableSetOf, WAYS <- NUM_WAY, Nothing <- NoElem, MAX_ACCESS <- MAX_USES,
  block <- lru_block
Trace == INSTANCE TraceReader
Slices == INSTANCE Addresses
(* Sharer: the cores that share the cache.                                 *)
Policies == INSTANCE Replacement WITH Cpu <- Sharer
Btb == INSTANCE BTB WITH
  Set <- BtbSet, WAYS <- BTB_WAYS, table <- direct, predictor <- indirect
Renamer == INSTANCE Rename WITH pc <- stage

-----------------------------------------------------------------------------
(* The parts that a behaviour is not of stay in one of their initial states, *)
(* the renamer outside of the stages from which it goes on.                *)
RenamerOff ==
  /\ stage = "off" /\ visiting = 0 /\ retired = 0 /\ ROB = <<>>
  /\ frontend_RAT = <<>> /\ backend_RAT = <<>> /\ free_registers = <<>> /\ reg = <<>>

PartsInit ==
  /\ part \in Part
  /\ Init /\ Table!Init /\ Trace!Init /\ Slices!Init /\ Policies!Init /\ Btb!Init
  /\ IF part = "renamer" THEN Renamer!Init ELSE RenamerOff
  /\ part # "trace" => length = 1 /\ taken = {} /\ ~repeat
  /\ part # "addresses" => slice.value = {}
  /\ part # "replacement" => policy = CHOOSE p \in Policy : TRUE

PartsNext ==
  /\ UNCHANGED part
  /\ \/ part = "main loop" /\ Next /\ UNCHANGED <<lru, trace, slice, policies, btb, renamer>>
     \/ part = "lru table" /\ Table!Next /\ UNCHANGED <<vars, trace, slice, policies, btb, renamer>>
     \/ part = "trace" /\ Trace!Next /\ UNCHANGED <<vars, lru, slice, policies, btb, renamer>>
     \/ part = "addresses" /\ Slices!Next /\ UNCHANGED <<vars, lru, trace, policies, btb, renamer>>
     \/ part = "replacement" /\ Policies!Next /\ UNCHANGED <<vars, lru, trace, slice, btb, renamer>>
     \/ part = "btb" /\ Btb!Next /\ UNCHANGED <<vars, lru, trace, slice, policies, renamer>>
     \/ part = "renamer" /\ Renamer!Next /\ UNCHANGED <<vars, lru, trace, slice, policies, btb>>

PartsVars == <<part, vars, lru, trace, slice, policies, btb, renamer>>

PartsSpec == PartsInit /\ [][PartsNext]_PartsVars

(* The fairness of the main loop (FairSpec) and of the renamer. *)
FairPartsSpec == PartsSpec /\ WF_vars(part = "main loop" /\ Next) /\ Renamer!Fairness

-----------------------------------------------------------------------------
(* Properties of single parts, of the behaviours that are of them; what they *)
(* say is in the modules.                                                  *)

(* MainLoop: the program ends or is aborted (do_phase and its watchdogs). *)
LoopTerminates == part = "main loop" => Terminates

(* LruTable: the table is a list by recency (inc/msl/lru_table.h). *)
ListSpec == Table!ListSpec

(* TraceReader: records come in order, with their targets                   *)
(* (inc/tracereader.h).                                                    *)
ReadInOrder == Trace!ReadInOrder

(* Addresses: a slice is a window on an address (inc/address.h, inc/extent.h). *)
WindowSpec == Slices!WindowSpec

(* Addresses: no two blocks come to one place of the DRAM                    *)
(* (DRAM_ADDRESS_MAPPING).                                                 *)
BlocksApart == part = "addresses" => Slices!BlocksApart

(* Replacement: each policy finds the victim it is to find                 *)
(* (replacement/lru, srrip, drrip and ship).                               *)
VictimsRight == part = "replacement" => Policies!VictimsRight

(* Replacement: docs/src/Modules.rst:287 of a policy without               *)
(* replacement_cache_fill (srrip).                                         *)
FillsPredicted == Policies!FillsPredicted

(* BTB: whatever calls, returns and branches follow one another, it has of   *)
(* them what it says it has (btb/basic_btb).                               *)
BranchesRemembered == part = "btb" => Btb!BTBRemembers

(* Rename: the ROB never gets stuck (schedule_instruction and retire_rob).  *)
Retires == part = "renamer" => Renamer!Retires
=============================================================================
