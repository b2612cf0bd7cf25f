------------------------------ MODULE MCPredictors ------------------------------
(* The prefetchers and the branch predictors, each on its own: `part` says    *)
(* which one a behaviour is of, and the variables of the others stay as they *)
(* are.  Those whose states have no end make a number of steps.              *)
EXTENDS Integers, Sequences, TLC

CONSTANTS
  Part,
  Predictor,                                       \* the branch predictors of the part "branch"
  ST_WAY, PT_SET, C_SIG_MAX, GLOBAL_COUNTER_MAX,   \* of spp
  SPP_CALLS                                        \* bound: its steps

VARIABLES
  part, steps,
  ST, PT, FILTER, GHR, spp_prefetched, status,
  filter_table, acc_table, pht, pref_buffer,
  trackers_l1, DPT_l1, ghb_l1, num_misses, spec_nl, ipcp_prefetched,
  strides, recent_prefetches, recent_head, cycle, stride_accessed, stride_prefetched,
  storage, trigger, recorder, filter_lru_list, current_tick, prefetches,
  trackers, active_lookahead, seen, lookahead_asked,
  regions, ampm_prefetched,
  micro_tables, now, micro_asked,
  hybrid_storage, hybrid_trigger, hybrid_recorder, hybrid_filter, hybrid_tick, hybrid_prefetches,
  taken,
  berti_tables, current_core_cycle, berti_asked,
  predictor, counters, perceptrons, history, spec_history, perceptron_state_buf, tables,
  ghist_words, theta, tc, last_result, outcomes

spp == <<ST, PT, FILTER, GHR, spp_prefetched, status>>
sms == <<filter_table, acc_table, pht, pref_buffer>>
ipcp == <<trackers_l1, DPT_l1, ghb_l1, num_misses, spec_nl, ipcp_prefetched>>
smart_stride == <<strides, recent_prefetches, recent_head, cycle, stride_accessed, stride_prefetched>>
cmc == <<storage, trigger, recorder, filter_lru_list, current_tick, prefetches>>
ip_stride == <<trackers, active_lookahead, seen, lookahead_asked>>
ampm == <<regions, ampm_prefetched>>
hybrid == <<micro_tables, now, micro_asked, hybrid_storage, hybrid_trigger, hybrid_recorder,
            hybrid_filter, hybrid_tick, hybrid_prefetches, taken>>
berti == <<berti_tables, current_core_cycle, berti_asked>>
branch == <<predictor, counters, perceptrons, history, spec_history, perceptron_state_buf, tables,
            ghist_words, theta, tc, last_result, outcomes>>

PartsVars == <<part, steps, spp, sms, ipcp, smart_stride, cmc, ip_stride, ampm, hybrid,
               berti, branch>>

-----------------------------------------------------------------------------
(* Two pages of three blocks, and a filter where two blocks share a place. *)
SppPtSetOf == [s \in 0..3 |-> s % PT_SET]
SppQuotient == [b \in 0..5 |-> b % 2]
SppRemainder == [b \in 0..5 |-> b \div 2]
Spp == INSTANCE Spp WITH
  PAGE <- 3, PAGES <- 2, TAGS <- 2, PT_WAY <- 2, FILTER_SET <- 2, MAX_GHR_ENTRY <- 1,
  SIG_SHIFT <- 1, SIG_BIT <- 2, SIG_DELTA_BIT <- 2, FILL_THRESHOLD <- 60,
  PF_THRESHOLD <- 25, MSHR_SIZE <- 8, PtSetOf <- SppPtSetOf, Quotient <- SppQuotient,
  Remainder <- SppRemainder, prefetched <- spp_prefetched

(* Three regions of two blocks, each table smaller than that. *)
SmsSetOf == [s \in {"p"} \X {0, 1} |-> s[2]]
Sms == INSTANCE Sms WITH
  Ip <- {"p"}, Page <- {1, 2, 3}, REGION <- 2, FT_SIZE <- 1, AT_SIZE <- 2, PHT_ASSOC <- 1,
  PREF_BUFFER_SIZE <- 1, PREF_DEGREE <- 2, SetOf <- SmsSetOf

(* Two instructions with one place in the table, and blocks of two pages. *)
IpcpIndex == [i \in {"p", "q"} |-> 0]
IpcpTag == [i \in {"p", "q"} |-> IF i = "p" THEN 0 ELSE 1]
Ipcp == INSTANCE Ipcp WITH
  Ip <- {"p", "q"}, Block <- {1, 2, 4, 5}, PAGE <- 4, Index <- IpcpIndex, Tag <- IpcpTag,
  NUM_GHB_ENTRIES <- 4, SIG_BITS <- 3, MISSES <- 1, prefetched <- ipcp_prefetched

(* Two addresses of one block, and one of each of two others. *)
StrideSetOf == [i \in {"p"} |-> 0]
StrideTag == [i \in {"p"} |-> i]
Stride == INSTANCE SmartStride WITH
  Ip <- {"p"}, Addr <- {0, 1, 2, 5}, SetOf <- StrideSetOf, Tag <- StrideTag, NUM_WAYS <- 1,
  MAX_CONF <- 3, MAX_DEPTH <- 2, BLOCK_SIZE <- 2, RECENT_WINDOW_SIZE <- 2,
  table <- strides, accessed <- stride_accessed, prefetched <- stride_prefetched

(* Streams of a trigger and two blocks, of one set of two ways. *)
CmcKeyOf == [x \in {"p"} \X {1, 2, 3} |-> x[2]]
CmcSetOf == [k \in {1, 2, 3} |-> 0]
Cmc == INSTANCE Cmc WITH
  Pc <- {"p"}, Block <- {1, 2, 3}, KeyOf <- CmcKeyOf, SetOf <- CmcSetOf, STORAGE_WAYS <- 2,
  MAX_DEGREE <- 1, STACK_SIZE <- 2, FILTER_SIZE <- 2

(* Two instructions for one way, and blocks of two pages. *)
IpStrideTag == [i \in {"p", "q"} |-> i]
IpStrideSet == [t \in {"p", "q"} |-> 0]
IpStride == INSTANCE IpStride WITH
  Ip <- {"p", "q"}, Block <- {0, 1, 2, 4}, PAGE <- 3, Set <- {0}, SetOf <- IpStrideSet,
  TagOf <- IpStrideTag, TRACKER_WAYS <- 1, PREFETCH_DEGREE <- 2, virtual_prefetch <- FALSE,
  table <- trackers, asked <- lookahead_asked

(* Blocks of two pages, with room for both. *)
Ampm == INSTANCE Ampm WITH
  Block <- 1..5, PAGE <- 3, REGION_WAYS <- 2, MAX_DISTANCE <- 2, PREFETCH_DEGREE <- 1,
  prefetched <- ampm_prefetched

(* Of berti_micro two pages of two blocks, and the ones around them, for two   *)
(* entries, and rings and a clock that go round; of cmc streams of two blocks.*)
HybridKeyOf == [x \in {"p"} \X (4..7) |-> x[2]]
HybridSetOf == [k \in 4..7 |-> 0]
Hybrid == INSTANCE Hybrid WITH
  Ip <- {"p"}, Page <- {2, 3}, BLOCKS <- 2, ENTRIES <- 2, NUM_BERTI <- 1, PREV_ENTRIES <- 3,
  LATENCY_ENTRIES <- 2, RECORD_ENTRIES <- 2, LONG_REUSE_LIMIT <- 1, BURST_THROTTLING <- 1,
  TIME_OVERFLOW <- 4, PQ_SIZE <- 2, KeyOf <- HybridKeyOf, SetOf <- HybridSetOf,
  STORAGE_WAYS <- 1, MAX_DEGREE <- 1, STACK_SIZE <- 1, FILTER_SIZE <- 2,
  tables <- micro_tables, asked <- micro_asked, storage <- hybrid_storage,
  trigger <- hybrid_trigger, recorder <- hybrid_recorder, filter_lru_list <- hybrid_filter,
  current_tick <- hybrid_tick, prefetches <- hybrid_prefetches

(* Two pages of two blocks, with entries and records for both; a clock that goes round. *)
Berti == INSTANCE Berti WITH
  Ip <- {"p"}, Page <- {1, 2}, BLOCKS <- 2, ENTRIES <- 2, NUM_BERTI <- 1,
  NUM_BERTI_PER_ACCESS <- 1, PREV_REQUESTS <- 4, PREV_PREFETCHES <- 2, TICK <- {2}, RECORD_ENTRIES <- 2,
  MAX_NUM_BURST_PREFETCHES <- 1, MED_HIGH_CONFIDENCE <- 2, TIME_OVERFLOW <- 4,
  virtual_prefetch <- FALSE, PQ_SIZE <- 2, tables <- berti_tables, now <- current_core_cycle,
  asked <- berti_asked

(* Two branches and an instruction that is none, all with entries that they   *)
(* share with others; a folded history of nothing and one that carries.     *)
HashOfIp == [i \in {"b1", "b2", "i"} |-> IF i = "b2" THEN 1 ELSE 0]
BitsOfIp == ("b1" :> {}) @@ ("b2" :> {0}) @@ ("i" :> {1})
HistoryLengths == <<0, 3>>
Branches == INSTANCE BranchPredictors WITH
  Instr <- {"b1", "b2", "i"}, Branch <- {"b1", "b2"}, HashOf <- HashOfIp, IpBits <- BitsOfIp,
  COUNTER_MAX <- 3, WEIGHT_MAX <- 1, HISTORY <- 2, THETA <- 2, NUM_UPDATE_ENTRIES <- 2,
  WORD_LEN <- 1, NUM_WORDS_PER_VALUE <- 2, LENGTHS <- HistoryLengths, THRESHOLD <- 1,
  THETA_START <- 1, SPEED <- 2, MAX_THETA <- 2

-----------------------------------------------------------------------------
STEPS ==
  [spp |-> SPP_CALLS, sms |-> 10, ipcp |-> 5, smart_stride |-> 5, cmc |-> 8, ip_stride |-> 6,
   ampm |-> 8, hybrid |-> 4, berti |-> 6, branch |-> 6]

(* Outside of its part a predictor is in one of its initial states. *)
PredictorsInit ==
  /\ part \in Part /\ steps = 0
  /\ Spp!Init /\ Sms!Init /\ Ipcp!Init /\ Stride!Init /\ Cmc!Init /\ IpStride!Init /\ Ampm!Init
  /\ Hybrid!Init /\ Berti!Init /\ Branches!Init
  /\ part # "ipcp" => num_misses = 0 /\ ghb_l1[1] = 1
  /\ part # "smart_stride" => recent_prefetches[0] = 0
  /\ part # "branch" => predictor = CHOOSE p \in Predictor : TRUE

(* Of the branch predictors only the states of perceptron need the bound.    *)
Stepped ==
  IF part = "branch" /\ predictor # "perceptron" THEN UNCHANGED steps
  ELSE steps < STEPS[part] /\ steps' = steps + 1

PredictorsNext ==
  /\ UNCHANGED part
  /\ Stepped
  /\ \/ part = "spp" /\ Spp!Next
     \/ part # "spp" /\ UNCHANGED spp
  /\ \/ part = "sms" /\ Sms!Next
     \/ part # "sms" /\ UNCHANGED sms
  /\ \/ part = "ipcp" /\ Ipcp!Next
     \/ part # "ipcp" /\ UNCHANGED ipcp
  /\ \/ part = "smart_stride" /\ Stride!Next
     \/ part # "smart_stride" /\ UNCHANGED smart_stride
  /\ \/ part = "cmc" /\ Cmc!Next
     \/ part # "cmc" /\ UNCHANGED cmc
  /\ \/ part = "ip_stride" /\ IpStride!Next
     \/ part # "ip_stride" /\ UNCHANGED ip_stride
  /\ \/ part = "ampm" /\ Ampm!Next
     \/ part # "ampm" /\ UNCHANGED ampm
  /\ \/ part = "hybrid" /\ Hybrid!Next
     \/ part # "hybrid" /\ UNCHANGED hybrid
  /\ \/ part = "berti" /\ Berti!Next
     \/ part # "berti" /\ UNCHANGED berti
  /\ \/ part = "branch" /\ Branches!Next
     \/ part # "branch" /\ UNCHANGED branch

PredictorsSpec == PredictorsInit /\ [][PredictorsNext]_PartsVars

-----------------------------------------------------------------------------
(* Properties of the parts; what they say is in the modules.                *)

(* spp, sms, hybrid_bertiM_cmc with berti_micro, and berti: their tables hold *)
(* what they are said to, and one of each, and always have a victim           *)
(* (prefetcher/spp_dev, sms, hybrid_bertiM_cmc, berti_micro, berti).          *)
TablesKept ==
  /\ part = "spp" => Spp!SppKeeps
  /\ part = "sms" => Sms!SmsKeeps
  /\ part = "hybrid" => Hybrid!HybridKeeps
  /\ part = "berti" => Berti!BertiKeeps

(* ipcp, smart_stride, ip_stride and cmc: what is asked for follows from what *)
(* was seen (prefetcher/ipcp_prefetcher, smart_stride, ip_stride, cmc); the   *)
(* branch predictors have of the branches what they say (branch).          *)
PatternsLearnt ==
  /\ part = "ipcp" => Ipcp!IpcpKeeps
  /\ part = "smart_stride" => Stride!StrideLeaves
  /\ part = "cmc" => Cmc!CmcKeeps
  /\ part = "ip_stride" => IpStride!StridesSeen
  /\ part = "ampm" => Ampm!MapsOfPages
  /\ part = "branch" => Branches!PredictorsKeep

(* va_ampm_lite: no block is asked for again (prefetcher/va_ampm_lite). *)
AskedOnce == Ampm!AskedOnce

(* spp: a victim is found in the global register                            *)
(* (prefetcher/spp_dev/spp_dev.cc:529).                                    *)
GhrVictimFound == Spp!GhrVictimFound
=============================================================================
