-------------------------------- MODULE Hybrid --------------------------------
(* The prefetcher of two cores (prefetcher/hybrid_bertiM_cmc): what BertiMicro  *)
(* and Cmc say of their prefetchers is what its BertiCore and CmcCore do.  An  *)
(* access goes to both in turn, and what the first leaves of the prefetch      *)
(* queue is for the second; a fill goes to the first alone.                   *)
EXTENDS Integers, Sequences, FiniteSets

CONSTANTS
  Ip, Page, BLOCKS, ENTRIES, NUM_BERTI, PREV_ENTRIES, LATENCY_ENTRIES, RECORD_ENTRIES,
  LONG_REUSE_LIMIT, BURST_THROTTLING, TIME_OVERFLOW, PQ_SIZE,      \* of the first core
  KeyOf, SetOf, STORAGE_WAYS, MAX_DEGREE, STACK_SIZE, FILTER_SIZE  \* of the second

VARIABLES
  tables, now, asked,
  storage, trigger, recorder, filter_lru_list, current_tick, prefetches,
  taken                 \* the first of `prefetches`, which the queue has room for

vars == <<tables, now, asked, storage, trigger, recorder, filter_lru_list, current_tick,
          prefetches, taken>>

BlockAt(page, offset) == page * BLOCKS + offset

BertiCore == INSTANCE BertiMicro
CmcCore == INSTANCE Cmc WITH
  Pc <- Ip, Block <- {BlockAt(x[1], x[2]) : x \in Page \X (0..BLOCKS - 1)}

Init == BertiCore!Init /\ CmcCore!Init /\ taken = <<>>

(* The first core's prefetches are in the queue before the second asks. *)
prefetcher_cache_operate(ip, page, offset, hit, room) ==
  LET Both(first) ==
        /\ tables' = first.t /\ asked' = first.asked
        /\ CmcCore!prefetcher_cache_operate(ip, BlockAt(page, offset), hit)
        /\ taken' = SubSeq(prefetches', 1,
                           IF Len(prefetches') < first.room THEN Len(prefetches') ELSE first.room)
  IN Both(BertiCore!Operated(ip, page, offset, hit, room))

prefetcher_cache_fill(page, offset, evicted_page, evicted_offset) ==
  /\ BertiCore!prefetcher_cache_fill(page, offset, evicted_page, evicted_offset)
  /\ prefetches' = <<>> /\ taken' = <<>>
  /\ UNCHANGED <<storage, trigger, recorder, filter_lru_list, current_tick>>

Next ==
  /\ now' \in {now, now + 1}
  /\ \E page \in Page, offset \in 0..BLOCKS - 1 :
       \/ \E ip \in Ip, hit \in BOOLEAN, room \in {0, PQ_SIZE} :
            prefetcher_cache_operate(ip, page, offset, hit, room)
       \/ \E evicted_page \in Page, evicted_offset \in 0..BLOCKS - 1 :
            prefetcher_cache_fill(page, offset, evicted_page, evicted_offset)

Spec == Init /\ [][Next]_vars

-----------------------------------------------------------------------------
(* The second core's blocks come after the first's: the queue takes of both no   *)
(* more than it has room for.  What it refuses is in the filter all the same.  *)
QueueShared ==
  /\ Cardinality(asked) + Len(taken) <= PQ_SIZE
  /\ \A i \in DOMAIN prefetches :
       Len(prefetches) <= FILTER_SIZE =>
         \E j \in DOMAIN filter_lru_list : filter_lru_list[j] = prefetches[i]

HybridKeeps == BertiCore!BertiKeeps /\ CmcCore!CmcKeeps /\ QueueShared
=============================================================================
