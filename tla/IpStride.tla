------------------------------- MODULE IpStride -------------------------------
(* The stride prefetcher (prefetcher/ip_stride): an instruction whose last two *)
(* strides are the same starts a lookahead, which asks for one block a cycle. *)
(* Its table is an lru_table, as a list by recency for each set.              *)
EXTENDS Integers, Sequences, SequencesExt

CONSTANTS
  Ip, Block,
  TagOf,                \* instruction -> its tag, the address without its last bits
  Set, SetOf,           \* the sets, and tag -> set
  TRACKER_WAYS, PREFETCH_DEGREE,
  PAGE,                 \* blocks of a page
  virtual_prefetch

VARIABLES
  table,                \* set -> its entries, the last used first
  active_lookahead,     \* at most one
  seen,                 \* tag -> its blocks since it came into the table (the model's)
  asked                 \* the block asked for by the last call, and the one before it

vars == <<table, active_lookahead, seen, asked>>

Tag == {TagOf[ip] : ip \in Ip}
NoEntry == [tag |-> "none", last_cl_addr |-> 0, last_stride |-> 0]
PageOf(b) == b \div PAGE

List == INSTANCE RecencyList WITH
  Elem <- [tag : Tag, last_cl_addr : Block, last_stride : {0}], WAYS <- TRACKER_WAYS,
  Nothing <- NoEntry, list <- table, answer <- NoEntry

Init ==
  /\ table = [s \in Set |-> <<>>]
  /\ active_lookahead = {} /\ asked = {}
  /\ seen = [t \in Tag |-> <<>>]

(* The hit refreshes the entry that the fill then takes the place of. *)
AnyStride(stride, found) == stride = found.last_stride                      \* mutant
SameStride(stride, found) == stride # 0 /\ stride = found.last_stride
prefetcher_cache_operate(ip, b) ==
  LET tag == TagOf[ip]
      set == table[SetOf[tag]]
      found == List!Found(set, tag)
      hit == List!Holds(set, tag)
      stride == IF hit THEN b - found.last_cl_addr ELSE 0
      filled == List!Filled(List!Refreshed(set, tag),
                            [tag |-> tag, last_cl_addr |-> b, last_stride |-> stride])
  IN /\ table' = [table EXCEPT ![SetOf[tag]] = filled]
     /\ active_lookahead' = IF hit /\ SameStride(stride, found)
                            THEN {[address |-> b, stride |-> stride, degree |-> PREFETCH_DEGREE]}
                            ELSE active_lookahead
     /\ seen' = [t \in Tag |-> IF t = tag THEN Append(IF hit THEN seen[t] ELSE <<>>, b)
                               ELSE seen[t]]
     /\ asked' = {}

(* The next step of the lookahead, until it has made them all or would leave   *)
(* the page; one that the cache refuses is tried again.                       *)
prefetcher_cycle_operate ==
  \E l \in active_lookahead :
    LET block == l.address + l.stride
    IN IF virtual_prefetch \/ PageOf(block) = PageOf(l.address)
       THEN \E success \in BOOLEAN :
              /\ asked' = {<<block, l.address>>}
              /\ active_lookahead' =
                   IF ~success THEN {l} ELSE IF l.degree = 1 THEN {}
                   ELSE {[l EXCEPT !.address = block, !.degree = @ - 1]}
              /\ UNCHANGED <<table, seen>>
       ELSE active_lookahead' = {} /\ asked' = {} /\ UNCHANGED <<table, seen>>

Next ==
  \/ \E ip \in Ip, b \in Block : prefetcher_cache_operate(ip, b)
  \/ prefetcher_cycle_operate

Spec == Init /\ [][Next]_vars

-----------------------------------------------------------------------------
(* Whatever is evicted and comes back, an entry is of the last block of its    *)
(* instruction and the stride before it; a lookahead that is active has steps *)
(* left ("assert(degree > 0)", ip_stride.cc:34) and goes on, within the page. *)
StridesSeen ==
  /\ \A s \in Set : \A i \in DOMAIN table[s] :
       LET e == table[s][i]
           blocks == seen[e.tag]
           n == Len(blocks)
       IN /\ SetOf[e.tag] = s /\ e.last_cl_addr = blocks[n]
          /\ e.last_stride = IF n = 1 THEN 0 ELSE blocks[n] - blocks[n - 1]
  /\ \A l \in active_lookahead : l.degree \in 1..PREFETCH_DEGREE /\ l.stride # 0
  /\ \A a \in asked : a[1] # a[2] /\ (PageOf(a[1]) = PageOf(a[2]) \/ virtual_prefetch)
=============================================================================
