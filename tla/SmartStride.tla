------------------------------ MODULE SmartStride ------------------------------
(* The stride prefetcher that adapts how far it goes ahead                     *)
(* (prefetcher/smart_stride): further when a block it asked for is missed, as *)
(* it came too late, and less far when it is hit.  Each call of the cache is  *)
(* one step; what prefetch_line answers is not looked at.                     *)
EXTENDS Integers, Functions

CONSTANTS
  Ip, Addr,             \* instructions and the addresses they use
  SetOf, Tag,           \* instruction -> its set and its tag, by strideHashPc
  NUM_WAYS, MAX_CONF, MAX_DEPTH,
  BLOCK_SIZE,           \* 64
  RECENT_WINDOW_SIZE

VARIABLES
  table,                \* set -> way -> entry
  recent_prefetches, recent_head,
  cycle,                \* the time of the last call
  accessed, prefetched  \* by the last call

vars == <<table, recent_prefetches, recent_head, cycle, accessed, prefetched>>

NoAddr == -1000000
NoTag == "none"
Way == 0..NUM_WAYS - 1
Abs(n) == IF n < 0 THEN -n ELSE n
BlockOf(a) == a \div BLOCK_SIZE

Fresh(tag, a, now) ==
  [valid |-> TRUE, tag |-> tag, last_addr |-> a, stride |-> 0, conf |-> 0, depth |-> 1,
   late_conf |-> 7, lru_cycle |-> now]

(* The window of recent prefetches is not initialized. *)
Init ==
  /\ table = [s \in {SetOf[ip] : ip \in Ip} |->
                [w \in Way |-> [Fresh(NoTag, 0, 0) EXCEPT !.valid = FALSE]]]
  /\ \E a \in Addr \cup {NoAddr} : recent_prefetches = [i \in 0..RECENT_WINDOW_SIZE - 1 |-> a]
  /\ recent_head = 0 /\ cycle = 0 /\ accessed = NoAddr /\ prefetched = {}

Found(set, tag) == {w \in Way : set[w].valid /\ set[w].tag = tag}

-----------------------------------------------------------------------------
(* An instruction that is not in the table: the first way that is not valid,  *)
(* or the first of those unused longest.  Two calls may be of one cycle.      *)
Victim(set) ==
  LET free == {w \in Way : ~set[w].valid}
      of == IF free # {} THEN free
            ELSE {w \in Way : \A x \in Way : set[w].lru_cycle <= set[x].lru_cycle}
  IN CHOOSE w \in of : \A x \in of : w <= x
Insert(ip, a) ==
  LET set == table[SetOf[ip]]
  IN /\ Found(set, Tag[ip]) = {}
     /\ table' = [table EXCEPT ![SetOf[ip]][Victim(set)] = Fresh(Tag[ip], a, cycle')]
     /\ prefetched' = {}
     /\ UNCHANGED <<recent_prefetches, recent_head>>

(* Accesses in the block of the last are left out. *)
SameAddr(stride) == stride = 0                                             \* mutant
SameBlock(stride) == Abs(stride) < BLOCK_SIZE

Matches(e, stride) ==
  stride = e.stride \/ (e.stride > BLOCK_SIZE /\ Abs(stride) % e.stride = 0)

(* How early the block came, and so how far to go. *)
Timed(e, timely, late) ==
  LET late_conf == IF timely THEN (IF e.late_conf > 0 THEN e.late_conf - 1 ELSE 0)
                   ELSE IF late THEN (IF e.late_conf > 12 THEN 15 ELSE e.late_conf + 3)
                   ELSE e.late_conf
  IN IF late_conf >= 12
     THEN [e EXCEPT !.late_conf = 7, !.depth = IF @ < MAX_DEPTH THEN @ + 1 ELSE @]
     ELSE IF late_conf <= 3
     THEN [e EXCEPT !.late_conf = 7, !.depth = IF @ > 1 THEN @ - 1 ELSE @]
     ELSE [e EXCEPT !.late_conf = late_conf]

Learnt(e, a, hit, useful) ==
  LET stride == a - e.last_addr
      moved == [e EXCEPT !.last_addr = a]
  IN IF Matches(e, stride)
     THEN Timed([moved EXCEPT !.conf = IF @ < MAX_CONF THEN @ + 1 ELSE @],
                hit /\ useful, ~hit /\ a \in Range(recent_prefetches))
     ELSE IF e.conf > 1 THEN [moved EXCEPT !.conf = @ - 1]
     ELSE [moved EXCEPT !.stride = stride, !.depth = 1, !.conf = 0, !.late_conf = 7]

(* The depths that are asked for; addRecentPrefetch writes each into a ring.  *)
Depths(e, hit) ==
  IF e.conf < 2 THEN {}
  ELSE (IF ~hit /\ e.depth > 5 THEN e.depth - 4 ELSE 1)..e.depth

(* An instruction that is: prefetcher_cache_operate. *)
Access(ip, a, hit, useful) ==
  LET set == table[SetOf[ip]]
      w == CHOOSE w \in Found(set, Tag[ip]) : TRUE
      used == [set[w] EXCEPT !.lru_cycle = cycle']
      near == SameBlock(a - used.last_addr)
      e == IF near THEN used ELSE Learnt(used, a, hit, useful)
      depths == IF near THEN {} ELSE Depths(e, hit)
      first == CHOOSE d \in depths : \A x \in depths : d <= x
      At(d) == (recent_head + d - first) % RECENT_WINDOW_SIZE
      Written(i) == {d \in depths : At(d) = i}
  IN /\ Found(set, Tag[ip]) # {}
     /\ table' = [table EXCEPT ![SetOf[ip]][w] = e]
     /\ prefetched' = {a + e.stride * d : d \in depths}
     /\ recent_prefetches' =
          [i \in DOMAIN recent_prefetches |->
             IF Written(i) = {} THEN recent_prefetches[i]
             ELSE a + e.stride * (CHOOSE d \in Written(i) : \A x \in Written(i) : x <= d)]
     /\ recent_head' = IF depths = {} THEN recent_head
                       ELSE (recent_head + e.depth - first + 1) % RECENT_WINDOW_SIZE

Next ==
  \E ip \in Ip, a \in Addr :
    /\ cycle' \in {cycle, cycle + 1} /\ accessed' = a
    /\ Insert(ip, a) \/ \E hit \in BOOLEAN, useful \in BOOLEAN :
                          (useful => hit) /\ Access(ip, a, hit, useful)

Spec == Init /\ [][Next]_vars

-----------------------------------------------------------------------------
(* However strides are matched, their multiples too, a stride that is trusted *)
(* leaves the block: what is asked for is never what was accessed; and the    *)
(* count that moves the depth stays between its two ends between the calls,   *)
(* as the depth stays between 1 and MAX_DEPTH.                               *)
StrideLeaves ==
  /\ \A s \in DOMAIN table : \A w \in Way :
       LET e == table[s][w]
       IN /\ e.conf \in 0..MAX_CONF /\ (e.conf > 0 => ~(Abs(e.stride) < BLOCK_SIZE))
          /\ e.depth \in 1..MAX_DEPTH /\ e.late_conf \in 4..11
          /\ \A x \in Way : (x # w /\ e.valid /\ table[s][x].valid) => table[s][x].tag # e.tag
  /\ \A p \in prefetched : BlockOf(p) # BlockOf(accessed)
=============================================================================
