---------------------------------- MODULE Spp ----------------------------------
(* The signature path prefetcher (prefetcher/spp_dev): a table of the pages    *)
(* last used with a signature of the deltas in each, a table of the deltas    *)
(* that follow a signature, a filter of the blocks prefetched, and a register *)
(* of prefetches that would have left their page.                            *)
(* One access of the cache or one fill is one step: the cache calls the      *)
(* prefetcher from operate, and each call runs to its end.                   *)
EXTENDS Integers, Sequences, FiniteSets, SequencesExt, Bitwise

CONSTANTS
  PAGE,                 \* blocks of a page (64)
  PAGES,                \* bound: pages that are used
  TAGS,                 \* tags of pages, 2^ST_TAG_BIT
  ST_WAY, PT_SET, PT_WAY, FILTER_SET, MAX_GHR_ENTRY,
  SIG_SHIFT, SIG_BIT, SIG_DELTA_BIT,
  C_SIG_MAX, GLOBAL_COUNTER_MAX,
  FILL_THRESHOLD, PF_THRESHOLD,
  MSHR_SIZE,            \* of the cache: the room of the queues of a call
  PtSetOf,              \* signature -> its set, by get_hash
  Quotient, Remainder   \* block -> its place in the filter and what is kept of it there

VARIABLES
  ST,                   \* way -> valid, tag, last_offset, sig and lru
  PT,                   \* set -> c_sig and the ways, each with delta and c_delta
  FILTER,               \* quotient -> remainder_tag, valid and useful
  GHR,                  \* pf_useful, pf_issued and the entries
  prefetched,           \* the blocks asked for by the last call
  status                \* "running", or how the simulator ended

vars == <<ST, PT, FILTER, GHR, prefetched, status>>

Block == 0..PAGES * PAGE - 1
PageOf(b) == b \div PAGE
Offset(b) == b % PAGE
Way == 0..ST_WAY - 1
PtWay == 0..PT_WAY - 1
Entry == 0..MAX_GHR_ENTRY - 1

LeastOf(S) == CHOOSE i \in S : \A j \in S : i <= j
GreatestOf(S) == CHOOSE i \in S : \A j \in S : j <= i

Init ==
  /\ ST = [w \in Way |-> [valid |-> FALSE, tag |-> 0, last_offset |-> 0, sig |-> 0, lru |-> w]]
  /\ PT = [s \in 0..PT_SET - 1 |-> [c_sig |-> 0, way |-> [w \in PtWay |-> [delta |-> 0, c_delta |-> 0]]]]
  /\ FILTER = [q \in 0..FILTER_SET - 1 |-> [remainder_tag |-> 0, valid |-> FALSE, useful |-> FALSE]]
  /\ GHR = [pf_useful |-> 0, pf_issued |-> 0,
            entry |-> [i \in Entry |-> [valid |-> FALSE, sig |-> 0, confidence |-> 0,
                                        offset |-> 0, delta |-> 0]]]
  /\ prefetched = {}
  /\ status = "running"

(* The next signature: the delta in sign and magnitude is xor'd to the old     *)
(* one, shifted.                                                             *)
NextSig(sig, delta) ==
  LET sig_delta == IF delta < 0 THEN -delta + 2^(SIG_DELTA_BIT - 1) ELSE delta
  IN ((sig * 2^SIG_SHIFT) ^^ sig_delta) % 2^SIG_BIT

-----------------------------------------------------------------------------
(* GLOBAL_REGISTER *)

(* check_entry: of the entries of the offset, valid or not, the first of the  *)
(* greatest confidence; none with a confidence of 0.                         *)
Hinted(ghr, offset) ==
  LET found == {i \in Entry : ghr.entry[i].offset = offset /\ ghr.entry[i].confidence > 0}
  IN {i \in found : \A j \in found : \/ ghr.entry[i].confidence > ghr.entry[j].confidence
                                     \/ ghr.entry[i].confidence = ghr.entry[j].confidence /\ i <= j}

(* update_entry: the victim is the first entry of the least confidence below  *)
(* 100.  Without one the program is aborted.                                 *)
Replaced(ghr) ==
  LET low == {i \in Entry : ghr.entry[i].confidence < 100}
  IN {i \in low : \A j \in low : \/ ghr.entry[i].confidence < ghr.entry[j].confidence
                                 \/ ghr.entry[i].confidence = ghr.entry[j].confidence /\ i <= j}
GhrPlace(ghr, offset) ==
  LET same == {i \in Entry : ghr.entry[i].valid /\ ghr.entry[i].offset = offset}
  IN IF same # {} THEN {LeastOf(same)} ELSE Replaced(ghr)

-----------------------------------------------------------------------------
(* SIGNATURE_TABLE: read_and_update_sig *)

Older(st, way) == {w \in Way : st[w].lru < st[way].lru}
Promoted(st, way) ==
  [w \in Way |-> [st[w] EXCEPT !.lru = IF w = way THEN 0
                                       ELSE IF w \in Older(st, way) THEN @ + 1 ELSE @]]

(* What it leaves: the table, and what the other stages go on with. *)
SigRead(b) ==
  LET tag == PageOf(b) % TAGS
      hit == {w \in Way : ST[w].valid /\ ST[w].tag = tag}
      empty == {w \in Way : ~ST[w].valid}
      oldest == {w \in Way : ST[w].lru = ST_WAY - 1}
  IN IF hit # {}
     THEN LET w == LeastOf(hit)
              delta == Offset(b) - ST[w].last_offset
              sig == IF delta = 0 THEN ST[w].sig ELSE NextSig(ST[w].sig, delta)
          IN [ST |-> Promoted([ST EXCEPT ![w].sig = sig, ![w].last_offset = Offset(b)], w),
              last_sig |-> IF delta = 0 THEN 0 ELSE ST[w].sig,
              curr_sig |-> IF delta = 0 THEN 0 ELSE sig, delta |-> delta]
     ELSE LET w == IF empty # {} THEN LeastOf(empty) ELSE LeastOf(oldest)
              hint == Hinted(GHR, Offset(b))
              sig == IF hint = {} THEN 0
                     ELSE LET i == LeastOf(hint) IN NextSig(GHR.entry[i].sig, GHR.entry[i].delta)
          IN [ST |-> Promoted([ST EXCEPT ![w] = [valid |-> TRUE, tag |-> tag, sig |-> sig,
                                                last_offset |-> Offset(b), lru |-> @.lru]], w),
              last_sig |-> 0, curr_sig |-> sig, delta |-> 0]

-----------------------------------------------------------------------------
(* PATTERN_TABLE *)

(* The counters of a set are halved together. *)
BalancedAlone(set) ==                                                      \* mutant
  IF set.c_sig <= C_SIG_MAX THEN set ELSE [set EXCEPT !.c_sig = @ \div 2]
Balanced(set) ==
  IF set.c_sig <= C_SIG_MAX THEN set
  ELSE [c_sig |-> set.c_sig \div 2, way |-> [w \in PtWay |-> [set.way[w] EXCEPT !.c_delta = @ \div 2]]]

(* update_pattern: a delta that the set does not have takes the place of the  *)
(* least frequent; there is one below C_SIG_MAX, or the program is aborted.  *)
PtVictim(set) ==
  LeastOf({w \in PtWay : /\ set.way[w].c_delta < C_SIG_MAX
                         /\ \A x \in PtWay : set.way[w].c_delta <= set.way[x].c_delta})
Counted(set, delta) ==
  LET hit == {w \in PtWay : set.way[w].delta = delta}
  IN Balanced([c_sig |-> set.c_sig + 1,
               way |-> IF hit # {} THEN [set.way EXCEPT ![LeastOf(hit)].c_delta = @ + 1]
                       ELSE [set.way EXCEPT ![PtVictim(set)] = [delta |-> delta, c_delta |-> 0]]])

(* read_pattern: the deltas that are confident enough go into the queue, way  *)
(* after way, and a place is left free behind them; the lookahead follows   *)
(* the most confident.  `l` is what one call of the prefetcher goes on with; *)
(* the places from MSHR_SIZE on are not the queue's.                        *)
Place == 0..MSHR_SIZE + PT_WAY

Confidence(l, set, w) ==
  IF l.depth = 0 THEN (100 * set.way[w].c_delta) \div set.c_sig
  ELSE (((l.accuracy * set.way[w].c_delta) \div set.c_sig) * l.conf) \div 100

(* `conf` are the confidences of the ways, `added` the ways that go in. *)
Queued(l, set, conf, added) ==
  LET Rank(w) == Cardinality({x \in added : x < w})
      best == {w \in added : \A x \in added : conf[w] > conf[x] \/ (conf[w] = conf[x] /\ w <= x)}
  IN [l EXCEPT !.queue = [i \in Place |->
                 IF \E w \in added : i = l.tail + Rank(w)
                 THEN LET w == CHOOSE w \in added : i = l.tail + Rank(w)
                      IN [confidence |-> conf[w], delta |-> set.way[w].delta]
                 ELSE @[i]],
               !.follow = {set.way[w].delta : w \in best},
               !.conf = IF added = {} THEN 0 ELSE GreatestOf({conf[w] : w \in added}),
               !.tail = @ + Cardinality(added) + 1,
               !.depth = IF added = {} THEN @ ELSE @ + 1]
ReadFrom(l, set) ==
  LET Read(conf) == Queued(l, set, conf, {w \in PtWay : conf[w] >= PF_THRESHOLD})
  IN IF set.c_sig = 0
     THEN [l EXCEPT !.queue[l.tail].confidence = 0, !.follow = {}]
     ELSE Read([w \in PtWay |-> Confidence(l, set, w)])
ReadPattern(l) == ReadFrom([l EXCEPT !.again = FALSE], l.pt[PtSetOf[l.sig]])

-----------------------------------------------------------------------------
(* PREFETCH_FILTER: check *)

Filtered(filter, b) ==
  LET place == filter[Quotient[b]]
  IN (place.valid \/ place.useful) /\ place.remainder_tag = Remainder[b]

(* L2C_DEMAND: a block that was prefetched has been of use. *)
Demanded(b) == FILTER[Quotient[b]].remainder_tag = Remainder[b] /\ ~FILTER[Quotient[b]].useful
DemandFilter(b) ==
  IF Demanded(b) THEN [FILTER EXCEPT ![Quotient[b]].useful = TRUE] ELSE FILTER
DemandGhr(b) ==
  IF Demanded(b) /\ FILTER[Quotient[b]].valid THEN [GHR EXCEPT !.pf_useful = @ + 1] ELSE GHR

(* SPP_L2C_PREFETCH, and the count of it; SPP_LLC_PREFETCH leaves no trace. *)
Issued(l, b) ==
  LET issued == l.ghr.pf_issued + 1
      over == issued > GLOBAL_COUNTER_MAX
  IN [l EXCEPT !.filter[Quotient[b]] = [remainder_tag |-> Remainder[b], valid |-> TRUE,
                                        useful |-> FALSE],
               !.ghr.pf_issued = IF over THEN issued \div 2 ELSE issued,
               !.ghr.pf_useful = IF over THEN @ \div 2 ELSE @]

-----------------------------------------------------------------------------
(* prefetcher_cache_operate *)

(* One entry of the queue.  The block may be anywhere around the page.       *)
InPage(l, e, b) ==
  IF Filtered(l.filter, b) THEN l
  ELSE [(IF e.confidence >= FILL_THRESHOLD THEN Issued(l, b) ELSE l)
          EXCEPT !.prefetched = @ \cup {b}]
OutOfPage(l, e, b, place) ==
  IF place = {} THEN [l EXCEPT !.asserted = TRUE]
  ELSE [l EXCEPT !.again = TRUE, !.head = @ + 1,
                 !.ghr.entry[LeastOf(place)] =
                   [valid |-> TRUE, sig |-> l.sig, confidence |-> e.confidence,
                    offset |-> Offset(b), delta |-> e.delta]]
Prefetched(page, l, e, b) ==
  IF e.confidence < PF_THRESHOLD \/ l.asserted THEN l
  ELSE IF PageOf(b) = page THEN [InPage(l, e, b) EXCEPT !.again = TRUE, !.head = @ + 1]
  ELSE OutOfPage(l, e, b, GhrPlace(l.ghr, Offset(b)))
Prefetch(page, l, i) == Prefetched(page, l, l.queue[i], l.base + l.queue[i].delta)

Overrun(l) == l.tail > MSHR_SIZE

(* The entries found, from the head of before on, and the next signature.    *)
Followed(l) ==
  LET Along(delta) == [l EXCEPT !.base = @ + delta, !.sig = NextSig(@, delta)]
  IN IF l.follow = {} THEN l ELSE Along(LeastOf(l.follow))
Round(page, l) ==
  IF Overrun(l) THEN l
  ELSE Followed(FoldLeft(LAMBDA m, i : Prefetch(page, m, i), l,
                         [i \in 1..l.tail - l.head |-> l.head + i - 1]))

RECURSIVE Lookahead(_, _)
Lookahead(page, l) ==
  LET Onward(next) ==
        IF Overrun(next) \/ next.asserted \/ ~next.again THEN next ELSE Lookahead(page, next)
  IN Onward(Round(page, ReadPattern(l)))

Start(b, sig, learnt) ==
  [sig |-> sig, base |-> b, conf |-> 100, depth |-> 0, head |-> 0, tail |-> 0,
   queue |-> [i \in Place |-> [confidence |-> IF i = 0 THEN 100 ELSE 0, delta |-> 0]],
   accuracy |-> IF GHR.pf_issued = 0 THEN 0 ELSE (100 * GHR.pf_useful) \div GHR.pf_issued,
   follow |-> {}, again |-> FALSE, asserted |-> FALSE, prefetched |-> {}, pt |-> learnt,
   filter |-> DemandFilter(b), ghr |-> DemandGhr(b)]

prefetcher_cache_operate(b) ==
  LET Reads(read) ==
        /\ ST' = read.ST
        /\ PT' = IF read.last_sig = 0 THEN PT
                 ELSE [PT EXCEPT ![PtSetOf[read.last_sig]] = Counted(@, read.delta)]
      Ends(end) ==
        /\ FILTER' = end.filter /\ GHR' = end.ghr /\ prefetched' = end.prefetched
        /\ status' = IF Overrun(end) THEN "overrun" ELSE IF end.asserted THEN "asserted" ELSE status
  IN /\ status = "running"
     /\ Reads(SigRead(b))
     /\ Ends(Lookahead(PageOf(b), Start(b, SigRead(b).curr_sig, PT')))

(* prefetcher_cache_fill: L2C_EVICT of whatever has the place in the filter. *)
prefetcher_cache_fill(evicted) ==
  LET place == FILTER[Quotient[evicted]]
      useless == place.valid /\ ~place.useful /\ GHR.pf_useful > 0
  IN /\ status = "running"
     /\ GHR' = IF useless THEN [GHR EXCEPT !.pf_useful = @ - 1] ELSE GHR
     /\ FILTER' = [FILTER EXCEPT ![Quotient[evicted]] =
                     [remainder_tag |-> 0, valid |-> FALSE, useful |-> FALSE]]
     /\ prefetched' = {}
     /\ UNCHANGED <<ST, PT, status>>

Next == \E b \in Block : prefetcher_cache_operate(b) \/ prefetcher_cache_fill(b)

Spec == Init /\ [][Next]_vars

-----------------------------------------------------------------------------
(* Of the signature table: the ages of the ways are always 0 to ST_WAY - 1,    *)
(* so that each miss finds its victim ("[ST] Cannot find a replacement       *)
(* victim!" and "[ST] LRU value is wrong!", spp_dev.cc), and no page is in it *)
(* twice.                                                                   *)
PagesOnce ==
  /\ {ST[w].lru : w \in Way} = Way
  /\ \A v, w \in Way : v # w /\ ST[v].valid /\ ST[w].valid => ST[v].tag # ST[w].tag

(* Of the pattern table: however the counters of a set are halved, the deltas *)
(* of a signature are counted less often than it is, so that each confidence *)
(* is below 100 and one way can always be replaced ("[PT] Cannot find a      *)
(* replacement victim!").                                                  *)
CountersAgree ==
  \A s \in DOMAIN PT :
    LET counted == FoldFunction(+, 0, [w \in PtWay |-> PT[s].way[w].c_delta])
    IN /\ counted < PT[s].c_sig \/ (counted = 0 /\ PT[s].c_sig = 0)
       /\ PT[s].c_sig <= C_SIG_MAX

SppKeeps == PagesOnce /\ CountersAgree

(* spp_dev.cc:529 asserts that a prefetch that leaves its page finds a place  *)
(* in the global register ("[GHR] Cannot find a replacement victim!").       *)
GhrVictimFound == status # "asserted"
=============================================================================
