-------------------------------- MODULE Cache ---------------------------------
(***************************************************************************)
(* CACHE (src/src/cache.cc): a non-blocking cache level with its MSHRs, its *)
(* pipeline of tag checks, its writebacks, its prefetch queue and, at the   *)
(* levels that are virtually addressed, its translation stash.             *)
(*                                                                         *)
(* One operate() is one pass of pc through the steps below, in the order of *)
(* the code, handler by handler; the levels above and below and the         *)
(* translating TLB act between two passes (pc = "idle").  Times are kept    *)
(* relative to the current cycle and count down at its end.                *)
(*                                                                         *)
(* The level above puts requests into the channels of ChannelOps.  The      *)
(* level below is reduced to bounded queues that it serves in any order;    *)
(* the replacement policy to any choice of victim; the prefetcher to any    *)
(* choice of what, if anything, it asks for when one of its hooks runs.    *)
(***************************************************************************)
EXTENDS ChannelOps, Integers, FiniteSets

CONSTANTS
  Uppers,           \* the channels of the levels above
  Ids, Req,         \* the reads of the levels above: [from, queue, type, addr, tr]
  Writes,           \* their writes: [from, addr, tr, type]
  PrefetchTargets,  \* what the prefetcher can ask for: [addr, fill]
  SetOf, NUM_WAY,   \* the set a block maps to; the ways of a set
  PageOf, Physical, \* the page of a virtual address; its translation
  NoAddr,           \* address{}
  MSHR_SIZE, CACHE_PQ_SIZE, HIT_LATENCY, FILL_LATENCY, MAX_TAG, MAX_FILL,
  LOWER_SIZE,       \* room in each queue of lower_level and lower_translate
  WRITES_BOUND,     \* bound of the model: no more writes while so many are inside
  PREFETCH_AS_LOAD, VIRTUAL_PREFETCH

ASSUME CacheSizeAssumption ==
  {NUM_WAY, MSHR_SIZE, MAX_TAG, MAX_FILL, HIT_LATENCY, LOWER_SIZE} \subseteq Nat \ {0}
ASSUME LatencyAssumption == {FILL_LATENCY, CACHE_PQ_SIZE, WRITES_BOUND} \subseteq Nat
ASSUME FlagAssumption == {PREFETCH_AS_LOAD, VIRTUAL_PREFETCH} \subseteq BOOLEAN

Kind == {"LOAD", "RFO", "PREFETCH", "WRITE", "TRANSLATION"}    \* access_type

ASSUME UppersAssumption == Uppers # {} /\ IsFiniteSet(Uppers)
(* A level writes through its WQ alone: what misses of a write reads below   *)
(* is an RFO, as fwd_pkt.type is (src/src/cache.cc:335), or a LOAD.         *)
ASSUME RequestsAssumption ==
  /\ Req \in [Ids -> [from : Uppers, queue : {"RQ", "PQ"}, type : Kind \ {"WRITE"}, addr : Addr,
                      tr : BOOLEAN]]
  /\ Writes \subseteq [from : Uppers, addr : Addr, tr : BOOLEAN, type : {"WRITE"}]
  /\ PrefetchTargets \subseteq [addr : Addr, fill : BOOLEAN]
ASSUME MappingAssumption == DOMAIN SetOf = Block /\ Physical \in [Addr -> Addr]

VARIABLES
  pc,
  chan,                \* upper_levels: their channels
  upper_levels,        \* the order they are served in
  block,               \* set -> way -> tag, valid, dirty and prefetch bits
  MSHR, inflight_writes,
  inflight_tag_check, translation_stash,
  internal_PQ,
  lower,               \* lower_level: RQ, PQ, WQ, returned
  tlb,                 \* lower_translate: RQ, returned
  loop                 \* locals of operate(): bandwidth left and position

cacheVars == <<block, MSHR, inflight_writes, inflight_tag_check, translation_stash, internal_PQ>>
vars == <<pc, chan, upper_levels, cacheVars, lower, tlb, loop>>

Ways == 1 .. NUM_WAY
Unknown == -1          \* has_unknown_readiness

SameBlock(a, b) == BlockOf[a] = BlockOf[b]     \* matches_address
Smaller(m, n) == IF m < n THEN m ELSE n
Larger(m, n) == IF m < n THEN n ELSE m

(* get_span_p: the length of the longest prefix of s, of at most n          *)
(* elements, whose elements all satisfy P.                                 *)
SpanLength(s, n, P(_)) ==
  LET stop == SelectInSeq(s, LAMBDA x : ~P(x))
  IN  Smaller(n, IF stop = 0 THEN Len(s) ELSE stop - 1)
Rest(s, n) == SubSeq(s, n + 1, Len(s))

(* extract_if: the elements of s at the positions I, in their order. *)
Extracted(s, I) ==
  LET upto[n \in 0 .. Len(s)] ==
        IF n = 0 THEN <<>> ELSE IF n \in I THEN Append(upto[n - 1], s[n]) ELSE upto[n - 1]
  IN  upto[Len(s)]

Invalid == [valid |-> FALSE, dirty |-> FALSE, prefetch |-> FALSE, addr |-> NoAddr]
NoLoop == [bw |-> 0, share |-> 0, avail |-> FALSE, at |-> 1, checks |-> 0]

Init ==
  /\ pc = "idle"
  /\ chan = [u \in Uppers |-> EmptyChannel]
  /\ upper_levels \in SetToSeqs(Uppers)
  /\ block = [s \in {SetOf[b] : b \in Block} |-> [w \in Ways |-> Invalid]]
  /\ MSHR = <<>> /\ inflight_writes = <<>>
  /\ inflight_tag_check = <<>> /\ translation_stash = <<>>
  /\ internal_PQ = <<>>
  /\ lower = [RQ |-> <<>>, PQ |-> <<>>, WQ |-> <<>>, returned |-> <<>>]
  /\ tlb = [RQ |-> <<>>, returned |-> <<>>]
  /\ loop = NoLoop

-----------------------------------------------------------------------------
(* Finish returns and translations                                         *)
-----------------------------------------------------------------------------
CheckCollisions ==
  /\ pc = "idle"
  /\ chan' = [u \in Uppers |-> CheckCollision(chan[u])]
  /\ pc' = "finish"
  /\ UNCHANGED <<upper_levels, cacheVars, lower, tlb, loop>>

MatchingExactly(a) == SelectInSeq(MSHR, LAMBDA m : m.addr = a) \* mutant
MatchingMSHR(a) == SelectInSeq(MSHR, LAMBDA m : SameBlock(m.addr, a))
FirstUnreturned == SelectInSeq(MSHR, LAMBDA m : m.ready = Unknown)

Swap(s, i, j) == [s EXCEPT ![i] = s[j], ![j] = s[i]]

(* finish_packet: the entry becomes ready FILL_LATENCY later and takes the  *)
(* place of the first unreturned one.  Without a matching entry the         *)
(* assertion fails; without an unreturned one the swap is out of range.    *)
FinishPacket ==
  LET a == Head(lower.returned)
      i == MatchingMSHR(a)
      f == FirstUnreturned
  IN  /\ pc = "finish"
      /\ lower.returned # <<>>
      /\ lower' = [lower EXCEPT !.returned = Tail(@)]
      /\ IF i = 0 \/ f = 0
           THEN pc' = "abort" /\ UNCHANGED MSHR
           ELSE /\ MSHR' = Swap([MSHR EXCEPT ![i].ready = FILL_LATENCY], i, f)
                /\ UNCHANGED pc
      /\ UNCHANGED <<chan, upper_levels, block, inflight_writes, inflight_tag_check,
                     translation_stash, internal_PQ, tlb, loop>>


(* finish_translation: every waiting request of the page is translated; in  *)
(* the stash these are moved, in order, behind the ones at its head that    *)
(* were translated earlier.                                                *)
WaitsFor(e, page) == ~e.tr /\ PageOf[e.v] = page
MarkTranslated(e) == [e EXCEPT !.addr = Physical[e.v], !.tr = TRUE]
MarkNone(s, page) == s                                         \* mutant
MarkWaiting(s, page) ==
  [i \in DOMAIN s |-> IF WaitsFor(s[i], page) THEN MarkTranslated(s[i]) ELSE s[i]]

Restarted(s, page) ==
  LET n == SpanLength(s, Len(s), LAMBDA e : e.tr)
      waits == {i \in DOMAIN s : i > n /\ WaitsFor(s[i], page)}
      found == Extracted(s, waits)
      other == Extracted(s, (n + 1 .. Len(s)) \ waits)
  IN  SubSeq(s, 1, n) \o [i \in DOMAIN found |-> MarkTranslated(found[i])] \o other

FinishTranslation ==
  LET page == PageOf[Head(tlb.returned)]
  IN  /\ pc = "finish"
      /\ lower.returned = <<>>
      /\ tlb.returned # <<>>
      /\ tlb' = [tlb EXCEPT !.returned = Tail(@)]
      /\ translation_stash' = Restarted(translation_stash, page)
      /\ inflight_tag_check' = MarkWaiting(inflight_tag_check, page)
      /\ UNCHANGED <<pc, chan, upper_levels, block, MSHR, inflight_writes, internal_PQ, lower, loop>>

StartFills ==
  /\ pc = "finish"
  /\ lower.returned = <<>> /\ tlb.returned = <<>>
  /\ pc' = "fill MSHR"
  /\ loop' = [loop EXCEPT !.bw = MAX_FILL]
  /\ UNCHANGED <<chan, upper_levels, cacheVars, lower, tlb>>

-----------------------------------------------------------------------------
(* Perform fills                                                           *)
-----------------------------------------------------------------------------
(* prefetch_line, called or not by a hook of the prefetcher (once at most: a *)
(* bound of the model).                                                    *)
PrefetchEntry(t) ==
  [addr |-> t.addr, v |-> IF VIRTUAL_PREFETCH THEN t.addr ELSE NoAddr, type |-> "PREFETCH",
   tr |-> ~VIRTUAL_PREFETCH, deps |-> {}, skip |-> ~t.fill]
prefetch_line(q) ==
  {q} \cup {Append(q, PrefetchEntry(t)) : t \in IF Len(q) < CACHE_PQ_SIZE THEN PrefetchTargets ELSE {}}

(* The first invalid way of a set, or any way the policy picks; a bypass    *)
(* (way 0) is allowed to the policy except for a write.                    *)
Victims(m) ==
  LET ways == block[SetOf[BlockOf[m.addr]]]
      free == {w \in Ways : ~ways[w].valid}
  IN  IF free # {} THEN {Min(free)} ELSE Ways \cup (IF m.type = "WRITE" THEN {} ELSE {0})

fill_block(m) ==
  [valid |-> TRUE, dirty |-> m.type = "WRITE", prefetch |-> m.pf, addr |-> m.addr]

Answer(to, response) ==
  [u \in Uppers |-> IF u \in to THEN [chan[u] EXCEPT !.returned = Append(@, response)] ELSE chan[u]]

NeedsWriteback(s, w) == w # 0 /\ block[s][w].valid /\ block[s][w].dirty
WritebackRoom == Len(lower.WQ) < LOWER_SIZE

(* handle_fill with victim w, when it returns true: a dirty victim goes to  *)
(* the write queue below, the block takes its place, and every level that   *)
(* waits is answered.                                                      *)
WritebackNever(s, w) == lower                                  \* mutant
Writeback(s, w) ==
  IF NeedsWriteback(s, w) THEN [lower EXCEPT !.WQ = Append(@, block[s][w].addr)] ELSE lower

handle_fill(m, w) ==
  LET s == SetOf[BlockOf[m.addr]]
  IN  /\ NeedsWriteback(s, w) => WritebackRoom
      /\ lower' = Writeback(s, w)
      /\ block' = IF w = 0 THEN block ELSE [block EXCEPT ![s][w] = fill_block(m)]
      /\ chan' = Answer(m.to, [addr |-> m.addr, v |-> m.v, deps |-> m.deps])
      /\ internal_PQ' \in prefetch_line(internal_PQ)

(* handle_fill returns false: the loop over this queue stops. *)
FillBlocked(m, w) == NeedsWriteback(SetOf[BlockOf[m.addr]], w) /\ ~WritebackRoom

ReadyToFill(q) == q # <<>> /\ Head(q).ready = 0 /\ loop.bw > 0

FillFromMSHR ==
  /\ pc = "fill MSHR"
  /\ ReadyToFill(MSHR)
  /\ \E w \in Victims(Head(MSHR)) : handle_fill(Head(MSHR), w)
  /\ MSHR' = Tail(MSHR)
  /\ loop' = [loop EXCEPT !.bw = @ - 1]
  /\ UNCHANGED <<pc, upper_levels, inflight_writes, inflight_tag_check, translation_stash, tlb>>

FillFromWrites ==
  /\ pc = "fill writes"
  /\ ReadyToFill(inflight_writes)
  /\ \E w \in Victims(Head(inflight_writes)) : handle_fill(Head(inflight_writes), w)
  /\ inflight_writes' = Tail(inflight_writes)
  /\ loop' = [loop EXCEPT !.bw = @ - 1]
  /\ UNCHANGED <<pc, upper_levels, MSHR, inflight_tag_check, translation_stash, tlb>>

EndFills(q, here, next) ==
  /\ pc = here
  /\ ReadyToFill(q) => \E w \in Victims(Head(q)) : FillBlocked(Head(q), w)
  /\ pc' = next
  /\ UNCHANGED <<chan, upper_levels, cacheVars, lower, tlb, loop>>

-----------------------------------------------------------------------------
(* Initiate tag checks                                                     *)
-----------------------------------------------------------------------------
TagCheck(e, to, skip, local) ==
  [addr |-> e.addr, v |-> e.v, type |-> e.type, tr |-> e.tr, issued |-> FALSE, deps |-> e.deps,
   pf |-> local, skip |-> skip, to |-> to, event |-> HIT_LATENCY]

(* The room in the pipeline, and the translated requests of the stash first. *)
TagBandwidth == Smaller(MAX_TAG, Larger(0, MAX_TAG * HIT_LATENCY - Len(inflight_tag_check)))

InitiateFromStash ==
  LET n == SpanLength(translation_stash, TagBandwidth, LAMBDA e : e.tr)
      taken == [i \in 1 .. n |-> [translation_stash[i] EXCEPT !.event = HIT_LATENCY]]
      left == TagBandwidth - n
  IN  /\ pc = "initiate"
      /\ inflight_tag_check' = inflight_tag_check \o taken
      /\ translation_stash' = Rest(translation_stash, n)
      /\ upper_levels' = Rest(upper_levels, 1) \o <<upper_levels[1]>>
      /\ loop' = [loop EXCEPT !.bw = left, !.at = 1,
                              !.share = Larger(1, left \div Len(upper_levels)),
                              !.avail = Len(translation_stash) < MSHR_SIZE]
      /\ pc' = "channels"
      /\ UNCHANGED <<chan, block, MSHR, inflight_writes, internal_PQ, lower, tlb>>

(* can_translate: a request that has to be translated is let in only if the *)
(* stash was not full when the cycle began.                                *)
Admitted(e) == loop.avail \/ e.tr

(* initiate_tag_check<true>: each channel in turn, its WQ, RQ and PQ. *)
InitiateFromChannel ==
  LET u == upper_levels[((loop.at - 1) \div 3) + 1]
      q == <<"WQ", "RQ", "PQ">>[((loop.at - 1) % 3) + 1]
      n == SpanLength(chan[u][q], Smaller(loop.share, loop.bw), Admitted)
      taken == SubSeq(chan[u][q], 1, n)
  IN  /\ pc = "channels"
      /\ loop.at <= 3 * Len(upper_levels)
      /\ inflight_tag_check' = inflight_tag_check \o
           [i \in 1 .. n |-> TagCheck(taken[i], IF taken[i].resp THEN {u} ELSE {}, FALSE, FALSE)]
      /\ chan' = [chan EXCEPT ![u][q] = Rest(@, n)]
      /\ loop' = [loop EXCEPT !.bw = @ - n, !.at = @ + 1]
      /\ UNCHANGED <<pc, upper_levels, block, MSHR, inflight_writes, translation_stash,
                     internal_PQ, lower, tlb>>

InitiateFromPrefetches ==
  LET n == SpanLength(internal_PQ, loop.bw, Admitted)
  IN  /\ pc = "channels"
      /\ loop.at > 3 * Len(upper_levels)
      /\ inflight_tag_check' = inflight_tag_check \o
           [i \in 1 .. n |-> TagCheck(internal_PQ[i], {}, internal_PQ[i].skip, TRUE)]
      /\ internal_PQ' = Rest(internal_PQ, n)
      /\ pc' = "translate"
      /\ UNCHANGED <<chan, upper_levels, block, MSHR, inflight_writes, translation_stash,
                     lower, tlb, loop>>

-----------------------------------------------------------------------------
(* Issue translations, and stash the requests still waiting for one        *)
-----------------------------------------------------------------------------
NeedsIssue(e) == ~e.issued /\ ~e.tr

(* issue_translation, for one request of the pipeline or of the stash *)
IssueTranslation ==
  LET i == SelectInSeq(inflight_tag_check, NeedsIssue)
      j == SelectInSeq(translation_stash, NeedsIssue)
      v == IF i # 0 THEN inflight_tag_check[i].v ELSE translation_stash[j].v
  IN  /\ pc = "translate"
      /\ i # 0 \/ j # 0
      /\ Len(tlb.RQ) < LOWER_SIZE
      /\ tlb' = [tlb EXCEPT !.RQ = Append(@, v)]
      /\ IF i # 0
           THEN /\ inflight_tag_check' = [inflight_tag_check EXCEPT ![i].issued = TRUE]
                /\ UNCHANGED translation_stash
           ELSE /\ translation_stash' = [translation_stash EXCEPT ![j].issued = TRUE]
                /\ UNCHANGED inflight_tag_check
      /\ UNCHANGED <<pc, chan, upper_levels, block, MSHR, inflight_writes, internal_PQ, lower, loop>>

(* extract_if: requests that are due but not translated go to the stash.    *)
(* Then the tag checks of this cycle: those that are due and translated, up *)
(* to the first that is not and to MAX_TAG of them.                        *)
IsReady(e) == e.event = 0
StashUntranslated ==
  LET missed == {i \in DOMAIN inflight_tag_check :
                   IsReady(inflight_tag_check[i]) /\ ~inflight_tag_check[i].tr}
      kept == Extracted(inflight_tag_check, DOMAIN inflight_tag_check \ missed)
  IN  /\ pc = "translate"
      /\ (\A e \in ToSet(inflight_tag_check \o translation_stash) : ~NeedsIssue(e))
           \/ Len(tlb.RQ) >= LOWER_SIZE
      /\ inflight_tag_check' = kept
      /\ translation_stash' = translation_stash \o Extracted(inflight_tag_check, missed)
      /\ loop' = [loop EXCEPT !.at = 1,
                              !.checks = SpanLength(kept, MAX_TAG, LAMBDA e : IsReady(e) /\ e.tr)]
      /\ pc' = "hit"
      /\ UNCHANGED <<chan, upper_levels, block, MSHR, inflight_writes, internal_PQ, lower, tlb>>

-----------------------------------------------------------------------------
(* Perform tag checks: first try_hit on each of them, then handle_miss on   *)
(* those that missed.  What is finished leaves the pipeline, and what fails *)
(* stays at its head, to be tried again in the next cycle.                 *)
-----------------------------------------------------------------------------
Checking(here) == pc = here /\ loop.at <= loop.checks
Packet == inflight_tag_check[loop.at]

FinishCheck ==
  /\ inflight_tag_check' = RemoveAt(inflight_tag_check, loop.at)
  /\ loop' = [loop EXCEPT !.checks = @ - 1]
NextCheck ==
  /\ loop' = [loop EXCEPT !.at = @ + 1]
  /\ UNCHANGED inflight_tag_check

HitWays(a) ==
  LET s == SetOf[BlockOf[a]]
  IN  {w \in Ways : block[s][w].valid /\ SameBlock(block[s][w].addr, a)}

(* The prefetcher sees the lookups that are not its own. *)
Operated(e) == IF e.pf THEN {internal_PQ} ELSE prefetch_line(internal_PQ)

(* try_hit when it hits: the level above is answered, a write makes the     *)
(* block dirty, and a prefetched block has now been used.                  *)
TryHit ==
  LET e == Packet
      s == SetOf[BlockOf[e.addr]]
      w == Min(HitWays(e.addr))
  IN  /\ Checking("hit")
      /\ HitWays(e.addr) # {}
      /\ chan' = Answer(e.to, [addr |-> e.addr, v |-> e.v, deps |-> e.deps])
      /\ block' = [block EXCEPT ![s][w].dirty = @ \/ e.type = "WRITE",
                                ![s][w].prefetch = @ /\ e.pf]
      /\ internal_PQ' \in Operated(Packet)
      /\ FinishCheck
      /\ UNCHANGED <<pc, upper_levels, MSHR, inflight_writes, translation_stash, lower, tlb>>

TryMiss ==
  /\ Checking("hit")
  /\ HitWays(Packet.addr) = {}
  /\ internal_PQ' \in Operated(Packet)
  /\ NextCheck
  /\ UNCHANGED <<pc, chan, upper_levels, block, MSHR, inflight_writes, translation_stash, lower, tlb>>

MissEntry(e, ready) ==
  [addr |-> e.addr, v |-> e.v, type |-> e.type, pf |-> e.pf, deps |-> e.deps, to |-> e.to,
   ready |-> ready]

(* mshr_type::merge: the later request prevails unless it is a prefetch. *)
MergeKeepsEarlier(m, n) ==                                     \* mutant
  [m EXCEPT !.deps = m.deps \cup n.deps, !.to = m.to \cup n.to]
MergeAnswersFirst(m, n) ==                                     \* mutant
  [IF n.type = "PREFETCH" THEN m ELSE n EXCEPT
     !.deps = m.deps \cup n.deps, !.to = m.to, !.ready = m.ready]
MergeResetsPromise(m, n) ==                                    \* mutant
  [IF n.type = "PREFETCH" THEN m ELSE n EXCEPT !.deps = m.deps \cup n.deps, !.to = m.to \cup n.to]
merge(m, n) ==
  [IF n.type = "PREFETCH" THEN m ELSE n EXCEPT
     !.deps = m.deps \cup n.deps, !.to = m.to \cup n.to, !.ready = m.ready]

IsFill(e) == e.type = "WRITE" /\ ~MATCH_OFFSET_BITS     \* a writeback, to be handled by handle_write

(* handle_write *)
HandleWrite ==
  /\ Checking("miss")
  /\ IsFill(Packet)
  /\ inflight_writes' = Append(inflight_writes, MissEntry(Packet, FILL_LATENCY))
  /\ FinishCheck
  /\ UNCHANGED <<pc, chan, upper_levels, block, MSHR, translation_stash, internal_PQ, lower, tlb>>

(* handle_miss, the block is already on its way *)
MergeMiss ==
  LET e == Packet
      i == MatchingMSHR(e.addr)
  IN  /\ Checking("miss")
      /\ ~IsFill(e)
      /\ i # 0
      /\ MSHR' = [MSHR EXCEPT ![i] = merge(@, MissEntry(e, Unknown))]
      /\ FinishCheck
      /\ UNCHANGED <<pc, chan, upper_levels, block, inflight_writes, translation_stash,
                     internal_PQ, lower, tlb>>

(* handle_miss, a new miss: it needs an MSHR and room in the queue below.   *)
(* Only a request that will not be filled here wants no response.          *)
MSHRFull == Len(MSHR) = MSHR_SIZE
SendQueue(e) == IF PREFETCH_AS_LOAD \/ e.type # "PREFETCH" THEN "RQ" ELSE "PQ"
ResponseRequested(e) == ~e.pf \/ ~e.skip
CanMiss(e) == ~MSHRFull /\ Len(lower[SendQueue(e)]) < LOWER_SIZE

ForwardMiss ==
  LET e == Packet
  IN  /\ Checking("miss")
      /\ ~IsFill(e)
      /\ MatchingMSHR(e.addr) = 0
      /\ CanMiss(e)
      /\ lower' = [lower EXCEPT ![SendQueue(e)] =
                      Append(@, [addr |-> e.addr, resp |-> ResponseRequested(e)])]
      /\ MSHR' = IF ResponseRequested(e) THEN Append(MSHR, MissEntry(e, Unknown)) ELSE MSHR
      /\ FinishCheck
      /\ UNCHANGED <<pc, chan, upper_levels, block, inflight_writes, translation_stash,
                     internal_PQ, tlb>>

RetryMiss ==
  /\ Checking("miss")
  /\ ~IsFill(Packet)
  /\ MatchingMSHR(Packet.addr) = 0
  /\ ~CanMiss(Packet)
  /\ NextCheck
  /\ UNCHANGED <<pc, chan, upper_levels, block, MSHR, inflight_writes, translation_stash,
                 internal_PQ, lower, tlb>>

StartMisses ==
  /\ pc = "hit"
  /\ loop.at > loop.checks
  /\ pc' = "miss"
  /\ loop' = [loop EXCEPT !.at = 1]
  /\ UNCHANGED <<chan, upper_levels, cacheVars, lower, tlb>>

(* The end of operate, with the cycle hook of the prefetcher; time passes. *)
Sooner(n) == IF n > 0 THEN n - 1 ELSE n
EndCycle ==
  /\ pc = "miss"
  /\ loop.at > loop.checks
  /\ pc' = "idle"
  /\ loop' = NoLoop
  /\ MSHR' = [i \in DOMAIN MSHR |-> [MSHR[i] EXCEPT !.ready = Sooner(@)]]
  /\ inflight_writes' = [i \in DOMAIN inflight_writes |-> [inflight_writes[i] EXCEPT !.ready = Sooner(@)]]
  /\ inflight_tag_check' =
       [i \in DOMAIN inflight_tag_check |-> [inflight_tag_check[i] EXCEPT !.event = Sooner(@)]]
  /\ internal_PQ' \in prefetch_line(internal_PQ)
  /\ UNCHANGED <<chan, upper_levels, block, translation_stash, lower, tlb>>

-----------------------------------------------------------------------------
(* The levels around the cache                                             *)
-----------------------------------------------------------------------------
Returned(u) == UNION {r.deps : r \in ToSet(chan[u].returned)}
Queued(u) == ToSet(chan[u].RQ \o chan[u].PQ)

(* Read i is inside the cache, or its answer waits for the level above. *)
pending ==
  {i \in Ids :
     \/ \E r \in Queued(Req[i].from) : i \in r.deps /\ r.resp
     \/ \E e \in ToSet(inflight_tag_check \o translation_stash) \cup ToSet(MSHR) :
          i \in e.deps /\ Req[i].from \in e.to}
answered == {i \in Ids : i \in Returned(Req[i].from)}

Request(r, wanted, ids) ==
  [addr |-> r.addr, v |-> r.addr, type |-> r.type, tr |-> r.tr, resp |-> wanted, deps |-> ids,
   checked |-> FALSE]

Add(u, q, packet) ==
  /\ pc = "idle"
  /\ HasRoom(chan[u], q)
  /\ chan' = [chan EXCEPT ![u] = Added(@, q, packet)]
  /\ UNCHANGED <<pc, upper_levels, cacheVars, lower, tlb, loop>>

UpperRead(i) ==
  /\ i \notin pending \cup answered
  /\ Add(Req[i].from, Req[i].queue, Request(Req[i], TRUE, {i}))

UpperWrite(w) ==
  /\ Len(inflight_writes) < WRITES_BOUND
  /\ Add(w.from, "WQ", Request(w, FALSE, {}))

UpperCollect(u) ==
  /\ pc = "idle"
  /\ chan[u].returned # <<>>
  /\ chan' = [chan EXCEPT ![u].returned = Tail(@)]
  /\ UNCHANGED <<pc, upper_levels, cacheVars, lower, tlb, loop>>

(* The level below answers the reads that want it in any order; the others  *)
(* it only takes.                                                          *)
LowerRead(q, i) ==
  /\ pc = "idle"
  /\ lower' = [lower EXCEPT ![q] = RemoveAt(@, i),
                            !.returned = IF lower[q][i].resp THEN Append(@, lower[q][i].addr) ELSE @]
  /\ UNCHANGED <<pc, chan, upper_levels, cacheVars, tlb, loop>>

LowerWrite ==
  /\ pc = "idle"
  /\ lower.WQ # <<>>
  /\ lower' = [lower EXCEPT !.WQ = Tail(@)]
  /\ UNCHANGED <<pc, chan, upper_levels, cacheVars, tlb, loop>>

TlbAnswer(i) ==
  /\ pc = "idle"
  /\ tlb' = [RQ |-> RemoveAt(tlb.RQ, i), returned |-> Append(tlb.returned, tlb.RQ[i])]
  /\ UNCHANGED <<pc, chan, upper_levels, cacheVars, lower, loop>>

Operate ==
  \/ CheckCollisions \/ FinishPacket \/ FinishTranslation
  \/ StartFills \/ FillFromMSHR \/ EndFills(MSHR, "fill MSHR", "fill writes")
  \/ FillFromWrites \/ EndFills(inflight_writes, "fill writes", "initiate")
  \/ InitiateFromStash \/ InitiateFromChannel \/ InitiateFromPrefetches
  \/ IssueTranslation \/ StashUntranslated
  \/ TryHit \/ TryMiss \/ StartMisses
  \/ HandleWrite \/ MergeMiss \/ ForwardMiss \/ RetryMiss
  \/ EndCycle

Around ==
  \/ \E i \in Ids : UpperRead(i)
  \/ \E w \in Writes : UpperWrite(w)
  \/ \E u \in Uppers : UpperCollect(u)
  \/ \E q \in {"RQ", "PQ"} : \E i \in DOMAIN lower[q] : LowerRead(q, i)
  \/ LowerWrite
  \/ \E i \in DOMAIN tlb.RQ : TlbAnswer(i)

Next == Operate \/ Around

Spec == Init /\ [][Next]_vars

(* do_cycle operates the cache for ever.  The other levels keep their own   *)
(* promise: each request below is answered, each write taken, each         *)
(* response collected.  They act between the passes of this cache, so that *)
(* what they can do is enabled again and again but not continuously.       *)
Fairness ==
  /\ WF_vars(Operate)
  /\ \A u \in Uppers : SF_vars(UpperCollect(u))
  /\ \A q \in {"RQ", "PQ"} : SF_vars(lower[q] # <<>> /\ LowerRead(q, 1))
  /\ SF_vars(LowerWrite)
  /\ SF_vars(tlb.RQ # <<>> /\ TlbAnswer(1))

FairSpec == Spec /\ Fairness

-----------------------------------------------------------------------------
TypeOK ==
  /\ pc \in {"idle", "finish", "fill MSHR", "fill writes", "initiate", "channels", "translate",
             "hit", "miss"}
  /\ \A u \in Uppers, q \in QueueNames : Len(chan[u][q]) <= QueueSize(q)
  /\ \A m \in ToSet(MSHR) : m.ready \in {Unknown} \cup 0 .. FILL_LATENCY
  /\ \A m \in ToSet(inflight_writes) : m.ready \in 0 .. FILL_LATENCY /\ m.type = "WRITE"
  /\ \A e \in ToSet(inflight_tag_check \o translation_stash) : e.event \in 0 .. HIT_LATENCY
  /\ Len(internal_PQ) <= CACHE_PQ_SIZE

(* A block is on its way to this cache at most once, and the MSHRs are not  *)
(* exceeded, whatever arrives while a miss is outstanding.                 *)
OneMissPerBlock ==
  /\ Len(MSHR) <= MSHR_SIZE
  /\ \A i, j \in DOMAIN MSHR : i # j => ~SameBlock(MSHR[i].addr, MSHR[j].addr)

(* The MSHRs that have their data come first, in the order in which they    *)
(* become ready: the fill loop stops at the first that is not ready        *)
(* (src/src/cache.cc:496), so one out of place would hold up the others.   *)
ReturnedFirst ==
  \A i, j \in DOMAIN MSHR : i < j =>
    \/ MSHR[j].ready = Unknown
    \/ MSHR[i].ready # Unknown /\ MSHR[i].ready <= MSHR[j].ready

(* Every MSHR without data has exactly one request or response of its block *)
(* below, and every response that comes back finds such an MSHR: neither   *)
(* "cannot find a matching entry" nor an MSHR that waits for ever.         *)
RequestsBelow(q, b) == {i \in DOMAIN lower[q] : lower[q][i].resp /\ BlockOf[lower[q][i].addr] = b}
ResponsesBelow(b) == {i \in DOMAIN lower.returned : BlockOf[lower.returned[i]] = b}
Awaited(b) ==
  Cardinality(RequestsBelow("RQ", b)) + Cardinality(RequestsBelow("PQ", b))
    + Cardinality(ResponsesBelow(b))
EachMissAwaited ==
  /\ pc # "abort"
  /\ \A b \in Block :
       Awaited(b) = Cardinality({i \in DOMAIN MSHR : BlockOf[MSHR[i].addr] = b /\ MSHR[i].ready = Unknown})

(* Misses and their answers match, the MSHRs in the order the fill loop     *)
(* relies on, whatever is merged, refused and tried again.                  *)
MissesAwaited == TypeOK /\ EachMissAwaited /\ ReturnedFirst

(* A block is in the cache at most once and not while it is on its way      *)
(* (where writes allocate like reads; a writeback from above is a fill of   *)
(* its own that looks at neither the tags nor the MSHRs).                  *)
Copies(b) == {w \in Ways : block[SetOf[b]][w].valid /\ BlockOf[block[SetOf[b]][w].addr] = b}
SingleCopy ==
  \A b \in Block :
    /\ \A v, w \in Copies(b) : v = w
    /\ Copies(b) # {} => \A m \in ToSet(MSHR) : BlockOf[m.addr] # b

(* However requests, prefetches and fills of a block meet, the cache keeps  *)
(* and fetches it once.                                                    *)
OneOfEachBlock == OneMissPerBlock /\ SingleCopy

(* Data written by the level above leaves this cache only by a writeback:   *)
(* from the write queue to the tag check, into an MSHR or a write fill, to  *)
(* a dirty block.                                                          *)
PhysicalBlock(e) == BlockOf[IF e.tr THEN e.addr ELSE Physical[e.v]]
Written(b) ==
  \/ \E u \in Uppers : \E r \in ToSet(chan[u].WQ) : PhysicalBlock(r) = b
  \/ \E e \in ToSet(inflight_tag_check \o translation_stash) :
       e.type = "WRITE" /\ PhysicalBlock(e) = b
  \/ \E m \in ToSet(MSHR \o inflight_writes) : m.type = "WRITE" /\ BlockOf[m.addr] = b
  \/ \E w \in Copies(b) : block[SetOf[b]][w].dirty
WritebackOf(b) ==
  Len(lower'.WQ) > Len(lower.WQ) /\ BlockOf[Last(lower'.WQ)] = b
DirtyLeavesByWriteback ==
  [][\A b \in Block : Written(b) => Written(b)' \/ WritebackOf(b)]_vars

(* A request that has asked for its translation has a translation of its    *)
(* page under way.                                                         *)
TranslationUnderWay ==
  \A e \in ToSet(inflight_tag_check \o translation_stash) :
    ~e.tr /\ e.issued => \E v \in ToSet(tlb.RQ \o tlb.returned) : PageOf[v] = PageOf[e.v]

(* The pipeline of tag checks holds no more than it can start in            *)
(* HIT_LATENCY cycles, however long its head waits for an MSHR.            *)
TagCheckBound == Len(inflight_tag_check) <= MAX_TAG * HIT_LATENCY

(* A response names the block its requester asked for: the virtual block of *)
(* a request that had to be translated, by which the core finds its loads, *)
(* even when requests of other levels and prefetches were merged with it.  *)
AnswersMatch ==
  \A i \in Ids : \A r \in ToSet(chan[Req[i].from].returned) :
    i \in r.deps =>
      IF Req[i].tr THEN SameBlock(r.addr, Req[i].addr) ELSE SameBlock(r.v, Req[i].addr)

(* Untranslated requests wait for a translation that is under way, come back *)
(* into the pipeline only when there is room in it, and are answered for the *)
(* block they named (finish_translation, issue_translation, handle_fill).   *)
TranslationsKept == TranslationUnderWay /\ TagCheckBound /\ AnswersMatch

(* The cache keeps the promise of MemService to the levels above, merging   *)
(* and retrying as it does: no request is lost, none is answered twice.    *)
Service == INSTANCE MemService
ServiceSpec == Service!Spec

(* Every demand is answered, however often it has to retry for an MSHR. *)
Demands == {i \in Ids : Req[i].queue = "RQ"}
DemandsAnswered == \A i \in Demands : i \in pending ~> i \in answered
=============================================================================
