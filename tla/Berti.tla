-------------------------------- MODULE Berti --------------------------------
(* The local delta prefetcher with bursts (prefetcher/berti).  It learns of     *)
(* each page in use the delta from an earlier access that would have hidden   *)
(* the latency of a block; of the pages that are gone it records the blocks   *)
(* accessed and the best delta, and the instruction that began a page points  *)
(* to the record it comes to.  Each call of the cache is one step.            *)
(* Requests and prefetches are kept with their page (the model's).            *)
EXTENDS Integers, Sequences, FiniteSets, SequencesExt

CONSTANTS
  Ip, Page,             \* entries of instructions, and the pages accessed, from 1 on
  BLOCKS,               \* blocks of a page
  ENTRIES,              \* of the table of current pages
  NUM_BERTI, NUM_BERTI_PER_ACCESS,
  PREV_REQUESTS, PREV_PREFETCHES, RECORD_ENTRIES,
  MAX_NUM_BURST_PREFETCHES, MED_HIGH_CONFIDENCE,
  TIME_OVERFLOW,        \* of the times that are kept
  virtual_prefetch,     \* pages may be left
  TICK,                 \* bound: the cycles from one call to the next
  PQ_SIZE               \* bound: how many prefetches of a call the cache takes

VARIABLES
  tables,               \* all of them: see Init
  now,                  \* current_core_cycle
  asked                 \* page and offset of the blocks asked for by the last call

vars == <<tables, now, asked>>

Null == ENTRIES
NullRecord == RECORD_ENTRIES
Offset == 0..BLOCKS - 1
First(S) == CHOOSE i \in S : \A j \in S : i <= j

NoRequest == [pointer |-> Null, page |-> 0, offset |-> 0, time |-> 0]
NoPrefetch == [pointer |-> Null, page |-> 0, offset |-> 0, time_lat |-> 0, completed |-> FALSE]

Init ==
  /\ tables =
      [current |-> [i \in 0..ENTRIES - 1 |->
         [page_addr |-> 0, ip |-> CHOOSE ip \in Ip : TRUE, u_vector |-> {}, first_offset |-> 0,
          berti |-> <<>>, last_burst |-> 0, lru |-> i]],
       requests |-> [i \in 0..PREV_REQUESTS - 1 |-> NoRequest], requests_head |-> 0,
       prefetches |-> [i \in 0..PREV_PREFETCHES - 1 |-> NoPrefetch], prefetches_head |-> 0,
       record |-> [i \in 0..RECORD_ENTRIES - 1 |->
         [page_addr |-> 0, u_vector |-> {}, first_offset |-> 0, berti |-> 0, lru |-> i]],
       ip |-> [ip \in Ip |-> NullRecord]]
  /\ now = 1 /\ asked = {}

-----------------------------------------------------------------------------
(* Both tables of pages: the entries with the page, the age of one that is     *)
(* used, and the oldest that makes room.                                    *)
WithPage(table, page) == {i \in DOMAIN table : table[i].page_addr = page}
UpdateLru(table, i) ==
  [j \in DOMAIN table |->
     [table[j] EXCEPT !.lru = IF j = i THEN 0 ELSE IF @ < table[i].lru THEN @ + 1 ELSE @]]
Oldest(table) == First({i \in DOMAIN table : table[i].lru + 1 = Cardinality(DOMAIN table)})
AgedAll(table) ==
  [j \in DOMAIN table |-> [table[j] EXCEPT !.lru = IF j = Oldest(table) THEN 0 ELSE @ + 1]]

(* l1d_get_berti_current_pages_table: the first of the most counted deltas. *)
BestOf(entry) ==
  LET best == {i \in DOMAIN entry.berti :
                 \A j \in DOMAIN entry.berti : entry.berti[j].ctr <= entry.berti[i].ctr}
  IN IF best = {} THEN [delta |-> 0, ctr |-> 0] ELSE entry.berti[First(best)]

(* l1d_add_berti_current_pages_table, of the deltas up to one that is 0. *)
AddBerti(entry, delta) ==
  LET at == SelectInSeq(entry.berti, LAMBDA b : b.delta = delta)
  IN IF at # 0 THEN [entry EXCEPT !.berti[at].ctr = @ + 1]
     ELSE IF Len(entry.berti) < NUM_BERTI
     THEN [entry EXCEPT !.berti = Append(@, [delta |-> delta, ctr |-> 1])]
     ELSE entry
AddBertis(t, i, all) ==
  LET none == SelectInSeq(all, LAMBDA d : d = 0)
      deltas == IF none = 0 THEN all ELSE SubSeq(all, 1, none - 1)
  IN IF deltas = <<>> THEN t
     ELSE [t EXCEPT !.current = UpdateLru([@ EXCEPT ![i] = FoldLeft(AddBerti, @, deltas)], i)]

-----------------------------------------------------------------------------
(* The rings of requests and prefetches *)

At(ring, pointer, offset) ==
  {i \in DOMAIN ring : ring[i].pointer = pointer /\ ring[i].offset = offset}

AddRequest(t, pointer, offset) ==
  IF At(t.requests, pointer, offset) # {} THEN t
  ELSE [t EXCEPT !.requests[t.requests_head] =
                   [pointer |-> pointer, page |-> t.current[pointer].page_addr,
                    offset |-> offset, time |-> now % TIME_OVERFLOW],
                 !.requests_head = (@ + 1) % PREV_REQUESTS]
AddPrefetch(t, pointer, offset) ==
  IF At(t.prefetches, pointer, offset) # {} THEN t
  ELSE [t EXCEPT !.prefetches[t.prefetches_head] =
                   [pointer |-> pointer, page |-> t.current[pointer].page_addr, offset |-> offset,
                    time_lat |-> now % TIME_OVERFLOW, completed |-> FALSE],
                 !.prefetches_head = (@ + 1) % PREV_PREFETCHES]

RequestsLeft(ring, pointer) == ring                                        \* mutant
(* l1d_reset_pointer_prev_requests and _prefetches *)
ForgottenRequests(ring, pointer) ==
  [i \in DOMAIN ring |-> IF ring[i].pointer = pointer
                         THEN [NoRequest EXCEPT !.time = ring[i].time] ELSE ring[i]]
ForgottenPrefetches(ring, pointer) ==
  [i \in DOMAIN ring |-> IF ring[i].pointer = pointer THEN NoPrefetch ELSE ring[i]]

(* l1d_get_latency_prev_requests_table and _prefetches_table: the difference   *)
(* of now and of a time that went round.                                    *)
DemandLatency(t, pointer, offset) ==
  LET at == At(t.requests, pointer, offset)
  IN IF at = {} THEN 0 ELSE now - t.requests[First(at)].time
PrefetchLatency(t, pointer, offset) ==
  LET at == {i \in At(t.prefetches, pointer, offset) : t.prefetches[i].completed}
  IN IF at = {} THEN 0 ELSE t.prefetches[First(at)].time_lat
Timed(t, pointer, offset) ==
  [t EXCEPT !.prefetches = [i \in DOMAIN @ |->
     IF i \in At(@, pointer, offset) /\ ~@[i].completed
     THEN [@[i] EXCEPT !.time_lat = now - @, !.completed = TRUE] ELSE @[i]]]

(* l1d_get_berti_prev_requests_table: from the youngest back, but for the one *)
(* the head is at, the deltas of the page's requests not after the cycle.   *)
Deltas(t, pointer, offset, cycle) ==
  LET Back(r, k) ==
        LET e == t.requests[(t.requests_head + PREV_REQUESTS - k) % PREV_REQUESTS]
            extra == IF r.last < e.time THEN TIME_OVERFLOW ELSE r.extra
            early == e.pointer = pointer /\ e.time <= (cycle % TIME_OVERFLOW) + extra
        IN [last |-> e.time, extra |-> extra,
            deltas |-> IF early /\ Len(r.deltas) < NUM_BERTI_PER_ACCESS
                       THEN Append(r.deltas, offset - e.offset) ELSE r.deltas]
      youngest == t.requests[(t.requests_head + PREV_REQUESTS - 1) % PREV_REQUESTS]
  IN FoldLeft(Back, [last |-> youngest.time, extra |-> 0, deltas |-> <<>>],
              [k \in 1..PREV_REQUESTS - 1 |-> k]).deltas

-----------------------------------------------------------------------------
(* The records *)

(* l1d_record_current_page: where the instruction that began the page points. *)
Recorded(t, i) ==
  LET e == t.current[i]
      r == t.ip[e.ip]
  IN IF e.u_vector = {} THEN t
     ELSE [t EXCEPT !.record = UpdateLru(
             [@ EXCEPT ![r].page_addr = e.page_addr, ![r].u_vector = e.u_vector,
                       ![r].first_offset = e.first_offset, ![r].berti = BestOf(e).delta], r)]

(* The record that an instruction will point to as it begins a page: the one    *)
(* of the page, or a copy of its own in the place of the oldest.             *)
Pointed(t, ip, page, offset) ==
  LET same == {r \in WithPage(t.record, page) : t.record[r].first_offset = offset}
      pointer == t.ip[ip]
      oldest == Oldest(t.record)
      from == t.record[pointer]
  IN IF pointer = NullRecord
     THEN IF same # {} THEN [t EXCEPT !.ip[ip] = First(same)]
          ELSE [t EXCEPT !.ip[ip] = oldest, !.record = AgedAll(@)]
     ELSE IF same # {} /\ First(same) = pointer THEN t
     ELSE [t EXCEPT !.ip[ip] = oldest,
                    !.record = [AgedAll(@) EXCEPT ![oldest] = [from EXCEPT !.lru = 0]]]

-----------------------------------------------------------------------------
(* prefetcher_cache_operate.  `a` is the access, `m` what the call goes on     *)
(* with: the tables and the room that the cache has left for prefetches.     *)
(* `pq_free` is of the first queue of get_pq_occupancy, the one from the level  *)
(* above, which prefetches made here do not go through.                      *)

(* Another block of a page in use; a prefetch that was early enough and is     *)
(* used teaches.                                                            *)
Taught(t, i, a, latency) ==
  IF a.hit /\ latency # 0
  THEN [AddBertis(t, i, Deltas(t, i, a.offset, now - latency)) EXCEPT
          !.prefetches = [@ EXCEPT ![First(At(@, i, a.offset))] = NoPrefetch]]
  ELSE t
Again(t, i, a) ==
  LET Used(u) == Taught(u, i, a, PrefetchLatency(u, i, a.offset))
  IN [Used([t EXCEPT !.current = UpdateLru([@ EXCEPT ![i].u_vector = @ \cup {a.offset}], i)])
        EXCEPT !.ip[a.ip] = t.ip[t.current[i].ip]]

(* The first block of a page, in the place of the oldest. *)
Begun(t, i, a) ==
  Pointed([Recorded([t EXCEPT !.current = AgedAll(@)], i) EXCEPT
             !.requests = ForgottenRequests(@, i),
             !.prefetches = ForgottenPrefetches(@, i),
             !.current[i] = [page_addr |-> a.page, ip |-> a.ip, u_vector |-> {a.offset},
                             first_offset |-> a.offset, berti |-> <<>>, last_burst |-> 0,
                             lru |-> 0]],
          a.ip, a.page, a.offset)

(* What the block is predicted from: the record that had these blocks after    *)
(* the same first one, what the page has shown, or any record of it.        *)
Predicted(t, i, a) ==
  LET e == t.current[i]
      With(r, high) == [u_vector |-> t.record[r].u_vector, berti |-> t.record[r].berti,
                        high |-> high, recorded |-> TRUE]
      Covers(r) == t.record[r].first_offset = e.first_offset /\ e.u_vector \subseteq t.record[r].u_vector
      pages == WithPage(t.record, a.page)
      pgo == {r \in pages : t.record[r].first_offset = e.first_offset}
      best == BestOf(e)
  IN IF pgo # {} /\ Covers(First(pgo)) THEN With(First(pgo), TRUE)
     ELSE IF Covers(t.ip[a.ip]) THEN With(t.ip[a.ip], TRUE)
     ELSE IF best.ctr >= MED_HIGH_CONFIDENCE
     THEN [u_vector |-> e.u_vector, berti |-> best.delta, high |-> FALSE, recorded |-> FALSE]
     ELSE IF pages # {} THEN With(First(pages), FALSE)
     ELSE IF t.record[t.ip[a.ip]].u_vector # {} THEN With(t.ip[a.ip], FALSE)
     ELSE [u_vector |-> {}, berti |-> 0, high |-> FALSE, recorded |-> FALSE]

(* One prefetch, which is told to the page of the access. *)
Prefetch(m, i, page, offset) ==
  IF m.room = 0 \/ (~virtual_prefetch /\ page # m.page) THEN m
  ELSE [m EXCEPT !.room = @ - 1, !.bursts = @ + 1, !.t = AddPrefetch(@, i, offset),
                 !.asked = @ \cup {<<page, offset>>}]

(* The page of a block of a burst whose bits are laid over those of the page:   *)
(* past the end of an odd page they change nothing, before its start they are *)
(* all ones.  Shifts go round the word, of one bit for a block.             *)
PageUnder(page, block) ==
  IF block < 0 THEN -1 ELSE IF block < BLOCKS \/ page % 2 = 1 THEN page ELSE page + 1

(* A block of a burst: one that was accessed in the record and was not yet; the *)
(* first that is too many is kept for the next access, when it is on the way. *)
Burst(i, p, a, m, block, onward) ==
  LET offset == block % BLOCKS
  IN IF m.stopped \/ offset \notin p.u_vector \ m.t.current[i].u_vector THEN m
     ELSE IF a.pq_free /\ m.bursts < MAX_NUM_BURST_PREFETCHES
     THEN Prefetch(m, i, PageUnder(m.page, block), offset)
     ELSE IF onward THEN [m EXCEPT !.t.current[i].last_burst = block, !.stopped = TRUE] ELSE m

(* Up or down to the block of the delta, or all of the page from both sides. *)
BurstFrom(m, i, p, a, first_burst) ==
  LET On(r, block) == Burst(i, p, a, r, block, TRUE)
      first_offset == m.t.current[i].first_offset
      Both(r, block) ==
        LET on == On(r, block)
        IN IF on.stopped THEN on
           ELSE Burst(i, p, a, on, 2 * first_offset - block, FALSE)
      Up(last) == [k \in 1..(last - first_burst + 1) |-> first_burst + k - 1]
      Down(last) == [k \in 1..(first_burst - last + 1) |-> first_burst - k + 1]
      Least(x, y) == IF x < y THEN x ELSE y
      Most(x, y) == IF x < y THEN y ELSE x
  IN CASE p.berti > 0 -> FoldLeft(On, m, Up(Least(a.offset + p.berti, BLOCKS) - 1))
       [] p.berti < 0 -> FoldLeft(On, m, Down(Most(a.offset + p.berti + 1, 0)))
       [] p.berti = 0 -> FoldLeft(Both, m, Up(Most(BLOCKS - 1, 2 * first_offset)))

Bursts(m, i, p, a) ==
  LET e == m.t.current[i]
      first_burst == IF e.last_burst # 0 THEN e.last_burst
                     ELSE IF p.berti >= 0 THEN a.offset + 1 ELSE a.offset - 1
      begun == [m EXCEPT !.t.current[i].last_burst = 0]
  IN IF e.first_offset # a.offset /\ e.last_burst = 0 THEN m
     ELSE IF p.recorded /\ p.high THEN BurstFrom(begun, i, p, a, first_burst)
     ELSE begun

(* The block of the delta, unless it was accessed, or was not in the record. *)
Delta(m, i, p, a) ==
  LET block == a.offset + p.berti
      offset == block % BLOCKS
  IN IF \/ p.berti = 0 \/ offset \in m.t.current[i].u_vector
        \/ (p.high /\ offset \notin p.u_vector)
     THEN m
     ELSE Prefetch(m, i, a.page + (block \div BLOCKS), offset)

prefetcher_cache_operate(ip, page, offset, hit, pq_free, room) ==
  LET a == [ip |-> ip, page |-> page, offset |-> offset, hit |-> hit, pq_free |-> pq_free]
      at == WithPage(tables.current, page)
      i == IF at = {} THEN Oldest(tables.current) ELSE First(at)
      Asks(m, p) == Delta(Bursts(m, i, p, a), i, p, a)
      Requests(t) ==
        Asks([t |-> t, page |-> page, room |-> room, bursts |-> 0, stopped |-> FALSE, asked |-> {}],
             Predicted(t, i, a))
      Ends(m) == tables' = m.t /\ asked' = m.asked
  IN IF at # {} /\ offset \in tables.current[i].u_vector
     THEN asked' = {} /\ UNCHANGED tables
     ELSE Ends(Requests(AddRequest(IF at = {} THEN Begun(tables, i, a) ELSE Again(tables, i, a),
                                   i, offset)))

(* prefetcher_cache_fill, of a block that has come; the page of the one it      *)
(* replaces is in use no longer.  Page 0 is that of no block.               *)
prefetcher_cache_fill(page, offset, evicted_page) ==
  LET at == WithPage(tables.current, page)
      gone == WithPage(tables.current, evicted_page)
      Learnt(t, i, demand, pref) ==
        IF demand = 0 THEN t
        ELSE AddBertis(t, i, Deltas(t, i, offset,
                                    now - (demand + (IF pref = 0 THEN demand ELSE pref))))
      Filled(t, i) == Learnt(t, i, DemandLatency(t, i, offset), PrefetchLatency(t, i, offset))
      Left(t, i) ==
        [Recorded(t, i) EXCEPT !.current = [@ EXCEPT
           ![i].page_addr = 0, ![i].u_vector = {}, ![i].berti = <<>>]]
      learnt == IF at = {} THEN tables ELSE Filled(Timed(tables, First(at), offset), First(at))
  IN /\ tables' = IF gone = {} THEN learnt ELSE Left(learnt, First(gone))
     /\ asked' = {}

Next ==
  /\ \E tick \in TICK : now' = now + tick
  /\ \E page \in Page, offset \in Offset :
       \/ \E ip \in Ip, hit, pq_free \in BOOLEAN, room \in {0, PQ_SIZE} :
            prefetcher_cache_operate(ip, page, offset, hit, pq_free, room)
       \/ \E evicted_page \in Page \cup {0} : prefetcher_cache_fill(page, offset, evicted_page)

Spec == Init /\ [][Next]_vars

-----------------------------------------------------------------------------
(* What points to an entry of the current pages is of the page that is there,    *)
(* or of one whose block was evicted since: requests of its blocks that were  *)
(* accessed, and prefetches, each once.  And the instruction that began a     *)
(* page has a record to leave it in (the assertions of berti.cc:57 and        *)
(* berti_aux.cc:396).                                                       *)
PointersKept ==
  /\ \A ring \in {tables.requests, tables.prefetches} : \A k \in DOMAIN ring :
       LET e == ring[k]
       IN e.pointer # Null => /\ tables.current[e.pointer].page_addr \in {e.page, 0}
                              /\ At(ring, e.pointer, e.offset) = {k}
  /\ \A i \in DOMAIN tables.current :
       tables.current[i].u_vector # {} => tables.ip[tables.current[i].ip] # NullRecord

(* A delta that is learnt, and one that is recorded, is the distance of two      *)
(* blocks of the page that were accessed, whatever the rings had of others     *)
(* and however often their times went round.                                 *)
DeltasSeen ==
  LET Of(u_vector, delta) == delta # 0 /\ \E o \in u_vector : o + delta \in u_vector
  IN /\ \A i \in DOMAIN tables.current :
          LET e == tables.current[i] IN \A k \in DOMAIN e.berti : Of(e.u_vector, e.berti[k].delta)
     /\ \A r \in DOMAIN tables.record :
          LET e == tables.record[r] IN e.berti = 0 \/ Of(e.u_vector, e.berti)

(* The ages of both tables are 0 to their size less one, so that there always    *)
(* is an oldest entry (the assertions of berti_aux.cc:77 and 321), and no page *)
(* is current twice.                                                          *)
AgesOrdered ==
  /\ \A table \in {tables.current, tables.record} :
       {table[i].lru : i \in DOMAIN table} = DOMAIN table
  /\ \A i \in DOMAIN tables.current :
       tables.current[i].page_addr # 0 => WithPage(tables.current, tables.current[i].page_addr) = {i}

(* A block is asked for only of a page in use that has not had an access of it,    *)
(* whichever end of the page a burst runs over.                                *)
AskedUnseen ==
  virtual_prefetch \/ \A x \in asked : \E i \in DOMAIN tables.current :
    tables.current[i].page_addr = x[1] /\ x[2] \in Offset \ tables.current[i].u_vector

BertiKeeps == PointersKept /\ DeltasSeen /\ AgesOrdered /\ AskedUnseen
=============================================================================
