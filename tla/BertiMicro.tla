------------------------------ MODULE BertiMicro ------------------------------
(* The local delta prefetcher (prefetcher/berti_micro): for each page in use   *)
(* it looks for the delta from an earlier access that would have been early   *)
(* enough to hide the latency of a block, which it learns when the block      *)
(* comes; an instruction points to its page, and when the page is evicted     *)
(* keeps what was learnt.  Each call of the cache is one step.                *)
(* Requests, latencies and pointers are kept with their page (the model's).   *)
EXTENDS Integers, Sequences, FiniteSets, SequencesExt

CONSTANTS
  Ip, Page,             \* entries of instructions, and the pages accessed, from 1 on
  BLOCKS,               \* blocks of a page
  ENTRIES,              \* of the table of current pages
  NUM_BERTI,            \* deltas of a page, and of an access
  PREV_ENTRIES, LATENCY_ENTRIES, RECORD_ENTRIES,
  LONG_REUSE_LIMIT, BURST_THROTTLING,
  TIME_OVERFLOW,        \* of the times that are kept
  PQ_SIZE               \* bound: how many prefetches of a call the cache takes

VARIABLES
  tables,               \* all of them: see Init
  now,                  \* current_cycle
  asked                 \* page and offset of the blocks asked for by the last call

vars == <<tables, now, asked>>

Entry == 0..ENTRIES - 1
Null == ENTRIES
Offset == 0..BLOCKS - 1
Abs(n) == IF n < 0 THEN -n ELSE n
First(S) == CHOOSE i \in S : \A j \in S : i <= j

NoRequest == [pointer |-> Null, page |-> -1, offset |-> 0, time |-> 0]
NoLatency == [pointer |-> Null, page |-> -1, offset |-> 0, time_lat |-> 0, completed |-> FALSE]

Init ==
  /\ tables =
      [current |-> [i \in Entry |->
         [page_addr |-> 0, u_vector |-> {}, berti |-> <<>>, current_berti |-> 0, stride |-> 0,
          short_reuse |-> TRUE, continue_burst |-> FALSE, lru |-> i]],
       prev |-> [i \in 0..PREV_ENTRIES - 1 |-> NoRequest], prev_head |-> 0,
       latency |-> [i \in 0..LATENCY_ENTRIES - 1 |-> NoLatency], latency_head |-> 0,
       record |-> [i \in 0..RECORD_ENTRIES - 1 |->
         [page_addr |-> 0, linnea |-> 0, last_offset |-> 0, short_reuse |-> TRUE, lru |-> i]],
       ip |-> [i \in Ip |-> [current |-> FALSE, berti_or_pointer |-> 0, consecutive |-> FALSE,
                             short_reuse |-> TRUE, page |-> -1]]]
  /\ now = 1 /\ asked = {}

-----------------------------------------------------------------------------
(* Both tables of pages: the first with the page, the age of one that is used, *)
(* and the oldest that makes room.                                          *)
WithPage(table, page) == {i \in DOMAIN table : table[i].page_addr = page}
UpdateLru(table, i) ==
  [j \in DOMAIN table |->
     [table[j] EXCEPT !.lru = IF j = i THEN 0 ELSE IF @ < table[i].lru THEN @ + 1 ELSE @]]
Oldest(table) == {i \in DOMAIN table : table[i].lru + 1 = Cardinality(DOMAIN table)}
AgedAll(table) ==
  [j \in DOMAIN table |-> [table[j] EXCEPT !.lru = IF j \in Oldest(table) THEN 0 ELSE @ + 1]]

(* l1d_get_berti_current_pages_table: the last of the greatest score, in which *)
(* a delta counts for its length.                                           *)
Berti(entry) ==
  LET Score(i) == entry.berti[i].score + Abs(entry.berti[i].delta)
      best == {i \in DOMAIN entry.berti : \A j \in DOMAIN entry.berti :
                 Score(j) < Score(i) \/ (Score(j) = Score(i) /\ j <= i)}
  IN IF best = {} THEN 0 ELSE entry.berti[First(best)].delta

(* l1d_add_berti_current_pages_table *)
AddBerti(entry, delta) ==
  LET at == SelectInSeq(entry.berti, LAMBDA b : b.delta = delta)
      score == entry.berti[at].score + 1
  IN IF at = 0
     THEN IF Len(entry.berti) < NUM_BERTI
          THEN [entry EXCEPT !.berti = Append(@, [delta |-> delta, score |-> 1])] ELSE entry
     ELSE [entry EXCEPT !.berti[at].score = score,
                        !.current_berti = IF @ = 0 /\ score > 2 THEN delta ELSE @]
AddBertis(t, i, deltas) ==
  [t EXCEPT !.current = UpdateLru([@ EXCEPT ![i] = FoldLeft(AddBerti, @, deltas)], i)]

-----------------------------------------------------------------------------
(* The rings of requests and latencies *)

Requests(t, pointer, offset) ==
  {i \in DOMAIN t.prev : t.prev[i].pointer = pointer /\ t.prev[i].offset = offset}
AddRequest(t, pointer, offset, cycle) ==
  IF Requests(t, pointer, offset) # {} THEN t
  ELSE [t EXCEPT !.prev[t.prev_head] = [pointer |-> pointer, page |-> t.current[pointer].page_addr,
                                        offset |-> offset, time |-> cycle % TIME_OVERFLOW],
                 !.prev_head = (@ + 1) % PREV_ENTRIES]

Latencies(t, pointer, offset) ==
  {i \in DOMAIN t.latency : t.latency[i].pointer = pointer /\ t.latency[i].offset = offset}
AddLatency(t, pointer, offset, cycle) ==
  IF Latencies(t, pointer, offset) # {} THEN t
  ELSE [t EXCEPT !.latency[t.latency_head] =
                   [pointer |-> pointer, page |-> t.current[pointer].page_addr, offset |-> offset,
                    time_lat |-> cycle % TIME_OVERFLOW, completed |-> FALSE],
                 !.latency_head = (@ + 1) % LATENCY_ENTRIES]
Completed(t, pointer, offset) ==
  {i \in Latencies(t, pointer, offset) : t.latency[i].completed}
LatencyOf(t, pointer, offset) ==
  IF Completed(t, pointer, offset) = {} THEN 0
  ELSE t.latency[First(Completed(t, pointer, offset))].time_lat

(* l1d_get_and_set_latency_latencies_table: time goes round. *)
Timed(t, pointer, offset, cycle) ==
  [t EXCEPT !.latency = [i \in DOMAIN @ |->
     IF i \in Latencies(t, pointer, offset) /\ ~@[i].completed
     THEN [@[i] EXCEPT !.time_lat = (cycle - @) % TIME_OVERFLOW, !.completed = TRUE] ELSE @[i]]]

(* l1d_get_berti_prev_requests_table: from the youngest back, but for the one *)
(* the head is at, the deltas of the requests of the page that were early     *)
(* enough.  The difference of times is one of unsigned numbers.              *)
EarlyEnough(time, req_time, extra_time, latency) ==
  LET last == req_time + extra_time - latency IN last < 0 \/ time <= last
Deltas(t, pointer, offset, latency, start) ==
  LET Back(r, k) ==
        LET e == t.prev[(t.prev_head + PREV_ENTRIES - k) % PREV_ENTRIES]
            extra == IF r.last < e.time THEN TIME_OVERFLOW ELSE r.extra
            next == [r EXCEPT !.last = e.time, !.extra = extra]
        IN IF e.pointer # pointer \/ Len(r.deltas) = NUM_BERTI THEN next
           ELSE IF e.offset = offset THEN [next EXCEPT !.req_time = e.time]
           ELSE IF r.req_time # 0 /\ EarlyEnough(e.time, r.req_time, extra, latency)
           THEN [next EXCEPT !.deltas = Append(@, offset - e.offset)]
           ELSE next
  IN FoldLeft(Back, [last |-> t.prev[(t.prev_head + PREV_ENTRIES - 1) % PREV_ENTRIES].time,
                     extra |-> 0, req_time |-> start, deltas |-> <<>>],
              [k \in 1..PREV_ENTRIES - 1 |-> k]).deltas

-----------------------------------------------------------------------------
(* l1d_evict_lru_current_page_entry and l1d_add_current_pages_table: what      *)
(* points to the oldest page is taken back, the instructions with what was    *)
(* learnt.  It has more than the current page, whose turn it never is.        *)
LearntIps(t, victim) ==
  LET e == t.current[victim]
  IN [i \in Ip |->
        IF t.ip[i].current /\ t.ip[i].berti_or_pointer = victim
        THEN [t.ip[i] EXCEPT !.current = FALSE, !.short_reuse = e.short_reuse, !.page = -1,
                             !.berti_or_pointer = IF e.short_reuse THEN Berti(e) ELSE e.stride]
        ELSE t.ip[i]]
NoneForgotten(latency, victim) == latency                                  \* mutant
Forgotten(latency, victim) ==
  [i \in DOMAIN latency |-> IF latency[i].pointer = victim THEN NoLatency ELSE latency[i]]
WithNewPage(t, page) ==
  LET victim == First(Oldest(t.current))
  IN [t EXCEPT
        !.current = [AgedAll(@) EXCEPT
           ![victim].page_addr = page, ![victim].u_vector = {}, ![victim].berti = <<>>,
           ![victim].continue_burst = FALSE],
        !.ip = IF t.current[victim].u_vector = {} THEN @ ELSE LearntIps(t, victim),
        !.prev = [i \in DOMAIN @ |-> IF @[i].pointer = victim
                                     THEN [NoRequest EXCEPT !.time = t.prev[i].time] ELSE @[i]],
        !.latency = Forgotten(@, victim)]
WithCurrent(t, page) == IF WithPage(t.current, page) # {} THEN t ELSE WithNewPage(t, page)

(* l1d_add_record_pages_table *)
Recorded(t, page, new_page, offset, short_reuse) ==
  LET same == WithPage(t.record, page)
      i == First(IF same # {} THEN same ELSE Oldest(t.record))
  IN [t EXCEPT !.record =
        [(IF same # {} THEN UpdateLru(@, i) ELSE AgedAll(@)) EXCEPT
           ![i].page_addr = page, ![i].linnea = new_page, ![i].last_offset = offset,
           ![i].short_reuse = short_reuse]]

-----------------------------------------------------------------------------
(* prefetcher_cache_operate.  `a` is the access, `m` what the call goes on     *)
(* with: the tables, what the access has brought out, and the room that the   *)
(* cache has left for prefetches.                                           *)

Used(t, i, offset) ==
  [t EXCEPT !.current = UpdateLru([@ EXCEPT ![i].u_vector = @ \cup {offset}], i)]

(* A page that is in use. *)
Again(m, a, i) ==
  LET berti == m.t.current[i].current_berti
      Taught(t, latency) ==
        IF a.hit /\ latency # 0 /\ ~m.recently
        THEN AddBertis(t, i, Deltas(t, i, a.offset, latency, now)) ELSE t
  IN [m EXCEPT !.index = i, !.berti = berti, !.last_berti = berti,
               !.t = Taught(Used(@, i, a.offset), LatencyOf(@, i, a.offset))]

(* l1d_all_last_berti_accessed_bit_vector: the end of the page that the delta  *)
(* leaves by.                                                               *)
FullAccess(u_vector, berti) ==
  \A o \in Offset : (IF berti < 0 THEN o < -berti ELSE o > BLOCKS - 1 - berti) => o \in u_vector

(* What the page that the instruction comes from tells of the next. *)
FromPage(m, a, p, from, berti) ==
  LET short_reuse == Cardinality(from.u_vector) > LONG_REUSE_LIMIT
      consecutive == \/ berti > 0 /\ from.page_addr + 1 = a.page
                     \/ berti < 0 /\ from.page_addr = a.page + 1
      known == {r \in WithPage(m.t.record, from.page_addr) :
                  /\ r = First(WithPage(m.t.record, from.page_addr))
                  /\ ~m.t.record[r].short_reuse /\ m.t.record[r].linnea = a.page}
      next == [m EXCEPT !.last_berti = from.current_berti, !.berti = berti,
                        !.full = FullAccess(from.u_vector, berti), !.short_reuse = short_reuse]
      told == [m.t EXCEPT !.ip[a.ip].consecutive = consecutive]
  IN IF short_reuse
     THEN [next EXCEPT !.t = IF consecutive THEN told
                             ELSE Recorded(told, from.page_addr, a.page, 0, TRUE)]
     ELSE [next EXCEPT !.stride = IF known = {} THEN 0
                                  ELSE a.offset - m.t.record[First(known)].last_offset,
                       !.t = Recorded([@ EXCEPT !.current[p].short_reuse = FALSE],
                                      from.page_addr, a.page, a.offset, FALSE)]

(* The first access of a page; one that was made for a prefetch is there.     *)
Told(m, a, ip) ==
  IF ip.current
  THEN FromPage(m, a, ip.berti_or_pointer, m.t.current[ip.berti_or_pointer],
                Berti(m.t.current[ip.berti_or_pointer]))
  ELSE [m EXCEPT !.berti = ip.berti_or_pointer]
Begin(m, a) ==
  LET there == WithPage(m.t.current, a.page)
      i == First(IF there # {} THEN there ELSE Oldest(m.t.current))
  IN [Told(m, a, m.t.ip[a.ip]) EXCEPT
        !.first = TRUE, !.linnea = (there # {}), !.index = i,
        !.t = Used(WithCurrent(@, a.page), i, a.offset)]

(* What is kept of the access. *)
Pointed(m, a) ==
  IF m.recently THEN m.t
  ELSE [m.t EXCEPT
         !.current[m.index].current_berti = IF m.short_reuse THEN m.berti ELSE @,
         !.current[m.index].stride = IF m.short_reuse THEN @ ELSE m.stride,
         !.current[m.index].short_reuse = m.short_reuse,
         !.ip[a.ip] = [@ EXCEPT !.current = TRUE, !.berti_or_pointer = m.index, !.page = a.page]]
Kept(m, a) ==
  LET Missed(t) == IF m.recently \/ a.hit THEN t ELSE AddLatency(t, m.index, a.offset, now)
  IN [m EXCEPT !.t = Missed(AddRequest(Pointed(m, a), m.index, a.offset, now))]

(* One prefetch; its page is the one at the index. *)
Prefetch(m, index, offset) ==
  IF m.room = 0 THEN m
  ELSE [m EXCEPT !.room = @ - 1, !.t = AddLatency(@, index, offset, now),
                 !.asked = @ \cup {<<m.t.current[index].page_addr, offset>>}]
PrefetchIn(m, page, offset) ==
  LET In(n) == Prefetch(n, First(WithPage(n.t.current, page)), offset)
  IN In([m EXCEPT !.t = WithCurrent(@, page)])

(* A burst: the blocks up to the one of the delta, and when they are too many *)
(* the rest with the next access.                                           *)
BurstOf(m, a) ==
  LET up == m.berti > 0
      Between(init, end) ==
        SelectSeq([k \in 1..Abs(end - init) |-> IF up THEN init + k - 1 ELSE init - k + 1],
                  LAMBDA o : o \in Offset)
      longer == IF up THEN 0 < m.last_berti /\ m.last_berti < m.berti
                ELSE m.berti < m.last_berti /\ m.last_berti < 0
  IN IF ~m.linnea \/ m.t.current[m.index].continue_burst
     THEN Between(IF up THEN a.offset + 1 ELSE a.offset - 1, a.offset + m.berti)
     ELSE IF ~longer THEN <<>>
     ELSE IF up THEN Between(m.last_berti, m.berti)
     ELSE Between(BLOCKS - 1 + m.last_berti, BLOCKS - 1 + m.berti)
Burst(m, a) ==
  LET e == m.t.current[m.index]
      begun == [m EXCEPT !.t.current[m.index].continue_burst = @ /\ ~(~m.linnea \/ e.continue_burst)]
      One(r, o) ==
        IF m.room - r.room < BURST_THROTTLING THEN Prefetch(r, m.index, o)
        ELSE [r EXCEPT !.t.current[m.index].continue_burst = @ \/ ~m.recently]
  IN IF (m.first /\ m.full) \/ e.continue_burst THEN FoldLeft(One, begun, BurstOf(m, a)) ELSE m

(* The block of the delta, or of the page it leads to: the next when pages     *)
(* follow each other, or the one that came after this one before.            *)
Delta(m, a) ==
  LET offset == a.offset + m.berti
      linnea == WithPage(m.t.record, a.page)
  IN IF offset \in Offset THEN Prefetch(m, m.index, offset)
     ELSE IF m.t.ip[a.ip].consecutive
     THEN PrefetchIn(m, IF m.berti < 0 THEN a.page - 1 ELSE a.page + 1, offset % BLOCKS)
     ELSE IF linnea # {} THEN PrefetchIn(m, m.t.record[First(linnea)].linnea, offset % BLOCKS)
     ELSE m

(* PREFETCH_FOR_LONG_REUSE *)
LongReuse(m, a) ==
  LET linnea == WithPage(m.t.record, a.page)
      r == m.t.record[First(linnea)]
      e == m.t.current[m.index]
      offset == r.last_offset + (IF e.short_reuse THEN m.t.ip[a.ip].berti_or_pointer ELSE e.stride)
  IN IF m.short_reuse \/ linnea = {} THEN m
     ELSE IF offset \in Offset THEN PrefetchIn(m, r.linnea, offset)
     ELSE [m EXCEPT !.t = WithCurrent(@, r.linnea)]

Operated(ip, page, offset, hit, room) ==
  LET a == [ip |-> ip, page |-> page, offset |-> offset, hit |-> hit]
      at == WithPage(tables.current, page)
      used == at # {} /\ tables.current[First(at)].u_vector # {}
      start == [t |-> tables, index |-> Null, berti |-> 0, last_berti |-> 0, stride |-> 0,
                first |-> FALSE, full |-> FALSE, linnea |-> FALSE, short_reuse |-> TRUE,
                recently |-> used /\ offset \in tables.current[First(at)].u_vector,
                room |-> room, asked |-> {}]
      Asks(m) == LongReuse(IF m.berti = 0 THEN m ELSE Delta(Burst(m, a), a), a)
  IN Asks(Kept(IF used THEN Again(start, a, First(at)) ELSE Begin(start, a), a))

prefetcher_cache_operate(ip, page, offset, hit, room) ==
  LET Ends(m) == tables' = m.t /\ asked' = m.asked
  IN Ends(Operated(ip, page, offset, hit, room))

(* prefetcher_cache_fill, of a block that has come and the one it replaces.   *)
prefetcher_cache_fill(page, offset, evicted_page, evicted_offset) ==
  LET at == WithPage(tables.current, page)
      gone == WithPage(tables.current, evicted_page)
      Learnt(t, i, latency) ==
        IF latency = 0 THEN t ELSE AddBertis(t, i, Deltas(t, i, offset, latency, 0))
      Filled(t, i) == Learnt(t, i, LatencyOf(t, i, offset))
      Left(t) ==
        [t EXCEPT !.latency = [k \in DOMAIN @ |->
           IF gone # {} /\ k \in Latencies(t, First(gone), evicted_offset) THEN NoLatency ELSE @[k]]]
  IN /\ tables' = Left(IF at = {} THEN tables
                       ELSE Filled(Timed(tables, First(at), offset, now), First(at)))
     /\ asked' = {}

Next ==
  /\ now' \in {now, now + 1}
  /\ \E page \in Page, offset \in Offset :
       \/ \E ip \in Ip, hit \in BOOLEAN, room \in {0, PQ_SIZE} :
            prefetcher_cache_operate(ip, page, offset, hit, room)
       \/ \E evicted_page \in Page, evicted_offset \in Offset :
            prefetcher_cache_fill(page, offset, evicted_page, evicted_offset)

Spec == Init /\ [][Next]_vars

-----------------------------------------------------------------------------
(* Wherever pages are made and evicted in a call, what points to an entry of   *)
(* the pages in use is of the page that is there: requests of its blocks that *)
(* were accessed, latencies, and the instructions that came last to it.      *)
PointersKept ==
  /\ \A i \in DOMAIN tables.prev :
       LET e == tables.prev[i]
       IN e.pointer # Null => /\ tables.current[e.pointer].page_addr = e.page
                              /\ e.offset \in tables.current[e.pointer].u_vector
                              /\ Requests(tables, e.pointer, e.offset) = {i}
  /\ \A i \in DOMAIN tables.latency :
       LET e == tables.latency[i]
       IN e.pointer # Null => /\ tables.current[e.pointer].page_addr = e.page
                              /\ Latencies(tables, e.pointer, e.offset) = {i}
  /\ \A i \in Ip : tables.ip[i].current =>
       tables.current[tables.ip[i].berti_or_pointer].page_addr = tables.ip[i].page

(* The ages of both tables of pages are 0 to their size less one, so that      *)
(* there is always a page to evict, and no page is in a table twice.          *)
AgesOrdered ==
  \A table \in {tables.current, tables.record} :
    /\ {table[i].lru : i \in DOMAIN table} = DOMAIN table
    /\ \A i \in DOMAIN table : table[i].page_addr # 0 => WithPage(table, table[i].page_addr) = {i}

BertiKeeps == PointersKept /\ AgesOrdered
=============================================================================
