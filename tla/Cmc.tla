---------------------------------- MODULE Cmc ----------------------------------
(* Correlated miss streams (prefetcher/cmc): a few accesses are triggers; the  *)
(* misses that come after the first of them are recorded as its stream, and    *)
(* when the trigger is missed again its stream is asked for, but for what the  *)
(* filter has.  Each call of the cache is one step.                           *)
(* An address that is recorded is kept with the time of its miss (the model's).*)
EXTENDS Integers, Sequences, SequencesExt

CONSTANTS
  Pc, Block,
  KeyOf,                \* <<pc, block>> -> the key of its stream, by hash_index
  SetOf,                \* key -> its set; the rest of it is the tag
  STORAGE_WAYS, MAX_DEGREE, STACK_SIZE, FILTER_SIZE

VARIABLES
  storage,              \* set -> way -> entry
  trigger,              \* key and time of the accesses that wait for their stream
  recorder,             \* entries
  filter_lru_list,      \* the last used first; filter_map has the same
  current_tick,
  prefetches            \* of the last call

vars == <<storage, trigger, recorder, filter_lru_list, current_tick, prefetches>>

Way == 1..STORAGE_WAYS
NoEntry == [valid |-> FALSE, key |-> -1, lru_tick |-> 0, addresses |-> <<>>, since |-> 0]

Init ==
  /\ storage = [s \in {SetOf[k] : k \in DOMAIN SetOf} |-> [w \in Way |-> NoEntry]]
  /\ trigger = <<>> /\ recorder = <<>> /\ filter_lru_list = <<>>
  /\ current_tick = 0 /\ prefetches = <<>>

(* filter_check_and_add, address after address of a stream; one that is found *)
(* is refreshed and not asked for.                                          *)
Checked(r, addr) ==
  LET list == r.filter
      at == SelectInSeq(list, LAMBDA x : x = addr)
  IN IF at # 0 THEN [r EXCEPT !.filter = <<addr>> \o RemoveAt(list, at)]
     ELSE [filter |-> <<addr>> \o (IF Len(list) >= FILTER_SIZE THEN Front(list) ELSE list),
           asked |-> Append(r.asked, addr)]
Replayed(addresses) ==
  FoldLeft(LAMBDA r, e : Checked(r, e.block), [filter |-> filter_lru_list, asked |-> <<>>], addresses)

(* find_entry and find_victim. *)
First(S) == CHOOSE w \in S : \A x \in S : w <= x
FindEntry(st, key) == {w \in Way : st[SetOf[key]][w].valid /\ st[SetOf[key]][w].key = key}
FindVictim(set) ==
  LET free == {w \in Way : ~set[w].valid}
  IN IF free # {} THEN First(free)
     ELSE First({w \in Way : \A x \in Way : set[w].lru_tick <= set[x].lru_tick})

(* What becomes of the stream of the access: replayed after a miss, and no    *)
(* longer valid after a hit.                                                *)
Looked(key, hit, now) ==
  [storage EXCEPT ![SetOf[key]] =
     [w \in Way |-> IF w \notin FindEntry(storage, key) THEN @[w]
                    ELSE IF hit THEN [@[w] EXCEPT !.valid = FALSE]
                    ELSE [@[w] EXCEPT !.lru_tick = now]]]

(* The stream that is complete, of the trigger that waits longest. *)
LastTrigger == Last(trigger)                                               \* mutant
HeadTrigger == Head(trigger)
Stored(st, entries, now) ==
  LET key == HeadTrigger.key
      set == st[SetOf[key]]
      old == FindEntry(st, key)
      w == IF old # {} THEN First(old) ELSE FindVictim(set)
  IN [st EXCEPT ![SetOf[key]][w] = [valid |-> TRUE, key |-> key, lru_tick |-> now,
                                    addresses |-> entries, since |-> HeadTrigger.since]]

(* train_entry: a stream is complete with one address more than MAX_DEGREE. *)
Finished(entries) == Len(entries) > MAX_DEGREE

(* calculate_prefetch *)
prefetcher_cache_operate(pc, block, hit) ==
  LET key == KeyOf[<<pc, block>>]
      now == current_tick + 1
      match == FindEntry(storage, key)
      replayed == Replayed(IF match = {} \/ hit THEN <<>>
                           ELSE storage[SetOf[key]][First(match)].addresses)
      looked == Looked(key, hit, now)
      train_trigger == (trigger = <<>> \/ match # {}) /\ Len(trigger) < STACK_SIZE
      do_training == ~train_trigger /\ trigger # <<>> /\ ~hit
      entries == Append(recorder, [block |-> block, tick |-> now])
  IN /\ current_tick' = now
     /\ filter_lru_list' = replayed.filter /\ prefetches' = replayed.asked
     /\ IF do_training /\ Finished(entries)
        THEN /\ storage' = Stored(looked, entries, now)
             /\ trigger' = Tail(trigger) /\ recorder' = <<>>
        ELSE /\ storage' = looked
             /\ trigger' = IF train_trigger THEN Append(trigger, [key |-> key, since |-> now]) ELSE trigger
             /\ recorder' = IF do_training THEN entries ELSE recorder

Next == \E pc \in Pc, block \in Block, hit \in BOOLEAN : prefetcher_cache_operate(pc, block, hit)

Spec == Init /\ [][Next]_vars

-----------------------------------------------------------------------------
(* However triggers come while a stream is recorded, a stream is of misses     *)
(* that came after its trigger, one for each key and of full length; what is  *)
(* being recorded has a trigger to be stored for (trigger.front()).           *)
StreamsFollow ==
  /\ \A s \in DOMAIN storage : \A w, x \in Way :
       LET e == storage[s][w]
       IN e.valid =>
            /\ Len(e.addresses) = MAX_DEGREE + 1
            /\ \A i \in DOMAIN e.addresses :
                 e.addresses[i].tick > (IF i = 1 THEN e.since ELSE e.addresses[i - 1].tick)
            /\ w # x /\ storage[s][x].valid => storage[s][x].key # e.key
  /\ recorder # <<>> => trigger # <<>> /\ recorder[1].tick > Head(trigger).since

(* The filter is one of different addresses, and what is asked for is in it.  *)
FilterKept ==
  /\ Len(filter_lru_list) <= FILTER_SIZE /\ IsInjective(filter_lru_list)
  /\ Len(prefetches) <= FILTER_SIZE => ToSet(prefetches) \subseteq ToSet(filter_lru_list)

CmcKeeps == StreamsFollow /\ FilterKept
=============================================================================
