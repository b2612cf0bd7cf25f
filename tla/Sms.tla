---------------------------------- MODULE Sms ----------------------------------
(* Spatial memory streaming (prefetcher/sms): a region that is accessed goes   *)
(* into the filter table, with its second access into the accumulation table, *)
(* which gathers its blocks, and when it is evicted from there its pattern    *)
(* goes into the pattern history table, by the instruction and the offset     *)
(* that came first.  Each call of the cache is one step.                      *)
EXTENDS Integers, Sequences, FiniteSets, SequencesExt

CONSTANTS
  Ip, Page, REGION,     \* instructions, regions, and the blocks of a region
  FT_SIZE, AT_SIZE, PHT_ASSOC, PREF_BUFFER_SIZE, PREF_DEGREE,
  SetOf                 \* signature -> its set, signature % PHT_SETS

VARIABLES
  filter_table, acc_table,
  pht,                  \* set -> its entries
  pref_buffer           \* the blocks that are still to be asked for

vars == <<filter_table, acc_table, pht, pref_buffer>>

Offset == 0..REGION - 1
create_signature(pc, offset) == <<pc, offset>>

Init ==
  /\ filter_table = <<>> /\ acc_table = <<>> /\ pref_buffer = <<>>
  /\ pht = [s \in {SetOf[x] : x \in DOMAIN SetOf} |-> <<>>]

(* search_filter_table, search_acc_table and search_pht: 0 is the end. *)
WithPage(table, page) == SelectInSeq(table, LAMBDA e : e.page = page)
WithSignature(table, signature) == SelectInSeq(table, LAMBDA e : e.signature = signature)

(* search_victim_acc_table, search_victim_pht: the last of the oldest. *)
Oldest(table) ==
  SelectLastInSeq(table, LAMBDA e : \A i \in DOMAIN table : table[i].age <= e.age)
WithoutOldest(table, size) ==
  IF Len(table) >= size THEN RemoveAt(table, Oldest(table)) ELSE table

(* update_age_acc_table, update_age_pht. *)
OnlyRenewed(table, i) == [table EXCEPT ![i].age = 0]                        \* mutant
Renewed(table, i) ==
  [j \in DOMAIN table |-> [table[j] EXCEPT !.age = IF j = i THEN 0 ELSE @ + 1]]

(* insert_pht_table: an entry that is new makes the ages of its set 0. *)
Remembered(entry) ==
  LET signature == create_signature(entry.pc, entry.trigger_offset)
      set == pht[SetOf[signature]]
      at == WithSignature(set, signature)
      kept == WithoutOldest(set, PHT_ASSOC)
  IN [pht EXCEPT ![SetOf[signature]] =
        IF at # 0 THEN Renewed([set EXCEPT ![at].pattern = entry.pattern], at)
        ELSE Append([i \in DOMAIN kept |-> [kept[i] EXCEPT !.age = 0]],
                    [signature |-> signature, pattern |-> entry.pattern, age |-> 0])]

-----------------------------------------------------------------------------
(* prefetcher_cache_operate, of a region that the accumulation table has, *)
Accumulate(page, offset) ==
  LET at == WithPage(acc_table, page)
  IN /\ at # 0
     /\ acc_table' = Renewed([acc_table EXCEPT ![at].pattern = @ \cup {offset}], at)
     /\ UNCHANGED <<filter_table, pht, pref_buffer>>

(* of one that the filter table has (insert_acc_table, evict_acc_table), *)
Promoted(entry, offset) ==
  LET kept == WithoutOldest(acc_table, AT_SIZE)
  IN Append([i \in DOMAIN kept |-> [kept[i] EXCEPT !.age = @ + 1]],
            [page |-> entry.page, pc |-> entry.pc, trigger_offset |-> entry.trigger_offset,
             pattern |-> {entry.trigger_offset, offset}, age |-> 0])
Promote(page, offset) ==
  LET at == WithPage(filter_table, page)
  IN /\ WithPage(acc_table, page) = 0 /\ at # 0
     /\ acc_table' = Promoted(filter_table[at], offset)
     /\ pht' = IF Len(acc_table) >= AT_SIZE THEN Remembered(acc_table[Oldest(acc_table)]) ELSE pht
     /\ filter_table' = RemoveAt(filter_table, at)
     /\ UNCHANGED pref_buffer

(* and of a new one (insert_filter_table, generate_prefetch, buffer_prefetch). *)
Begin(pc, page, offset) ==
  LET signature == create_signature(pc, offset)
      set == SetOf[signature]
      at == WithSignature(pht[set], signature)
      found == SetToSortSeq({<<page, o>> : o \in pht[set][at].pattern \ {offset}}, LAMBDA a, b : a[2] < b[2])
      room == PREF_BUFFER_SIZE - Len(pref_buffer)
  IN /\ WithPage(acc_table, page) = 0 /\ WithPage(filter_table, page) = 0
     /\ filter_table' = Append(IF Len(filter_table) >= FT_SIZE THEN Tail(filter_table) ELSE filter_table,
                               [page |-> page, pc |-> pc, trigger_offset |-> offset])
     /\ IF at = 0 THEN UNCHANGED <<pht, pref_buffer>>
        ELSE /\ pht' = [pht EXCEPT ![set] = Renewed(@, at)]
             /\ pref_buffer' = pref_buffer \o
                  SubSeq(found, 1, IF Len(found) < room THEN Len(found) ELSE room)
     /\ UNCHANGED acc_table

(* prefetcher_cycle_operate: the cache takes some of them, and no more than   *)
(* PREF_DEGREE.                                                             *)
issue_prefetch ==
  \E taken \in 1..PREF_DEGREE :
    /\ taken <= Len(pref_buffer)
    /\ pref_buffer' = SubSeq(pref_buffer, taken + 1, Len(pref_buffer))
    /\ UNCHANGED <<filter_table, acc_table, pht>>

Next ==
  \/ \E page \in Page, offset \in Offset :
       \/ Accumulate(page, offset)
       \/ Promote(page, offset)
       \/ \E pc \in Ip : Begin(pc, page, offset)
  \/ issue_prefetch

Spec == Init /\ [][Next]_vars

-----------------------------------------------------------------------------
(* A region is in one table and once, so that its blocks are gathered in one   *)
(* place; the ages of the accumulation table are those of different accesses, *)
(* so that there is one region that was left longest ago to be evicted.      *)
RegionsOnce ==
  /\ \A i, j \in DOMAIN filter_table : filter_table[i].page = filter_table[j].page => i = j
  /\ \A i, j \in DOMAIN acc_table :
       acc_table[i].page = acc_table[j].page \/ acc_table[i].age = acc_table[j].age => i = j
  /\ \A i \in DOMAIN acc_table : WithPage(filter_table, acc_table[i].page) = 0

(* A pattern is kept once, in its set, and has the block it begins with: what *)
(* is prefetched is never what was asked for.                              *)
PatternsBegin ==
  \A s \in DOMAIN pht : \A i, j \in DOMAIN pht[s] :
    /\ pht[s][i].signature = pht[s][j].signature => i = j
    /\ SetOf[pht[s][i].signature] = s /\ pht[s][i].signature[2] \in pht[s][i].pattern

SmsKeeps ==
  /\ RegionsOnce /\ PatternsBegin
  /\ Len(filter_table) <= FT_SIZE /\ Len(acc_table) <= AT_SIZE
  /\ Len(pref_buffer) <= PREF_BUFFER_SIZE
=============================================================================
