----------------------------- MODULE Replacement -----------------------------
(***************************************************************************)
(* The replacement policies (replacement/lru, srrip, drrip and ship) behind *)
(* the interface that a cache calls (inc/cache.h): find_victim when a set   *)
(* is full, replacement_cache_fill when a block is filled, and              *)
(* update_replacement_state when a tag check is made, whether it hits or    *)
(* not, for a policy that has replacement_cache_fill.  srrip has not.       *)
(*                                                                         *)
(* The cache is what it shows its policy: blocks in the ways of sets,       *)
(* misses on their way, tag checks that may be repeated, and fills that     *)
(* wait, with their victim found, for room in the write queue below.        *)
(***************************************************************************)
EXTENDS Integers, Sequences, FiniteSets

CONSTANTS
  Policy,          \* the policies looked at
  NUM_SET,         \* sets in the cache, a power of two
  SetOf,           \* block -> its set
  IpOf,            \* block -> the instruction that reads it
  WAYS,
  Cpu,
  BRRIP_MAX,
  PSEL_MAX,        \* maximum of the counter of PSEL_WIDTH bits
  SHCT_MAX,
  MAX_ACCESS       \* bound: tag checks and fills

Block == DOMAIN SetOf
Set == {SetOf[b] : b \in Block}
NoBlock == "none"
Way == 1..WAYS
maxRRPV == 3
Clamped(n, max) == IF n < 0 THEN 0 ELSE IF n > max THEN max ELSE n       \* fwcounter

VARIABLES
  policy,
  block,       \* set -> way -> block
  dirty,       \* the blocks that were written
  missing,     \* misses on their way
  table,       \* what the policy keeps
  accesses,
  since,       \* block -> those of its set filled or read after it was (the model's)
  waiting      \* the set and the victim of the fill that has just been refused (the model's)

vars == <<policy, block, dirty, missing, table, accesses, since, waiting>>

First(ways) == CHOOSE w \in ways : \A x \in ways : w <= x
Smallest(row) == First({w \in Way : \A x \in Way : row[w] <= row[x]})    \* std::min_element
Largest(row) == First({w \in Way : \A x \in Way : row[x] <= row[w]})     \* std::max_element

-----------------------------------------------------------------------------
(* get_set_sample_rate, get_set_sample_category, get_num_sampled_sets       *)
SampleRate(sets) == IF sets < 1024 /\ sets >= 256 THEN 16 ELSE IF sets >= 64 THEN 8 ELSE 4

Category(set, rate) == (rate + (set % rate) - ((set \div rate) % rate)) % rate
SampledSets(sets) == sets \div SampleRate(sets)
Sampled(sets) == {set \in 0..(sets - 1) : Category(set, SampleRate(sets)) = 0}
SampleOf(set, sets) == set \div SampleRate(sets)

NoSample == [valid |-> FALSE, used |-> FALSE, block |-> NoBlock, ip |-> "zero", last_used |-> 0]
Ip == {IpOf[b] : b \in Block} \cup {"zero"}

Init ==
  /\ policy \in Policy
  /\ block = [s \in Set |-> [w \in Way |-> NoBlock]]
  /\ dirty = {} /\ missing = {} /\ accesses = 0 /\ waiting = <<>>
  /\ since = [b \in Block |-> {}]
  /\ table =
       [last_used_cycles |-> [s \in Set |-> [w \in Way |-> 0]],                        \* lru
        cycle            |-> 0,                                                \* and access_count
        rrpv             |-> [s \in Set |-> [w \in Way |-> IF policy = "drrip" THEN 0 ELSE maxRRPV]],
        PSEL             |-> [c \in Cpu |-> (PSEL_MAX + 1) \div 2],                    \* drrip
        brrip_counter    |-> 0,
        sampler          |-> [c \in Cpu |->                                            \* ship
                                [i \in 0..(SampledSets(NUM_SET) - 1) |-> [w \in Way |-> NoSample]]],
        SHCT             |-> [c \in Cpu |-> [ip \in Ip |-> 0]]]

-----------------------------------------------------------------------------
(* What each policy makes of a table t. *)
Used(t, s, w) == [t EXCEPT !.last_used_cycles[s][w] = t.cycle, !.cycle = @ + 1]
Predicted(t, s, w, value) == [t EXCEPT !.rrpv[s][w] = value]

lru_update(t, s, w, type, hit) == IF hit /\ type # "WRITE" THEN Used(t, s, w) ELSE t

srrip_update(t, s, w, hit) == Predicted(t, s, w, IF hit THEN 0 ELSE maxRRPV - 1)

drrip_update(t, s, w, type, hit) ==
  IF hit THEN Predicted(t, s, w, IF type = "WRITE" THEN maxRRPV - 1 ELSE 0) ELSE t

update_brrip(t, s, w) ==
  [Predicted(t, s, w, IF t.brrip_counter + 1 = BRRIP_MAX THEN maxRRPV - 1 ELSE maxRRPV)
     EXCEPT !.brrip_counter = (@ + 1) % BRRIP_MAX]

update_srrip(t, s, w) == Predicted(t, s, w, maxRRPV - 1)

Voted(t, c, vote) == [t EXCEPT !.PSEL[c] = Clamped(@ + vote, PSEL_MAX)]

drrip_fill(t, c, s, w, type) ==
  LET category == Category(s, SampleRate(NUM_SET))
  IN  CASE type = "WRITE" -> update_srrip(t, s, w)
        [] type # "WRITE" /\ category = 0 -> update_brrip(Voted(t, c, -1), s, w)
        [] type # "WRITE" /\ category = 1 -> update_srrip(Voted(t, c, 1), s, w)
        [] OTHER -> IF t.PSEL[c] > PSEL_MAX \div 2 THEN update_brrip(t, s, w) ELSE update_srrip(t, s, w)

(* ship counts, in its sampled sets, how often an instruction's blocks are  *)
(* not used again.                                                         *)
Entries(row, b) == {w \in Way : row[w].valid /\ row[w].block = b}

Sample(t, c, i, b) ==
  LET row == t.sampler[c][i]
      known == Entries(row, b) # {}
      w == IF known THEN First(Entries(row, b)) ELSE Smallest([x \in Way |-> row[x].last_used])
      vote == IF known THEN -1 ELSE IF row[w].used THEN 0 ELSE 1
  IN  [t EXCEPT !.SHCT[c][row[w].ip] = Clamped(@ + vote, SHCT_MAX),
                !.sampler[c][i][w] = [valid |-> TRUE, used |-> known, block |-> b,
                                      ip |-> IF known THEN @.ip ELSE IpOf[b], last_used |-> t.cycle],
                !.cycle = @ + 1]

ship_update(t, c, s, w, b, hit) ==
  LET sampled == IF s \in Sampled(NUM_SET) THEN Sample(t, c, SampleOf(s, NUM_SET), b) ELSE t
  IN  IF hit THEN Predicted(sampled, s, w, 0) ELSE sampled

ship_fill(t, c, s, w, b, type) ==
  Predicted(t, s, w, IF type # "WRITE" /\ t.SHCT[c][IpOf[b]] = SHCT_MAX THEN maxRRPV ELSE maxRRPV - 1)

(* find_victim: all but lru add to the values of the set what the largest   *)
(* lacks of the maximum.                                                   *)
Victim(t, s) == IF policy = "lru" THEN Smallest(t.last_used_cycles[s]) ELSE Largest(t.rrpv[s])

AgedAnyway(t, s) == [t EXCEPT !.rrpv[s] = [w \in Way |-> @[w] + 1]]      \* mutant
Aged(t, s) ==
  IF policy = "lru" THEN t
  ELSE [t EXCEPT !.rrpv[s] = [w \in Way |-> @[w] + maxRRPV - @[Largest(@)]]]

-----------------------------------------------------------------------------
(* The interface. *)
has_cache_fill == policy # "srrip"

impl_update_replacement_state(t, c, s, w, b, type, hit) ==
  IF hit \/ has_cache_fill
  THEN CASE policy = "lru"   -> lru_update(t, s, w, type, hit)
         [] policy = "srrip" -> srrip_update(t, s, w, hit)
         [] policy = "drrip" -> drrip_update(t, s, w, type, hit)
         [] policy = "ship"  -> ship_update(t, c, s, w, b, hit)
  ELSE t

impl_replacement_cache_fill(t, c, s, w, b, type) ==
  CASE policy = "lru"   -> Used(t, s, w)
    [] policy = "srrip" -> impl_update_replacement_state(t, c, s, w, b, type, FALSE)
    [] policy = "drrip" -> drrip_fill(t, c, s, w, type)
    [] policy = "ship"  -> ship_fill(t, c, s, w, b, type)

-----------------------------------------------------------------------------
(* try_hit: a miss that the cache refuses is tried again, and told again.   *)
Hits(b) == {w \in Way : block[SetOf[b]][w] = b}

(* What since is once b is read or filled, where the block `gone` was.      *)
SinceUse(b, gone) ==
  [x \in Block |-> CASE x \in {b, gone} -> {}
                     [] x \notin {b, gone} /\ \E w \in Way : block[SetOf[b]][w] = x -> (since[x] \ {gone}) \cup {b}
                     [] OTHER -> since[x]]

TagCheck(c, b, type) ==
  LET s == SetOf[b]
      hit == Hits(b) # {}
      w == IF hit THEN First(Hits(b)) ELSE WAYS + 1
  IN  /\ accesses < MAX_ACCESS
      /\ accesses' = accesses + 1
      /\ table' = impl_update_replacement_state(table, c, s, w, b, type, hit)
      /\ missing' = IF hit THEN missing ELSE missing \cup {b}
      /\ dirty' = IF hit /\ type = "WRITE" THEN dirty \cup {b} ELSE dirty
      /\ since' = IF hit /\ type # "WRITE" THEN SinceUse(b, NoBlock) ELSE since
      /\ waiting' = IF hit THEN <<>> ELSE waiting
      /\ UNCHANGED <<policy, block>>

(* handle_fill: an invalid way first, else the victim, whose block leaves   *)
(* only when the level below takes it.                                     *)
Full(s) == NoBlock \notin {block[s][w] : w \in Way}

FillRefused(b) ==
  LET s == SetOf[b]
  IN  /\ b \in missing
      /\ Full(s) /\ block[s][Victim(table, s)] \in dirty
      /\ table' = Aged(table, s)
      /\ waiting' = <<s, Victim(table, s)>>
      /\ UNCHANGED <<policy, block, dirty, missing, accesses, since>>

Fill(c, b, type) ==
  LET s == SetOf[b]
      w == IF Full(s) THEN Victim(table, s) ELSE First({v \in Way : block[s][v] = NoBlock})
      t == IF Full(s) THEN Aged(table, s) ELSE table
  IN  /\ b \in missing
      /\ accesses < MAX_ACCESS
      /\ accesses' = accesses + 1
      /\ missing' = missing \ {b}
      /\ table' = impl_replacement_cache_fill(t, c, s, w, b, type)
      /\ block' = [block EXCEPT ![s][w] = b]
      /\ dirty' = (dirty \ {block[s][w]}) \cup IF type = "WRITE" THEN {b} ELSE {}
      /\ since' = SinceUse(b, block[s][w])
      /\ waiting' = <<>>
      /\ UNCHANGED policy

Next ==
  \E b \in Block :
     \/ FillRefused(b)
     \/ \E c \in Cpu, type \in {"LOAD", "WRITE"} : TagCheck(c, b, type) \/ Fill(c, b, type)

Spec == Init /\ [][Next]_vars

-----------------------------------------------------------------------------
(* lru: the victim of a full set is the block that has been neither filled  *)
(* nor read for longest; writes from above do not count                     *)
(* (lru::update_replacement_state and lru::find_victim).                   *)
VictimUnusedLongest ==
  policy = "lru" => \A s \in Set : Full(s) =>
    \A w \in Way : w # Victim(table, s) => block[s][w] \in since[block[s][Victim(table, s)]]

(* srrip, drrip and ship: no value ever passes the maximum, however often a *)
(* fill searches its victim; and the fill that was refused finds the same   *)
(* victim when it is tried again, with nothing more to add to the values,   *)
(* unless the set was hit in between.                                      *)
RrpvInRange == \A s \in Set : \A w \in Way : table.rrpv[s][w] \in 0..maxRRPV

VictimAwaited ==
  waiting # <<>> => /\ Victim(table, waiting[1]) = waiting[2]
                    /\ Aged(table, waiting[1]) = table

(* drrip and ship, for every size of cache: as many sets are sampled as     *)
(* get_num_sampled_sets says, each with an index of its own in the sampler, *)
(* and the two kinds of leaders are as many (modules.cc, ship.cc:48).       *)
SetsSampledApart ==
  \A sets \in {8, 16, 32, 64, 128, 256, 512} :
     /\ {SampleOf(set, sets) : set \in Sampled(sets)} = 0..(SampledSets(sets) - 1)
     /\ Cardinality(Sampled(sets)) = SampledSets(sets)
     /\ Cardinality({set \in 0..(sets - 1) : Category(set, SampleRate(sets)) = 1}) = SampledSets(sets)

(* ship: a block has one entry in the sampler of a cpu. *)
SampledOnce ==
  \A c \in Cpu : \A i \in DOMAIN table.sampler[c] : \A b \in Block :
     Cardinality({w \in Way : table.sampler[c][i][w].block = b}) <= 1

(* In every order of hits, misses, refused fills and fills, what the        *)
(* policies predict stays in range and is found again, and every sampled    *)
(* set has its own place (which no step changes: once is enough).           *)
PredictionsKept ==
  /\ RrpvInRange /\ VictimAwaited /\ SampledOnce
  /\ accesses = 0 => SetsSampledApart

VictimsRight == VictimUnusedLongest /\ PredictionsKept

(* docs/src/Modules.rst:287 says of update_replacement_state that it "is     *)
(* called on hits and when a miss is filled" where there is no              *)
(* replacement_cache_fill: a block that srrip's cache fills is predicted    *)
(* as update predicts a fill, and so is not the next victim at once.        *)
FillsPredicted ==
  [][\A s \in Set, w \in Way :
       policy = "srrip" /\ block'[s][w] # block[s][w] => table'.rrpv[s][w] = maxRRPV - 1]_vars
=============================================================================
