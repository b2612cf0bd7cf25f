------------------------------- MODULE LruTable -------------------------------
(***************************************************************************)
(* The table behind the walker's PSCLs, the DIB, the BTB and several        *)
(* prefetchers (inc/msl/lru_table.h).  A set is an array of blocks, each    *)
(* with an element and the number of its last use; a block whose number is *)
(* 0 is not valid, though the element in it has a tag like any other.       *)
(***************************************************************************)
EXTENDS Naturals, Sequences, FiniteSets

CONSTANTS
  Set,
  Elem,          \* elements: records with a tag and a value
  SetOf,         \* tag -> set
  WAYS,          \* NUM_WAY
  Default,       \* the element of a block that has not been filled, one of Elem
  Nothing,       \* std::nullopt
  MAX_ACCESS     \* bound: calls that count as a use

VARIABLES
  block,         \* set -> way -> last_used and data
  access_count,
  returned       \* what the last call has returned

vars == <<block, access_count, returned>>

Way == 1..WAYS
Empty == [last_used |-> 0, data |-> Default]

Init ==
  /\ block = [s \in Set |-> [w \in Way |-> Empty]]
  /\ access_count = 0
  /\ returned = Nothing

(* match_func: find_if takes the first of these. *)
MatchesStale(s, tag) == {w \in Way : block[s][w].data.tag = tag}        \* mutant
Matches(s, tag) == {w \in Way : block[s][w].last_used > 0 /\ block[s][w].data.tag = tag}
First(ways) == CHOOSE w \in ways : \A x \in ways : w <= x
Used(b) == [b EXCEPT !.last_used = access_count + 1]

check_hit(e) ==
  LET s == SetOf[e.tag]
  IN  IF Matches(s, e.tag) = {}
      THEN returned' = Nothing /\ UNCHANGED <<block, access_count>>
      ELSE LET hit == First(Matches(s, e.tag))
           IN  /\ access_count < MAX_ACCESS
               /\ access_count' = access_count + 1
               /\ block' = [block EXCEPT ![s][hit] = Used(@)]
               /\ returned' = block[s][hit].data

(* match_and_check: the order that minmax_element looks for the ends of.    *)
(* Two blocks that are not valid come each before the other, so that either *)
(* may be found first.                                                     *)
Before(tag, x, y) ==
  \/ x.last_used = 0
  \/ /\ y.last_used > 0
     /\ \/ x.data.tag # tag /\ y.data.tag = tag
        \/ (x.data.tag = tag) = (y.data.tag = tag) /\ x.last_used < y.last_used

Ends(s, tag) ==
  [miss : {w \in Way : \A v \in Way \ {w} : Before(tag, block[s][w], block[s][v])},
   hit : {w \in Way : \A v \in Way \ {w} : Before(tag, block[s][v], block[s][w])}]

fill(e) ==
  LET s == SetOf[e.tag]
  IN  \E end \in Ends(s, e.tag) :
         LET way == IF block[s][end.hit].data.tag = e.tag THEN end.hit ELSE end.miss
         IN  /\ access_count < MAX_ACCESS
             /\ access_count' = access_count + 1
             /\ block' = [block EXCEPT ![s][way] = [last_used |-> access_count + 1, data |-> e]]
             /\ returned' = Nothing

invalidate(e) ==
  LET s == SetOf[e.tag]
  IN  IF Matches(s, e.tag) = {}
      THEN returned' = Nothing /\ UNCHANGED <<block, access_count>>
      ELSE LET hit == First(Matches(s, e.tag))
           IN  /\ returned' = block[s][hit].data
               /\ block' = [block EXCEPT ![s][hit] = Empty]
               /\ UNCHANGED access_count

Next == \E e \in Elem : check_hit(e) \/ fill(e) \/ invalidate(e)

Spec == Init /\ [][Next]_vars

-----------------------------------------------------------------------------
(* The valid blocks of a set, the latest used first: Rank is the place of one. *)
Valid(s) == {w \in Way : block[s][w].last_used > 0}
Rank(s, w) == Cardinality({v \in Valid(s) : block[s][v].last_used >= block[s][w].last_used})
WayAt(s, i) == CHOOSE w \in Valid(s) : Rank(s, w) = i
Listed(s) == [i \in 1..Cardinality(Valid(s)) |-> block[s][WayAt(s, i)].data]

Table == INSTANCE RecencyList WITH list <- [s \in Set |-> Listed(s)], answer <- returned

(* However hits, fills and invalidations follow one another, the table is a *)
(* list by recency: no tag is held twice, a block that is not valid is      *)
(* taken before one that is, whatever is left in it, and otherwise the one  *)
(* that has not been used for longest (minmax_element with match_and_check, *)
(* whose end is compared by its tag only, inc/msl/lru_table.h:134-139).     *)
ListSpec == Table!Spec
=============================================================================
