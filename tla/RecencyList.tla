----------------------------- MODULE RecencyList -----------------------------
(***************************************************************************)
(* What a table with replacement of the least recently used promises: each *)
(* set is a list of entries with different tags, the latest used first,    *)
(* and only the last of a full list is ever lost.                          *)
(*                                                                         *)
(* The operators on lists are what the modules that use such a table are    *)
(* built from; Spec is a table called in any order.                        *)
(***************************************************************************)
EXTENDS Naturals, Sequences, SequencesExt

CONSTANTS
  Set,       \* the sets of the table
  Elem,      \* elements: records with a tag and whatever else
  SetOf,     \* tag -> set
  WAYS,
  Nothing    \* the answer when there is no such element

VARIABLES
  list,      \* set -> its elements, the latest used first
  answer     \* what the last call has returned

vars == <<list, answer>>

Holds(l, tag) == \E i \in DOMAIN l : l[i].tag = tag
Place(l, tag) == CHOOSE i \in DOMAIN l : l[i].tag = tag
Found(l, tag) == IF Holds(l, tag) THEN l[Place(l, tag)] ELSE Nothing
Without(l, tag) == IF Holds(l, tag) THEN RemoveAt(l, Place(l, tag)) ELSE l

Refreshed(l, tag) == IF Holds(l, tag) THEN <<Found(l, tag)>> \o Without(l, tag) ELSE l
Filled(l, e) == SubSeq(<<e>> \o Without(l, e.tag), 1, IF Len(l) < WAYS \/ Holds(l, e.tag)
                                                       THEN Len(Without(l, e.tag)) + 1 ELSE WAYS)

Init == list = [s \in Set |-> <<>>] /\ answer = Nothing

check_hit(e) ==
  LET s == SetOf[e.tag]
  IN  /\ answer' = Found(list[s], e.tag)
      /\ list' = [list EXCEPT ![s] = Refreshed(@, e.tag)]

fill(e) ==
  /\ list' = [list EXCEPT ![SetOf[e.tag]] = Filled(@, e)]
  /\ answer' = Nothing

invalidate(e) ==
  LET s == SetOf[e.tag]
  IN  /\ answer' = Found(list[s], e.tag)
      /\ list' = [list EXCEPT ![s] = Without(@, e.tag)]

Next == \E e \in Elem : check_hit(e) \/ fill(e) \/ invalidate(e)

Spec == Init /\ [][Next]_vars
=============================================================================
