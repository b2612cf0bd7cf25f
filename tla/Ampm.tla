--------------------------------- MODULE Ampm ---------------------------------
(* Access map pattern matching (prefetcher/va_ampm_lite): each page that is    *)
(* tracked has a map of the blocks accessed and one of the blocks asked for; a *)
(* block is asked for when the two that mirror it about the access were       *)
(* accessed.  The pages are an lru_table of one set: looking at a map         *)
(* refreshes the page.                                                       *)
EXTENDS Integers, Sequences, SequencesExt

CONSTANTS
  Block,                \* the blocks that are accessed
  PAGE,                 \* blocks of a page
  REGION_WAYS, MAX_DISTANCE, PREFETCH_DEGREE

VARIABLES
  regions,              \* page, accesses and prefetches, the last used first
  prefetched            \* the blocks asked for by the last call

vars == <<regions, prefetched>>

PageOf(b) == b \div PAGE
NewRegion(page) == [tag |-> page, access_map |-> {}, prefetch_map |-> {}]

List == INSTANCE RecencyList WITH
  Set <- {0}, Elem <- {NewRegion(PageOf(b)) : b \in Block}, SetOf <- [b \in Block |-> 0],
  WAYS <- REGION_WAYS, Nothing <- NewRegion(-1), list <- [s \in {0} |-> regions],
  answer <- NewRegion(-1)

Init == regions = <<>> /\ prefetched = {}

-----------------------------------------------------------------------------
(* check_cl_access and check_cl_prefetch, one after the other until one is not *)
(* as it should be; `s` is the pages, and whether all were so far.            *)
Accessed(list, b) == b \in List!Found(list, PageOf(b)).access_map
Prefetched(list, b) == b \in List!Found(list, PageOf(b)).prefetch_map
Look(s, b, is) ==
  IF s.so THEN [list |-> List!Refreshed(s.list, PageOf(b)), so |-> is] ELSE s

LookedAccesses(list, b, step) ==                                           \* mutant
  LET s1 == Look([list |-> list, so |-> TRUE], b - step, Accessed(list, b - step))
      s2 == Look(s1, b - 2 * step, Accessed(s1.list, b - 2 * step))
  IN Look(s2, b + step, ~Accessed(s2.list, b + step))

Looked(list, b, step) ==
  LET s1 == Look([list |-> list, so |-> TRUE], b - step, Accessed(list, b - step))
      s2 == Look(s1, b - 2 * step, Accessed(s1.list, b - 2 * step))
      s3 == Look(s2, b + step, ~Accessed(s2.list, b + step))
  IN Look(s3, b + step, ~Prefetched(s3.list, b + step))

(* One block asked for is marked in its page, which is tracked from now on.    *)
Marked(list, b) ==
  LET region == List!Found(list, PageOf(b))
      of == IF List!Holds(list, PageOf(b)) THEN region ELSE NewRegion(PageOf(b))
  IN List!Filled(List!Refreshed(list, PageOf(b)),
                 [of EXCEPT !.prefetch_map = @ \cup {b}])

(* One distance in one direction; the cache takes `room` more blocks.          *)
Distance(m, b, step) ==
  LET looked == Looked(m.list, b, step)
  IN IF m.issued = PREFETCH_DEGREE THEN m
     ELSE IF looked.so /\ m.room > 0
     THEN [list |-> Marked(looked.list, b + step), issued |-> m.issued + 1,
           room |-> m.room - 1, blocks |-> m.blocks \cup {b + step}]
     ELSE [m EXCEPT !.list = looked.list]

Direction(m, b, direction) ==
  FoldLeft(LAMBDA r, i : Distance(r, b, direction * i), [m EXCEPT !.issued = 0],
           [i \in 1..MAX_DISTANCE |-> i])

(* prefetcher_cache_operate: the access that a page begins to be tracked with  *)
(* is not marked.                                                           *)
prefetcher_cache_operate(b, room) ==
  LET refreshed == List!Refreshed(regions, PageOf(b))
      accessed == List!Filled(refreshed, [List!Found(regions, PageOf(b)) EXCEPT !.access_map = @ \cup {b}])
      start == [list |-> accessed, issued |-> 0, room |-> room,
                blocks |-> {}]
      end == Direction(Direction(start, b, 1), b, -1)
  IN IF List!Holds(regions, PageOf(b))
     THEN regions' = end.list /\ prefetched' = end.blocks
     ELSE regions' = List!Filled(regions, NewRegion(PageOf(b))) /\ prefetched' = {}

(* The prefetch queue of the cache has room for some of what is asked for. *)
Next == \E b \in Block, room \in 0..(2 * PREFETCH_DEGREE) : prefetcher_cache_operate(b, room)

Spec == Init /\ [][Next]_vars

-----------------------------------------------------------------------------
(* While a page is tracked, no block of it is asked for twice, and none that   *)
(* has been accessed, from whichever page and direction it is reached.        *)
AskedOnce ==
  [][\A b \in prefetched' : ~Accessed(regions, b) /\ ~Prefetched(regions, b)]_vars

(* What is kept of a page is of the page, which is tracked once. *)
MapsOfPages ==
  \A i, j \in DOMAIN regions :
    /\ regions[i].tag = regions[j].tag => i = j
    /\ \A b \in regions[i].access_map \cup regions[i].prefetch_map : PageOf(b) = regions[i].tag
=============================================================================
