------------------------------- MODULE MCWalker -------------------------------
(* Constants for model checking Walker: a page table of three levels, and   *)
(* two pages that differ in the lowest table's page only.                   *)
EXTENDS Walker, TLC

VP(high, middle, low) == (1 :> low) @@ (2 :> middle) @@ (3 :> high)
MCVPage == {VP(0, 0, 0), VP(0, 1, 0)}
MCUpper == <<"STLB">>
=============================================================================
