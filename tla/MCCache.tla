------------------------------- MODULE MCCache --------------------------------
(* Constants for model checking Cache. *)
EXTENDS Cache

Read(u, q, a, t) == [from |-> u, queue |-> q, addr |-> a, tr |-> t,
                     type |-> IF q = "PQ" THEN "PREFETCH" ELSE "LOAD"]
Write(u, a, t) == [from |-> u, addr |-> a, tr |-> t, type |-> "WRITE"]

(* A physical cache below two caches: blocks x and y share its one set. *)
L2Addr == {"x", "y"}
L2BlockOf == [a \in L2Addr |-> a]
L2SetOf == [b \in L2Addr |-> "s"]
L2Same == [a \in L2Addr |-> a]
L2Req == [i1 |-> Read("L1I", "RQ", "x", TRUE),
          i2 |-> Read("L1D", "RQ", "x", TRUE),
          i3 |-> Read("L1D", "PQ", "y", TRUE)]
L2Ids == DOMAIN L2Req
L2Demands == [i1 |-> Read("L1I", "RQ", "x", TRUE),
              i2 |-> Read("L1D", "RQ", "y", TRUE),
              i3 |-> Read("L1D", "RQ", "x", TRUE)]
L2DemandIds == DOMAIN L2Demands
L2Writes == {Write("L1D", "x", TRUE)}

(* A virtually addressed cache below a core and a page table walker: the    *)
(* virtual words v0 and v1 of one block and w0 of another page have the     *)
(* physical addresses p0, p1 and q0, and r0 is in a page table; all         *)
(* physical blocks share one set.  Prefetches are for physical addresses.   *)
L1Addr == {"v0", "v1", "w0", "p0", "p1", "q0", "r0", "zero"}
L1BlockOf == [a \in L1Addr |-> CASE a \in {"v0", "v1"} -> "V" [] a = "w0" -> "W"
                                [] a \in {"p0", "p1"} -> "P" [] a = "q0" -> "Q" [] a = "r0" -> "R"
                                [] a = "zero" -> "Z"]
L1Block == {"V", "W", "P", "Q", "R", "Z"}
L1SetOf == [b \in L1Block |-> "s"]
L1Physical == [a \in L1Addr |-> CASE a = "v0" -> "p0" [] a = "v1" -> "p1" [] a = "w0" -> "q0"
                                 [] OTHER -> a]
L1Req == [i1 |-> Read("core", "RQ", "v0", FALSE),
          i2 |-> Read("core", "RQ", "w0", FALSE),
          i3 |-> Read("ptw", "RQ", "r0", TRUE)]
L1Ids == DOMAIN L1Req
L1Req2 == [i1 |-> Read("core", "RQ", "v0", FALSE),
           i2 |-> Read("core", "RQ", "v1", FALSE),
           i3 |-> Read("core", "RQ", "w0", FALSE)]
L1Writes == {Write("core", "v0", FALSE)}
L1Prefetches == {[addr |-> "p1", fill |-> TRUE], [addr |-> "p1", fill |-> FALSE]}
=============================================================================
