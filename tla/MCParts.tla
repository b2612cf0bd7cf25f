-------------------------------- MODULE MCParts --------------------------------
(* The constants of the parts of Parts.                                     *)
EXTENDS Parts, TLC

(* Three phases' worth of clocks: two cores and a memory controller that is *)
(* slower than they are; a phase of warmup and a longer one.               *)
MCPeriod == [op \in {"c0", "c1", "dram"} |-> IF op = "dram" THEN 3 ELSE 2]
MCPhases == <<[warmup |-> TRUE, length |-> 1], [warmup |-> FALSE, length |-> 2]>>

(* A set of two ways for three tags; a block that is not valid has a tag    *)
(* that is looked for, too.                                                *)
MCElem == [tag : {"t0", "t1", "t2"}, value : {"x", "y"}]
MCTableSetOf == [t \in {"t0", "t1", "t2"} |-> "s0"]
MCDefault == [tag |-> "t0", value |-> "x"]
MCNoElem == [tag |-> "none", value |-> "none"]

(* Addresses of six bits: a field of every kind, but for one column and one  *)
(* rank; slices that overlap the others, lie apart from them, or are empty. *)
MCOther ==
  {[extent |-> [upper |-> u, lower |-> l], value |-> v \cap 0..u - l - 1] :
     u \in {3, 5}, l \in {1, 3}, v \in {{}, {0}, {0, 1, 2}}}
    \cup {[extent |-> [upper |-> 2, lower |-> 2], value |-> {}]}

(* Three blocks of a set of two ways, and one of each of two other sets: of *)
(* eight sets 0 leads one way and 1 the other; 0 is sampled.               *)
MCSetOf == ("a" :> 0) @@ ("b" :> 0) @@ ("c" :> 0) @@ ("d" :> 1) @@ ("e" :> 2)
MCIpOf == ("a" :> "p") @@ ("b" :> "q") @@ ("c" :> "p") @@ ("d" :> "q") @@ ("e" :> "p")

(* Two calls, one indirect, a return, a conditional branch at the tag of     *)
(* the first call, and an indirect jump; one set of two ways, and a stack of *)
(* two for three calls.                                                    *)
MCBranch ==
  {[ip |-> 20, type |-> "direct call"], [ip |-> 40, type |-> "indirect call"],
   [ip |-> 60, type |-> "return"], [ip |-> 21, type |-> "conditional"],
   [ip |-> 80, type |-> "indirect"]}
MCSize == (20 :> 2) @@ (40 :> 5)
MCTag == {"t5", "t10", "t15", "t20"}
MCTagOf == (20 :> "t5") @@ (21 :> "t5") @@ (40 :> "t10") @@ (60 :> "t15") @@ (80 :> "t20")
MCSetOfTag == [t \in MCTag |-> "s0"]
MCSlotOf == [ip \in {20, 40} |-> ip % 2]
MCHashOf == [x \in {40, 80} \X [1..1 -> BOOLEAN] |-> IF x[2][1] THEN 1 ELSE 0]

(* Two registers and one destination at most, with a name for each register *)
(* and one more.                                                           *)
MCInstructions ==
  {[src |-> <<>>, dst |-> <<0>>], [src |-> <<0>>, dst |-> <<0>>],
   [src |-> <<0>>, dst |-> <<1>>], [src |-> <<1>>, dst |-> <<0>>],
   [src |-> <<0, 1>>, dst |-> <<>>]}
=============================================================================
