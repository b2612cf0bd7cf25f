-------------------------------- MODULE MCDram --------------------------------
(* Constants for model checking Dram: x0 and x1 are rows of bank 0, y0 is a *)
(* row of bank 1; both banks are in one bank group.                        *)
EXTENDS Dram

MCBankOf == [a \in Addr |-> IF a = "y0" THEN 1 ELSE 0]
MCGroupOf == [b \in Bank |-> "g"]
MCRowOf == [a \in Addr |-> IF a = "x1" THEN "r1" ELSE "r0"]
=============================================================================
