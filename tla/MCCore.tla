--------------------------------- MODULE MCCore ---------------------------------
(* The renamer and the channel below the core, each on its own: `part` says  *)
(* which one a behaviour is of, and the variables of the other stay as they  *)
(* are.                                                                    *)
EXTENDS Rename, Channel, TLC

CONSTANTS Part, a0, a1, b0

VARIABLE part

ASSUME OneKindAssumption == OneKind

(* A write, a copy from one register to the other, an instruction without   *)
(* destinations, and two that name a register twice.                       *)
MCInstructions ==
  {[src |-> <<>>, dst |-> <<0>>],
   [src |-> <<0, 0>>, dst |-> <<0>>],
   [src |-> <<0>>, dst |-> <<1>>],
   [src |-> <<1>>, dst |-> <<0, 0>>],
   [src |-> <<0, 1>>, dst |-> <<>>]}

(* The words a0 and a1 of block a and the word b0 of block b. *)
MCBlock == {"a", "b"}
MCBlockOf == [x \in Addr |-> IF x = b0 THEN "b" ELSE "a"]
MCIdSymmetry == Permutations(Ids)

-----------------------------------------------------------------------------
CoreInit == part \in Part /\ Init /\ ChannelInit

CoreNext ==
  /\ UNCHANGED part
  /\ \/ part = "renamer" /\ Next /\ UNCHANGED channelVars
     \/ part = "channel" /\ ChannelNext /\ UNCHANGED vars

CoreSpec == CoreInit /\ [][CoreNext]_<<part, vars, channelVars>>
=============================================================================
