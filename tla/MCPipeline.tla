------------------------------- MODULE MCPipeline -------------------------------
(* The front end, and the load and store queues, each on its own: `part`     *)
(* says which one a behaviour is of, and the variables of the other stay as *)
(* they are.                                                               *)
EXTENDS FrontEnd, LSQ, TLC

CONSTANTS Part, a0, a1, b0

VARIABLE part

ASSUME QueuesAssumption == LSQAssumption

(* Two instructions in blocks of the L1I and lines of the DIB of their own.   *)
(* No branch, and one branch of each way to be resolved: when it completes   *)
(* (indirect), at either end (conditional), at decode (direct).             *)
MCBlockOf == [x \in Ip |-> IF x = "ip2" THEN "b" ELSE "a"]
MCLineOf == [x \in Ip |-> x]
MCRegisters ==
  {<<{"other"}, {"other"}>>, <<{"other"}, {"IP"}>>, <<{"IP", "FLAGS"}, {"IP"}>>,
   <<{"IP"}, {"IP"}>>}

(* Two words of one block and one of another; a store, a load of the same    *)
(* and of another word of the block, two loads of two blocks, and a load and *)
(* a store of one word.                                                    *)
MCAddr == {a0, a1, b0}
MCDataBlockOf == (a0 :> "a") @@ (a1 :> "a") @@ (b0 :> "b")
MCKinds ==
  {[loads |-> <<>>, stores |-> <<a0>>],
   [loads |-> <<a0>>, stores |-> <<>>],
   [loads |-> <<a1>>, stores |-> <<>>],
   [loads |-> <<b0, a0>>, stores |-> <<>>],
   [loads |-> <<a0>>, stores |-> <<a0>>]}

-----------------------------------------------------------------------------
(* The other part stays in a state in which it has nothing to do, so that no  *)
(* fairness is asked of its actions: the trace is read, and nothing is under *)
(* way.                                                                    *)
FrontEndOff ==
  /\ warmup = FALSE /\ read = TRACE_LENGTH /\ fetch_resume = "now"
  /\ IFETCH_BUFFER = <<>> /\ DIB_HIT_BUFFER = <<>> /\ DECODE_BUFFER = <<>> /\ DISPATCH_BUFFER = <<>>
  /\ ROB = {} /\ DIB = <<>> /\ requests = {} /\ returned = <<>>

QueuesOff ==
  /\ pc = "stages" /\ placed = 0 /\ next_id = LAST_ID + 1
  /\ rob = <<>> /\ LQ = [q \in Slots |-> Empty] /\ SQ = <<>>
  /\ l1d = [reads |-> [b \in DataBlock |-> 0], writes |-> 0, returned |-> <<>>]

PipelineInit ==
  /\ part \in Part
  /\ IF part = "front end" THEN Init /\ QueuesOff ELSE FrontEndOff /\ LSQInit

PipelineNext ==
  /\ UNCHANGED part
  /\ \/ part = "front end" /\ Next /\ UNCHANGED lsqVars
     \/ part = "lsq" /\ LSQNext /\ UNCHANGED vars

PipelineSpec ==
  PipelineInit /\ [][PipelineNext]_<<part, vars, lsqVars>> /\ Fairness /\ LSQFairness

-----------------------------------------------------------------------------
(* The invariants of either part hold as well while it is off, for it then   *)
(* has nothing in its buffers.  What must eventually happen is of one part.  *)

(* LSQ: everything retires and is written (operate_lsq).                    *)
PartDrains == part = "lsq" => Drains

(* FrontEnd: everything is dispatched (dispatch_instruction).               *)
PartDispatched == part = "front end" => AllDispatched
=============================================================================
