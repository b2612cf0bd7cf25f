------------------------------ MODULE ChannelOps ------------------------------
(***************************************************************************)
(* The operators of champsim::channel (src/src/channel.cc): a channel is   *)
(* the record of its three request queues and of the queue of responses to *)
(* the level above.                                                        *)
(*                                                                         *)
(* A request keeps what collisions look at: its address, whether that      *)
(* address is already a physical one, whether a response is wanted, the    *)
(* instructions that depend on it and the forward_checked mark.  The rest  *)
(* (data, instruction pointer, prefetch metadata) only travels along.      *)
(***************************************************************************)
EXTENDS Naturals, SequencesExt

CONSTANTS
  Addr,               \* byte addresses, virtual and physical
  Block,              \* cache blocks
  BlockOf,            \* [Addr -> Block]: the address without its offset bits
  MATCH_OFFSET_BITS,  \* match_offset_bits: writes collide on the whole address
  RQ_SIZE, WQ_SIZE, PQ_SIZE

ASSUME BlockOfAssumption == BlockOf \in [Addr -> Block]
ASSUME MatchAssumption == MATCH_OFFSET_BITS \in BOOLEAN
ASSUME QueueSizeAssumption == {RQ_SIZE, WQ_SIZE, PQ_SIZE} \subseteq Nat

EmptyChannel == [WQ |-> <<>>, RQ |-> <<>>, PQ |-> <<>>, returned |-> <<>>]

QueueNames == {"WQ", "RQ", "PQ"}

QueueSize(q) ==
  CASE q = "WQ" -> WQ_SIZE [] q = "RQ" -> RQ_SIZE [] q = "PQ" -> PQ_SIZE

-----------------------------------------------------------------------------
(* write_shamt and read_shamt of check_collision. *)
SameWriteByBlock(x, y) == BlockOf[x.addr] = BlockOf[y.addr]    \* mutant
SameWrite(x, y) ==
  IF MATCH_OFFSET_BITS THEN x.addr = y.addr ELSE BlockOf[x.addr] = BlockOf[y.addr]
SameRead(x, y) == BlockOf[x.addr] = BlockOf[y.addr]
Same(shamt, x, y) == IF shamt = "write" THEN SameWrite(x, y) ELSE SameRead(x, y)

(* do_collision_for: only the first request that matches is looked at; when *)
(* it is translated and the packet is not, or the reverse, nothing collides. *)
CollidesSameResponse(queue, packet, shamt) ==             \* mutant
  LET found == SelectInSeq(queue, LAMBDA x : Same(shamt, x, packet))
  IN  IF found # 0 /\ queue[found].resp = packet.resp THEN found ELSE 0
Collides(queue, packet, shamt) ==
  LET found == SelectInSeq(queue, LAMBDA x : Same(shamt, x, packet))
  IN  IF found # 0 /\ queue[found].tr = packet.tr THEN found ELSE 0

(* What a request is after another was merged into it. *)
MergedResponseOnly(dest, packet) == [dest EXCEPT !.resp = @ \/ packet.resp]    \* mutant
Merged(dest, packet) ==
  [dest EXCEPT !.resp = @ \/ packet.resp, !.deps = @ \cup packet.deps]

(* queue.erase(it) *)
Drop(queue, i) == RemoveAt(queue, i)

Response(packet) == [addr |-> packet.addr, v |-> packet.v, deps |-> packet.deps]

(* The first request of a queue that check_collision has still to look at. *)
FirstUnchecked(queue) == SelectInSeq(queue, LAMBDA x : ~x.checked)

(* Where the request at position i of queue q can merge: an earlier request *)
(* of its queue; and the write it can be answered from.                    *)
MergeInto(ch, q, i) ==
  IF q = "WQ" THEN Collides(SubSeq(ch.WQ, 1, i - 1), ch.WQ[i], "write")
              ELSE Collides(SubSeq(ch[q], 1, i - 1), ch[q][i], "read")
ForwardIfUnmerged(ch, q, i) ==                                 \* mutant
  IF q = "WQ" \/ MergeInto(ch, q, i) # 0 THEN 0 ELSE Collides(ch.WQ, ch[q][i], "write")
ForwardFrom(ch, q, i) ==
  IF q = "WQ" THEN 0 ELSE Collides(ch.WQ, ch[q][i], "write")

(* do_collision_for_merge: the request at position i of a queue joins the   *)
(* earlier one dest, and is erased.                                        *)
Joined(queue, dest, i) == Drop([queue EXCEPT ![dest] = Merged(@, queue[i])], i)

(* do_collision_for_return *)
Forwarded(ch, q, i) ==
  [ch EXCEPT ![q] = Drop(@, i),
             !.returned = IF ch[q][i].resp THEN Append(@, Response(ch[q][i])) ELSE @]

(* One round of a loop of check_collision, for the request at position i of *)
(* queue q: forward it from the write queue, merge it, or mark it.         *)
CheckRequest(ch, q, i) ==
  LET dest == MergeInto(ch, q, i)
  IN  IF ForwardFrom(ch, q, i) # 0 THEN Forwarded(ch, q, i)
      ELSE IF dest # 0 THEN [ch EXCEPT ![q] = Joined(@, dest, i)]
      ELSE [ch EXCEPT ![q][i].checked = TRUE]

AllChecked(ch) == \A q \in QueueNames : FirstUnchecked(ch[q]) = 0

(* The queue whose loop check_collision is in: the write queue first, then *)
(* the read queue, then the prefetch queue.                                *)
CheckedQueue(ch) ==
  IF FirstUnchecked(ch.WQ) # 0 THEN "WQ"
  ELSE IF FirstUnchecked(ch.RQ) # 0 THEN "RQ" ELSE "PQ"

CheckStep(ch) ==
  IF AllChecked(ch) THEN ch
  ELSE CheckRequest(ch, CheckedQueue(ch), FirstUnchecked(ch[CheckedQueue(ch)]))

(* The whole of check_collision. *)
CheckCollision(ch) ==
  LET rounds == Len(ch.WQ) + Len(ch.RQ) + Len(ch.PQ)
      after[n \in 0 .. rounds] == IF n = 0 THEN ch ELSE CheckStep(after[n - 1])
  IN  after[rounds]

(* do_add_queue: HasRoom is its guard, Added its effect. *)
HasRoom(ch, q) == Len(ch[q]) < QueueSize(q)
Added(ch, q, packet) == [ch EXCEPT ![q] = Append(@, [packet EXCEPT !.checked = FALSE])]
=============================================================================
