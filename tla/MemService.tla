------------------------------ MODULE MemService ------------------------------
(***************************************************************************)
(* What a level of the memory hierarchy promises the level above it: a     *)
(* request that was accepted stays pending until the level answers it,     *)
(* nothing is answered that is not pending, and nothing is answered twice. *)
(* A single answer may cover many requests, because queues and MSHRs merge *)
(* requests for one block.                                                 *)
(*                                                                         *)
(* Requests are identified by the instruction that waits for them.         *)
(***************************************************************************)
CONSTANT Ids

VARIABLES
  pending,    \* accepted, not answered
  answered    \* answered, the answer not yet collected by the requester

vars == <<pending, answered>>

TypeOK ==
  /\ pending \subseteq Ids
  /\ answered \subseteq Ids

Init ==
  /\ pending = {}
  /\ answered = {}

(* add_rq or add_pq returned true. *)
Request(i) ==
  /\ i \notin pending \cup answered
  /\ pending' = pending \cup {i}
  /\ UNCHANGED answered

(* A response is pushed onto the requester's returned queue. *)
Respond(S) ==
  /\ S # {}
  /\ S \subseteq pending
  /\ pending' = pending \ S
  /\ answered' = answered \cup S

(* The requester takes responses off its returned queue. *)
Collect(S) ==
  /\ S # {}
  /\ S \subseteq answered
  /\ answered' = answered \ S
  /\ UNCHANGED pending

Next ==
  \/ \E i \in Ids : Request(i)
  \/ \E S \in SUBSET Ids : Respond(S) \/ Collect(S)

Spec == Init /\ [][Next]_vars
=============================================================================
