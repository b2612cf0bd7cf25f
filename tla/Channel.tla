------------------------------- MODULE Channel --------------------------------
(***************************************************************************)
(* A channel between two levels of the hierarchy (src/src/channel.cc), the *)
(* level above that adds requests to it and the level below that serves    *)
(* them.  The two levels never run at the same time: do_cycle operates one *)
(* component after the other, so the level below finds the queues as the   *)
(* level above left them, checks them for collisions, and only then takes  *)
(* requests off their heads and answers.                                   *)
(*                                                                         *)
(* The level below is reduced to what it does to the channel: it takes     *)
(* checked requests from the heads of the queues, and answers, in any      *)
(* order and after any delay, those that want a response.                  *)
(***************************************************************************)
EXTENDS ChannelOps, FiniteSets

CONSTANTS
  Ids,            \* instructions that can wait for a response
  Translations    \* is_translated of the requests made on this channel: the core
                  \* asks with FALSE, caches and page table walkers with TRUE

VARIABLES
  turn,    \* "upper", "check" or "lower": who runs
  ch,      \* the channel
  below    \* requests taken by the level below and not yet answered

channelVars == <<turn, ch, below>>

RequestType ==
  [addr : Addr, v : Addr, tr : BOOLEAN, resp : BOOLEAN, deps : SUBSET Ids, checked : BOOLEAN]
ResponseType == [addr : Addr, v : Addr, deps : SUBSET Ids]

ChannelType ==
  [WQ : Seq(RequestType), RQ : Seq(RequestType), PQ : Seq(RequestType), returned : Seq(ResponseType)]

-----------------------------------------------------------------------------
(* The instructions whose request is in the hands of the channel, or of the *)
(* level below, and those whose response waits for the level above.         *)
Waiting(requests) == UNION {r.deps : r \in {x \in requests : x.resp}}
pending == Waiting(ToSet(ch.RQ)) \cup Waiting(ToSet(ch.PQ)) \cup Waiting(below)
answered == UNION {r.deps : r \in ToSet(ch.returned)}

Idle == Ids \ (pending \cup answered)

ChannelInit ==
  /\ turn = "upper"
  /\ ch = EmptyChannel
  /\ below = {}

Packet(a, t, wanted, ids) ==
  [addr |-> a, v |-> a, tr |-> t, resp |-> wanted, deps |-> ids, checked |-> FALSE]

(* add_rq and add_pq with a requester that waits for the response. *)
AddRead(q, a, t, i) ==
  /\ turn = "upper"
  /\ HasRoom(ch, q)
  /\ ch' = Added(ch, q, Packet(a, t, TRUE, {i}))
  /\ UNCHANGED <<turn, below>>

(* A prefetch that the level above will not fill: nobody waits for it. *)
AddPrefetch(q, a, t) ==
  /\ turn = "upper"
  /\ HasRoom(ch, q)
  /\ ch' = Added(ch, q, Packet(a, t, FALSE, {}))
  /\ UNCHANGED <<turn, below>>

(* add_wq: writebacks and stores want no response. *)
AddWrite(a, t) ==
  /\ turn = "upper"
  /\ HasRoom(ch, "WQ")
  /\ ch' = Added(ch, "WQ", Packet(a, t, FALSE, {}))
  /\ UNCHANGED <<turn, below>>

(* The level above takes the oldest response. *)
Collect ==
  /\ turn = "upper"
  /\ ch.returned # <<>>
  /\ ch' = [ch EXCEPT !.returned = Tail(@)]
  /\ UNCHANGED <<turn, below>>

(* The level below operates: check_collision, one request at a time. *)
StartCheck ==
  /\ turn = "upper"
  /\ turn' = "check"
  /\ UNCHANGED <<ch, below>>

CheckOne ==
  /\ turn = "check"
  /\ ~AllChecked(ch)
  /\ ch' = CheckStep(ch)
  /\ UNCHANGED <<turn, below>>

EndCheck ==
  /\ turn = "check"
  /\ AllChecked(ch)
  /\ turn' = "lower"
  /\ UNCHANGED <<ch, below>>

(* initiate_tag_check takes the head of a queue. *)
Take(q) ==
  /\ turn = "lower"
  /\ ch[q] # <<>>
  /\ ch' = [ch EXCEPT ![q] = Tail(@)]
  /\ below' = IF Head(ch[q]).resp THEN below \cup {Head(ch[q])} ELSE below
  /\ UNCHANGED turn

(* A hit or a fill pushes the response. *)
Answer(r) ==
  /\ turn = "lower"
  /\ r \in below
  /\ below' = below \ {r}
  /\ ch' = [ch EXCEPT !.returned = Append(@, Response(r))]
  /\ UNCHANGED turn

EndCycle ==
  /\ turn = "lower"
  /\ turn' = "upper"
  /\ UNCHANGED <<ch, below>>

ChannelNext ==
  \/ \E q \in {"RQ", "PQ"}, a \in Addr, t \in Translations :
        \/ \E i \in Idle : AddRead(q, a, t, i)
        \/ AddPrefetch(q, a, t)
  \/ \E a \in Addr, t \in Translations : AddWrite(a, t)
  \/ Collect
  \/ StartCheck
  \/ CheckOne
  \/ EndCheck
  \/ \E q \in QueueNames : Take(q)
  \/ \E r \in below : Answer(r)
  \/ EndCycle

ChannelSpec == ChannelInit /\ [][ChannelNext]_channelVars

-----------------------------------------------------------------------------
ChannelTypeOK ==
  /\ turn \in {"upper", "check", "lower"}
  /\ ch \in ChannelType
  /\ below \subseteq RequestType
  /\ \A q \in QueueNames : Len(ch[q]) <= QueueSize(q)

(* In every queue the requests already checked come first.  check_collision *)
(* looks for the first unchecked one and treats all that follow as          *)
(* unchecked, so an unchecked request behind which checked ones stand would *)
(* be compared with itself and its successors (src/src/channel.cc:78).      *)
CheckedPrefix ==
  \A q \in QueueNames : \A i, j \in DOMAIN ch[q] :
     i < j /\ ch[q][j].checked => ch[q][i].checked

(* When the level below takes requests, no two requests of one queue are    *)
(* for the same thing (and both virtual or both physical), however many the *)
(* level above has added since the last check: "Check WQ for duplicates,    *)
(* merging if they are found" (src/src/channel.cc:77).  It takes a channel   *)
(* whose requests are all of one kind: on another, a request of the other   *)
(* kind in front hides the duplicate from do_collision_for.                *)
NoDuplicates ==
  turn = "lower" =>
    \A q \in QueueNames : \A i, j \in DOMAIN ch[q] :
       i # j /\ ch[q][i].tr = ch[q][j].tr
         => IF q = "WQ" THEN ~SameWrite(ch[q][i], ch[q][j]) ELSE ~SameRead(ch[q][i], ch[q][j])

(* What check_collision relies on and what it promises, in every order of   *)
(* arrivals, rounds of its loops and requests taken below.                  *)
QueuesKept == ChannelTypeOK /\ CheckedPrefix /\ NoDuplicates

(* The requests made on one channel are all of one kind: a core asks its    *)
(* caches with virtual addresses, every other level asks with physical ones *)
(* (src/src/ooo_cpu.cc:832, src/inc/channel.h:54, src/src/ptw.cc:111).      *)
OneKind == Translations \subseteq BOOLEAN /\ \A t, u \in Translations : t = u

(* Why QueuesKept holds: the requests that check_collision has looked at    *)
(* come first and are for different things, wherever it stands in its loops *)
(* and whatever has been added behind them since; and the level below runs  *)
(* only once all of them have been looked at.                               *)
Shamt(q) == IF q = "WQ" THEN "write" ELSE "read"
KeptQueue(q, queue) ==
  /\ Len(queue) <= QueueSize(q)
  /\ \A i \in DOMAIN queue : queue[i].tr \in Translations
  /\ \A i, j \in DOMAIN queue : i < j /\ queue[j].checked => queue[i].checked
  /\ \A i, j \in DOMAIN queue :
        i # j /\ queue[i].checked /\ queue[j].checked => ~Same(Shamt(q), queue[i], queue[j])

CheckInv ==
  /\ ChannelTypeOK
  /\ \A q \in QueueNames : KeptQueue(q, ch[q])
  /\ turn = "lower" => AllChecked(ch)

(* A read or a prefetch that meets a write to the same place is answered    *)
(* from that write: it does not go down to the level below, which has not   *)
(* seen the write, not even as a part of an earlier read that did go down.  *)
ReadsSeeWrites ==
  [][turn = "check" =>
       \A q \in {"RQ", "PQ"} : \A i \in DOMAIN ch[q] :
          LET r == ch[q][i]
              seen == \E w \in ToSet(ch.WQ) : SameWrite(r, w) /\ w.tr = r.tr
          IN  seen /\ ~r.checked
                => \/ r.deps \subseteq answered'
                   \/ \E j \in DOMAIN ch'[q] : ch'[q][j] = r]_channelVars

(* check_collision merges and forwards writes, but the place a write is for *)
(* stays in the write queue until the level below takes it.                 *)
WriteKey(r) == IF MATCH_OFFSET_BITS THEN r.addr ELSE BlockOf[r.addr]
WriteKeys == {WriteKey(r) : r \in ToSet(ch.WQ)}
WritesKept == [][turn # "lower" => WriteKeys \subseteq WriteKeys']_channelVars

(* A write is kept until it is taken, and until then is seen by every read. *)
WritesSeen == WritesKept /\ ReadsSeeWrites

(* The channel keeps the promise of MemService: no request that was         *)
(* accepted is lost by a merge or a forward, no response goes to a request  *)
(* that was not made, or goes out twice.                                    *)
Service == INSTANCE MemService WITH Ids <- Ids, pending <- pending, answered <- answered
ServiceSpec == Service!Spec

(* Why it does: an instruction waits in one place at a time, and those who  *)
(* wait for a request are the reason it wants a response.                   *)
HeldBy(requests) == UNION {r.deps : r \in requests}
HeldIn(queue) == UNION {queue[i].deps : i \in DOMAIN queue}
HeldOnce(queue) ==
  \A i, j \in DOMAIN queue : i # j => queue[i].deps \cap queue[j].deps = {}
WantedByHolders(queue) == \A i \in DOMAIN queue : queue[i].resp <=> queue[i].deps # {}

WaitsOnce ==
  /\ \A q \in QueueNames : HeldOnce(ch[q]) /\ WantedByHolders(ch[q])
  /\ HeldIn(ch.WQ) = {}
  /\ HeldOnce(ch.returned) /\ \A i \in DOMAIN ch.returned : ch.returned[i].deps # {}
  /\ \A r, s \in below : r # s => r.deps \cap s.deps = {}
  /\ \A r \in below : r.resp /\ r.deps # {}
  /\ \A p, q \in QueueNames : p # q => HeldIn(ch[p]) \cap HeldIn(ch[q]) = {}
  /\ \A q \in QueueNames :
        HeldIn(ch[q]) \cap (HeldBy(below) \cup HeldIn(ch.returned)) = {}
  /\ HeldBy(below) \cap HeldIn(ch.returned) = {}

ChannelInv == CheckInv /\ WaitsOnce
=============================================================================
