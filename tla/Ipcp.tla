--------------------------------- MODULE Ipcp ---------------------------------
(* Instruction pointer classification (prefetcher/ipcp): the strides of an     *)
(* instruction are learnt as a constant one (CS) or through a signature of the *)
(* last ones (CPLX), a dense set of blocks as a global stream (S), and        *)
(* otherwise the next line may be prefetched (NL).  Each call of the cache is *)
(* one step; what prefetch_line answers is not looked at.                     *)
EXTENDS Integers, FiniteSets, Functions, Bitwise

CONSTANTS
  Ip, Block,            \* instructions, and the blocks they use
  PAGE,                 \* blocks of a page (64)
  Index, Tag,           \* instruction -> its entry of the table and its tag
  NUM_GHB_ENTRIES,
  SIG_BITS,             \* of a signature (12)
  MISSES                \* after how many misses spec_nl is set anew (256)

VARIABLES
  trackers_l1, DPT_l1, ghb_l1,
  num_misses,           \* 0 to MISSES - 1, or Beyond
  spec_nl,
  prefetched            \* by the last call: block, block of the access, and class

vars == <<trackers_l1, DPT_l1, ghb_l1, num_misses, spec_nl, prefetched>>

NoBlock == -PAGE
Beyond == MISSES + 1
DEGREE == 3
Signature == 0..2^SIG_BITS - 1
PageOf(b) == b \div PAGE
Offset(b) == b % PAGE

(* The history and the count of misses are not initialized: of the history    *)
(* it matters which of the blocks are in it, and a count above MISSES is      *)
(* never equal to it.                                                       *)
Init ==
  /\ trackers_l1 = [i \in {Index[ip] : ip \in Ip} |->
        [ip_tag |-> 0, last_page |-> 0, last_cl_offset |-> 0, last_stride |-> 0, ip_valid |-> FALSE,
         conf |-> 0, signature |-> 0, str_dir |-> 0, str_valid |-> FALSE, str_strength |-> FALSE]]
  /\ DPT_l1 = [s \in Signature |-> [delta |-> 0, conf |-> 0]]
  /\ \E b \in Block \cup {NoBlock} : ghb_l1 = [i \in 1..NUM_GHB_ENTRIES |-> b]
  /\ num_misses \in {0, Beyond}
  /\ spec_nl = FALSE /\ prefetched = {}

update_sig_l1(sig, delta) == ((2 * sig) ^^ (IF delta < 0 THEN PAGE - delta ELSE delta)) % 2^SIG_BITS

update_conf(stride, pred_stride, conf) ==
  IF stride = pred_stride THEN (IF conf = 3 THEN 3 ELSE conf + 1)
  ELSE IF conf = 0 THEN 0 ELSE conf - 1

(* The cycles between two settings of spec_nl are any. *)
CountMiss(hit) ==
  IF hit \/ num_misses = Beyond THEN UNCHANGED <<num_misses, spec_nl>>
  ELSE IF num_misses + 1 < MISSES THEN num_misses' = num_misses + 1 /\ UNCHANGED spec_nl
  ELSE num_misses' = 0 /\ spec_nl' \in BOOLEAN

(* check_for_stream_l1: how many of the blocks before and after are in the     *)
(* history.                                                                 *)
WithStream(t, b) ==
  LET ghb == Range(ghb_l1)
      pos_count == Cardinality({i \in 1..NUM_GHB_ENTRIES : b - i \in ghb})
      neg_count == Cardinality({i \in 1..NUM_GHB_ENTRIES : b + i \in ghb})
      count == IF pos_count > neg_count THEN pos_count ELSE neg_count
      found == count > NUM_GHB_ENTRIES \div 2
  IN [t EXCEPT !.str_dir = IF pos_count > neg_count THEN 1 ELSE 0,
               !.str_valid = found \/ (@ /\ t.str_strength),
               !.str_strength = @ \/ (found /\ count >= (NUM_GHB_ENTRIES * 3) \div 4)]

-----------------------------------------------------------------------------
(* prefetcher_cache_operate.  An instruction with another tag takes the entry *)
(* of one that has not come back since.                                     *)
NewIp(ip, b) ==
  LET t == trackers_l1[Index[ip]]
  IN /\ t.ip_tag # Tag[ip]
     /\ trackers_l1' = [trackers_l1 EXCEPT ![Index[ip]] =
          IF t.ip_valid THEN [t EXCEPT !.ip_valid = FALSE]
          ELSE [ip_tag |-> Tag[ip], last_page |-> PageOf(b), last_cl_offset |-> Offset(b),
                last_stride |-> 0, ip_valid |-> TRUE, conf |-> 0, signature |-> 0,
                str_dir |-> 0, str_valid |-> FALSE, str_strength |-> FALSE]]
     /\ prefetched' = {<<b + 1, b, "NL">>}
     /\ UNCHANGED <<DPT_l1, ghb_l1>>

(* Nothing is learnt from an offset that is seen twice in a row. *)
SeenAgainNever(t, b) == FALSE                                              \* mutant
SeenAgain(t, b) == Offset(b) = t.last_cl_offset
Again(ip, b) ==
  LET t == trackers_l1[Index[ip]]
  IN /\ t.ip_tag = Tag[ip] /\ SeenAgain(t, b)
     /\ trackers_l1' = [trackers_l1 EXCEPT ![Index[ip]].ip_valid = TRUE]
     /\ prefetched' = {}
     /\ UNCHANGED <<DPT_l1, ghb_l1>>

(* The stride, across a page boundary as if the pages were neighbours. *)
Stride(t, b) ==
  LET stride == Offset(b) - t.last_cl_offset
  IN IF PageOf(b) = t.last_page THEN stride
     ELSE IF stride < 0 THEN stride + PAGE ELSE stride - PAGE

InPage(b, blocks) == {c \in blocks : PageOf(c) = PageOf(b)}
Streamed(b, dir) == InPage(b, {IF dir = 1 THEN b + i ELSE b - i : i \in 1..2 * DEGREE})
Strided(b, stride) == InPage(b, {b + i * stride : i \in 1..DEGREE})
Followed(dpt, sig, b) ==
  LET walk[i \in 0..DEGREE] ==
        IF i = 0 THEN [block |-> b, sig |-> sig, on |-> TRUE, sure |-> FALSE]
        ELSE LET before == walk[i - 1]
                 e == dpt[before.sig]
                 block == before.block + e.delta
             IN [block |-> block, sig |-> update_sig_l1(before.sig, e.delta),
                 on |-> before.on /\ PageOf(block) = PageOf(b) /\ e.delta # 0, sure |-> e.conf > 0]
  IN {walk[i].block : i \in {j \in 1..DEGREE : walk[j].on /\ walk[j].sure}}

(* What the class of the instruction asks for, with the next line if it is    *)
(* nothing.                                                                 *)
Asked(t, dpt, b) ==
  LET class == IF t.str_valid THEN "S"
               ELSE IF t.conf > 1 /\ t.last_stride # 0 THEN "CS" ELSE "CPLX"
      blocks == CASE class = "S" -> Streamed(b, t.str_dir)
                  [] class = "CS" -> Strided(b, t.last_stride)
                  [] class = "CPLX" -> Followed(dpt, t.signature, b)
  IN IF blocks = {} /\ spec_nl' THEN {<<b + 1, b, "NL">>} ELSE blocks \X {b} \X {class}

Learn(ip, b) ==
  LET t == trackers_l1[Index[ip]]
      stride == Stride(t, b)
      conf == update_conf(stride, t.last_stride, t.conf)
      d == DPT_l1[t.signature]
      d_conf == update_conf(stride, d.delta, d.conf)
      learnt == WithStream([t EXCEPT !.ip_valid = TRUE, !.conf = conf,
                                     !.last_stride = IF conf = 0 THEN stride ELSE @,
                                     !.signature = update_sig_l1(@, stride)], b)
  IN /\ t.ip_tag = Tag[ip] /\ ~SeenAgain(t, b)
     /\ DPT_l1' = [DPT_l1 EXCEPT ![t.signature] =
                     [delta |-> IF d_conf = 0 THEN stride ELSE d.delta, conf |-> d_conf]]
     /\ prefetched' = Asked(learnt, DPT_l1', b)
     /\ trackers_l1' = [trackers_l1 EXCEPT ![Index[ip]] =
                          [learnt EXCEPT !.last_cl_offset = Offset(b), !.last_page = PageOf(b)]]
     /\ ghb_l1' = IF b \in Range(ghb_l1) THEN ghb_l1
                  ELSE [i \in DOMAIN ghb_l1 |-> IF i = 1 THEN b ELSE ghb_l1[i - 1]]

Next ==
  \E ip \in Ip, b \in Block, hit \in BOOLEAN :
    /\ CountMiss(hit)
    /\ NewIp(ip, b) \/ Again(ip, b) \/ Learn(ip, b)

Spec == Init /\ [][Next]_vars

-----------------------------------------------------------------------------
(* A stride that is trusted leads elsewhere in a page's reach, whatever        *)
(* instructions share an entry or a signature and wherever the pages are, and *)
(* a strong stream is one.                                                  *)
StridesLead ==
  /\ \A i \in DOMAIN trackers_l1 :
       LET t == trackers_l1[i]
       IN /\ t.last_stride \in 1 - PAGE..PAGE - 1 /\ (t.conf > 0 => t.last_stride # 0)
          /\ t.str_strength => t.str_valid
  /\ \A s \in Signature :
       DPT_l1[s].delta \in 1 - PAGE..PAGE - 1 /\ (DPT_l1[s].conf > 0 => DPT_l1[s].delta # 0)

(* Only the next line may be in another page ("Check if prefetch address is   *)
(* in same 4 KB page", ipcp.cc:153).                                         *)
OthersInPage ==
  \A p \in prefetched : p[3] # "NL" => PageOf(p[1]) = PageOf(p[2])

IpcpKeeps == StridesLead /\ OthersInPage
=============================================================================
