--------------------------------- MODULE BTB ---------------------------------
(***************************************************************************)
(* The branch target buffer (btb/basic_btb): a table of the branches that   *)
(* have been taken, which is a RecencyList (LruTable implements it), a      *)
(* stack of the calls that have not returned with the sizes of the call     *)
(* instructions, and a table of the targets of indirect branches under the  *)
(* outcomes of the latest conditional ones.                                *)
(*                                                                         *)
(* The program is external: it calls and returns, jumps, and takes its      *)
(* conditional branches or not.  calls is its own stack.  For every branch  *)
(* the core asks for a prediction and then tells the outcome.               *)
(***************************************************************************)
EXTENDS Integers, Sequences, FiniteSets

CONSTANTS
  Branch,              \* the program's branches: [ip, type] records
  SIZE,                \* ip of a call -> the size of the instruction
  Target,              \* addresses other than those behind a call
  TagOf,               \* ip -> tag in the direct predictor (ip without its last two bits)
  Tag, Set, SetOfTag, WAYS,
  max_size,            \* calls the return stack holds
  SlotOf,              \* ip -> index of its call size
  Slot,                \* of the indirect predictor
  HashOf,              \* <<ip, history>> -> slot
  HISTORY,             \* outcomes in the history
  MAX_DEPTH            \* bound: calls that have not returned

NoAddress == 0

VARIABLES
  table,               \* direct: set -> entries, the latest used first
  stack,               \* ras.stack
  call_size_trackers,
  predictor,           \* indirect
  conditional_history,
  predicted,           \* what btb_prediction has returned for the branch
  calls,               \* the calls of the program that have not returned
  last_taken           \* tag -> type and target of the last branch taken there

vars == <<table, stack, call_size_trackers, predictor, conditional_history, predicted, calls,
          last_taken>>

Calls == {"direct call", "indirect call"}
Indirects == {"indirect", "indirect call"}

NoEntry == [tag |-> "none", type |-> "none", target |-> NoAddress]
Direct == INSTANCE RecencyList
  WITH Elem <- {}, SetOf <- SetOfTag, Nothing <- NoEntry, list <- table, answer <- NoEntry

Init ==
  /\ table = [s \in Set |-> <<>>]
  /\ stack = <<>>
  /\ call_size_trackers = [i \in {SlotOf[ip] : ip \in DOMAIN SlotOf} |-> 4]
  /\ predictor = [s \in Slot |-> NoAddress]
  /\ conditional_history = [i \in 1..HISTORY |-> FALSE]
  /\ predicted = [target |-> NoAddress, taken |-> FALSE]
  /\ calls = <<>>
  /\ last_taken = [t \in Tag |-> NoEntry]

(* What the direct predictor keeps for a branch. *)
InfoOf(type) == IF type \in Indirects THEN "INDIRECT" ELSE IF type = "return" THEN "RETURN"
                ELSE IF type = "conditional" THEN "CONDITIONAL" ELSE "ALWAYS_TAKEN"

(* btb_prediction; the table with the entry refreshed is what it leaves.    *)
Top(s) == s[Len(s)]
OfReturn == IF stack = <<>> THEN NoAddress ELSE Top(stack) + call_size_trackers[SlotOf[Top(stack)]]
Slotted(ip) == HashOf[<<ip, conditional_history>>]

Prediction(ip, entry) ==
  CASE entry = NoEntry -> [target |-> NoAddress, taken |-> FALSE]
    [] entry.type = "RETURN" -> [target |-> OfReturn, taken |-> TRUE]
    [] entry.type = "INDIRECT" -> [target |-> predictor[Slotted(ip)], taken |-> TRUE]
    [] OTHER -> [target |-> entry.target, taken |-> entry.type # "CONDITIONAL"]

(* direct_predictor::update, from the table with the entry refreshed again. *)
UpdatedAlways(l, tag, type, target) ==                         \* mutant
  Direct!Filled(l, [tag |-> tag, type |-> InfoOf(type), target |-> target])
Updated(l, tag, type, target) ==
  IF target # NoAddress
  THEN Direct!Filled(l, [tag |-> tag, type |-> InfoOf(type), target |-> target])
  ELSE Direct!Refreshed(l, tag)

(* return_stack: push drops the oldest call, calibrate_call_size takes the  *)
(* latest one off and learns its size where the return came close.         *)
Pushed(ip) == LET s == Append(stack, ip) IN IF Len(s) > max_size THEN Tail(s) ELSE s
Distance(x, y) == IF x > y THEN x - y ELSE y - x
Popped == SubSeq(stack, 1, Len(stack) - 1)
Calibrated(target) ==
  IF Distance(Top(stack), target) <= 10
  THEN [call_size_trackers EXCEPT ![SlotOf[Top(stack)]] = Distance(Top(stack), target)]
  ELSE call_size_trackers

(* btb_prediction and then update_btb, as do_predict_branch calls them. *)
Executed(branch, target) ==
  LET tag == TagOf[branch.ip]
      set == SetOfTag[tag]
      type == branch.type
  IN  /\ predicted' = Prediction(branch.ip, Direct!Found(table[set], tag))
      /\ table' = [table EXCEPT ![set] = Updated(Direct!Refreshed(@, tag), tag, type, target)]
      /\ IF type \in Calls THEN stack' = Pushed(branch.ip) /\ UNCHANGED call_size_trackers
         ELSE IF type = "return" /\ stack # <<>>
         THEN stack' = Popped /\ call_size_trackers' = Calibrated(target)
         ELSE UNCHANGED <<stack, call_size_trackers>>
      /\ predictor' = IF type \in Indirects THEN [predictor EXCEPT ![Slotted(branch.ip)] = target]
                      ELSE predictor
      /\ conditional_history' = IF type = "conditional"
                                THEN <<target # NoAddress>> \o SubSeq(conditional_history, 1, HISTORY - 1)
                                ELSE conditional_history
      /\ last_taken' = IF target = NoAddress THEN last_taken
                       ELSE [last_taken EXCEPT ![tag] = [tag |-> tag, type |-> InfoOf(type), target |-> target]]

Call(branch, target) ==
  /\ branch.type \in Calls
  /\ Len(calls) < MAX_DEPTH
  /\ Executed(branch, target)
  /\ calls' = Append(calls, branch.ip)

Return(branch) ==
  /\ branch.type = "return"
  /\ calls # <<>>
  /\ Executed(branch, Top(calls) + SIZE[Top(calls)])
  /\ calls' = SubSeq(calls, 1, Len(calls) - 1)

Jump(branch, target) ==
  /\ branch.type \notin Calls \cup {"return", "conditional"}
  /\ Executed(branch, target)
  /\ UNCHANGED calls

Conditional(branch, target) ==
  /\ branch.type = "conditional"
  /\ target \in Target \cup {NoAddress}
  /\ Executed(branch, target)
  /\ UNCHANGED calls

Next ==
  \E branch \in Branch :
     \/ Return(branch)
     \/ Conditional(branch, NoAddress)
     \/ \E target \in Target : Call(branch, target) \/ Jump(branch, target) \/ Conditional(branch, target)

Spec == Init /\ [][Next]_vars

-----------------------------------------------------------------------------
(* The return stack holds the program's latest calls that have not returned *)
(* and nothing else, however deep the calls have been: what overflowed is    *)
(* forgotten at the bottom, never at the top.                              *)
StackFollowsCalls ==
  /\ Len(stack) <= Len(calls) /\ Len(stack) <= max_size
  /\ stack = SubSeq(calls, Len(calls) - Len(stack) + 1, Len(calls))

(* The size kept for a call is that of a call instruction, or 4: nothing    *)
(* else is ever learnt from a return.                                       *)
SizesLearnt ==
  \A i \in DOMAIN call_size_trackers :
     call_size_trackers[i] = 4 \/ \E ip \in DOMAIN SIZE : SlotOf[ip] = i /\ call_size_trackers[i] = SIZE[ip]

(* An entry of the direct predictor has the kind and the target of the last *)
(* branch taken at its tag; a branch that has never been taken has none.    *)
EntriesTaken ==
  \A s \in Set : \A i \in DOMAIN table[s] : table[s][i] = last_taken[table[s][i].tag]

(* Whatever calls, returns and branches follow one another, the BTB knows    *)
(* of them what it says it knows (basic_btb::update_btb).                   *)
BTBRemembers == StackFollowsCalls /\ SizesLearnt /\ EntriesTaken
=============================================================================
