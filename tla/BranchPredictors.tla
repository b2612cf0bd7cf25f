--------------------------- MODULE BranchPredictors ---------------------------
(* The branch predictors (branch/bimodal, gshare, perceptron and              *)
(* hashed_perceptron) as the core calls them (O3_CPU::do_predict_branch):     *)
(* predict_branch for every instruction, as it is not known yet which are     *)
(* branches, and last_branch_result in the same step for those that are.      *)
(* A history is a set of the numbers of its bits that are 1, the last outcome *)
(* bit 0.                                                                    *)
EXTENDS Integers, Sequences, FiniteSets, SequencesExt, Functions

CONSTANTS
  Predictor,        \* the predictors looked at
  Instr,            \* the addresses of instructions
  Branch,           \* those of branches
  HashOf,           \* the entry of bimodal or perceptron of an instruction
  IpBits,           \* the bits of its address xor'd into an index
  COUNTER_MAX,      \* of the counters of bimodal and gshare
  WEIGHT_MAX,       \* of the weights; their minimum is -WEIGHT_MAX - 1
  HISTORY,          \* bits of history of gshare and perceptron
  THETA,            \* the threshold of perceptron
  NUM_UPDATE_ENTRIES,
  WORD_LEN, NUM_WORDS_PER_VALUE,  \* of the folded histories of hashed_perceptron
  LENGTHS,          \* their lengths, one for each table
  THRESHOLD, THETA_START, SPEED,
  MAX_THETA         \* bound: the threshold that hashed_perceptron learns

VARIABLES
  predictor,
  counters,         \* index -> counter: bimodal and gshare
  perceptrons,      \* entry -> its bias and weights: perceptron
  history,          \* branch_history_vector, or global_history
  spec_history,     \* spec_global_history
  perceptron_state_buf,
  tables,           \* hashed_perceptron: the weights of each table,
  ghist_words,      \* the values of each folded history,
  theta, tc,        \* the threshold and its counter,
  last_result,      \* and what was last predicted
  outcomes          \* of the last branches, the last first (the model's)

vars == <<predictor, counters, perceptrons, history, spec_history, perceptron_state_buf,
          tables, ghist_words, theta, tc, last_result, outcomes>>

VALUE_LEN == WORD_LEN * NUM_WORDS_PER_VALUE
Bits(n) == 0..n - 1
Table == DOMAIN LENGTHS
Longest == Max({HISTORY} \cup Range(LENGTHS))

Xor(a, b) == (a \ b) \cup (b \ a)
Clamped(n, low, high) == IF n < low THEN low ELSE IF n > high THEN high ELSE n
Trained(n, up) == Clamped(n + (IF up THEN 1 ELSE -1), -WEIGHT_MAX - 1, WEIGHT_MAX)
Counted(n, taken) == Clamped(n + (IF taken THEN 1 ELSE -1), 0, COUNTER_MAX)
Shifted(bits, new, length) == ({b + 1 : b \in bits} \cup (IF new THEN {0} ELSE {})) \cap Bits(length)
Abs(n) == IF n < 0 THEN -n ELSE n

(* The sum of one number for each element of a set. *)
SumOver(f, S) == FoldFunctionOnSet(LAMBDA a, b : a + b, 0, f, S)

-----------------------------------------------------------------------------
(* folded_shift_register: a history of any length in values of VALUE_LEN bits *)

Words(length) == (length + VALUE_LEN - 1) \div VALUE_LEN
NewHistory(length) == [i \in 1..Words(length) |-> {}]

(* value: the values are joined by xor, and the words of WORD_LEN bits that  *)
(* are packed in what comes out, too.                                      *)
Value(words) ==
  LET joined == {b \in Bits(VALUE_LEN) : Cardinality({i \in DOMAIN words : b \in words[i]}) % 2 = 1}
  IN {b \in Bits(WORD_LEN) :
        Cardinality({k \in 0..NUM_WORDS_PER_VALUE + 1 : b + k * WORD_LEN \in joined}) % 2 = 1}

(* push_back: every value takes the highest bit of the one before it.  The   *)
(* last has as many bits as are left of the length.                        *)
PushedBackFull(words, length, new) ==                                       \* mutant
  [i \in DOMAIN words |->
     Shifted(words[i], IF i = 1 THEN new ELSE VALUE_LEN - 1 \in words[i - 1], VALUE_LEN)]
PushedBack(words, length, new) ==
  [i \in DOMAIN words |->
     Shifted(words[i], IF i = 1 THEN new ELSE VALUE_LEN - 1 \in words[i - 1],
             IF i = Len(words) /\ length % VALUE_LEN # 0 THEN length % VALUE_LEN ELSE VALUE_LEN)]

-----------------------------------------------------------------------------
Init ==
  /\ predictor \in Predictor
  /\ counters = IF predictor = "bimodal" THEN [h \in Range(HashOf) |-> 0]
                ELSE [h \in SUBSET Bits(HISTORY) |-> 0]
  /\ perceptrons = [h \in Range(HashOf) |-> [bias |-> 0, weights |-> [b \in Bits(HISTORY) |-> 0]]]
  /\ history = {} /\ spec_history = {} /\ perceptron_state_buf = <<>>
  /\ tables = [i \in Table |-> [index \in SUBSET Bits(WORD_LEN) |-> 0]]
  /\ ghist_words = [i \in Table |-> NewHistory(LENGTHS[i])]
  /\ theta = THETA_START /\ tc = 0
  /\ last_result = [indices |-> [i \in Table |-> {}], yout |-> 0]
  /\ outcomes = [i \in 1..Longest |-> FALSE]

(* The branch that has been predicted has gone this way (the model's). *)
Recorded(ip, taken) ==
  outcomes' = IF ip \in Branch /\ predictor # "bimodal" THEN <<taken>> \o Front(outcomes)
              ELSE outcomes

(* bimodal: last_branch_result; predict_branch changes nothing. *)
Bimodal(ip, taken) ==
  /\ predictor = "bimodal"
  /\ counters' = IF ip \in Branch THEN [counters EXCEPT ![HashOf[ip]] = Counted(@, taken)]
                 ELSE counters
  /\ UNCHANGED <<perceptrons, history, spec_history, perceptron_state_buf, tables, ghist_words,
                 theta, tc, last_result>>

(* gshare: gs_table_hash and last_branch_result. *)
gs_table_hash(ip, bits) == Xor(bits, IpBits[ip] \cap Bits(HISTORY))
Gshare(ip, taken) ==
  /\ predictor = "gshare"
  /\ IF ip \in Branch
     THEN /\ counters' = [counters EXCEPT ![gs_table_hash(ip, history)] = Counted(@, taken)]
          /\ history' = Shifted(history, taken, HISTORY)
     ELSE UNCHANGED <<counters, history>>
  /\ UNCHANGED <<perceptrons, spec_history, perceptron_state_buf, tables, ghist_words,
                 theta, tc, last_result>>

-----------------------------------------------------------------------------
(* perceptron *)

Output(p, bits) ==
  p.bias + SumOver([b \in Bits(HISTORY) |-> IF b \in bits THEN p.weights[b] ELSE -p.weights[b]],
                   Bits(HISTORY))

Updated(p, result, bits) ==
  [bias |-> Trained(p.bias, result),
   weights |-> [b \in Bits(HISTORY) |-> Trained(p.weights[b], (b \in bits) = result)]]

(* predict_branch: the prediction goes into the speculative history, and the *)
(* oldest of too many states is lost.                                      *)
Predicted(ip) ==
  LET output == Output(perceptrons[HashOf[ip]], spec_history)
      buf == Append(perceptron_state_buf, [ip |-> ip, prediction |-> output >= 0,
                                           output |-> output, history |-> spec_history])
  IN [prediction |-> output >= 0,
      spec |-> Shifted(spec_history, output >= 0, HISTORY),
      buf |-> IF Len(buf) > NUM_UPDATE_ENTRIES THEN Tail(buf) ELSE buf]

(* last_branch_result finds the first state of the branch.  It leaves the    *)
(* ones of instructions that are not branches where they are.              *)
AnyState(buf, ip) == 1                                                     \* mutant
StateOf(buf, ip) == SelectInSeq(buf, LAMBDA state : state.ip = ip)
Perceptron(ip, taken) ==
  /\ predictor = "perceptron"
  /\ LET predicted == Predicted(ip)
         at == StateOf(predicted.buf, ip)
         state == predicted.buf[at]
     IN IF ip \in Branch /\ at # 0
        THEN /\ perceptron_state_buf' = RemoveAt(predicted.buf, at)
             /\ history' = Shifted(history, taken, HISTORY)
             /\ spec_history' = IF state.prediction # taken THEN history' ELSE predicted.spec
             /\ perceptrons' = IF Abs(state.output) <= THETA \/ state.prediction # taken
                               THEN [perceptrons EXCEPT ![HashOf[ip]] =
                                       Updated(@, taken, state.history)]
                               ELSE perceptrons
        ELSE /\ perceptron_state_buf' = predicted.buf /\ spec_history' = predicted.spec
             /\ UNCHANGED <<history, perceptrons>>
  /\ UNCHANGED <<counters, tables, ghist_words, theta, tc, last_result>>

-----------------------------------------------------------------------------
(* hashed_perceptron *)

Result(ip) ==
  LET indices == [i \in Table |-> Xor(Value(ghist_words[i]), IpBits[ip] \cap Bits(WORD_LEN))]
  IN [indices |-> indices, yout |-> SumOver([i \in Table |-> tables[i][indices[i]]], Table)]

(* adjust_threshold: after enough of them, mispredictions raise theta and    *)
(* weak predictions that were right lower it.                              *)
WeakAlways(result) == TRUE                                                 \* mutant
Weak(result) == Abs(result.yout) < theta
adjust_threshold(correct) ==
  LET count == IF correct THEN tc - 1 ELSE tc + 1
      over == IF correct THEN count <= -SPEED ELSE count >= SPEED
  IN /\ tc' = IF over THEN 0 ELSE count
     /\ theta' = IF ~over THEN theta ELSE IF correct THEN theta - 1 ELSE theta + 1

HashedPerceptron(ip, taken) ==
  /\ predictor = "hashed_perceptron"
  /\ theta <= MAX_THETA
  /\ last_result' = Result(ip)
  /\ IF ip \in Branch
     THEN LET correct == taken = (last_result'.yout >= THRESHOLD)
          IN /\ ghist_words' = [i \in Table |-> PushedBack(ghist_words[i], LENGTHS[i], taken)]
             /\ IF ~correct \/ Weak(last_result')
                THEN /\ tables' = [i \in Table |->
                          [tables[i] EXCEPT ![last_result'.indices[i]] = Trained(@, taken)]]
                     /\ adjust_threshold(correct)
                ELSE UNCHANGED <<tables, theta, tc>>
     ELSE UNCHANGED <<ghist_words, tables, theta, tc>>
  /\ UNCHANGED <<counters, perceptrons, history, spec_history, perceptron_state_buf>>

-----------------------------------------------------------------------------
Next ==
  \E ip \in Instr : \E taken \in (IF ip \in Branch THEN BOOLEAN ELSE {FALSE}) :
    /\ \/ Bimodal(ip, taken)
       \/ Gshare(ip, taken)
       \/ Perceptron(ip, taken)
       \/ HashedPerceptron(ip, taken)
    /\ Recorded(ip, taken)
    /\ UNCHANGED predictor

Spec == Init /\ [][Next]_vars

-----------------------------------------------------------------------------
(* The last outcomes as a history, and folded to the bits of an index. *)
LastOutcomes(length) == {b \in Bits(length) : outcomes[b + 1]}
Folded(bits) ==
  {b \in Bits(WORD_LEN) : Cardinality({h \in bits : h % WORD_LEN = b}) % 2 = 1}

(* The real histories are those of the outcomes of branches alone, whatever  *)
(* was predicted in between, and a folded one, however its values carry into *)
(* each other, has the last outcomes of its length and no more             *)
(* (folded_shift_register.h).                                             *)
HistoriesKept ==
  /\ predictor \in {"gshare", "perceptron"} => history = LastOutcomes(HISTORY)
  /\ predictor = "hashed_perceptron" =>
       \A i \in Table : Value(ghist_words[i]) = Folded(LastOutcomes(LENGTHS[i]))

(* perceptron: no prediction of a branch is left behind, so that each branch *)
(* is trained with what it was predicted from, however many predictions of   *)
(* other instructions are kept.                                           *)
NoBranchLeft ==
  \A i \in DOMAIN perceptron_state_buf : perceptron_state_buf[i].ip \notin Branch

(* hashed_perceptron: the threshold that is learnt stays one, and its count  *)
(* below the speed.                                                       *)
ThresholdLearnt == theta >= 0 /\ Abs(tc) < SPEED

PredictorsKeep == HistoriesKept /\ NoBranchLeft /\ ThresholdLearnt
=============================================================================
