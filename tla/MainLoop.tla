------------------------------- MODULE MainLoop -------------------------------
(***************************************************************************)
(* The main loop (src/src/champsim.cc, src/src/operable.cc): main runs the  *)
(* phases; do_phase lets do_cycle operate every component whose clock is    *)
(* behind the global one and fill the input queues of the cores, until      *)
(* every core has retired its instructions, a trace has ended, or the       *)
(* watchdogs abort the program.                                            *)
(*                                                                         *)
(* What a component does in a cycle is external here: a core takes           *)
(* instructions from its input queue and retires some of those it has in    *)
(* flight, or does not.  Clocks are kept relative to the global clock.      *)
(***************************************************************************)
EXTENDS Integers, Sequences, FiniteSets

CONSTANTS
  Cpu,               \* cores
  Component,         \* the other operables: caches, walkers, the memory controller
  PERIOD,            \* clock_period
  PHASES,            \* the sequence of phases, each with warmup and length
  REPEAT,            \* the traces are read again from the start when they end
  IN_QUEUE_SIZE,
  WIDTH,             \* instructions a core takes and retires in a cycle
  IN_FLIGHT,         \* bound: instructions in flight in a core
  DEADLOCK_CYCLE,    \* cycles without progress that end the program
  LIVELOCK_PERIOD,   \* cycles between the checks for livelock
  LIVELOCK_INSTR     \* instructions in such a period that are too few

Operable == Cpu \cup Component
NoOperable == "none"

ASSUME ClockAssumption ==
  /\ PERIOD \in [Operable -> Nat \ {0}]
  /\ \E op \in Operable : \A o \in Operable : PERIOD[op] <= PERIOD[o]
  /\ NoOperable \notin Operable

(* The phases main makes are never none; the watchdogs wait for a cycle at   *)
(* least.                                                                  *)
ASSUME PhaseAssumption ==
  PHASES \in Seq([warmup : BOOLEAN, length : Nat]) /\ PHASES # <<>>
ASSUME BoundAssumption ==
  /\ {IN_QUEUE_SIZE, WIDTH, IN_FLIGHT, LIVELOCK_INSTR} \subseteq Nat
  /\ {DEADLOCK_CYCLE, LIVELOCK_PERIOD} \subseteq Nat \ {0}
  /\ REPEAT \in BOOLEAN

VARIABLES
  pc,                \* "begin", "tick", "operate", "read", "check", "done" or "aborted"
  phase,             \* index into PHASES
  ahead,             \* operable -> current_time minus the time of the global clock
  left,              \* operables that do_cycle has not operated yet
  turn,              \* the one that operate_on runs
  progress,          \* a component has made progress in this cycle
  input_queue,       \* core -> instructions in its input queue
  in_flight,         \* core -> instructions it has taken and not retired
  sim_instr,         \* core -> instructions retired in this phase, up to its length
  halt,              \* core -> it gets no more instructions in this phase
  eof,               \* core -> its trace has ended
  phase_complete,    \* core -> BOOLEAN
  stalled_cycle,
  livelock_timer,
  recent,            \* core -> instructions since the last check, up to LIVELOCK_INSTR + 1
  ended              \* core -> sim_instr at each call of end_phase for it in this phase

clocks == <<ahead, left, turn>>
cores == <<input_queue, in_flight, sim_instr, recent>>
watchdogs == <<stalled_cycle, livelock_timer>>
results == <<halt, phase_complete, ended>>
vars == <<pc, phase, progress, eof, clocks, cores, watchdogs, results>>

Least(m, n) == IF m < n THEN m ELSE n

(* time_quantum: the period of the fastest clock. *)
Quantum == PERIOD[CHOOSE op \in Operable : \A o \in Operable : PERIOD[op] <= PERIOD[o]]

Length == PHASES[phase].length
Warmup == PHASES[phase].warmup

Init ==
  /\ pc = "begin" /\ phase = 0
  /\ ahead = [op \in Operable |-> 0] /\ left = {} /\ turn = NoOperable
  /\ progress = FALSE
  /\ input_queue = [cpu \in Cpu |-> 0] /\ in_flight = [cpu \in Cpu |-> 0]
  /\ sim_instr = [cpu \in Cpu |-> 0] /\ recent = [cpu \in Cpu |-> 0]
  /\ halt = [cpu \in Cpu |-> FALSE] /\ eof = [cpu \in Cpu |-> FALSE]
  /\ phase_complete = [cpu \in Cpu |-> FALSE] /\ ended = [cpu \in Cpu |-> <<>>]
  /\ stalled_cycle = 0 /\ livelock_timer = 0

(* do_phase, up to its loop. *)
Released == [cpu \in Cpu |-> FALSE]
BeginPhase ==
  /\ pc = "begin"
  /\ pc' = "tick" /\ phase' = phase + 1
  /\ halt' = Released
  /\ sim_instr' = [cpu \in Cpu |-> 0] /\ recent' = [cpu \in Cpu |-> 0]
  /\ phase_complete' = [cpu \in Cpu |-> FALSE] /\ ended' = [cpu \in Cpu |-> <<>>]
  /\ stalled_cycle' = 0 /\ livelock_timer' = 0
  /\ UNCHANGED <<progress, eof, clocks, input_queue, in_flight>>

(* The global clock ticks, and do_cycle sorts the operables by their time.  *)
Tick ==
  /\ pc = "tick"
  /\ pc' = "operate"
  /\ ahead' = [op \in Operable |-> ahead[op] - Quantum]
  /\ left' = Operable
  /\ progress' = FALSE
  /\ UNCHANGED <<phase, eof, turn, cores, watchdogs, results>>

Take(op) ==
  /\ pc = "operate" /\ turn = NoOperable
  /\ op \in left
  /\ \A o \in left : ahead[op] <= ahead[o]
  /\ turn' = op
  /\ UNCHANGED <<pc, phase, progress, eof, ahead, left, cores, watchdogs, results>>

(* One turn of the loop of operate_on. *)
BehindOrAt == pc = "operate" /\ turn # NoOperable /\ ahead[turn] <= 0        \* mutant
Behind == pc = "operate" /\ turn # NoOperable /\ ahead[turn] < 0

OperateCore(retired, taken, other) ==
  /\ Behind /\ turn \in Cpu
  /\ retired \in 0..Least(WIDTH, in_flight[turn])
  /\ taken \in 0..Least(WIDTH, input_queue[turn])
  /\ in_flight[turn] - retired + taken <= IN_FLIGHT
  /\ ahead' = [ahead EXCEPT ![turn] = @ + PERIOD[turn]]
  /\ input_queue' = [input_queue EXCEPT ![turn] = @ - taken]
  /\ in_flight' = [in_flight EXCEPT ![turn] = @ - retired + taken]
  /\ sim_instr' = [sim_instr EXCEPT ![turn] = Least(@ + retired, Length)]
  /\ recent' = [recent EXCEPT ![turn] = Least(@ + retired, LIVELOCK_INSTR + 1)]
  /\ progress' = (progress \/ retired > 0 \/ other)
  /\ UNCHANGED <<pc, phase, eof, left, turn, watchdogs, results>>

OperateComponent(some) ==
  /\ Behind /\ turn \in Component
  /\ ahead' = [ahead EXCEPT ![turn] = @ + PERIOD[turn]]
  /\ progress' = (progress \/ some)
  /\ UNCHANGED <<pc, phase, eof, left, turn, cores, watchdogs, results>>

(* It has caught up with the global clock. *)
Leave ==
  /\ pc = "operate" /\ turn # NoOperable /\ ahead[turn] >= 0
  /\ turn' = NoOperable
  /\ left' = left \ {turn}
  /\ pc' = IF left' = {} THEN "read" ELSE "operate"
  /\ UNCHANGED <<phase, progress, eof, ahead, cores, watchdogs, results>>

(* The input queues are filled, but for those of the halted cores and of   *)
(* the cores whose trace ends before.                                      *)
Read(cpu, n, ends) ==
  LET room == IN_QUEUE_SIZE - input_queue[cpu]
  IN  IF halt[cpu] \/ eof[cpu] \/ room = 0 THEN n = 0 /\ ends = eof[cpu]
      ELSE n \in 1..room /\ (n < room => ends) /\ (ends => ~REPEAT)

ReadTraces(n, ends) ==
  /\ pc = "read"
  /\ \A cpu \in Cpu : Read(cpu, n[cpu], ends[cpu])
  /\ input_queue' = [cpu \in Cpu |-> input_queue[cpu] + n[cpu]]
  /\ eof' = ends
  /\ pc' = "check"
  /\ UNCHANGED <<phase, progress, clocks, in_flight, sim_instr, recent, watchdogs, results>>

(* The rest of the loop of do_phase: the watchdogs, and the end of the      *)
(* phase for the cores that have retired its length.                        *)
Stalled == IF progress THEN 0 ELSE stalled_cycle + 1
LivelockDue == livelock_timer + 1 >= LIVELOCK_PERIOD
AllLivelocked == \A cpu \in Cpu : halt[cpu] \/ recent[cpu] <= LIVELOCK_INSTR        \* mutant
Livelocked == \E cpu \in Cpu : ~halt[cpu] /\ recent[cpu] <= LIVELOCK_INSTR
Panic == Stalled >= DEADLOCK_CYCLE \/ (LivelockDue /\ Livelocked)

Abort ==
  /\ pc = "check" /\ Panic
  /\ pc' = "aborted"
  /\ UNCHANGED <<phase, progress, eof, clocks, cores, watchdogs, results>>

Completed == {cpu \in Cpu : phase_complete[cpu] \/ sim_instr[cpu] >= Length \/ \E c \in Cpu : eof[c]}
NotReportedYet(cpu) == TRUE                                    \* mutant
NewlyCompleted(cpu) == ~phase_complete[cpu]

Check ==
  /\ pc = "check" /\ ~Panic
  /\ stalled_cycle' = Stalled
  /\ livelock_timer' = IF LivelockDue THEN 0 ELSE livelock_timer + 1
  /\ recent' = IF LivelockDue THEN [cpu \in Cpu |-> IF halt[cpu] THEN recent[cpu] ELSE 0]
               ELSE recent
  /\ phase_complete' = [cpu \in Cpu |-> cpu \in Completed]
  /\ halt' = [cpu \in Cpu |-> halt[cpu] \/ (cpu \in Completed /\ Warmup)]
  /\ ended' = [cpu \in Cpu |-> IF cpu \in Completed /\ NewlyCompleted(cpu)
                               THEN Append(ended[cpu], sim_instr[cpu]) ELSE ended[cpu]]
  /\ pc' = IF Completed # Cpu THEN "tick" ELSE IF phase = Len(PHASES) THEN "done" ELSE "begin"
  /\ UNCHANGED <<phase, progress, eof, clocks, input_queue, in_flight, sim_instr>>

Next ==
  \/ BeginPhase \/ Tick
  \/ \E op \in Operable : Take(op)
  \/ \E retired, taken \in 0..WIDTH, other \in BOOLEAN : OperateCore(retired, taken, other)
  \/ \E some \in BOOLEAN : OperateComponent(some)
  \/ Leave
  \/ \E n \in [Cpu -> 0..IN_QUEUE_SIZE], ends \in [Cpu -> BOOLEAN] : ReadTraces(n, ends)
  \/ Abort \/ Check

Spec == Init /\ [][Next]_vars

(* The program runs; no component is promised to make progress.             *)
FairSpec == Spec /\ WF_vars(Next)

-----------------------------------------------------------------------------
TypeOK ==
  /\ pc \in {"begin", "tick", "operate", "read", "check", "done", "aborted"}
  /\ phase \in 0..Len(PHASES) /\ (phase = 0 => pc = "begin")
  /\ ahead \in [Operable -> Int] /\ left \subseteq Operable
  /\ turn \in left \cup {NoOperable}
  /\ input_queue \in [Cpu -> 0..IN_QUEUE_SIZE] /\ in_flight \in [Cpu -> 0..IN_FLIGHT]
  /\ sim_instr \in [Cpu -> Nat] /\ recent \in [Cpu -> 0..(LIVELOCK_INSTR + 1)]
  /\ {halt, eof, phase_complete} \subseteq [Cpu -> BOOLEAN]
  /\ stalled_cycle \in 0..(DEADLOCK_CYCLE - 1) /\ livelock_timer \in 0..(LIVELOCK_PERIOD - 1)

(* The clocks stay together: between two ticks of the global clock every    *)
(* component is at it or ahead of it, by less than a period of its own, so  *)
(* that whatever their periods and the order they are operated in none is   *)
(* a cycle behind another (operate_on, src/src/operable.cc:23).             *)
InLockstep ==
  pc # "operate" => \A op \in Operable : 0 <= ahead[op] /\ ahead[op] < PERIOD[op]

(* A component is operated once at most in a cycle of the main loop: one    *)
(* turn of the loop of operate_on always brings it up to the global clock.  *)
OperatedOnce ==
  [][\A op \in Operable : ahead'[op] > ahead[op] => ahead'[op] >= 0]_vars

(* A phase has been ended for a core once when it counts as complete, and   *)
(* never before: with the phase's length retired, or because a trace ended; *)
(* when the next one begins that holds for every core (do_phase and its     *)
(* phase_complete, src/src/champsim.cc:143-165).                            *)
EndedOnce ==
  \A cpu \in Cpu :
     /\ phase_complete[cpu] <=> Len(ended[cpu]) = 1
     /\ ~phase_complete[cpu] => ended[cpu] = <<>>
     /\ phase_complete[cpu] => ended[cpu][1] >= PHASES[phase].length \/ \E c \in Cpu : eof[c]

(* The phases follow one another in the same way for every core. *)
PhasesInStep == TypeOK /\ EndedOnce

(* The program comes to an end, or is aborted: a core that is starved while *)
(* the others go on, or a component that reports progress for ever, cannot *)
(* keep a phase from ending (the watchdogs, src/src/champsim.cc:88-140).     *)
Terminates == <>(pc \in {"done", "aborted"})
=============================================================================
