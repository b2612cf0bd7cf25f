------------------------------ MODULE PartsProofs ------------------------------
(* Proofs about the parts that Parts looks at each on its own: the main loop, *)
(* for any number of components and any periods, the reader of traces, the   *)
(* replacement policies, lru_table, the places of DRAM, and the branch target *)
(* buffer.                                                                 *)
EXTENDS Parts, SequenceTheorems, FiniteSetTheorems, WellFoundedInduction, TLAPS

(* A behaviour of the parts is one of each of them. *)
LEMMA PartsAlone ==
  PartsSpec => Spec /\ Table!Spec /\ Trace!Spec /\ Slices!Spec /\ Policies!Spec /\ Btb!Spec
<1>1. PartsInit => Init /\ Table!Init /\ Trace!Init /\ Slices!Init /\ Policies!Init /\ Btb!Init
  BY DEF PartsInit
<1>2. [PartsNext]_PartsVars => /\ [Next]_vars /\ [Table!Next]_Table!vars /\ [Trace!Next]_Trace!vars
                               /\ [Slices!Next]_slice /\ [Policies!Next]_Policies!vars /\ [Btb!Next]_Btb!vars
  <2>1. lru = Table!vars /\ trace = Trace!vars /\ policies = Policies!vars /\ btb = Btb!vars
    BY DEF lru, trace, policies, btb, Table!vars, Trace!vars, Policies!vars, Btb!vars
  <2>2. lru' = Table!vars' /\ trace' = Trace!vars' /\ policies' = Policies!vars' /\ btb' = Btb!vars'
    BY DEF lru, trace, policies, btb, Table!vars, Trace!vars, Policies!vars, Btb!vars
  <2>. QED  BY <2>1, <2>2, Zenon DEF PartsNext, PartsVars
<1>. QED  BY <1>1, <1>2, PTL DEF PartsSpec, Spec, Table!Spec, Trace!Spec, Slices!Spec, Policies!Spec, Btb!Spec

(* The global clock takes no step longer than a period of a component.      *)
LEMMA QuantumLeast ==
  Quantum \in Nat \ {0} /\ \A op \in Operable : Quantum <= PERIOD[op]
<1> DEFINE Smallest(op) == \A o \in Operable : PERIOD[op] <= PERIOD[o]
<1>1. \E op \in Operable : Smallest(op)
  BY ClockAssumption
<1>2. PICK op \in Operable : op = (CHOOSE x \in Operable : Smallest(x)) /\ Smallest(op)
  BY <1>1
<1>3. QED
  BY <1>2, ClockAssumption DEF Quantum

(* Where a clock is, by where its component is in do_cycle: operated, to be *)
(* operated, or being operated.                                            *)
CaughtUp(op) == 0 <= ahead[op] /\ ahead[op] < PERIOD[op]
Waiting(op) == -Quantum <= ahead[op] /\ ahead[op] < PERIOD[op] - Quantum
Running(op) == -Quantum <= ahead[op] /\ ahead[op] < PERIOD[op]

Clocks ==
  /\ ahead \in [Operable -> Int]
  /\ left \subseteq Operable
  /\ turn \in left \cup {NoOperable}
  /\ pc # "operate" => left = {}
  /\ \A op \in Operable : CASE op = turn -> Running(op)
                            [] op # turn /\ op \in left -> Waiting(op)
                            [] OTHER -> CaughtUp(op)

LEMMA InitClocks == Init => Clocks
<1>1. \A op \in Operable : PERIOD[op] \in Nat \ {0} /\ op # NoOperable
  BY ClockAssumption
<1>2. QED
  BY <1>1 DEF Init, Clocks, CaughtUp

LEMMA TickClocks == ASSUME Clocks, Tick PROVE Clocks'
<1>1. \A op \in Operable : PERIOD[op] \in Nat \ {0} /\ op # NoOperable
  BY ClockAssumption
<1>2. turn = NoOperable /\ left = {} /\ pc' = "operate" /\ left' = Operable /\ turn' = turn
  BY DEF Clocks, Tick
<1>3. \A op \in Operable : CaughtUp(op) /\ ahead'[op] = ahead[op] - Quantum
  BY <1>1, <1>2 DEF Clocks, Tick
<1>4. ahead' \in [Operable -> Int]
  BY QuantumLeast DEF Clocks, Tick
<1>5. \A op \in Operable : Waiting(op)'
  BY <1>1, <1>3, QuantumLeast DEF CaughtUp, Waiting, Clocks, Quantum
<1>6. QED
  BY <1>1, <1>2, <1>4, <1>5 DEF Clocks

(* An operable that is behind is one turn of the loop away from the clock.  *)
LEMMA TurnCatchesUp ==
  ASSUME Clocks, Behind, ahead' = [ahead EXCEPT ![turn] = @ + PERIOD[turn]]
  PROVE  /\ turn \in Operable
         /\ ahead' \in [Operable -> Int]
         /\ 0 <= ahead'[turn] /\ ahead'[turn] < PERIOD[turn]
         /\ \A op \in Operable : op # turn => ahead'[op] = ahead[op]
<1>1. turn \in Operable /\ PERIOD[turn] \in Nat /\ ahead[turn] \in Int /\ ahead[turn] < 0
  BY ClockAssumption DEF Clocks, Behind
<1>2. -Quantum <= ahead[turn] /\ Quantum <= PERIOD[turn] /\ Quantum \in Nat
  BY <1>1, QuantumLeast DEF Clocks, Running
<1>3. ahead'[turn] = ahead[turn] + PERIOD[turn]
  BY <1>1 DEF Clocks
<1>4. ahead' \in [Operable -> Int]
  BY <1>1 DEF Clocks
<1>5. QED
  BY <1>1, <1>2, <1>3, <1>4 DEF Clocks

LEMMA OperateClocks ==
  ASSUME Clocks, Behind, ahead' = [ahead EXCEPT ![turn] = @ + PERIOD[turn]],
         UNCHANGED <<pc, left, turn>>
  PROVE  Clocks'
<1>1. /\ turn \in Operable
      /\ ahead' \in [Operable -> Int]
      /\ 0 <= ahead'[turn] /\ ahead'[turn] < PERIOD[turn]
      /\ \A op \in Operable : op # turn => ahead'[op] = ahead[op]
  BY TurnCatchesUp
<1>2. Quantum \in Nat /\ Quantum' = Quantum
  BY QuantumLeast DEF Quantum
<1>3. Running(turn)'
  BY <1>1, <1>2 DEF Running
<1>4. \A op \in Operable : op # turn => /\ Waiting(op) => Waiting(op)'
                                        /\ CaughtUp(op) => CaughtUp(op)'
  BY <1>1, <1>2 DEF Waiting, CaughtUp
<1>5. QED
  BY <1>1, <1>3, <1>4 DEF Clocks

LEMMA TakeClocks == ASSUME Clocks, NEW op \in Operable, Take(op) PROVE Clocks'
<1>1. \A o \in Operable : PERIOD[o] \in Nat \ {0} /\ o # NoOperable
  BY ClockAssumption
<1>2. turn = NoOperable /\ op \in left /\ turn' = op /\ UNCHANGED <<pc, ahead, left>>
  BY DEF Take
<1>3. Waiting(op)
  BY <1>1, <1>2 DEF Clocks
<1>4. Running(op)
  BY <1>1, <1>3, QuantumLeast DEF Clocks, Waiting, Running
<1>5. \A o \in Operable : /\ Running(o)' <=> Running(o)
                          /\ Waiting(o)' <=> Waiting(o)
                          /\ CaughtUp(o)' <=> CaughtUp(o)
  BY <1>2 DEF Running, Waiting, CaughtUp
<1>6. QED
  BY <1>1, <1>2, <1>4, <1>5 DEF Clocks

LEMMA LeaveClocks == ASSUME Clocks, Leave PROVE Clocks'
<1>1. \A o \in Operable : PERIOD[o] \in Nat \ {0} /\ o # NoOperable
  BY ClockAssumption
<1>2. /\ turn # NoOperable /\ ahead[turn] >= 0 /\ turn' = NoOperable
      /\ left' = left \ {turn} /\ UNCHANGED ahead
      /\ pc' # "operate" => left' = {}
  BY DEF Leave
<1>3. turn \in Operable /\ CaughtUp(turn)
  BY <1>2 DEF Clocks, Running, CaughtUp
<1>4. \A o \in Operable : /\ Waiting(o)' <=> Waiting(o)
                          /\ CaughtUp(o)' <=> CaughtUp(o)
  BY <1>2 DEF Waiting, CaughtUp
<1>5. QED
  BY <1>1, <1>2, <1>3, <1>4 DEF Clocks

LEMMA RestClocks ==
  ASSUME Clocks, UNCHANGED clocks, pc' # "operate" => (pc # "operate")
  PROVE  Clocks'
BY DEF Clocks, clocks, Running, Waiting, CaughtUp

THEOREM ClocksInv == Spec => []Clocks
<1>1. Clocks /\ [Next]_vars => Clocks'
  <2> SUFFICES ASSUME Clocks, [Next]_vars PROVE Clocks'
    OBVIOUS
  <2>1. CASE BeginPhase
    BY <2>1, RestClocks DEF BeginPhase
  <2>2. CASE Tick
    BY <2>2, TickClocks
  <2>3. ASSUME NEW op \in Operable, Take(op) PROVE Clocks'
    BY <2>3, TakeClocks
  <2>4. ASSUME NEW out \in 0..WIDTH, NEW in \in 0..WIDTH, NEW other \in BOOLEAN,
               OperateCore(out, in, other)
        PROVE  Clocks'
    BY <2>4, OperateClocks DEF OperateCore
  <2>5. ASSUME NEW some \in BOOLEAN, OperateComponent(some) PROVE Clocks'
    BY <2>5, OperateClocks DEF OperateComponent
  <2>6. CASE Leave
    BY <2>6, LeaveClocks
  <2>7. ASSUME NEW n \in [Cpu -> 0..IN_QUEUE_SIZE], NEW ends \in [Cpu -> BOOLEAN],
               ReadTraces(n, ends)
        PROVE  Clocks'
    BY <2>7, RestClocks DEF ReadTraces
  <2>8. CASE Abort
    BY <2>8, RestClocks DEF Abort
  <2>9. CASE Check
    BY <2>9, RestClocks DEF Check
  <2>10. CASE UNCHANGED vars
    BY <2>10, RestClocks DEF vars, clocks
  <2>11. QED
    BY <2>1, <2>2, <2>3, <2>4, <2>5, <2>6, <2>7, <2>8, <2>9, <2>10 DEF Next
<1>2. QED
  BY <1>1, InitClocks, PTL DEF Spec

(* Between two ticks of the global clock every component is at it, or ahead *)
(* of it by less than a period of its own, whatever the periods are: a long *)
(* simulation never lets a component fall a cycle behind (operate_on).      *)
THEOREM ComponentsInLockstep == Spec => []InLockstep
<1>1. Clocks => InLockstep
  <2> SUFFICES ASSUME Clocks, pc # "operate", NEW op \in Operable
               PROVE  0 <= ahead[op] /\ ahead[op] < PERIOD[op]
    BY DEF InLockstep
  <2>1. op # turn /\ op \notin left
    BY ClockAssumption DEF Clocks
  <2>2. QED
    BY <2>1 DEF Clocks, CaughtUp
<1>2. QED
  BY <1>1, ClocksInv, PTL

(* A component is operated once at most in a cycle of the main loop: one    *)
(* turn of the loop of operate_on always brings it up to the global clock.  *)
THEOREM ComponentsOperatedOnce == Spec => OperatedOnce
<1>1. Clocks /\ [Next]_vars =>
        [\A op \in Operable : ahead'[op] > ahead[op] => ahead'[op] >= 0]_vars
  <2> SUFFICES ASSUME Clocks, Next, NEW op \in Operable, ahead'[op] > ahead[op]
               PROVE  ahead'[op] >= 0
    BY DEF vars
  <2>1. PERIOD[op] \in Nat /\ ahead[op] \in Int
    BY ClockAssumption DEF Clocks
  <2>2. CASE ahead' = ahead
    BY <2>1, <2>2
  <2>3. CASE Tick
    <3>1. ahead'[op] = ahead[op] - Quantum /\ Quantum \in Nat
      BY <2>3, QuantumLeast DEF Tick
    <3>2. QED
      BY <2>1, <3>1
  <2>4. CASE Behind /\ ahead' = [ahead EXCEPT ![turn] = @ + PERIOD[turn]]
    <3>1. 0 <= ahead'[turn] /\ (op # turn => ahead'[op] = ahead[op])
      BY <2>4, TurnCatchesUp
    <3>2. QED
      BY <2>1, <3>1
  <2>5. QED
    BY <2>2, <2>3, <2>4
    DEF Next, BeginPhase, Take, OperateCore, OperateComponent, Leave, ReadTraces, Abort, Check, clocks
<1>2. QED
  BY <1>1, ClocksInv, PTL DEF Spec, OperatedOnce
-----------------------------------------------------------------------------
(* The ends of the phases.                                                 *)

(* The types of the cores' state and of the watchdogs, and what the phase is *)
(* in which they are.                                                      *)
Phases ==
  /\ pc \in {"begin", "tick", "operate", "read", "check", "done", "aborted"}
  /\ phase \in 0..Len(PHASES)
  /\ phase = 0 => pc = "begin"
  /\ pc = "begin" => phase < Len(PHASES)
Queues ==
  /\ input_queue \in [Cpu -> 0..IN_QUEUE_SIZE] /\ in_flight \in [Cpu -> 0..IN_FLIGHT]
  /\ sim_instr \in [Cpu -> Nat] /\ recent \in [Cpu -> 0..(LIVELOCK_INSTR + 1)]
Watchdogs ==
  /\ stalled_cycle \in 0..(DEADLOCK_CYCLE - 1) /\ livelock_timer \in 0..(LIVELOCK_PERIOD - 1)
Flags ==
  /\ halt \in [Cpu -> BOOLEAN] /\ eof \in [Cpu -> BOOLEAN]
  /\ phase_complete \in [Cpu -> BOOLEAN] /\ ended \in [Cpu -> Seq(Nat)]

PhaseInv == Clocks /\ Phases /\ Queues /\ Watchdogs /\ Flags /\ EndedOnce

LEMMA InitPhaseInv == Init => PhaseInv
<1> SUFFICES ASSUME Init PROVE PhaseInv
  OBVIOUS
<1>1. Clocks
  BY InitClocks
<1>2. Phases
  BY PhaseAssumption DEF Init, Phases
<1>3. Queues /\ Watchdogs
  BY BoundAssumption DEF Init, Queues, Watchdogs
<1>4. Flags
  BY DEF Init, Flags
<1>5. EndedOnce
  BY DEF Init, EndedOnce
<1>6. QED
  BY <1>1, <1>2, <1>3, <1>4, <1>5 DEF PhaseInv

LEMMA BeginPhasePhaseInv == ASSUME PhaseInv, BeginPhase PROVE Phases' /\ Queues' /\ Watchdogs' /\ Flags' /\ EndedOnce'
<1>1. Phases'
  BY PhaseAssumption DEF PhaseInv, Phases, BeginPhase
<1>2. Queues' /\ Watchdogs'
  BY BoundAssumption DEF PhaseInv, Queues, Watchdogs, BeginPhase
<1>3. Flags'
  BY DEF PhaseInv, Flags, BeginPhase, Released
<1>4. EndedOnce'
  BY DEF EndedOnce, BeginPhase
<1>5. QED
  BY <1>1, <1>2, <1>3, <1>4

LEMMA PhaseLength ==
  ASSUME phase \in 1..Len(PHASES)
  PROVE  Length \in Nat
<1>1. PHASES[phase] \in [warmup : BOOLEAN, length : Nat]
  BY PhaseAssumption, ElementOfSeq
<1>2. QED
  BY <1>1 DEF Length

LEMMA OperateCorePhaseInv ==
  ASSUME PhaseInv, NEW out \in 0..WIDTH, NEW in \in 0..WIDTH, NEW other \in BOOLEAN,
         OperateCore(out, in, other)
  PROVE  Phases' /\ Queues' /\ Watchdogs' /\ Flags' /\ EndedOnce'
<1>1. /\ turn \in Cpu /\ input_queue[turn] \in 0..IN_QUEUE_SIZE /\ in_flight[turn] \in 0..IN_FLIGHT
      /\ sim_instr[turn] \in Nat /\ recent[turn] \in 0..(LIVELOCK_INSTR + 1)
      /\ WIDTH \in Nat /\ IN_FLIGHT \in Nat /\ IN_QUEUE_SIZE \in Nat /\ LIVELOCK_INSTR \in Nat
      /\ out \in Nat /\ in \in Nat
  BY BoundAssumption DEF OperateCore, PhaseInv, Queues
<1>2. in <= input_queue[turn] /\ out <= in_flight[turn]
  BY <1>1 DEF OperateCore, Least
<1>3. Length \in Nat
  <2>1. phase \in 1..Len(PHASES)
    BY DEF OperateCore, Behind, PhaseInv, Phases
  <2>2. QED
    BY <2>1, PhaseLength
<1>4. /\ input_queue[turn] - in \in 0..IN_QUEUE_SIZE
      /\ in_flight[turn] - out + in \in 0..IN_FLIGHT
      /\ Least(sim_instr[turn] + out, Length) \in Nat
      /\ Least(recent[turn] + out, LIVELOCK_INSTR + 1) \in 0..(LIVELOCK_INSTR + 1)
  <2>1. in_flight[turn] - out + in <= IN_FLIGHT
    BY DEF OperateCore
  <2>2. input_queue[turn] - in \in 0..IN_QUEUE_SIZE /\ in_flight[turn] - out + in \in 0..IN_FLIGHT
    BY <1>1, <1>2, <2>1
  <2>3. Least(sim_instr[turn] + out, Length) \in Nat
    BY <1>1, <1>3 DEF Least
  <2>4. Least(recent[turn] + out, LIVELOCK_INSTR + 1) \in 0..(LIVELOCK_INSTR + 1)
    BY <1>1 DEF Least
  <2>5. QED
    BY <2>2, <2>3, <2>4
<1>5. Queues'
  BY <1>1, <1>4 DEF OperateCore, PhaseInv, Queues
<1>6. Phases' /\ Watchdogs' /\ Flags' /\ EndedOnce'
  BY DEF OperateCore, PhaseInv, Phases, Watchdogs, Flags, EndedOnce, watchdogs, results
<1>7. QED
  BY <1>5, <1>6

LEMMA ReadTracesPhaseInv ==
  ASSUME PhaseInv, NEW n \in [Cpu -> 0..IN_QUEUE_SIZE], NEW ends \in [Cpu -> BOOLEAN],
         ReadTraces(n, ends)
  PROVE  Phases' /\ Queues' /\ Watchdogs' /\ Flags' /\ EndedOnce'
<1>1. \A cpu \in Cpu : input_queue[cpu] + n[cpu] \in 0..IN_QUEUE_SIZE /\ (eof[cpu] => ends[cpu])
  <2> SUFFICES ASSUME NEW cpu \in Cpu
               PROVE  input_queue[cpu] + n[cpu] \in 0..IN_QUEUE_SIZE /\ (eof[cpu] => ends[cpu])
    OBVIOUS
  <2>1. /\ input_queue[cpu] \in 0..IN_QUEUE_SIZE /\ IN_QUEUE_SIZE \in Nat /\ n[cpu] \in Nat
        /\ Read(cpu, n[cpu], ends[cpu])
    BY BoundAssumption DEF ReadTraces, PhaseInv, Queues
  <2>2. QED
    BY <2>1 DEF Read
<1>2. Queues'
  BY <1>1 DEF ReadTraces, PhaseInv, Queues
<1>3. Phases' /\ Watchdogs' /\ Flags'
  BY DEF ReadTraces, PhaseInv, Phases, Watchdogs, Flags, watchdogs, results
<1>4. EndedOnce'
  BY <1>1 DEF ReadTraces, PhaseInv, EndedOnce, results, Flags
<1>5. QED
  BY <1>2, <1>3, <1>4

LEMMA CheckPhaseInv ==
  ASSUME PhaseInv, Check
  PROVE  Phases' /\ Queues' /\ Watchdogs' /\ Flags' /\ EndedOnce'
<1>1. phase \in 1..Len(PHASES) /\ Length \in Nat
  <2>1. phase \in 1..Len(PHASES)
    BY DEF Check, PhaseInv, Phases
  <2>2. QED
    BY <2>1, PhaseLength
<1>2. Phases'
  BY <1>1 DEF Check, PhaseInv, Phases
<1>3. Watchdogs'
  BY SMTT(30), BoundAssumption DEF Check, PhaseInv, Watchdogs, Panic, Stalled, LivelockDue
<1>4. Queues'
  <2>1. [cpu \in Cpu |-> IF halt[cpu] THEN recent[cpu] ELSE 0] \in [Cpu -> 0..(LIVELOCK_INSTR + 1)]
    BY BoundAssumption DEF PhaseInv, Queues
  <2>2. QED
    BY <2>1 DEF Check, PhaseInv, Queues
<1>5. Flags'
  BY DEF Check, PhaseInv, Flags, Queues
<1>6. EndedOnce'
  <2> SUFFICES ASSUME NEW cpu \in Cpu
               PROVE  /\ phase_complete'[cpu] <=> Len(ended'[cpu]) = 1
                      /\ ~phase_complete'[cpu] => ended'[cpu] = <<>>
                      /\ phase_complete'[cpu] => \/ ended'[cpu][1] >= PHASES[phase].length
                                                \/ \E c \in Cpu : eof[c]
    BY DEF EndedOnce, Check
  <2>1. /\ phase_complete[cpu] <=> Len(ended[cpu]) = 1
        /\ ~phase_complete[cpu] => ended[cpu] = <<>>
        /\ phase_complete[cpu] => ended[cpu][1] >= PHASES[phase].length \/ \E c \in Cpu : eof[c]
    BY DEF PhaseInv, EndedOnce
  <2>2. /\ phase_complete'[cpu] = (cpu \in Completed)
        /\ ended'[cpu] = IF cpu \in Completed /\ ~phase_complete[cpu]
                         THEN Append(ended[cpu], sim_instr[cpu]) ELSE ended[cpu]
    BY DEF Check, NewlyCompleted
  <2>3. CASE phase_complete[cpu]
    <3>1. cpu \in Completed
      BY <2>3 DEF Completed
    <3>2. QED
      BY <2>1, <2>2, <2>3, <3>1
  <2>4. CASE ~phase_complete[cpu] /\ cpu \in Completed
    <3>1. sim_instr[cpu] >= PHASES[phase].length \/ \E c \in Cpu : eof[c]
      BY <2>4 DEF Completed, Length
    <3>2. Len(ended'[cpu]) = 1 /\ ended'[cpu][1] = sim_instr[cpu]
      <4>1. ended[cpu] \in Seq(Nat) /\ Len(ended[cpu]) = 0 /\ sim_instr[cpu] \in Nat
        BY <2>1, <2>4 DEF PhaseInv, Flags, Queues
      <4>2. QED
        BY <4>1, <2>2, <2>4
    <3>3. QED
      BY <2>2, <2>4, <3>1, <3>2
  <2>5. CASE ~phase_complete[cpu] /\ cpu \notin Completed
    BY <2>1, <2>2, <2>5
  <2>6. QED
    BY <2>3, <2>4, <2>5
<1>7. QED
  BY <1>2, <1>3, <1>4, <1>5, <1>6

THEOREM PhaseInvHolds == Spec => []PhaseInv
<1>1. PhaseInv /\ Clocks' /\ [Next]_vars => PhaseInv'
  <2> SUFFICES ASSUME PhaseInv, Clocks', [Next]_vars
               PROVE  Phases' /\ Queues' /\ Watchdogs' /\ Flags' /\ EndedOnce'
    BY DEF PhaseInv
  <2> DEFINE Goal == Phases' /\ Queues' /\ Watchdogs' /\ Flags' /\ EndedOnce'
  <2>1. CASE BeginPhase
    BY <2>1, BeginPhasePhaseInv
  <2>2. ASSUME NEW out \in 0..WIDTH, NEW in \in 0..WIDTH, NEW other \in BOOLEAN,
               OperateCore(out, in, other)
        PROVE  Goal
    BY <2>2, OperateCorePhaseInv
  <2>3. ASSUME NEW n \in [Cpu -> 0..IN_QUEUE_SIZE], NEW ends \in [Cpu -> BOOLEAN],
               ReadTraces(n, ends)
        PROVE  Goal
    BY <2>3, ReadTracesPhaseInv
  <2>4. CASE Check
    BY <2>4, CheckPhaseInv
  <2>5. ASSUME UNCHANGED <<phase, eof, cores, watchdogs, results>>,
               pc' = pc \/ (pc' \in {"operate", "read", "check", "aborted"} /\ phase # 0)
        PROVE  Goal
    <3>1. Phases'
      BY <2>5 DEF PhaseInv, Phases
    <3>2. Queues' /\ Watchdogs' /\ Flags' /\ EndedOnce'
      BY <2>5 DEF PhaseInv, Queues, Watchdogs, Flags, EndedOnce, cores, watchdogs, results
    <3>3. QED
      BY <3>1, <3>2
  <2>6. phase = 0 => pc = "begin"
    BY DEF PhaseInv, Phases
  <2>7. CASE Tick \/ Leave \/ Abort
    BY <2>5, <2>6, <2>7 DEF Tick, Leave, Abort
  <2>8. ASSUME NEW op \in Operable, Take(op) PROVE Goal
    BY <2>5, <2>8 DEF Take
  <2>9. ASSUME NEW some \in BOOLEAN, OperateComponent(some) PROVE Goal
    BY <2>5, <2>9 DEF OperateComponent
  <2>10. CASE UNCHANGED vars
    BY <2>5, <2>10 DEF vars, clocks, cores, watchdogs, results
  <2>11. QED
    BY <2>1, <2>2, <2>3, <2>4, <2>7, <2>8, <2>9, <2>10 DEF Next
<1>2. QED
  BY <1>1, InitPhaseInv, ClocksInv, PTL DEF Spec

(* A phase is ended once for every core, never before its length is retired  *)
(* or a trace has ended, whatever the cores retire in which cycle, and the   *)
(* queues and the watchdogs keep their bounds (do_phase).                   *)
THEOREM PhasesEndedOnce == Spec => []PhasesInStep
<1>1. PhaseInv => PhasesInStep
  BY DEF PhaseInv, Clocks, Phases, Queues, Watchdogs, Flags, PhasesInStep, TypeOK
<1>2. QED
  BY <1>1, PhaseInvHolds, PTL

-----------------------------------------------------------------------------
(* Reading a trace (TraceReader), for files and blocks of every size and    *)
(* any number of passes.                                                   *)
(* More is read at once than what has to stay in the buffer, as READ_SIZE is *)
(* 127 (inc/tracereader.h): a block of one record has no next one.         *)
ReadAssumption == READ_SIZE \in Nat /\ READ_SIZE > 1 /\ MAX_LENGTH \in Nat /\ MAX_PASSES \in Nat

TraceRecord == [n : Nat, target : Nat]
TargetOf(n, branches) == IF n \in branches THEN n + 1 ELSE 0

(* A buffer that holds the records that come after record m, each but the   *)
(* last with its target.                                                   *)
Follows(buffer, m, branches) ==
  /\ buffer \in Seq(TraceRecord)
  /\ \A i \in 1 .. Len(buffer) :
       /\ buffer[i].n = m + i
       /\ buffer[i].target = IF i = Len(buffer) THEN 0 ELSE TargetOf(m + i, branches)

TraceTyped ==
  /\ length \in Nat \ {0} /\ taken \in SUBSET (1 .. length)
  /\ position \in 0 .. length /\ file_eof \in BOOLEAN /\ passes \in Nat \ {0}
  /\ retval \in [n : Nat, target : Nat, pass : Nat]

(* The buffer holds what lies between the record that was returned last and *)
(* the place in the file.                                                  *)
Begun ==
  \/ retval.pass = passes
  \/ retval.pass = 0 /\ passes = 1 /\ retval.n = 0

TraceInv ==
  /\ TraceTyped /\ Begun
  /\ Follows(instr_buffer, retval.n, taken) /\ retval.n + Len(instr_buffer) = position
  /\ file_eof => position = length

LEMMA TraceInit == Trace!Init => TraceInv
<1>. SUFFICES ASSUME Trace!Init PROVE TraceInv
  OBVIOUS
<1>1. instr_buffer = <<>> /\ retval = [n |-> 0, target |-> 0, pass |-> 0] /\ passes = 1
      /\ position = 0 /\ file_eof = FALSE
  BY DEF Trace!Init, Trace!Nothing
<1>2. length \in Nat \ {0} /\ taken \in SUBSET (1 .. length)
  BY DEF Trace!Init
<1>3. <<>> \in Seq(TraceRecord) /\ Len(<<>>) = 0
  BY EmptySeq
<1>4. TraceTyped /\ Begun
  <2>0. \A l \in Nat : 0 \in 0 .. l
    OBVIOUS
  <2>1. position \in 0 .. length
    BY <1>1, <1>2, <2>0, Zenon
  <2>3. passes \in Nat \ {0}
    BY <1>1
  <2>4. file_eof \in BOOLEAN
    BY <1>1, Zenon
  <2>2. retval \in [n : Nat, target : Nat, pass : Nat] /\ retval.pass = 0 /\ retval.n = 0
    BY <1>1
  <2>. QED  BY <1>1, <1>2, <2>1, <2>2, <2>3, <2>4 DEF TraceTyped, Begun
<1>5. retval.n = 0 /\ Len(instr_buffer) = 0 /\ instr_buffer \in Seq(TraceRecord)
  BY <1>1, <1>3
<1>6. Follows(instr_buffer, retval.n, taken)
  BY <1>5 DEF Follows
<1>7. retval.n + Len(instr_buffer) = position
  BY <1>1, <1>5
<1>. QED  BY <1>1, <1>4, <1>6, <1>7 DEF TraceInv

LEMMA LastRecord ==
  \A r, m, to, l, b, n \in Nat :
     /\ r > 1 /\ l = b + n /\ l = 1 => n < r
     /\ m + l = to /\ (l = 1 => to = r) /\ m + 1 < r => l # 1
  OBVIOUS

(* The buffer once a block has been added to it.                           *)
LEMMA JoinedFollows ==
  ASSUME TraceTyped, NEW m \in Nat, NEW buffer, Follows(buffer, m, taken), NEW n \in Nat
  PROVE  LET s == Trace!Joined(buffer, [i \in 1 .. n |-> Trace!Record(m + Len(buffer) + i)])
         IN  Follows(s, m, taken) /\ Len(s) = Len(buffer) + n
<1>. DEFINE k == Len(buffer)
            new == [i \in 1 .. n |-> Trace!Record(m + k + i)]
            both == buffer \o new
            T(i) == IF i = Len(both) THEN both[i]
                    ELSE [both[i] EXCEPT !.target = IF both[i].n \in taken THEN both[i + 1].n ELSE 0]
            s == [i \in DOMAIN both |-> T(i)]
<1>1. buffer \in Seq(TraceRecord) /\ k \in Nat /\ \A i \in 1 .. k : buffer[i] \in TraceRecord
  BY LenProperties, ElementOfSeq DEF Follows
<1>2. new \in [1 .. n -> TraceRecord] /\ \A i \in 1 .. n : new[i].n = m + k + i /\ new[i].target = 0
  BY <1>1 DEF Trace!Record, TraceRecord
<1>3. new \in Seq(TraceRecord) /\ Len(new) = n
  <2>. HIDE DEF new
  <2>1. new \in Seq(TraceRecord)
    BY <1>2, SeqDef
  <2>. QED  BY <1>2, <2>1, LenProperties
<1>. HIDE DEF new, k
<1>4. /\ both \in Seq(TraceRecord) /\ Len(both) = k + n
      /\ \A i \in 1 .. k + n : both[i] = IF i <= k THEN buffer[i] ELSE new[i - k]
  BY <1>1, <1>3, ConcatProperties DEF k
<1>5. \A i \in 1 .. k + n : both[i] \in TraceRecord /\ both[i].n = m + i
                           /\ (i = k + n => both[i].target = 0)
  <2>. SUFFICES ASSUME NEW i \in 1 .. k + n
                PROVE  both[i] \in TraceRecord /\ both[i].n = m + i /\ (i = k + n => both[i].target = 0)
    OBVIOUS
  <2>. HIDE DEF both
  <2>1. CASE i <= k
    <3>1. i \in 1 .. k
      BY <1>1, <2>1
    <3>. QED  BY <1>1, <1>4, <2>1, <3>1 DEF Follows, k
  <2>2. CASE i > k
    <3>1. i - k \in 1 .. n /\ m + k + (i - k) = m + i
      BY <1>1, <2>2
    <3>2. both[i] = new[i - k]
      BY <1>1, <1>4, <2>2
    <3>. QED  BY <1>2, <3>1, <3>2
  <2>. QED  BY <1>1, <2>1, <2>2
<1>6. DOMAIN both = 1 .. k + n
  BY <1>4, LenProperties
<1>. HIDE DEF both
<1>7. \A i \in 1 .. k + n : T(i) \in TraceRecord /\ T(i).n = m + i
                           /\ T(i).target = IF i = k + n THEN 0 ELSE TargetOf(m + i, taken)
  <2>. SUFFICES ASSUME NEW i \in 1 .. k + n
                PROVE  T(i) \in TraceRecord /\ T(i).n = m + i
                       /\ T(i).target = IF i = k + n THEN 0 ELSE TargetOf(m + i, taken)
    OBVIOUS
  <2>1. CASE i = k + n
    <3>1. T(i) = both[i]
      BY <1>4, <2>1
    <3>. HIDE DEF T
    <3>. QED  BY <1>5, <2>1, <3>1
  <2>2. CASE i # k + n
    <3>1. i + 1 \in 1 .. k + n
      BY <1>1, <2>2
    <3>2. both[i] \in TraceRecord /\ both[i].n = m + i /\ both[i + 1].n = m + i + 1
      BY <1>5, <3>1
    <3>3. T(i) = [both[i] EXCEPT !.target = IF both[i].n \in taken THEN both[i + 1].n ELSE 0]
      BY <1>4, <2>2
    <3>4. T(i) = [both[i] EXCEPT !.target = TargetOf(m + i, taken)]
      BY <3>2, <3>3 DEF TargetOf
    <3>. HIDE DEF T
    <3>5. TargetOf(m + i, taken) \in Nat
      BY DEF TargetOf
    <3>6. \A r \in TraceRecord, t \in Nat : /\ [r EXCEPT !.target = t] \in TraceRecord
                                          /\ [r EXCEPT !.target = t].n = r.n
                                          /\ [r EXCEPT !.target = t].target = t
      BY DEF TraceRecord
    <3>. QED  BY <2>2, <3>2, <3>4, <3>5, <3>6
  <2>. QED  BY <2>1, <2>2
<1>8. s = [i \in 1 .. k + n |-> T(i)]
  BY <1>6
<1>. HIDE DEF T, s
<1>9. s \in [1 .. k + n -> TraceRecord] /\ \A i \in 1 .. k + n : s[i] = T(i)
  BY <1>7, <1>8
<1>10. s \in Seq(TraceRecord) /\ Len(s) = k + n
  <2>1. k + n \in Nat
    BY <1>1
  <2>2. s \in Seq(TraceRecord)
    BY <1>9, <2>1, SeqDef
  <2>. QED  BY <1>9, <2>1, <2>2, LenProperties
<1>11. Follows(s, m, taken)
  BY <1>7, <1>9, <1>10 DEF Follows
<1>12. s = Trace!Joined(buffer, new)
  BY DEF Trace!Joined, Trace!WithTargets, s, T, both
<1>. QED  BY <1>10, <1>11, <1>12 DEF new, k

(* One call of the reader, from a buffer that follows record m and a file   *)
(* read to its end.                                                        *)
LEMMA DeliveredIs ==
  ASSUME ReadAssumption, TraceTyped, NEW m \in Nat, NEW buffer, Follows(buffer, m, taken),
         NEW at \in 0 .. length, m + Len(buffer) = at, NEW over \in BOOLEAN, over => at = length,
         NEW pass \in Nat \ {0}, Trace!Delivered(buffer, at, over, pass),
         UNCHANGED <<length, taken, repeat>>
  PROVE  /\ TraceInv'
         /\ retval'.n = m + 1 /\ retval'.pass = pass
         /\ retval'.target = IF retval'.n < length THEN TargetOf(m + 1, taken) ELSE retval'.target
         /\ retval'.n \notin taken => retval'.target = 0
<1>. DEFINE n == IF at + READ_SIZE <= length THEN READ_SIZE ELSE length - at
            new == [i \in 1 .. n |-> Trace!Record(at + i)]
            refilled == Trace!Joined(buffer, new)
            refill == Len(buffer) <= 1
            from == IF refill THEN refilled ELSE buffer
            to == IF refill THEN at + n ELSE at
<1>1. /\ from # <<>> /\ position' = to
      /\ file_eof' = (over \/ (refill /\ n < READ_SIZE))
      /\ retval' = [n |-> Head(from).n, target |-> Head(from).target, pass |-> pass]
      /\ instr_buffer' = Tail(from) /\ passes' = pass
  BY DEF Trace!Delivered, Trace!refresh_thresh
<1>2. /\ n \in Nat /\ at + n <= length /\ at \in Nat /\ length \in Nat
      /\ (n < READ_SIZE => at + n = length)
  BY DEF ReadAssumption, TraceTyped
<1>3. buffer \in Seq(TraceRecord) /\ Len(buffer) \in Nat
  BY LenProperties DEF Follows
<1>4. Follows(refilled, m, taken) /\ Len(refilled) = Len(buffer) + n
  <2>. HIDE DEF n
  <2>. QED  BY <1>2, JoinedFollows
<1>. HIDE DEF refilled, new
<1>5. /\ Follows(from, m, taken) /\ m + Len(from) = to /\ to \in 0 .. length
      /\ file_eof' \in BOOLEAN /\ (file_eof' => to = length)
  <2>1. CASE refill
    <3>1. from = refilled /\ to = at + n
      BY <2>1
    <3>2. file_eof' \in BOOLEAN /\ (file_eof' => over \/ n < READ_SIZE)
      BY <1>1
    <3>3. over => at + n = length
      BY <1>2
    <3>. HIDE DEF from, to, refill, n
    <3>. QED  BY <1>2, <1>3, <1>4, <3>1, <3>2, <3>3
  <2>2. CASE ~refill
    <3>1. from = buffer /\ to = at /\ (file_eof' <=> over) /\ file_eof' \in BOOLEAN
      BY <1>1, <2>2
    <3>. HIDE DEF from, to, refill, n
    <3>. QED  BY <1>2, <3>1
  <2>. QED  BY <2>1, <2>2
<1>6. Len(from) = 1 => to = length
  <2>1. CASE refill
    <3>1. from = refilled /\ to = at + n
      BY <2>1
    <3>. HIDE DEF from, to, refill, n
    <3>2. Len(from) = Len(buffer) + n /\ READ_SIZE \in Nat /\ READ_SIZE > 1
      BY <1>4, <3>1 DEF ReadAssumption
    <3>3. n \in Nat /\ Len(buffer) \in Nat /\ Len(from) \in Nat
      BY <1>2, <1>3, <3>2
    <3>4. Len(from) = 1 => n < READ_SIZE
      BY <3>2, <3>3, LastRecord
    <3>. QED  BY <1>2, <3>1, <3>4
  <2>2. CASE ~refill
    <3>1. from = buffer
      BY <2>2
    <3>. HIDE DEF from
    <3>. QED  BY <2>2, <3>1
  <2>. QED  BY <2>1, <2>2
<1>. HIDE DEF from, to, refill, n
<1>7. /\ from \in Seq(TraceRecord) /\ Len(from) \in Nat /\ Len(from) # 0 /\ 1 \in 1 .. Len(from)
      /\ Head(from) = from[1] /\ from[1] \in TraceRecord
      /\ Tail(from) \in Seq(TraceRecord) /\ Len(Tail(from)) = Len(from) - 1
      /\ \A i \in 1 .. Len(from) - 1 : i + 1 \in 1 .. Len(from) /\ Tail(from)[i] = from[i + 1]
  <2>1. from \in Seq(TraceRecord) /\ Len(from) \in Nat /\ Len(from) # 0
    BY <1>1, <1>5, LenProperties, EmptySeq DEF Follows
  <2>2. /\ Head(from) = from[1] /\ Tail(from) \in Seq(TraceRecord) /\ Len(Tail(from)) = Len(from) - 1
        /\ \A i \in 1 .. Len(Tail(from)) : Tail(from)[i] = from[i + 1]
    BY <1>1, <2>1, HeadTailProperties
  <2>. QED  BY <2>1, <2>2, ElementOfSeq
<1>8. /\ retval'.n = m + 1 /\ retval'.pass = pass
      /\ retval'.target = IF Len(from) = 1 THEN 0 ELSE TargetOf(m + 1, taken)
      /\ retval' \in [n : Nat, target : Nat, pass : Nat]
  BY <1>1, <1>5, <1>7 DEF Follows, TraceRecord
<1>9. taken' = taken /\ length' = length /\ repeat' = repeat
  OBVIOUS
<1>10. Follows(instr_buffer, retval.n, taken)'
  <2>1. ASSUME NEW i \in 1 .. Len(from) - 1
        PROVE  /\ Tail(from)[i].n = m + 1 + i
               /\ Tail(from)[i].target = IF i = Len(from) - 1 THEN 0 ELSE TargetOf(m + 1 + i, taken)
    <3>0. i + 1 \in 1 .. Len(from) /\ Tail(from)[i] = from[i + 1]
      BY <1>7, Zenon
    <3>1. m + (i + 1) = m + 1 + i /\ (i + 1 = Len(from) <=> i = Len(from) - 1)
      <4>1. \A l, j \in Nat : m + (j + 1) = m + 1 + j /\ (j + 1 = l <=> j = l - 1)
        OBVIOUS
      <4>2. Len(from) \in Nat /\ i \in Nat
        BY <1>7
      <4>. QED  BY <4>1, <4>2
    <3>2. /\ from[i + 1].n = m + (i + 1)
          /\ from[i + 1].target = IF i + 1 = Len(from) THEN 0 ELSE TargetOf(m + (i + 1), taken)
      BY <1>5, <3>0, Zenon DEF Follows
    <3>. QED  BY <3>0, <3>1, <3>2, Zenon
  <2>2. Follows(Tail(from), m + 1, taken)
    <3>1. m + 1 \in Nat
      OBVIOUS
    <3>. QED  BY <1>7, <2>1, <3>1, Zenon DEF Follows
  <2>. QED  BY <1>1, <1>8, <1>9, <2>2, Zenon
<1>11. retval'.n + Len(instr_buffer') = position' /\ position' \in 0 .. length
  BY <1>1, <1>5, <1>7, <1>8
<1>12. TraceTyped' /\ Begun'
  BY <1>1, <1>5, <1>8, <1>9, <1>11 DEF TraceTyped, Begun
<1>13. TraceInv'
  BY <1>1, <1>5, <1>10, <1>11, <1>12 DEF TraceInv
<1>14. retval'.n < length => Len(from) # 1
  <2>1. m + Len(from) = to /\ (Len(from) = 1 => to = length) /\ retval'.n = m + 1
    BY <1>5, <1>6, <1>8
  <2>2. m \in Nat /\ Len(from) \in Nat /\ to \in Nat /\ length \in Nat
    BY <1>2, <1>5, <1>7
  <2>. QED  BY <2>1, <2>2, LastRecord
<1>15. retval'.n \notin taken => retval'.target = 0
  BY <1>8 DEF TargetOf
<1>. QED  BY <1>8, <1>13, <1>14, <1>15

(* What ReadInOrder says of one step. *)
InOrder ==
  /\ retval'.n = IF retval'.pass = retval.pass THEN retval.n + 1 ELSE 1
  /\ retval'.pass # retval.pass => retval.n \in {0, length - 1, length}
  /\ retval'.n \in taken /\ retval'.n < length => retval'.target = retval'.n + 1
  /\ retval'.n \notin taken => retval'.target = 0

LEMMA ReadStep ==
  ASSUME ReadAssumption, TraceInv, Trace!Read
  PROVE  TraceInv' /\ InOrder
<1>1. Trace!Delivered(instr_buffer, position, file_eof, passes) /\ UNCHANGED <<length, taken, repeat>>
  BY DEF Trace!Read
<1>2. /\ TraceTyped /\ Follows(instr_buffer, retval.n, taken) /\ retval.n + Len(instr_buffer) = position
      /\ (file_eof => position = length) /\ Begun
      /\ retval.n \in Nat /\ position \in 0 .. length /\ file_eof \in BOOLEAN /\ passes \in Nat \ {0}
  BY DEF TraceInv, TraceTyped
<1>3. /\ TraceInv' /\ retval'.n = retval.n + 1 /\ retval'.pass = passes
      /\ retval'.target = IF retval'.n < length THEN TargetOf(retval.n + 1, taken) ELSE retval'.target
      /\ retval'.n \notin taken => retval'.target = 0
  BY <1>1, <1>2, DeliveredIs
<1>. QED  BY <1>2, <1>3 DEF InOrder, Begun, TargetOf

LEMMA ReopenStep ==
  ASSUME ReadAssumption, TraceInv, Trace!Reopen
  PROVE  TraceInv' /\ InOrder
<1>1. /\ Trace!Delivered(<<>>, 0, FALSE, passes + 1) /\ UNCHANGED <<length, taken, repeat>>
      /\ file_eof /\ Len(instr_buffer) <= 1
  BY DEF Trace!Reopen, Trace!eof, Trace!refresh_thresh
<1>2. TraceTyped /\ length \in Nat /\ passes \in Nat \ {0} /\ retval.n \in Nat /\ Len(instr_buffer) \in Nat
      /\ retval.n + Len(instr_buffer) = length /\ Begun
  BY <1>1, LenProperties DEF TraceInv, TraceTyped, Follows
<1>3. Follows(<<>>, 0, taken) /\ Len(<<>>) = 0
  BY EmptySeq DEF Follows
<1>4. /\ TraceInv' /\ retval'.n = 0 + 1 /\ retval'.pass = passes + 1
      /\ retval'.target = IF retval'.n < length THEN TargetOf(0 + 1, taken) ELSE retval'.target
      /\ retval'.n \notin taken => retval'.target = 0
  <2>1. 0 \in Nat /\ 0 \in 0 .. length /\ FALSE \in BOOLEAN /\ passes + 1 \in Nat \ {0} /\ 0 + Len(<<>>) = 0
    BY <1>2, <1>3
  <2>2. PICK b, e : b = <<>> /\ e = FALSE
    OBVIOUS
  <2>3. /\ Trace!Delivered(b, 0, e, passes + 1) /\ Follows(b, 0, taken) /\ 0 + Len(b) = 0
        /\ e \in BOOLEAN /\ (e => 0 = length)
    BY <1>1, <1>3, <2>1, <2>2
  <2>. QED  BY <1>1, <1>2, <2>1, <2>3, DeliveredIs
<1>5. retval.n \in {length - 1, length}
  BY <1>1, <1>2
<1>6. retval'.pass # retval.pass
  BY <1>2, <1>4 DEF Begun
<1>. QED  BY <1>4, <1>5, <1>6 DEF InOrder, TargetOf

LEMMA ReadsInOrder == ReadAssumption => (Trace!Spec => Trace!ReadInOrder)
<1>. SUFFICES ASSUME ReadAssumption PROVE Trace!Spec => Trace!ReadInOrder
  OBVIOUS
<1>1. Trace!Init => TraceInv
  BY TraceInit
<1>2. TraceInv /\ [Trace!Next]_(Trace!vars) => TraceInv' /\ [InOrder]_(Trace!vars)
  <2>1. ASSUME TraceInv, Trace!Next PROVE TraceInv' /\ InOrder
    BY <2>1, ReadStep, ReopenStep DEF Trace!Next
  <2>2. ASSUME TraceInv, UNCHANGED Trace!vars PROVE TraceInv'
    BY <2>2 DEF Trace!vars, TraceInv, TraceTyped, Begun, Follows, TargetOf
  <2>. QED  BY <2>1, <2>2
<1>3. Trace!Spec => [][InOrder]_(Trace!vars)
  BY <1>1, <1>2, PTL DEF Trace!Spec
<1>. QED  BY <1>3 DEF Trace!ReadInOrder, InOrder

(* Records come in the order of the file, none is left out before a pass    *)
(* ends, and a taken branch leads to the record after it even where a block *)
(* ends between the two (operator() and set_branch_targets of               *)
(* inc/tracereader.h).                                                     *)
THEOREM TraceReadInOrder == ReadAssumption => (PartsSpec => ReadInOrder)
BY ReadsInOrder, PartsAlone DEF ReadInOrder

-----------------------------------------------------------------------------
(* The replacement policies (Replacement), for caches of every size and any *)
(* blocks and instructions.                                                *)
(* BRRIP_MAX, PSEL_MAX and SHCT_MAX are 32, 2^10 - 1 and 7 in drrip and ship. *)
PolicyAssumption ==
  /\ Policy \subseteq {"lru", "srrip", "drrip", "ship"}
  /\ WAYS \in Nat \ {0} /\ BRRIP_MAX \in Nat \ {0} /\ PSEL_MAX \in Nat /\ SHCT_MAX \in Nat
  /\ Policies!NoBlock \notin DOMAIN SetOf

Way == Policies!Way
Row == [Way -> 0 .. 3]

LEMMA NatLeast == \A S \in SUBSET Nat : S # {} => \E x \in S : \A y \in S : x <= y
<1>. SUFFICES ASSUME NEW S \in SUBSET Nat, S # {} PROVE \E x \in S : \A y \in S : x <= y
  OBVIOUS
<1>. DEFINE R == OpToRel(<, Nat)
<1>1. \A x, y \in Nat : x < y => <<x, y>> \in R
  BY DEF OpToRel
<1>2. IsWellFoundedOn(R, Nat)
  BY NatLessThanWellFounded
<1>. HIDE DEF R
<1>3. PICK x \in S : \A y \in S : <<y, x>> \notin R
  BY <1>2, WFMin
<1>4. \A y \in S : ~(y < x)
  BY <1>1, <1>3
<1>. QED  BY <1>4

LEMMA FirstIs ==
  ASSUME PolicyAssumption, NEW S \in SUBSET Way, S # {}
  PROVE  Policies!First(S) \in S
<1>1. S \in SUBSET Nat
  BY DEF PolicyAssumption, Way, Policies!Way
<1>. QED  BY <1>1, NatLeast DEF Policies!First

LEMMA LargestIs ==
  ASSUME PolicyAssumption, NEW row \in Row
  PROVE  Policies!Largest(row) \in Way /\ \A x \in Way : row[x] <= row[Policies!Largest(row)]
<1>. DEFINE Top == {w \in Way : \A x \in Way : row[x] <= row[w]}
<1>1. Top # {}
  <2>1. 1 \in Way
    BY DEF PolicyAssumption, Way, Policies!Way
  <2>2. \A x \in Way : row[x] \in 0 .. 3
    BY DEF Row
  <2>3. CASE \E w \in Way : row[w] = 3
    BY <2>2, <2>3
  <2>4. CASE (\E w \in Way : row[w] = 2) /\ ~(\E w \in Way : row[w] = 3)
    BY <2>2, <2>4
  <2>5. CASE (\E w \in Way : row[w] = 1) /\ ~(\E w \in Way : row[w] \in {2, 3})
    BY <2>2, <2>5
  <2>6. CASE ~(\E w \in Way : row[w] \in {1, 2, 3})
    <3>1. \A x \in Way : row[x] = 0
      BY <2>2, <2>6
    <3>. QED  BY <2>1, <3>1
  <2>. QED  BY <2>3, <2>4, <2>5, <2>6
<1>2. Policies!Largest(row) = Policies!First(Top)
  BY DEF Policies!Largest, Way
<1>3. Policies!First(Top) \in Top
  <2>. HIDE DEF Top
  <2>1. Top \in SUBSET Way
    BY DEF Top
  <2>. QED  BY <1>1, <2>1, FirstIs
<1>. QED  BY <1>2, <1>3

(* Ageing brings the largest value of a set to the maximum, leaves the      *)
(* victim where it was and has nothing more to add.                        *)
AgedRow(row) == [w \in Way |-> row[w] + 3 - row[Policies!Largest(row)]]

LEMMA AgedRowIs ==
  ASSUME PolicyAssumption, NEW row \in Row
  PROVE  /\ AgedRow(row) \in Row /\ Policies!Largest(AgedRow(row)) = Policies!Largest(row)
         /\ AgedRow(AgedRow(row)) = AgedRow(row)
<1>. DEFINE l == Policies!Largest(row)
            aged == AgedRow(row)
<1>1. l \in Way /\ (\A x \in Way : row[x] <= row[l]) /\ \A x \in Way : row[x] \in 0 .. 3
  BY LargestIs DEF Row
<1>2. \A x \in Way : aged[x] = row[x] + 3 - row[l]
  BY DEF AgedRow
<1>3. aged = [w \in Way |-> row[w] + 3 - row[l]]
  BY DEF AgedRow
<1>. HIDE DEF l, aged
<1>4. \A x \in Way : aged[x] \in 0 .. 3
  BY <1>1, <1>2
<1>5. aged \in Row
  BY <1>3, <1>4 DEF Row
<1>6. \A x, y \in Way : aged[x] <= aged[y] <=> row[x] <= row[y]
  BY <1>1, <1>2
<1>7. Policies!Largest(aged) = l
  <2>1. {w \in Way : \A x \in Way : aged[x] <= aged[w]} = {w \in Way : \A x \in Way : row[x] <= row[w]}
    BY <1>6
  <2>. QED  BY <2>1, Zenon DEF Policies!Largest, Way, l
<1>8. aged[l] = 3
  BY <1>1, <1>2
<1>9. \A x \in Way : AgedRow(aged)[x] = aged[x]
  BY <1>4, <1>7, <1>8 DEF AgedRow
<1>10. AgedRow(aged) = aged
  <2>1. AgedRow(aged) = [w \in Way |-> AgedRow(aged)[w]]
    BY DEF AgedRow
  <2>2. aged = [w \in Way |-> aged[w]]
    BY <1>3
  <2>. QED  BY <1>9, <2>1, <2>2
<1>. QED  BY <1>5, <1>7, <1>10 DEF aged, l

(* What a policy keeps, with the counters that count no further at a bound. *)
Entry == [valid : BOOLEAN, used : BOOLEAN, block : Policies!Block \cup {Policies!NoBlock},
          ip : Policies!Ip, last_used : Nat]
Index == 0 .. Policies!SampledSets(NUM_SET) - 1
Samplers == [Sharer -> [Index -> [Way -> Entry]]]
Tables ==
  [last_used_cycles : [Policies!Set -> [Way -> Nat]], cycle : Nat,
   rrpv : [Policies!Set -> Row], PSEL : [Sharer -> 0 .. PSEL_MAX], brrip_counter : 0 .. BRRIP_MAX - 1,
   sampler : Samplers, SHCT : [Sharer -> [Policies!Ip -> 0 .. SHCT_MAX]]]

(* A block has one entry in a sampler, and no other is invalid.             *)
BlocksOnce(entries) ==
  /\ \A v, w \in Way : entries[v].block = entries[w].block /\ entries[v].block \in Policies!Block => v = w
  /\ \A w \in Way : entries[w].block \in Policies!Block => entries[w].valid
OneSample(sampler) == \A c \in Sharer : \A i \in Index : BlocksOnce(sampler[c][i])

TableInv(t) == t \in Tables /\ OneSample(t.sampler)

LEMMA PredictedIs ==
  ASSUME NEW t \in Tables, NEW s \in Policies!Set, NEW w, NEW value \in 0 .. 3
  PROVE  Policies!Predicted(t, s, w, value) \in Tables
         /\ Policies!Predicted(t, s, w, value).sampler = t.sampler
<1>. DEFINE row == [t.rrpv[s] EXCEPT ![w] = value]
            rrpv == [t.rrpv EXCEPT ![s] = row]
<1>1. row \in Row
  BY DEF Tables, Row
<1>2. rrpv \in [Policies!Set -> Row]
  <2>. HIDE DEF row
  <2>. QED  BY <1>1 DEF Tables
<1>3. Policies!Predicted(t, s, w, value) = [t EXCEPT !.rrpv = rrpv]
  BY DEF Policies!Predicted, Tables
<1>. HIDE DEF rrpv
<1>. QED  BY <1>2, <1>3 DEF Tables

LEMMA UsedIs ==
  ASSUME NEW t \in Tables, NEW s \in Policies!Set, NEW w
  PROVE  Policies!Used(t, s, w) \in Tables /\ Policies!Used(t, s, w).sampler = t.sampler
<1>. DEFINE row == [t.last_used_cycles[s] EXCEPT ![w] = t.cycle]
            last == [t.last_used_cycles EXCEPT ![s] = row]
<1>1. row \in [Way -> Nat]
  BY DEF Tables
<1>2. last \in [Policies!Set -> [Way -> Nat]]
  <2>. HIDE DEF row
  <2>. QED  BY <1>1 DEF Tables
<1>3. Policies!Used(t, s, w) = [t EXCEPT !.last_used_cycles = last, !.cycle = t.cycle + 1]
  BY DEF Policies!Used, Tables
<1>. HIDE DEF last
<1>4. t.cycle + 1 \in Nat
  BY DEF Tables
<1>. QED  BY <1>2, <1>3, <1>4 DEF Tables

LEMMA VotedIs ==
  ASSUME PolicyAssumption, NEW t \in Tables, NEW c \in Sharer, NEW vote \in {-1, 1}
  PROVE  Policies!Voted(t, c, vote) \in Tables /\ Policies!Voted(t, c, vote).sampler = t.sampler
<1>. DEFINE n == Policies!Clamped(t.PSEL[c] + vote, PSEL_MAX)
            PSEL == [t.PSEL EXCEPT ![c] = n]
<1>1. n \in 0 .. PSEL_MAX
  BY DEF PolicyAssumption, Policies!Clamped, Tables
<1>2. PSEL \in [Sharer -> 0 .. PSEL_MAX]
  <2>. HIDE DEF n
  <2>. QED  BY <1>1 DEF Tables
<1>3. Policies!Voted(t, c, vote) = [t EXCEPT !.PSEL = PSEL]
  BY DEF Policies!Voted, Tables
<1>. HIDE DEF PSEL
<1>. QED  BY <1>2, <1>3 DEF Tables

LEMMA BrripIs ==
  ASSUME PolicyAssumption, NEW t \in Tables, NEW s \in Policies!Set, NEW w
  PROVE  Policies!update_brrip(t, s, w) \in Tables /\ Policies!update_brrip(t, s, w).sampler = t.sampler
<1>1. PICK value \in 0 .. 3 : value = (IF t.brrip_counter + 1 = BRRIP_MAX
                                       THEN Policies!maxRRPV - 1 ELSE Policies!maxRRPV)
  BY DEF Policies!maxRRPV
<1>. DEFINE p == Policies!Predicted(t, s, w, value)
<1>2. p \in Tables /\ p.sampler = t.sampler
  BY PredictedIs
<1>3. Policies!update_brrip(t, s, w) = [p EXCEPT !.brrip_counter = (p.brrip_counter + 1) % BRRIP_MAX]
  BY <1>1, <1>2 DEF Policies!update_brrip, Tables
<1>. HIDE DEF p
<1>4. (p.brrip_counter + 1) % BRRIP_MAX \in 0 .. BRRIP_MAX - 1
  BY <1>2 DEF PolicyAssumption, Tables
<1>. QED  BY <1>2, <1>3, <1>4 DEF Tables

LEMMA SrripIs ==
  ASSUME NEW t \in Tables, NEW s \in Policies!Set, NEW w
  PROVE  Policies!update_srrip(t, s, w) \in Tables /\ Policies!update_srrip(t, s, w).sampler = t.sampler
<1>1. PICK value \in 0 .. 3 : value = Policies!maxRRPV - 1
  BY DEF Policies!maxRRPV
<1>. QED  BY <1>1, PredictedIs DEF Policies!update_srrip

LEMMA DrripFillIs ==
  ASSUME PolicyAssumption, NEW t \in Tables, NEW c \in Sharer, NEW s \in Policies!Set, NEW w,
         NEW type \in {"LOAD", "WRITE"}
  PROVE  LET u == Policies!drrip_fill(t, c, s, w, type) IN u \in Tables /\ u.sampler = t.sampler
<1>. DEFINE category == Policies!Category(s, Policies!SampleRate(NUM_SET))
<1>1. CASE type = "WRITE"
  BY <1>1, SrripIs DEF Policies!drrip_fill
<1>2. CASE type # "WRITE" /\ category = 0
  <2>1. PICK u \in Tables : u = Policies!Voted(t, c, -1) /\ u.sampler = t.sampler
    BY VotedIs
  <2>2. Policies!drrip_fill(t, c, s, w, type) = Policies!update_brrip(u, s, w)
    BY <1>2, <2>1 DEF Policies!drrip_fill
  <2>. QED  BY <2>1, <2>2, BrripIs
<1>3. CASE type # "WRITE" /\ category # 0 /\ category = 1
  <2>1. PICK u \in Tables : u = Policies!Voted(t, c, 1) /\ u.sampler = t.sampler
    BY VotedIs
  <2>2. Policies!drrip_fill(t, c, s, w, type) = Policies!update_srrip(u, s, w)
    BY <1>3, <2>1 DEF Policies!drrip_fill
  <2>. QED  BY <2>1, <2>2, SrripIs
<1>4. CASE type # "WRITE" /\ category # 0 /\ category # 1
  <2>1. Policies!drrip_fill(t, c, s, w, type) = Policies!update_brrip(t, s, w)
        \/ Policies!drrip_fill(t, c, s, w, type) = Policies!update_srrip(t, s, w)
    BY <1>4 DEF Policies!drrip_fill
  <2>. QED  BY <2>1, SrripIs, BrripIs
<1>. QED  BY <1>1, <1>2, <1>3, <1>4

LEMMA UpdatedIs ==
  ASSUME NEW D, NEW R, NEW f \in [D -> R], NEW x, NEW y, x \in D => y \in R
  PROVE  [f EXCEPT ![x] = y] \in [D -> R]
<1>. QED  OBVIOUS

(* The sampler of ship: an entry that is known is written in place, and one  *)
(* that is not takes the place of another block.                           *)
Sampled(t, SHCT, sampler, cycle) == [t EXCEPT !.SHCT = SHCT, !.sampler = sampler, !.cycle = cycle]

LEMMA SampledIs ==
  ASSUME NEW t \in Tables, NEW SHCT \in [Sharer -> [Policies!Ip -> 0 .. SHCT_MAX]],
         NEW sampler \in Samplers, NEW cycle \in Nat
  PROVE  /\ Sampled(t, SHCT, sampler, cycle) \in Tables
         /\ Sampled(t, SHCT, sampler, cycle).sampler = sampler
         /\ Sampled(t, SHCT, sampler, cycle).rrpv = t.rrpv
<1>. QED  BY DEF Tables, Sampled

LEMMA SampleIs ==
  ASSUME PolicyAssumption, NEW t \in Tables, OneSample(t.sampler), NEW c \in Sharer,
         NEW i, NEW b \in Policies!Block
  PROVE  /\ TableInv(Policies!Sample(t, c, i, b))
         /\ Policies!Sample(t, c, i, b).rrpv = t.rrpv
<1>. DEFINE entries == t.sampler[c][i]
            known == Policies!Entries(entries, b) # {}
            w == IF known THEN Policies!First(Policies!Entries(entries, b))
                 ELSE Policies!Smallest([x \in Way |-> entries[x].last_used])
            vote == IF known THEN -1 ELSE IF entries[w].used THEN 0 ELSE 1
            ip == entries[w].ip
            n == Policies!Clamped(t.SHCT[c][ip] + vote, SHCT_MAX)
            counts == [t.SHCT[c] EXCEPT ![ip] = n]
            SHCT == [t.SHCT EXCEPT ![c] = counts]
            new == [valid |-> TRUE, used |-> known, block |-> b,
                    ip |-> IF known THEN ip ELSE IpOf[b], last_used |-> t.cycle]
            written == [entries EXCEPT ![w] = new]
            sampler == [t.sampler EXCEPT ![c] = [t.sampler[c] EXCEPT ![i] = written]]
            u == Policies!Sample(t, c, i, b)
<1>1. u = Sampled(t, SHCT, sampler, t.cycle + 1)
  BY DEF Policies!Sample, Way, Sampled
<1>2. vote \in Int
  OBVIOUS
<1>3. SHCT \in [Sharer -> [Policies!Ip -> 0 .. SHCT_MAX]]
  <2>1. ip \in Policies!Ip => t.SHCT[c][ip] \in 0 .. SHCT_MAX
    BY Zenon DEF Tables
  <2>. HIDE DEF ip, vote
  <2>2. ip \in Policies!Ip => n \in 0 .. SHCT_MAX
    BY <1>2, <2>1 DEF PolicyAssumption, Policies!Clamped
  <2>3. counts \in [Policies!Ip -> 0 .. SHCT_MAX]
    <3>1. t.SHCT[c] \in [Policies!Ip -> 0 .. SHCT_MAX]
      BY DEF Tables
    <3>. HIDE DEF n
    <3>. QED  BY <2>2, <3>1, UpdatedIs
  <2>4. t.SHCT \in [Sharer -> [Policies!Ip -> 0 .. SHCT_MAX]]
    BY DEF Tables
  <2>. HIDE DEF counts
  <2>. QED  BY <2>3, <2>4, UpdatedIs
<1>4. t.cycle + 1 \in Nat /\ t.cycle \in Nat /\ t.sampler \in Samplers
  BY DEF Tables
<1>. HIDE DEF SHCT
<1>5. sampler \in Samplers /\ OneSample(sampler)
  <2>1. CASE i \notin Index
    <3>1. sampler = t.sampler
      BY <1>4, <2>1 DEF Samplers
    <3>. QED  BY <1>4, <3>1, Zenon
  <2>2. CASE i \in Index
    <3>1. entries \in [Way -> Entry] /\ BlocksOnce(entries)
      BY <1>4, <2>2 DEF Samplers, OneSample
    <3>2. written \in [Way -> Entry] /\ BlocksOnce(written)
      <4>1. CASE w \notin Way
        <5>1. written = entries
          BY <3>1, <4>1
        <5>. QED  BY <3>1, <5>1, Zenon
      <4>2. CASE w \in Way
        <5>1. new \in Entry /\ new.block = b /\ new.valid
          <6>1. ip \in Policies!Ip
            <7>. HIDE DEF w
            <7>. QED  BY <3>1, <4>2 DEF Entry
          <6>2. IpOf[b] \in Policies!Ip
            BY DEF Policies!Ip
          <6>3. PICK k \in BOOLEAN : k = known
            OBVIOUS
          <6>4. PICK p \in Policies!Ip : p = IF known THEN ip ELSE IpOf[b]
            BY <6>1, <6>2, Zenon
          <6>5. new = [valid |-> TRUE, used |-> k, block |-> b, ip |-> p, last_used |-> t.cycle]
            BY <6>3, <6>4, Zenon
          <6>. HIDE DEF new
          <6>. QED  BY <1>4, <6>5 DEF Entry
        <5>2. \A v \in Way : entries[v].block = b => v = w
          <6>1. Policies!Entries(entries, b) = {v \in Way : entries[v].valid /\ entries[v].block = b}
            BY DEF Policies!Entries, Way
          <6>2. \A v \in Way : entries[v].block = b => v \in Policies!Entries(entries, b)
            BY <3>1, <6>1 DEF BlocksOnce
          <6>3. CASE known
            <7>1. w \in Policies!Entries(entries, b)
              <8>1. Policies!Entries(entries, b) \in SUBSET Way
                BY <6>1
              <8>. QED  BY <6>3, <8>1, FirstIs
            <7>. HIDE DEF w
            <7>. QED  BY <3>1, <6>1, <7>1 DEF BlocksOnce
          <6>4. CASE ~known
            BY <6>2, <6>4
          <6>. QED  BY <6>3, <6>4
        <5>. HIDE DEF w, new, entries
        <5>3. written \in [Way -> Entry] /\ \A v \in Way : written[v] = IF v = w THEN new ELSE entries[v]
          <6>1. written \in [Way -> Entry]
            BY <3>1, <5>1, UpdatedIs
          <6>. QED  BY <3>1, <4>2, <6>1
        <5>. HIDE DEF written
        <5>4. \A v, x \in Way : written[v].block = written[x].block /\ written[v].block \in Policies!Block
                               => v = x
          BY <3>1, <5>1, <5>2, <5>3 DEF BlocksOnce
        <5>5. \A v \in Way : written[v].block \in Policies!Block => written[v].valid
          BY <3>1, <5>1, <5>3 DEF BlocksOnce
        <5>. QED  BY <5>3, <5>4, <5>5, Zenon DEF BlocksOnce
      <4>. QED  BY <4>1, <4>2
    <3>. HIDE DEF written
    <3>3. [t.sampler[c] EXCEPT ![i] = written] \in [Index -> [Way -> Entry]]
          /\ \A j \in Index : BlocksOnce([t.sampler[c] EXCEPT ![i] = written][j])
      BY <1>4, <3>2 DEF Samplers, OneSample
    <3>4. PICK row : row = [t.sampler[c] EXCEPT ![i] = written]
      OBVIOUS
    <3>5. row \in [Index -> [Way -> Entry]] /\ \A j \in Index : BlocksOnce(row[j])
      BY <3>3, <3>4
    <3>6. sampler = [t.sampler EXCEPT ![c] = row]
      BY <3>4
    <3>. QED  BY <1>4, <3>5, <3>6, Zenon DEF Samplers, OneSample
  <2>. QED  BY <2>1, <2>2
<1>. HIDE DEF sampler, u
<1>6. PICK counted \in [Sharer -> [Policies!Ip -> 0 .. SHCT_MAX]], samples \in Samplers, cycle \in Nat :
        counted = SHCT /\ samples = sampler /\ cycle = t.cycle + 1
  BY <1>3, <1>4, <1>5
<1>7. u = Sampled(t, counted, samples, cycle)
  BY <1>1, <1>6, Zenon
<1>8. u \in Tables /\ u.sampler = samples /\ u.rrpv = t.rrpv
  BY <1>7, SampledIs
<1>. QED  BY <1>5, <1>6, <1>8, Zenon DEF TableInv, u

(* What a hit or a miss, and a fill, make of the table of every policy. *)
UpdateKeeps(t, u, hit) ==
  TableInv(u) /\ (~hit => u.rrpv = t.rrpv /\ (policy = "lru" => u = t))

LEMMA UpdateIs ==
  ASSUME PolicyAssumption, policy \in Policy, NEW t, TableInv(t), NEW c \in Sharer, NEW b \in Policies!Block,
         NEW w, NEW type \in {"LOAD", "WRITE"}, NEW hit \in BOOLEAN
  PROVE  UpdateKeeps(t, Policies!impl_update_replacement_state(t, c, SetOf[b], w, b, type, hit), hit)
<1>. DEFINE s == SetOf[b]
            u == Policies!impl_update_replacement_state(t, c, s, w, b, type, hit)
<1>1. s \in Policies!Set /\ t \in Tables /\ OneSample(t.sampler) /\ Policies!NoBlock \notin Policies!Block
  BY DEF Policies!Set, Policies!Block, TableInv, PolicyAssumption
<1>2. policy \in {"lru", "srrip", "drrip", "ship"}
  BY DEF PolicyAssumption
<1>. HIDE DEF s
<1>3. CASE policy = "lru"
  <2>1. u = t \/ (hit /\ u = Policies!Used(t, s, w))
    BY <1>3 DEF Policies!impl_update_replacement_state, Policies!lru_update, Policies!has_cache_fill
  <2>. QED  BY <1>1, <2>1, UsedIs DEF TableInv, UpdateKeeps, s
<1>4. CASE policy = "srrip"
  <2>1. u = t \/ (hit /\ u = Policies!Predicted(t, s, w, 0))
    BY <1>4 DEF Policies!impl_update_replacement_state, Policies!srrip_update, Policies!has_cache_fill
  <2>. QED  BY <1>1, <1>4, <2>1, PredictedIs DEF TableInv, UpdateKeeps, s
<1>5. CASE policy = "drrip"
  <2>1. u = t \/ (hit /\ \E value \in 0 .. 3 : u = Policies!Predicted(t, s, w, value))
    BY <1>5 DEF Policies!impl_update_replacement_state, Policies!drrip_update, Policies!has_cache_fill,
                Policies!maxRRPV
  <2>. QED  BY <1>1, <1>5, <2>1, PredictedIs DEF TableInv, UpdateKeeps, s
<1>6. CASE policy = "ship"
  <2>1. PICK v : /\ v = t \/ (\E i : v = Policies!Sample(t, c, i, b))
                 /\ u = IF hit THEN Policies!Predicted(v, s, w, 0) ELSE v
    BY <1>6 DEF Policies!impl_update_replacement_state, Policies!ship_update, Policies!has_cache_fill
  <2>2. TableInv(v) /\ v.rrpv = t.rrpv /\ v \in Tables
    BY <1>1, <2>1, SampleIs DEF TableInv
  <2>3. TableInv(Policies!Predicted(v, s, w, 0))
    BY <1>1, <2>2, PredictedIs DEF TableInv
  <2>. QED  BY <1>6, <2>1, <2>2, <2>3 DEF UpdateKeeps, s
<1>. QED  BY <1>2, <1>3, <1>4, <1>5, <1>6

LEMMA FillIs ==
  ASSUME PolicyAssumption, policy \in Policy, NEW t, TableInv(t), NEW c \in Sharer, NEW b \in Policies!Block,
         NEW w, NEW type \in {"LOAD", "WRITE"}
  PROVE  TableInv(Policies!impl_replacement_cache_fill(t, c, SetOf[b], w, b, type))
<1>. DEFINE s == SetOf[b]
            u == Policies!impl_replacement_cache_fill(t, c, s, w, b, type)
<1>1. s \in Policies!Set /\ t \in Tables /\ OneSample(t.sampler)
  BY DEF Policies!Set, Policies!Block, TableInv
<1>2. policy \in {"lru", "srrip", "drrip", "ship"}
  BY DEF PolicyAssumption
<1>3. CASE policy = "lru"
  <2>1. u = Policies!Used(t, s, w)
    BY <1>3 DEF Policies!impl_replacement_cache_fill
  <2>. QED  BY <1>1, <2>1, UsedIs DEF TableInv
<1>4. CASE policy = "srrip"
  <2>1. u = Policies!impl_update_replacement_state(t, c, s, w, b, type, FALSE)
    BY <1>4 DEF Policies!impl_replacement_cache_fill
  <2>. QED  BY <2>1, UpdateIs DEF UpdateKeeps
<1>5. CASE policy = "drrip"
  <2>1. u = Policies!drrip_fill(t, c, s, w, type)
    BY <1>5 DEF Policies!impl_replacement_cache_fill
  <2>. QED  BY <1>1, <2>1, DrripFillIs DEF TableInv
<1>6. CASE policy = "ship"
  <2>1. \E value \in 0 .. 3 : u = Policies!Predicted(t, s, w, value)
    BY <1>6 DEF Policies!impl_replacement_cache_fill, Policies!ship_fill, Policies!maxRRPV
  <2>. QED  BY <1>1, <2>1, PredictedIs DEF TableInv
<1>. QED  BY <1>2, <1>3, <1>4, <1>5, <1>6

LEMMA AgedIs ==
  ASSUME PolicyAssumption, NEW t, TableInv(t), NEW s \in Policies!Set
  PROVE  LET u == Policies!Aged(t, s)
         IN  /\ TableInv(u) /\ Policies!Victim(u, s) = Policies!Victim(t, s)
             /\ policy # "lru" => u.rrpv[s] = AgedRow(u.rrpv[s])
<1>. DEFINE row == t.rrpv[s]
            aged == AgedRow(row)
            rrpv == [t.rrpv EXCEPT ![s] = aged]
            u == Policies!Aged(t, s)
<1>1. CASE policy = "lru"
  BY <1>1 DEF Policies!Aged
<1>2. CASE policy # "lru"
  <2>1. t \in Tables /\ row \in Row /\ t.rrpv \in [Policies!Set -> Row]
    BY DEF TableInv, Tables
  <2>2. aged \in Row /\ Policies!Largest(aged) = Policies!Largest(row) /\ AgedRow(aged) = aged
    BY <2>1, AgedRowIs
  <2>3. u = [t EXCEPT !.rrpv = rrpv]
    BY <1>2 DEF Policies!Aged, AgedRow, Way, Policies!maxRRPV
  <2>. HIDE DEF aged, row
  <2>4. rrpv \in [Policies!Set -> Row] /\ rrpv[s] = aged
    BY <2>1, <2>2
  <2>. HIDE DEF rrpv, u
  <2>5. u \in Tables /\ u.rrpv = rrpv /\ u.sampler = t.sampler
    BY <2>1, <2>3, <2>4 DEF Tables
  <2>6. Policies!Victim(u, s) = Policies!Victim(t, s)
    BY <1>2, <2>2, <2>4, <2>5 DEF Policies!Victim, row
  <2>7. TableInv(u)
    BY <2>5 DEF TableInv
  <2>. QED  BY <1>2, <2>2, <2>4, <2>5, <2>6, <2>7 DEF u
<1>. QED  BY <1>1, <1>2

(* The set and the victim of the fill that was refused last: the set has been *)
(* aged, and stays so until it is hit.                                     *)
WaitingInv ==
  waiting # <<>> => \E s \in Policies!Set :
    /\ waiting = <<s, Policies!Victim(table, s)>>
    /\ policy # "lru" => table.rrpv[s] = AgedRow(table.rrpv[s])

PolicyInv == policy \in Policy /\ TableInv(table) /\ WaitingInv

LEMMA PolicyInit == ASSUME PolicyAssumption, Policies!Init PROVE PolicyInv
<1>1. policy \in Policy /\ waiting = <<>>
  BY DEF Policies!Init
<1>2. (PSEL_MAX + 1) \div 2 \in 0 .. PSEL_MAX
  BY DEF PolicyAssumption
<1>3. Policies!NoSample \in Entry /\ Policies!NoSample.block \notin Policies!Block
  BY DEF PolicyAssumption, Entry, Policies!NoSample, Policies!Ip, Policies!Block
<1>4. PICK n \in 0 .. PSEL_MAX, e \in Entry, r \in 0 .. 3 :
        /\ n = (PSEL_MAX + 1) \div 2 /\ e = Policies!NoSample /\ e.block \notin Policies!Block
        /\ r = (IF policy = "drrip" THEN 0 ELSE Policies!maxRRPV)
  BY <1>2, <1>3 DEF Policies!maxRRPV
<1>5. table = [last_used_cycles |-> [s \in Policies!Set |-> [w \in Way |-> 0]], cycle |-> 0,
               rrpv |-> [s \in Policies!Set |-> [w \in Way |-> r]],
               PSEL |-> [c \in Sharer |-> n], brrip_counter |-> 0,
               sampler |-> [c \in Sharer |-> [i \in Index |-> [w \in Way |-> e]]],
               SHCT |-> [c \in Sharer |-> [ip \in Policies!Ip |-> 0]]]
  BY <1>4, Zenon DEF Policies!Init, Way, Index
<1>6. /\ [s \in Policies!Set |-> [w \in Way |-> 0]] \in [Policies!Set -> [Way -> Nat]]
      /\ [s \in Policies!Set |-> [w \in Way |-> r]] \in [Policies!Set -> Row]
      /\ [c \in Sharer |-> n] \in [Sharer -> 0 .. PSEL_MAX]
      /\ 0 \in 0 .. BRRIP_MAX - 1
  BY DEF Row, PolicyAssumption
<1>7. /\ [c \in Sharer |-> [i \in Index |-> [w \in Way |-> e]]] \in Samplers
      /\ [c \in Sharer |-> [ip \in Policies!Ip |-> 0]] \in [Sharer -> [Policies!Ip -> 0 .. SHCT_MAX]]
  BY DEF Samplers, PolicyAssumption
<1>8. table \in Tables
  BY <1>5, <1>6, <1>7 DEF Tables
<1>9. OneSample(table.sampler)
  BY <1>4, <1>5 DEF OneSample, BlocksOnce
<1>. QED  BY <1>1, <1>8, <1>9 DEF PolicyInv, TableInv, WaitingInv

LEMMA TagCheckPolicyInv ==
  ASSUME PolicyAssumption, PolicyInv, NEW c \in Sharer, NEW b \in Policies!Block,
         NEW type \in {"LOAD", "WRITE"}, Policies!TagCheck(c, b, type)
  PROVE  PolicyInv'
<1>1. PICK hit \in BOOLEAN : hit = (Policies!Hits(b) # {})
  OBVIOUS
<1>2. PICK w : table' = Policies!impl_update_replacement_state(table, c, SetOf[b], w, b, type, hit)
  BY <1>1, Zenon DEF Policies!TagCheck
<1>3. policy' = policy /\ waiting' = IF hit THEN <<>> ELSE waiting
  BY <1>1, Zenon DEF Policies!TagCheck
<1>4. TableInv(table') /\ (~hit => table'.rrpv = table.rrpv /\ (policy = "lru" => table' = table))
  <2>1. policy \in Policy /\ TableInv(table)
    BY DEF PolicyInv
  <2>2. PICK u : u = Policies!impl_update_replacement_state(table, c, SetOf[b], w, b, type, hit)
    OBVIOUS
  <2>3. UpdateKeeps(table, u, hit)
    BY <2>1, <2>2, UpdateIs
  <2>. QED  BY <1>2, <2>2, <2>3, Zenon DEF UpdateKeeps
<1>5. WaitingInv'
  <2>1. CASE hit
    BY <1>3, <2>1 DEF WaitingInv
  <2>2. CASE ~hit
    <3>1. \A s \in Policies!Set : Policies!Victim(table, s)' = Policies!Victim(table, s)
      BY <1>3, <1>4, <2>2 DEF Policies!Victim
    <3>. QED  BY <1>3, <1>4, <2>2, <3>1 DEF PolicyInv, WaitingInv
  <2>. QED  BY <2>1, <2>2
<1>. QED  BY <1>3, <1>4, <1>5 DEF PolicyInv

LEMMA RefusedPolicyInv ==
  ASSUME PolicyAssumption, PolicyInv, NEW b \in Policies!Block, Policies!FillRefused(b)
  PROVE  PolicyInv'
<1>1. PICK s \in Policies!Set : s = SetOf[b]
  BY DEF Policies!Set
<1>2. /\ table' = Policies!Aged(table, s) /\ policy' = policy
      /\ waiting' = <<s, Policies!Victim(table, s)>>
  BY <1>1 DEF Policies!FillRefused
<1>3. /\ TableInv(table') /\ Policies!Victim(Policies!Aged(table, s), s) = Policies!Victim(table, s)
      /\ policy # "lru" => table'.rrpv[s] = AgedRow(table'.rrpv[s])
  BY <1>2, AgedIs DEF PolicyInv
<1>4. Policies!Victim(table, s)' = Policies!Victim(table, s)
  BY <1>2, <1>3 DEF Policies!Victim
<1>. QED  BY <1>2, <1>3, <1>4 DEF PolicyInv, WaitingInv

LEMMA FillPolicyInv ==
  ASSUME PolicyAssumption, PolicyInv, NEW c \in Sharer, NEW b \in Policies!Block,
         NEW type \in {"LOAD", "WRITE"}, Policies!Fill(c, b, type)
  PROVE  PolicyInv'
<1>1. SetOf[b] \in Policies!Set
  BY DEF Policies!Set
<1>2. PICK t, w : /\ t = table \/ t = Policies!Aged(table, SetOf[b])
                  /\ table' = Policies!impl_replacement_cache_fill(t, c, SetOf[b], w, b, type)
  BY Zenon DEF Policies!Fill
<1>3. TableInv(t)
  BY <1>1, <1>2, AgedIs DEF PolicyInv
<1>4. TableInv(table')
  BY <1>2, <1>3, FillIs DEF PolicyInv
<1>5. policy' = policy /\ waiting' = <<>>
  BY DEF Policies!Fill
<1>. QED  BY <1>4, <1>5 DEF PolicyInv, WaitingInv

LEMMA PolicyInvHolds == PolicyAssumption => (Policies!Spec => []PolicyInv)
<1>. SUFFICES ASSUME PolicyAssumption PROVE Policies!Spec => []PolicyInv
  OBVIOUS
<1>1. Policies!Init => PolicyInv
  BY PolicyInit
<1>2. PolicyInv /\ [Policies!Next]_(Policies!vars) => PolicyInv'
  <2>1. ASSUME PolicyInv, Policies!Next PROVE PolicyInv'
    BY <2>1, TagCheckPolicyInv, RefusedPolicyInv, FillPolicyInv DEF Policies!Next
  <2>2. ASSUME PolicyInv, UNCHANGED Policies!vars PROVE PolicyInv'
    <3>1. \A s : Policies!Victim(table, s)' = Policies!Victim(table, s)
      BY <2>2 DEF Policies!vars, Policies!Victim
    <3>. QED  BY <2>2, <3>1 DEF Policies!vars, PolicyInv, WaitingInv
  <2>. QED  BY <2>1, <2>2
<1>. QED  BY <1>1, <1>2, PTL DEF Policies!Spec

(* In every order of hits, misses, refused fills and fills, no prediction    *)
(* ever passes the maximum (replacement/srrip, drrip and ship).              *)
THEOREM PredictionsInRange == PolicyAssumption => (Policies!Spec => []Policies!RrpvInRange)
<1>1. PolicyInv => Policies!RrpvInRange
  BY DEF PolicyInv, TableInv, Tables, Row, Policies!RrpvInRange, Policies!maxRRPV, Way
<1>. QED  BY <1>1, PolicyInvHolds, PTL

(* A fill that was refused finds the same victim when it is tried again, with *)
(* nothing more to add to the predictions of its set (find_victim of the     *)
(* policies, called again by handle_fill).                                 *)
THEOREM VictimsAwaited == PolicyAssumption => (Policies!Spec => []Policies!VictimAwaited)
<1>. SUFFICES ASSUME PolicyAssumption PROVE Policies!Spec => []Policies!VictimAwaited
  OBVIOUS
<1>1. ASSUME PolicyInv PROVE Policies!VictimAwaited
  <2>. SUFFICES ASSUME waiting # <<>>
                PROVE  /\ Policies!Victim(table, waiting[1]) = waiting[2]
                       /\ Policies!Aged(table, waiting[1]) = table
    BY DEF Policies!VictimAwaited
  <2>1. PICK s \in Policies!Set : /\ waiting = <<s, Policies!Victim(table, s)>>
                                  /\ policy # "lru" => table.rrpv[s] = AgedRow(table.rrpv[s])
    BY <1>1 DEF PolicyInv, WaitingInv
  <2>2. Policies!Aged(table, s) = table
    <3>1. CASE policy = "lru"
      BY <3>1 DEF Policies!Aged
    <3>2. CASE policy # "lru"
      <4>1. Policies!Aged(table, s) = [table EXCEPT !.rrpv = [table.rrpv EXCEPT ![s] = AgedRow(table.rrpv[s])]]
        BY <1>1, <3>2 DEF Policies!Aged, AgedRow, Way, Policies!maxRRPV, PolicyInv, TableInv, Tables
      <4>2. table \in Tables /\ table.rrpv \in [Policies!Set -> Row]
        BY <1>1 DEF PolicyInv, TableInv, Tables
      <4>3. [table.rrpv EXCEPT ![s] = AgedRow(table.rrpv[s])] = table.rrpv
        BY <2>1, <3>2, <4>2
      <4>4. [table EXCEPT !.rrpv = table.rrpv] = table
        BY <4>2 DEF Tables
      <4>. QED  BY <4>1, <4>3, <4>4, Zenon
    <3>. QED  BY <3>1, <3>2
  <2>. QED  BY <2>1, <2>2
<1>. QED  BY <1>1, PolicyInvHolds, PTL

LEMMA SameCardinality == \A S : Policies!Cardinality(S) = Cardinality(S)
BY Zenon DEF Policies!Cardinality, Cardinality

(* ship has one entry for a block in the sampler of a cpu, however often it  *)
(* is sampled again (replacement/ship/ship.cc).                            *)
THEOREM BlocksSampledOnce == PolicyAssumption => (Policies!Spec => []Policies!SampledOnce)
<1>. SUFFICES ASSUME PolicyAssumption PROVE Policies!Spec => []Policies!SampledOnce
  OBVIOUS
<1>1. ASSUME PolicyInv PROVE Policies!SampledOnce
  <2>. SUFFICES ASSUME NEW c \in Sharer, NEW i \in DOMAIN table.sampler[c], NEW b \in Policies!Block
                PROVE  Cardinality({w \in Policies!Way : table.sampler[c][i][w].block = b}) <= 1
    BY SameCardinality, Zenon DEF Policies!SampledOnce
  <2>. DEFINE Holding == {w \in Policies!Way : table.sampler[c][i][w].block = b}
  <2>1. i \in Index
    BY <1>1 DEF PolicyInv, TableInv, Tables, Samplers
  <2>2. \A v, w \in Holding : v = w
    BY <1>1, <2>1 DEF PolicyInv, TableInv, OneSample, BlocksOnce, Way
  <2>. HIDE DEF Holding
  <2>3. Cardinality(Holding) <= 1
    <3>1. \A n : n = 0 \/ n = 1 => n <= 1
      OBVIOUS
    <3>2. CASE Holding = {}
      BY <3>1, <3>2, FS_EmptySet, Zenon
    <3>3. CASE Holding # {}
      <4>1. PICK w : w \in Holding
        BY <3>3
      <4>2. Holding = {w}
        BY <2>2, <4>1, Zenon
      <4>3. Cardinality(Holding) = 1
        BY <4>2, FS_Singleton, Zenon
      <4>. QED  BY <3>1, <4>3, Zenon
    <3>. QED  BY <3>2, <3>3, Zenon
  <2>. QED  BY <2>3, Zenon DEF Holding
<1>. QED  BY <1>1, PolicyInvHolds, PTL

(* The cache as lru sees it: a block is in one way, of its own set, and not  *)
(* on its way at the same time.                                            *)
Holds(blocks, s) ==
  /\ \A w \in Way : blocks[w] # Policies!NoBlock => SetOf[blocks[w]] = s
  /\ \A v, w \in Way : blocks[v] # Policies!NoBlock /\ v # w => blocks[v] # blocks[w]

Resident ==
  /\ block \in [Policies!Set -> [Way -> Policies!Block \cup {Policies!NoBlock}]]
  /\ since \in [Policies!Block -> SUBSET Policies!Block]
  /\ missing \in SUBSET Policies!Block
  /\ \A s \in Policies!Set : Holds(block[s], s)
  /\ \A b \in missing, w \in Way : block[SetOf[b]][w] # b

(* In a set, the times of the last use are those of different uses, and of   *)
(* two blocks the one with the later time was used after the other.        *)
Ordered(blocks, last, cycle, after) ==
  /\ \A w \in Way : blocks[w] # Policies!NoBlock => last[w] < cycle
  /\ \A v, w \in Way :
       blocks[v] # Policies!NoBlock /\ blocks[w] # Policies!NoBlock /\ v # w =>
         last[v] # last[w] /\ (last[v] < last[w] => blocks[w] \in after[blocks[v]])

LruInv ==
  policy = "lru" =>
    /\ Resident
    /\ \A s \in Policies!Set : Ordered(block[s], table.last_used_cycles[s], table.cycle, since)

LEMMA SmallestIs ==
  ASSUME PolicyAssumption, NEW row \in [Way -> Nat]
  PROVE  Policies!Smallest(row) \in Way /\ \A x \in Way : row[Policies!Smallest(row)] <= row[x]
<1>. DEFINE Bottom == {w \in Way : \A x \in Way : row[w] <= row[x]}
            values == {row[w] : w \in Way}
<1>1. 1 \in Way
  BY DEF PolicyAssumption, Way, Policies!Way
<1>2. values \in SUBSET Nat /\ values # {}
  BY <1>1
<1>3. PICK n \in values : \A m \in values : n <= m
  <2>. HIDE DEF values
  <2>. QED  BY <1>2, NatLeast
<1>4. Bottom # {}
  BY <1>3
<1>5. Policies!Smallest(row) = Policies!First(Bottom)
  BY DEF Policies!Smallest, Way
<1>6. Policies!First(Bottom) \in Bottom
  <2>. HIDE DEF Bottom
  <2>1. Bottom \in SUBSET Way
    BY DEF Bottom
  <2>. QED  BY <1>4, <2>1, FirstIs
<1>. QED  BY <1>5, <1>6

(* A block that is used, where it was or in the place of another, comes after *)
(* all others of its set.                                                  *)
LEMMA OrderedUse ==
  ASSUME NEW blocks \in [Way -> Policies!Block \cup {Policies!NoBlock}], NEW last \in [Way -> Nat],
         NEW cycle \in Nat, NEW after, Ordered(blocks, last, cycle, after),
         NEW x \in Way, NEW b \in Policies!Block, NEW after2,
         \A w \in Way : blocks[w] # Policies!NoBlock /\ w # x =>
           /\ b \in after2[blocks[w]]
           /\ \A v \in Way : v # x /\ blocks[v] \in after[blocks[w]] => blocks[v] \in after2[blocks[w]]
  PROVE  Ordered([blocks EXCEPT ![x] = b], [last EXCEPT ![x] = cycle], cycle + 1, after2)
<1>. DEFINE blocks2 == [blocks EXCEPT ![x] = b]
            last2 == [last EXCEPT ![x] = cycle]
<1>1. \A w \in Way : /\ blocks2[w] = IF w = x THEN b ELSE blocks[w]
                     /\ last2[w] = IF w = x THEN cycle ELSE last[w]
                     /\ last[w] \in Nat
  OBVIOUS
<1>. HIDE DEF blocks2, last2
<1>2. ASSUME NEW w \in Way, blocks2[w] # Policies!NoBlock PROVE last2[w] < cycle + 1
  BY <1>1, <1>2 DEF Ordered
<1>3. ASSUME NEW v \in Way, NEW w \in Way, blocks2[v] # Policies!NoBlock, blocks2[w] # Policies!NoBlock, v # w
      PROVE  last2[v] # last2[w] /\ (last2[v] < last2[w] => blocks2[w] \in after2[blocks2[v]])
  <2>1. CASE v = x
    <3>1. last2[v] = cycle /\ last2[w] = last[w] /\ last[w] < cycle /\ last[w] \in Nat
      BY <1>1, <1>3, <2>1 DEF Ordered
    <3>. QED  BY <3>1
  <2>2. CASE w = x
    <3>1. last2[w] = cycle /\ last2[v] = last[v] /\ last[v] < cycle /\ last[v] \in Nat
      BY <1>1, <1>3, <2>2 DEF Ordered
    <3>2. blocks2[w] = b /\ blocks2[v] = blocks[v]
      BY <1>1, <1>3, <2>2
    <3>. QED  BY <1>3, <2>2, <3>1, <3>2
  <2>3. CASE v # x /\ w # x
    BY <1>1, <1>3, <2>3 DEF Ordered
  <2>. QED  BY <2>1, <2>2, <2>3
<1>4. Ordered(blocks2, last2, cycle + 1, after2)
  BY <1>2, <1>3 DEF Ordered
<1>. QED  BY <1>4 DEF blocks2, last2

LEMMA UseLruInv ==
  ASSUME PolicyAssumption, PolicyInv, LruInv, policy = "lru", policy' = policy,
         NEW b \in Policies!Block, NEW x \in Way, NEW gone,
         \A w \in Way : w # x => block[SetOf[b]][w] # b,
         gone = block[SetOf[b]][x] \/ (gone = Policies!NoBlock /\ block[SetOf[b]][x] = b),
         block' = [block EXCEPT ![SetOf[b]] = [block[SetOf[b]] EXCEPT ![x] = b]],
         table' = Policies!Used(table, SetOf[b], x), since' = Policies!SinceUse(b, gone),
         missing' \in SUBSET missing, b \notin missing'
  PROVE  LruInv'
<1>1. PICK s \in Policies!Set : s = SetOf[b]
  BY DEF Policies!Set
<1>2. /\ Resident /\ block \in [Policies!Set -> [Way -> Policies!Block \cup {Policies!NoBlock}]]
      /\ since \in [Policies!Block -> SUBSET Policies!Block]
      /\ \A t \in Policies!Set : Holds(block[t], t)
      /\ \A t \in Policies!Set : Ordered(block[t], table.last_used_cycles[t], table.cycle, since)
      /\ Policies!NoBlock \notin Policies!Block
  BY DEF LruInv, Resident, PolicyAssumption, Policies!Block
<1>3. /\ table.last_used_cycles \in [Policies!Set -> [Way -> Nat]] /\ table.cycle \in Nat
      /\ table'.last_used_cycles = [table.last_used_cycles EXCEPT ![s] = [table.last_used_cycles[s] EXCEPT ![x] = table.cycle]]
      /\ table'.cycle = table.cycle + 1
  BY <1>1 DEF PolicyInv, TableInv, Tables, Policies!Used
<1>4. /\ since' \in [Policies!Block -> SUBSET Policies!Block]
      /\ \A y \in Policies!Block : y \notin {b, gone} =>
           IF \E w \in Way : block[s][w] = y THEN since'[y] = (since[y] \ {gone}) \cup {b} ELSE since'[y] = since[y]
  BY <1>1, <1>2 DEF Policies!SinceUse, Way
<1>5. \A w \in Way : w # x /\ block[s][w] # Policies!NoBlock =>
        block[s][w] \in Policies!Block /\ block[s][w] \notin {b, gone}
  BY <1>1, <1>2 DEF Holds
<1>6. \A t \in Policies!Set, w \in Way : t # s /\ block[t][w] # Policies!NoBlock =>
        block[t][w] \in Policies!Block /\ since'[block[t][w]] = since[block[t][w]]
  <2>1. \A t \in Policies!Set, w \in Way : t # s /\ block[t][w] # Policies!NoBlock =>
          /\ block[t][w] \in Policies!Block /\ block[t][w] # b
          /\ \A v \in Way : block[s][v] # block[t][w]
    BY <1>1, <1>2 DEF Holds
  <2>2. gone \in {block[s][v] : v \in Way} \cup {Policies!NoBlock}
    BY <1>1
  <2>. QED  BY <1>4, <2>1, <2>2
<1>7. /\ block' \in [Policies!Set -> [Way -> Policies!Block \cup {Policies!NoBlock}]]
      /\ block'[s] = [block[s] EXCEPT ![x] = b] /\ \A t \in Policies!Set : t # s => block'[t] = block[t]
  <2>1. [block[s] EXCEPT ![x] = b] \in [Way -> Policies!Block \cup {Policies!NoBlock}]
    BY <1>2
  <2>2. PICK row \in [Way -> Policies!Block \cup {Policies!NoBlock}] : row = [block[s] EXCEPT ![x] = b]
    BY <2>1
  <2>3. block' = [block EXCEPT ![s] = row]
    BY <1>1, <2>2, Zenon
  <2>. QED  BY <1>2, <2>2, <2>3
<1>8. Resident'
  <2>1. ASSUME NEW t \in Policies!Set PROVE Holds(block'[t], t)
    <3>1. CASE t # s
      BY <1>2, <1>7, <3>1
    <3>2. CASE t = s
      <4>1. \A w \in Way : block'[s][w] = IF w = x THEN b ELSE block[s][w]
        BY <1>2, <1>7
      <4>2. Holds(block[s], s) /\ SetOf[b] = s /\ \A w \in Way : w # x => block[s][w] # b
        BY <1>1, <1>2
      <4>. QED  BY <3>2, <4>1, <4>2 DEF Holds
    <3>. QED  BY <3>1, <3>2
  <2>2. \A y \in missing', w \in Way : block'[SetOf[y]][w] # y
    <3>1. \A w \in Way : block'[s][w] = IF w = x THEN b ELSE block[s][w]
      BY <1>2, <1>7
    <3>2. \A y \in missing' : y # b /\ y \in missing /\ SetOf[y] \in Policies!Set
      BY <1>2 DEF Resident, Policies!Set
    <3>3. \A y \in missing, w \in Way : block[SetOf[y]][w] # y
      BY <1>2 DEF Resident
    <3>. QED  BY <1>7, <3>1, <3>2, <3>3
  <2>3. missing' \in SUBSET Policies!Block
    BY <1>2 DEF Resident
  <2>. QED  BY <1>4, <1>7, <2>1, <2>2, <2>3 DEF Resident
<1>9. ASSUME NEW t \in Policies!Set
      PROVE  Ordered(block'[t], table'.last_used_cycles[t], table'.cycle, since')
  <2>1. CASE t # s
    <3>1. block'[t] = block[t] /\ table'.last_used_cycles[t] = table.last_used_cycles[t]
      BY <1>3, <1>7, <2>1
    <3>2. \A w \in Way : block[t][w] # Policies!NoBlock => since'[block[t][w]] = since[block[t][w]]
      BY <1>6, <2>1
    <3>3. \A w \in Way : table.last_used_cycles[t][w] \in Nat
      BY <1>3
    <3>4. Ordered(block[t], table.last_used_cycles[t], table.cycle, since)
      BY <1>2
    <3>5. Ordered(block[t], table.last_used_cycles[t], table.cycle + 1, since')
      BY <1>3, <3>2, <3>3, <3>4 DEF Ordered
    <3>. QED  BY <1>3, <3>1, <3>5
  <2>2. CASE t = s
    <3>1. PICK blocks \in [Way -> Policies!Block \cup {Policies!NoBlock}], last \in [Way -> Nat],
               cycle \in Nat :
            blocks = block[s] /\ last = table.last_used_cycles[s] /\ cycle = table.cycle
      BY <1>2, <1>3
    <3>0. PICK after, after2 : after = since /\ after2 = since'
      OBVIOUS
    <3>2. Ordered(blocks, last, cycle, after)
      BY <1>2, <3>0, <3>1
    <3>3. ASSUME NEW w \in Way, blocks[w] # Policies!NoBlock, w # x
          PROVE  /\ b \in after2[blocks[w]]
                 /\ \A v \in Way : v # x /\ blocks[v] \in after[blocks[w]] => blocks[v] \in after2[blocks[w]]
      <4>1. blocks[w] \in Policies!Block /\ blocks[w] \notin {b, gone}
        BY <1>5, <3>1, <3>3
      <4>2. after2[blocks[w]] = (after[blocks[w]] \ {gone}) \cup {b}
        BY <1>4, <3>0, <3>1, <4>1
      <4>3. \A v \in Way : v # x /\ blocks[v] \in after[blocks[w]] => blocks[v] # gone
        <5>1. after[blocks[w]] \in SUBSET Policies!Block
          BY <1>2, <3>0, <3>1, <4>1
        <5>. QED  BY <1>2, <1>5, <3>1, <5>1
      <4>. QED  BY <4>2, <4>3
    <3>4. Ordered([blocks EXCEPT ![x] = b], [last EXCEPT ![x] = cycle], cycle + 1, after2)
      BY <3>2, <3>3, OrderedUse
    <3>5. /\ block'[t] = [blocks EXCEPT ![x] = b] /\ table'.last_used_cycles[t] = [last EXCEPT ![x] = cycle]
          /\ table'.cycle = cycle + 1 /\ since' = after2
      BY <1>3, <1>7, <2>2, <3>0, <3>1
    <3>. QED  BY <3>4, <3>5, Zenon
  <2>. QED  BY <2>1, <2>2
<1>. QED  BY <1>8, <1>9 DEF LruInv

LEMMA LruInit == ASSUME PolicyAssumption, Policies!Init PROVE LruInv
<1>1. /\ block = [s \in Policies!Set |-> [w \in Way |-> Policies!NoBlock]] /\ missing = {}
      /\ since = [b \in Policies!Block |-> {}]
  BY DEF Policies!Init, Way
<1>2. \A s \in Policies!Set, w \in Way : block[s][w] = Policies!NoBlock
  BY <1>1
<1>3. Resident
  BY <1>1, <1>2 DEF Resident, Holds
<1>4. \A s \in Policies!Set : Ordered(block[s], table.last_used_cycles[s], table.cycle, since)
  BY <1>2 DEF Ordered
<1>. QED  BY <1>3, <1>4 DEF LruInv

LEMMA TagCheckLruInv ==
  ASSUME PolicyAssumption, PolicyInv, LruInv, NEW c \in Sharer, NEW b \in Policies!Block,
         NEW type \in {"LOAD", "WRITE"}, Policies!TagCheck(c, b, type)
  PROVE  LruInv'
<1>. SUFFICES ASSUME policy' = "lru" PROVE LruInv'
  BY DEF LruInv
<1>. DEFINE s == SetOf[b]
            hit == Policies!Hits(b) # {}
            x == Policies!First(Policies!Hits(b))
<1>1. /\ policy = "lru" /\ policy' = policy /\ block' = block
      /\ missing' = (IF hit THEN missing ELSE missing \cup {b})
      /\ since' = (IF hit /\ type # "WRITE" THEN Policies!SinceUse(b, Policies!NoBlock) ELSE since)
  BY DEF Policies!TagCheck
<1>2. table' = IF hit /\ type # "WRITE" THEN Policies!Used(table, s, x) ELSE table
  BY <1>1 DEF Policies!TagCheck, Policies!impl_update_replacement_state, Policies!lru_update,
              Policies!has_cache_fill
<1>3. Resident /\ \A t \in Policies!Set : Ordered(block[t], table.last_used_cycles[t], table.cycle, since)
  BY <1>1 DEF LruInv
<1>4. s \in Policies!Set
  BY DEF Policies!Set
<1>. HIDE DEF s, hit
<1>5. CASE hit /\ type # "WRITE"
  <2>1. Policies!Hits(b) = {w \in Way : block[s][w] = b}
    BY DEF Policies!Hits, Way, s
  <2>2. x \in Policies!Hits(b)
    <3>1. Policies!Hits(b) \in SUBSET Way
      BY <2>1
    <3>. QED  BY <1>5, <3>1, FirstIs DEF hit
  <2>3. x \in Way /\ block[s][x] = b
    BY <2>1, <2>2
  <2>. HIDE DEF x
  <2>4. block \in [Policies!Set -> [Way -> Policies!Block \cup {Policies!NoBlock}]] /\ Holds(block[s], s)
        /\ Policies!NoBlock \notin Policies!Block
    BY <1>3, <1>4 DEF Resident, PolicyAssumption, Policies!Block
  <2>5. \A w \in Way : w # x => block[s][w] # b
    BY <2>3, <2>4 DEF Holds
  <2>6. block' = [block EXCEPT ![s] = [block[s] EXCEPT ![x] = b]]
    <3>1. [block[s] EXCEPT ![x] = b] = block[s]
      BY <1>4, <2>3, <2>4
    <3>2. [block EXCEPT ![s] = block[s]] = block
      BY <1>4, <2>4
    <3>. QED  BY <1>1, <3>1, <3>2, Zenon
  <2>7. missing' \in SUBSET missing /\ b \notin missing'
    BY <1>1, <1>3, <1>5, <2>3 DEF Resident, s
  <2>8. PICK gone : gone = Policies!NoBlock
    OBVIOUS
  <2>9. /\ gone = block[SetOf[b]][x] \/ (gone = Policies!NoBlock /\ block[SetOf[b]][x] = b)
        /\ since' = Policies!SinceUse(b, gone) /\ table' = Policies!Used(table, SetOf[b], x)
        /\ block' = [block EXCEPT ![SetOf[b]] = [block[SetOf[b]] EXCEPT ![x] = b]]
        /\ \A w \in Way : w # x => block[SetOf[b]][w] # b
    BY <1>1, <1>2, <1>5, <2>3, <2>5, <2>6, <2>8, Zenon DEF s
  <2>. QED  BY <1>1, <2>3, <2>7, <2>9, UseLruInv
<1>6. CASE ~(hit /\ type # "WRITE")
  <2>1. table' = table /\ since' = since
    BY <1>1, <1>2, <1>6
  <2>2. ~hit => \A w \in Way : block[s][w] # b
    BY DEF hit, Policies!Hits, Way, s
  <2>3. missing' \in SUBSET Policies!Block /\ \A y \in missing', w \in Way : block'[SetOf[y]][w] # y
    BY <1>1, <1>3, <2>2 DEF Resident, s
  <2>4. Resident'
    BY <1>1, <1>3, <2>1, <2>3 DEF Resident, Holds
  <2>5. \A t \in Policies!Set : Ordered(block'[t], table'.last_used_cycles[t], table'.cycle, since')
    BY <1>1, <1>3, <2>1, Zenon
  <2>. QED  BY <2>4, <2>5 DEF LruInv
<1>. QED  BY <1>5, <1>6

LEMMA FillLruInv ==
  ASSUME PolicyAssumption, PolicyInv, LruInv, NEW c \in Sharer, NEW b \in Policies!Block,
         NEW type \in {"LOAD", "WRITE"}, Policies!Fill(c, b, type)
  PROVE  LruInv'
<1>. SUFFICES ASSUME policy' = "lru" PROVE LruInv'
  BY DEF LruInv
<1>. DEFINE s == SetOf[b]
            free == {v \in Way : block[s][v] = Policies!NoBlock}
            x == IF Policies!Full(s) THEN Policies!Victim(table, s) ELSE Policies!First(free)
<1>1. /\ policy = "lru" /\ policy' = policy /\ b \in missing /\ missing' = missing \ {b}
      /\ block' = [block EXCEPT ![s] = [block[s] EXCEPT ![x] = b]]
      /\ since' = Policies!SinceUse(b, block[s][x])
  <2>1. block' = [block EXCEPT ![s][x] = b]
    BY Zenon DEF Policies!Fill, Way
  <2>2. since' = Policies!SinceUse(b, block[s][x])
    BY Zenon DEF Policies!Fill, Way
  <2>3. policy' = policy /\ b \in missing /\ missing' = missing \ {b}
    BY DEF Policies!Fill
  <2>. HIDE DEF x, s
  <2>. QED  BY <2>1, <2>2, <2>3
<1>2. table' = Policies!Used(table, s, x)
  <2>1. Policies!Aged(table, s) = table
    BY <1>1 DEF Policies!Aged
  <2>2. \A t, w : Policies!impl_replacement_cache_fill(t, c, s, w, b, type) = Policies!Used(t, s, w)
    BY <1>1 DEF Policies!impl_replacement_cache_fill
  <2>. QED  BY <2>1, <2>2, Zenon DEF Policies!Fill, Way
<1>3. x \in Way
  <2>1. CASE Policies!Full(s)
    <3>1. table.last_used_cycles[s] \in [Way -> Nat]
      BY DEF PolicyInv, TableInv, Tables, Policies!Set
    <3>. QED  BY <1>1, <2>1, <3>1, SmallestIs DEF Policies!Victim
  <2>2. CASE ~Policies!Full(s)
    <3>1. free # {} /\ free \in SUBSET Way
      BY <2>2 DEF Policies!Full, Way
    <3>2. x = Policies!First(free)
      BY <2>2
    <3>. HIDE DEF free, x
    <3>. QED  BY <3>1, <3>2, FirstIs
  <2>. QED  BY <2>1, <2>2
<1>. HIDE DEF x
<1>4. \A w \in Way : block[s][w] # b
  BY <1>1 DEF LruInv, Resident
<1>5. PICK gone : gone = block[s][x]
  OBVIOUS
<1>6. /\ gone = block[SetOf[b]][x] \/ (gone = Policies!NoBlock /\ block[SetOf[b]][x] = b)
      /\ since' = Policies!SinceUse(b, gone) /\ table' = Policies!Used(table, SetOf[b], x)
      /\ block' = [block EXCEPT ![SetOf[b]] = [block[SetOf[b]] EXCEPT ![x] = b]]
      /\ \A w \in Way : w # x => block[SetOf[b]][w] # b
  <2>1. since' = Policies!SinceUse(b, gone)
    BY <1>1, <1>5
  <2>2. block' = [block EXCEPT ![SetOf[b]] = [block[SetOf[b]] EXCEPT ![x] = b]]
    BY <1>1, Zenon
  <2>3. table' = Policies!Used(table, SetOf[b], x)
    BY <1>2, Zenon
  <2>4. \A w \in Way : w # x => block[SetOf[b]][w] # b
    BY <1>4, Zenon
  <2>5. gone = block[SetOf[b]][x]
    BY <1>5, Zenon
  <2>. QED  BY <2>1, <2>2, <2>3, <2>4, <2>5, Zenon
<1>7. missing' \in SUBSET missing /\ b \notin missing'
  BY <1>1
<1>. QED  BY <1>1, <1>3, <1>6, <1>7, UseLruInv

LEMMA LruInvHolds == PolicyAssumption => (Policies!Spec => []LruInv)
<1>. SUFFICES ASSUME PolicyAssumption PROVE Policies!Spec => []LruInv
  OBVIOUS
<1>1. Policies!Init => LruInv
  BY LruInit
<1>2. PolicyInv /\ LruInv /\ [Policies!Next]_(Policies!vars) => LruInv'
  <2>1. ASSUME PolicyInv, LruInv, NEW b \in Policies!Block, Policies!FillRefused(b) PROVE LruInv'
    BY <2>1 DEF Policies!FillRefused, Policies!Aged, LruInv, Resident, Holds, Ordered
  <2>2. ASSUME PolicyInv, LruInv, Policies!Next PROVE LruInv'
    BY <2>1, <2>2, TagCheckLruInv, FillLruInv DEF Policies!Next
  <2>3. ASSUME PolicyInv, LruInv, UNCHANGED Policies!vars PROVE LruInv'
    BY <2>3 DEF Policies!vars, LruInv, Resident, Holds, Ordered
  <2>. QED  BY <2>2, <2>3
<1>. QED  BY <1>1, <1>2, PolicyInvHolds, PTL DEF Policies!Spec

(* lru: the victim of a full set is the block that has been neither filled   *)
(* nor read for longest, for writes from above do not count                 *)
(* (lru::update_replacement_state and lru::find_victim).                   *)
THEOREM VictimsUnusedLongest == PolicyAssumption => (Policies!Spec => []Policies!VictimUnusedLongest)
<1>. SUFFICES ASSUME PolicyAssumption PROVE Policies!Spec => []Policies!VictimUnusedLongest
  OBVIOUS
<1>1. ASSUME PolicyInv, LruInv PROVE Policies!VictimUnusedLongest
  <2>. SUFFICES ASSUME policy = "lru", NEW s \in Policies!Set, Policies!Full(s), NEW w \in Policies!Way,
                       w # Policies!Victim(table, s)
                PROVE  block[s][w] \in since[block[s][Policies!Victim(table, s)]]
    BY DEF Policies!VictimUnusedLongest
  <2>1. table.last_used_cycles[s] \in [Way -> Nat]
    BY <1>1 DEF PolicyInv, TableInv, Tables
  <2>2. PICK last \in [Way -> Nat], v \in Way :
          /\ last = table.last_used_cycles[s] /\ v = Policies!Victim(table, s)
          /\ \A y \in Way : last[v] <= last[y]
    BY <2>1, SmallestIs DEF Policies!Victim
  <2>3. block[s][v] # Policies!NoBlock /\ block[s][w] # Policies!NoBlock /\ w \in Way
    BY <2>2 DEF Policies!Full, Way
  <2>4. Ordered(block[s], last, table.cycle, since)
    BY <1>1, <2>2 DEF LruInv
  <2>5. last[v] # last[w] /\ (last[v] < last[w] => block[s][w] \in since[block[s][v]])
    BY <2>2, <2>3, <2>4 DEF Ordered
  <2>6. last[v] < last[w]
    BY <2>2, <2>3, <2>5
  <2>. QED  BY <2>2, <2>5, <2>6
<1>. QED  BY <1>1, PolicyInvHolds, LruInvHolds, PTL

-----------------------------------------------------------------------------
(* The sampled sets of drrip and ship: of every `rate` sets one is a leader of *)
(* a kind, so a leader has its number as an index.                         *)
Leaders(n, rate, kind) == {set \in 0 .. rate * n - 1 : Policies!Category(set, rate) = kind}

LeaderAt(rate, kind, k) == rate * k + ((k + kind) % rate)

LEMMA LeaderOf ==
  ASSUME NEW rate \in {4, 8, 16}, NEW n \in Nat, NEW kind \in {0, 1}, NEW k \in 0 .. n - 1,
         NEW set, set = LeaderAt(rate, kind, k)
  PROVE  set \in Leaders(n, rate, kind) /\ set \div rate = k
<1>. DEFINE m == (k + kind) % rate
<1>0. set = rate * k + m
  BY Zenon DEF LeaderAt
<1>1. m \in 0 .. rate - 1 /\ k \in Int
  <2>1. \A r \in {4, 8, 16}, a \in Int : a % r \in 0 .. r - 1
    OBVIOUS
  <2>2. k + kind \in Int /\ k \in Int
    OBVIOUS
  <2>. QED  BY <2>1, <2>2, Zenon
<1>2. set \in 0 .. rate * n - 1 /\ set \div rate = k /\ set % rate = m
  <2>. HIDE DEF m
  <2>1. CASE rate = 4
    BY <1>0, <1>1, <2>1
  <2>2. CASE rate = 8
    BY <1>0, <1>1, <2>2
  <2>3. CASE rate = 16
    BY <1>0, <1>1, <2>3
  <2>. QED  BY <2>1, <2>2, <2>3
<1>3. (rate + m - (k % rate)) % rate = kind
  <2>1. CASE rate = 4
    BY <2>1
  <2>2. CASE rate = 8
    BY <2>2
  <2>3. CASE rate = 16
    BY <2>3
  <2>. QED  BY <2>1, <2>2, <2>3
<1>. HIDE DEF m
<1>4. Policies!Category(set, rate) = kind
  BY <1>2, <1>3 DEF Policies!Category
<1>5. set \in Leaders(n, rate, kind)
  BY <1>2, <1>4 DEF Leaders
<1>. QED  BY <1>2, <1>5

LEMMA LeaderIs ==
  ASSUME NEW rate \in {4, 8, 16}, NEW n \in Nat, NEW kind \in {0, 1}, NEW set \in Leaders(n, rate, kind),
         NEW k, k = set \div rate
  PROVE  k \in 0 .. n - 1 /\ set = LeaderAt(rate, kind, k)
<1>. DEFINE m == set % rate
<1>1. set \in 0 .. rate * n - 1 /\ (rate + m - (k % rate)) % rate = kind
  BY DEF Leaders, Policies!Category
<1>2. k \in 0 .. n - 1 /\ set = rate * k + m /\ m \in 0 .. rate - 1
  <2>1. CASE rate = 4
    BY <1>1, <2>1
  <2>2. CASE rate = 8
    BY <1>1, <2>2
  <2>3. CASE rate = 16
    BY <1>1, <2>3
  <2>. QED  BY <2>1, <2>2, <2>3
<1>. HIDE DEF m
<1>3. m = (k + kind) % rate
  <2>1. CASE rate = 4
    BY <1>1, <1>2, <2>1
  <2>2. CASE rate = 8
    BY <1>1, <1>2, <2>2
  <2>3. CASE rate = 16
    BY <1>1, <1>2, <2>3
  <2>. QED  BY <2>1, <2>2, <2>3
<1>4. k \in 0 .. n - 1
  BY <1>2
<1>5. set = LeaderAt(rate, kind, k)
  BY <1>2, <1>3 DEF LeaderAt
<1>. QED  BY <1>4, <1>5

LEMMA LeadersAre ==
  ASSUME NEW rate \in {4, 8, 16}, NEW n \in Nat, NEW kind \in {0, 1}
  PROVE  /\ {set \div rate : set \in Leaders(n, rate, kind)} = 0 .. n - 1
         /\ Cardinality(Leaders(n, rate, kind)) = n
<1>. DEFINE f == [k \in 0 .. n - 1 |-> LeaderAt(rate, kind, k)]
<1>1. \A k \in 0 .. n - 1 : f[k] \in Leaders(n, rate, kind) /\ f[k] \div rate = k
  <2>1. \A k \in 0 .. n - 1 : f[k] = LeaderAt(rate, kind, k)
    OBVIOUS
  <2>. HIDE DEF f
  <2>. SUFFICES ASSUME NEW k \in 0 .. n - 1 PROVE f[k] \in Leaders(n, rate, kind) /\ f[k] \div rate = k
    OBVIOUS
  <2>2. PICK set : set = f[k]
    OBVIOUS
  <2>3. set = LeaderAt(rate, kind, k)
    BY <2>1, <2>2, Zenon
  <2>4. set \in Leaders(n, rate, kind) /\ set \div rate = k
    BY <2>3, LeaderOf
  <2>. QED  BY <2>2, <2>4
<1>2. \A set \in Leaders(n, rate, kind) : set \div rate \in 0 .. n - 1 /\ f[set \div rate] = set
  <2>1. \A set \in Leaders(n, rate, kind) :
          set \div rate \in 0 .. n - 1 /\ set = LeaderAt(rate, kind, set \div rate)
    <3>. SUFFICES ASSUME NEW set \in Leaders(n, rate, kind)
                  PROVE  set \div rate \in 0 .. n - 1
                         /\ set = LeaderAt(rate, kind, set \div rate)
      OBVIOUS
    <3>1. PICK k : k = set \div rate
      OBVIOUS
    <3>2. k \in 0 .. n - 1 /\ set = LeaderAt(rate, kind, k)
      BY <3>1, LeaderIs
    <3>. QED  BY <3>1, <3>2, Zenon
  <2>. QED  BY <2>1
<1>3. DOMAIN f = 0 .. n - 1 /\ f = [k \in 0 .. n - 1 |-> f[k]]
  OBVIOUS
<1>. HIDE DEF f
<1>4. f \in [0 .. n - 1 -> Leaders(n, rate, kind)]
  BY <1>1, <1>3
<1>5. f \in Bijection(0 .. n - 1, Leaders(n, rate, kind))
  <2>1. \A j, k \in 0 .. n - 1 : f[j] = f[k] => j = k
    BY <1>1, Zenon
  <2>2. \A set \in Leaders(n, rate, kind) : \E k \in 0 .. n - 1 : f[k] = set
    BY <1>2, Zenon
  <2>. QED  BY <1>3, <1>4, <2>1, <2>2, Zenon DEF Bijection, Injection, Surjection, IsInjective
<1>6. Cardinality(Leaders(n, rate, kind)) = Cardinality(0 .. n - 1)
  <2>1. IsFiniteSet(0 .. n - 1)
    BY FS_Interval
  <2>. QED  BY <1>5, <2>1, FS_Bijection, Zenon DEF ExistsBijection
<1>7. Cardinality(0 .. n - 1) = n
  <2>1. n - 1 \in Int /\ (0 > n - 1 <=> n = 0) /\ (n - 1) - 0 + 1 = n
    OBVIOUS
  <2>2. Cardinality(0 .. n - 1) = IF 0 > n - 1 THEN 0 ELSE (n - 1) - 0 + 1
    BY <2>1, FS_Interval
  <2>. QED  BY <2>1, <2>2, Zenon
<1>8. {set \div rate : set \in Leaders(n, rate, kind)} = 0 .. n - 1
  BY <1>1, <1>2, Zenon
<1>. QED  BY <1>6, <1>7, <1>8, Zenon

(* As many sets of every kind are sampled as get_num_sampled_sets says, each  *)
(* with an index of its own (modules.cc, ship.cc:48).                      *)
LEMMA SampledApart == Policies!SetsSampledApart
<1>. SUFFICES ASSUME NEW sets \in {8, 16, 32, 64, 128, 256, 512}
     PROVE  /\ {Policies!SampleOf(set, sets) : set \in Policies!Sampled(sets)} = 0 .. Policies!SampledSets(sets) - 1
            /\ Policies!Cardinality(Policies!Sampled(sets)) = Policies!SampledSets(sets)
            /\ Policies!Cardinality({set \in 0 .. sets - 1 :
                                       Policies!Category(set, Policies!SampleRate(sets)) = 1})
                 = Policies!SampledSets(sets)
  BY Zenon DEF Policies!SetsSampledApart
<1>1. PICK rate \in {4, 8, 16}, n \in Nat :
        rate = Policies!SampleRate(sets) /\ sets = rate * n /\ n = Policies!SampledSets(sets)
  <2>1. CASE sets \in {8, 16, 32}
    <3>1. Policies!SampleRate(sets) = 4 /\ sets \div 4 \in Nat /\ sets = 4 * (sets \div 4)
      BY <2>1 DEF Policies!SampleRate
    <3>. QED  BY <3>1 DEF Policies!SampledSets
  <2>2. CASE sets \in {64, 128}
    <3>1. Policies!SampleRate(sets) = 8 /\ sets \div 8 \in Nat /\ sets = 8 * (sets \div 8)
      BY <2>2 DEF Policies!SampleRate
    <3>. QED  BY <3>1 DEF Policies!SampledSets
  <2>3. CASE sets \in {256, 512}
    <3>1. Policies!SampleRate(sets) = 16 /\ sets \div 16 \in Nat /\ sets = 16 * (sets \div 16)
      BY <2>3 DEF Policies!SampleRate
    <3>. QED  BY <3>1 DEF Policies!SampledSets
  <2>. QED  BY <2>1, <2>2, <2>3
<1>2. /\ Policies!Sampled(sets) = Leaders(n, rate, 0)
      /\ {set \in 0 .. sets - 1 : Policies!Category(set, Policies!SampleRate(sets)) = 1} = Leaders(n, rate, 1)
      /\ {Policies!SampleOf(set, sets) : set \in Policies!Sampled(sets)} = {set \div rate : set \in Leaders(n, rate, 0)}
  BY <1>1, Zenon DEF Policies!Sampled, Policies!SampleOf, Leaders
<1>3. /\ {set \div rate : set \in Leaders(n, rate, 0)} = 0 .. n - 1
      /\ Policies!Cardinality(Leaders(n, rate, 0)) = n /\ Policies!Cardinality(Leaders(n, rate, 1)) = n
  <2>1. \A kind \in {0, 1} : /\ {set \div rate : set \in Leaders(n, rate, kind)} = 0 .. n - 1
                              /\ Cardinality(Leaders(n, rate, kind)) = n
    BY LeadersAre
  <2>2. 0 \in {0, 1} /\ 1 \in {0, 1}
    OBVIOUS
  <2>. QED  BY <2>1, <2>2, SameCardinality, Zenon
<1>. QED  BY <1>1, <1>2, <1>3, Zenon

(* In every order of hits, misses, refused fills and fills, lru finds the      *)
(* block that was unused for longest, and the others keep their predictions *)
(* in range and find again the victim of a fill that was refused, with one  *)
(* entry for a block in a sampler and a place for every sampled set         *)
(* (replacement/lru, srrip, drrip and ship).                               *)
THEOREM VictimsAlwaysRight == PolicyAssumption => (PartsSpec => []VictimsRight)
<1>. SUFFICES ASSUME PolicyAssumption PROVE PartsSpec => []VictimsRight
  OBVIOUS
<1>1. Policies!SetsSampledApart
  BY SampledApart
<1>2. /\ Policies!VictimUnusedLongest /\ Policies!RrpvInRange /\ Policies!VictimAwaited
      /\ Policies!SampledOnce /\ Policies!SetsSampledApart
      => VictimsRight
  BY Zenon DEF VictimsRight, Policies!VictimsRight, Policies!PredictionsKept
<1>. QED  BY <1>1, <1>2, PartsAlone, VictimsUnusedLongest, PredictionsInRange, VictimsAwaited,
             BlocksSampledOnce, PTL

-----------------------------------------------------------------------------
(* lru_table (LruTable), for tables of every size.                         *)

(* The set of an element is a set of the table; a block that was not filled  *)
(* has an element of its own.                                              *)
TableAssumption ==
  /\ NUM_WAY \in Nat /\ MAX_USES \in Nat /\ Default \in Elem
  /\ \A e \in Elem : TableSetOf[e.tag] \in TableSet

LruRow == [1 .. NUM_WAY -> [last_used : Nat, data : Elem]]
ValidIn(b) == {w \in 1 .. NUM_WAY : b[w].last_used > 0}
Later(b, w) == {v \in ValidIn(b) : b[v].last_used >= b[w].last_used}
RankIn(b, w) == Cardinality(Later(b, w))

(* No two valid blocks of a set have the same tag or were used at a time.   *)
RowInv(b, n) ==
  /\ b \in LruRow
  /\ \A v \in ValidIn(b) : b[v].last_used <= n
  /\ \A v, w \in ValidIn(b) : v # w => b[v].last_used # b[w].last_used /\ b[v].data.tag # b[w].data.tag

LEMMA RanksOrdered ==
  ASSUME NUM_WAY \in Nat, NEW n, NEW b, RowInv(b, n)
  PROVE  /\ IsFiniteSet(ValidIn(b)) /\ Cardinality(ValidIn(b)) \in Nat
         /\ \A w \in ValidIn(b) : RankIn(b, w) \in 1 .. Cardinality(ValidIn(b)) /\ IsFiniteSet(Later(b, w))
         /\ \A v, w \in ValidIn(b) : b[w].last_used < b[v].last_used => RankIn(b, v) < RankIn(b, w)
<1>1. IsFiniteSet(1 .. NUM_WAY)
  BY FS_Interval
<1>2. ValidIn(b) \in SUBSET (1 .. NUM_WAY)
  BY DEF ValidIn
<1>3. IsFiniteSet(ValidIn(b))
  BY <1>1, <1>2, FS_Subset
<1>4. Cardinality(ValidIn(b)) \in Nat
  BY <1>3, FS_CardinalityType
<1>5. \A w \in ValidIn(b) : b[w].last_used \in Nat
  BY <1>2 DEF RowInv, LruRow
<1>6. ASSUME NEW w \in ValidIn(b)
      PROVE  IsFiniteSet(Later(b, w)) /\ RankIn(b, w) \in 1 .. Cardinality(ValidIn(b))
  <2>1. Later(b, w) \in SUBSET ValidIn(b) /\ w \in Later(b, w)
    BY <1>5 DEF Later
  <2>2. IsFiniteSet(Later(b, w)) /\ Cardinality(Later(b, w)) <= Cardinality(ValidIn(b))
    BY <1>3, <2>1, FS_Subset
  <2>3. Cardinality(Later(b, w)) \in Nat /\ Cardinality(Later(b, w)) # 0
    BY <2>1, <2>2, FS_CardinalityType, FS_EmptySet
  <2>. QED  BY <1>4, <2>2, <2>3 DEF RankIn
<1>7. ASSUME NEW v \in ValidIn(b), NEW w \in ValidIn(b), b[w].last_used < b[v].last_used
      PROVE  RankIn(b, v) < RankIn(b, w)
  <2>1. Later(b, v) \in SUBSET Later(b, w) /\ w \in Later(b, w) /\ w \notin Later(b, v)
    BY <1>5, <1>7 DEF Later
  <2>2. /\ IsFiniteSet(Later(b, w)) /\ Cardinality(Later(b, v)) <= Cardinality(Later(b, w))
        /\ Cardinality(Later(b, w)) # Cardinality(Later(b, v))
    <3>1. IsFiniteSet(Later(b, w)) /\ Later(b, w) # Later(b, v)
      BY <1>6, <2>1
    <3>. QED  BY <2>1, <3>1, FS_Subset
  <2>3. RankIn(b, v) \in Nat /\ RankIn(b, w) \in Nat
    BY <1>6
  <2>. QED  BY <2>2, <2>3 DEF RankIn
<1>. QED  BY <1>3, <1>4, <1>6, <1>7

(* Every place of the list is that of one block.                           *)
LEMMA RanksAre ==
  ASSUME NUM_WAY \in Nat, NEW n, NEW b, RowInv(b, n)
  PROVE  /\ Cardinality(ValidIn(b)) \in Nat
         /\ \A w \in ValidIn(b) : RankIn(b, w) \in 1 .. Cardinality(ValidIn(b))
         /\ \A v, w \in ValidIn(b) : v # w => RankIn(b, v) # RankIn(b, w)
         /\ \A v, w \in ValidIn(b) : b[w].last_used < b[v].last_used <=> RankIn(b, v) < RankIn(b, w)
         /\ \A i \in 1 .. Cardinality(ValidIn(b)) : \E w \in ValidIn(b) : RankIn(b, w) = i
<1>. DEFINE V == ValidIn(b)
            N == Cardinality(V)
<1>1. /\ IsFiniteSet(V) /\ N \in Nat /\ \A w \in V : RankIn(b, w) \in 1 .. N
      /\ \A v, w \in V : b[w].last_used < b[v].last_used => RankIn(b, v) < RankIn(b, w)
  BY RanksOrdered
<1>2. /\ \A w \in V : b[w].last_used \in Nat
      /\ \A v, w \in V : v # w => b[v].last_used # b[w].last_used
  BY DEF RowInv, LruRow, ValidIn
<1>. HIDE DEF V, N
<1>3. \A v, w \in V : RankIn(b, v) \in Nat /\ RankIn(b, w) \in Nat
  BY <1>1
<1>4. \A v, w \in V : v # w => RankIn(b, v) # RankIn(b, w)
  <2>. SUFFICES ASSUME NEW v \in V, NEW w \in V, v # w PROVE RankIn(b, v) # RankIn(b, w)
    OBVIOUS
  <2>1. b[w].last_used < b[v].last_used \/ b[v].last_used < b[w].last_used
    BY <1>2
  <2>. QED  BY <1>1, <1>3, <2>1
<1>5. \A v, w \in V : b[w].last_used < b[v].last_used <=> RankIn(b, v) < RankIn(b, w)
  <2>. SUFFICES ASSUME NEW v \in V, NEW w \in V, RankIn(b, v) < RankIn(b, w)
                PROVE  b[w].last_used < b[v].last_used
    BY <1>1
  <2>1. v # w
    BY <1>3
  <2>2. b[w].last_used < b[v].last_used \/ b[v].last_used < b[w].last_used
    BY <1>2, <2>1
  <2>. QED  BY <1>1, <1>3, <2>2
<1>6. \A i \in 1 .. N : \E w \in V : RankIn(b, w) = i
  <2>. DEFINE f == [w \in V |-> RankIn(b, w)]
  <2>1. f \in [V -> 1 .. N] /\ \A v, w \in V : f[v] = f[w] => v = w
    BY <1>1, <1>4
  <2>2. f \in Injection(V, 1 .. N)
    BY <2>1 DEF Injection, IsInjective
  <2>3. IsFiniteSet(1 .. N) /\ Cardinality(1 .. N) = N
    BY <1>1, FS_Interval
  <2>4. Cardinality(V) = Cardinality(1 .. N)
    BY <2>3 DEF N
  <2>5. f \in Surjection(V, 1 .. N)
    BY <2>2, <2>3, <2>4, FS_Injection
  <2>6. \A i \in 1 .. N : \E w \in V : f[w] = i
    BY <2>5 DEF Surjection
  <2>. QED  BY <2>6
<1>. QED  BY <1>1, <1>4, <1>5, <1>6 DEF V, N

(* The list of a set, the latest used first.                               *)
Listing(q, b) ==
  /\ q \in Seq(Elem) /\ Len(q) = Cardinality(ValidIn(b))
  /\ \A w \in ValidIn(b) : q[RankIn(b, w)] = b[w].data

LEMMA ListingIsOne ==
  ASSUME NUM_WAY \in Nat, NEW n, NEW b, RowInv(b, n), NEW p, NEW q, Listing(p, b), Listing(q, b)
  PROVE  p = q
<1>1. Len(p) = Len(q) /\ Len(p) = Cardinality(ValidIn(b)) /\ Len(p) \in Nat
  BY RanksAre DEF Listing
<1>2. \A i \in 1 .. Len(p) : p[i] = q[i]
  BY <1>1, RanksAre DEF Listing
<1>3. p \in Seq(Elem) /\ q \in Seq(Elem)
  BY DEF Listing
<1>. QED  BY <1>1, <1>2, <1>3, SeqEqual

LEMMA SameCardinalityLru == \A S : Table!Cardinality(S) = Cardinality(S)
BY Zenon DEF Table!Cardinality, Cardinality

LEMMA ListedIs ==
  ASSUME NUM_WAY \in Nat, NEW n, NEW s \in TableSet, RowInv(lru_block[s], n)
  PROVE  Listing(Table!Listed(s), lru_block[s])
<1>. DEFINE b == lru_block[s]
            N == Cardinality(ValidIn(b))
            F(i) == b[Table!WayAt(s, i)].data
<1>1. Table!Valid(s) = ValidIn(b) /\ \A w \in ValidIn(b) : Table!Rank(s, w) = RankIn(b, w)
  BY SameCardinalityLru DEF Table!Valid, Table!Way, ValidIn, Table!Rank, RankIn, Later
<1>2. Table!Listed(s) = [i \in 1 .. N |-> F(i)]
  <2>1. Table!Cardinality(Table!Valid(s)) = N
    BY <1>1, SameCardinalityLru
  <2>. QED  BY <2>1 DEF Table!Listed
<1>3. /\ N \in Nat
      /\ \A v, w \in ValidIn(b) : v # w => RankIn(b, v) # RankIn(b, w)
      /\ \A w \in ValidIn(b) : RankIn(b, w) \in 1 .. N
      /\ \A i \in 1 .. N : \E w \in ValidIn(b) : RankIn(b, w) = i
  BY RanksAre
<1>4. \A w \in ValidIn(b) : b[w].data \in Elem
  BY DEF RowInv, LruRow, ValidIn
<1>. HIDE DEF b, N
<1>11. \A w \in ValidIn(b) : Table!WayAt(s, RankIn(b, w)) = w
  BY <1>1, <1>3 DEF Table!WayAt
<1>12. \A i \in 1 .. N : Table!WayAt(s, i) \in ValidIn(b)
  BY <1>1, <1>3 DEF Table!WayAt
<1>5. \A w \in ValidIn(b) : F(RankIn(b, w)) = b[w].data
  BY <1>11
<1>6. \A i \in 1 .. N : F(i) \in Elem
  BY <1>4, <1>12
<1>7. [i \in 1 .. N |-> F(i)] \in [1 .. N -> Elem]
  BY <1>6
<1>8. [i \in 1 .. N |-> F(i)] \in Seq(Elem) /\ Len([i \in 1 .. N |-> F(i)]) = N
  <2>. DEFINE g == [i \in 1 .. N |-> F(i)]
  <2>1. g \in [1 .. N -> Elem]
    BY <1>7
  <2>. HIDE DEF g
  <2>2. g \in Seq(Elem)
    BY <1>3, <2>1, SeqDef
  <2>3. Len(g) = N
    BY <1>3, <2>1, <2>2, LenProperties
  <2>. QED  BY <2>2, <2>3 DEF g
<1>9. \A w \in ValidIn(b) : [i \in 1 .. N |-> F(i)][RankIn(b, w)] = b[w].data
  BY <1>3, <1>5
<1>10. Listing([i \in 1 .. N |-> F(i)], b)
  <2>. HIDE DEF F
  <2>. QED  BY <1>8, <1>9, Zenon DEF Listing, N
<1>. QED  BY <1>2, <1>10, Zenon DEF b

(* p is q without its place r, if it has one; and with e before the others. *)
TakenOut(p, q, r, S) ==
  /\ p \in Seq(S) /\ Len(p) = IF r \in 1 .. Len(q) THEN Len(q) - 1 ELSE Len(q)
  /\ \A k \in 1 .. Len(q) : (k < r => p[k] = q[k]) /\ (k > r => p[k - 1] = q[k])
PutFirst(p, q, e, r, S) ==
  /\ p \in Seq(S) /\ Len(p) = IF r \in 1 .. Len(q) THEN Len(q) ELSE Len(q) + 1
  /\ p[1] = e
  /\ \A k \in 1 .. Len(q) : (k < r => p[k + 1] = q[k]) /\ (k > r => p[k] = q[k])

LEMMA RemovedIs ==
  ASSUME NEW S, NEW q \in Seq(S), NEW r \in 1 .. Len(q)
  PROVE  TakenOut(SubSeq(q, 1, r - 1) \o SubSeq(q, r + 1, Len(q)), q, r, S)
<1>1. Len(q) \in Nat /\ r \in Nat /\ 1 <= r /\ r <= Len(q) /\ \A i \in 1 .. Len(q) : q[i] \in S
  BY LenProperties, ElementOfSeq
<1>. DEFINE a == SubSeq(q, 1, r - 1)
            b == SubSeq(q, r + 1, Len(q))
<1>2. a \in Seq(S) /\ Len(a) = r - 1 /\ \A i \in 1 .. r - 1 : a[i] = q[i]
  <2>1. /\ a \in Seq(S) /\ Len(a) = (IF 1 <= r - 1 THEN (r - 1) - 1 + 1 ELSE 0)
        /\ \A i \in 1 .. (r - 1) - 1 + 1 : a[i] = q[1 + i - 1]
    <3>1. \A i \in 1 .. r - 1 : q[i] \in S
      BY <1>1
    <3>2. 1 \in Int /\ r - 1 \in Int
      BY <1>1
    <3>. QED  BY <3>1, <3>2, SubSeqProperties
  <2>. HIDE DEF a
  <2>. QED  BY <1>1, <2>1
<1>3. b \in Seq(S) /\ Len(b) = Len(q) - r /\ \A i \in 1 .. Len(q) - r : b[i] = q[r + i]
  <2>1. /\ b \in Seq(S) /\ Len(b) = (IF r + 1 <= Len(q) THEN Len(q) - (r + 1) + 1 ELSE 0)
        /\ \A i \in 1 .. Len(q) - (r + 1) + 1 : b[i] = q[(r + 1) + i - 1]
    <3>1. \A i \in r + 1 .. Len(q) : q[i] \in S
      BY <1>1
    <3>2. Len(q) \in Int /\ r + 1 \in Int
      BY <1>1
    <3>. QED  BY <3>1, <3>2, SubSeqProperties
  <2>. HIDE DEF b
  <2>. QED  BY <1>1, <2>1
<1>. HIDE DEF a, b
<1>4. /\ a \o b \in Seq(S) /\ Len(a \o b) = Len(a) + Len(b)
      /\ \A i \in 1 .. Len(a) + Len(b) : (a \o b)[i] = IF i <= Len(a) THEN a[i] ELSE b[i - Len(a)]
  BY <1>2, <1>3, ConcatProperties
<1>5. ASSUME NEW k \in 1 .. Len(q), k < r PROVE (a \o b)[k] = q[k]
  <2>1. k \in 1 .. Len(a) + Len(b) /\ k <= Len(a) /\ k \in 1 .. r - 1
    BY <1>1, <1>2, <1>3, <1>5
  <2>. QED  BY <1>2, <1>4, <2>1
<1>6. ASSUME NEW k \in 1 .. Len(q), k > r PROVE (a \o b)[k - 1] = q[k]
  <2>1. /\ k - 1 \in 1 .. Len(a) + Len(b) /\ ~(k - 1 <= Len(a)) /\ (k - 1) - Len(a) = k - r
        /\ k - r \in 1 .. Len(q) - r /\ r + (k - r) = k
    BY <1>1, <1>2, <1>3, <1>6
  <2>2. (a \o b)[k - 1] = b[k - r]
    BY <1>4, <2>1
  <2>3. b[k - r] = q[r + (k - r)]
    BY <1>3, <2>1
  <2>. QED  BY <2>1, <2>2, <2>3
<1>7. Len(a \o b) = Len(q) - 1
  BY <1>1, <1>2, <1>3, <1>4
<1>. QED  BY <1>4, <1>5, <1>6, <1>7 DEF TakenOut, a, b

(* An element before a list of which one may have been taken.              *)
LEMMA FrontedIs ==
  ASSUME NEW S, NEW q \in Seq(S), NEW r \in Nat \ {0}, NEW t, TakenOut(t, q, r, S), NEW e \in S
  PROVE  PutFirst(<<e>> \o t, q, e, r, S) /\ Len(<<e>> \o t) = Len(t) + 1
<1>1. Len(q) \in Nat /\ t \in Seq(S) /\ Len(t) \in Nat
  BY LenProperties DEF TakenOut
<1>2. <<e>> \in Seq(S) /\ Len(<<e>>) = 1
  OBVIOUS
<1>3. /\ <<e>> \o t \in Seq(S) /\ Len(<<e>> \o t) = 1 + Len(t)
      /\ \A i \in 1 .. 1 + Len(t) : (<<e>> \o t)[i] = IF i <= 1 THEN <<e>>[i] ELSE t[i - 1]
  BY <1>1, <1>2, ConcatProperties
<1>. PICK p : p = <<e>> \o t
  OBVIOUS
<1>4. \A i \in 1 .. 1 + Len(t) : p[i] = IF i <= 1 THEN <<e>>[i] ELSE t[i - 1]
  BY <1>3
<1>5. p[1] = e
  BY <1>1, <1>4
<1>6. ASSUME NEW k \in 1 .. Len(q), k < r PROVE p[k + 1] = q[k]
  <2>1. k + 1 \in 1 .. 1 + Len(t) /\ ~(k + 1 <= 1) /\ (k + 1) - 1 = k
    BY <1>1, <1>6 DEF TakenOut
  <2>. QED  BY <1>4, <1>6, <2>1 DEF TakenOut
<1>7. ASSUME NEW k \in 1 .. Len(q), k > r PROVE p[k] = q[k]
  <2>1. k \in 1 .. 1 + Len(t) /\ ~(k <= 1)
    BY <1>1, <1>7 DEF TakenOut
  <2>. QED  BY <1>4, <1>7, <2>1 DEF TakenOut
<1>. QED  BY <1>1, <1>3, <1>5, <1>6, <1>7 DEF TakenOut, PutFirst

Without(b, w, tag) == \A v \in ValidIn(b) : v # w => b[v].data.tag # tag
UsedAt(b, w, n, e) == [b EXCEPT ![w] = [last_used |-> n + 1, data |-> e]]

(* The row after the use of a way, which held the tag if another does not.  *)
LEMMA UsedRow ==
  ASSUME NUM_WAY \in Nat, NEW n \in Nat, NEW b, RowInv(b, n), NEW w \in 1 .. NUM_WAY, NEW e \in Elem,
         Without(b, w, e.tag), NEW c, c = UsedAt(b, w, n, e)
  PROVE  /\ RowInv(c, n + 1) /\ ValidIn(c) = ValidIn(b) \cup {w} /\ c[w].data = e
         /\ \A v \in ValidIn(b) : v # w => c[v] = b[v]
         /\ Later(c, w) = {w}
         /\ \A v \in ValidIn(b) : v # w => Later(c, v) = Later(b, v) \cup {w}
<1>1. b \in [1 .. NUM_WAY -> [last_used : Nat, data : Elem]]
  BY DEF RowInv, LruRow
<1>2. /\ c[w] = [last_used |-> n + 1, data |-> e] /\ \A v \in 1 .. NUM_WAY : v # w => c[v] = b[v]
      /\ c \in LruRow
  BY <1>1 DEF LruRow, UsedAt
<1>3. ValidIn(c) = ValidIn(b) \cup {w}
  BY <1>2 DEF ValidIn
<1>4. /\ c[w].last_used = n + 1 /\ c[w].data = e /\ n + 1 > n
      /\ \A v \in ValidIn(b) : v \in 1 .. NUM_WAY /\ b[v].last_used \in Nat /\ b[v].last_used <= n
  BY <1>1, <1>2 DEF RowInv, ValidIn
<1>5. \A v \in ValidIn(b) : v # w => c[v] = b[v]
  BY <1>2, <1>4
<1>6. RowInv(c, n + 1)
  <2>1. ASSUME NEW v \in ValidIn(c) PROVE c[v].last_used <= n + 1
    <3>1. CASE v = w
      BY <1>4, <3>1
    <3>2. CASE v # w
      <4>1. v \in ValidIn(b) /\ c[v] = b[v]
        BY <1>3, <1>5, <2>1, <3>2
      <4>2. b[v].last_used \in Nat /\ b[v].last_used <= n
        BY <1>4, <4>1
      <4>. QED  BY <4>1, <4>2
    <3>. QED  BY <3>1, <3>2
  <2>2. ASSUME NEW v \in ValidIn(c), NEW x \in ValidIn(c), v # x
        PROVE  c[v].last_used # c[x].last_used /\ c[v].data.tag # c[x].data.tag
    <3>1. CASE v = w
      <4>1. x \in ValidIn(b) /\ x # w /\ c[x] = b[x]
        BY <1>3, <1>5, <2>2, <3>1
      <4>2. b[x].last_used # n + 1
        BY <1>4, <4>1
      <4>. QED  BY <1>4, <3>1, <4>1, <4>2 DEF Without
    <3>2. CASE x = w
      <4>1. v \in ValidIn(b) /\ v # w /\ c[v] = b[v]
        BY <1>3, <1>5, <2>2, <3>2
      <4>2. b[v].last_used # n + 1
        BY <1>4, <4>1
      <4>. QED  BY <1>4, <3>2, <4>1, <4>2 DEF Without
    <3>3. CASE v # w /\ x # w
      BY <1>3, <1>5, <2>2, <3>3 DEF RowInv
    <3>. QED  BY <3>1, <3>2, <3>3
  <2>. QED  BY <1>2, <2>1, <2>2 DEF RowInv
<1>7. Later(c, w) = {w}
  <2>1. ASSUME NEW v \in ValidIn(b), v # w PROVE ~(c[v].last_used >= c[w].last_used)
    <3>1. b[v].last_used \in Nat /\ b[v].last_used <= n /\ c[v] = b[v]
      BY <1>4, <1>5, <2>1
    <3>. QED  BY <1>4, <3>1
  <2>. QED  BY <1>3, <1>4, <2>1 DEF Later
<1>8. ASSUME NEW v \in ValidIn(b), v # w PROVE Later(c, v) = Later(b, v) \cup {w}
  <2>1. c[v].last_used = b[v].last_used /\ c[w].last_used >= b[v].last_used
    BY <1>4, <1>5, <1>8
  <2>2. \A x \in ValidIn(b) : x # w => (x \in Later(c, v) <=> x \in Later(b, v))
    BY <1>3, <1>5, <2>1 DEF Later
  <2>3. w \in Later(c, v)
    BY <1>3, <2>1 DEF Later
  <2>. QED  BY <1>3, <2>2, <2>3 DEF Later
<1>. QED  BY <1>3, <1>4, <1>5, <1>6, <1>7, <1>8

LEMMA UsedListing ==
  ASSUME NUM_WAY \in Nat, NEW n \in Nat, NEW b, RowInv(b, n), NEW w \in 1 .. NUM_WAY, NEW e \in Elem,
         Without(b, w, e.tag), NEW c, c = UsedAt(b, w, n, e),
         NEW q, Listing(q, b), NEW p,
         PutFirst(p, q, e, IF w \in ValidIn(b) THEN RankIn(b, w) ELSE Len(q) + 1, Elem)
  PROVE  RowInv(c, n + 1) /\ Listing(p, c)
<1>. DEFINE r == IF w \in ValidIn(b) THEN RankIn(b, w) ELSE Len(q) + 1
<1>1. /\ RowInv(c, n + 1) /\ ValidIn(c) = ValidIn(b) \cup {w} /\ c[w].data = e
      /\ \A v \in ValidIn(b) : v # w => c[v] = b[v]
      /\ Later(c, w) = {w}
      /\ \A v \in ValidIn(b) : v # w => Later(c, v) = Later(b, v) \cup {w}
  BY UsedRow
<1>2. /\ IsFiniteSet(ValidIn(b)) /\ \A v \in ValidIn(b) : IsFiniteSet(Later(b, v))
  BY RanksOrdered
<1>3. /\ Cardinality(ValidIn(b)) \in Nat
      /\ \A v \in ValidIn(b) : RankIn(b, v) \in 1 .. Cardinality(ValidIn(b))
      /\ \A v \in ValidIn(b) : v # w /\ w \in ValidIn(b) => RankIn(b, v) # RankIn(b, w)
      /\ \A v \in ValidIn(b) : w \in ValidIn(b) => (b[v].last_used < b[w].last_used <=> RankIn(b, w) < RankIn(b, v))
  BY RanksAre
<1>4. Len(q) = Cardinality(ValidIn(b)) /\ \A v \in ValidIn(b) : q[RankIn(b, v)] = b[v].data
  BY DEF Listing
<1>5. PutFirst(p, q, e, r, Elem)
  OBVIOUS
<1>6. Cardinality(ValidIn(c)) = Len(p)
  <2>1. Cardinality(ValidIn(c)) = IF w \in ValidIn(b) THEN Len(q) ELSE Len(q) + 1
    BY <1>1, <1>2, <1>4, FS_AddElement
  <2>2. w \in ValidIn(b) <=> r \in 1 .. Len(q)
    BY <1>3, <1>4
  <2>. QED  BY <1>5, <2>1, <2>2 DEF PutFirst
<1>7. RankIn(c, w) = 1 /\ p[RankIn(c, w)] = c[w].data
  <2>1. RankIn(c, w) = 1
    BY <1>1, FS_Singleton DEF RankIn
  <2>. QED  BY <1>1, <1>5, <2>1 DEF PutFirst
<1>8. ASSUME NEW v \in ValidIn(b), v # w PROVE p[RankIn(c, v)] = c[v].data
  <2>1. RankIn(c, v) = IF w \in Later(b, v) THEN RankIn(b, v) ELSE RankIn(b, v) + 1
    <3>1. Later(c, v) = Later(b, v) \cup {w} /\ IsFiniteSet(Later(b, v))
      BY <1>1, <1>2, <1>8
    <3>2. Cardinality(Later(b, v) \cup {w})
            = IF w \in Later(b, v) THEN Cardinality(Later(b, v)) ELSE Cardinality(Later(b, v)) + 1
      BY <3>1, FS_AddElement
    <3>. QED  BY <3>1, <3>2 DEF RankIn
  <2>2. RankIn(b, v) \in 1 .. Len(q)
    BY <1>3, <1>4
  <2>3. w \in Later(b, v) => RankIn(b, v) > r
    <3>. SUFFICES ASSUME w \in Later(b, v) PROVE RankIn(b, v) > r
      OBVIOUS
    <3>1. w \in ValidIn(b) /\ ~(b[w].last_used < b[v].last_used) /\ b[w].last_used # b[v].last_used
      <4>1. w \in ValidIn(b) /\ b[w].last_used >= b[v].last_used
        BY DEF Later
      <4>2. b[w].last_used \in Nat /\ b[v].last_used \in Nat
        BY <4>1 DEF RowInv, LruRow, ValidIn
      <4>. QED  BY <1>8, <4>1, <4>2 DEF RowInv
    <3>2. b[v].last_used < b[w].last_used
      <4>1. b[w].last_used \in Nat /\ b[v].last_used \in Nat
        BY <3>1 DEF RowInv, LruRow, ValidIn
      <4>. QED  BY <3>1, <4>1
    <3>. QED  BY <1>3, <3>1, <3>2
  <2>4. w \notin Later(b, v) => RankIn(b, v) < r
    <3>. SUFFICES ASSUME w \notin Later(b, v) PROVE RankIn(b, v) < r
      OBVIOUS
    <3>1. CASE w \notin ValidIn(b)
      BY <1>3, <1>4, <2>2, <3>1
    <3>2. CASE w \in ValidIn(b)
      <4>1. b[w].last_used \in Nat /\ b[v].last_used \in Nat
        BY <3>2 DEF RowInv, LruRow, ValidIn
      <4>2. b[w].last_used < b[v].last_used
        BY <3>2, <4>1 DEF Later
      <4>3. RankIn(b, v) < RankIn(b, w)
        BY <3>2, <4>2, RanksAre
      <4>. QED  BY <3>2, <4>3
    <3>. QED  BY <3>1, <3>2
  <2>5. p[RankIn(c, v)] = q[RankIn(b, v)]
    BY <1>5, <2>1, <2>2, <2>3, <2>4 DEF PutFirst
  <2>. QED  BY <1>1, <1>4, <1>8, <2>5
<1>9. p \in Seq(Elem)
  BY <1>5 DEF PutFirst
<1>. QED  BY <1>1, <1>6, <1>7, <1>8, <1>9 DEF Listing

(* Where the recency list has a tag.                                       *)
LEMMA PlaceOf ==
  ASSUME NUM_WAY \in Nat, NEW n, NEW b, RowInv(b, n), NEW q, Listing(q, b), NEW tag
  PROVE  /\ Table!Table!Holds(q, tag) <=> \E w \in ValidIn(b) : b[w].data.tag = tag
         /\ \A w \in ValidIn(b) : b[w].data.tag = tag =>
              Table!Table!Place(q, tag) = RankIn(b, w) /\ Table!Table!Found(q, tag) = b[w].data
<1>1. /\ q \in Seq(Elem) /\ Len(q) = Cardinality(ValidIn(b))
      /\ \A w \in ValidIn(b) : q[RankIn(b, w)] = b[w].data
  BY DEF Listing
<1>2. /\ Cardinality(ValidIn(b)) \in Nat
      /\ \A w \in ValidIn(b) : RankIn(b, w) \in 1 .. Cardinality(ValidIn(b))
      /\ \A i \in 1 .. Cardinality(ValidIn(b)) : \E w \in ValidIn(b) : RankIn(b, w) = i
  BY RanksAre
<1>3. DOMAIN q = 1 .. Len(q)
  BY <1>1, LenProperties
<1>4. Table!Table!Holds(q, tag) <=> \E w \in ValidIn(b) : b[w].data.tag = tag
  <2>1. ASSUME Table!Table!Holds(q, tag) PROVE \E w \in ValidIn(b) : b[w].data.tag = tag
    <3>1. PICK i \in 1 .. Len(q) : q[i].tag = tag
      BY <1>3, <2>1 DEF Table!Table!Holds
    <3>2. PICK w \in ValidIn(b) : RankIn(b, w) = i
      BY <1>1, <1>2
    <3>. QED  BY <1>1, <3>1, <3>2
  <2>2. ASSUME NEW w \in ValidIn(b), b[w].data.tag = tag PROVE Table!Table!Holds(q, tag)
    <3>1. RankIn(b, w) \in DOMAIN q /\ q[RankIn(b, w)].tag = tag
      BY <1>1, <1>2, <1>3, <2>2
    <3>. QED  BY <3>1 DEF Table!Table!Holds
  <2>. QED  BY <2>1, <2>2
<1>5. ASSUME NEW w \in ValidIn(b), b[w].data.tag = tag
      PROVE  Table!Table!Place(q, tag) = RankIn(b, w) /\ Table!Table!Found(q, tag) = b[w].data
  <2>1. RankIn(b, w) \in DOMAIN q /\ q[RankIn(b, w)].tag = tag
    BY <1>1, <1>2, <1>3, <1>5
  <2>2. ASSUME NEW i \in DOMAIN q, q[i].tag = tag PROVE i = RankIn(b, w)
    <3>1. PICK v \in ValidIn(b) : RankIn(b, v) = i
      BY <1>1, <1>2, <1>3
    <3>2. b[v].data.tag = tag
      BY <1>1, <2>2, <3>1
    <3>3. v = w
      BY <1>5, <3>2 DEF RowInv
    <3>. QED  BY <3>1, <3>3
  <2>3. Table!Table!Place(q, tag) = RankIn(b, w)
    BY <2>1, <2>2 DEF Table!Table!Place
  <2>4. Table!Table!Holds(q, tag)
    BY <1>4, <1>5
  <2>. QED  BY <1>1, <2>3, <2>4 DEF Table!Table!Found
<1>. QED  BY <1>4, <1>5

LEMMA WithoutIs ==
  ASSUME NUM_WAY \in Nat, NEW n, NEW b, RowInv(b, n), NEW q, Listing(q, b), NEW tag
  PROVE  /\ \A w \in ValidIn(b) : b[w].data.tag = tag =>
              TakenOut(Table!Table!Without(q, tag), q, RankIn(b, w), Elem)
         /\ (\A w \in ValidIn(b) : b[w].data.tag # tag) =>
              Table!Table!Without(q, tag) = q /\ TakenOut(q, q, Len(q) + 1, Elem)
<1>1. q \in Seq(Elem) /\ Len(q) = Cardinality(ValidIn(b)) /\ Len(q) \in Nat
  BY LenProperties DEF Listing
<1>2. ASSUME NEW w \in ValidIn(b), b[w].data.tag = tag
      PROVE  TakenOut(Table!Table!Without(q, tag), q, RankIn(b, w), Elem)
  <2>1. RankIn(b, w) \in 1 .. Len(q)
    BY <1>1, RanksAre
  <2>2. Table!Table!Holds(q, tag) /\ Table!Table!Place(q, tag) = RankIn(b, w)
    BY <1>2, PlaceOf
  <2>3. Table!Table!Without(q, tag)
          = SubSeq(q, 1, RankIn(b, w) - 1) \o SubSeq(q, RankIn(b, w) + 1, Len(q))
    BY <2>2 DEF Table!Table!Without, Table!Table!RemoveAt
  <2>. QED  BY <1>1, <2>1, <2>3, RemovedIs
<1>3. ASSUME \A w \in ValidIn(b) : b[w].data.tag # tag
      PROVE  Table!Table!Without(q, tag) = q /\ TakenOut(q, q, Len(q) + 1, Elem)
  <2>1. ~Table!Table!Holds(q, tag)
    BY <1>3, PlaceOf
  <2>2. TakenOut(q, q, Len(q) + 1, Elem)
    BY <1>1 DEF TakenOut
  <2>. QED  BY <2>1, <2>2 DEF Table!Table!Without
<1>. QED  BY <1>2, <1>3

LEMMA HitRow ==
  ASSUME NUM_WAY \in Nat, NEW n \in Nat, NEW b, RowInv(b, n), NEW q, Listing(q, b),
         NEW w \in ValidIn(b), NEW tag, b[w].data.tag = tag, NEW c, c = UsedAt(b, w, n, b[w].data)
  PROVE  RowInv(c, n + 1) /\ Listing(Table!Table!Refreshed(q, tag), c)
<1>1. w \in 1 .. NUM_WAY /\ b[w].data \in Elem /\ Without(b, w, b[w].data.tag)
  BY DEF ValidIn, RowInv, LruRow, Without
<1>2. Table!Table!Holds(q, tag) /\ Table!Table!Found(q, tag) = b[w].data
  BY PlaceOf
<1>3. TakenOut(Table!Table!Without(q, tag), q, RankIn(b, w), Elem)
  BY WithoutIs
<1>4. q \in Seq(Elem) /\ RankIn(b, w) \in Nat \ {0}
  BY RanksAre DEF Listing
<1>. DEFINE p == <<b[w].data>> \o Table!Table!Without(q, tag)
<1>5. PutFirst(p, q, b[w].data, RankIn(b, w), Elem)
  BY <1>1, <1>3, <1>4, FrontedIs
<1>6. Table!Table!Refreshed(q, tag) = p
  BY <1>2 DEF Table!Table!Refreshed
<1>. HIDE DEF p
<1>7. PutFirst(p, q, b[w].data, IF w \in ValidIn(b) THEN RankIn(b, w) ELSE Len(q) + 1, Elem)
  BY <1>5
<1>8. RowInv(c, n + 1) /\ Listing(p, c)
  BY <1>1, <1>7, UsedListing
<1>. QED  BY <1>6, <1>8

(* A block that is not valid is filled, or the one with the tag, or that    *)
(* which was used longest ago.                                             *)
FillsAt(b, w, tag) ==
  /\ w \in 1 .. NUM_WAY /\ Without(b, w, tag)
  /\ \/ w \in ValidIn(b) /\ b[w].data.tag = tag
     \/ w \notin ValidIn(b)
     \/ /\ b[w].data.tag # tag /\ ValidIn(b) = 1 .. NUM_WAY
        /\ \A v \in ValidIn(b) : v # w => b[w].last_used < b[v].last_used

LEMMA FillRow ==
  ASSUME NUM_WAY \in Nat, NEW n \in Nat, NEW b, RowInv(b, n), NEW q, Listing(q, b),
         NEW e \in Elem, NEW w, FillsAt(b, w, e.tag), NEW c, c = UsedAt(b, w, n, e)
  PROVE  RowInv(c, n + 1) /\ Listing(Table!Table!Filled(q, e), c)
<1>. DEFINE t == Table!Table!Without(q, e.tag)
            p == <<e>> \o t
            r == IF w \in ValidIn(b) THEN RankIn(b, w) ELSE Len(q) + 1
<1>1. w \in 1 .. NUM_WAY /\ Without(b, w, e.tag)
  BY DEF FillsAt
<1>2. q \in Seq(Elem) /\ Len(q) = Cardinality(ValidIn(b)) /\ Len(q) \in Nat
  BY LenProperties DEF Listing
<1>3. IsFiniteSet(1 .. NUM_WAY) /\ Cardinality(1 .. NUM_WAY) = NUM_WAY
  BY FS_Interval
<1>4. ValidIn(b) \in SUBSET (1 .. NUM_WAY)
  BY DEF ValidIn
<1>5. Len(q) <= NUM_WAY /\ (Len(q) = NUM_WAY => ValidIn(b) = 1 .. NUM_WAY)
  BY <1>2, <1>3, <1>4, FS_Subset
<1>6. SUFFICES PutFirst(Table!Table!Filled(q, e), q, e, r, Elem)
  BY <1>1, UsedListing
<1>7. CASE w \in ValidIn(b) /\ b[w].data.tag = e.tag
  <2>1. r = RankIn(b, w) /\ r \in 1 .. Len(q) /\ Table!Table!Holds(q, e.tag) /\ TakenOut(t, q, r, Elem)
    BY <1>2, <1>7, RanksAre, PlaceOf, WithoutIs
  <2>. HIDE DEF t, r
  <2>2. PutFirst(p, q, e, r, Elem) /\ Len(p) = Len(t) + 1
    BY <1>2, <2>1, FrontedIs
  <2>3. SubSeq(p, 1, Len(p)) = p
    BY <2>2, SubSeqFull DEF PutFirst
  <2>4. Table!Table!Filled(q, e) = SubSeq(p, 1, Len(t) + 1)
    BY <2>1 DEF Table!Table!Filled, t
  <2>. QED  BY <2>2, <2>3, <2>4
<1>8. CASE w \notin ValidIn(b)
  <2>1. \A v \in ValidIn(b) : b[v].data.tag # e.tag
    BY <1>1, <1>8 DEF Without
  <2>2. t = q /\ TakenOut(q, q, Len(q) + 1, Elem) /\ ~Table!Table!Holds(q, e.tag)
    BY <2>1, PlaceOf, WithoutIs
  <2>3. r = Len(q) + 1 /\ Len(q) < NUM_WAY
    BY <1>1, <1>2, <1>5, <1>8
  <2>. HIDE DEF t, r
  <2>4. PutFirst(p, q, e, r, Elem) /\ Len(p) = Len(q) + 1
    BY <1>2, <2>2, <2>3, FrontedIs
  <2>5. SubSeq(p, 1, Len(p)) = p
    BY <2>4, SubSeqFull DEF PutFirst
  <2>6. Table!Table!Filled(q, e) = SubSeq(p, 1, Len(q) + 1)
    BY <2>2, <2>3 DEF Table!Table!Filled, t
  <2>. QED  BY <2>4, <2>5, <2>6
<1>9. CASE /\ b[w].data.tag # e.tag /\ ValidIn(b) = 1 .. NUM_WAY
           /\ \A v \in ValidIn(b) : v # w => b[w].last_used < b[v].last_used
  <2>1. \A v \in ValidIn(b) : b[v].data.tag # e.tag
    BY <1>1, <1>9 DEF Without
  <2>2. t = q /\ TakenOut(q, q, Len(q) + 1, Elem) /\ ~Table!Table!Holds(q, e.tag)
    BY <2>1, PlaceOf, WithoutIs
  <2>3. r = RankIn(b, w) /\ Len(q) = NUM_WAY
    BY <1>1, <1>2, <1>3, <1>9
  <2>4. r = Len(q)
    <3>1. Later(b, w) = ValidIn(b)
      <4>1. \A v \in ValidIn(b) : b[v].last_used \in Nat
        BY DEF RowInv, LruRow, ValidIn
      <4>. QED  BY <1>1, <1>9, <4>1 DEF Later
    <3>. QED  BY <1>2, <2>3, <3>1 DEF RankIn
  <2>. HIDE DEF t, r
  <2>5. PutFirst(p, q, e, Len(q) + 1, Elem) /\ Len(p) = Len(q) + 1
    BY <1>2, <2>2, FrontedIs
  <2>6. Table!Table!Filled(q, e) = SubSeq(p, 1, Len(q))
    BY <2>2, <2>3 DEF Table!Table!Filled, t
  <2>. HIDE DEF p
  <2>7. /\ SubSeq(p, 1, Len(q)) \in Seq(Elem) /\ Len(SubSeq(p, 1, Len(q))) = Len(q)
        /\ \A i \in 1 .. Len(q) : SubSeq(p, 1, Len(q))[i] = p[i]
    <3>1. \A i \in 1 .. Len(q) : p[i] \in Elem
      BY <1>2, <2>5, ElementOfSeq DEF PutFirst
    <3>2. /\ SubSeq(p, 1, Len(q)) \in Seq(Elem)
          /\ Len(SubSeq(p, 1, Len(q))) = IF 1 <= Len(q) THEN Len(q) - 1 + 1 ELSE 0
          /\ \A i \in 1 .. Len(q) - 1 + 1 : SubSeq(p, 1, Len(q))[i] = p[1 + i - 1]
      BY <1>2, <3>1, SubSeqProperties
    <3>. QED  BY <1>2, <3>2
  <2>8. Len(q) \in 1 .. Len(q)
    BY <1>1, <1>2, <2>3
  <2>. QED  BY <1>2, <2>4, <2>5, <2>6, <2>7, <2>8 DEF PutFirst
<1>. QED  BY <1>7, <1>8, <1>9 DEF FillsAt

LEMMA DropRow ==
  ASSUME NUM_WAY \in Nat, Default \in Elem, NEW n \in Nat, NEW b, RowInv(b, n), NEW q, Listing(q, b),
         NEW w \in ValidIn(b), NEW tag, b[w].data.tag = tag,
         NEW c, c = [b EXCEPT ![w] = [last_used |-> 0, data |-> Default]]
  PROVE  RowInv(c, n) /\ Listing(Table!Table!Without(q, tag), c)
<1>. DEFINE p == Table!Table!Without(q, tag)
            r == RankIn(b, w)
<1>1. b \in [1 .. NUM_WAY -> [last_used : Nat, data : Elem]] /\ w \in 1 .. NUM_WAY
  BY DEF RowInv, LruRow, ValidIn
<1>2. /\ c[w] = [last_used |-> 0, data |-> Default] /\ \A v \in 1 .. NUM_WAY : v # w => c[v] = b[v]
      /\ c \in LruRow
  BY <1>1 DEF LruRow
<1>3. ValidIn(c) = ValidIn(b) \ {w}
  BY <1>2 DEF ValidIn
<1>4. \A v \in ValidIn(c) : v \in ValidIn(b) /\ v # w /\ c[v] = b[v]
  BY <1>2, <1>3 DEF ValidIn
<1>5. RowInv(c, n)
  <2>1. \A v \in ValidIn(c) : c[v].last_used <= n
    BY <1>4 DEF RowInv
  <2>2. \A v, x \in ValidIn(c) : v # x => c[v].last_used # c[x].last_used /\ c[v].data.tag # c[x].data.tag
    BY <1>4 DEF RowInv
  <2>. QED  BY <1>2, <2>1, <2>2 DEF RowInv
<1>6. /\ IsFiniteSet(ValidIn(b)) /\ Cardinality(ValidIn(b)) \in Nat
      /\ \A v \in ValidIn(b) : IsFiniteSet(Later(b, v)) /\ RankIn(b, v) \in 1 .. Cardinality(ValidIn(b))
  BY RanksOrdered
<1>7. \A v \in ValidIn(b) : v # w => RankIn(b, v) # r
  BY RanksAre
<1>8. \A v \in ValidIn(b) : b[w].last_used < b[v].last_used <=> RankIn(b, v) < r
  BY RanksAre
<1>9. TakenOut(p, q, r, Elem)
  BY WithoutIs
<1>10. Len(q) = Cardinality(ValidIn(b)) /\ \A v \in ValidIn(b) : q[RankIn(b, v)] = b[v].data
  BY DEF Listing
<1>. HIDE DEF p, r
<1>11. Cardinality(ValidIn(c)) = Len(p)
  <2>1. Cardinality(ValidIn(c)) = Cardinality(ValidIn(b)) - 1
    BY <1>3, <1>6, FS_RemoveElement
  <2>2. r \in 1 .. Len(q)
    BY <1>6, <1>10 DEF r
  <2>. QED  BY <1>9, <1>10, <2>1, <2>2 DEF TakenOut
<1>12. ASSUME NEW v \in ValidIn(c) PROVE p[RankIn(c, v)] = c[v].data
  <2>1. v \in ValidIn(b) /\ v # w /\ c[v] = b[v] /\ RankIn(b, v) \in 1 .. Len(q)
    BY <1>4, <1>6, <1>10
  <2>2. Later(c, v) = Later(b, v) \ {w}
    BY <1>3, <1>4, <2>1 DEF Later
  <2>3. RankIn(c, v) = IF w \in Later(b, v) THEN RankIn(b, v) - 1 ELSE RankIn(b, v)
    <3>1. IsFiniteSet(Later(b, v))
      BY <1>6, <2>1
    <3>2. Cardinality(Later(b, v) \ {w})
            = IF w \in Later(b, v) THEN Cardinality(Later(b, v)) - 1 ELSE Cardinality(Later(b, v))
      BY <3>1, FS_RemoveElement
    <3>. QED  BY <2>2, <3>2 DEF RankIn
  <2>4. b[w].last_used \in Nat /\ b[v].last_used \in Nat
    BY <2>1 DEF RowInv, LruRow, ValidIn
  <2>5. w \in Later(b, v) <=> ~(b[w].last_used < b[v].last_used)
    BY <2>4 DEF Later
  <2>6. r \in Nat
    BY <1>6 DEF r
  <2>7. IF w \in Later(b, v) THEN RankIn(b, v) > r ELSE RankIn(b, v) < r
    BY <1>7, <1>8, <2>1, <2>5, <2>6
  <2>8. p[RankIn(c, v)] = q[RankIn(b, v)]
    BY <1>9, <2>1, <2>3, <2>7 DEF TakenOut
  <2>. QED  BY <1>10, <2>1, <2>8
<1>13. p \in Seq(Elem)
  BY <1>9 DEF TakenOut
<1>14. Listing(p, c)
  BY <1>11, <1>12, <1>13 DEF Listing
<1>. QED  BY <1>5, <1>14 DEF p

-----------------------------------------------------------------------------
(* The blocks of every set, between two calls.                             *)
ListInv ==
  /\ access_count \in Nat
  /\ lru_block \in [TableSet -> LruRow]
  /\ \A s \in TableSet : RowInv(lru_block[s], access_count)

LEMMA ListInit == ASSUME TableAssumption, Table!Init PROVE ListInv
<1>1. access_count = 0 /\ lru_block = [s \in TableSet |-> [w \in 1 .. NUM_WAY |-> [last_used |-> 0, data |-> Default]]]
  BY DEF Table!Init, Table!Way, Table!Empty
<1>2. [w \in 1 .. NUM_WAY |-> [last_used |-> 0, data |-> Default]] \in LruRow
  BY DEF LruRow, TableAssumption
<1>3. ASSUME NEW s \in TableSet PROVE ValidIn(lru_block[s]) = {} /\ lru_block[s] \in LruRow
  <2>1. lru_block[s] = [w \in 1 .. NUM_WAY |-> [last_used |-> 0, data |-> Default]]
    BY <1>1
  <2>. QED  BY <1>2, <2>1 DEF ValidIn
<1>4. lru_block \in [TableSet -> LruRow]
  BY <1>1, <1>2
<1>. QED  BY <1>1, <1>3, <1>4 DEF ListInv, RowInv

LEMMA LaterRow ==
  ASSUME NEW n \in Nat, NEW b, RowInv(b, n) PROVE RowInv(b, n + 1)
<1>1. \A v \in ValidIn(b) : b[v].last_used \in Nat
  BY DEF RowInv, LruRow, ValidIn
<1>. QED  BY <1>1 DEF RowInv

(* The blocks of a set in which a tag is found.                             *)
LEMMA MatchIs ==
  ASSUME TableAssumption, ListInv, NEW e \in Elem, NEW s, s = TableSetOf[e.tag]
  PROVE  /\ s \in TableSet /\ RowInv(lru_block[s], access_count)
         /\ Table!Matches(s, e.tag) = {w \in ValidIn(lru_block[s]) : lru_block[s][w].data.tag = e.tag}
         /\ Table!Matches(s, e.tag) # {} =>
              /\ Table!First(Table!Matches(s, e.tag)) \in ValidIn(lru_block[s])
              /\ lru_block[s][Table!First(Table!Matches(s, e.tag))].data.tag = e.tag
<1>. DEFINE M == Table!Matches(s, e.tag)
<1>1. s \in TableSet /\ RowInv(lru_block[s], access_count)
  BY DEF TableAssumption, ListInv
<1>2. M = {w \in ValidIn(lru_block[s]) : lru_block[s][w].data.tag = e.tag}
  BY DEF Table!Matches, Table!Way, ValidIn
<1>3. \A v, w \in M : v = w
  BY <1>1, <1>2 DEF RowInv
<1>4. \A w \in M : w \in 1 .. NUM_WAY
  BY <1>2 DEF ValidIn
<1>. HIDE DEF M
<1>5. M # {} => Table!First(M) \in M
  BY <1>3, <1>4 DEF Table!First
<1>. QED  BY <1>1, <1>2, <1>5 DEF M

(* What a call makes of the list of its set, the others being left alone.   *)
Steps(lists, after, s, list, n) ==
  /\ n \in Nat /\ after \in [TableSet -> LruRow]
  /\ \A x \in TableSet : RowInv(after[x], n) /\ Listing(IF x = s THEN list ELSE lists[x], after[x])

LEMMA StepsIs ==
  ASSUME ListInv, NEW lists, \A x \in TableSet : Listing(lists[x], lru_block[x]),
         NEW s \in TableSet, NEW list, NEW row, NEW n, n \in {access_count, access_count + 1},
         RowInv(row, n), Listing(list, row), NEW after, after = [lru_block EXCEPT ![s] = row]
  PROVE  Steps(lists, after, s, list, n)
<1>1. n \in Nat /\ access_count \in Nat
  BY DEF ListInv
<1>2. row \in LruRow /\ after[s] = row /\ \A x \in TableSet : x # s => after[x] = lru_block[x]
  BY DEF ListInv, RowInv
<1>3. after \in [TableSet -> LruRow]
  BY <1>2 DEF ListInv
<1>4. \A x \in TableSet : RowInv(lru_block[x], n)
  BY <1>1, LaterRow DEF ListInv
<1>. QED  BY <1>1, <1>2, <1>3, <1>4 DEF Steps

LEMMA HitStep ==
  ASSUME TableAssumption, ListInv, NEW lists, \A x \in TableSet : Listing(lists[x], lru_block[x]),
         NEW e \in Elem, Table!check_hit(e), NEW s, s = TableSetOf[e.tag]
  PROVE  /\ returned' = Table!Table!Found(lists[s], e.tag)
         /\ Steps(lists, lru_block', s, Table!Table!Refreshed(lists[s], e.tag), access_count')
<1>. DEFINE M == Table!Matches(s, e.tag)
            b == lru_block[s]
            w == Table!First(M)
<1>1. /\ s \in TableSet /\ RowInv(b, access_count)
      /\ M = {x \in ValidIn(b) : b[x].data.tag = e.tag}
      /\ M # {} => w \in ValidIn(b) /\ b[w].data.tag = e.tag
  BY MatchIs
<1>2. NUM_WAY \in Nat /\ access_count \in Nat /\ lru_block \in [TableSet -> LruRow]
  BY DEF TableAssumption, ListInv
<1>3. Listing(lists[s], b)
  BY <1>1
<1>4. IF M = {} THEN returned' = NoElem /\ UNCHANGED <<lru_block, access_count>>
      ELSE /\ access_count' = access_count + 1 /\ returned' = b[w].data
           /\ lru_block' = [lru_block EXCEPT ![s][w] = [@ EXCEPT !.last_used = access_count + 1]]
  BY DEF Table!check_hit, Table!Used
<1>. HIDE DEF M, w
<1>5. CASE M = {}
  <2>1. ~Table!Table!Holds(lists[s], e.tag)
    BY <1>1, <1>2, <1>3, <1>5, PlaceOf
  <2>2. /\ Table!Table!Refreshed(lists[s], e.tag) = lists[s]
        /\ Table!Table!Found(lists[s], e.tag) = NoElem
    BY <2>1 DEF Table!Table!Refreshed, Table!Table!Found
  <2>3. lru_block' = [lru_block EXCEPT ![s] = b]
    BY <1>1, <1>2, <1>4, <1>5
  <2>4. access_count' \in {access_count, access_count + 1} /\ returned' = NoElem
        /\ RowInv(b, access_count')
    BY <1>1, <1>4, <1>5
  <2>5. Listing(Table!Table!Refreshed(lists[s], e.tag), b)
    BY <1>3, <2>2
  <2>. HIDE DEF b
  <2>6. Steps(lists, lru_block', s, Table!Table!Refreshed(lists[s], e.tag), access_count')
    BY <1>1, <2>3, <2>4, <2>5, StepsIs
  <2>. QED  BY <2>2, <2>4, <2>6
<1>6. CASE M # {}
  <2>1. w \in ValidIn(b) /\ b[w].data.tag = e.tag
    BY <1>1, <1>6
  <2>2. b \in [1 .. NUM_WAY -> [last_used : Nat, data : Elem]] /\ w \in 1 .. NUM_WAY
    BY <1>1, <2>1 DEF RowInv, LruRow, ValidIn
  <2>3. lru_block' = [lru_block EXCEPT ![s] = UsedAt(b, w, access_count, b[w].data)]
    <3>1. [b[w] EXCEPT !.last_used = access_count + 1] = [last_used |-> access_count + 1, data |-> b[w].data]
      <4>. PICK x \in [last_used : Nat, data : Elem] : x = b[w]
        BY <2>2
      <4>. HIDE DEF b
      <4>1. [x EXCEPT !.last_used = access_count + 1] = [last_used |-> access_count + 1, data |-> x.data]
        OBVIOUS
      <4>. QED  BY <4>1
    <3>2. lru_block' = [lru_block EXCEPT ![s] = [b EXCEPT ![w] = [b[w] EXCEPT !.last_used = access_count + 1]]]
      BY <1>4, <1>6
    <3>. QED  BY <3>1, <3>2 DEF UsedAt
  <2>4. access_count' = access_count + 1 /\ returned' = b[w].data
    BY <1>4, <1>6
  <2>. PICK c : c = UsedAt(b, w, access_count, b[w].data)
    OBVIOUS
  <2>5. RowInv(c, access_count + 1) /\ Listing(Table!Table!Refreshed(lists[s], e.tag), c)
    BY <1>1, <1>2, <1>3, <2>1, HitRow
  <2>6. Table!Table!Found(lists[s], e.tag) = b[w].data
    BY <1>1, <1>2, <1>3, <2>1, PlaceOf
  <2>7. lru_block' = [lru_block EXCEPT ![s] = c]
    BY <2>3
  <2>. HIDE DEF b
  <2>8. access_count' \in {access_count, access_count + 1} /\ RowInv(c, access_count')
    BY <2>4, <2>5
  <2>9. Steps(lists, lru_block', s, Table!Table!Refreshed(lists[s], e.tag), access_count')
    BY <1>1, <2>5, <2>7, <2>8, StepsIs
  <2>. QED  BY <2>4, <2>6, <2>9
<1>. QED  BY <1>5, <1>6

LEMMA DropStep ==
  ASSUME TableAssumption, ListInv, NEW lists, \A x \in TableSet : Listing(lists[x], lru_block[x]),
         NEW e \in Elem, Table!invalidate(e), NEW s, s = TableSetOf[e.tag]
  PROVE  /\ returned' = Table!Table!Found(lists[s], e.tag)
         /\ Steps(lists, lru_block', s, Table!Table!Without(lists[s], e.tag), access_count')
<1>. DEFINE M == Table!Matches(s, e.tag)
            b == lru_block[s]
            w == Table!First(M)
<1>1. /\ s \in TableSet /\ RowInv(b, access_count)
      /\ M = {x \in ValidIn(b) : b[x].data.tag = e.tag}
      /\ M # {} => w \in ValidIn(b) /\ b[w].data.tag = e.tag
  BY MatchIs
<1>2. /\ NUM_WAY \in Nat /\ Default \in Elem
      /\ access_count \in Nat /\ lru_block \in [TableSet -> LruRow]
  BY DEF TableAssumption, ListInv
<1>3. Listing(lists[s], b)
  BY <1>1
<1>4. IF M = {} THEN returned' = NoElem /\ UNCHANGED <<lru_block, access_count>>
      ELSE /\ access_count' = access_count /\ returned' = b[w].data
           /\ lru_block' = [lru_block EXCEPT ![s][w] = [last_used |-> 0, data |-> Default]]
  BY DEF Table!invalidate, Table!Empty
<1>. HIDE DEF M, w
<1>5. CASE M = {}
  <2>1. ~Table!Table!Holds(lists[s], e.tag)
    BY <1>1, <1>2, <1>3, <1>5, PlaceOf
  <2>2. /\ Table!Table!Without(lists[s], e.tag) = lists[s]
        /\ Table!Table!Found(lists[s], e.tag) = NoElem
    BY <2>1 DEF Table!Table!Without, Table!Table!Found
  <2>3. lru_block' = [lru_block EXCEPT ![s] = b]
    BY <1>1, <1>2, <1>4, <1>5
  <2>4. access_count' \in {access_count, access_count + 1} /\ returned' = NoElem
        /\ RowInv(b, access_count')
    BY <1>1, <1>4, <1>5
  <2>5. Listing(Table!Table!Without(lists[s], e.tag), b)
    BY <1>3, <2>2
  <2>. HIDE DEF b
  <2>6. Steps(lists, lru_block', s, Table!Table!Without(lists[s], e.tag), access_count')
    BY <1>1, <2>3, <2>4, <2>5, StepsIs
  <2>. QED  BY <2>2, <2>4, <2>6
<1>6. CASE M # {}
  <2>1. w \in ValidIn(b) /\ b[w].data.tag = e.tag
    BY <1>1, <1>6
  <2>. PICK c : c = [b EXCEPT ![w] = [last_used |-> 0, data |-> Default]]
    OBVIOUS
  <2>2. lru_block' = [lru_block EXCEPT ![s] = c]
    BY <1>4, <1>6
  <2>3. access_count' = access_count /\ returned' = b[w].data
    BY <1>4, <1>6
  <2>4. RowInv(c, access_count) /\ Listing(Table!Table!Without(lists[s], e.tag), c)
    BY <1>1, <1>2, <1>3, <2>1, DropRow
  <2>5. Table!Table!Found(lists[s], e.tag) = b[w].data
    BY <1>1, <1>2, <1>3, <2>1, PlaceOf
  <2>. HIDE DEF b
  <2>6. access_count' \in {access_count, access_count + 1} /\ RowInv(c, access_count')
    BY <2>3, <2>4
  <2>7. Steps(lists, lru_block', s, Table!Table!Without(lists[s], e.tag), access_count')
    BY <1>1, <2>2, <2>4, <2>6, StepsIs
  <2>. QED  BY <2>3, <2>5, <2>7
<1>. QED  BY <1>5, <1>6

(* The ends that minmax_element finds are a way to fill.                    *)
LEMMA FillsAtEnd ==
  ASSUME TableAssumption, ListInv, NEW e \in Elem, NEW s \in TableSet, NEW end, end \in Table!Ends(s, e.tag),
         NEW way, way = IF lru_block[s][end.hit].data.tag = e.tag THEN end.hit ELSE end.miss
  PROVE  FillsAt(lru_block[s], way, e.tag)
<1>. DEFINE b == lru_block[s]
<1>1. RowInv(b, access_count) /\ b \in [1 .. NUM_WAY -> [last_used : Nat, data : Elem]]
  BY DEF ListInv, RowInv, LruRow
<1>2. /\ end.hit \in 1 .. NUM_WAY /\ end.miss \in 1 .. NUM_WAY
      /\ \A v \in 1 .. NUM_WAY : v # end.miss => Table!Before(e.tag, b[end.miss], b[v])
      /\ \A v \in 1 .. NUM_WAY : v # end.hit => Table!Before(e.tag, b[v], b[end.hit])
  BY DEF Table!Ends, Table!Way
<1>3. /\ \A v \in ValidIn(b) : v \in 1 .. NUM_WAY /\ b[v].last_used > 0 /\ b[v].last_used # 0
      /\ \A v \in 1 .. NUM_WAY : v \notin ValidIn(b) => b[v].last_used = 0 /\ ~(b[v].last_used > 0)
  <2>1. \A v \in 1 .. NUM_WAY : b[v].last_used \in Nat
    BY <1>1
  <2>. HIDE DEF b
  <2>2. \A v \in 1 .. NUM_WAY : v \in ValidIn(b) <=> b[v].last_used > 0
    BY DEF ValidIn
  <2>3. \A v \in ValidIn(b) : v \in 1 .. NUM_WAY
    BY DEF ValidIn
  <2>4. \A n \in Nat : (n > 0 => n # 0) /\ (~(n > 0) => n = 0)
    OBVIOUS
  <2>. QED  BY <2>1, <2>2, <2>3, <2>4
<1>. HIDE DEF b
<1>4. CASE b[end.hit].data.tag = e.tag
  <2>1. way = end.hit
    BY <1>4 DEF b
  <2>2. CASE end.hit \in ValidIn(b)
    <3>1. Without(b, end.hit, e.tag)
      BY <1>1, <1>4, <2>2 DEF Without, RowInv
    <3>. QED  BY <1>2, <1>4, <2>1, <2>2, <3>1 DEF FillsAt, b
  <2>3. CASE end.hit \notin ValidIn(b)
    <3>1. \A v \in ValidIn(b) : v = end.hit
      BY <1>2, <1>3, <2>3 DEF Table!Before
    <3>2. Without(b, end.hit, e.tag)
      BY <3>1 DEF Without
    <3>. QED  BY <1>2, <2>1, <2>3, <3>2 DEF FillsAt, b
  <2>. QED  BY <2>2, <2>3
<1>5. CASE b[end.hit].data.tag # e.tag
  <2>1. way = end.miss
    BY <1>5 DEF b
  <2>2. \A v \in ValidIn(b) : b[v].data.tag # e.tag
    <3>. SUFFICES ASSUME NEW v \in ValidIn(b), b[v].data.tag = e.tag PROVE FALSE
      OBVIOUS
    <3>1. v # end.hit
      BY <1>5
    <3>2. Table!Before(e.tag, b[v], b[end.hit])
      BY <1>2, <1>3, <3>1
    <3>. QED  BY <1>3, <1>5, <3>2 DEF Table!Before
  <2>3. Without(b, end.miss, e.tag)
    BY <2>2 DEF Without
  <2>4. CASE end.miss \notin ValidIn(b)
    BY <1>2, <2>1, <2>3, <2>4 DEF FillsAt, b
  <2>5. CASE end.miss \in ValidIn(b)
    <3>1. \A v \in 1 .. NUM_WAY : v # end.miss => v \in ValidIn(b) /\ Table!Before(e.tag, b[end.miss], b[v])
      BY <1>2, <1>3, <2>5 DEF Table!Before
    <3>2. ValidIn(b) = 1 .. NUM_WAY
      BY <1>3, <2>5, <3>1
    <3>3. \A v \in ValidIn(b) : v # end.miss => b[end.miss].last_used < b[v].last_used
      BY <1>3, <2>2, <2>5, <3>1 DEF Table!Before
    <3>4. b[end.miss].data.tag # e.tag
      BY <2>2, <2>5
    <3>. QED  BY <1>2, <2>1, <2>3, <3>2, <3>3, <3>4 DEF FillsAt, b
  <2>. QED  BY <2>4, <2>5
<1>. QED  BY <1>4, <1>5

LEMMA FillStep ==
  ASSUME TableAssumption, ListInv, NEW lists, \A x \in TableSet : Listing(lists[x], lru_block[x]),
         NEW e \in Elem, Table!fill(e), NEW s, s = TableSetOf[e.tag]
  PROVE  /\ returned' = NoElem
         /\ Steps(lists, lru_block', s, Table!Table!Filled(lists[s], e), access_count')
<1>. DEFINE b == lru_block[s]
<1>1. /\ s \in TableSet /\ RowInv(b, access_count) /\ Listing(lists[s], b)
      /\ NUM_WAY \in Nat /\ access_count \in Nat
  BY DEF TableAssumption, ListInv
<1>2. PICK end \in Table!Ends(s, e.tag) :
        LET way == IF b[end.hit].data.tag = e.tag THEN end.hit ELSE end.miss
        IN  /\ access_count' = access_count + 1
            /\ lru_block' = [lru_block EXCEPT ![s][way] = [last_used |-> access_count + 1, data |-> e]]
            /\ returned' = NoElem
  BY DEF Table!fill
<1>. PICK way : way = IF b[end.hit].data.tag = e.tag THEN end.hit ELSE end.miss
  OBVIOUS
<1>. PICK c : c = UsedAt(b, way, access_count, e)
  OBVIOUS
<1>3. /\ access_count' = access_count + 1 /\ returned' = NoElem
      /\ lru_block' = [lru_block EXCEPT ![s] = c]
  BY <1>2 DEF UsedAt
<1>4. FillsAt(b, way, e.tag)
  BY <1>1, FillsAtEnd
<1>5. RowInv(c, access_count + 1) /\ Listing(Table!Table!Filled(lists[s], e), c)
  BY <1>1, <1>4, FillRow
<1>. HIDE DEF b
<1>6. access_count' \in {access_count, access_count + 1} /\ RowInv(c, access_count')
  BY <1>3, <1>5
<1>7. Steps(lists, lru_block', s, Table!Table!Filled(lists[s], e), access_count')
  BY <1>1, <1>3, <1>5, <1>6, StepsIs
<1>. QED  BY <1>3, <1>7

(* The listings of the table are the lists of RecencyList.                  *)
LEMMA ListedAll ==
  ASSUME TableAssumption
  PROVE  ListInv => \A x \in TableSet : Listing(Table!Listed(x), lru_block[x])
BY ListedIs DEF TableAssumption, ListInv

(* A call changes the list of its set as the call of RecencyList does.      *)
LEMMA ListsBecome ==
  ASSUME TableAssumption, NEW lists, NEW after, NEW s, NEW list, NEW n, Steps(lists, after, s, list, n),
         NEW listed, \A x \in TableSet : Listing(listed[x], after[x]),
         \A x \in TableSet : Listing(lists[x], lru_block[x])
  PROVE  \A x \in TableSet : listed[x] = IF x = s THEN list ELSE lists[x]
<1>1. NUM_WAY \in Nat
  BY DEF TableAssumption
<1>. SUFFICES ASSUME NEW x \in TableSet PROVE listed[x] = IF x = s THEN list ELSE lists[x]
  OBVIOUS
<1>. PICK p : p = IF x = s THEN list ELSE lists[x]
  OBVIOUS
<1>2. RowInv(after[x], n) /\ Listing(p, after[x]) /\ Listing(listed[x], after[x])
  BY DEF Steps
<1>3. listed[x] = p
  BY <1>1, <1>2, ListingIsOne
<1>. QED  BY <1>3

(* Every set has a list, which a call of an element steps.                   *)
ListStep(lists, e) ==
  LET s == TableSetOf[e.tag]
  IN  \/ /\ Steps(lists, lru_block', s, Table!Table!Refreshed(lists[s], e.tag), access_count')
         /\ returned' = Table!Table!Found(lists[s], e.tag)
      \/ /\ Steps(lists, lru_block', s, Table!Table!Filled(lists[s], e), access_count')
         /\ returned' = NoElem
      \/ /\ Steps(lists, lru_block', s, Table!Table!Without(lists[s], e.tag), access_count')
         /\ returned' = Table!Table!Found(lists[s], e.tag)

LEMMA CallSteps ==
  ASSUME TableAssumption, ListInv, Table!Next,
         NEW lists, \A x \in TableSet : Listing(lists[x], lru_block[x])
  PROVE  \E e \in Elem : ListStep(lists, e)
<1>1. PICK e \in Elem : Table!check_hit(e) \/ Table!fill(e) \/ Table!invalidate(e)
  BY DEF Table!Next
<1>2. CASE Table!check_hit(e)
  BY <1>2, HitStep DEF ListStep
<1>3. CASE Table!fill(e)
  BY <1>3, FillStep DEF ListStep
<1>4. CASE Table!invalidate(e)
  BY <1>4, DropStep DEF ListStep
<1>. QED  BY <1>1, <1>2, <1>3, <1>4

AllListed == [x \in TableSet |-> Table!Listed(x)]

LEMMA AllListings ==
  ASSUME TableAssumption, ListInv
  PROVE  \A x \in TableSet : Listing(AllListed[x], lru_block[x])
BY ListedAll DEF AllListed

LEMMA ListKept == ASSUME TableAssumption, ListInv, [Table!Next]_Table!vars PROVE ListInv'
<1>1. CASE Table!Next
  <2>. PICK lists : lists = AllListed
    OBVIOUS
  <2>1. \A x \in TableSet : Listing(lists[x], lru_block[x])
    BY AllListings
  <2>2. PICK e \in Elem : ListStep(lists, e)
    BY <1>1, <2>1, CallSteps
  <2>. QED  BY <2>2 DEF ListStep, Steps, ListInv
<1>2. CASE UNCHANGED Table!vars
  BY <1>2 DEF ListInv, Table!vars
<1>. QED  BY <1>1, <1>2

LEMMA ListAlways == TableAssumption => (Table!Spec => []ListInv)
<1>. SUFFICES ASSUME TableAssumption PROVE Table!Spec => []ListInv
  OBVIOUS
<1>1. Table!Init => ListInv
  BY ListInit
<1>2. ListInv /\ [Table!Next]_Table!vars => ListInv'
  BY ListKept
<1>. QED  BY <1>1, <1>2, PTL DEF Table!Spec

(* A call of the table is the call of the list, and nothing else changes it. *)
LEMMA ListRefined ==
  ASSUME TableAssumption, ListInv, ListInv', Table!Next,
         \A x \in TableSet : Listing(Table!Listed(x), lru_block[x]),
         (\A x \in TableSet : Listing(Table!Listed(x), lru_block[x]))'
  PROVE  Table!Table!Next
<1>. PICK lists : lists = AllListed
  OBVIOUS
<1>. PICK listed : listed = AllListed'
  OBVIOUS
<1>1. /\ \A x \in TableSet : lists[x] = Table!Listed(x) /\ Listing(lists[x], lru_block[x])
      /\ \A x \in TableSet : listed[x] = Table!Listed(x)' /\ Listing(listed[x], lru_block'[x])
      /\ DOMAIN lists = TableSet /\ DOMAIN listed = TableSet
      /\ listed = [x \in TableSet |-> listed[x]] /\ lists = [x \in TableSet |-> lists[x]]
  BY DEF AllListed
<1>2. PICK e \in Elem : ListStep(lists, e)
  BY <1>1, CallSteps
<1>3. TableSetOf[e.tag] \in TableSet
  BY DEF TableAssumption
<1>. PICK s : s = TableSetOf[e.tag]
  OBVIOUS
<1>4. ASSUME NEW list, Steps(lists, lru_block', s, list, access_count')
      PROVE  listed = [lists EXCEPT ![s] = list]
  <2>1. \A x \in TableSet : listed[x] = IF x = s THEN list ELSE lists[x]
    BY <1>1, <1>4, ListsBecome
  <2>. QED  BY <1>1, <1>3, <2>1
<1>5. lists = [x \in TableSet |-> Table!Listed(x)] /\ listed = [x \in TableSet |-> Table!Listed(x)]'
  BY DEF AllListed
<1>6. CASE /\ Steps(lists, lru_block', s, Table!Table!Refreshed(lists[s], e.tag), access_count')
           /\ returned' = Table!Table!Found(lists[s], e.tag)
  <2>1. listed = [lists EXCEPT ![s] = Table!Table!Refreshed(lists[s], e.tag)]
    BY <1>4, <1>6
  <2>2. Table!Table!check_hit(e)
    BY <1>5, <1>6, <2>1 DEF Table!Table!check_hit
  <2>. QED  BY <2>2 DEF Table!Table!Next
<1>7. CASE /\ Steps(lists, lru_block', s, Table!Table!Filled(lists[s], e), access_count')
           /\ returned' = NoElem
  <2>1. listed = [lists EXCEPT ![s] = Table!Table!Filled(lists[s], e)]
    BY <1>4, <1>7
  <2>2. Table!Table!fill(e)
    BY <1>5, <1>7, <2>1 DEF Table!Table!fill
  <2>. QED  BY <2>2 DEF Table!Table!Next
<1>8. CASE /\ Steps(lists, lru_block', s, Table!Table!Without(lists[s], e.tag), access_count')
           /\ returned' = Table!Table!Found(lists[s], e.tag)
  <2>1. listed = [lists EXCEPT ![s] = Table!Table!Without(lists[s], e.tag)]
    BY <1>4, <1>8
  <2>2. Table!Table!invalidate(e)
    BY <1>5, <1>8, <2>1 DEF Table!Table!invalidate
  <2>. QED  BY <2>2 DEF Table!Table!Next
<1>. QED  BY <1>2, <1>6, <1>7, <1>8 DEF ListStep

LEMMA ListedFirst == ASSUME Table!Init PROVE Table!Table!Init
<1>1. returned = NoElem
  BY DEF Table!Init
<1>2. ASSUME NEW x \in TableSet PROVE Table!Listed(x) = <<>>
  <2>1. Table!Valid(x) = {}
    BY <1>2 DEF Table!Init, Table!Valid, Table!Empty
  <2>2. Table!Cardinality({}) = 0
    BY FS_EmptySet, SameCardinalityLru
  <2>. QED  BY <2>1, <2>2 DEF Table!Listed
<1>. QED  BY <1>1, <1>2 DEF Table!Table!Init

(* However hits, fills and invalidations follow one another in lru_table,   *)
(* every set of it is a list by recency, with no tag twice, and only the     *)
(* last of a full list is ever lost: each call of the table is the call of   *)
(* RecencyList (inc/msl/lru_table.h).                                      *)
THEOREM TableIsAList == TableAssumption => (PartsSpec => ListSpec)
<1>. SUFFICES ASSUME TableAssumption PROVE PartsSpec => ListSpec
  OBVIOUS
<1>. DEFINE Good == \A x \in TableSet : Listing(Table!Listed(x), lru_block[x])
<1>1. Table!Init => Table!Table!Init
  BY ListedFirst
<1>2. ListInv => Good
  BY ListedAll
<1>3. ListInv /\ ListInv' /\ Good /\ Good' /\ [Table!Next]_Table!vars => [Table!Table!Next]_(Table!Table!vars)
  <2>. SUFFICES ASSUME ListInv, ListInv', Good, Good', [Table!Next]_Table!vars
                PROVE  [Table!Table!Next]_(Table!Table!vars)
    OBVIOUS
  <2>1. CASE Table!Next
    BY <2>1, ListRefined
  <2>2. CASE UNCHANGED Table!vars
    BY <2>2 DEF Table!vars, Table!Table!vars, Table!Listed, Table!Valid, Table!WayAt, Table!Rank
  <2>. QED  BY <2>1, <2>2
<1>. HIDE DEF Good
<1>. QED  BY <1>1, <1>2, <1>3, PartsAlone, ListAlways, PTL
          DEF ListSpec, Table!ListSpec, Table!Table!Spec, Table!Spec

-----------------------------------------------------------------------------
(* The places of DRAM (Addresses), for memories of every shape.            *)

(* The memory has a place for every address of the bits: an address past its *)
(* end shares the place of one that is not.                                *)
MappingAssumption ==
  /\ bits \in Nat
  /\ {channel_bytes, channels, bankgroups, banks, columns, ranks, rows} \subseteq Nat
  /\ pref_size \in Nat \ {0}
  /\ Slices!address_slicer.row.upper >= bits

LEMMA SameCardinalitySlices == \A S : Slices!Cardinality(S) = Cardinality(S)
BY Zenon DEF Slices!Cardinality, Cardinality

LEMMA Lg2Is == ASSUME NEW n \in Nat PROVE Slices!lg2(n) \in Nat
<1>. DEFINE S == {k \in 1 .. n : 2^k <= n}
<1>1. IsFiniteSet(1 .. n)
  BY FS_Interval
<1>2. IsFiniteSet(S)
  BY <1>1, FS_Subset
<1>3. Cardinality(S) \in Nat
  BY <1>2, FS_CardinalityType
<1>4. Slices!lg2(n) = Cardinality(S)
  BY SameCardinalitySlices DEF Slices!lg2
<1>. QED  BY <1>3, <1>4

(* Each field of an address begins where the one below it ends.            *)
Extents == [upper : Nat, lower : Nat]
Contiguous(a) ==
  /\ {a.offset, a.channel, a.bankgroup, a.bank, a.column, a.rank, a.row} \subseteq Extents
  /\ a.channel.lower = a.offset.upper /\ a.bankgroup.lower = a.channel.upper
  /\ a.bank.lower = a.bankgroup.upper /\ a.column.lower = a.bank.upper
  /\ a.rank.lower = a.column.upper /\ a.row.lower = a.rank.upper

LEMMA SlicerContiguous == ASSUME MappingAssumption PROVE Contiguous(Slices!address_slicer)
<1>1. channel_bytes * pref_size \in Nat /\ columns \div pref_size \in Nat
  BY DEF MappingAssumption
<1>2. /\ Slices!Widths.offset \in Nat /\ Slices!Widths.channel \in Nat /\ Slices!Widths.bankgroup \in Nat
      /\ Slices!Widths.bank \in Nat /\ Slices!Widths.column \in Nat /\ Slices!Widths.rank \in Nat
      /\ Slices!Widths.row \in Nat
  BY <1>1, Lg2Is DEF Slices!Widths, MappingAssumption
<1>. DEFINE a == Slices!address_slicer
            w == Slices!Widths
<1>3. /\ a.offset = [upper |-> w.offset, lower |-> 0]
      /\ a.channel = [upper |-> a.offset.upper + w.channel, lower |-> a.offset.upper]
      /\ a.bankgroup = [upper |-> a.channel.upper + w.bankgroup, lower |-> a.channel.upper]
      /\ a.bank = [upper |-> a.bankgroup.upper + w.bank, lower |-> a.bankgroup.upper]
      /\ a.column = [upper |-> a.bank.upper + w.column, lower |-> a.bank.upper]
      /\ a.rank = [upper |-> a.column.upper + w.rank, lower |-> a.column.upper]
      /\ a.row = [upper |-> a.rank.upper + w.row, lower |-> a.rank.upper]
  BY Zenon DEF Slices!address_slicer
<1>. HIDE DEF a, w
<1>4. /\ a.offset.upper \in Nat /\ a.channel.upper \in Nat /\ a.bankgroup.upper \in Nat /\ a.bank.upper \in Nat
      /\ a.column.upper \in Nat /\ a.rank.upper \in Nat /\ a.row.upper \in Nat
  BY <1>2, <1>3 DEF w
<1>. QED  BY <1>3, <1>4 DEF a, Contiguous, Extents

(* A field has the bits of the address that are in its extent.              *)
LEMMA ConvertIs ==
  ASSUME bits \in Nat, NEW address \in SUBSET Slices!Bit, NEW e \in Extents
  PROVE  /\ Slices!Convert(e, Slices!Make(Slices!Full, address)).value \subseteq Slices!Bit
         /\ \A b \in Slices!Bit : e.lower <= b /\ b < e.upper =>
              (b \in address <=> b - e.lower \in Slices!Convert(e, Slices!Make(Slices!Full, address)).value)
<1>1. e.lower \in Nat /\ e.upper \in Nat
  BY DEF Extents
<1>2. \A b \in address : b \in Nat /\ b < bits
  BY DEF Slices!Bit
<1>3. Slices!Make(Slices!Full, address).value = address /\ Slices!Make(Slices!Full, address).extent.lower = 0
  <2>1. Slices!Full.upper = bits /\ Slices!Full.lower = 0
    BY DEF Slices!Full
  <2>2. Slices!Make(Slices!Full, address) = [extent |-> Slices!Full, value |-> address \cap (0 .. bits - 1)]
    BY <2>1 DEF Slices!Make, Slices!bitmask, Slices!size
  <2>3. address \cap (0 .. bits - 1) = address
    BY <1>2
  <2>. QED  BY <2>1, <2>2, <2>3
<1>4. Slices!ShiftLeft(address, 0) = address
  <2>1. \A b \in address : b + 0 = b /\ b \in Slices!Bit
    BY <1>2
  <2>2. Slices!ShiftLeft(address, 0) = {b + 0 : b \in address} \cap Slices!Bit
    BY DEF Slices!ShiftLeft
  <2>. QED  BY <2>1, <2>2
<1>5. Slices!Convert(e, Slices!Make(Slices!Full, address)).value
        = Slices!ShiftRight(address \cap (e.lower .. e.upper - 1), e.lower)
  BY <1>3, <1>4 DEF Slices!Convert, Slices!bitmask
<1>6. Slices!ShiftRight(address \cap (e.lower .. e.upper - 1), e.lower)
        = {b - e.lower : b \in address \cap (e.lower .. e.upper - 1)} \cap Slices!Bit
  BY DEF Slices!ShiftRight
<1>7. ASSUME NEW b \in Slices!Bit, e.lower <= b, b < e.upper
      PROVE  b \in address <=>
               b - e.lower \in {c - e.lower : c \in address \cap (e.lower .. e.upper - 1)} \cap Slices!Bit
  <2>1. b \in Int /\ b - e.lower \in Slices!Bit /\ b \in e.lower .. e.upper - 1
    BY <1>1, <1>7 DEF Slices!Bit
  <2>2. \A c \in address : c - e.lower = b - e.lower => c = b
    BY <1>1, <1>2, <2>1
  <2>. QED  BY <2>1, <2>2
<1>. QED  BY <1>5, <1>6, <1>7

(* Hashed with the same bits, two fields are the same only if they were.    *)
LEMMA SwizzleKeepsApart ==
  ASSUME bits \in Nat, NEW a, NEW b,
         Slices!Convert(Slices!address_slicer.row, Slices!Make(Slices!Full, a))
           = Slices!Convert(Slices!address_slicer.row, Slices!Make(Slices!Full, b)),
         NEW size, NEW offset, NEW wide, NEW f, NEW g, f \subseteq Slices!Bit, g \subseteq Slices!Bit,
         Slices!swizzle_bits(a, size, offset, f, wide) = Slices!swizzle_bits(b, size, offset, g, wide)
  PROVE  f = g
<1>. DEFINE row == Slices!Convert(Slices!address_slicer["row"], Slices!Make(Slices!Full, a))
            Segment(low) == Slices!Slice(Slices!Slice(row, [upper |-> low + size, lower |-> low]),
                                         [upper |-> offset + wide, lower |-> offset])
            lows == {low \in 0 .. bits : low % size = 0 /\ low + size <= row.extent.upper}
            T(x) == {low \in lows : x \in Segment(low).value}
            Times(x, h) == Cardinality(T(x)) + (IF x \in h THEN 1 ELSE 0)
<1>1. \A x : Cardinality(T(x)) \in Nat
  <2>1. IsFiniteSet(0 .. bits)
    BY FS_Interval
  <2>2. \A x : T(x) \in SUBSET (0 .. bits)
    OBVIOUS
  <2>. HIDE DEF T
  <2>. QED  BY <2>1, <2>2, FS_Subset, FS_CardinalityType
<1>2. Slices!swizzle_bits(a, size, offset, f, wide) = {x \in Slices!Bit : Times(x, f) % 2 = 1}
  BY SameCardinalitySlices DEF Slices!swizzle_bits
<1>3. Slices!swizzle_bits(b, size, offset, g, wide) = {x \in Slices!Bit : Times(x, g) % 2 = 1}
  BY SameCardinalitySlices DEF Slices!swizzle_bits
<1>. HIDE DEF T
<1>4. ASSUME NEW x \in Slices!Bit PROVE x \in f <=> x \in g
  <2>1. Times(x, f) % 2 = 1 <=> Times(x, g) % 2 = 1
    BY <1>2, <1>3, <1>4
  <2>. PICK n \in Nat : n = Cardinality(T(x))
    BY <1>1
  <2>2. (n + (IF x \in f THEN 1 ELSE 0)) % 2 = 1 <=> (n + (IF x \in g THEN 1 ELSE 0)) % 2 = 1
    BY <2>1
  <2>3. (n + 1) % 2 = 1 <=> ~((n + 0) % 2 = 1)
    OBVIOUS
  <2>. QED  BY <2>2, <2>3
<1>. QED  BY <1>4


(* Two addresses with the same place and the same offset are the same.      *)
LEMMA SamePlaceSameBlock ==
  ASSUME MappingAssumption, NEW a \in SUBSET Slices!Bit, NEW b \in SUBSET Slices!Bit,
         Slices!Place[a] = Slices!Place[b]
  PROVE  a \ Slices!bitmask(Slices!address_slicer.offset.upper, 0)
           = b \ Slices!bitmask(Slices!address_slicer.offset.upper, 0)
<1>. DEFINE s == Slices!address_slicer
            V(e, x) == Slices!Convert(e, Slices!Make(Slices!Full, x)).value
            In(e, x) == e.lower <= x /\ x < e.upper
<1>1. bits \in Nat /\ Contiguous(s) /\ s.row.upper \in Nat /\ s.row.upper >= bits
  BY SlicerContiguous DEF MappingAssumption, Contiguous, Extents
<1>2. /\ Slices!Field("channel", a) = V(s.channel, a) /\ Slices!Field("channel", b) = V(s.channel, b)
      /\ Slices!Field("bankgroup", a) = V(s.bankgroup, a) /\ Slices!Field("bankgroup", b) = V(s.bankgroup, b)
      /\ Slices!Field("bank", a) = V(s.bank, a) /\ Slices!Field("bank", b) = V(s.bank, b)
      /\ Slices!Field("column", a) = V(s.column, a) /\ Slices!Field("column", b) = V(s.column, b)
      /\ Slices!Field("rank", a) = V(s.rank, a) /\ Slices!Field("rank", b) = V(s.rank, b)
      /\ Slices!Field("row", a) = V(s.row, a) /\ Slices!Field("row", b) = V(s.row, b)
  BY DEF Slices!Field
<1>3. /\ Slices!get_channel(a) = Slices!get_channel(b)
      /\ Slices!get_bankgroup(a) = Slices!get_bankgroup(b)
      /\ Slices!get_bank(a) = Slices!get_bank(b)
      /\ Slices!Field("column", a) = Slices!Field("column", b)
      /\ Slices!Field("rank", a) = Slices!Field("rank", b)
      /\ Slices!Field("row", a) = Slices!Field("row", b)
  <2>1. \A x \in SUBSET Slices!Bit :
          Slices!Place[x] = <<Slices!get_channel(x), Slices!get_bankgroup(x), Slices!get_bank(x),
                              Slices!Field("column", x), Slices!Field("rank", x), Slices!Field("row", x)>>
    BY DEF Slices!Place
  <2>. QED  BY <2>1
<1>4. {s.offset, s.channel, s.bankgroup, s.bank, s.column, s.rank, s.row} \subseteq Extents
  BY <1>1 DEF Contiguous
<1>5. Slices!Convert(s.row, Slices!Make(Slices!Full, a)) = Slices!Convert(s.row, Slices!Make(Slices!Full, b))
  BY <1>2, <1>3 DEF Slices!Convert
<1>6. \A e \in Extents : V(e, a) \subseteq Slices!Bit /\ V(e, b) \subseteq Slices!Bit
  BY <1>1, ConvertIs
<1>7. V(s.channel, a) = V(s.channel, b)
  BY <1>1, <1>2, <1>3, <1>4, <1>5, <1>6, SwizzleKeepsApart DEF Slices!get_channel
<1>8. V(s.bankgroup, a) = V(s.bankgroup, b)
  BY <1>1, <1>2, <1>3, <1>4, <1>5, <1>6, SwizzleKeepsApart DEF Slices!get_bankgroup
<1>9. V(s.bank, a) = V(s.bank, b)
  BY <1>1, <1>2, <1>3, <1>4, <1>5, <1>6, SwizzleKeepsApart DEF Slices!get_bank
<1>10. \A e \in {s.channel, s.bankgroup, s.bank, s.column, s.rank, s.row} : V(e, a) = V(e, b)
  BY <1>2, <1>3, <1>7, <1>8, <1>9
<1>11. \A e \in Extents : V(e, a) = V(e, b) =>
         \A x \in Slices!Bit : In(e, x) => (x \in a <=> x \in b)
  BY <1>1, ConvertIs
<1>. HIDE DEF V
<1>12. ASSUME NEW x \in Slices!Bit, x >= s.offset.upper PROVE x \in a <=> x \in b
  <2>1. x \in Nat /\ x < s.row.upper
    BY <1>1 DEF Slices!Bit
  <2>2. \E e \in {s.channel, s.bankgroup, s.bank, s.column, s.rank, s.row} : In(e, x)
    <3>1. /\ s.offset.upper \in Nat /\ s.channel.upper \in Nat /\ s.bankgroup.upper \in Nat /\ s.bank.upper \in Nat
          /\ s.column.upper \in Nat /\ s.rank.upper \in Nat
          /\ s.channel.lower = s.offset.upper /\ s.bankgroup.lower = s.channel.upper
          /\ s.bank.lower = s.bankgroup.upper /\ s.column.lower = s.bank.upper
          /\ s.rank.lower = s.column.upper /\ s.row.lower = s.rank.upper
      BY <1>1 DEF Contiguous, Extents
    <3>. HIDE DEF s
    <3>2. In(s.channel, x) \/ In(s.bankgroup, x) \/ In(s.bank, x) \/ In(s.column, x) \/ In(s.rank, x) \/ In(s.row, x)
      BY <1>1, <1>12, <2>1, <3>1
    <3>. QED  BY <3>2
  <2>. HIDE DEF s, In
  <2>. QED  BY <1>4, <1>10, <1>11, <2>2
<1>13. \A x \in Slices!Bit : x \in Slices!bitmask(s.offset.upper, 0) <=> ~(x >= s.offset.upper)
  <2>1. s.offset.upper \in Nat
    BY <1>4 DEF Extents
  <2>. HIDE DEF s
  <2>. QED  BY <1>1, <2>1 DEF Slices!Bit, Slices!bitmask
<1>. QED  BY <1>12, <1>13

(* A slice never has a bit that an address has not.                         *)
LEMMA BitsOfAddress ==
  ASSUME NEW e, NEW v \in SUBSET Slices!Bit PROVE Slices!Make(e, v).value \in SUBSET Slices!Bit
BY DEF Slices!Make

LEMMA SliceStaysInBits == Slices!Spec => [](slice.value \in SUBSET Slices!Bit)
<1>1. Slices!Init => slice.value \in SUBSET Slices!Bit
  BY BitsOfAddress DEF Slices!Init
<1>2. slice.value \in SUBSET Slices!Bit /\ [Slices!Next]_slice => (slice.value \in SUBSET Slices!Bit)'
  <2>. SUFFICES ASSUME slice.value \in SUBSET Slices!Bit, Slices!Next
                PROVE  slice'.value \in SUBSET Slices!Bit
    OBVIOUS
  <2>1. \A v, n : Slices!ShiftRight(v, n) \in SUBSET Slices!Bit /\ Slices!ShiftLeft(v, n) \in SUBSET Slices!Bit
    BY DEF Slices!ShiftRight, Slices!ShiftLeft
  <2>2. \A e : Slices!Convert(e, slice).value \in SUBSET Slices!Bit
    BY <2>1 DEF Slices!Convert
  <2>3. \A e : Slices!Slice(slice, e).value \in SUBSET Slices!Bit
    BY <2>1, BitsOfAddress DEF Slices!Slice
  <2>4. \A other : Slices!Splice(slice, other).value \in SUBSET Slices!Bit
    <3>1. \A v, e, f : Slices!translate(v, e, f) \in SUBSET Slices!Bit
      BY <2>1 DEF Slices!translate
    <3>2. \A v, w, m, n : v \in SUBSET Slices!Bit /\ w \in SUBSET Slices!Bit
            => Slices!splice_bits(v, w, m, n) \in SUBSET Slices!Bit
      BY DEF Slices!splice_bits
    <3>. QED  BY <3>1, <3>2, BitsOfAddress DEF Slices!Splice
  <2>5. \A delta : Slices!Plus(slice, delta).value \in SUBSET Slices!Bit
    BY BitsOfAddress DEF Slices!Plus
  <2>6. CASE Slices!Converted
    BY <2>2, <2>6 DEF Slices!Converted
  <2>7. CASE Slices!Sliced
    BY <2>3, <2>7 DEF Slices!Sliced
  <2>8. CASE Slices!Split
    BY <2>3, <2>8 DEF Slices!Split, Slices!slice_upper, Slices!slice_lower
  <2>9. CASE Slices!Spliced
    BY <2>4, <2>9 DEF Slices!Spliced
  <2>10. CASE Slices!Stepped
    BY <2>5, <2>10 DEF Slices!Stepped
  <2>. QED  BY <2>6, <2>7, <2>8, <2>9, <2>10 DEF Slices!Next
<1>. QED  BY <1>1, <1>2, PTL DEF Slices!Spec

(* For memories of every shape with room for the addresses: no two blocks    *)
(* have the same channel, bank group, bank, column, rank and row, since what *)
(* the row is hashed into comes back with the row (DRAM_ADDRESS_MAPPING and  *)
(* swizzle_bits, dram_controller.cc).                                      *)
THEOREM BlocksHavePlaces == MappingAssumption => (PartsSpec => []BlocksApart)
<1>. SUFFICES ASSUME MappingAssumption PROVE PartsSpec => []BlocksApart
  OBVIOUS
<1>1. slice.value \in SUBSET Slices!Bit => BlocksApart
  BY SamePlaceSameBlock DEF BlocksApart, Slices!BlocksApart
<1>. QED  BY <1>1, PartsAlone, SliceStaysInBits, PTL


-----------------------------------------------------------------------------
(* The branch target buffer (BTB), for tables and stacks of every size.     *)

(* A list without one tag twice; p is made of elements of l, and maybe e.    *)
Distinct(l) == \A i, j \in 1 .. Len(l) : i # j => l[i].tag # l[j].tag
From(p, l) == \A i \in 1 .. Len(p) : \E j \in 1 .. Len(l) : p[i] = l[j]
Lacks(l, tag) == \A i \in 1 .. Len(l) : l[i].tag # tag

LEMMA WithoutLacks ==
  ASSUME NEW S, NEW l \in Seq(S), Distinct(l), NEW tag, NEW p, p = Btb!Direct!Without(l, tag)
  PROVE  p \in Seq(S) /\ Distinct(p) /\ From(p, l) /\ Lacks(p, tag)
<1>1. Len(l) \in Nat /\ DOMAIN l = 1 .. Len(l)
  BY LenProperties
<1>2. CASE Btb!Direct!Holds(l, tag)
  <2>. PICK r : r = Btb!Direct!Place(l, tag)
    OBVIOUS
  <2>1. r \in 1 .. Len(l) /\ l[r].tag = tag
    BY <1>1, <1>2 DEF Btb!Direct!Holds, Btb!Direct!Place
  <2>2. p = SubSeq(l, 1, r - 1) \o SubSeq(l, r + 1, Len(l))
    BY <1>2 DEF Btb!Direct!Without, Btb!Direct!RemoveAt
  <2>3. TakenOut(p, l, r, S)
    BY <2>1, <2>2, RemovedIs
  <2>4. p \in Seq(S) /\ Len(p) = Len(l) - 1
    BY <2>1, <2>3 DEF TakenOut
  <2>. DEFINE at(i) == IF i < r THEN i ELSE i + 1
  <2>5. ASSUME NEW i \in 1 .. Len(p) PROVE at(i) \in 1 .. Len(l) /\ at(i) # r /\ p[i] = l[at(i)]
    <3>1. CASE i < r
      BY <1>1, <2>1, <2>3, <2>4, <3>1 DEF TakenOut
    <3>2. CASE ~(i < r)
      <4>1. i + 1 \in 1 .. Len(l) /\ i + 1 > r /\ (i + 1) - 1 = i
        BY <1>1, <2>1, <2>4, <3>2
      <4>. QED  BY <2>1, <2>3, <3>2, <4>1 DEF TakenOut
    <3>. QED  BY <3>1, <3>2
  <2>6. \A i, j \in 1 .. Len(p) : i # j => at(i) # at(j)
    BY <1>1, <2>1, <2>4
  <2>. HIDE DEF at
  <2>7. Distinct(p)
    BY <2>5, <2>6 DEF Distinct
  <2>8. From(p, l)
    BY <2>5 DEF From
  <2>9. Lacks(p, tag)
    BY <2>1, <2>5 DEF Lacks, Distinct
  <2>. QED  BY <2>4, <2>7, <2>8, <2>9
<1>3. CASE ~Btb!Direct!Holds(l, tag)
  <2>1. p = l
    BY <1>3 DEF Btb!Direct!Without
  <2>2. Lacks(p, tag)
    BY <1>1, <1>3, <2>1 DEF Lacks, Btb!Direct!Holds
  <2>. QED  BY <2>1, <2>2 DEF From
<1>. QED  BY <1>2, <1>3

Fronted(p, e, t, S) ==
  /\ p \in Seq(S) /\ Len(p) = Len(t) + 1 /\ Distinct(p) /\ p[1] = e
  /\ \A i \in 2 .. Len(p) : i - 1 \in 1 .. Len(t) /\ p[i] = t[i - 1]

LEMMA FrontedList ==
  ASSUME NEW S, NEW t \in Seq(S), Distinct(t), NEW e \in S, Lacks(t, e.tag), NEW p, p = <<e>> \o t
  PROVE  Fronted(p, e, t, S)
<1>1. Len(t) \in Nat
  BY LenProperties
<1>2. <<e>> \in Seq(S) /\ Len(<<e>>) = 1
  OBVIOUS
<1>3. /\ p \in Seq(S) /\ Len(p) = 1 + Len(t)
      /\ \A i \in 1 .. 1 + Len(t) : p[i] = IF i <= 1 THEN <<e>>[i] ELSE t[i - 1]
  BY <1>1, <1>2, ConcatProperties
<1>4. p[1] = e
  BY <1>1, <1>3
<1>5. \A i \in 2 .. Len(p) : i - 1 \in 1 .. Len(t) /\ p[i] = t[i - 1]
  BY <1>1, <1>3
<1>6. ASSUME NEW i \in 1 .. Len(p), NEW j \in 1 .. Len(p), i # j PROVE p[i].tag # p[j].tag
  <2>1. CASE i = 1
    <3>1. j \in 2 .. Len(p)
      BY <1>1, <1>3, <1>6, <2>1
    <3>. QED  BY <1>4, <1>5, <2>1, <3>1 DEF Lacks
  <2>2. CASE j = 1
    <3>1. i \in 2 .. Len(p)
      BY <1>1, <1>3, <1>6, <2>2
    <3>. QED  BY <1>4, <1>5, <2>2, <3>1 DEF Lacks
  <2>3. CASE i # 1 /\ j # 1
    <3>1. i \in 2 .. Len(p) /\ j \in 2 .. Len(p) /\ i - 1 # j - 1
      BY <1>1, <1>3, <1>6, <2>3
    <3>. QED  BY <1>5, <3>1 DEF Distinct
  <2>. QED  BY <2>1, <2>2, <2>3
<1>7. Distinct(p)
  BY <1>6 DEF Distinct
<1>8. Len(p) = Len(t) + 1
  BY <1>1, <1>3
<1>. QED  BY <1>3, <1>4, <1>5, <1>7, <1>8 DEF Fronted

Prefix(p, q, n, S) ==
  p \in Seq(S) /\ Len(p) = n /\ \A i \in 1 .. n : i \in 1 .. Len(q) /\ p[i] = q[i]

LEMMA PrefixIs ==
  ASSUME NEW S, NEW q \in Seq(S), NEW n \in Nat, n <= Len(q), NEW p, p = SubSeq(q, 1, n)
  PROVE  Prefix(p, q, n, S)
<1>1. Len(q) \in Nat /\ \A i \in 1 .. Len(q) : q[i] \in S
  BY LenProperties, ElementOfSeq
<1>2. \A i \in 1 .. n : i \in 1 .. Len(q) /\ q[i] \in S
  BY <1>1
<1>3. /\ SubSeq(q, 1, n) \in Seq(S) /\ Len(SubSeq(q, 1, n)) = IF 1 <= n THEN n - 1 + 1 ELSE 0
      /\ \A i \in 1 .. n - 1 + 1 : SubSeq(q, 1, n)[i] = q[1 + i - 1]
  BY <1>2, SubSeqProperties
<1>4. p \in Seq(S) /\ Len(p) = n /\ \A i \in 1 .. n : p[i] = q[i]
  BY <1>3
<1>. QED  BY <1>2, <1>4 DEF Prefix

LEMMA RefreshedFrom ==
  ASSUME NEW S, NEW l \in Seq(S), Distinct(l), NEW tag, NEW p, p = Btb!Direct!Refreshed(l, tag)
  PROVE  p \in Seq(S) /\ Distinct(p) /\ From(p, l)
<1>1. Len(l) \in Nat /\ DOMAIN l = 1 .. Len(l) /\ \A i \in 1 .. Len(l) : l[i] \in S
  BY LenProperties, ElementOfSeq
<1>2. CASE ~Btb!Direct!Holds(l, tag)
  BY <1>2 DEF Btb!Direct!Refreshed, From
<1>3. CASE Btb!Direct!Holds(l, tag)
  <2>. PICK r : r = Btb!Direct!Place(l, tag)
    OBVIOUS
  <2>. PICK t : t = Btb!Direct!Without(l, tag)
    OBVIOUS
  <2>1. r \in 1 .. Len(l) /\ l[r].tag = tag
    BY <1>1, <1>3 DEF Btb!Direct!Holds, Btb!Direct!Place
  <2>2. p = <<l[r]>> \o t
    BY <1>3 DEF Btb!Direct!Refreshed, Btb!Direct!Found
  <2>3. t \in Seq(S) /\ Distinct(t) /\ From(t, l) /\ Lacks(t, tag)
    BY WithoutLacks
  <2>. PICK e \in S : e = l[r]
    BY <1>1, <2>1
  <2>9. Fronted(p, e, t, S)
    <3>1. Lacks(t, e.tag) /\ p = <<e>> \o t
      BY <2>1, <2>2, <2>3
    <3>. QED  BY <2>3, <3>1, FrontedList
  <2>4. /\ p \in Seq(S) /\ Len(p) = Len(t) + 1 /\ Distinct(p) /\ p[1] = e
        /\ \A i \in 2 .. Len(p) : i - 1 \in 1 .. Len(t) /\ p[i] = t[i - 1]
    BY <2>9 DEF Fronted
  <2>5. \A i \in 1 .. Len(p) : i = 1 \/ i \in 2 .. Len(p)
    BY <2>4, LenProperties
  <2>6. From(p, l)
    BY <2>1, <2>3, <2>4, <2>5 DEF From
  <2>. QED  BY <2>4, <2>6
<1>. QED  BY <1>2, <1>3

NewOrFrom(p, e, l) ==
  \A i \in 1 .. Len(p) : p[i] = e \/ (p[i].tag # e.tag /\ \E j \in 1 .. Len(l) : p[i] = l[j])

LEMMA FilledFrom ==
  ASSUME BTB_WAYS \in Nat, NEW S, NEW l \in Seq(S), Distinct(l), NEW e \in S, NEW p, p = Btb!Direct!Filled(l, e)
  PROVE  p \in Seq(S) /\ Distinct(p) /\ NewOrFrom(p, e, l)
<1>. PICK t : t = Btb!Direct!Without(l, e.tag)
  OBVIOUS
<1>. PICK q : q = <<e>> \o t
  OBVIOUS
<1>. PICK n : n = IF Len(l) < BTB_WAYS \/ Btb!Direct!Holds(l, e.tag) THEN Len(t) + 1 ELSE BTB_WAYS
  OBVIOUS
<1>1. t \in Seq(S) /\ Distinct(t) /\ From(t, l) /\ Lacks(t, e.tag)
  BY WithoutLacks
<1>2. /\ q \in Seq(S) /\ Len(q) = Len(t) + 1 /\ Distinct(q) /\ q[1] = e
      /\ \A i \in 2 .. Len(q) : i - 1 \in 1 .. Len(t) /\ q[i] = t[i - 1]
  <2>1. Fronted(q, e, t, S)
    BY <1>1, FrontedList
  <2>. QED  BY <2>1 DEF Fronted
<1>3. p = SubSeq(q, 1, n)
  BY DEF Btb!Direct!Filled
<1>4. Len(l) \in Nat /\ Len(t) \in Nat /\ n \in Nat
  BY <1>1, LenProperties
<1>5. n <= Len(q)
  <2>1. CASE Len(l) < BTB_WAYS \/ Btb!Direct!Holds(l, e.tag)
    BY <1>2, <1>4, <2>1
  <2>2. CASE ~(Len(l) < BTB_WAYS \/ Btb!Direct!Holds(l, e.tag))
    <3>1. t = l
      BY <2>2 DEF Btb!Direct!Without
    <3>. QED  BY <1>2, <1>4, <2>2, <3>1
  <2>. QED  BY <2>1, <2>2
<1>6. p \in Seq(S) /\ Len(p) = n /\ \A i \in 1 .. n : i \in 1 .. Len(q) /\ p[i] = q[i]
  <2>1. Prefix(p, q, n, S)
    BY <1>2, <1>3, <1>4, <1>5, PrefixIs
  <2>. QED  BY <2>1 DEF Prefix
<1>7. Distinct(p)
  <2>. SUFFICES ASSUME NEW i \in 1 .. n, NEW j \in 1 .. n, i # j PROVE p[i].tag # p[j].tag
    BY <1>6 DEF Distinct
  <2>1. q[i].tag # q[j].tag
    BY <1>2, <1>6 DEF Distinct
  <2>. QED  BY <1>6, <2>1
<1>9. ASSUME NEW i \in 1 .. Len(p)
      PROVE  p[i] = e \/ (p[i].tag # e.tag /\ \E j \in 1 .. Len(l) : p[i] = l[j])
  <2>1. i \in 1 .. Len(q) /\ p[i] = q[i]
    BY <1>6
  <2>2. i = 1 \/ i \in 2 .. Len(q)
    BY <1>2, <1>4, <2>1
  <2>3. CASE i = 1
    BY <1>2, <2>1, <2>3
  <2>4. CASE i \in 2 .. Len(q)
    BY <1>1, <1>2, <2>1, <2>4 DEF From, Lacks
  <2>. QED  BY <2>2, <2>3, <2>4
<1>. QED  BY <1>6, <1>7, <1>9 DEF NewOrFrom


(* A call has an address and a size; every branch has a tag, and every tag a *)
(* set of the table.                                                       *)
CallIp == {ip \in DOMAIN SIZE : ip \in Nat /\ SIZE[ip] \in Nat}
BtbAssumption ==
  /\ BTB_WAYS \in Nat /\ max_size \in Nat
  /\ \A branch \in Branch : TagOf[branch.ip] \in Tag /\ (branch.type \in Btb!Calls => branch.ip \in CallIp)
  /\ \A tag \in Tag : SetOfTag[tag] \in BtbSet

Targets == Target \cup Nat
BranchEntry == [tag : Tag, type : {"INDIRECT", "RETURN", "CONDITIONAL", "ALWAYS_TAKEN"}, target : Targets]

(* A set of the direct predictor: its tags, each once, as they were last    *)
(* taken.                                                                  *)
KeptIn(s, l, last) ==
  /\ l \in Seq(BranchEntry) /\ Distinct(l)
  /\ \A i \in 1 .. Len(l) : l[i].tag \in Tag /\ SetOfTag[l[i].tag] = s /\ l[i] = last[l[i].tag]

(* The stack is what the program called last.                              *)
StackFollows(st, cl) ==
  /\ st \in Seq(CallIp) /\ cl \in Seq(CallIp)
  /\ Len(st) <= Len(cl) /\ Len(st) <= max_size
  /\ \A i \in 1 .. Len(st) : st[i] = cl[Len(cl) - Len(st) + i]

TableKept ==
  /\ DOMAIN last_taken = Tag
  /\ direct \in [BtbSet -> Seq(BranchEntry)]
  /\ \A s \in BtbSet : KeptIn(s, direct[s], last_taken)

BtbInv == StackFollows(stack, calls) /\ Btb!SizesLearnt /\ TableKept

(* After a branch at a tag of a set: the entry of the tag is the new one.    *)
LEMMA SetKept ==
  ASSUME BtbAssumption, NEW s, NEW l, NEW last, KeptIn(s, l, last), DOMAIN last = Tag,
         NEW tag \in Tag, SetOfTag[tag] = s, NEW type, NEW target \in Targets,
         NEW new, new = (IF target = 0 THEN last
                         ELSE [last EXCEPT ![tag] = [tag |-> tag, type |-> Btb!InfoOf(type), target |-> target]]),
         NEW p, p = Btb!Updated(Btb!Direct!Refreshed(l, tag), tag, type, target)
  PROVE  KeptIn(s, p, new)
<1>. PICK q : q = Btb!Direct!Refreshed(l, tag)
  OBVIOUS
<1>1. q \in Seq(BranchEntry) /\ Distinct(q) /\ From(q, l)
  BY RefreshedFrom DEF KeptIn
<1>2. \A i \in 1 .. Len(q) : q[i].tag \in Tag /\ SetOfTag[q[i].tag] = s /\ q[i] = last[q[i].tag]
  BY <1>1 DEF KeptIn, From
<1>3. CASE target = 0
  <2>1. p = Btb!Direct!Refreshed(q, tag)
    BY <1>3 DEF Btb!Updated, Btb!NoAddress
  <2>2. p \in Seq(BranchEntry) /\ Distinct(p) /\ From(p, q)
    BY <1>1, <2>1, RefreshedFrom
  <2>. QED  BY <1>2, <1>3, <2>2 DEF KeptIn, From
<1>4. CASE target # 0
  <2>. PICK e : e = [tag |-> tag, type |-> Btb!InfoOf(type), target |-> target]
    OBVIOUS
  <2>1. e \in BranchEntry /\ e.tag = tag
    BY DEF BranchEntry, Btb!InfoOf
  <2>2. p = Btb!Direct!Filled(q, e)
    BY <1>4 DEF Btb!Updated, Btb!NoAddress
  <2>3. p \in Seq(BranchEntry) /\ Distinct(p) /\ NewOrFrom(p, e, q)
    <3>1. BTB_WAYS \in Nat
      BY DEF BtbAssumption
    <3>. QED  BY <1>1, <2>1, <2>2, <3>1, FilledFrom
  <2>4. new[tag] = e /\ \A t \in Tag : t # tag => new[t] = last[t]
    BY <1>4
  <2>5. ASSUME NEW i \in 1 .. Len(p)
        PROVE  p[i].tag \in Tag /\ SetOfTag[p[i].tag] = s /\ p[i] = new[p[i].tag]
    <3>1. CASE p[i] = e
      BY <2>1, <2>4, <3>1
    <3>2. CASE p[i].tag # e.tag /\ \E j \in 1 .. Len(q) : p[i] = q[j]
      BY <1>2, <2>1, <2>4, <3>2
    <3>. QED  BY <2>3, <3>1, <3>2 DEF NewOrFrom
  <2>. QED  BY <2>3, <2>5 DEF KeptIn
<1>. QED  BY <1>3, <1>4

LEMMA TableStays ==
  ASSUME BtbAssumption, TableKept, NEW branch \in Branch, NEW target \in Targets, Btb!Executed(branch, target)
  PROVE  TableKept'
<1>. PICK tag : tag = TagOf[branch.ip]
  OBVIOUS
<1>. PICK s : s = SetOfTag[tag]
  OBVIOUS
<1>1. tag \in Tag /\ s \in BtbSet
  BY DEF BtbAssumption
<1>. PICK p : p = Btb!Updated(Btb!Direct!Refreshed(direct[s], tag), tag, branch.type, target)
  OBVIOUS
<1>2. direct' = [direct EXCEPT ![s] = p]
  BY DEF Btb!Executed
<1>3. last_taken' = IF target = 0 THEN last_taken
        ELSE [last_taken EXCEPT ![tag] = [tag |-> tag, type |-> Btb!InfoOf(branch.type), target |-> target]]
  BY DEF Btb!Executed, Btb!NoAddress
<1>4. DOMAIN last_taken' = Tag /\ \A t \in Tag : t # tag => last_taken'[t] = last_taken[t]
  BY <1>3 DEF TableKept
<1>5. KeptIn(s, p, last_taken')
  BY <1>1, <1>3, SetKept DEF TableKept
<1>6. direct' \in [BtbSet -> Seq(BranchEntry)] /\ direct'[s] = p /\ \A x \in BtbSet : x # s => direct'[x] = direct[x]
  BY <1>1, <1>2, <1>5 DEF TableKept, KeptIn
<1>7. ASSUME NEW x \in BtbSet, x # s PROVE KeptIn(x, direct[x], last_taken')
  <2>1. KeptIn(x, direct[x], last_taken)
    BY DEF TableKept
  <2>2. \A i \in 1 .. Len(direct[x]) : direct[x][i].tag # tag
    BY <1>7, <2>1 DEF KeptIn
  <2>. QED  BY <1>4, <2>1, <2>2 DEF KeptIn
<1>8. \A x \in BtbSet : KeptIn(x, direct'[x], last_taken')
  BY <1>5, <1>6, <1>7
<1>. QED  BY <1>4, <1>6, <1>8 DEF TableKept

LEMMA PushFollows ==
  ASSUME max_size \in Nat, NEW st, NEW cl, StackFollows(st, cl), NEW ip \in CallIp,
         NEW a, a = Append(st, ip), NEW c, c = Append(cl, ip), NEW p, p = IF Len(a) > max_size THEN Tail(a) ELSE a
  PROVE  StackFollows(p, c)
<1>1. st \in Seq(CallIp) /\ cl \in Seq(CallIp) /\ Len(st) \in Nat /\ Len(cl) \in Nat /\ Len(st) <= Len(cl)
      /\ Len(st) <= max_size
  BY LenProperties DEF StackFollows
<1>2. /\ a \in Seq(CallIp) /\ Len(a) = Len(st) + 1 /\ a[Len(st) + 1] = ip
      /\ \A i \in 1 .. Len(st) : a[i] = st[i]
  BY <1>1, AppendProperties
<1>3. /\ c \in Seq(CallIp) /\ Len(c) = Len(cl) + 1 /\ c[Len(cl) + 1] = ip
      /\ \A i \in 1 .. Len(cl) : c[i] = cl[i]
  BY <1>1, AppendProperties
<1>4. ASSUME NEW i \in 1 .. Len(a) PROVE a[i] = c[Len(c) - Len(a) + i]
  <2>1. CASE i = Len(st) + 1
    <3>1. Len(c) - Len(a) + i = Len(cl) + 1
      BY <1>1, <1>2, <1>3, <2>1
    <3>. QED  BY <1>2, <1>3, <2>1, <3>1
  <2>2. CASE i # Len(st) + 1
    <3>1. i \in 1 .. Len(st) /\ Len(c) - Len(a) + i = Len(cl) - Len(st) + i
          /\ Len(cl) - Len(st) + i \in 1 .. Len(cl)
      BY <1>1, <1>2, <1>3, <2>2
    <3>2. st[i] = cl[Len(cl) - Len(st) + i]
      BY <3>1 DEF StackFollows
    <3>. QED  BY <1>2, <1>3, <3>1, <3>2
  <2>. QED  BY <2>1, <2>2
<1>5. CASE ~(Len(a) > max_size)
  <2>1. p = a /\ Len(a) <= max_size /\ Len(a) <= Len(c)
    BY <1>1, <1>2, <1>3, <1>5
  <2>. QED  BY <1>2, <1>3, <1>4, <2>1 DEF StackFollows
<1>6. CASE Len(a) > max_size
  <2>1. a # << >>
    BY <1>1, <1>2, EmptySeq
  <2>2. p \in Seq(CallIp) /\ Len(p) = Len(a) - 1 /\ \A i \in 1 .. Len(p) : p[i] = a[i + 1]
    BY <1>2, <1>6, <2>1, HeadTailProperties
  <2>3. ASSUME NEW i \in 1 .. Len(p) PROVE p[i] = c[Len(c) - Len(p) + i]
    <3>. PICK n \in Nat, m \in Nat : n = Len(st) /\ m = Len(cl)
      BY <1>1
    <3>1. Len(a) = n + 1 /\ Len(c) = m + 1 /\ Len(p) = n /\ i \in 1 .. n
      BY <1>2, <1>3, <2>2
    <3>2. i + 1 \in 1 .. n + 1 /\ (m + 1) - (n + 1) + (i + 1) = (m + 1) - n + i
      BY <3>1
    <3>3. p[i] = a[i + 1]
      BY <2>2
    <3>4. a[i + 1] = c[(m + 1) - (n + 1) + (i + 1)]
      BY <1>4, <3>1, <3>2
    <3>. QED  BY <3>1, <3>2, <3>3, <3>4
  <2>4. Len(p) <= max_size /\ Len(p) <= Len(c)
    BY <1>1, <1>2, <1>3, <2>2
  <2>. QED  BY <1>3, <2>2, <2>3, <2>4 DEF StackFollows
<1>. QED  BY <1>5, <1>6

SameTop(st, cl) == cl[Len(cl)] \in CallIp /\ (st # << >> => st[Len(st)] = cl[Len(cl)])

LEMMA PopFollows ==
  ASSUME NEW st, NEW cl, StackFollows(st, cl), cl # << >>, max_size \in Nat,
         NEW c, c = SubSeq(cl, 1, Len(cl) - 1),
         NEW p, p = IF st = << >> THEN st ELSE SubSeq(st, 1, Len(st) - 1)
  PROVE  StackFollows(p, c) /\ SameTop(st, cl)
<1>1. st \in Seq(CallIp) /\ cl \in Seq(CallIp) /\ Len(st) \in Nat /\ Len(cl) \in Nat /\ Len(st) <= Len(cl)
      /\ Len(st) <= max_size /\ (st = << >> <=> Len(st) = 0) /\ Len(cl) # 0
  BY LenProperties, EmptySeq DEF StackFollows
<1>2. /\ \A i \in 1 .. Len(st) : st[i] \in CallIp
      /\ \A i \in 1 .. Len(cl) : cl[i] \in CallIp
  BY <1>1, ElementOfSeq
<1>3. c \in Seq(CallIp) /\ Len(c) = Len(cl) - 1 /\ \A i \in 1 .. Len(cl) - 1 : c[i] = cl[i]
  <2>. PICK n \in Nat : n = Len(cl) - 1 /\ n <= Len(cl)
    BY <1>1
  <2>1. Prefix(c, cl, n, CallIp)
    BY <1>1, PrefixIs
  <2>. QED  BY <2>1 DEF Prefix
<1>4. cl[Len(cl)] \in CallIp
  BY <1>1, <1>2
<1>5. CASE st = << >>
  <2>1. p = st /\ Len(p) = 0 /\ Len(p) <= Len(c)
    BY <1>1, <1>3, <1>5
  <2>. QED  BY <1>1, <1>3, <1>4, <1>5, <2>1 DEF StackFollows, SameTop
<1>6. CASE st # << >>
  <2>1. p \in Seq(CallIp) /\ Len(p) = Len(st) - 1 /\ \A i \in 1 .. Len(st) - 1 : p[i] = st[i]
    <3>. PICK n \in Nat : n = Len(st) - 1 /\ n <= Len(st)
      BY <1>1, <1>6
    <3>1. Prefix(p, st, n, CallIp)
      BY <1>1, <1>6, PrefixIs
    <3>. QED  BY <3>1 DEF Prefix
  <2>2. ASSUME NEW i \in 1 .. Len(p) PROVE p[i] = c[Len(c) - Len(p) + i]
    <3>. PICK n \in Nat, m \in Nat : n = Len(st) /\ m = Len(cl)
      BY <1>1
    <3>1. n # 0 /\ n <= m /\ Len(p) = n - 1 /\ Len(c) = m - 1 /\ i \in 1 .. n - 1
      BY <1>1, <1>3, <1>6, <2>1
    <3>2. i \in 1 .. n /\ (m - 1) - (n - 1) + i = m - n + i /\ m - n + i \in 1 .. m - 1
      BY <3>1
    <3>3. st[i] = cl[m - n + i]
      BY <3>2 DEF StackFollows
    <3>4. p[i] = st[i] /\ c[m - n + i] = cl[m - n + i]
      BY <1>3, <2>1, <3>1, <3>2
    <3>. QED  BY <3>1, <3>2, <3>3, <3>4
  <2>3. st[Len(st)] = cl[Len(cl)]
    <3>1. Len(st) \in 1 .. Len(st) /\ Len(cl) - Len(st) + Len(st) = Len(cl)
      BY <1>1, <1>6
    <3>. QED  BY <3>1 DEF StackFollows
  <2>4. Len(p) <= max_size /\ Len(p) <= Len(c)
    BY <1>1, <1>3, <2>1
  <2>. QED  BY <1>3, <1>4, <2>1, <2>2, <2>3, <2>4 DEF StackFollows, SameTop
<1>. QED  BY <1>5, <1>6


LEMMA CallKeeps ==
  ASSUME BtbAssumption, BtbInv, NEW branch \in Branch, NEW target \in Target, Btb!Call(branch, target)
  PROVE  BtbInv'
<1>. PICK ip \in CallIp : ip = branch.ip
  BY DEF BtbAssumption, Btb!Call
<1>1. Btb!Executed(branch, target) /\ branch.type \in Btb!Calls /\ calls' = Append(calls, ip) /\ target \in Targets
  BY DEF Btb!Call, Targets
<1>2. stack' = Btb!Pushed(ip) /\ call_size_trackers' = call_size_trackers
  BY <1>1 DEF Btb!Executed
<1>3. StackFollows(stack', calls')
  <2>. PICK a : a = Append(stack, ip)
    OBVIOUS
  <2>1. stack' = IF Len(a) > max_size THEN Tail(a) ELSE a
    BY <1>2 DEF Btb!Pushed
  <2>2. max_size \in Nat /\ StackFollows(stack, calls)
    BY DEF BtbAssumption, BtbInv
  <2>. QED  BY <1>1, <2>1, <2>2, PushFollows
<1>4. Btb!SizesLearnt'
  BY <1>2 DEF BtbInv, Btb!SizesLearnt
<1>5. TableKept'
  BY <1>1, TableStays DEF BtbInv
<1>. QED  BY <1>3, <1>4, <1>5 DEF BtbInv

(* What a return learns is the size of the call it returns to.              *)
LEMMA ReturnKeeps ==
  ASSUME BtbAssumption, BtbInv, NEW branch \in Branch, Btb!Return(branch)
  PROVE  BtbInv'
<1>. PICK target : target = Btb!Top(calls) + SIZE[Btb!Top(calls)]
  OBVIOUS
<1>. PICK p : p = IF stack = << >> THEN stack ELSE SubSeq(stack, 1, Len(stack) - 1)
  OBVIOUS
<1>1. /\ Btb!Executed(branch, target) /\ branch.type = "return" /\ branch.type \notin Btb!Calls
      /\ calls # << >> /\ calls' = SubSeq(calls, 1, Len(calls) - 1)
  BY DEF Btb!Return, Btb!Calls
<1>2. stack' = p /\ call_size_trackers' = IF stack = << >> THEN call_size_trackers ELSE Btb!Calibrated(target)
  BY <1>1 DEF Btb!Executed, Btb!Popped
<1>3. /\ StackFollows(stack', calls') /\ calls[Len(calls)] \in CallIp
      /\ stack # << >> => stack[Len(stack)] = calls[Len(calls)]
  <2>. PICK c : c = SubSeq(calls, 1, Len(calls) - 1)
    OBVIOUS
  <2>1. max_size \in Nat /\ StackFollows(stack, calls) /\ calls # << >>
    BY <1>1 DEF BtbAssumption, BtbInv
  <2>2. StackFollows(p, c) /\ SameTop(stack, calls)
    BY <2>1, PopFollows
  <2>3. stack' = p /\ calls' = c
    BY <1>1, <1>2
  <2>. QED  BY <2>2, <2>3, Zenon DEF SameTop
<1>. PICK top \in CallIp : top = Btb!Top(calls)
  BY <1>3 DEF Btb!Top
<1>4. top \in Nat /\ SIZE[top] \in Nat /\ top \in DOMAIN SIZE /\ target = top + SIZE[top]
  BY DEF CallIp
<1>5. Btb!Distance(top, target) = SIZE[top]
  BY <1>4 DEF Btb!Distance
<1>6. target \in Targets
  BY <1>4 DEF Targets
<1>7. Btb!SizesLearnt'
  <2>1. CASE call_size_trackers' = call_size_trackers
    BY <2>1 DEF BtbInv, Btb!SizesLearnt
  <2>2. CASE call_size_trackers' # call_size_trackers
    <3>1. stack # << >> /\ call_size_trackers' = Btb!Calibrated(target)
      BY <1>2, <2>2
    <3>2. Btb!Top(stack) = top
      BY <1>3, <3>1 DEF Btb!Top
    <3>3. call_size_trackers' = [call_size_trackers EXCEPT ![SlotOf[top]] = SIZE[top]]
      BY <1>5, <2>2, <3>1, <3>2 DEF Btb!Calibrated
    <3>4. ASSUME NEW i \in DOMAIN call_size_trackers
          PROVE  call_size_trackers'[i] = 4
                 \/ \E ip \in DOMAIN SIZE : SlotOf[ip] = i /\ call_size_trackers'[i] = SIZE[ip]
      <4>1. CASE i = SlotOf[top]
        BY <1>4, <3>3, <4>1
      <4>2. CASE i # SlotOf[top]
        BY <3>3, <4>2 DEF BtbInv, Btb!SizesLearnt
      <4>. QED  BY <4>1, <4>2
    <3>5. DOMAIN call_size_trackers' = DOMAIN call_size_trackers
      BY <3>3
    <3>. QED  BY <3>4, <3>5 DEF Btb!SizesLearnt
  <2>. QED  BY <2>1, <2>2
<1>8. TableKept'
  BY <1>1, <1>6, TableStays DEF BtbInv
<1>. QED  BY <1>3, <1>7, <1>8 DEF BtbInv

LEMMA OtherKeeps ==
  ASSUME BtbAssumption, BtbInv, NEW branch \in Branch, NEW target \in Target \cup {0},
         Btb!Jump(branch, target) \/ Btb!Conditional(branch, target)
  PROVE  BtbInv'
<1>1. Btb!Executed(branch, target) /\ calls' = calls
  BY DEF Btb!Jump, Btb!Conditional
<1>6. branch.type \notin Btb!Calls /\ branch.type # "return"
  <2>1. CASE Btb!Jump(branch, target)
    BY <2>1 DEF Btb!Jump
  <2>2. CASE Btb!Conditional(branch, target)
    BY <2>2 DEF Btb!Conditional, Btb!Calls
  <2>. QED  BY <2>1, <2>2
<1>7. target \in Targets
  BY DEF Targets
<1>2. stack' = stack /\ call_size_trackers' = call_size_trackers
  BY <1>1, <1>6 DEF Btb!Executed
<1>3. TableKept'
  BY <1>1, <1>7, TableStays DEF BtbInv
<1>4. StackFollows(stack', calls')
  BY <1>1, <1>2 DEF BtbInv
<1>5. Btb!SizesLearnt'
  BY <1>2 DEF BtbInv, Btb!SizesLearnt
<1>. QED  BY <1>3, <1>4, <1>5 DEF BtbInv

LEMMA BtbInvStays == BtbAssumption /\ BtbInv /\ [Btb!Next]_Btb!vars => BtbInv'
<1>. SUFFICES ASSUME BtbAssumption, BtbInv, [Btb!Next]_Btb!vars PROVE BtbInv'
  OBVIOUS
<1>1. CASE UNCHANGED Btb!vars
  BY <1>1 DEF Btb!vars, BtbInv, Btb!SizesLearnt, TableKept
<1>2. CASE Btb!Next
  <2>1. PICK branch \in Branch :
          \/ Btb!Return(branch)
          \/ Btb!Conditional(branch, 0)
          \/ \E target \in Target :
               Btb!Call(branch, target) \/ Btb!Jump(branch, target) \/ Btb!Conditional(branch, target)
    BY <1>2 DEF Btb!Next, Btb!NoAddress
  <2>2. CASE Btb!Return(branch)
    BY <2>2, ReturnKeeps
  <2>3. CASE Btb!Conditional(branch, 0)
    BY <2>3, OtherKeeps
  <2>4. CASE \E target \in Target :
               Btb!Call(branch, target) \/ Btb!Jump(branch, target) \/ Btb!Conditional(branch, target)
    BY <2>4, CallKeeps, OtherKeeps
  <2>. QED  BY <2>1, <2>2, <2>3, <2>4
<1>. QED  BY <1>1, <1>2

LEMMA BtbInvStarts == BtbAssumption /\ Btb!Init => BtbInv
<1>. SUFFICES ASSUME BtbAssumption, Btb!Init PROVE BtbInv
  OBVIOUS
<1>1. stack = << >> /\ calls = << >> /\ << >> \in Seq(CallIp) /\ Len(<< >>) = 0
  BY EmptySeq DEF Btb!Init
<1>2. StackFollows(stack, calls)
  BY <1>1 DEF StackFollows, BtbAssumption
<1>3. Btb!SizesLearnt
  BY DEF Btb!Init, Btb!SizesLearnt
<1>4. TableKept
  <2>1. << >> \in Seq(BranchEntry) /\ Len(<< >>) = 0
    BY EmptySeq
  <2>2. \A s \in BtbSet : direct[s] = << >>
    BY DEF Btb!Init
  <2>. QED  BY <2>1, <2>2 DEF Btb!Init, TableKept, KeptIn, Distinct
<1>. QED  BY <1>2, <1>3, <1>4 DEF BtbInv

(* A list whose end is the stack, element by element, ends in it.            *)
LEMMA EndIs ==
  ASSUME NEW S, NEW st \in Seq(S), NEW cl \in Seq(S), Len(st) <= Len(cl),
         \A i \in 1 .. Len(st) : st[i] = cl[Len(cl) - Len(st) + i]
  PROVE  st = SubSeq(cl, Len(cl) - Len(st) + 1, Len(cl))
<1>. PICK n \in Nat, m \in Nat : n = Len(st) /\ m = Len(cl) /\ n <= m
  BY LenProperties
<1>. PICK e : e = SubSeq(cl, m - n + 1, m)
  OBVIOUS
<1>1. \A i \in m - n + 1 .. m : cl[i] \in S
  <2>1. \A i \in 1 .. m : cl[i] \in S
    BY ElementOfSeq
  <2>2. \A i \in m - n + 1 .. m : i \in 1 .. m
    OBVIOUS
  <2>. QED  BY <2>1, <2>2
<1>2. /\ e \in Seq(S) /\ Len(e) = IF m - n + 1 <= m THEN m - (m - n + 1) + 1 ELSE 0
      /\ \A i \in 1 .. m - (m - n + 1) + 1 : e[i] = cl[(m - n + 1) + i - 1]
  <2>1. m - n + 1 \in Int /\ m \in Int
    OBVIOUS
  <2>. QED  BY <1>1, <2>1, SubSeqProperties
<1>3. m - (m - n + 1) + 1 = n /\ (IF m - n + 1 <= m THEN m - (m - n + 1) + 1 ELSE 0) = n
  OBVIOUS
<1>4. Len(e) = n
  BY <1>2, <1>3
<1>5. ASSUME NEW i \in 1 .. n PROVE st[i] = e[i]
  <2>1. (m - n + 1) + i - 1 = m - n + i
    OBVIOUS
  <2>2. e[i] = cl[(m - n + 1) + i - 1]
    BY <1>2, <1>3
  <2>. QED  BY <2>1, <2>2
<1>. QED  BY <1>2, <1>4, <1>5, SeqEqual

LEMMA BtbInvRemembers == BtbAssumption /\ BtbInv => Btb!BTBRemembers
<1>. SUFFICES ASSUME BtbAssumption, BtbInv PROVE Btb!BTBRemembers
  OBVIOUS
<1>1. Btb!StackFollowsCalls
  <2>1. /\ stack \in Seq(CallIp) /\ calls \in Seq(CallIp)
        /\ Len(stack) <= Len(calls) /\ Len(stack) <= max_size
        /\ \A i \in 1 .. Len(stack) : stack[i] = calls[Len(calls) - Len(stack) + i]
    BY DEF BtbInv, StackFollows
  <2>2. stack = SubSeq(calls, Len(calls) - Len(stack) + 1, Len(calls))
    BY <2>1, EndIs
  <2>. QED  BY <2>1, <2>2 DEF Btb!StackFollowsCalls
<1>2. Btb!EntriesTaken
  <2>. SUFFICES ASSUME NEW s \in BtbSet, NEW i \in DOMAIN direct[s]
                PROVE  direct[s][i] = last_taken[direct[s][i].tag]
    BY DEF Btb!EntriesTaken
  <2>1. KeptIn(s, direct[s], last_taken) /\ direct[s] \in Seq(BranchEntry)
    BY DEF BtbInv, TableKept
  <2>2. i \in 1 .. Len(direct[s])
    BY <2>1, LenProperties
  <2>. QED  BY <2>1, <2>2 DEF KeptIn
<1>. QED  BY <1>1, <1>2 DEF BtbInv, Btb!BTBRemembers

(* BranchesRemembered: whatever calls, returns and branches follow one        *)
(* another, the return stack holds the latest calls that have not returned,  *)
(* the sizes learnt are those of calls, and the direct predictor has for each *)
(* tag what was last taken there (basic_btb::update_btb).                   *)
THEOREM BranchesAlwaysRemembered == BtbAssumption => (PartsSpec => []BranchesRemembered)
<1>. SUFFICES ASSUME BtbAssumption PROVE PartsSpec => []BranchesRemembered
  OBVIOUS
<1>1. Btb!Init => BtbInv
  BY BtbInvStarts
<1>2. BtbInv /\ [Btb!Next]_Btb!vars => BtbInv'
  BY BtbInvStays
<1>3. BtbInv => BranchesRemembered
  BY BtbInvRemembers DEF BranchesRemembered
<1>. QED  BY <1>1, <1>2, <1>3, PartsAlone, PTL DEF Btb!Spec
===============================================================================
