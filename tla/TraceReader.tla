----------------------------- MODULE TraceReader -----------------------------
(***************************************************************************)
(* Reading a trace (inc/tracereader.h, inc/repeatable.h): a file is read in *)
(* blocks of READ_SIZE records into a buffer, in which every taken branch   *)
(* is given the address of the record after it as its target.  One record   *)
(* stays in the buffer until the next block, for the last branch of a block *)
(* to find its target.                                                     *)
(*                                                                         *)
(* Records are the numbers of their places in the file, and a branch's      *)
(* target is the number of the record it leads to, 0 if it has none.        *)
(***************************************************************************)
EXTENDS Naturals, Sequences, FiniteSets

CONSTANTS
  READ_SIZE,       \* buffer_size - refresh_thresh: records read at once
  MAX_LENGTH,      \* bound: records in a file
  MAX_PASSES       \* bound: times the file is read

refresh_thresh == 1

VARIABLES
  length,          \* records in the file
  taken,           \* the records that are taken branches
  repeat,          \* the trace is wrapped in repeatable
  position,        \* records read from the file
  file_eof,        \* trace_file.eof(): a read went past the end
  instr_buffer,
  retval,          \* what the last call has returned, and from which pass
  passes

vars == <<length, taken, repeat, position, file_eof, instr_buffer, retval, passes>>

Record(n) == [n |-> n, target |-> 0]
Nothing == [n |-> 0, target |-> 0, pass |-> 0]

(* A file of one record at least that has just been opened. *)
Init ==
  /\ length \in 1..MAX_LENGTH
  /\ taken \in SUBSET (1..length)
  /\ repeat \in BOOLEAN
  /\ position = 0 /\ file_eof = FALSE /\ instr_buffer = <<>>
  /\ retval = Nothing /\ passes = 1

eof(buffer, ended) == ended /\ Len(buffer) <= refresh_thresh

(* set_branch_targets: from the end, each with the one after it; the last   *)
(* one is left as it is.                                                   *)
WithTargets(buffer) ==
  [i \in DOMAIN buffer |->
     IF i = Len(buffer) THEN buffer[i]
     ELSE [buffer[i] EXCEPT !.target = IF buffer[i].n \in taken THEN buffer[i + 1].n ELSE 0]]

(* The block that is read, and bulk_tracereader::operator().                *)
ReadTargets(old, new) == old \o WithTargets(new)               \* mutant
Joined(old, new) == WithTargets(old \o new)

Delivered(buffer, at, ended, pass) ==
  LET n == IF at + READ_SIZE <= length THEN READ_SIZE ELSE length - at
      refilled == Joined(buffer, [i \in 1..n |-> Record(at + i)])
      refill == Len(buffer) <= refresh_thresh
      from == IF refill THEN refilled ELSE buffer
  IN  /\ from # <<>>
      /\ position' = IF refill THEN at + n ELSE at
      /\ file_eof' = (ended \/ (refill /\ n < READ_SIZE))
      /\ retval' = [n |-> Head(from).n, target |-> Head(from).target, pass |-> pass]
      /\ instr_buffer' = Tail(from)
      /\ passes' = pass

(* The main loop asks only a trace that has not ended; a repeatable one has *)
(* never ended, and opens the file again when the reader inside it has.     *)
Read ==
  /\ ~eof(instr_buffer, file_eof)
  /\ Delivered(instr_buffer, position, file_eof, passes)
  /\ UNCHANGED <<length, taken, repeat>>

Reopen ==
  /\ repeat /\ eof(instr_buffer, file_eof)
  /\ passes < MAX_PASSES
  /\ Delivered(<<>>, 0, FALSE, passes + 1)
  /\ UNCHANGED <<length, taken, repeat>>

Next == Read \/ Reopen
Spec == Init /\ [][Next]_vars

-----------------------------------------------------------------------------
(* Records come in the order of the file, in every pass from the first and  *)
(* with none left out before the pass ends; a pass leaves out nothing but   *)
(* the file's last record; and a taken branch leads to the record after it  *)
(* even where a block ends between the two (operator() and                  *)
(* set_branch_targets, inc/tracereader.h:99-142).                           *)
ReadInOrder ==
  [][/\ retval'.n = IF retval'.pass = retval.pass THEN retval.n + 1 ELSE 1
     /\ retval'.pass # retval.pass => retval.n \in {0, length - 1, length}
     /\ retval'.n \in taken /\ retval'.n < length => retval'.target = retval'.n + 1
     /\ retval'.n \notin taken => retval'.target = 0]_vars
=============================================================================
