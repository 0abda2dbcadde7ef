----------------------------- MODULE Scheduler -----------------------------
(***************************************************************************)
(* The PFPU code scheduler, software/demo/scheduler.c, and what of the     *)
(* PFPU it knows (include/hw/pfpu.h): it turns a virtual program, a        *)
(* sequence of instructions on numbered registers, into microcode in which *)
(* word c names the operands and opcode issued in cycle c and, apart from  *)
(* them, the register that takes the result leaving the pipeline in c.     *)
(*                                                                         *)
(* Virtual registers below RegCount are physical; those above are given    *)
(* physical ones while they are live.                                      *)
(***************************************************************************)
EXTENDS Integers, Sequences, FiniteSetsExt

CONSTANTS RegCount,     \* PFPU_REG_COUNT
          ProgSize      \* PFPU_PROGSIZE

Regs == 0..(RegCount - 1)
Cycles == 0..(ProgSize - 1)
RegOut == RegCount - 1                       \* PFPU_REG_OUT
Reserved == {0, 1, 2, RegOut}                \* pfpu_is_reserved
Free == -1

\* PFPU_LATENCY_*; no other opcode can be scheduled.
Latency == [fadd |-> 4, fsub |-> 4, fmul |-> 5, fdiv |-> 0, f2i |-> 2, i2f |-> 3, vect |-> 2,
            sin |-> 4, cos |-> 4, above |-> 2, equal |-> 2, copy |-> 2]

\* get_arity
Arity(op) ==
  IF op \in {"fadd", "fsub", "fmul", "fdiv", "vect", "equal", "above"} THEN 2
  ELSE IF op \in {"f2i", "i2f", "sin", "cos", "copy"} THEN 1 ELSE 0

\* The registers an instruction reads.
Operands(isn) ==
  CASE Arity(isn.op) = 2 -> {isn.a, isn.b} [] Arity(isn.op) = 1 -> {isn.a} [] OTHER -> {}

Word == [op |-> "nop", a |-> 0, b |-> 0, dest |-> 0]

\* scheduler_init, and the registers the caller marks with dont_touch.
SchedulerInit(keep, len) ==
  [dont_touch |-> Reserved \cup keep, allocation |-> [r \in Regs |-> Free],
   exits |-> [i \in 1..len |-> -1], prog |-> [c \in Cycles |-> Word], last_exit |-> -1]

\* Mutant: a register may be read in the cycle in which it is written.
WrittenEarly(sc, visn, reg, cycle, n) ==
  LET writers == {i \in 1..(n - 1) : visn[i].dest = reg}
  IN  writers = {} \/ (sc.exits[Max(writers)] > 0 /\ cycle >= sc.exits[Max(writers)])

\* check_hazard_write: the last instruction before the n-th that writes reg is complete.
Written(sc, visn, reg, cycle, n) ==
  LET writers == {i \in 1..(n - 1) : visn[i].dest = reg}
  IN  writers = {} \/ (sc.exits[Max(writers)] > 0 /\ cycle > sc.exits[Max(writers)])

\* Mutant: the readers of a register about to be written are not waited for.
ReadUnchecked(sc, visn, reg, n) == TRUE

\* check_hazard_read: those before the n-th that read reg have been issued.  The loop of
\* the code stops before the first instruction.
Read(sc, visn, reg, n) ==
  \A i \in 2..(n - 1) : sc.exits[i] < 0 => reg \notin Operands(visn[i])

\* allocate_physical_register
Allocate(sc, reg) ==
  IF reg < RegCount THEN reg
  ELSE LET free == {r \in Regs \ sc.dont_touch : sc.allocation[r] = Free}
       IN  IF free = {} THEN Free ELSE Min(free)

\* find_physical_register
Find(sc, reg) ==
  IF reg < RegCount THEN reg
  ELSE LET held == {r \in Regs : sc.allocation[r] = reg}
       IN  IF held = {} THEN Free ELSE Min(held)

\* try_free_register for the operands of the n-th instruction: virtual registers that no
\* later one reads are given up.
Freed(sc, visn, n) ==
  LET dead == {reg \in Operands(visn[n]) :
                 reg >= RegCount /\ \A i \in (n + 1)..Len(visn) : reg \notin Operands(visn[i])}
  IN  [sc EXCEPT !.allocation = [r \in Regs |-> IF @[r] \in dead THEN Free ELSE @[r]]]

\* Mutant: two results may leave the pipeline together.
WaitsSameExit(sc, visn, cycle, n) ==
  LET isn == visn[n] IN
  \/ sc.exits[n] # -1
  \/ /\ cycle + Latency[isn.op] < ProgSize
     /\ \/ \E reg \in Operands(isn) : ~Written(sc, visn, reg, cycle, n)
        \/ ~Read(sc, visn, isn.dest, n)
        \/ ~Written(sc, visn, isn.dest, cycle, n)

\* schedule_one returns 0: the n-th instruction is scheduled or has to wait in this cycle.
Waits(sc, visn, cycle, n) ==
  LET isn == visn[n] IN
  \/ sc.exits[n] # -1
  \/ /\ cycle + Latency[isn.op] < ProgSize
     /\ \/ sc.prog[cycle + Latency[isn.op]].dest # 0
        \/ \E reg \in Operands(isn) : ~Written(sc, visn, reg, cycle, n)
        \/ ~Read(sc, visn, isn.dest, n)
        \/ ~Written(sc, visn, isn.dest, cycle, n)

\* schedule_one returns -1: the result would leave after the last word, an operand was
\* given up or there is no register for the result.
Fails(sc, visn, cycle, n) ==
  LET isn == visn[n] IN
  \/ cycle + Latency[isn.op] >= ProgSize
  \/ \E reg \in Operands(isn) : Find(sc, reg) = Free
  \/ Allocate(Freed(sc, visn, n), isn.dest) = Free

\* schedule_one returns 1: the n-th instruction is issued in this cycle.
Issued(sc, visn, cycle, n) ==
  LET isn == visn[n]
      exit == cycle + Latency[isn.op]
      freed == Freed(sc, visn, n)
      dest == Allocate(freed, isn.dest)
      read == [op |-> isn.op, a |-> IF Arity(isn.op) >= 1 THEN Find(sc, isn.a) ELSE 0,
               b |-> IF Arity(isn.op) = 2 THEN Find(sc, isn.b) ELSE 0,
               dest |-> sc.prog[cycle].dest]
  IN  [dont_touch |-> sc.dont_touch,
       allocation |-> [freed.allocation EXCEPT ![dest] = isn.dest],
       exits |-> [sc.exits EXCEPT ![n] = exit],
       prog |-> [sc.prog EXCEPT ![cycle] = read, ![exit].dest = dest],
       last_exit |-> IF exit > sc.last_exit THEN exit ELSE sc.last_exit]

\* One cycle of scheduler_schedule: the first instruction that need not wait is issued,
\* if there is one.
Candidates(sc, visn, cycle) == {n \in 1..Len(visn) : ~Waits(sc, visn, cycle, n)}
Complete(sc) == \A i \in DOMAIN sc.exits : sc.exits[i] # -1
=============================================================================
