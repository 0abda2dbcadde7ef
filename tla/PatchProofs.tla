---------------------------- MODULE PatchProofs ----------------------------
(***************************************************************************)
(* The patch compiler, its scheduler and the PFPU, for every preset, size  *)
(* of the PFPU and number of frames.                                       *)
(***************************************************************************)
EXTENDS Patch, SequenceTheorems, FiniteSetTheorems, WellFoundedInduction, TLAPS

-----------------------------------------------------------------------------
(* Numbers *)

\* The least-number principle, for a set.
LEMMA Least ==
  ASSUME NEW T \in SUBSET Nat, T # {}
  PROVE  \E x \in T : \A y \in T : x <= y
  <1> DEFINE R == OpToRel(<, Nat)
  <1>1. IsWellFoundedOn(R, Nat)
    BY NatLessThanWellFounded
  <1>2. \A x, y \in Nat : x < y => <<x, y>> \in R
    BY DEF OpToRel
  <1> HIDE DEF R
  <1>3. PICK x \in T : \A y \in T : ~(<<y, x>> \in R)
    BY <1>1, WFMin, Zenon
  <1>4. \A y \in T : ~(y < x)
    BY <1>2, <1>3
  <1> QED BY <1>3, <1>4

LEMMA MinOf ==
  ASSUME NEW T \in SUBSET Nat, T # {}
  PROVE  Min(T) \in T /\ \A y \in T : Min(T) <= y
  BY Least DEF Min

LEMMA MaxOf ==
  ASSUME NEW N \in Nat, NEW T \in SUBSET (0..N), T # {}
  PROVE  Max(T) \in T /\ \A y \in T : y <= Max(T)
  <1> DEFINE U == {k \in Nat : \A y \in T : y <= k}
  <1>1. N \in U
    OBVIOUS
  <1>2. PICK k \in U : \A j \in U : k <= j
    BY <1>1, Least
  <1>3. k \in T
    <2> SUFFICES ASSUME k \notin T PROVE FALSE
      OBVIOUS
    <2>1. PICK y \in T : TRUE
      OBVIOUS
    <2>2. k - 1 \in U
      BY <2>1
    <2> QED BY <1>2, <2>2
  <1>4. \E z \in T : \A y \in T : z >= y
    BY <1>3
  <1>5. Max(T) \in T /\ \A y \in T : Max(T) >= y
    BY <1>4 DEF Max
  <1> QED BY <1>5

-----------------------------------------------------------------------------
(* Programs and schedules *)

\* The opcodes but for the division, which the PFPU lacks.
Opcodes == {"fadd", "fsub", "fmul", "f2i", "i2f", "vect", "sin", "cos", "above", "equal", "copy"}

LEMMA Latencies == \A op \in Opcodes : Latency[op] \in 2..5
  BY DEF Opcodes, Latency

\* What the scheduler is given: programs that write and read only the registers not to be
\* allocated and virtual ones, each of these written once.
Schedulable(prog, keep) ==
  /\ prog \in Seq(Isns) /\ keep \subseteq Regs /\ Reserved \subseteq keep
  /\ \A m \in DOMAIN prog :
       /\ prog[m].op \in Opcodes
       /\ prog[m].dest \in Nat \ {0, 1, 2}
       /\ prog[m].dest < RegCount => prog[m].dest \in keep
       /\ \A reg \in Operands(prog[m]) : reg \in Nat /\ (reg < RegCount => reg \in keep)
  /\ \A m, n \in DOMAIN prog :
       prog[m].dest = prog[n].dest /\ prog[m].dest >= RegCount => m = n

\* The cycle in which the m-th instruction is issued when its result leaves in x[m].
Start(prog, x, m) == x[m] - Latency[prog[m].op]

Microwords == [op : Opcodes \cup {"nop"}, a : Regs, b : Regs, dest : Regs]

\* What has been scheduled, x holding the exits and w the words: each instruction has its
\* words ...
Placed(prog, keep, x, w) ==
  \A m \in DOMAIN prog : x[m] # -1 =>
    /\ Start(prog, x, m) \in Cycles
    /\ w[Start(prog, x, m)].op = prog[m].op
    /\ w[x[m]].dest # 0
    /\ prog[m].dest < RegCount => w[x[m]].dest = prog[m].dest
    /\ prog[m].dest >= RegCount => w[x[m]].dest \notin keep
\* ... for itself ...
Alone(prog, x) ==
  \A m, n \in DOMAIN prog : x[m] # -1 /\ x[n] # -1 =>
    /\ x[m] = x[n] => m = n
    /\ Start(prog, x, m) = Start(prog, x, n) => m = n
\* ... and no word is anyone else's.
Accounted(prog, x, w) ==
  \A c \in Cycles :
    /\ w[c].op # "nop" => \E m \in DOMAIN prog : x[m] # -1 /\ Start(prog, x, m) = c
    /\ w[c].op = "nop" => w[c].a = 0
    /\ w[c].dest # 0 => \E m \in DOMAIN prog : x[m] = c

\* The hazards: an instruction waits for the earlier ones that read or write what it writes and
\* that write what it reads.
Ordered(prog, x) ==
  \A m, n \in DOMAIN prog : m < n /\ x[n] # -1 =>
    /\ prog[n].dest \in Operands(prog[m]) => x[m] # -1 /\ Start(prog, x, m) < Start(prog, x, n)
    /\ prog[m].dest = prog[n].dest => x[m] # -1 /\ x[m] < x[n]
    /\ prog[m].dest \in Operands(prog[n]) => x[m] # -1 /\ x[m] < Start(prog, x, n)

\* The n-th instruction reads p for the register reg of the program: there it finds what the last
\* instruction before it that writes reg left.
Feeds(prog, keep, x, w, n, reg, p) ==
  /\ p \in Regs
  /\ \/ reg \in keep /\ p = reg
     \/ reg >= RegCount /\ \E m \in DOMAIN prog :
          m < n /\ prog[m].dest = reg /\ x[m] # -1 /\ w[x[m]].dest = p
  /\ \A k \in DOMAIN prog : x[k] # -1 /\ w[x[k]].dest = p /\ x[k] < Start(prog, x, n) =>
       \E m \in DOMAIN prog : m < n /\ prog[m].dest = reg /\ x[k] <= x[m]
Fed(prog, keep, x, w) ==
  \A n \in DOMAIN prog : x[n] # -1 =>
    /\ Arity(prog[n].op) >= 1 =>
         Feeds(prog, keep, x, w, n, prog[n].a, w[Start(prog, x, n)].a)
    /\ Arity(prog[n].op) = 2 =>
         Feeds(prog, keep, x, w, n, prog[n].b, w[Start(prog, x, n)].b)

\* A schedule as it is executed.
Schedule(prog, keep, x, w) ==
  /\ x \in [DOMAIN prog -> -1..(ProgSize - 1)] /\ w \in [Cycles -> Microwords]
  /\ Placed(prog, keep, x, w) /\ Alone(prog, x) /\ Accounted(prog, x, w)
  /\ Ordered(prog, x) /\ Fed(prog, keep, x, w)

\* What the scheduler knows of it in a cycle: a register that is allocated holds the last result
\* that was sent there, one that is free awaits none.
Begun(prog, x, c) == \A m \in DOMAIN prog : x[m] # -1 => Start(prog, x, m) < c
FirstBegun(prog, x, c) == c > 0 /\ 1 \in DOMAIN prog => x[1] # -1
Held(prog, keep, x, w, allocation) ==
  \A p \in Regs : allocation[p] >= RegCount =>
    /\ p \notin keep
    /\ \E m \in DOMAIN prog :
         /\ prog[m].dest = allocation[p] /\ x[m] # -1 /\ w[x[m]].dest = p
         /\ \A k \in DOMAIN prog : x[k] # -1 /\ w[x[k]].dest = p => x[k] <= x[m]
Awaited(prog, keep, x, w, allocation, c) ==
  \A p \in Regs \ keep : allocation[p] = Free =>
    \A k \in DOMAIN prog : x[k] # -1 /\ w[x[k]].dest = p => x[k] < c
LastExit(prog, x, last) ==
  /\ last \in -1..(ProgSize - 1)
  /\ \A m \in DOMAIN prog : x[m] <= last
  /\ last # -1 => \E m \in DOMAIN prog : x[m] = last

Scheduled(prog, keep, s, c) ==
  /\ c \in 0..ProgSize
  /\ s.dont_touch = keep /\ s.allocation \in [Regs -> Int]
  /\ s = [dont_touch |-> s.dont_touch, allocation |-> s.allocation, exits |-> s.exits,
          prog |-> s.prog, last_exit |-> s.last_exit]
  /\ Schedule(prog, keep, s.exits, s.prog)
  /\ Begun(prog, s.exits, c) /\ FirstBegun(prog, s.exits, c)
  /\ Held(prog, keep, s.exits, s.prog, s.allocation)
  /\ Awaited(prog, keep, s.exits, s.prog, s.allocation, c)
  /\ LastExit(prog, s.exits, s.last_exit)

-----------------------------------------------------------------------------
(* A step of the scheduler *)

\* The instruction that is issued next: why it need not wait, and where its operands and its
\* result are.
Ready(prog, keep, x, w, allocation, c, n, d) ==
  LET exit == c + Latency[prog[n].op] IN
  /\ n \in DOMAIN prog /\ x[n] = -1 /\ exit \in Cycles /\ w[exit].dest = 0
  /\ d \in Regs /\ d # 0
  /\ \A m \in DOMAIN prog : m < n =>
       /\ prog[m].dest \in Operands(prog[n]) \cup {prog[n].dest} => x[m] # -1 /\ x[m] < c
       /\ prog[n].dest \in Operands(prog[m]) => x[m] # -1
  /\ \A k \in DOMAIN prog : x[k] # -1 /\ w[x[k]].dest = d => x[k] < c
  /\ prog[n].dest < RegCount => d = prog[n].dest
  /\ prog[n].dest >= RegCount => d \notin keep

\* The register p holds what the n-th instruction reads as reg.
Holds(keep, allocation, reg, p) ==
  p \in Regs /\ (reg < RegCount => p = reg) /\ (reg >= RegCount => allocation[p] = reg)

\* The words after it was issued.
Written2(prog, w, u, c, n, d) ==
  /\ u \in [Cycles -> Microwords]
  /\ \A b \in Cycles \ {c} : u[b].op = w[b].op /\ u[b].a = w[b].a /\ u[b].b = w[b].b
  /\ \A b \in Cycles \ {c + Latency[prog[n].op]} : u[b].dest = w[b].dest
  /\ u[c].op = prog[n].op /\ u[c + Latency[prog[n].op]].dest = d

\* Those issued before keep their words.
Keeps(prog, x, w, u, y, c, n) ==
  /\ y[n] = c + Latency[prog[n].op] /\ Start(prog, y, n) = c /\ y[n] > c /\ y[n] \in Cycles
  /\ \A m \in DOMAIN prog \ {n} :
       y[m] = x[m] /\ Start(prog, y, m) = Start(prog, x, m)
  /\ \A m \in DOMAIN prog \ {n} : x[m] # -1 =>
       /\ x[m] \in Cycles /\ x[m] # y[n] /\ Start(prog, x, m) \in Cycles
       /\ Start(prog, x, m) < c
       /\ u[x[m]].dest = w[x[m]].dest
       /\ u[Start(prog, x, m)].op = w[Start(prog, x, m)].op
       /\ u[Start(prog, x, m)].a = w[Start(prog, x, m)].a
       /\ u[Start(prog, x, m)].b = w[Start(prog, x, m)].b
LEMMA Kept ==
  ASSUME NEW prog, NEW keep, NEW x, NEW w, NEW u, NEW y, NEW al, NEW c \in Cycles, NEW n, NEW d,
         Schedulable(prog, keep), Schedule(prog, keep, x, w), Begun(prog, x, c),
         Ready(prog, keep, x, w, al, c, n, d), Written2(prog, w, u, c, n, d),
         y = [x EXCEPT ![n] = c + Latency[prog[n].op]]
  PROVE  Keeps(prog, x, w, u, y, c, n)
  <1> DEFINE exit == c + Latency[prog[n].op]
  <1>1. n \in DOMAIN prog /\ exit \in Cycles /\ w[exit].dest = 0
    BY DEF Ready
  <1>2. \A m \in DOMAIN prog : Latency[prog[m].op] \in 2..5
    BY Latencies DEF Schedulable
  <1>3. x \in [DOMAIN prog -> -1..(ProgSize - 1)]
    BY DEF Schedule
  <1>4. y[n] = exit /\ \A m \in DOMAIN prog \ {n} : y[m] = x[m]
    BY <1>1, <1>3
  <1>5. Start(prog, y, n) = c /\ y[n] > c /\ y[n] \in Cycles
    BY <1>1, <1>2, <1>4 DEF Start, Cycles
  <1>6. \A m \in DOMAIN prog \ {n} : Start(prog, y, m) = Start(prog, x, m)
    BY <1>4 DEF Start
  <1>7. ASSUME NEW m \in DOMAIN prog \ {n}, x[m] # -1
        PROVE  /\ x[m] \in Cycles /\ x[m] # y[n] /\ Start(prog, x, m) \in Cycles
               /\ Start(prog, x, m) < c
               /\ u[x[m]].dest = w[x[m]].dest
               /\ u[Start(prog, x, m)].op = w[Start(prog, x, m)].op
               /\ u[Start(prog, x, m)].a = w[Start(prog, x, m)].a
               /\ u[Start(prog, x, m)].b = w[Start(prog, x, m)].b
    <2>1. x[m] \in Cycles
      BY <1>3, <1>7, SizesAssumption DEF Cycles
    <2>2. Start(prog, x, m) \in Cycles /\ w[x[m]].dest # 0
      BY <1>7 DEF Schedule, Placed
    <2>3. Start(prog, x, m) < c
      BY <1>7 DEF Begun
    <2>4. x[m] # exit
      BY <1>1, <2>2
    <2>5. Start(prog, x, m) # c
      BY <2>2, <2>3 DEF Cycles
    <2> QED BY <2>1, <2>2, <2>3, <2>4, <2>5, <1>4 DEF Written2
  <1> QED BY <1>4, <1>5, <1>6, <1>7 DEF Keeps

\* Each part of a schedule, after another instruction was issued.
LEMMA PlacedStep ==
  ASSUME NEW prog, NEW keep, NEW x, NEW w, NEW u, NEW y, NEW al, NEW c \in Cycles, NEW n, NEW d,
         Schedulable(prog, keep), Schedule(prog, keep, x, w), Begun(prog, x, c),
         Ready(prog, keep, x, w, al, c, n, d), Written2(prog, w, u, c, n, d),
         y = [x EXCEPT ![n] = c + Latency[prog[n].op]]
  PROVE  Placed(prog, keep, y, u) /\ Alone(prog, y) /\ Begun(prog, y, c + 1)
  <1>0. Keeps(prog, x, w, u, y, c, n)
    BY Kept, Zenon
  <1>1. /\ y[n] = c + Latency[prog[n].op] /\ Start(prog, y, n) = c /\ y[n] > c /\ y[n] \in Cycles
        /\ \A m \in DOMAIN prog \ {n} :
             y[m] = x[m] /\ Start(prog, y, m) = Start(prog, x, m)
        /\ \A m \in DOMAIN prog \ {n} : x[m] # -1 =>
             /\ x[m] \in Cycles /\ x[m] # y[n] /\ Start(prog, x, m) \in Cycles
             /\ Start(prog, x, m) < c
             /\ u[x[m]].dest = w[x[m]].dest
             /\ u[Start(prog, x, m)].op = w[Start(prog, x, m)].op
             /\ u[Start(prog, x, m)].a = w[Start(prog, x, m)].a
             /\ u[Start(prog, x, m)].b = w[Start(prog, x, m)].b
    BY <1>0 DEF Keeps
  <1>2. Placed(prog, keep, y, u)
    <2> SUFFICES ASSUME NEW m \in DOMAIN prog, y[m] # -1
                 PROVE  /\ Start(prog, y, m) \in Cycles
                        /\ u[Start(prog, y, m)].op = prog[m].op
                        /\ u[y[m]].dest # 0
                        /\ prog[m].dest < RegCount => u[y[m]].dest = prog[m].dest
                        /\ prog[m].dest >= RegCount => u[y[m]].dest \notin keep
      BY DEF Placed
    <2>1. CASE m = n
      BY <1>1, <2>1 DEF Ready, Written2
    <2>2. CASE m # n
      BY <1>1, <2>2 DEF Schedule, Placed
    <2> QED BY <2>1, <2>2
  <1>3. Alone(prog, y)
    <2> SUFFICES ASSUME NEW m \in DOMAIN prog, NEW k \in DOMAIN prog, y[m] # -1, y[k] # -1
                 PROVE  /\ y[m] = y[k] => m = k
                        /\ Start(prog, y, m) = Start(prog, y, k) => m = k
      BY DEF Alone
    <2>0. ASSUME NEW j \in DOMAIN prog \ {n}, y[j] # -1
          PROVE  y[j] # y[n] /\ Start(prog, y, j) # Start(prog, y, n)
      <3>1. x[j] # -1 /\ y[j] = x[j] /\ Start(prog, y, j) = Start(prog, x, j)
        BY <1>1, <2>0
      <3>2. Start(prog, x, j) \in Int /\ c \in Int /\ Start(prog, x, j) < c
        BY <1>1, <3>1 DEF Cycles
      <3> QED BY <1>1, <3>1, <3>2
    <2>1. CASE m = n /\ k # n
      BY <2>0, <2>1
    <2>2. CASE m # n /\ k = n
      BY <2>0, <2>2
    <2>3. CASE m # n /\ k # n
      BY <1>1, <2>3 DEF Schedule, Alone
    <2> QED BY <2>1, <2>2, <2>3
  <1>4. Begun(prog, y, c + 1)
    <2> SUFFICES ASSUME NEW m \in DOMAIN prog, y[m] # -1 PROVE Start(prog, y, m) < c + 1
      BY DEF Begun
    <2>1. c \in Int
      BY DEF Cycles
    <2>2. CASE m = n
      BY <1>1, <2>1, <2>2
    <2>3. CASE m # n
      <3>1. Start(prog, y, m) = Start(prog, x, m) /\ Start(prog, x, m) < c
        BY <1>1, <2>3
      <3>2. Start(prog, x, m) \in Int
        BY <1>1, <2>3 DEF Cycles
      <3> QED BY <2>1, <3>1, <3>2
    <2> QED BY <2>2, <2>3
  <1> QED BY <1>2, <1>3, <1>4

LEMMA AccountedStep ==
  ASSUME NEW prog, NEW keep, NEW x, NEW w, NEW u, NEW y, NEW al, NEW c \in Cycles, NEW n, NEW d,
         Schedulable(prog, keep), Schedule(prog, keep, x, w), Begun(prog, x, c),
         Ready(prog, keep, x, w, al, c, n, d), Written2(prog, w, u, c, n, d),
         y = [x EXCEPT ![n] = c + Latency[prog[n].op]]
  PROVE  Accounted(prog, y, u) /\ Ordered(prog, y)
  <1>0. Keeps(prog, x, w, u, y, c, n)
    BY Kept, Zenon
  <1>1. /\ y[n] = c + Latency[prog[n].op] /\ Start(prog, y, n) = c /\ y[n] > c /\ y[n] \in Cycles
        /\ \A m \in DOMAIN prog \ {n} :
             y[m] = x[m] /\ Start(prog, y, m) = Start(prog, x, m)
        /\ \A m \in DOMAIN prog \ {n} : x[m] # -1 =>
             /\ x[m] \in Cycles /\ x[m] # y[n] /\ Start(prog, x, m) \in Cycles
             /\ Start(prog, x, m) < c
             /\ u[x[m]].dest = w[x[m]].dest
             /\ u[Start(prog, x, m)].op = w[Start(prog, x, m)].op
             /\ u[Start(prog, x, m)].a = w[Start(prog, x, m)].a
             /\ u[Start(prog, x, m)].b = w[Start(prog, x, m)].b
    BY <1>0 DEF Keeps
  <1>2. n \in DOMAIN prog /\ x[n] = -1 /\ -1 \notin Cycles
    BY SizesAssumption DEF Ready, Cycles
  <1>3. Accounted(prog, y, u)
    <2> SUFFICES ASSUME NEW b \in Cycles
                 PROVE  /\ u[b].op # "nop" =>
                             \E m \in DOMAIN prog : y[m] # -1 /\ Start(prog, y, m) = b
                        /\ u[b].op = "nop" => u[b].a = 0
                        /\ u[b].dest # 0 => \E m \in DOMAIN prog : y[m] = b
      BY DEF Accounted
    <2>1. ASSUME u[b].op # "nop" PROVE \E m \in DOMAIN prog : y[m] # -1 /\ Start(prog, y, m) = b
      <3>1. CASE b = c
        BY <1>1, <1>2, <3>1
      <3>2. CASE b # c
        <4>1. PICK m \in DOMAIN prog : x[m] # -1 /\ Start(prog, x, m) = b
          BY <2>1, <3>2 DEF Schedule, Accounted, Written2
        <4> QED BY <1>1, <1>2, <4>1
      <3> QED BY <3>1, <3>2
    <2>2. ASSUME u[b].dest # 0 PROVE \E m \in DOMAIN prog : y[m] = b
      <3>1. CASE b = y[n]
        BY <1>2, <3>1
      <3>2. CASE b # y[n]
        <4>1. PICK m \in DOMAIN prog : x[m] = b
          BY <1>1, <2>2, <3>2 DEF Schedule, Accounted, Written2
        <4> QED BY <1>1, <1>2, <4>1
      <3> QED BY <3>1, <3>2
    <2>3. ASSUME u[b].op = "nop" PROVE u[b].a = 0
      <3>1. b # c
        BY <2>3 DEF Schedulable, Opcodes, Written2, Ready
      <3> QED BY <2>3, <3>1 DEF Schedule, Accounted, Written2
    <2> QED BY <2>1, <2>2, <2>3
  <1>4. Ordered(prog, y)
    <2> SUFFICES ASSUME NEW m \in DOMAIN prog, NEW k \in DOMAIN prog, m < k, y[k] # -1
                 PROVE  /\ prog[k].dest \in Operands(prog[m]) =>
                             y[m] # -1 /\ Start(prog, y, m) < Start(prog, y, k)
                        /\ prog[m].dest = prog[k].dest => y[m] # -1 /\ y[m] < y[k]
                        /\ prog[m].dest \in Operands(prog[k]) =>
                             y[m] # -1 /\ y[m] < Start(prog, y, k)
      BY DEF Ordered
    <2>0. DOMAIN prog \subseteq Nat
      BY DEF Schedulable
    <2>1. CASE k = n
      <3>1. m # n /\ m < n
        BY <2>0, <2>1
      <3>2. ASSUME prog[k].dest \in Operands(prog[m])
            PROVE  y[m] # -1 /\ Start(prog, y, m) < Start(prog, y, k)
        <4>1. x[m] # -1
          BY <2>1, <3>1, <3>2 DEF Ready
        <4>2. y[m] # -1 /\ Start(prog, y, m) < c
          BY <1>1, <3>1, <4>1
        <4> QED BY <1>1, <2>1, <4>2
      <3>3. ASSUME prog[m].dest = prog[k].dest \/ prog[m].dest \in Operands(prog[k])
            PROVE  y[m] # -1 /\ y[m] < c
        BY <1>1, <2>1, <3>1, <3>3 DEF Ready
      <3>4. ASSUME prog[m].dest = prog[k].dest PROVE y[m] # -1 /\ y[m] < y[k]
        BY <1>1, <2>1, <3>1, <3>3, <3>4 DEF Cycles
      <3> QED BY <1>1, <2>1, <3>2, <3>3, <3>4
    <2>2. CASE k # n
      <3>1. x[k] # -1
        BY <1>1, <2>2
      <3>2. CASE m # n
        BY <1>1, <2>2, <3>1, <3>2 DEF Schedule, Ordered
      <3>3. CASE m = n
        BY <1>2, <3>1, <3>3 DEF Schedule, Ordered
      <3> QED BY <3>2, <3>3
    <2> QED BY <2>1, <2>2
  <1> QED BY <1>3, <1>4

\* What is given up with the operands of the n-th instruction.
Freeing(prog, allocation, freed, n) ==
  \A p \in Regs :
    \/ freed[p] = allocation[p]
    \/ freed[p] = Free /\ allocation[p] >= RegCount /\ allocation[p] \in Operands(prog[n])

\* The instructions before n that write what it reads are complete, the later ones that write
\* it wait for n.
LEMMA FreedAwaited ==
  ASSUME NEW prog, NEW keep, NEW x, NEW w, NEW al, NEW freed, NEW c \in Cycles,
         NEW n \in DOMAIN prog, x[n] = -1,
         Schedulable(prog, keep), Schedule(prog, keep, x, w),
         Held(prog, keep, x, w, al), Awaited(prog, keep, x, w, al, c),
         Freeing(prog, al, freed, n),
         \A m \in DOMAIN prog : m < n /\ prog[m].dest \in Operands(prog[n]) => x[m] # -1 /\ x[m] < c
  PROVE  \A p \in Regs \ keep : freed[p] = Free =>
           \A k \in DOMAIN prog : x[k] # -1 /\ w[x[k]].dest = p => x[k] < c
  <1> SUFFICES ASSUME NEW p \in Regs \ keep, freed[p] = Free, NEW k \in DOMAIN prog,
                      x[k] # -1, w[x[k]].dest = p
               PROVE  x[k] < c
    OBVIOUS
  <1>1. CASE al[p] = Free
    BY <1>1 DEF Awaited
  <1>2. CASE al[p] # Free
    <2>1. al[p] >= RegCount /\ al[p] \in Operands(prog[n])
      BY <1>2 DEF Freeing
    <2>2. PICK m \in DOMAIN prog : /\ prog[m].dest = al[p] /\ x[m] # -1 /\ w[x[m]].dest = p
                                   /\ x[k] <= x[m]
      BY <2>1 DEF Held
    <2>3. DOMAIN prog \subseteq Nat
      BY DEF Schedulable
    <2>4. ~(n < m)
      BY <2>1, <2>2 DEF Schedule, Ordered
    <2>5. m < n
      BY <2>2, <2>3, <2>4
    <2>6. x[m] < c
      BY <2>1, <2>2, <2>5
    <2>7. x[m] \in Int /\ x[k] \in Int /\ c \in Int
      BY SizesAssumption DEF Schedule, Cycles
    <2> QED BY <2>2, <2>6, <2>7
  <1> QED BY <1>1, <1>2

\* The writers of what the n-th instruction will read, those of the register that will hold it.
LEMMA FeedsNew ==
  ASSUME NEW prog, NEW keep, NEW x, NEW w, NEW al, NEW c \in Cycles,
         NEW n \in DOMAIN prog, x[n] = -1,
         Schedulable(prog, keep), Schedule(prog, keep, x, w), Held(prog, keep, x, w, al),
         NEW reg \in Operands(prog[n]), NEW p, Holds(keep, al, reg, p)
  PROVE  /\ p \in Regs
         /\ \/ reg \in keep /\ p = reg
            \/ reg >= RegCount /\ \E m \in DOMAIN prog :
                 m < n /\ prog[m].dest = reg /\ x[m] # -1 /\ w[x[m]].dest = p
         /\ \A k \in DOMAIN prog : x[k] # -1 /\ w[x[k]].dest = p =>
              \E m \in DOMAIN prog : m < n /\ prog[m].dest = reg /\ x[m] # -1 /\ x[k] <= x[m]
  <1>1. p \in Regs /\ reg \in Nat /\ DOMAIN prog \subseteq Nat
    BY DEF Holds, Schedulable
  <1>2. \A m \in DOMAIN prog : x[m] # -1 /\ prog[m].dest = reg => m < n
    <2> SUFFICES ASSUME NEW m \in DOMAIN prog, x[m] # -1, prog[m].dest = reg PROVE m < n
      OBVIOUS
    <2>1. ~(n < m)
      BY DEF Schedule, Ordered
    <2> QED BY <1>1, <2>1
  <1>3. \A k \in DOMAIN prog : x[k] \in Int
    BY SizesAssumption DEF Schedule
  <1>4. CASE reg < RegCount
    <2>1. p = reg /\ reg \in keep
      BY <1>4 DEF Holds, Schedulable
    <2>2. ASSUME NEW k \in DOMAIN prog, x[k] # -1, w[x[k]].dest = p
          PROVE  \E m \in DOMAIN prog : m < n /\ prog[m].dest = reg /\ x[m] # -1 /\ x[k] <= x[m]
      <3>1. prog[k].dest \in Nat
        BY DEF Schedulable
      <3>2. prog[k].dest < RegCount
        BY <2>1, <2>2, <3>1, SizesAssumption DEF Schedule, Placed
      <3>3. prog[k].dest = reg
        BY <2>1, <2>2, <3>2 DEF Schedule, Placed
      <3> QED BY <1>2, <1>3, <2>2, <3>3
    <2> QED BY <1>1, <2>1, <2>2
  <1>5. CASE reg >= RegCount
    <2>1. al[p] = reg
      BY <1>5 DEF Holds
    <2>2. PICK m \in DOMAIN prog :
            /\ prog[m].dest = al[p] /\ x[m] # -1 /\ w[x[m]].dest = p
            /\ \A k \in DOMAIN prog : x[k] # -1 /\ w[x[k]].dest = p => x[k] <= x[m]
      BY <1>1, <1>5, <2>1 DEF Held
    <2>3. m < n
      BY <1>2, <2>1, <2>2
    <2> QED BY <1>1, <1>5, <2>1, <2>2, <2>3
  <1> QED BY <1>1, <1>4, <1>5, SizesAssumption

LEMMA FedStep ==
  ASSUME NEW prog, NEW keep, NEW x, NEW w, NEW u, NEW y, NEW al, NEW c \in Cycles, NEW n, NEW d,
         Schedulable(prog, keep), Schedule(prog, keep, x, w), Begun(prog, x, c),
         Held(prog, keep, x, w, al),
         Ready(prog, keep, x, w, al, c, n, d), Written2(prog, w, u, c, n, d),
         y = [x EXCEPT ![n] = c + Latency[prog[n].op]],
         Arity(prog[n].op) >= 1 => prog[n].a \in Operands(prog[n]) /\ Holds(keep, al, prog[n].a, u[c].a),
         Arity(prog[n].op) = 2 => prog[n].b \in Operands(prog[n]) /\ Holds(keep, al, prog[n].b, u[c].b)
  PROVE  Fed(prog, keep, y, u)
  <1>0. Keeps(prog, x, w, u, y, c, n)
    BY Kept, Zenon
  <1>1. /\ y[n] = c + Latency[prog[n].op] /\ Start(prog, y, n) = c /\ y[n] > c /\ y[n] \in Cycles
        /\ \A m \in DOMAIN prog \ {n} :
             y[m] = x[m] /\ Start(prog, y, m) = Start(prog, x, m)
        /\ \A m \in DOMAIN prog \ {n} : x[m] # -1 =>
             /\ x[m] \in Cycles /\ x[m] # y[n] /\ Start(prog, x, m) \in Cycles
             /\ Start(prog, x, m) < c
             /\ u[x[m]].dest = w[x[m]].dest
             /\ u[Start(prog, x, m)].op = w[Start(prog, x, m)].op
             /\ u[Start(prog, x, m)].a = w[Start(prog, x, m)].a
             /\ u[Start(prog, x, m)].b = w[Start(prog, x, m)].b
    BY <1>0 DEF Keeps
  <1>2. n \in DOMAIN prog /\ x[n] = -1 /\ -1 \notin Cycles /\ c \in Int
    BY SizesAssumption DEF Ready, Cycles
  <1>3. \A k \in DOMAIN prog : x[k] \in Int /\ y[k] \in Int
    BY <1>1, SizesAssumption DEF Schedule, Cycles
  \* The instruction itself.
  <1>4. ASSUME NEW reg \in Operands(prog[n]), NEW p, Holds(keep, al, reg, p)
        PROVE  Feeds(prog, keep, y, u, n, reg, p)
    <2>1. /\ p \in Regs
          /\ \/ reg \in keep /\ p = reg
             \/ reg >= RegCount /\ \E m \in DOMAIN prog :
                  m < n /\ prog[m].dest = reg /\ x[m] # -1 /\ w[x[m]].dest = p
          /\ \A k \in DOMAIN prog : x[k] # -1 /\ w[x[k]].dest = p =>
               \E m \in DOMAIN prog : m < n /\ prog[m].dest = reg /\ x[m] # -1 /\ x[k] <= x[m]
      BY <1>2, <1>4, FeedsNew
    <2>2. \/ reg \in keep /\ p = reg
          \/ reg >= RegCount /\ \E m \in DOMAIN prog :
               m < n /\ prog[m].dest = reg /\ y[m] # -1 /\ u[y[m]].dest = p
      <3>1. ASSUME NEW m \in DOMAIN prog, x[m] # -1, w[x[m]].dest = p
            PROVE  y[m] # -1 /\ u[y[m]].dest = p
        BY <1>1, <1>2, <3>1
      <3> QED BY <2>1, <3>1
    <2>3. ASSUME NEW k \in DOMAIN prog, y[k] # -1, u[y[k]].dest = p, y[k] < c
          PROVE  \E m \in DOMAIN prog : m < n /\ prog[m].dest = reg /\ y[k] <= y[m]
      <3>1. k # n
        BY <1>1, <1>2, <1>3, <2>3
      <3>2. x[k] # -1 /\ w[x[k]].dest = p /\ y[k] = x[k]
        BY <1>1, <2>3, <3>1
      <3>3. PICK m \in DOMAIN prog : m < n /\ prog[m].dest = reg /\ x[m] # -1 /\ x[k] <= x[m]
        BY <2>1, <3>2
      <3>4. y[m] = x[m]
        BY <1>1, <1>2, <3>3
      <3> QED BY <3>2, <3>3, <3>4
    <2> QED BY <1>1, <2>1, <2>2, <2>3 DEF Feeds
  \* The others.
  <1>5. ASSUME NEW k \in DOMAIN prog \ {n}, x[k] # -1, NEW reg, NEW p,
               Feeds(prog, keep, x, w, k, reg, p)
        PROVE  Feeds(prog, keep, y, u, k, reg, p)
    <2>1. \/ reg \in keep /\ p = reg
          \/ reg >= RegCount /\ \E m \in DOMAIN prog :
               m < k /\ prog[m].dest = reg /\ y[m] # -1 /\ u[y[m]].dest = p
      <3>1. ASSUME NEW m \in DOMAIN prog, x[m] # -1, w[x[m]].dest = p
            PROVE  y[m] # -1 /\ u[y[m]].dest = p
        BY <1>1, <1>2, <3>1
      <3> QED BY <1>5, <3>1 DEF Feeds
    <2>2. ASSUME NEW j \in DOMAIN prog, y[j] # -1, u[y[j]].dest = p, y[j] < Start(prog, y, k)
          PROVE  \E m \in DOMAIN prog : m < k /\ prog[m].dest = reg /\ y[j] <= y[m]
      <3>a. Start(prog, y, k) = Start(prog, x, k) /\ Start(prog, x, k) < c
        BY <1>1, <1>5
      <3>b. Start(prog, x, k) \in Int
        BY <1>1, <1>5 DEF Cycles
      <3>0. Start(prog, y, k) = Start(prog, x, k) /\ Start(prog, x, k) \in Int
            /\ Start(prog, x, k) < c
        BY <3>a, <3>b
      <3>1. j # n
        BY <1>1, <1>2, <1>3, <2>2, <3>0
      <3>2. x[j] # -1 /\ w[x[j]].dest = p /\ y[j] = x[j]
        BY <1>1, <2>2, <3>1
      <3>3. PICK m \in DOMAIN prog : m < k /\ prog[m].dest = reg /\ x[j] <= x[m]
        BY <1>5, <2>2, <3>0, <3>2 DEF Feeds
      <3>4. x[j] >= 0 /\ x[m] # -1
        BY <1>1, <1>3, <3>1, <3>2, <3>3 DEF Cycles
      <3>5. y[m] = x[m]
        BY <1>1, <1>2, <3>4
      <3> QED BY <3>2, <3>3, <3>5
    <2> QED BY <1>5, <2>1, <2>2 DEF Feeds
  <1> SUFFICES ASSUME NEW k \in DOMAIN prog, y[k] # -1
               PROVE  /\ Arity(prog[k].op) >= 1 =>
                           Feeds(prog, keep, y, u, k, prog[k].a, u[Start(prog, y, k)].a)
                      /\ Arity(prog[k].op) = 2 =>
                           Feeds(prog, keep, y, u, k, prog[k].b, u[Start(prog, y, k)].b)
    BY DEF Fed
  <1>6. CASE k = n
    BY <1>1, <1>4, <1>6
  <1>7. CASE k # n
    <2>1. /\ x[k] # -1
          /\ u[Start(prog, y, k)].a = w[Start(prog, x, k)].a
          /\ u[Start(prog, y, k)].b = w[Start(prog, x, k)].b
      BY <1>1, <1>7
    <2> QED BY <1>5, <1>7, <2>1 DEF Schedule, Fed
  <1> QED BY <1>6, <1>7

LEMMA HeldStep ==
  ASSUME NEW prog, NEW keep, NEW x, NEW w, NEW u, NEW y, NEW al, NEW freed, NEW bl,
         NEW c \in Cycles, NEW n, NEW d,
         Schedulable(prog, keep), Schedule(prog, keep, x, w), Begun(prog, x, c),
         Held(prog, keep, x, w, al), Awaited(prog, keep, x, w, al, c),
         Ready(prog, keep, x, w, al, c, n, d), Written2(prog, w, u, c, n, d),
         y = [x EXCEPT ![n] = c + Latency[prog[n].op]],
         Freeing(prog, al, freed, n),
         bl[d] = prog[n].dest, \A p \in Regs \ {d} : bl[p] = freed[p]
  PROVE  Held(prog, keep, y, u, bl) /\ Awaited(prog, keep, y, u, bl, c + 1)
  <1>0. Keeps(prog, x, w, u, y, c, n)
    BY Kept, Zenon
  <1>1. /\ y[n] = c + Latency[prog[n].op] /\ Start(prog, y, n) = c /\ y[n] > c /\ y[n] \in Cycles
        /\ \A m \in DOMAIN prog \ {n} :
             y[m] = x[m] /\ Start(prog, y, m) = Start(prog, x, m)
        /\ \A m \in DOMAIN prog \ {n} : x[m] # -1 =>
             /\ x[m] \in Cycles /\ x[m] # y[n] /\ Start(prog, x, m) \in Cycles
             /\ Start(prog, x, m) < c
             /\ u[x[m]].dest = w[x[m]].dest
             /\ u[Start(prog, x, m)].op = w[Start(prog, x, m)].op
             /\ u[Start(prog, x, m)].a = w[Start(prog, x, m)].a
             /\ u[Start(prog, x, m)].b = w[Start(prog, x, m)].b
    BY <1>0 DEF Keeps
  <1>2. n \in DOMAIN prog /\ x[n] = -1 /\ -1 \notin Cycles /\ c \in Int /\ d \in Regs
    BY SizesAssumption DEF Ready, Cycles
  <1>3. \A k \in DOMAIN prog : x[k] \in Int /\ y[k] \in Int
    BY <1>1, SizesAssumption DEF Schedule, Cycles
  <1>4. u[y[n]].dest = d /\ y[n] # -1
    BY <1>1, <1>2 DEF Written2
  <1>5. \A p \in Regs \ keep : freed[p] = Free =>
          \A k \in DOMAIN prog : x[k] # -1 /\ w[x[k]].dest = p => x[k] < c
    <2>1. \A m \in DOMAIN prog : m < n /\ prog[m].dest \in Operands(prog[n]) => x[m] # -1 /\ x[m] < c
      BY DEF Ready
    <2> QED BY <1>2, <2>1, FreedAwaited
  <1>6. ASSUME NEW k \in DOMAIN prog, k # n, y[k] # -1
        PROVE  x[k] # -1 /\ y[k] = x[k] /\ u[y[k]].dest = w[x[k]].dest
    BY <1>1, <1>6
  <1>7. Held(prog, keep, y, u, bl)
    <2> SUFFICES ASSUME NEW p \in Regs, bl[p] >= RegCount
                 PROVE  /\ p \notin keep
                        /\ \E m \in DOMAIN prog :
                             /\ prog[m].dest = bl[p] /\ y[m] # -1 /\ u[y[m]].dest = p
                             /\ \A k \in DOMAIN prog : y[k] # -1 /\ u[y[k]].dest = p => y[k] <= y[m]
      BY DEF Held
    <2>1. CASE p = d
      <3>1. p \notin keep
        BY <2>1 DEF Ready
      <3>2. ASSUME NEW k \in DOMAIN prog, y[k] # -1, u[y[k]].dest = p PROVE y[k] <= y[n]
        <4>1. CASE k = n
          BY <1>3, <4>1
        <4>2. CASE k # n
          <5>1. x[k] < c /\ y[k] = x[k]
            BY <1>6, <2>1, <3>2, <4>2 DEF Ready
          <5> QED BY <1>1, <1>2, <1>3, <5>1
        <4> QED BY <4>1, <4>2
      <3> QED BY <1>2, <1>4, <2>1, <3>1, <3>2
    <2>2. CASE p # d
      <3>1. bl[p] = al[p]
        <4>1. bl[p] # Free
          BY SizesAssumption DEF Free
        <4> QED BY <2>2, <4>1 DEF Freeing
      <3>2. PICK m \in DOMAIN prog :
              /\ prog[m].dest = al[p] /\ x[m] # -1 /\ w[x[m]].dest = p
              /\ \A k \in DOMAIN prog : x[k] # -1 /\ w[x[k]].dest = p => x[k] <= x[m]
        BY <3>1 DEF Held
      <3>3. p \notin keep
        BY <3>1 DEF Held
      <3>4. m # n /\ y[m] = x[m] /\ u[y[m]].dest = p
        BY <1>1, <1>2, <3>2
      <3>5. ASSUME NEW k \in DOMAIN prog, y[k] # -1, u[y[k]].dest = p PROVE y[k] <= y[m]
        BY <1>4, <1>6, <2>2, <3>2, <3>4, <3>5
      <3> QED BY <3>1, <3>2, <3>3, <3>4, <3>5
    <2> QED BY <2>1, <2>2
  <1>8. Awaited(prog, keep, y, u, bl, c + 1)
    <2> SUFFICES ASSUME NEW p \in Regs \ keep, bl[p] = Free, NEW k \in DOMAIN prog, y[k] # -1,
                        u[y[k]].dest = p
                 PROVE  y[k] < c + 1
      BY DEF Awaited
    <2>1. prog[n].dest # Free
      BY <1>2 DEF Schedulable, Free
    <2>2. p # d /\ k # n
      BY <1>4, <2>1
    <2>3. x[k] < c /\ y[k] = x[k]
      BY <1>5, <1>6, <2>2
    <2> QED BY <1>2, <1>3, <2>3
  <1> QED BY <1>7, <1>8

LEMMA ArityOperands ==
  ASSUME NEW isn
  PROVE  /\ Arity(isn.op) \in 0..2
         /\ Arity(isn.op) >= 1 => isn.a \in Operands(isn)
         /\ Arity(isn.op) = 2 => isn.b \in Operands(isn)
  BY DEF Arity, Operands

\* The first instruction never has to wait.
LEMMA FirstReady ==
  ASSUME NEW prog, NEW keep, NEW s, NEW c \in Cycles,
         Schedulable(prog, keep), Scheduled(prog, keep, s, c), 1 \in DOMAIN prog
  PROVE  1 \in Candidates(s, prog, c) \/ s.exits[1] # -1
  <1> DEFINE x == s.exits
             w == s.prog
             ready == Candidates(s, prog, c)
  <1>a. c \in Int /\ c >= 0
    BY DEF Cycles
  <1> SUFFICES ASSUME x[1] = -1 PROVE 1 \in ready
    OBVIOUS
  <1>1. 1 \in DOMAIN prog /\ DOMAIN prog = 1..Len(prog)
    BY DEF Schedulable
  <1>2. c = 0
    BY <1>a, <1>1 DEF Scheduled, FirstBegun
  <1>3. \A k \in DOMAIN prog : x[k] = -1
    <2> SUFFICES ASSUME NEW k \in DOMAIN prog, x[k] # -1 PROVE FALSE
      OBVIOUS
    <2>1. Start(prog, x, k) \in Cycles /\ Start(prog, x, k) < c
      BY DEF Scheduled, Schedule, Placed, Begun
    <2> QED BY <1>2, <2>1, SizesAssumption DEF Cycles
  <1>4. \A b \in Cycles : w[b].dest = 0
    <2> SUFFICES ASSUME NEW b \in Cycles, w[b].dest # 0 PROVE FALSE
      OBVIOUS
    <2>1. \E m \in DOMAIN prog : x[m] = b
      BY DEF Scheduled, Schedule, Accounted
    <2> QED BY <1>3, <2>1, SizesAssumption DEF Cycles
  <1>5. 1..(1 - 1) = {} /\ 2..(1 - 1) = {}
    OBVIOUS
  <1>6. \A reg : Written(s, prog, reg, c, 1) /\ Read(s, prog, reg, 1)
    BY <1>5 DEF Written, Read
  <1>7. c + Latency[prog[1].op] < ProgSize => c + Latency[prog[1].op] \in Cycles
    <2>1. Latency[prog[1].op] \in 2..5
      BY <1>1, Latencies DEF Schedulable
    <2> QED BY <1>a, <2>1, SizesAssumption DEF Cycles
  <1>8. ~Waits(s, prog, c, 1)
    BY <1>4, <1>6, <1>7 DEF Waits
  <1> QED BY <1>1, <1>8 DEF Candidates

\* The instruction chosen by scheduler_schedule is ready.
Chosen(prog, s, c, n) ==
  /\ Candidates(s, prog, c) # {} /\ n = Min(Candidates(s, prog, c))
  /\ ~Fails(s, prog, c, n)

Unhindered(prog, x, w, c, n) ==
  /\ n \in DOMAIN prog /\ x[n] = -1
  /\ c + Latency[prog[n].op] \in Cycles /\ w[c + Latency[prog[n].op]].dest = 0
  /\ \A m \in DOMAIN prog : m < n =>
       /\ prog[m].dest \in Operands(prog[n]) \cup {prog[n].dest} => x[m] # -1 /\ x[m] < c
       /\ prog[n].dest \in Operands(prog[m]) => x[m] # -1

LEMMA ChosenOrder ==
  ASSUME NEW prog, NEW keep, NEW s, NEW c \in Cycles, NEW n,
         Schedulable(prog, keep), Scheduled(prog, keep, s, c), Chosen(prog, s, c, n)
  PROVE  /\ Unhindered(prog, s.exits, s.prog, c, n)
         /\ FirstBegun(prog, [s.exits EXCEPT ![n] = c + Latency[prog[n].op]], c + 1)
  <1> DEFINE x == s.exits
             w == s.prog
             exit == c + Latency[prog[n].op]
             ready == Candidates(s, prog, c)
  <1>0. DOMAIN prog = 1..Len(prog) /\ Len(prog) \in Nat
    BY DEF Schedulable
  <1>1. ready \subseteq Nat /\ ready # {} /\ n = Min(ready)
    BY <1>0 DEF Chosen, Candidates
  <1>2. n \in ready /\ \A m \in ready : n <= m
    <2> HIDE DEF ready
    <2> QED BY <1>1, MinOf
  <1>3. n \in DOMAIN prog /\ ~Waits(s, prog, c, n)
    BY <1>0, <1>2 DEF Candidates
  <1>4. c \in Int /\ c >= 0 /\ Latency[prog[n].op] \in 2..5
    BY <1>3, Latencies DEF Schedulable, Cycles
  <1>5. exit \in Cycles
    <2>1. ~(exit >= ProgSize)
      BY DEF Chosen, Fails
    <2> QED BY <1>4, <2>1, SizesAssumption DEF Cycles
  <1>6. exit < ProgSize
    BY <1>5, SizesAssumption DEF Cycles
  <1>7. /\ x[n] = -1 /\ w[exit].dest = 0
        /\ \A reg \in Operands(prog[n]) : Written(s, prog, reg, c, n)
        /\ Read(s, prog, prog[n].dest, n)
        /\ Written(s, prog, prog[n].dest, c, n)
    BY <1>3, <1>6 DEF Waits
  <1>8. x \in [DOMAIN prog -> -1..(ProgSize - 1)] /\ \A k \in DOMAIN prog : x[k] \in Int
    BY SizesAssumption DEF Scheduled, Schedule
  <1>9. 1 \in ready \/ x[1] # -1
    <2>1. 1 \in DOMAIN prog
      BY <1>0, <1>3
    <2> QED BY <2>1, FirstReady
  <1>10. n # 1 => x[1] # -1
    BY <1>0, <1>2, <1>3, <1>9
  <1>11. ASSUME NEW reg \in Operands(prog[n]) \cup {prog[n].dest}, NEW m \in DOMAIN prog, m < n,
                prog[m].dest = reg
         PROVE  x[m] # -1 /\ x[m] < c
    <2> DEFINE writers == {i \in 1..(n - 1) : prog[i].dest = reg}
    <2>1. Written(s, prog, reg, c, n)
      BY <1>7
    <2>2. m \in writers
      BY <1>0, <1>3, <1>11
    <2>3. x[Max(writers)] > 0 /\ c > x[Max(writers)]
      BY <2>1, <2>2 DEF Written
    <2>4. Max(writers) \in writers /\ m <= Max(writers)
      <3>1. writers \in SUBSET (0..(n - 1)) /\ n - 1 \in Nat
        BY <1>0, <1>3
      <3> HIDE DEF writers
      <3> QED BY <2>2, <3>1, MaxOf
    <2>5. Max(writers) \in DOMAIN prog /\ prog[Max(writers)].dest = reg
      BY <1>0, <1>3, <2>4
    <2>6. CASE m = Max(writers)
      BY <1>4, <1>8, <2>3, <2>6
    <2>7. CASE m # Max(writers)
      <3>a. m \in Nat /\ Max(writers) \in Nat
        BY <1>0, <2>5
      <3>b. m < Max(writers)
        BY <2>4, <2>7, <3>a
      <3>c. x[Max(writers)] # -1
        BY <2>3
      <3>1. m < Max(writers) /\ x[Max(writers)] # -1
        BY <3>b, <3>c
      <3>2. x[m] # -1 /\ x[m] < x[Max(writers)]
        BY <1>11, <2>5, <3>1 DEF Scheduled, Schedule, Ordered
      <3> QED BY <1>4, <1>8, <2>3, <2>5, <3>2
    <2> QED BY <2>6, <2>7
  <1>12. ASSUME NEW m \in DOMAIN prog, m < n, prog[n].dest \in Operands(prog[m])
         PROVE  x[m] # -1
    <2>1. CASE m = 1
      BY <1>10, <1>12, <2>1
    <2>2. CASE m # 1
      <3>1. m \in 2..(n - 1)
        BY <1>0, <1>3, <1>12, <2>2
      <3> QED BY <1>7, <1>8, <1>12, <3>1 DEF Read
    <2> QED BY <2>1, <2>2
  <1>13. FirstBegun(prog, [x EXCEPT ![n] = exit], c + 1)
    BY <1>3, <1>4, <1>8, <1>10 DEF FirstBegun
  <1> QED BY <1>3, <1>5, <1>7, <1>11, <1>12, <1>13 DEF Unhindered

\* Where its operands and its result are.
LEMMA ChosenRegisters ==
  ASSUME NEW prog, NEW keep, NEW s, NEW c \in Cycles, NEW n,
         Schedulable(prog, keep), Scheduled(prog, keep, s, c), Chosen(prog, s, c, n)
  PROVE  /\ \A reg \in Operands(prog[n]) : Holds(keep, s.allocation, reg, Find(s, reg))
         /\ Freeing(prog, s.allocation, Freed(s, prog, n).allocation, n)
         /\ Freed(s, prog, n) = [s EXCEPT !.allocation = Freed(s, prog, n).allocation]
         /\ Freed(s, prog, n).allocation \in [Regs -> Int]
         /\ LET d == Allocate(Freed(s, prog, n), prog[n].dest) IN
            /\ d \in Regs /\ d # 0
            /\ prog[n].dest < RegCount => d = prog[n].dest
            /\ prog[n].dest >= RegCount =>
                 d \in Regs \ keep /\ Freed(s, prog, n).allocation[d] = Free
  <1> DEFINE al == s.allocation
             f == Freed(s, prog, n)
             d == Allocate(f, prog[n].dest)
  <1>1. n \in DOMAIN prog
    BY ChosenOrder DEF Unhindered
  <1>2. /\ \A reg \in Operands(prog[n]) : Find(s, reg) # Free
        /\ d # Free
    BY DEF Chosen, Fails
  <1>3. al \in [Regs -> Int] /\ s.dont_touch = keep /\ Regs \subseteq Nat
    BY DEF Scheduled, Regs
  <1>4. ASSUME NEW reg \in Operands(prog[n]) PROVE Holds(keep, al, reg, Find(s, reg))
    <2>1. reg \in Nat
      BY <1>1 DEF Schedulable
    <2>2. CASE reg < RegCount
      BY <2>1, <2>2, SizesAssumption DEF Holds, Find, Regs
    <2>3. CASE reg >= RegCount
      <3> DEFINE held == {r \in Regs : s.allocation[r] = reg}
      <3>1. held # {} /\ Find(s, reg) = Min(held)
        BY <1>2, <2>1, <2>3, SizesAssumption DEF Find
      <3>2. Min(held) \in held
        <4>1. held \in SUBSET Nat
          BY <1>3
        <4> HIDE DEF held
        <4> QED BY <3>1, <4>1, MinOf
      <3> QED BY <2>1, <2>3, <3>1, <3>2, SizesAssumption DEF Holds
    <2> QED BY <2>1, <2>2, <2>3, SizesAssumption
  <1>5. f = [s EXCEPT !.allocation = f.allocation] /\ f.dont_touch = keep
    <2>1. \E F : f = [s EXCEPT !.allocation = F]
      BY DEF Freed
    <2>2. PICK F : f = [s EXCEPT !.allocation = F]
      BY <2>1
    <2>3. "allocation" \in DOMAIN s /\ "dont_touch" \in DOMAIN s
      BY DEF Scheduled
    <2> HIDE DEF f
    <2> QED BY <1>3, <2>2, <2>3
  <1>6. /\ f.allocation \in [Regs -> Int]
        /\ Freeing(prog, al, f.allocation, n)
    <2> DEFINE dead == {reg \in Operands(prog[n]) :
                 reg >= RegCount /\ \A i \in (n + 1)..Len(prog) : reg \notin Operands(prog[i])}
    <2>1. f.allocation = [r \in Regs |-> IF al[r] \in dead THEN Free ELSE al[r]]
      <3>1. "allocation" \in DOMAIN s
        BY DEF Scheduled
      <3> QED BY <3>1 DEF Freed
    <2> QED BY <1>3, <2>1 DEF Free, Freeing
  <1>7. /\ d \in Regs /\ d # 0
        /\ prog[n].dest < RegCount => d = prog[n].dest
        /\ prog[n].dest >= RegCount => d \in Regs \ keep /\ f.allocation[d] = Free
    <2> HIDE DEF f
    <2>1. prog[n].dest \in Nat \ {0} /\ 0 \in keep
      BY <1>1 DEF Schedulable, Reserved
    <2>2. CASE prog[n].dest < RegCount
      BY <2>1, <2>2, SizesAssumption DEF Allocate, Regs
    <2>3. CASE prog[n].dest >= RegCount
      <3> DEFINE free == {r \in Regs \ f.dont_touch : f.allocation[r] = Free}
      <3>1. free # {} /\ d = Min(free)
        BY <1>2, <2>1, <2>3, SizesAssumption DEF Allocate
      <3>2. Min(free) \in free
        <4>1. free \in SUBSET Nat
          BY <1>3
        <4> HIDE DEF free
        <4> QED BY <3>1, <4>1, MinOf
      <3>3. d \in Regs \ keep /\ f.allocation[d] = Free
        BY <1>5, <3>1, <3>2
      <3> QED BY <2>1, <2>3, <3>3, SizesAssumption
    <2> QED BY <2>1, <2>2, <2>3, SizesAssumption
  <1> QED BY <1>4, <1>5, <1>6, <1>7

LEMMA ChosenReady ==
  ASSUME NEW prog, NEW keep, NEW s, NEW c \in Cycles, NEW n,
         Schedulable(prog, keep), Scheduled(prog, keep, s, c), Chosen(prog, s, c, n)
  PROVE  Ready(prog, keep, s.exits, s.prog, s.allocation, c, n,
               Allocate(Freed(s, prog, n), prog[n].dest))
  <1> DEFINE x == s.exits
             w == s.prog
             al == s.allocation
             fr == Freed(s, prog, n).allocation
             d == Allocate(Freed(s, prog, n), prog[n].dest)
  <1>1. /\ n \in DOMAIN prog /\ x[n] = -1
        /\ c + Latency[prog[n].op] \in Cycles /\ w[c + Latency[prog[n].op]].dest = 0
        /\ \A m \in DOMAIN prog : m < n =>
             /\ prog[m].dest \in Operands(prog[n]) \cup {prog[n].dest} => x[m] # -1 /\ x[m] < c
             /\ prog[n].dest \in Operands(prog[m]) => x[m] # -1
    <2>1. Unhindered(prog, s.exits, s.prog, c, n)
      BY ChosenOrder, Zenon
    <2> QED BY <2>1 DEF Unhindered
  <1>2. /\ Freeing(prog, al, fr, n)
        /\ d \in Regs /\ d # 0
        /\ prog[n].dest < RegCount => d = prog[n].dest
        /\ prog[n].dest >= RegCount => d \in Regs \ keep /\ fr[d] = Free
    BY ChosenRegisters
  <1>3. \A k \in DOMAIN prog : x[k] # -1 /\ w[x[k]].dest = d => x[k] < c
    <2> SUFFICES ASSUME NEW k \in DOMAIN prog, x[k] # -1, w[x[k]].dest = d PROVE x[k] < c
      OBVIOUS
    <2>0. prog[n].dest \in Nat /\ prog[k].dest \in Nat
      BY <1>1 DEF Schedulable
    <2>1. CASE prog[n].dest >= RegCount
      <3>1. \A p \in Regs \ keep : fr[p] = Free =>
              \A j \in DOMAIN prog : x[j] # -1 /\ w[x[j]].dest = p => x[j] < c
        <4>1. \A m \in DOMAIN prog : m < n /\ prog[m].dest \in Operands(prog[n]) => x[m] # -1 /\ x[m] < c
          BY <1>1
        <4>2. /\ Schedule(prog, keep, x, w) /\ Held(prog, keep, x, w, al)
              /\ Awaited(prog, keep, x, w, al, c)
          BY DEF Scheduled
        <4>3. Freeing(prog, al, fr, n)
          BY <1>2
        <4> HIDE DEF x, w, al, fr
        <4> QED BY <1>1, <4>1, <4>2, <4>3, FreedAwaited
      <3> QED BY <1>2, <2>1, <3>1
    <2>2. CASE prog[n].dest < RegCount
      <3>1. d = prog[n].dest /\ d \in keep
        BY <1>1, <1>2, <2>2 DEF Schedulable
      <3>2. prog[k].dest < RegCount
        BY <2>0, <3>1, SizesAssumption DEF Scheduled, Schedule, Placed
      <3>3. prog[k].dest = prog[n].dest
        BY <3>1, <3>2 DEF Scheduled, Schedule, Placed
      <3>4. ~(n < k) /\ n # k
        BY <1>1, <3>3 DEF Scheduled, Schedule, Ordered
      <3>5. k < n
        BY <1>1, <3>4 DEF Schedulable
      <3> QED BY <1>1, <3>3, <3>5
    <2> QED BY <2>0, <2>1, <2>2, SizesAssumption
  <1> QED BY <1>1, <1>2, <1>3 DEF Ready

LEMMA IssuedStep ==
  ASSUME NEW prog, NEW keep, NEW s, NEW c \in Cycles, NEW n,
         Schedulable(prog, keep), Scheduled(prog, keep, s, c), Chosen(prog, s, c, n)
  PROVE  Scheduled(prog, keep, Issued(s, prog, c, n), c + 1)
  <1> DEFINE x == s.exits
             w == s.prog
             al == s.allocation
             f == Freed(s, prog, n)
             d == Allocate(f, prog[n].dest)
             exit == c + Latency[prog[n].op]
             t == Issued(s, prog, c, n)
             y == [x EXCEPT ![n] = exit]
             bl == [f.allocation EXCEPT ![d] = prog[n].dest]
             a == IF Arity(prog[n].op) >= 1 THEN Find(s, prog[n].a) ELSE 0
             b == IF Arity(prog[n].op) = 2 THEN Find(s, prog[n].b) ELSE 0
             u1 == [w EXCEPT ![c] = [op |-> prog[n].op, a |-> a, b |-> b, dest |-> w[c].dest]]
             u == [u1 EXCEPT ![exit].dest = d]
             last == IF exit > s.last_exit THEN exit ELSE s.last_exit
  <1>1. /\ n \in DOMAIN prog /\ x[n] = -1 /\ exit \in Cycles
        /\ FirstBegun(prog, y, c + 1)
    <2>1. Unhindered(prog, s.exits, s.prog, c, n) /\ FirstBegun(prog, y, c + 1)
      BY ChosenOrder, Zenon
    <2> QED BY <2>1 DEF Unhindered
  <1>2. /\ f = [s EXCEPT !.allocation = f.allocation]
        /\ f.allocation \in [Regs -> Int]
        /\ \A reg \in Operands(prog[n]) : Holds(keep, al, reg, Find(s, reg))
        /\ Freeing(prog, al, f.allocation, n)
        /\ d \in Regs
    BY ChosenRegisters
  <1>3. prog[n].op \in Opcodes /\ prog[n].dest \in Nat
    BY <1>1 DEF Schedulable
  <1>4. /\ w \in [Cycles -> Microwords] /\ x \in [DOMAIN prog -> -1..(ProgSize - 1)]
    BY DEF Scheduled, Schedule
  <1>7. t = [dont_touch |-> s.dont_touch, allocation |-> bl, exits |-> y, prog |-> u,
             last_exit |-> last]
    BY Zenon DEF Issued
  <1>8. a \in Regs /\ b \in Regs
    BY <1>2, ArityOperands, SizesAssumption DEF Holds, Regs
  <1>9. Written2(prog, w, u, c, n, d) /\ u[c].a = a /\ u[c].b = b
    <2>1. c # exit
      <3>1. Latency[prog[n].op] \in 2..5
        BY <1>3, Latencies
      <3> QED BY <3>1 DEF Cycles
    <2> HIDE DEF exit, a, b, d
    <2>2. [op |-> prog[n].op, a |-> a, b |-> b, dest |-> w[c].dest] \in Microwords
      BY <1>3, <1>4, <1>8 DEF Microwords
    <2>3. /\ u1 \in [Cycles -> Microwords] /\ u1[c].op = prog[n].op /\ u1[c].dest = w[c].dest
          /\ u1[c].a = a /\ u1[c].b = b
          /\ \A i \in Cycles \ {c} : u1[i] = w[i]
      BY <1>4, <2>2
    <2> HIDE DEF u1
    <2>5. /\ u \in [Cycles -> Microwords] /\ u[exit].dest = d
          /\ u[exit].op = u1[exit].op /\ u[exit].a = u1[exit].a /\ u[exit].b = u1[exit].b
          /\ \A i \in Cycles \ {exit} : u[i] = u1[i]
      BY <1>1, <1>2, <2>3 DEF Microwords
    <2> HIDE DEF u
    <2>6. u[c] = u1[c]
      BY <2>1, <2>5
    <2>7. \A i \in Cycles \ {c} : u[i].op = w[i].op /\ u[i].a = w[i].a /\ u[i].b = w[i].b
      BY <2>3, <2>5
    <2>8. \A i \in Cycles \ {exit} : u[i].dest = w[i].dest
      BY <2>3, <2>5
    <2>9. u \in [Cycles -> Microwords] /\ u[c].op = prog[n].op /\ u[exit].dest = d
          /\ u[c].a = a /\ u[c].b = b
      BY <2>3, <2>5, <2>6
    <2> QED BY <2>7, <2>8, <2>9 DEF Written2, exit
  <1>10. /\ Schedule(prog, keep, x, w) /\ Begun(prog, x, c)
         /\ Held(prog, keep, x, w, al) /\ Awaited(prog, keep, x, w, al, c)
         /\ LastExit(prog, x, s.last_exit)
    BY DEF Scheduled
  <1>11. Ready(prog, keep, x, w, al, c, n, d)
    BY ChosenReady
  <1>12. /\ Arity(prog[n].op) >= 1 => prog[n].a \in Operands(prog[n]) /\ Holds(keep, al, prog[n].a, u[c].a)
         /\ Arity(prog[n].op) = 2 => prog[n].b \in Operands(prog[n]) /\ Holds(keep, al, prog[n].b, u[c].b)
    <2> HIDE DEF u
    <2> QED BY <1>2, <1>9, ArityOperands
  <1>13. y = [x EXCEPT ![n] = c + Latency[prog[n].op]]
    OBVIOUS
  <1>14. bl[d] = prog[n].dest /\ \A p \in Regs \ {d} : bl[p] = f.allocation[p]
    <2> HIDE DEF d, f
    <2> QED BY <1>2
  <1>15. bl \in [Regs -> Int]
    <2> HIDE DEF d, f
    <2> QED BY <1>2, <1>3
  <1>16. LastExit(prog, y, last)
    <2> HIDE DEF exit
    <2>1. \A m \in DOMAIN prog : y[m] = IF m = n THEN exit ELSE x[m]
      BY <1>4
    <2>2. \A m \in DOMAIN prog : x[m] \in Int
      BY <1>4, SizesAssumption
    <2>3. s.last_exit \in Int /\ exit \in Int /\ exit >= 0 /\ exit <= ProgSize - 1
      BY <1>1, <1>10, SizesAssumption DEF LastExit, Cycles
    <2>4. last \in -1..(ProgSize - 1)
      BY <1>10, <2>3 DEF LastExit
    <2>5. \A m \in DOMAIN prog : y[m] <= last
      BY <1>10, <2>1, <2>2, <2>3 DEF LastExit
    <2>6. \E m \in DOMAIN prog : y[m] = last
      <3>1. CASE exit > s.last_exit
        BY <1>1, <2>1, <3>1
      <3>2. CASE ~(exit > s.last_exit)
        <4>1. PICK m \in DOMAIN prog : x[m] = s.last_exit
          BY <1>10, <2>3, <3>2 DEF LastExit
        <4>2. m # n
          BY <1>1, <2>3, <3>2, <4>1
        <4> QED BY <2>1, <3>2, <4>1, <4>2
      <3> QED BY <3>1, <3>2
    <2> QED BY <2>4, <2>5, <2>6 DEF LastExit
  <1>17. y \in [DOMAIN prog -> -1..(ProgSize - 1)]
    <2>1. exit \in -1..(ProgSize - 1)
      BY <1>1, SizesAssumption DEF Cycles
    <2> HIDE DEF exit
    <2> QED BY <1>4, <2>1
  <1>18. c + 1 \in 0..ProgSize
    BY SizesAssumption DEF Cycles
  <1>19. u \in [Cycles -> Microwords]
    BY <1>9 DEF Written2
  <1>20. Written2(prog, w, u, c, n, d)
    BY <1>9
  <1>21. Freeing(prog, al, f.allocation, n)
    BY <1>2
  <1> HIDE DEF x, w, al, f, d, y, bl, u, t, last
  <1>22. Placed(prog, keep, y, u) /\ Alone(prog, y) /\ Begun(prog, y, c + 1)
    BY <1>10, <1>11, <1>13, <1>20, PlacedStep
  <1>23. Accounted(prog, y, u) /\ Ordered(prog, y)
    BY <1>10, <1>11, <1>13, <1>20, AccountedStep
  <1>24. Fed(prog, keep, y, u)
    BY <1>10, <1>11, <1>12, <1>13, <1>20, FedStep
  <1>25. Held(prog, keep, y, u, bl) /\ Awaited(prog, keep, y, u, bl, c + 1)
    BY <1>10, <1>11, <1>13, <1>14, <1>20, <1>21, HeldStep
  <1>26. Schedule(prog, keep, y, u)
    BY <1>17, <1>19, <1>22, <1>23, <1>24 DEF Schedule
  <1>27. /\ t.dont_touch = s.dont_touch /\ t.allocation = bl /\ t.exits = y /\ t.prog = u
         /\ t.last_exit = last
    BY <1>7
  <1>28. t = [dont_touch |-> t.dont_touch, allocation |-> t.allocation, exits |-> t.exits,
              prog |-> t.prog, last_exit |-> t.last_exit]
    BY <1>7, <1>27
  <1>29. s.dont_touch = keep
    BY DEF Scheduled
  <1> QED BY <1>29, <1>1, <1>15, <1>16, <1>18, <1>22, <1>25, <1>26, <1>27, <1>28 DEF Scheduled, t

\* A cycle in which nothing can be issued.
LEMMA IdleStep ==
  ASSUME NEW prog, NEW keep, NEW s, NEW c \in Cycles,
         Schedulable(prog, keep), Scheduled(prog, keep, s, c), Candidates(s, prog, c) = {}
  PROVE  Scheduled(prog, keep, s, c + 1)
  <1>1. c \in Int /\ c + 1 \in 0..ProgSize
    BY SizesAssumption DEF Cycles
  <1>2. Begun(prog, s.exits, c + 1)
    <2> SUFFICES ASSUME NEW m \in DOMAIN prog, s.exits[m] # -1
                 PROVE  Start(prog, s.exits, m) < c + 1
      BY DEF Begun
    <2>1. Start(prog, s.exits, m) < c /\ Start(prog, s.exits, m) \in Int
      BY DEF Scheduled, Begun, Schedule, Placed, Cycles
    <2> QED BY <1>1, <2>1
  <1>3. FirstBegun(prog, s.exits, c + 1)
    BY FirstReady DEF FirstBegun
  <1>4. Awaited(prog, keep, s.exits, s.prog, s.allocation, c + 1)
    <2> SUFFICES ASSUME NEW p \in Regs \ keep, s.allocation[p] = Free, NEW k \in DOMAIN prog,
                        s.exits[k] # -1, s.prog[s.exits[k]].dest = p
                 PROVE  s.exits[k] < c + 1
      BY DEF Awaited
    <2>1. s.exits[k] < c
      BY DEF Scheduled, Awaited
    <2>2. s.exits[k] \in Int
      BY SizesAssumption DEF Scheduled, Schedule
    <2> QED BY <1>1, <2>1, <2>2
  <1> QED BY <1>1, <1>2, <1>3, <1>4 DEF Scheduled

LEMMA InitialSchedule ==
  ASSUME NEW prog, NEW kept \in SUBSET Regs, Schedulable(prog, Reserved \cup kept)
  PROVE  /\ Scheduled(prog, Reserved \cup kept, SchedulerInit(kept, Len(prog)), 0)
         /\ SchedulerInit(kept, Len(prog)).dont_touch = Reserved \cup kept
  <1> DEFINE s == SchedulerInit(kept, Len(prog))
             keep == Reserved \cup kept
  <1>1. /\ s.dont_touch = keep /\ s.allocation = [r \in Regs |-> Free]
        /\ s.exits = [i \in DOMAIN prog |-> -1] /\ s.prog = [c \in Cycles |-> Word]
        /\ s.last_exit = -1
        /\ s = [dont_touch |-> s.dont_touch, allocation |-> s.allocation, exits |-> s.exits,
                prog |-> s.prog, last_exit |-> s.last_exit]
    BY DEF SchedulerInit, Schedulable
  <1> HIDE DEF s, keep
  <1>2. Word \in Microwords /\ Word.op = "nop" /\ Word.dest = 0 /\ Word.a = 0
    BY SizesAssumption DEF Word, Microwords, Regs
  <1>3. /\ s.exits \in [DOMAIN prog -> -1..(ProgSize - 1)] /\ s.prog \in [Cycles -> Microwords]
        /\ \A m \in DOMAIN prog : s.exits[m] = -1
    BY <1>1, <1>2, SizesAssumption
  <1>4. Schedule(prog, keep, s.exits, s.prog)
    <2>1. Accounted(prog, s.exits, s.prog)
      BY <1>1, <1>2 DEF Accounted
    <2> QED BY <1>3, <2>1 DEF Schedule, Placed, Alone, Ordered, Fed
  <1>5. Begun(prog, s.exits, 0) /\ FirstBegun(prog, s.exits, 0)
    BY <1>3 DEF Begun, FirstBegun
  <1>6. /\ Held(prog, keep, s.exits, s.prog, s.allocation)
        /\ Awaited(prog, keep, s.exits, s.prog, s.allocation, 0)
    BY <1>1, <1>3, SizesAssumption DEF Held, Awaited, Free
  <1>7. LastExit(prog, s.exits, s.last_exit)
    BY <1>1, <1>3, SizesAssumption DEF LastExit
  <1>8. s.allocation \in [Regs -> Int] /\ 0 \in 0..ProgSize
    BY <1>1, SizesAssumption DEF Free
  <1>9. Scheduled(prog, keep, s, 0)
    BY <1>1, <1>4, <1>5, <1>6, <1>7, <1>8 DEF Scheduled
  <1> QED BY <1>1, <1>9 DEF s, keep

-----------------------------------------------------------------------------
(* In order *)

\* The registers after each instruction.
Course(prog, file) ==
  CHOOSE f : f = [k \in 0..Len(prog) |-> IF k = 0 THEN file ELSE After(prog[k], f[k - 1])]

LEMMA ExecutedIsCourse ==
  ASSUME NEW prog, NEW file
  PROVE  Executed(prog, file) = Course(prog, file)[Len(prog)]
  BY DEF Executed, Course

LEMMA CourseSteps ==
  ASSUME NEW prog, Len(prog) \in Nat, NEW file
  PROVE  /\ Course(prog, file)[0] = file
         /\ \A k \in 1..Len(prog) : Course(prog, file)[k] = After(prog[k], Course(prog, file)[k - 1])
  <1> DEFINE F(g, m) == [k \in 0..m |-> IF k = 0 THEN file ELSE After(prog[k], g[k - 1])]
             Runs(m) == \E g : g = F(g, m)
             T == {m \in Nat : ~Runs(m)}
  <1>1. T = {}
    <2> SUFFICES ASSUME T # {} PROVE FALSE
      OBVIOUS
    <2>1. PICK m \in T : \A k \in T : m <= k
      BY Least
    <2>2. m \in Nat /\ ~Runs(m)
      BY <2>1
    <2>3. CASE m = 0
      <3> DEFINE g == [k \in 0..m |-> file]
      <3>1. g = F(g, m)
        BY <2>3
      <3> QED BY <2>2, <3>1
    <2>4. CASE m > 0
      <3>1. m - 1 \in Nat /\ Runs(m - 1)
        <4>1. m - 1 \in Nat /\ ~(m <= m - 1)
          BY <2>2, <2>4
        <4> HIDE DEF Runs
        <4> QED BY <2>1, <4>1
      <3>2. PICK h : h = F(h, m - 1)
        BY <3>1
      <3> DEFINE X == After(prog[m], h[m - 1])
                 g == [k \in 0..m |-> IF k = m THEN X ELSE h[k]]
      <3> HIDE DEF X
      <3>3. \A k \in 0..(m - 1) : h[k] = IF k = 0 THEN file ELSE After(prog[k], h[k - 1])
        BY <3>2
      <3>4. \A k \in 0..(m - 1) : g[k] = h[k]
        BY <2>2
      <3>5. g[m] = X
        BY <2>2
      <3>6. \A k \in 0..m : g[k] = IF k = 0 THEN file ELSE After(prog[k], g[k - 1])
        <4> SUFFICES ASSUME NEW k \in 0..m
                     PROVE  g[k] = IF k = 0 THEN file ELSE After(prog[k], g[k - 1])
          OBVIOUS
        <4> HIDE DEF g
        <4>1. CASE k = m
          <5>1. k # 0 /\ g[k - 1] = h[k - 1]
            BY <2>2, <2>4, <3>4, <4>1
          <5> QED BY <3>5, <4>1, <5>1 DEF X
        <4>2. CASE k # m
          <5>1. k \in 0..(m - 1) /\ (k # 0 => k - 1 \in 0..(m - 1))
            BY <2>2, <4>2
          <5> QED BY <3>3, <3>4, <5>1
        <4> QED BY <4>1, <4>2
      <3>7. g = F(g, m)
        BY <3>6
      <3> QED BY <2>2, <3>7
    <2> QED BY <2>2, <2>3, <2>4
  <1>2. Runs(Len(prog))
    <2> HIDE DEF Runs
    <2> QED BY <1>1
  <1>3. Course(prog, file) = F(Course(prog, file), Len(prog))
    BY <1>2 DEF Course
  <1> QED BY <1>3

\* What the m-th instruction computes.
Result(prog, file, m) == Term(prog[m], Course(prog, file)[m - 1])

\* A register holds what the last instruction that wrote it computed.
CourseAt(prog, file, k) ==
  /\ DOMAIN Course(prog, file)[k] = DOMAIN file \cup {prog[j].dest : j \in 1..k}
  /\ \A m \in 1..k : (\A j \in (m + 1)..k : prog[j].dest # prog[m].dest) =>
       Course(prog, file)[k][prog[m].dest] = Result(prog, file, m)
  /\ \A reg \in DOMAIN file : (\A j \in 1..k : prog[j].dest # reg) =>
       Course(prog, file)[k][reg] = file[reg]

LEMMA CourseRegisters ==
  ASSUME NEW prog, Len(prog) \in Nat, DOMAIN prog = 1..Len(prog), NEW file
  PROVE  \A k \in 0..Len(prog) : CourseAt(prog, file, k)
  <1> DEFINE C == Course(prog, file)
             T == {k \in 0..Len(prog) : ~CourseAt(prog, file, k)}
  <1>1. C[0] = file /\ \A k \in 1..Len(prog) : C[k] = After(prog[k], C[k - 1])
    BY CourseSteps
  <1>2. T = {}
    <2> SUFFICES ASSUME T # {} PROVE FALSE
      OBVIOUS
    <2>1. PICK k \in T : \A j \in T : k <= j
      <3>1. T \in SUBSET Nat
        OBVIOUS
      <3> QED BY <3>1, Least
    <2>2. k \in 0..Len(prog) /\ ~CourseAt(prog, file, k)
      BY <2>1
    <2>3. CASE k = 0
      <3>1. 1..k = {}
        BY <2>3
      <3> QED BY <1>1, <2>2, <2>3, <3>1 DEF CourseAt
    <2>4. CASE k > 0
      <3>1. k - 1 \in 0..Len(prog) /\ k \in 1..Len(prog) /\ CourseAt(prog, file, k - 1)
        <4>1. k - 1 \in 0..Len(prog) /\ ~(k <= k - 1) /\ k \in 1..Len(prog)
          BY <2>2, <2>4
        <4> QED BY <2>1, <4>1
      <3> DEFINE D == C[k - 1]
                 d == prog[k].dest
      <3>2. C[k] = [r \in DOMAIN D \cup {d} |-> IF r = d THEN Term(prog[k], D) ELSE D[r]]
        BY <1>1, <3>1 DEF After
      <3>3. 1..k = 1..(k - 1) \cup {k}
        BY <3>1
      <3>4. DOMAIN C[k] = DOMAIN file \cup {prog[j].dest : j \in 1..k}
        BY <3>1, <3>2, <3>3 DEF CourseAt
      <3>5. ASSUME NEW m \in 1..k, \A j \in (m + 1)..k : prog[j].dest # prog[m].dest
            PROVE  C[k][prog[m].dest] = Result(prog, file, m)
        <4>1. CASE m = k
          BY <3>2, <4>1 DEF Result
        <4>2. CASE m # k
          <5>1. m \in 1..(k - 1) /\ k \in (m + 1)..k /\ (m + 1)..(k - 1) \subseteq (m + 1)..k
            BY <3>1, <4>2
          <5>2. D[prog[m].dest] = Result(prog, file, m) /\ prog[m].dest \in DOMAIN D
            BY <3>1, <3>5, <5>1 DEF CourseAt
          <5>3. prog[m].dest # d
            BY <3>5, <5>1
          <5> HIDE DEF D, d
          <5> QED BY <3>2, <5>2, <5>3
        <4> QED BY <4>1, <4>2
      <3>6. ASSUME NEW reg \in DOMAIN file, \A j \in 1..k : prog[j].dest # reg
            PROVE  C[k][reg] = file[reg]
        <4>1. D[reg] = file[reg] /\ reg \in DOMAIN D /\ reg # d
          BY <3>1, <3>3, <3>6 DEF CourseAt
        <4> HIDE DEF D, d
        <4> QED BY <3>2, <4>1
      <3> QED BY <2>2, <3>4, <3>5, <3>6 DEF CourseAt
    <2> QED BY <2>2, <2>3, <2>4
  <1> QED BY <1>2

-----------------------------------------------------------------------------
(* The PFPU *)

\* What is in the pipeline and in the registers R when word c is executed, from the registers
\* in file: each register has the last result that was written to it.
Token(prog, x, file, m) == [exit |-> x[m], value |-> Result(prog, file, m)]
Flying(prog, x, c) ==
  {m \in DOMAIN prog : x[m] # -1 /\ Start(prog, x, m) < c /\ c <= x[m]}
InPipe(prog, x, file, c, P) == P = {Token(prog, x, file, m) : m \in Flying(prog, x, c)}
InRegs(prog, keep, x, w, file, c, R) ==
  /\ DOMAIN R = Regs
  /\ \A m \in DOMAIN prog :
       /\ x[m] # -1 /\ x[m] < c
       /\ \A k \in DOMAIN prog : x[k] # -1 /\ w[x[k]].dest = w[x[m]].dest /\ x[k] < c => x[k] <= x[m]
       => R[w[x[m]].dest] = Result(prog, file, m)
  /\ \A p \in keep :
       (\A k \in DOMAIN prog : x[k] # -1 /\ w[x[k]].dest = p => x[k] >= c) => R[p] = file[p]
NotOut(prog, x, w, c) ==
  \A m \in DOMAIN prog : x[m] # -1 /\ w[x[m]].dest = RegOut => c <= x[m]
Runs(prog, keep, x, w, file, c, R, P) ==
  InPipe(prog, x, file, c, P) /\ InRegs(prog, keep, x, w, file, c, R) /\ NotOut(prog, x, w, c)

\* An operand, read when the instruction is issued, is the one it has in order.
LEMMA OperandRead ==
  ASSUME NEW prog, NEW keep, NEW x, NEW w, NEW file, NEW R, NEW n \in DOMAIN prog, NEW reg, NEW p,
         Schedulable(prog, keep), Schedule(prog, keep, x, w), x[n] # -1, DOMAIN file = Regs,
         reg \in Operands(prog[n]), Feeds(prog, keep, x, w, n, reg, p),
         InRegs(prog, keep, x, w, file, Start(prog, x, n), R)
  PROVE  R[p] = Course(prog, file)[n - 1][reg]
  <1> DEFINE c == Start(prog, x, n)
             W == {m \in 1..(n - 1) : prog[m].dest = reg}
             C == Course(prog, file)[n - 1]
  <1>1. DOMAIN prog = 1..Len(prog) /\ Len(prog) \in Nat /\ n \in 1..Len(prog) /\ n - 1 \in 0..Len(prog)
    BY DEF Schedulable
  <1>2. \A k \in DOMAIN prog : x[k] \in Int
    BY SizesAssumption DEF Schedule
  <1>3. c \in Int
    BY SizesAssumption DEF Schedule, Placed, Cycles
  <1>4. /\ \A m \in 1..(n - 1) : (\A j \in (m + 1)..(n - 1) : prog[j].dest # prog[m].dest) =>
             C[prog[m].dest] = Result(prog, file, m)
        /\ \A r \in DOMAIN file : (\A j \in 1..(n - 1) : prog[j].dest # r) => C[r] = file[r]
    <2>1. CourseAt(prog, file, n - 1)
      BY <1>1, CourseRegisters
    <2> QED BY <2>1 DEF CourseAt
  <1>5. CASE W = {}
    <2>1. \A j \in 1..(n - 1) : prog[j].dest # reg
      BY <1>5
    <2>2. \A m \in DOMAIN prog : m < n => prog[m].dest # reg
      BY <1>1, <2>1
    <2>3. reg \in keep /\ p = reg /\ p \in Regs
      BY <2>2 DEF Feeds
    <2>4. \A k \in DOMAIN prog : x[k] # -1 /\ w[x[k]].dest = p => x[k] >= c
      <3> SUFFICES ASSUME NEW k \in DOMAIN prog, x[k] # -1, w[x[k]].dest = p, ~(x[k] >= c)
                   PROVE  FALSE
        OBVIOUS
      <3>1. x[k] < c
        BY <1>2, <1>3
      <3> QED BY <2>2, <3>1 DEF Feeds
    <2>5. R[p] = file[p]
      BY <2>3, <2>4 DEF InRegs
    <2> QED BY <1>4, <2>1, <2>3, <2>5
  <1>6. CASE W # {}
    <2> DEFINE z == Max(W)
    <2>1. z \in W /\ \A m \in W : m <= z
      <3>1. W \in SUBSET (0..(n - 1)) /\ n - 1 \in Nat
        BY <1>1
      <3> HIDE DEF W
      <3> QED BY <1>6, <3>1, MaxOf
    <2> HIDE DEF z
    <2>2. z \in DOMAIN prog /\ z < n /\ prog[z].dest = reg /\ z \in 1..(n - 1)
      BY <1>1, <2>1
    <2>3. x[z] # -1 /\ x[z] < c
      BY <2>2 DEF Schedule, Ordered
    <2>4. \A m \in DOMAIN prog : m < n /\ prog[m].dest = reg => x[m] <= x[z]
      <3> SUFFICES ASSUME NEW m \in DOMAIN prog, m < n, prog[m].dest = reg PROVE x[m] <= x[z]
        OBVIOUS
      <3>1. m \in W
        BY <1>1
      <3>2. m <= z /\ m \in Nat /\ z \in Nat
        BY <1>1, <2>1, <2>2, <3>1
      <3>3. CASE m = z
        BY <1>2, <2>2, <3>3
      <3>4. CASE m < z
        BY <1>2, <2>2, <2>3, <3>4 DEF Schedule, Ordered
      <3> QED BY <3>2, <3>3, <3>4
    <2>5. w[x[z]].dest = p
      <3>1. CASE reg \in keep /\ p = reg
        <4>1. reg < RegCount
          BY <3>1, SizesAssumption DEF Schedulable, Regs
        <4> QED BY <2>2, <2>3, <3>1, <4>1 DEF Schedule, Placed
      <3>2. CASE reg >= RegCount /\ \E m \in DOMAIN prog :
                   m < n /\ prog[m].dest = reg /\ x[m] # -1 /\ w[x[m]].dest = p
        BY <2>2, <3>2 DEF Schedulable
      <3> QED BY <3>1, <3>2 DEF Feeds
    <2>6. \A k \in DOMAIN prog : x[k] # -1 /\ w[x[k]].dest = w[x[z]].dest /\ x[k] < c => x[k] <= x[z]
      <3> SUFFICES ASSUME NEW k \in DOMAIN prog, x[k] # -1, w[x[k]].dest = p, x[k] < c
                   PROVE  x[k] <= x[z]
        BY <2>5
      <3>1. PICK m \in DOMAIN prog : m < n /\ prog[m].dest = reg /\ x[k] <= x[m]
        BY DEF Feeds
      <3> QED BY <1>2, <2>2, <2>4, <3>1
    <2>7. R[p] = Result(prog, file, z)
      BY <2>2, <2>3, <2>5, <2>6 DEF InRegs
    <2>8. \A j \in (z + 1)..(n - 1) : prog[j].dest # prog[z].dest
      <3> SUFFICES ASSUME NEW j \in (z + 1)..(n - 1), prog[j].dest = reg PROVE FALSE
        BY <2>2
      <3>1. j \in W /\ ~(j <= z)
        BY <1>1, <2>2
      <3> QED BY <2>1, <3>1
    <2> QED BY <1>4, <2>2, <2>7, <2>8
  <1> QED BY <1>5, <1>6

\* What leaves the pipeline.
Leaves(prog, x, w, file, c, P) ==
  /\ w[c].dest = 0 => {r \in P : r.exit = c} = {}
  /\ w[c].dest # 0 => \E m \in DOMAIN prog : x[m] = c
  /\ \A m \in DOMAIN prog : x[m] = c =>
       {r \in P : r.exit = c} = {Token(prog, x, file, m)} /\ w[c].dest # 0

LEMMA Leaving ==
  ASSUME NEW prog, NEW keep, NEW x, NEW w, NEW file, NEW c \in Cycles, NEW P,
         Schedulable(prog, keep), Schedule(prog, keep, x, w), InPipe(prog, x, file, c, P)
  PROVE  Leaves(prog, x, w, file, c, P)
  <1>1. -1 \notin Cycles /\ c \in Int
    BY SizesAssumption DEF Cycles
  <1>2. \A m \in DOMAIN prog : x[m] = c => w[c].dest # 0
    BY <1>1 DEF Schedule, Placed
  <1>3. w[c].dest = 0 => {r \in P : r.exit = c} = {}
    <2> SUFFICES ASSUME NEW r \in P, r.exit = c PROVE w[c].dest # 0
      OBVIOUS
    <2>1. PICK m \in Flying(prog, x, c) : r = Token(prog, x, file, m)
      BY DEF InPipe
    <2>2. x[m] = c
      BY <2>1 DEF Token
    <2> QED BY <1>2, <2>2 DEF Flying
  <1>4. w[c].dest # 0 => \E m \in DOMAIN prog : x[m] = c
    BY DEF Schedule, Accounted
  <1>5. ASSUME NEW m \in DOMAIN prog, x[m] = c
        PROVE  {r \in P : r.exit = c} = {Token(prog, x, file, m)}
    <2>1. m \in Flying(prog, x, c)
      <3>1. Latency[prog[m].op] \in 2..5
        BY Latencies DEF Schedulable
      <3> QED BY <1>1, <1>5, <3>1 DEF Flying, Start
    <2>2. Token(prog, x, file, m) \in P /\ Token(prog, x, file, m).exit = c
      BY <1>5, <2>1 DEF InPipe, Token
    <2>3. ASSUME NEW r \in P, r.exit = c PROVE r = Token(prog, x, file, m)
      <3>1. PICK k \in Flying(prog, x, c) : r = Token(prog, x, file, k)
        BY DEF InPipe
      <3>2. x[k] = c /\ k \in DOMAIN prog
        BY <2>3, <3>1 DEF Token, Flying
      <3>3. k = m
        BY <1>1, <1>5, <3>2 DEF Schedule, Alone
      <3> QED BY <3>1, <3>3
    <2> QED BY <2>2, <2>3
  <1> QED BY <1>2, <1>3, <1>4, <1>5 DEF Leaves

\* What enters it.
Entering(word, R, c) ==
  IF word.op \in {"nop", "fdiv"} THEN {}
  ELSE {[exit |-> c + Latency[word.op], value |-> Term(word, R)]}

Entrants(prog, x, c) == {m \in DOMAIN prog : x[m] # -1 /\ Start(prog, x, m) = c}
Entered(prog, x, file, c) == {Token(prog, x, file, m) : m \in Entrants(prog, x, c)}
LEMMA EnteringTokens ==
  ASSUME NEW prog, NEW keep, NEW x, NEW w, NEW file, NEW c \in Cycles, NEW R,
         Schedulable(prog, keep), Schedule(prog, keep, x, w), DOMAIN file = Regs,
         InRegs(prog, keep, x, w, file, c, R)
  PROVE  Entering(w[c], R, c) = Entered(prog, x, file, c)
  <1> DEFINE S == Entrants(prog, x, c)
  <1>1. CASE w[c].op = "nop"
    <2>1. S = {}
      <3> SUFFICES ASSUME NEW k \in S PROVE FALSE
        OBVIOUS
      <3>1. prog[k].op = "nop"
        BY <1>1 DEF Schedule, Placed, Entrants
      <3> QED BY <3>1 DEF Schedulable, Opcodes, Entrants
    <2> QED BY <1>1, <2>1 DEF Entering, Entered
  <1>2. CASE w[c].op # "nop"
    <2>1. PICK n \in DOMAIN prog : x[n] # -1 /\ Start(prog, x, n) = c
      BY <1>2 DEF Schedule, Accounted
    <2>2. S = {n}
      BY <2>1 DEF Schedule, Alone, Entrants
    <2>3. w[c].op = prog[n].op /\ prog[n].op \in Opcodes
      BY <2>1 DEF Schedule, Placed, Schedulable
    <2>4. c + Latency[prog[n].op] = x[n]
      <3>1. Latency[prog[n].op] \in 2..5 /\ x[n] \in Int
        BY <2>3, Latencies, SizesAssumption DEF Schedule
      <3> QED BY <2>1, <3>1 DEF Start
    <2>5. Term(w[c], R) = Result(prog, file, n)
      <3> DEFINE C == Course(prog, file)[n - 1]
      <3>1. Arity(prog[n].op) >= 1 => R[w[c].a] = C[prog[n].a]
        <4> SUFFICES ASSUME Arity(prog[n].op) >= 1 PROVE R[w[c].a] = C[prog[n].a]
          OBVIOUS
        <4>1. prog[n].a \in Operands(prog[n])
          BY ArityOperands
        <4>2. Feeds(prog, keep, x, w, n, prog[n].a, w[c].a)
          BY <2>1 DEF Schedule, Fed
        <4> QED BY <2>1, <4>1, <4>2, OperandRead
      <3>2. Arity(prog[n].op) = 2 => R[w[c].b] = C[prog[n].b]
        <4> SUFFICES ASSUME Arity(prog[n].op) = 2 PROVE R[w[c].b] = C[prog[n].b]
          OBVIOUS
        <4>1. prog[n].b \in Operands(prog[n])
          BY ArityOperands
        <4>2. Feeds(prog, keep, x, w, n, prog[n].b, w[c].b)
          BY <2>1 DEF Schedule, Fed
        <4> QED BY <2>1, <4>1, <4>2, OperandRead
      <3>3. Arity(prog[n].op) \in 1..2
        BY <2>3 DEF Opcodes, Arity
      <3> HIDE DEF C
      <3>4. Term(w[c], R) = Term(prog[n], C)
        BY <2>3, <3>1, <3>2, <3>3 DEF Term
      <3> QED BY <3>4 DEF Result, C
    <2>6. w[c].op \notin {"nop", "fdiv"}
      BY <2>3 DEF Opcodes
    <2>7. Entering(w[c], R, c) = {Token(prog, x, file, n)}
      BY <2>3, <2>4, <2>5, <2>6 DEF Entering, Token
    <2> QED BY <2>2, <2>7 DEF Entered
  <1> QED BY <1>1, <1>2

\* A cycle of the PFPU.
Leave(P, c) == {r \in P : r.exit = c}
NextRegs(word, R, P, c) ==
  IF Leave(P, c) = {} THEN R
  ELSE [R EXCEPT ![word.dest] = (CHOOSE r \in Leave(P, c) : TRUE).value]
NextPipe(word, R, P, c) == (P \ Leave(P, c)) \cup Entering(word, R, c)

LEMMA PfpuStep ==
  ASSUME NEW prog, NEW keep, NEW x, NEW w, NEW file, NEW c \in Cycles, NEW R, NEW P,
         Schedulable(prog, keep), Schedule(prog, keep, x, w), DOMAIN file = Regs,
         Runs(prog, keep, x, w, file, c, R, P), w[c].dest # RegOut
  PROVE  Runs(prog, keep, x, w, file, c + 1, NextRegs(w[c], R, P, c), NextPipe(w[c], R, P, c))
  <1> DEFINE E == {r \in P : r.exit = c}
             Q == (P \ E) \cup Entering(w[c], R, c)
             V == IF E = {} THEN R ELSE [R EXCEPT ![w[c].dest] = (CHOOSE r \in E : TRUE).value]
  <1>0. InPipe(prog, x, file, c, P) /\ InRegs(prog, keep, x, w, file, c, R) /\ NotOut(prog, x, w, c)
    BY DEF Runs
  <1>1. -1 \notin Cycles /\ c \in Int
    BY SizesAssumption DEF Cycles
  <1>2. \A k \in DOMAIN prog : x[k] \in Int /\ Start(prog, x, k) \in Int /\ Start(prog, x, k) < x[k]
    <2> SUFFICES ASSUME NEW k \in DOMAIN prog
                 PROVE  x[k] \in Int /\ Start(prog, x, k) \in Int /\ Start(prog, x, k) < x[k]
      OBVIOUS
    <2>1. x[k] \in Int
      BY SizesAssumption DEF Schedule
    <2>2. Latency[prog[k].op] \in 2..5
      BY Latencies DEF Schedulable
    <2> QED BY <2>1, <2>2 DEF Start
  <1>3. InPipe(prog, x, file, c + 1, Q)
    <2>1. \A r : r \in P \ E <=>
            \E m \in DOMAIN prog : x[m] # -1 /\ Start(prog, x, m) < c /\ c < x[m] /\ r = Token(prog, x, file, m)
      <3> TAKE r
      <3>1. ASSUME r \in P \ E
            PROVE  \E m \in DOMAIN prog : x[m] # -1 /\ Start(prog, x, m) < c /\ c < x[m]
                                          /\ r = Token(prog, x, file, m)
        <4>1. PICK m \in Flying(prog, x, c) : r = Token(prog, x, file, m)
          BY <1>0, <3>1 DEF InPipe
        <4>2. r.exit = x[m] /\ m \in DOMAIN prog
          BY <4>1 DEF Token, Flying
        <4>3. x[m] # c
          BY <3>1, <4>2
        <4> QED BY <1>1, <1>2, <4>1, <4>2, <4>3 DEF Flying
      <3>2. ASSUME NEW m \in DOMAIN prog, x[m] # -1, Start(prog, x, m) < c, c < x[m],
                   r = Token(prog, x, file, m)
            PROVE  r \in P \ E
        <4>1. m \in Flying(prog, x, c)
          BY <1>1, <1>2, <3>2 DEF Flying
        <4>2. r \in P /\ r.exit = x[m] /\ x[m] # c
          BY <1>0, <1>1, <1>2, <3>2, <4>1 DEF InPipe, Token
        <4> QED BY <4>2
      <3> QED BY <3>1, <3>2
    <2>2. Entering(w[c], R, c) = Entered(prog, x, file, c)
      <3>1. InRegs(prog, keep, x, w, file, c, R)
        BY <1>0
      <3> QED BY <3>1, EnteringTokens
    <2>3. \A m \in DOMAIN prog :
            m \in Flying(prog, x, c + 1) <=>
              /\ x[m] # -1
              /\ \/ Start(prog, x, m) < c /\ c < x[m]
                 \/ Start(prog, x, m) = c
      BY <1>1, <1>2 DEF Flying
    <2> HIDE DEF E
    <2>4. \A r : r \in Q <=> \E m \in DOMAIN prog : m \in Flying(prog, x, c + 1) /\ r = Token(prog, x, file, m)
      BY <2>1, <2>2, <2>3 DEF Entrants, Entered
    <2>5. Flying(prog, x, c + 1) \subseteq DOMAIN prog
      BY DEF Flying
    <2> HIDE DEF Q
    <2> QED BY <2>4, <2>5 DEF InPipe
  <1>4. NotOut(prog, x, w, c + 1)
    <2> SUFFICES ASSUME NEW m \in DOMAIN prog, x[m] # -1, w[x[m]].dest = RegOut PROVE c + 1 <= x[m]
      BY DEF NotOut
    <2>1. c <= x[m] /\ c # x[m]
      BY <1>0 DEF NotOut
    <2> QED BY <1>1, <1>2, <2>1
  <1>5. InRegs(prog, keep, x, w, file, c + 1, V)
    <2>0. Leaves(prog, x, w, file, c, P)
      BY <1>0, Leaving, Zenon
    <2>1. CASE w[c].dest = 0
      <3>1. V = R
        BY <2>0, <2>1 DEF Leaves
      <3>2. \A k \in DOMAIN prog : x[k] # c
        BY <2>0, <2>1 DEF Leaves
      <3>3. \A k \in DOMAIN prog : (x[k] < c + 1 <=> x[k] < c) /\ (x[k] >= c + 1 <=> x[k] >= c)
        BY <1>1, <1>2, <3>2
      <3> HIDE DEF V
      <3> QED BY <1>0, <3>1, <3>3 DEF InRegs
    <2>2. CASE w[c].dest # 0
      <3>1. PICK n \in DOMAIN prog : x[n] = c
        BY <2>0, <2>2 DEF Leaves
      <3>2. E = {Token(prog, x, file, n)}
        BY <2>0, <3>1 DEF Leaves
      <3>3. V = [R EXCEPT ![w[c].dest] = Result(prog, file, n)]
        <4> HIDE DEF E
        <4>1. (CHOOSE r \in E : TRUE) = Token(prog, x, file, n)
          BY <3>2
        <4>2. Token(prog, x, file, n).value = Result(prog, file, n) /\ E # {}
          BY <3>2 DEF Token
        <4> QED BY <4>1, <4>2
      <3>4. w[c].dest \in Regs /\ DOMAIN R = Regs
        BY <1>0 DEF Schedule, Microwords, InRegs
      <3> HIDE DEF V
      <3>5. /\ DOMAIN V = Regs /\ V[w[c].dest] = Result(prog, file, n)
            /\ \A p \in Regs : p # w[c].dest => V[p] = R[p]
        BY <3>3, <3>4
      <3>6. \A k \in DOMAIN prog : x[k] = c => k = n
        BY <1>1, <3>1 DEF Schedule, Alone
      <3>7. ASSUME NEW m \in DOMAIN prog, x[m] # -1, x[m] < c + 1,
                   \A k \in DOMAIN prog :
                     x[k] # -1 /\ w[x[k]].dest = w[x[m]].dest /\ x[k] < c + 1 => x[k] <= x[m]
            PROVE  V[w[x[m]].dest] = Result(prog, file, m)
        <4>1. CASE m = n
          BY <3>1, <3>5, <4>1
        <4>2. CASE m # n
          <5>1. x[m] < c
            BY <1>1, <1>2, <3>6, <3>7, <4>2
          <5>2. w[x[m]].dest # w[c].dest
            <6> SUFFICES ASSUME w[x[m]].dest = w[c].dest PROVE FALSE
              OBVIOUS
            <6>1. x[n] <= x[m]
              BY <1>1, <3>1, <3>7
            <6> QED BY <1>1, <1>2, <3>1, <5>1, <6>1
          <5>3. R[w[x[m]].dest] = Result(prog, file, m)
            <6>1. \A k \in DOMAIN prog :
                     x[k] # -1 /\ w[x[k]].dest = w[x[m]].dest /\ x[k] < c => x[k] <= x[m]
              BY <1>1, <1>2, <3>7
            <6> QED BY <1>0, <3>7, <5>1, <6>1 DEF InRegs
          <5>4. x[m] \in Cycles
            BY <3>7, SizesAssumption DEF Schedule, Cycles
          <5>5. w[x[m]].dest \in Regs
            BY <5>4 DEF Schedule, Microwords
          <5> QED BY <3>5, <5>2, <5>3, <5>5
        <4> QED BY <4>1, <4>2
      <3>8. ASSUME NEW p \in keep,
                   \A k \in DOMAIN prog : x[k] # -1 /\ w[x[k]].dest = p => x[k] >= c + 1
            PROVE  V[p] = file[p]
        <4>1. p # w[c].dest
          BY <1>1, <3>1, <3>8
        <4>2. \A k \in DOMAIN prog : x[k] # -1 /\ w[x[k]].dest = p => x[k] >= c
          BY <1>1, <1>2, <3>8
        <4>3. p \in Regs
          BY DEF Schedulable
        <4> QED BY <1>0, <3>5, <4>1, <4>2, <4>3 DEF InRegs
      <3> QED BY <3>5, <3>7, <3>8 DEF InRegs
    <2> QED BY <2>1, <2>2
  <1> HIDE DEF V, Q
  <1>6. Runs(prog, keep, x, w, file, c + 1, V, Q)
    BY <1>3, <1>4, <1>5 DEF Runs
  <1> QED BY <1>6 DEF V, Q, NextRegs, NextPipe, Leave

\* At the start: nothing in the pipeline, the registers that count as loaded.
LEMMA PfpuStart ==
  ASSUME NEW prog, NEW keep, NEW x, NEW w, NEW file, NEW R,
         Schedulable(prog, keep), Schedule(prog, keep, x, w),
         DOMAIN R = Regs, \A p \in keep : R[p] = file[p]
  PROVE  Runs(prog, keep, x, w, file, 0, R, {})
  <1>1. \A k \in DOMAIN prog : x[k] \in Int /\ (x[k] # -1 => 0 <= x[k] /\ 0 <= Start(prog, x, k)
                                                     /\ Start(prog, x, k) \in Int)
    <2> SUFFICES ASSUME NEW k \in DOMAIN prog
                 PROVE  x[k] \in Int /\ (x[k] # -1 => 0 <= x[k] /\ 0 <= Start(prog, x, k)
                                                     /\ Start(prog, x, k) \in Int)
      OBVIOUS
    <2>1. x[k] \in -1..(ProgSize - 1)
      BY DEF Schedule
    <2>2. x[k] # -1 => Start(prog, x, k) \in Cycles
      BY DEF Schedule, Placed
    <2> QED BY <2>1, <2>2, SizesAssumption DEF Cycles
  <1>2. Flying(prog, x, 0) = {}
    BY <1>1 DEF Flying
  <1>3. InPipe(prog, x, file, 0, {})
    BY <1>2 DEF InPipe
  <1>4. InRegs(prog, keep, x, w, file, 0, R)
    BY <1>1 DEF InRegs
  <1>5. NotOut(prog, x, w, 0)
    BY <1>1 DEF NotOut
  <1> QED BY <1>3, <1>4, <1>5 DEF Runs

-----------------------------------------------------------------------------
(* The per-vertex program can be scheduled *)

VertexKeep == Reserved \cup 3..13

\* The instruction that writes a virtual register.
WriterOf(k) ==
  IF k < 0 THEN 31 ELSE IF k < 10 THEN k + 1 ELSE IF k < 20 THEN k + 3 ELSE IF k < 30 THEN k + 5
  ELSE IF k < 32 THEN k - 7 ELSE k - 69

LEMMA VertexInstructions ==
  /\ Len(VertexProgram) = 31 /\ DOMAIN VertexProgram = 1..31
  /\ \A m \in 1..31 :
       /\ VertexProgram[m] \in Isns /\ VertexProgram[m].op \in Opcodes
       /\ VertexProgram[m].dest \in Nat \ {0, 1, 2} /\ VertexProgram[m].a \in Nat /\ VertexProgram[m].b \in Nat
  /\ VertexProgram[31].dest = RegOut
  /\ VertexProgram \in Seq(Isns)
  <1>1. Len(VertexProgram) = 31 /\ DOMAIN VertexProgram = 1..31
    BY DEF VertexProgram
  <1>2. \A m \in 1..31 : VertexProgram[m] = Isn(VertexProgram[m].op, VertexProgram[m].a,
                                                VertexProgram[m].b, VertexProgram[m].dest)
    BY DEF VertexProgram, Isn
  <1>3. \A m \in 1..31 : VertexProgram[m].op \in Opcodes
    BY DEF VertexProgram, Isn, Opcodes
  <1>4. \A m \in 1..31 : VertexProgram[m].dest \in Nat \ {0, 1, 2}
    BY SizesAssumption DEF VertexProgram, Isn, FR, RegOut
  <1>5. \A m \in 1..31 : VertexProgram[m].a \in Nat
    BY SizesAssumption DEF VertexProgram, Isn, FR, RegOut
  <1>6. \A m \in 1..31 : VertexProgram[m].b \in Nat
    BY SizesAssumption DEF VertexProgram, Isn, FR, RegOut
  <1>7. \A m \in 1..31 : VertexProgram[m] \in Isns
    <2> SUFFICES ASSUME NEW m \in 1..31 PROVE VertexProgram[m] \in Isns
      OBVIOUS
    <2> DEFINE i == VertexProgram[m]
    <2>1. i.op \in DOMAIN Latency
      BY <1>3 DEF Opcodes, Latency
    <2>2. i.dest \in Int /\ i.a \in Int /\ i.b \in Int
      BY <1>4, <1>5, <1>6
    <2>3. i = Isn(i.op, i.a, i.b, i.dest)
      BY <1>2
    <2> HIDE DEF i
    <2>4. i \in Isns
      BY <2>1, <2>2, <2>3 DEF Isn, Isns
    <2> QED BY <2>4 DEF i
  <1>8. VertexProgram[31].dest = RegOut
    BY DEF VertexProgram, Isn
  <1>9. VertexProgram = [m \in 1..31 |-> VertexProgram[m]]
    BY DEF VertexProgram
  <1>10. VertexProgram \in [1..31 -> Isns]
    BY <1>7, <1>9
  <1>11. VertexProgram \in Seq(Isns)
    BY <1>10, SeqDef
  <1> QED BY <1>1, <1>3, <1>4, <1>5, <1>6, <1>7, <1>8, <1>11

LEMMA VertexWriters == \A m \in 1..31 : WriterOf(VertexProgram[m].dest - RegCount) = m
  BY SizesAssumption DEF VertexProgram, Isn, FR, RegOut, WriterOf

\* The physical registers that it names.
LEMMA VertexPhysical ==
  \A m \in 1..31 :
    /\ VertexProgram[m].dest < RegCount => VertexProgram[m].dest = RegOut
    /\ VertexProgram[m].a < RegCount => VertexProgram[m].a \in {0, 1} \cup 3..13
    /\ VertexProgram[m].b < RegCount => VertexProgram[m].b \in {0} \cup 3..13
  <1>1. \A m \in 1..31 : VertexProgram[m].dest < RegCount => VertexProgram[m].dest = RegOut
    BY SizesAssumption DEF VertexProgram, Isn, FR
  <1>2. \A m \in 1..31 : VertexProgram[m].a < RegCount => VertexProgram[m].a \in {0, 1} \cup 3..13
    BY SizesAssumption DEF VertexProgram, Isn, FR
  <1>3. \A m \in 1..31 : VertexProgram[m].b < RegCount => VertexProgram[m].b \in {0} \cup 3..13
    BY SizesAssumption DEF VertexProgram, Isn, FR
  <1> QED BY <1>1, <1>2, <1>3

LEMMA VertexSchedulable == Schedulable(VertexProgram, VertexKeep)
  <1>1. /\ VertexKeep \subseteq Regs /\ Reserved \subseteq VertexKeep
        /\ {0, 1, RegOut} \cup 3..13 \subseteq VertexKeep
    BY SizesAssumption DEF VertexKeep, Reserved, Regs, RegOut
  <1>2. ASSUME NEW m \in DOMAIN VertexProgram
        PROVE  /\ VertexProgram[m].op \in Opcodes
               /\ VertexProgram[m].dest \in Nat \ {0, 1, 2}
               /\ VertexProgram[m].dest < RegCount => VertexProgram[m].dest \in VertexKeep
               /\ \A reg \in Operands(VertexProgram[m]) :
                    reg \in Nat /\ (reg < RegCount => reg \in VertexKeep)
    <2>1. m \in 1..31
      BY VertexInstructions
    <2>2. /\ VertexProgram[m].op \in Opcodes
          /\ VertexProgram[m].dest \in Nat \ {0, 1, 2}
          /\ VertexProgram[m].a \in Nat /\ VertexProgram[m].b \in Nat
      BY <2>1, VertexInstructions
    <2>3. /\ VertexProgram[m].dest < RegCount => VertexProgram[m].dest = RegOut
          /\ VertexProgram[m].a < RegCount => VertexProgram[m].a \in {0, 1} \cup 3..13
          /\ VertexProgram[m].b < RegCount => VertexProgram[m].b \in {0} \cup 3..13
      BY <2>1, VertexPhysical
    <2>4. Operands(VertexProgram[m]) \subseteq {VertexProgram[m].a, VertexProgram[m].b}
      BY DEF Operands
    <2>5. /\ VertexProgram[m].a < RegCount => VertexProgram[m].a \in VertexKeep
          /\ VertexProgram[m].b < RegCount => VertexProgram[m].b \in VertexKeep
      BY <1>1, <2>3
    <2> QED BY <1>1, <2>2, <2>3, <2>4, <2>5
  <1>3. \A m, n \in DOMAIN VertexProgram : VertexProgram[m].dest = VertexProgram[n].dest => m = n
    BY VertexInstructions, VertexWriters
  <1> QED BY <1>1, <1>2, <1>3, VertexInstructions DEF Schedulable

\* The reserved registers are not written but by the end of the program.
LEMMA ReservedKept ==
  ASSUME NEW prog, NEW keep, NEW x, NEW w, NEW c \in Cycles,
         Schedulable(prog, keep), Schedule(prog, keep, x, w)
  PROVE  w[c].dest \in Reserved => w[c].dest \in {0, RegOut}
  <1> SUFFICES ASSUME w[c].dest # 0, w[c].dest \in Reserved PROVE w[c].dest = RegOut
    OBVIOUS
  <1>1. PICK m \in DOMAIN prog : x[m] = c
    BY DEF Schedule, Accounted
  <1>2. x[m] # -1
    BY <1>1, SizesAssumption DEF Cycles
  <1>3. prog[m].dest \in Nat \ {0, 1, 2}
    BY DEF Schedulable
  <1>4. CASE prog[m].dest < RegCount
    BY <1>1, <1>2, <1>3, <1>4 DEF Schedule, Placed, Reserved
  <1>5. CASE prog[m].dest >= RegCount
    BY <1>1, <1>2, <1>5 DEF Schedule, Placed, Schedulable
  <1> QED BY <1>3, <1>4, <1>5, SizesAssumption

-----------------------------------------------------------------------------
(* Loaded and running *)

\* What a program keeps is written before its output.
Ending(prog, x) ==
  \A m, o \in DOMAIN prog : prog[m].dest < RegCount /\ prog[o].dest = RegOut => x[m] <= x[o]

\* code is a schedule of prog that gets to its output.
Loaded(prog, keep, code, x, w) ==
  /\ Schedule(prog, keep, x, w)
  /\ Len(code) \in 0..ProgSize /\ code = [i \in 1..Len(code) |-> w[i - 1]]
  /\ \A m \in DOMAIN prog : x[m] # -1 /\ x[m] < Len(code)
  /\ \E m \in DOMAIN prog : prog[m].dest = RegOut
  /\ Ending(prog, x)

Executing(prog, keep, code, file) ==
  \E x, w :
    /\ Loaded(prog, keep, code, x, w)
    /\ \A c \in Cycles : c < Len(code) => mem[c] = w[c]
    /\ pc \in Cycles
    /\ Runs(prog, keep, x, w, file, pc, regs, pipe)

\* It has not run past its end.
LEMMA BeforeEnd ==
  ASSUME NEW prog, NEW keep, NEW code, NEW x, NEW w, NEW file, NEW c \in Cycles, NEW R, NEW P,
         Schedulable(prog, keep), Loaded(prog, keep, code, x, w),
         Runs(prog, keep, x, w, file, c, R, P)
  PROVE  c < Len(code)
  <1>1. PICK m \in DOMAIN prog : prog[m].dest = RegOut /\ x[m] # -1
    BY Zenon DEF Loaded
  <1>2. w[x[m]].dest = RegOut
    BY <1>1, SizesAssumption DEF Loaded, Schedule, Placed, RegOut
  <1>3. c <= x[m] /\ x[m] < Len(code)
    BY <1>1, <1>2 DEF Runs, NotOut, Loaded
  <1>4. x[m] \in Int /\ c \in Int /\ Len(code) \in Int
    BY SizesAssumption DEF Loaded, Schedule, Cycles
  <1> QED BY <1>3, <1>4

LEMMA ExecuteStep ==
  ASSUME NEW prog, NEW keep, NEW code, NEW file,
         Schedulable(prog, keep), DOMAIN file = Regs,
         Executing(prog, keep, code, file), Execute
  PROVE  /\ Executing(prog, keep, code, file)'
         /\ \A p \in Reserved : regs'[p] = regs[p]
  <1>1. PICK x, w :
          /\ Loaded(prog, keep, code, x, w)
          /\ \A c \in Cycles : c < Len(code) => mem[c] = w[c]
          /\ pc \in Cycles
          /\ Runs(prog, keep, x, w, file, pc, regs, pipe)
    BY Zenon DEF Executing
  <1>2. pc < Len(code) /\ mem[pc] = w[pc]
    BY <1>1, BeforeEnd
  <1>3. Schedule(prog, keep, x, w)
    BY <1>1 DEF Loaded
  <1>4. Leaves(prog, x, w, file, pc, pipe)
    <2>1. InPipe(prog, x, file, pc, pipe)
      BY <1>1 DEF Runs
    <2> QED BY <1>1, <1>3, <2>1, Leaving
  <1>5. w[pc].dest # RegOut
    <2>1. ~Output
      BY DEF Execute
    <2>2. w[pc].dest = 0 => w[pc].dest # RegOut
      BY SizesAssumption DEF RegOut
    <2> QED BY <1>2, <1>4, <2>1, <2>2 DEF Leaves, Output, Emerging
  <1>6. /\ regs' = NextRegs(w[pc], regs, pipe, pc)
        /\ pipe' = NextPipe(w[pc], regs, pipe, pc)
        /\ pc' = pc + 1 /\ mem' = mem
    BY <1>2, Zenon DEF Execute, Issue, Entering, NextRegs, NextPipe, Leave, Emerging
  <1>7. Runs(prog, keep, x, w, file, pc', regs', pipe')
    BY <1>1, <1>3, <1>5, <1>6, PfpuStep
  <1>8. pc' \in Cycles
    BY <1>1, <1>6, SizesAssumption DEF Execute, Cycles
  <1>9. Executing(prog, keep, code, file)'
    BY <1>1, <1>6, <1>7, <1>8 DEF Executing
  <1>10. \A p \in Reserved : regs'[p] = regs[p]
    <2>1. w[pc].dest = 0 \/ w[pc].dest \notin Reserved
      BY <1>1, <1>3, <1>5, ReservedKept
    <2>2. CASE w[pc].dest = 0
      BY <1>4, <1>6, <2>2 DEF Leaves, Leave, NextRegs
    <2>3. CASE w[pc].dest \notin Reserved
      <3>1. DOMAIN regs = Regs /\ Reserved \subseteq Regs
        BY <1>1 DEF Runs, InRegs, Schedulable
      <3> QED BY <1>6, <2>3, <3>1 DEF NextRegs
    <2> QED BY <2>1, <2>2, <2>3
  <1> QED BY <1>9, <1>10

\* load_program puts the whole of a program that fits in a page.
LEMMA SmallRemainder ==
  ASSUME NEW n \in Nat, NEW k \in Nat, n < k
  PROVE  n % k = n
  OBVIOUS

LEMMA ProgramLoaded ==
  ASSUME NEW code, NEW w, Len(code) \in 0..ProgSize, Len(code) <= PageSize,
         code = [i \in 1..Len(code) |-> w[i - 1]]
  PROVE  \A c \in Cycles : c < Len(code) => LoadProgram(code)[c] = w[c]
  <1> SUFFICES ASSUME NEW c \in Cycles, c < Len(code) PROVE LoadProgram(code)[c] = w[c]
    OBVIOUS
  <1> DEFINE put == {i \in 1..Len(code) : (i - 1) % PageSize = c}
  <1>1. c \in Nat /\ PageSize \in Nat /\ PageSize > 0 /\ Len(code) \in Nat
    BY SizesAssumption DEF Cycles
  <1>2. \A i \in 1..Len(code) : (i - 1) % PageSize = i - 1
    BY <1>1, SmallRemainder
  <1>3. put = {c + 1}
    BY <1>1, <1>2
  <1>4. Max({c + 1}) = c + 1
    BY <1>1 DEF Max
  <1>5. LoadProgram(code)[c] = code[c + 1]
    BY <1>3, <1>4 DEF LoadProgram
  <1> QED BY <1>1, <1>5

\* A program starts as it was loaded.
LEMMA StartExecuting ==
  ASSUME NEW prog, NEW keep, NEW code, NEW x, NEW w, NEW file, NEW given, NEW v,
         Schedulable(prog, keep), Loaded(prog, keep, code, x, w), Len(code) <= PageSize,
         StartPfpu(code, given), \A p \in keep : file[p] = regs'[p]
  PROVE  Executing(prog, keep, code, file)'
  <1>1. /\ Schedule(prog, keep, x, w) /\ Len(code) \in 0..ProgSize
        /\ code = [i \in 1..Len(code) |-> w[i - 1]]
    BY DEF Loaded
  <1>2. mem' = LoadProgram(code) /\ pc' = 0 /\ pipe' = {} /\ regs' = LoadRegisters(given, 0)
    BY DEF StartPfpu
  <1>3. \A c \in Cycles : c < Len(code) => mem'[c] = w[c]
    <2> HIDE DEF LoadProgram
    <2> QED BY <1>1, <1>2, ProgramLoaded
  <1>4. DOMAIN regs' = Regs
    BY <1>2 DEF LoadRegisters
  <1>5. Runs(prog, keep, x, w, file, 0, regs', {})
    BY <1>1, <1>4, PfpuStart
  <1>6. pc' \in Cycles
    BY <1>2, SizesAssumption DEF Cycles
  <1> QED BY <1>2, <1>3, <1>5, <1>6 DEF Executing

\* What leaves at the end of a program.
LEMMA OutputStep ==
  ASSUME NEW prog, NEW keep, NEW code, NEW file,
         Schedulable(prog, keep), Executing(prog, keep, code, file), Output
  PROVE  \E m \in DOMAIN prog :
           /\ prog[m].dest = RegOut
           /\ (CHOOSE r \in Emerging : TRUE).value = Result(prog, file, m)
  <1>1. PICK x, w :
          /\ Loaded(prog, keep, code, x, w)
          /\ \A c \in Cycles : c < Len(code) => mem[c] = w[c]
          /\ pc \in Cycles
          /\ Runs(prog, keep, x, w, file, pc, regs, pipe)
    BY Zenon DEF Executing
  <1>2. pc < Len(code) /\ mem[pc] = w[pc]
    BY <1>1, BeforeEnd
  <1>3. Schedule(prog, keep, x, w)
    BY <1>1 DEF Loaded
  <1>4. Leaves(prog, x, w, file, pc, pipe)
    <2>1. InPipe(prog, x, file, pc, pipe)
      BY <1>1 DEF Runs
    <2> QED BY <1>1, <1>3, <2>1, Leaving
  <1>5. w[pc].dest = RegOut /\ RegOut # 0
    BY <1>2, SizesAssumption DEF Output, RegOut
  <1>6. PICK m \in DOMAIN prog : x[m] = pc
    BY <1>4, <1>5 DEF Leaves
  <1>7. Emerging = {Token(prog, x, file, m)}
    BY <1>4, <1>6 DEF Leaves, Emerging
  <1>8. x[m] # -1
    BY <1>1, <1>6, SizesAssumption DEF Cycles
  <1>9. prog[m].dest = RegOut
    <2>1. RegOut \in keep /\ prog[m].dest \in Nat
      BY DEF Schedulable, Reserved
    <2>2. ~(prog[m].dest >= RegCount)
      BY <1>3, <1>5, <1>6, <1>8, <2>1 DEF Schedule, Placed
    <2> QED BY <1>3, <1>5, <1>6, <1>8, <2>1, <2>2, SizesAssumption DEF Schedule, Placed
  <1> DEFINE out == CHOOSE r \in Emerging : TRUE
  <1>10. out = Token(prog, x, file, m)
    BY <1>7
  <1> HIDE DEF out
  <1>11. out.value = Result(prog, file, m)
    BY <1>10 DEF Token
  <1> QED BY <1>9, <1>11 DEF out

\* After the output: every register the program keeps is as it was at the start, but for those
\* it writes.
LEMMA KeptUntilEnd ==
  ASSUME NEW prog, NEW keep, NEW code, NEW file,
         Schedulable(prog, keep), Executing(prog, keep, code, file)
  PROVE  /\ DOMAIN regs = Regs
         /\ \A p \in keep : (\A m \in DOMAIN prog : prog[m].dest = p => p = RegOut) =>
              regs[p] = file[p]
  <1>1. PICK x, w :
          /\ Loaded(prog, keep, code, x, w)
          /\ \A c \in Cycles : c < Len(code) => mem[c] = w[c]
          /\ pc \in Cycles
          /\ Runs(prog, keep, x, w, file, pc, regs, pipe)
    BY Zenon DEF Executing
  <1>2. Schedule(prog, keep, x, w)
    BY <1>1 DEF Loaded
  <1>3. InRegs(prog, keep, x, w, file, pc, regs) /\ NotOut(prog, x, w, pc)
    BY <1>1 DEF Runs
  <1>4. ASSUME NEW p \in keep, \A m \in DOMAIN prog : prog[m].dest = p => p = RegOut
        PROVE  regs[p] = file[p]
    <2>1. ASSUME NEW k \in DOMAIN prog, x[k] # -1, w[x[k]].dest = p PROVE x[k] >= pc
      <3>1. ~(prog[k].dest >= RegCount) /\ prog[k].dest \in Nat
        BY <1>2, <2>1 DEF Schedule, Placed, Schedulable
      <3>2. prog[k].dest = p
        BY <1>2, <2>1, <3>1, SizesAssumption DEF Schedule, Placed
      <3>3. w[x[k]].dest = RegOut
        BY <1>4, <2>1, <3>2
      <3>4. pc <= x[k]
        BY <1>3, <2>1, <3>3 DEF NotOut
      <3>5. x[k] \in Int /\ pc \in Int
        BY <1>1, <1>2, SizesAssumption DEF Schedule, Cycles
      <3> QED BY <3>4, <3>5
    <2> QED BY <1>3, <2>1 DEF InRegs
  <1> QED BY <1>3, <1>4 DEF InRegs

-----------------------------------------------------------------------------
(* The scheduler at work *)

\* The program being scheduled; the scheduler ends with all of it, or has met a limit.
Scheduling(prog, keep) ==
  /\ visn = prog /\ Scheduled(prog, keep, sc, cycle)
  /\ phase = "finish" /\ fits => Complete(sc)

LEMMA SchedulingStep ==
  ASSUME NEW prog, NEW keep,
         Schedulable(prog, keep), Scheduling(prog, keep), ScheduleCycle \/ ScheduleEnd
  PROVE  Scheduling(prog, keep)'
  <1>1. visn = prog /\ Scheduled(prog, keep, sc, cycle)
    BY DEF Scheduling
  <1>2. CASE ScheduleCycle
    <2> DEFINE ready == Candidates(sc, visn, cycle)
               failed == cycle = ProgSize \/ (ready # {} /\ Fails(sc, visn, cycle, Min(ready)))
    <2>1. /\ sc' = IF failed \/ ready = {} THEN sc ELSE Issued(sc, visn, cycle, Min(ready))
          /\ phase' = IF failed THEN "finish" ELSE "schedule"
          /\ cycle' = IF failed THEN cycle ELSE cycle + 1
          /\ fits' = (fits /\ ~failed) /\ visn' = visn
      BY <1>2 DEF ScheduleCycle, Goto
    <2> HIDE DEF ready
    <2>2. CASE failed
      <3>1. sc' = sc /\ cycle' = cycle /\ visn' = visn /\ ~fits'
        BY <2>1, <2>2
      <3> QED BY <1>1, <3>1 DEF Scheduling
    <2>3. CASE ~failed
      <3>1. cycle \in Cycles
        BY <1>1, <2>3, SizesAssumption DEF Scheduled, Cycles
      <3>2. /\ phase' # "finish" /\ cycle' = cycle + 1 /\ visn' = visn
            /\ sc' = IF ready = {} THEN sc ELSE Issued(sc, visn, cycle, Min(ready))
        BY <2>1, <2>3
      <3>3. CASE ready = {}
        <4>1. Scheduled(prog, keep, sc, cycle + 1)
          BY <1>1, <3>1, <3>3, IdleStep DEF ready
        <4> QED BY <1>1, <3>2, <3>3, <4>1 DEF Scheduling
      <3>4. CASE ready # {}
        <4>1. Chosen(prog, sc, cycle, Min(ready))
          BY <1>1, <2>3, <3>4 DEF Chosen, ready
        <4>2. Scheduled(prog, keep, Issued(sc, prog, cycle, Min(ready)), cycle + 1)
          BY <1>1, <3>1, <4>1, IssuedStep
        <4> QED BY <1>1, <3>2, <3>4, <4>2 DEF Scheduling
      <3> QED BY <3>3, <3>4
    <2> QED BY <2>2, <2>3
  <1>3. CASE ScheduleEnd
    <2>1. visn' = visn /\ sc' = sc /\ cycle' = cycle /\ Complete(sc)
      BY <1>3 DEF ScheduleEnd, Goto, scheduling
    <2> QED BY <1>1, <2>1 DEF Scheduling, Complete
  <1> QED BY <1>2, <1>3

\* A program that can be loaded as a whole.
Fitting(prog, keep, code) ==
  Len(code) <= PageSize /\ \E x, w : Loaded(prog, keep, code, x, w)

\* What a complete schedule is used for.
LEMMA FinishedFitting ==
  ASSUME NEW prog, NEW keep, NEW s, NEW c,
         Schedulable(prog, keep), Scheduled(prog, keep, s, c), Complete(s),
         \E m \in DOMAIN prog : prog[m].dest = RegOut, Ending(prog, s.exits),
         s.last_exit < PageSize
  PROVE  Fitting(prog, keep, Words(s))
  <1>1. Schedule(prog, keep, s.exits, s.prog) /\ LastExit(prog, s.exits, s.last_exit)
    BY DEF Scheduled
  <1>2. s.last_exit \in Int /\ s.last_exit + 1 \in 0..ProgSize
    BY <1>1, SizesAssumption DEF LastExit
  <1>3. Len(Words(s)) = s.last_exit + 1 /\ Words(s) = [i \in 1..(s.last_exit + 1) |-> s.prog[i - 1]]
    BY <1>2 DEF Words
  <1>4. Len(Words(s)) \in 0..ProgSize /\ Words(s) = [i \in 1..Len(Words(s)) |-> s.prog[i - 1]]
    BY <1>2, <1>3
  <1>5. \A m \in DOMAIN prog : s.exits[m] < Len(Words(s))
    <2> SUFFICES ASSUME NEW m \in DOMAIN prog PROVE s.exits[m] < s.last_exit + 1
      BY <1>3
    <2>1. s.exits[m] \in Int /\ s.exits[m] <= s.last_exit
      BY <1>1, SizesAssumption DEF LastExit, Schedule
    <2> QED BY <1>2, <2>1
  <1>6. \A m \in DOMAIN prog : s.exits[m] # -1
    <2>1. DOMAIN s.exits = DOMAIN prog
      BY <1>1 DEF Schedule
    <2> QED BY <2>1 DEF Complete
  <1>7. Loaded(prog, keep, Words(s), s.exits, s.prog)
    BY <1>1, <1>4, <1>5, <1>6 DEF Loaded
  <1>8. Len(Words(s)) <= PageSize
    BY <1>2, <1>3, SizesAssumption
  <1> QED BY <1>7, <1>8 DEF Fitting

\* The program is run again, for the next vertex.
LEMMA RestartExecuting ==
  ASSUME NEW prog, NEW keep, NEW code, NEW file, NEW next,
         Schedulable(prog, keep), Executing(prog, keep, code, file),
         mem' = mem, pc' = 0, pipe' = {}, DOMAIN regs' = Regs, \A p \in keep : regs'[p] = next[p]
  PROVE  Executing(prog, keep, code, next)'
  <1>1. PICK x, w :
          /\ Loaded(prog, keep, code, x, w)
          /\ \A c \in Cycles : c < Len(code) => mem[c] = w[c]
    BY Zenon DEF Executing
  <1>2. Schedule(prog, keep, x, w)
    BY <1>1 DEF Loaded
  <1>3. Runs(prog, keep, x, w, next, 0, regs', {})
    BY <1>2, PfpuStart
  <1>4. pc' \in Cycles
    BY SizesAssumption DEF Cycles
  <1> QED BY <1>1, <1>3, <1>4 DEF Executing

-----------------------------------------------------------------------------
(* Every vertex is correct *)

Phases == {"compile", "schedule", "finish", "refused", "ready", "run", "irq", "frame"}
Evaluating == phase \in {"ready", "run", "irq", "frame"}
EvalForm ==
  eval = [initial |-> eval.initial, allocation |-> eval.allocation, current |-> eval.current,
          perframe |-> eval.perframe, pervertex |-> eval.pervertex]
PhaseInv ==
  /\ phase \in Phases /\ unit \in {"frame", "vertex"} /\ EvalForm
  /\ phase \in {"compile", "refused", "frame"} => unit = "frame"

\* What the per-vertex program of this vertex starts from.
VertexFile == LoadRegisters(VertexRegs(ReadPfv("zoom")), vertex)

\* The per-vertex program: when it is scheduled, once it is, and while it runs.
VertexScheduling ==
  phase \in {"schedule", "finish"} /\ unit = "vertex" => Scheduling(VertexProgram, VertexKeep)
VertexScheduled == Evaluating /\ fits => Fitting(VertexProgram, VertexKeep, eval.pervertex)
VertexExecuting ==
  phase = "run" /\ unit = "vertex" /\ fits
    => Executing(VertexProgram, VertexKeep, eval.pervertex, VertexFile)
VertexDrawn == phase = "compile" \/ fits => drawn = due

VertexInv ==
  PhaseInv /\ VertexScheduling /\ VertexScheduled /\ VertexExecuting /\ VertexDrawn

LEMMA PhaseInit == Init => PhaseInv
  BY DEF Init, PhaseInv, Phases, EvalForm

LEMMA PhaseNext == PhaseInv /\ [Next]_vars => PhaseInv'
  <1> SUFFICES ASSUME PhaseInv, [Next]_vars PROVE PhaseInv'
    OBVIOUS
  <1> USE DEF PhaseInv, Phases, EvalForm
  <1>1. CASE CompileNext
    BY <1>1 DEF CompileNext
  <1>2. CASE StartSchedule
    BY <1>2 DEF StartSchedule, Goto
  <1>3. CASE ScheduleCycle
    BY <1>3 DEF ScheduleCycle
  <1>4. CASE ScheduleEnd
    BY <1>4 DEF ScheduleEnd, Goto
  <1>5. CASE FinishFrame
    BY <1>5 DEF FinishFrame
  <1>6. CASE FinishVertex
    BY <1>6 DEF FinishVertex, Goto
  <1>7. CASE EvalFrame
    BY <1>7 DEF EvalFrame, Goto
  <1>8. CASE Execute
    BY <1>8 DEF Execute
  <1>9. CASE NextVertex
    BY <1>9 DEF NextVertex
  <1>10. CASE FrameDone
    BY <1>10 DEF FrameDone, Goto
  <1>11. CASE EvalVertices
    BY <1>11 DEF EvalVertices, Goto
  <1>12. CASE VerticesDone
    BY <1>12 DEF VerticesDone, Goto
  <1>13. CASE UNCHANGED vars
    BY <1>13 DEF vars
  <1> QED BY <1>1, <1>2, <1>3, <1>4, <1>5, <1>6, <1>7, <1>8, <1>9, <1>10, <1>11, <1>12, <1>13
          DEF Next

LEMMA VertexFileRegs == DOMAIN VertexFile = Regs
  BY DEF VertexFile, LoadRegisters

\* Between the steps of the per-vertex program, the registers it was loaded with do not change.
LEMMA VertexFileStays ==
  ASSUME vertex' = vertex, eval' = eval, \A p \in Reserved : regs'[p] = regs[p]
  PROVE  VertexFile' = VertexFile
  <1>1. ReadPfv("zoom")' = ReadPfv("zoom")
    BY DEF ReadPfv
  <1> DEFINE z == ReadPfv("zoom")
  <1>2. z' = z
    BY <1>1
  <1> HIDE DEF z
  <1>3. VertexFile' = LoadRegisters(VertexRegs(z), vertex)' /\ VertexFile = LoadRegisters(VertexRegs(z), vertex)
    BY DEF VertexFile, z
  <1>4. VertexRegs(z)' = VertexRegs(z)
    BY <1>2 DEF VertexRegs
  <1> DEFINE V == VertexRegs(z)
  <1>5. V' = V
    BY <1>4
  <1>6. LoadRegisters(V, vertex)' = LoadRegisters(V, vertex)
    <2> HIDE DEF V
    <2> QED BY <1>5 DEF LoadRegisters
  <1> QED BY <1>3, <1>6

\* The vertex that leaves is the one that is due.
LEMMA VertexOutput ==
  ASSUME NEW file, DOMAIN file = Regs, NEW code,
         Executing(VertexProgram, VertexKeep, code, file), Output
  PROVE  (CHOOSE r \in Emerging : TRUE).value = Executed(VertexProgram, file)[RegOut]
  <1>1. PICK m \in DOMAIN VertexProgram :
          /\ VertexProgram[m].dest = RegOut
          /\ (CHOOSE r \in Emerging : TRUE).value = Result(VertexProgram, file, m)
    BY OutputStep, VertexSchedulable
  <1>2. /\ Len(VertexProgram) = 31 /\ DOMAIN VertexProgram = 1..31 /\ VertexProgram[31].dest = RegOut
    BY VertexInstructions
  <1>3. m = 31
    BY <1>1, <1>2, VertexWriters
  <1>4. CourseAt(VertexProgram, file, 31)
    <2>1. Len(VertexProgram) \in Nat /\ DOMAIN VertexProgram = 1..Len(VertexProgram) /\ 31 \in 0..31
      BY <1>2
    <2>2. \A k \in 0..Len(VertexProgram) : CourseAt(VertexProgram, file, k)
      BY <2>1, CourseRegisters, Zenon
    <2> QED BY <1>2, <2>1, <2>2
  <1>5. Course(VertexProgram, file)[31][RegOut] = Result(VertexProgram, file, 31)
    <2>1. 31 \in 1..31 /\ (31 + 1)..31 = {}
      OBVIOUS
    <2> QED BY <1>2, <1>4, <2>1 DEF CourseAt
  <1> QED BY <1>1, <1>2, <1>3, <1>5, ExecutedIsCourse

\* The vertices one after the other: the per-vertex program finds its registers as they were.
LEMMA VertexRestart ==
  ASSUME NEW code, Executing(VertexProgram, VertexKeep, code, VertexFile),
         regs' = [regs EXCEPT ![0] = <<"x", vertex + 1>>, ![1] = <<"y", vertex + 1>>],
         vertex' = vertex + 1, eval' = eval, mem' = mem, pc' = 0, pipe' = {}
  PROVE  Executing(VertexProgram, VertexKeep, code, VertexFile)'
  <1>1. /\ DOMAIN regs = Regs
        /\ \A p \in VertexKeep : (\A m \in DOMAIN VertexProgram : VertexProgram[m].dest = p => p = RegOut)
             => regs[p] = VertexFile[p]
    <2>1. Schedulable(VertexProgram, VertexKeep)
      BY VertexSchedulable
    <2> QED BY <2>1, KeptUntilEnd
  <1>2. ASSUME NEW p \in 3..13, NEW m \in DOMAIN VertexProgram, VertexProgram[m].dest = p PROVE p = RegOut
    <2>1. m \in 1..31
      BY VertexInstructions
    <2>2. p < RegCount
      BY SizesAssumption
    <2> QED BY <1>2, <2>1, <2>2, VertexPhysical
  <1>3. \A p \in 3..13 : regs[p] = VertexFile[p]
    BY <1>1, <1>2 DEF VertexKeep
  <1>4. {0, 1} \subseteq Regs /\ RegCount \in Nat /\ RegOut >= 14 /\ RegOut \in Int
    BY SizesAssumption DEF Regs, RegOut
  <1>5. ReadPfv("zoom")' = ReadPfv("zoom")
    BY DEF ReadPfv
  <1> DEFINE z == ReadPfv("zoom")
             V == VertexRegs(z)
  <1>6. V' = V
    BY <1>5 DEF VertexRegs
  <1>7. VertexFile = LoadRegisters(V, vertex) /\ VertexFile' = LoadRegisters(V, vertex)'
    BY DEF VertexFile
  <1> HIDE DEF V
  <1>8. VertexFile' = [r \in Regs |-> CASE r = 0 -> <<"x", vertex'>> [] r = 1 -> <<"y", vertex'>>
                          [] r \in Reserved \ {0, 1} -> regs'[r] [] OTHER -> V[r]]
    BY <1>6, <1>7 DEF LoadRegisters
  <1>9. VertexFile = [r \in Regs |-> CASE r = 0 -> <<"x", vertex>> [] r = 1 -> <<"y", vertex>>
                          [] r \in Reserved \ {0, 1} -> regs[r] [] OTHER -> V[r]]
    BY <1>7 DEF LoadRegisters
  <1> DEFINE F == VertexFile
  <1> PICK G : G = VertexFile'
    OBVIOUS
  <1>10. /\ regs'[0] = <<"x", vertex + 1>> /\ regs'[1] = <<"y", vertex + 1>> /\ DOMAIN regs' = Regs
         /\ \A p \in Regs : p # 0 /\ p # 1 => regs'[p] = regs[p]
    BY <1>1, <1>4
  <1>11. ASSUME NEW p \in VertexKeep PROVE regs'[p] = G[p]
    <2>0. p \in Regs
      BY SizesAssumption DEF VertexKeep, Reserved, Regs, RegOut
    <2>1. CASE p \in {0, 1}
      BY <1>8, <1>10, <2>0, <2>1
    <2>2. CASE p \in Reserved \ {0, 1}
      BY <1>8, <2>0, <2>2
    <2>3. CASE p \in 3..13
      <3>1. p \notin Reserved /\ p # 0 /\ p # 1
        BY <1>4, <2>3 DEF Reserved
      <3>2. F[p] = V[p] /\ G[p] = V[p]
        BY <1>8, <1>9, <2>0, <3>1 DEF Reserved
      <3> QED BY <1>3, <1>10, <2>0, <2>3, <3>1, <3>2
    <2> QED BY <2>1, <2>2, <2>3 DEF VertexKeep
  <1>12. Schedulable(VertexProgram, VertexKeep) /\ \A p \in VertexKeep : regs'[p] = G[p]
    BY <1>11, VertexSchedulable
  <1>13. Executing(VertexProgram, VertexKeep, code, VertexFile) /\ mem' = mem /\ pc' = 0 /\ pipe' = {}
         /\ DOMAIN regs' = Regs
    BY <1>10
  <1>14. Executing(VertexProgram, VertexKeep, code, G)'
    BY <1>12, <1>13, RestartExecuting
  <1> QED BY <1>14

LEMMA VertexInit == Init => VertexInv
  <1> SUFFICES ASSUME Init PROVE VertexInv
    OBVIOUS
  <1>1. PhaseInv
    BY PhaseInit
  <1>2. phase = "compile" /\ drawn = due
    BY DEF Init
  <1> QED BY <1>1, <1>2
          DEF VertexInv, VertexScheduling, VertexScheduled, VertexExecuting, VertexDrawn, Evaluating

LEMMA VertexSchedulingNext == VertexInv /\ [Next]_vars => VertexScheduling'
  <1> SUFFICES ASSUME VertexInv, [Next]_vars, phase' \in {"schedule", "finish"}, unit' = "vertex"
               PROVE  Scheduling(VertexProgram, VertexKeep)'
    BY DEF VertexScheduling
  <1> USE DEF VertexInv, PhaseInv
  <1>1. CASE CompileNext
    BY <1>1 DEF CompileNext
  <1>2. CASE StartSchedule
    BY <1>2 DEF StartSchedule, Goto
  <1>3. CASE ScheduleCycle \/ ScheduleEnd
    <2>1. phase = "schedule" /\ unit = "vertex"
      BY <1>3 DEF ScheduleCycle, ScheduleEnd, Goto
    <2> QED BY <1>3, <2>1, SchedulingStep, VertexSchedulable DEF VertexScheduling
  <1>4. CASE FinishFrame
    <2>1. /\ phase' = "schedule" /\ visn' = VertexProgram /\ cycle' = 0
          /\ sc' = SchedulerInit(3..13, Len(VertexProgram))
      BY <1>4 DEF FinishFrame
    <2>2. 3..13 \in SUBSET Regs
      BY SizesAssumption DEF Regs
    <2>3. Scheduled(VertexProgram, VertexKeep, SchedulerInit(3..13, Len(VertexProgram)), 0)
      BY <2>2, InitialSchedule, VertexSchedulable DEF VertexKeep
    <2> QED BY <2>1, <2>3 DEF Scheduling
  <1>5. CASE FinishVertex
    BY <1>5 DEF FinishVertex, Goto
  <1>6. CASE EvalFrame
    BY <1>6 DEF EvalFrame, Goto
  <1>7. CASE Execute
    BY <1>7 DEF Execute
  <1>8. CASE NextVertex
    BY <1>8 DEF NextVertex
  <1>9. CASE FrameDone
    BY <1>9 DEF FrameDone, Goto
  <1>10. CASE EvalVertices
    BY <1>10 DEF EvalVertices, Goto
  <1>11. CASE VerticesDone
    BY <1>11 DEF VerticesDone, Goto
  <1>12. CASE UNCHANGED vars
    BY <1>12 DEF vars, scheduling, history, VertexScheduling, Scheduling, Complete
  <1> QED BY <1>1, <1>3, <1>2, <1>4, <1>5, <1>6, <1>7, <1>8, <1>9, <1>10, <1>11, <1>12 DEF Next

LEMMA VertexScheduledNext == VertexInv /\ [Next]_vars => VertexScheduled'
  <1> SUFFICES ASSUME VertexInv, [Next]_vars, Evaluating', fits'
               PROVE  Fitting(VertexProgram, VertexKeep, eval'.pervertex)
    BY DEF VertexScheduled, Fitting, Loaded
  <1>1. CASE FinishVertex
    <2>1. phase = "finish" /\ unit = "vertex" /\ fits /\ sc.last_exit < PageSize
      BY <1>1 DEF FinishVertex, Goto
    <2>2. Scheduled(VertexProgram, VertexKeep, sc, cycle) /\ Complete(sc)
      BY <2>1 DEF VertexInv, VertexScheduling, Scheduling
    <2>3. eval'.pervertex = Words(sc)
      BY <1>1 DEF FinishVertex, VertexInv, PhaseInv, EvalForm
    <2>4. \E m \in DOMAIN VertexProgram : VertexProgram[m].dest = RegOut
      BY VertexInstructions
    <2>5. Ending(VertexProgram, sc.exits)
      <3>1. sc.exits \in [DOMAIN VertexProgram -> -1..(ProgSize - 1)]
        BY <2>2 DEF Scheduled, Schedule
      <3>2. ASSUME NEW m \in DOMAIN VertexProgram, NEW o \in DOMAIN VertexProgram,
                   VertexProgram[m].dest < RegCount, VertexProgram[o].dest = RegOut
            PROVE  sc.exits[m] <= sc.exits[o]
        <4>1. m \in 1..31 /\ o \in 1..31 /\ VertexProgram[m].dest = RegOut
          BY <3>2, VertexInstructions, VertexPhysical
        <4>2. m = o
          BY <3>2, <4>1, VertexWriters
        <4>3. sc.exits[m] \in Int
          BY <3>1, SizesAssumption
        <4> QED BY <4>2, <4>3
      <3> QED BY <3>2 DEF Ending
    <2> QED BY <2>1, <2>2, <2>3, <2>4, <2>5, FinishedFitting, VertexSchedulable
  <1>2. ASSUME Evaluating, fits' = fits, eval'.pervertex = eval.pervertex
        PROVE  Fitting(VertexProgram, VertexKeep, eval'.pervertex)
    BY <1>2 DEF VertexInv, VertexScheduled
  <1> USE DEF Evaluating
  <1>3. CASE CompileNext
    BY <1>3 DEF CompileNext
  <1>4. CASE StartSchedule
    BY <1>4 DEF StartSchedule, Goto
  <1>5. CASE ScheduleCycle
    BY <1>5 DEF ScheduleCycle
  <1>6. CASE ScheduleEnd
    BY <1>6 DEF ScheduleEnd, Goto
  <1>7. CASE FinishFrame
    BY <1>7 DEF FinishFrame
  <1>8. CASE EvalFrame
    BY <1>8, <1>2 DEF EvalFrame, Goto, VertexInv, PhaseInv, EvalForm
  <1>9. CASE Execute
    BY <1>9, <1>2 DEF Execute, history
  <1>10. CASE NextVertex
    BY <1>10, <1>2 DEF NextVertex
  <1>11. CASE FrameDone
    BY <1>11, <1>2 DEF FrameDone, Goto, history, VertexInv, PhaseInv, EvalForm
  <1>12. CASE EvalVertices
    BY <1>12, <1>2 DEF EvalVertices, Goto, history
  <1>13. CASE VerticesDone
    BY <1>13, <1>2 DEF VerticesDone, Goto, history
  <1>14. CASE UNCHANGED vars
    BY <1>14, <1>2 DEF vars, history
  <1> QED BY <1>1, <1>3, <1>4, <1>5, <1>6, <1>7, <1>8, <1>9, <1>10, <1>11, <1>12, <1>13, <1>14 DEF Next

LEMMA VertexExecutingNext == VertexInv /\ [Next]_vars => VertexExecuting'
  <1> SUFFICES ASSUME VertexInv, [Next]_vars, phase' = "run", unit' = "vertex", fits'
               PROVE  Executing(VertexProgram, VertexKeep, eval.pervertex, VertexFile)'
    BY DEF VertexExecuting
  <1>1. CASE EvalVertices
    <2>1. phase = "frame" /\ fits /\ eval' = eval
          /\ StartPfpu(eval.pervertex, VertexRegs(ReadPfv("zoom")))
      BY <1>1 DEF EvalVertices, Goto, history
    <2>2. PICK code : code = eval.pervertex
      OBVIOUS
    <2>3. /\ Len(code) <= PageSize /\ \E x, w : Loaded(VertexProgram, VertexKeep, code, x, w)
          /\ eval'.pervertex = code
      BY <2>1, <2>2 DEF VertexInv, VertexScheduled, Evaluating, Fitting
    <2>4. PICK x, w : Loaded(VertexProgram, VertexKeep, code, x, w)
      BY <2>3
    <2> DEFINE z == ReadPfv("zoom")
               V == VertexRegs(z)
    <2>5. z' = z
      BY <2>1 DEF ReadPfv
    <2>6. V' = V
      BY <2>5 DEF VertexRegs
    <2>7. VertexFile' = LoadRegisters(V, vertex)' /\ StartPfpu(code, V)
      BY <2>1, <2>2 DEF VertexFile
    <2> HIDE DEF V
    <2>8. /\ regs' = [r \in Regs |-> CASE r = 0 -> <<"x", 0>> [] r = 1 -> <<"y", 0>>
                        [] r \in Reserved \ {0, 1} -> regs[r] [] OTHER -> V[r]]
          /\ VertexFile' = [r \in Regs |-> CASE r = 0 -> <<"x", 0>> [] r = 1 -> <<"y", 0>>
                        [] r \in Reserved \ {0, 1} -> regs'[r] [] OTHER -> V[r]]
      BY <2>6, <2>7 DEF StartPfpu, LoadRegisters
    <2>9. PICK F : F = VertexFile'
      OBVIOUS
    <2>10. VertexKeep \subseteq Regs
      BY VertexSchedulable DEF Schedulable
    <2>11. \A p \in Regs : F[p] = regs'[p]
      BY <2>8, <2>9
    <2>12. Schedulable(VertexProgram, VertexKeep) /\ \A p \in VertexKeep : F[p] = regs'[p]
      BY <2>10, <2>11, VertexSchedulable
    <2>13. Executing(VertexProgram, VertexKeep, code, F)'
      BY <2>3, <2>4, <2>7, <2>12, StartExecuting
    <2> QED BY <2>3, <2>9, <2>13
  <1>2. CASE Execute
    <2>1. phase = "run" /\ unit = "vertex" /\ fits /\ eval' = eval /\ vertex' = vertex
      BY <1>2 DEF Execute, history
    <2>2. PICK F, code : F = VertexFile /\ code = eval.pervertex
      OBVIOUS
    <2>3. Schedulable(VertexProgram, VertexKeep) /\ DOMAIN F = Regs
          /\ Executing(VertexProgram, VertexKeep, code, F)
      BY <2>1, <2>2, VertexSchedulable, VertexFileRegs DEF VertexInv, VertexExecuting
    <2>4. Executing(VertexProgram, VertexKeep, code, F)' /\ \A p \in Reserved : regs'[p] = regs[p]
      BY <1>2, <2>3, ExecuteStep
    <2>5. F = VertexFile' /\ code = eval'.pervertex
      BY <2>1, <2>2, <2>4, VertexFileStays
    <2> QED BY <2>4, <2>5
  <1>3. CASE NextVertex
    <2>1. phase = "run" /\ unit = "vertex" /\ fits /\ eval' = eval /\ mem' = mem /\ pc' = 0 /\ pipe' = {}
          /\ vertex' = vertex + 1
          /\ regs' = [regs EXCEPT ![0] = <<"x", vertex + 1>>, ![1] = <<"y", vertex + 1>>]
      BY <1>3 DEF NextVertex
    <2>2. PICK code : code = eval.pervertex
      OBVIOUS
    <2>3. Executing(VertexProgram, VertexKeep, code, VertexFile) /\ code = eval'.pervertex
      BY <2>1, <2>2 DEF VertexInv, VertexExecuting
    <2>4. Executing(VertexProgram, VertexKeep, code, VertexFile)'
      BY <2>1, <2>3, VertexRestart
    <2> QED BY <2>3, <2>4
  <1>4. CASE CompileNext
    BY <1>4 DEF CompileNext
  <1>5. CASE StartSchedule
    BY <1>5 DEF StartSchedule, Goto
  <1>6. CASE ScheduleCycle
    BY <1>6 DEF ScheduleCycle
  <1>7. CASE ScheduleEnd
    BY <1>7 DEF ScheduleEnd, Goto
  <1>8. CASE FinishFrame
    BY <1>8 DEF FinishFrame
  <1>9. CASE FinishVertex
    BY <1>9 DEF FinishVertex, Goto
  <1>10. CASE EvalFrame
    BY <1>10 DEF EvalFrame
  <1>11. CASE FrameDone
    BY <1>11 DEF FrameDone, Goto
  <1>12. CASE VerticesDone
    BY <1>12 DEF VerticesDone, Goto
  <1>13. CASE UNCHANGED vars
    <2>1. /\ phase = "run" /\ unit = "vertex" /\ fits /\ eval' = eval /\ vertex' = vertex
          /\ regs' = regs /\ mem' = mem /\ pc' = pc /\ pipe' = pipe
      BY <1>13 DEF vars, core, history
    <2>2. PICK F, code : F = VertexFile /\ code = eval.pervertex
      OBVIOUS
    <2>3. Executing(VertexProgram, VertexKeep, code, F)
      BY <2>1, <2>2 DEF VertexInv, VertexExecuting
    <2>4. Executing(VertexProgram, VertexKeep, code, F)'
      BY <2>1, <2>3 DEF Executing
    <2>5. F = VertexFile' /\ code = eval'.pervertex
      BY <2>1, <2>2, VertexFileStays
    <2> QED BY <2>4, <2>5
  <1> QED BY <1>1, <1>2, <1>3, <1>4, <1>5, <1>6, <1>7, <1>8, <1>9, <1>10, <1>11, <1>12, <1>13 DEF Next

LEMMA VertexDrawnNext == VertexInv /\ [Next]_vars => VertexDrawn'
  <1> SUFFICES ASSUME VertexInv, [Next]_vars, phase' = "compile" \/ fits' PROVE drawn' = due'
    BY DEF VertexDrawn
  <1>1. ASSUME phase = "compile" \/ fits, UNCHANGED <<drawn, due>> PROVE drawn' = due'
    BY <1>1 DEF VertexInv, VertexDrawn
  <1>2. CASE CompileNext
    BY <1>1, <1>2 DEF CompileNext, history
  <1>3. CASE StartSchedule
    BY <1>1, <1>3 DEF StartSchedule, Goto
  <1>4. CASE ScheduleCycle
    BY <1>1, <1>4 DEF ScheduleCycle
  <1>5. CASE ScheduleEnd
    BY <1>1, <1>5 DEF ScheduleEnd, history, Goto
  <1>6. CASE FinishFrame
    BY <1>1, <1>6 DEF FinishFrame, scheduling
  <1>7. CASE FinishVertex
    BY <1>1, <1>7 DEF FinishVertex, Goto
  <1>8. CASE EvalFrame
    BY <1>1, <1>8 DEF EvalFrame, Goto
  <1>9. CASE Execute
    BY <1>1, <1>9 DEF Execute, history
  <1>10. CASE NextVertex
    <2>1. phase = "run" /\ Output /\ fits
      BY <1>10 DEF NextVertex
    <2>2. CASE unit = "vertex"
      <3>1. PICK F, code : F = VertexFile /\ code = eval.pervertex
        OBVIOUS
      <3>2. DOMAIN F = Regs /\ Executing(VertexProgram, VertexKeep, code, F)
        BY <2>1, <2>2, <3>1, VertexFileRegs DEF VertexInv, VertexExecuting
      <3>3. (CHOOSE r \in Emerging : TRUE).value = Executed(VertexProgram, F)[RegOut]
        BY <2>1, <3>2, VertexOutput
      <3>4. drawn' = (CHOOSE r \in Emerging : TRUE).value
        BY <1>10, <2>2 DEF NextVertex
      <3>5. due' = Executed(VertexProgram, F)[RegOut]
        BY <1>10, <2>2, <3>1 DEF NextVertex, VertexFile
      <3> QED BY <3>3, <3>4, <3>5
    <2>3. CASE unit # "vertex"
      BY <1>1, <1>10, <2>1, <2>3 DEF NextVertex
    <2> QED BY <2>2, <2>3
  <1>11. CASE FrameDone
    BY <1>1, <1>11 DEF FrameDone, Goto, history
  <1>12. CASE EvalVertices
    BY <1>1, <1>12 DEF EvalVertices, Goto, history
  <1>13. CASE VerticesDone
    BY <1>1, <1>13 DEF VerticesDone, Goto, history
  <1>14. CASE UNCHANGED vars
    BY <1>1, <1>14 DEF vars, history
  <1> QED BY <1>2, <1>3, <1>4, <1>5, <1>6, <1>7, <1>8, <1>9, <1>10, <1>11, <1>12, <1>13, <1>14 DEF Next

LEMMA VertexNext == VertexInv /\ [Next]_vars => VertexInv'
  <1> SUFFICES ASSUME VertexInv, [Next]_vars PROVE VertexInv'
    OBVIOUS
  <1>1. PhaseInv'
    BY PhaseNext DEF VertexInv
  <1> QED BY <1>1, VertexSchedulingNext, VertexScheduledNext, VertexExecutingNext, VertexDrawnNext
          DEF VertexInv

\* Every vertex that the PFPU writes to memory (eval.c's generate_pervertex, as scheduler.c
\* orders it) is the one that its instructions give one after the other, whatever the preset,
\* the mesh and the size of the PFPU, as long as no program met a limit of it.
THEOREM VertexIsCorrect == Spec => []VertexCorrect
  <1>1. VertexInv => VertexCorrect
    BY DEF VertexInv, VertexDrawn, VertexCorrect
  <1> QED BY <1>1, VertexInit, VertexNext, PTL DEF Spec

-----------------------------------------------------------------------------
(* The compiler: what its parts return *)

Outcome == [cs : CompilerStates, reg : Int]

WithTerminal(s, r, t) ==
  [n_vregs |-> s.n_vregs, terminals |-> [s.terminals EXCEPT ![r] = t], prog |-> s.prog]
WithIsn(s, i) == [n_vregs |-> s.n_vregs, terminals |-> s.terminals, prog |-> Append(s.prog, i)]
WithVregs(s, n) == [n_vregs |-> s.n_vregs + n, terminals |-> s.terminals, prog |-> s.prog]

LEMMA TerminalUpdate ==
  ASSUME NEW s \in CompilerStates, NEW r \in Regs, NEW t \in Terminals
  PROVE  [s EXCEPT !.terminals[r] = t] = WithTerminal(s, r, t) /\ WithTerminal(s, r, t) \in CompilerStates
  <1>1. [s EXCEPT !.terminals[r] = t] = WithTerminal(s, r, t)
    BY DEF CompilerStates, WithTerminal
  <1>2. WithTerminal(s, r, t) \in CompilerStates
    BY DEF CompilerStates, WithTerminal
  <1> QED BY <1>1, <1>2

LEMMA IsnUpdate ==
  ASSUME NEW s \in CompilerStates, NEW i \in Isns
  PROVE  [s EXCEPT !.prog = Append(@, i)] = WithIsn(s, i) /\ WithIsn(s, i) \in CompilerStates
  <1> DEFINE p == Append(s.prog, i)
  <1>1. p \in Seq(Isns)
    BY DEF CompilerStates
  <1> HIDE DEF p
  <1>2. [s EXCEPT !.prog = p] = [n_vregs |-> s.n_vregs, terminals |-> s.terminals, prog |-> p]
    BY DEF CompilerStates
  <1>3. [n_vregs |-> s.n_vregs, terminals |-> s.terminals, prog |-> p] \in CompilerStates
    BY <1>1 DEF CompilerStates
  <1> QED BY <1>2, <1>3 DEF p, WithIsn

LEMMA VregsUpdate ==
  ASSUME NEW s \in CompilerStates
  PROVE  /\ [s EXCEPT !.n_vregs = @ + 1] = WithVregs(s, 1) /\ WithVregs(s, 1) \in CompilerStates
         /\ [s EXCEPT !.n_vregs = @ + 2] = WithVregs(s, 2) /\ WithVregs(s, 2) \in CompilerStates
  <1>1. [s EXCEPT !.n_vregs = @ + 1] = WithVregs(s, 1) /\ WithVregs(s, 1) \in CompilerStates
    BY DEF CompilerStates, WithVregs
  <1>2. [s EXCEPT !.n_vregs = @ + 2] = WithVregs(s, 2) /\ WithVregs(s, 2) \in CompilerStates
    BY DEF CompilerStates, WithVregs
  <1> QED BY <1>1, <1>2

\* A terminal gets the register it has or a free one that is not reserved.
LEMMA Terminal ==
  ASSUME NEW s \in CompilerStates, NEW t \in Terminals, NEW res, res = AddTerminal(s, t)
  PROVE  \/ /\ res = [cs |-> s, reg |-> res.reg] /\ res.reg \in Regs /\ s.terminals[res.reg] = t
         \/ /\ res = [cs |-> WithTerminal(s, res.reg, t), reg |-> res.reg]
            /\ res.reg \in Regs \ Reserved /\ s.terminals[res.reg] = Unused
            /\ \A r \in Regs : s.terminals[r] # t
         \/ /\ res = [cs |-> s, reg |-> -1]
            /\ \A r \in Regs \ Reserved : s.terminals[r] # Unused
  <1> DEFINE old == {r \in Regs : s.terminals[r] = t}
             free == {r \in Regs \ Reserved : s.terminals[r] = Unused}
  <1>1. res = IF old # {} THEN [cs |-> s, reg |-> Min(old)]
              ELSE IF free = {} THEN [cs |-> s, reg |-> -1]
              ELSE [cs |-> [s EXCEPT !.terminals[Min(free)] = t], reg |-> Min(free)]
    BY DEF AddTerminal
  <1>2. old \in SUBSET Nat /\ free \in SUBSET Nat /\ old \subseteq Regs /\ free \subseteq Regs
    BY SizesAssumption DEF Regs
  <1>3. CASE old # {}
    <2>1. Min(old) \in old
      BY <1>2, <1>3, MinOf
    <2> QED BY <1>1, <1>3, <2>1
  <1>4. CASE old = {} /\ free = {}
    BY <1>1, <1>4
  <1>5. CASE old = {} /\ free # {}
    <2> DEFINE m == Min(free)
    <2>1. m \in free
      BY <1>2, <1>5, MinOf
    <2> HIDE DEF m
    <2>2. [s EXCEPT !.terminals[m] = t] = WithTerminal(s, m, t)
      BY <2>1, TerminalUpdate
    <2>3. res = [cs |-> WithTerminal(s, m, t), reg |-> m]
      BY <1>1, <1>5, <2>2 DEF m
    <2> QED BY <1>5, <2>1, <2>3
  <1> QED BY <1>3, <1>4, <1>5

LEMMA TerminalTyped ==
  ASSUME NEW s \in CompilerStates, NEW t \in Terminals
  PROVE  AddTerminal(s, t) \in Outcome
  <1> DEFINE res == AddTerminal(s, t)
  <1> HIDE DEF res
  <1>1. Regs \subseteq Int
    BY DEF Regs
  <1> USE DEF Outcome
  <1>2. CASE res = [cs |-> s, reg |-> res.reg] /\ res.reg \in Regs
    BY <1>1, <1>2 DEF res
  <1>3. CASE /\ res = [cs |-> WithTerminal(s, res.reg, t), reg |-> res.reg] /\ res.reg \in Regs \ Reserved
    <2>1. WithTerminal(s, res.reg, t) \in CompilerStates
      BY <1>3, TerminalUpdate
    <2> QED BY <1>1, <1>3, <2>1 DEF res
  <1>4. CASE res = [cs |-> s, reg |-> -1]
    BY <1>4 DEF res
  <1> QED BY <1>2, <1>3, <1>4, Terminal DEF res

\* An instruction is appended, if there is room.
Added(s, op, a, b, dest) ==
  /\ Isn(op, a, b, dest) \in Isns
  /\ AddIsn(s, op, a, b, dest) =
       IF Len(s.prog) >= ProgSize THEN [cs |-> s, reg |-> -1]
       ELSE [cs |-> WithIsn(s, Isn(op, a, b, dest)), reg |-> dest]
  /\ AddIsn(s, op, a, b, dest) \in Outcome

LEMMA IsnAdded ==
  ASSUME NEW s \in CompilerStates, NEW op \in DOMAIN Latency, NEW a \in Int, NEW b \in Int,
         NEW dest \in Int
  PROVE  Added(s, op, a, b, dest)
  <1>1. Isn(op, a, b, dest) \in Isns
    BY DEF Isn, Isns
  <1> DEFINE i == Isn(op, a, b, dest)
  <1>2. [s EXCEPT !.prog = Append(@, i)] = WithIsn(s, i) /\ WithIsn(s, i) \in CompilerStates
    <2> HIDE DEF i
    <2> QED BY <1>1, IsnUpdate DEF i
  <1>3. AddIsn(s, op, a, b, dest) =
              IF Len(s.prog) >= ProgSize THEN [cs |-> s, reg |-> -1]
              ELSE [cs |-> [s EXCEPT !.prog = Append(@, i)], reg |-> dest]
    BY DEF AddIsn, Isn
  <1>4. AddIsn(s, op, a, b, dest) =
              IF Len(s.prog) >= ProgSize THEN [cs |-> s, reg |-> -1]
              ELSE [cs |-> WithIsn(s, i), reg |-> dest]
    BY <1>2, <1>3
  <1> QED BY <1>1, <1>2, <1>4 DEF Outcome, Added

LEMMA LeafTyped ==
  ASSUME NEW s \in CompilerStates, NEW t \in Terminals, NEW reg \in Int
  PROVE  Leaf(s, t, reg) \in Outcome
  <1> DEFINE r == AddTerminal(s, t)
  <1>1. r \in Outcome
    BY TerminalTyped
  <1> HIDE DEF r
  <1>2. r.cs \in CompilerStates /\ r.reg \in Int /\ "copy" \in DOMAIN Latency
    BY <1>1 DEF Outcome, Latency
  <1>3. AddIsn(r.cs, "copy", r.reg, 0, reg) \in Outcome
    <2>1. Added(r.cs, "copy", r.reg, 0, reg)
      BY <1>2, IsnAdded
    <2> QED BY <2>1 DEF Added
  <1> QED BY <1>1, <1>3 DEF Leaf, r

LEMMA TrigTyped ==
  ASSUME NEW s \in CompilerStates, NEW op \in DOMAIN Latency, NEW a \in Int, NEW reg \in Int
  PROVE  Trig(s, op, a, reg) \in Outcome
  <1> DEFINE k == AddTerminal(s, <<"const", Conv>>)
             v == k.cs.n_vregs
             i1 == AddIsn([k.cs EXCEPT !.n_vregs = @ + 2], "fmul", k.reg, a, v)
             i2 == AddIsn(i1.cs, "f2i", v, 0, v + 1)
             i3 == AddIsn(i2.cs, op, v + 1, 0, reg)
  <1>1. <<"const", Conv>> \in Terminals /\ {"fmul", "f2i"} \subseteq DOMAIN Latency
    <2>1. Conv \in Literals
      BY DEF Literals
    <2>2. <<"const", Conv>> \in Terminals
      <3> HIDE DEF Conv, Literals
      <3> QED BY <2>1 DEF Terminals
    <2>3. {"fmul", "f2i"} \subseteq DOMAIN Latency
      BY DEF Latency
    <2> QED BY <2>2, <2>3
  <1>2. k \in Outcome
    BY <1>1, TerminalTyped
  <1>3. Trig(s, op, a, reg) = IF k.reg = -1 THEN k
                              ELSE IF i1.reg = -1 THEN i1 ELSE IF i2.reg = -1 THEN i2 ELSE i3
    BY DEF Trig
  <1> HIDE DEF k
  <1>4. k.cs \in CompilerStates /\ k.reg \in Int
    BY <1>2 DEF Outcome
  <1>5. v \in Int /\ v + 1 \in Int
    BY <1>4 DEF CompilerStates
  <1>6. [k.cs EXCEPT !.n_vregs = @ + 2] \in CompilerStates
    BY <1>4, VregsUpdate
  <1> HIDE DEF v
  <1>7. i1 \in Outcome
    <2> DEFINE l == [k.cs EXCEPT !.n_vregs = @ + 2]
    <2>1. l \in CompilerStates
      BY <1>6
    <2> HIDE DEF l
    <2>2. Added(l, "fmul", k.reg, a, v)
      BY <1>1, <1>4, <1>5, <2>1, IsnAdded
    <2> QED BY <2>2 DEF Added, l
  <1> HIDE DEF i1
  <1>8. i1.cs \in CompilerStates
    BY <1>7 DEF Outcome
  <1>9. i2 \in Outcome
    <2>1. Added(i1.cs, "f2i", v, 0, v + 1)
      BY <1>1, <1>5, <1>8, IsnAdded
    <2> QED BY <2>1 DEF Added
  <1> HIDE DEF i2
  <1>10. i2.cs \in CompilerStates
    BY <1>9 DEF Outcome
  <1>11. i3 \in Outcome
    <2>1. Added(i2.cs, op, v + 1, 0, reg)
      BY <1>5, <1>10, IsnAdded
    <2> QED BY <2>1 DEF Added
  <1> HIDE DEF i3
  <1> QED BY <1>2, <1>3, <1>7, <1>9, <1>11

-----------------------------------------------------------------------------
(* The compiler is well defined *)

Points == CompilerStates \X Nodes \X Int

\* int_compile, f in place of its recursive calls.
FirstArgument(f, s, node) == f[<<s, node.args[1], -1>>]
SecondArgument(f, s, node) ==
  LET a == FirstArgument(f, s, node)
  IN  IF Len(node.args) = 2 THEN f[<<a.cs, node.args[2], -1>>] ELSE [cs |-> a.cs, reg |-> 0]
Apply2(s, node, reg, a, b) ==
  LET t == IF reg < 0 THEN [b.cs EXCEPT !.n_vregs = @ + 1] ELSE b.cs
      dest == IF reg < 0 THEN b.cs.n_vregs ELSE reg
  IN  IF a.reg = -1 THEN a
      ELSE IF b.reg = -1 THEN b
      ELSE IF node.label \notin DOMAIN Opcode THEN [cs |-> t, reg |-> -1]
      ELSE IF node.label \in Trigonometric THEN Trig(t, Opcode[node.label], a.reg, dest)
      ELSE AddIsn(t, Opcode[node.label], a.reg, b.reg, dest)
Body(f, s, node, reg) ==
  IF node.label = "" THEN Leaf(s, <<"const", node.constant>>, reg)
  ELSE IF node.args = <<>> THEN Leaf(s, <<"var", node.label>>, reg)
  ELSE Apply2(s, node, reg, FirstArgument(f, s, node), SecondArgument(f, s, node))

LEMMA CompileIsBody ==
  Compile = CHOOSE f : f = [x \in Points |-> Body(f, x[1], x[2], x[3])]
  BY DEF Compile, Points, Body, FirstArgument, SecondArgument, Apply2

\* f is as it should be on nodes less deep than d.
Shallow(d) == {x \in Points : Depth[x[2]] < d}
Compiles(f, d) ==
  \A x \in Shallow(d) : f[x] \in Outcome /\ f[x] = Body(f, x[1], x[2], x[3])

NodeForm(node) ==
  /\ Depth[node] \in 0..MaxDepth
  /\ node.label = "" => <<"const", node.constant>> \in Terminals
  /\ node.label # "" /\ node.args = <<>> => <<"var", node.label>> \in Terminals
  /\ node.label # "" /\ node.args # <<>> =>
       /\ node.args[1] \in Nodes /\ Depth[node.args[1]] < Depth[node]
       /\ Len(node.args) = 2 => node.args[2] \in Nodes /\ Depth[node.args[2]] < Depth[node]

LEMMA NodeFacts ==
  ASSUME NEW node \in Nodes
  PROVE  NodeForm(node)
  <1>0. node \in DOMAIN Depth
    BY DEF Nodes
  <1>1. Depth[node] \in 0..MaxDepth
    BY <1>0, NodesAssumption
  <1>2. ASSUME node.label = "" PROVE <<"const", node.constant>> \in Terminals
    <2> DEFINE x == node.constant
    <2>1. x \in Literals
      BY <1>2 DEF Literals
    <2> HIDE DEF x, Literals
    <2>2. <<"const", x>> \in Terminals
      BY <2>1 DEF Terminals
    <2> QED BY <2>2 DEF x
  <1>3. ASSUME node.label # "", node.args = <<>> PROVE <<"var", node.label>> \in Terminals
    <2> DEFINE x == node.label
    <2>1. x \in Names
      BY <1>0, <1>3, NodesAssumption
    <2> HIDE DEF x, Names
    <2>2. <<"var", x>> \in Terminals
      BY <2>1 DEF Terminals
    <2> QED BY <2>2 DEF x
  <1>4. ASSUME node.label # "", node.args # <<>>
        PROVE  /\ node.args[1] \in Nodes /\ Depth[node.args[1]] < Depth[node]
               /\ Len(node.args) = 2 => node.args[2] \in Nodes /\ Depth[node.args[2]] < Depth[node]
    <2> DEFINE g == node.args
    <2>1. g \in Seq(Nodes) /\ Len(g) \in 0..2 /\ \A i \in DOMAIN g : Depth[g[i]] < Depth[node]
      BY <1>0, <1>4, NodesAssumption DEF Nodes
    <2>2. g # <<>>
      BY <1>4
    <2> HIDE DEF g
    <2>3. Len(g) # 0 /\ DOMAIN g = 1..Len(g) /\ Len(g) \in Nat
      BY <2>1, <2>2
    <2>4. 1 \in DOMAIN g /\ (Len(g) = 2 => 2 \in DOMAIN g)
      BY <2>3
    <2>5. g[1] \in Nodes /\ (Len(g) = 2 => g[2] \in Nodes)
      BY <2>1, <2>4
    <2> QED BY <2>1, <2>4, <2>5 DEF g
  <1> QED BY <1>1, <1>2, <1>3, <1>4 DEF NodeForm

LEMMA NodeDepth == \A node \in Nodes : Depth[node] \in Nat /\ Depth[node] <= MaxDepth
  <1>1. \A node \in Nodes : Depth[node] \in 0..MaxDepth
    BY NodeFacts DEF NodeForm
  <1> QED BY <1>1, SizesAssumption

LEMMA Opcodes2 == \A label \in DOMAIN Opcode : Opcode[label] \in DOMAIN Latency
  BY DEF Opcode, Latency, Arithmetic, Trigonometric, Comparisons

LEMMA ApplyTyped ==
  ASSUME NEW s \in CompilerStates, NEW node, NEW reg \in Int, NEW a \in Outcome, NEW b \in Outcome
  PROVE  Apply2(s, node, reg, a, b) \in Outcome
  <1> DEFINE t == IF reg < 0 THEN [b.cs EXCEPT !.n_vregs = @ + 1] ELSE b.cs
             dest == IF reg < 0 THEN b.cs.n_vregs ELSE reg
             op == Opcode[node.label]
  <1>1. b.cs \in CompilerStates /\ a.reg \in Int /\ b.reg \in Int
    BY DEF Outcome
  <1>2. t \in CompilerStates
    BY <1>1, VregsUpdate
  <1>3. dest \in Int
    BY <1>1 DEF CompilerStates
  <1>4. Apply2(s, node, reg, a, b) =
          IF a.reg = -1 THEN a
          ELSE IF b.reg = -1 THEN b
          ELSE IF node.label \notin DOMAIN Opcode THEN [cs |-> t, reg |-> -1]
          ELSE IF node.label \in Trigonometric THEN Trig(t, op, a.reg, dest)
          ELSE AddIsn(t, op, a.reg, b.reg, dest)
    BY DEF Apply2
  <1> HIDE DEF t, dest, op
  <1>5. [cs |-> t, reg |-> -1] \in Outcome
    BY <1>2 DEF Outcome
  <1>6. ASSUME node.label \in DOMAIN Opcode
        PROVE  Trig(t, op, a.reg, dest) \in Outcome /\ AddIsn(t, op, a.reg, b.reg, dest) \in Outcome
    <2>1. op \in DOMAIN Latency
      BY <1>6, Opcodes2 DEF op
    <2>2. Added(t, op, a.reg, b.reg, dest)
      BY <1>1, <1>2, <1>3, <2>1, IsnAdded
    <2> QED BY <1>1, <1>2, <1>3, <2>1, <2>2, TrigTyped DEF Added
  <1> QED BY <1>4, <1>5, <1>6

\* The recursive calls are for nodes less deep.
LEMMA BodyShallow ==
  ASSUME NEW f, NEW g, NEW d \in Nat, NEW s \in CompilerStates, NEW node \in Nodes, NEW reg \in Int,
         Depth[node] <= d, \A x \in Shallow(d) : f[x] \in Outcome /\ g[x] = f[x]
  PROVE  Body(f, s, node, reg) \in Outcome /\ Body(g, s, node, reg) = Body(f, s, node, reg)
  <1>0. NodeForm(node)
    BY NodeFacts
  <1>1. CASE node.label = "" \/ node.args = <<>>
    BY <1>1, <1>0, LeafTyped DEF Body, NodeForm
  <1>2. CASE node.label # "" /\ node.args # <<>>
    <2> DEFINE x == <<s, node.args[1], -1>>
               a == FirstArgument(f, s, node)
               y == <<a.cs, node.args[2], -1>>
    <2>1. x \in Shallow(d)
      <3>1. node.args[1] \in Nodes /\ Depth[node.args[1]] < Depth[node]
        BY <1>2, NodeFacts DEF NodeForm
      <3>2. Depth[node.args[1]] \in Int /\ Depth[node] \in Int
        BY <3>1, NodeDepth
      <3>3. Depth[node.args[1]] < d
        BY <3>1, <3>2
      <3> DEFINE n == node.args[1]
      <3> HIDE DEF n
      <3>4. <<s, n, -1>> \in Points
        BY <3>1 DEF Points, n
      <3> QED BY <3>3, <3>4 DEF Shallow, n
    <2>2. a \in Outcome /\ FirstArgument(g, s, node) = a
      BY <2>1 DEF FirstArgument
    <2> HIDE DEF a
    <2>3. a.cs \in CompilerStates
      BY <2>2 DEF Outcome
    <2>4. SecondArgument(f, s, node) \in Outcome /\ SecondArgument(g, s, node) = SecondArgument(f, s, node)
      <3>1. CASE Len(node.args) = 2
        <4>1. y \in Shallow(d)
          <5>1. node.args[2] \in Nodes /\ Depth[node.args[2]] < Depth[node]
            BY <1>2, <3>1, NodeFacts DEF NodeForm
          <5>2. Depth[node.args[2]] \in Int /\ Depth[node] \in Int
            BY <5>1, NodeDepth
          <5>3. Depth[node.args[2]] < d
            BY <5>1, <5>2
          <5> DEFINE n == node.args[2]
          <5> HIDE DEF n
          <5>4. <<a.cs, n, -1>> \in Points
            BY <2>3, <5>1 DEF Points, n
          <5> QED BY <5>3, <5>4 DEF Shallow, n
        <4>2. f[y] \in Outcome /\ g[y] = f[y]
          BY <4>1
        <4> QED BY <2>2, <3>1, <4>2 DEF SecondArgument, a
      <3>2. CASE Len(node.args) # 2
        BY <2>2, <2>3, <3>2 DEF SecondArgument, a, Outcome
      <3> QED BY <3>1, <3>2
    <2>5. Body(f, s, node, reg) = Apply2(s, node, reg, a, SecondArgument(f, s, node))
      BY <1>2 DEF Body, a
    <2>6. Body(g, s, node, reg) = Apply2(s, node, reg, a, SecondArgument(f, s, node))
      BY <1>2, <2>2, <2>4 DEF Body
    <2> DEFINE b == SecondArgument(f, s, node)
    <2> HIDE DEF b
    <2>7. b \in Outcome
      BY <2>4 DEF b
    <2>8. Apply2(s, node, reg, a, b) \in Outcome
      BY <2>2, <2>7, ApplyTyped
    <2> QED BY <2>5, <2>6, <2>8 DEF b
  <1> QED BY <1>1, <1>2

LEMMA CompilesNext ==
  ASSUME NEW d \in Nat, NEW f, f = [x \in Shallow(d) |-> f[x]], Compiles(f, d)
  PROVE  \E g : g = [x \in Shallow(d + 1) |-> g[x]] /\ Compiles(g, d + 1)
  <1> DEFINE g == [x \in Shallow(d + 1) |->
                     IF x \in Shallow(d) THEN f[x] ELSE Body(f, x[1], x[2], x[3])]
  <1>1. Shallow(d) \subseteq Shallow(d + 1)
    <2> SUFFICES ASSUME NEW x \in Shallow(d) PROVE x \in Shallow(d + 1)
      OBVIOUS
    <2>1. x \in Points /\ Depth[x[2]] < d /\ x[2] \in Nodes
      BY DEF Shallow, Points
    <2>2. Depth[x[2]] \in Int
      BY <2>1, NodeDepth
    <2> QED BY <2>1, <2>2 DEF Shallow
  <1>2. /\ \A x \in Shallow(d) : g[x] = f[x]
        /\ \A x \in Shallow(d + 1) \ Shallow(d) : g[x] = Body(f, x[1], x[2], x[3])
        /\ g = [x \in Shallow(d + 1) |-> g[x]]
    BY <1>1
  <1> HIDE DEF g
  <1>3. \A x \in Shallow(d) : f[x] \in Outcome /\ g[x] = f[x]
    BY <1>2 DEF Compiles
  <1>4. ASSUME NEW x \in Shallow(d + 1)
        PROVE  /\ Body(f, x[1], x[2], x[3]) \in Outcome
               /\ Body(g, x[1], x[2], x[3]) = Body(f, x[1], x[2], x[3])
    <2>1. x[1] \in CompilerStates /\ x[2] \in Nodes /\ x[3] \in Int /\ Depth[x[2]] < d + 1
      BY DEF Shallow, Points
    <2>2. Depth[x[2]] <= d
      BY <2>1, NodeDepth
    <2> QED BY <1>3, <2>1, <2>2, BodyShallow
  <1>5. ASSUME NEW x \in Shallow(d + 1) PROVE g[x] \in Outcome /\ g[x] = Body(g, x[1], x[2], x[3])
    <2>1. CASE x \in Shallow(d)
      BY <1>2, <1>4, <2>1 DEF Compiles
    <2>2. CASE x \notin Shallow(d)
      BY <1>2, <1>4, <2>2
    <2> QED BY <2>1, <2>2
  <1> QED BY <1>2, <1>5 DEF Compiles

LEMMA SomeCompiler ==
  \A d \in Nat : \E f : f = [x \in Shallow(d) |-> f[x]] /\ Compiles(f, d)
  <1> DEFINE Is(d) == \E f : f = [x \in Shallow(d) |-> f[x]] /\ Compiles(f, d)
             T == {d \in Nat : ~Is(d)}
  <1>1. T = {}
    <2> SUFFICES ASSUME T # {} PROVE FALSE
      OBVIOUS
    <2>1. PICK d \in T : \A e \in T : d <= e
      <3>1. T \in SUBSET Nat
        OBVIOUS
      <3> HIDE DEF T
      <3> QED BY <3>1, Least
    <2>2. CASE d = 0
      <3>1. Shallow(0) = {}
        <4> SUFFICES ASSUME NEW x \in Shallow(0) PROVE FALSE
          OBVIOUS
        <4>1. x[2] \in Nodes /\ Depth[x[2]] < 0
          BY DEF Shallow, Points
        <4> QED BY <4>1, NodeDepth
      <3> DEFINE f == [x \in {} |-> x]
      <3>2. f = [x \in {} |-> f[x]]
        OBVIOUS
      <3>3. f = [x \in Shallow(0) |-> f[x]] /\ Compiles(f, 0)
        BY <3>1, <3>2 DEF Compiles
      <3> QED BY <2>1, <2>2, <3>3
    <2>3. CASE d # 0
      <3>1. d - 1 \in Nat /\ ~(d <= d - 1) /\ (d - 1) + 1 = d
        BY <2>1, <2>3
      <3>2. Is(d - 1)
        BY <2>1, <3>1
      <3>3. PICK e \in Nat : e = d - 1
        BY <3>1
      <3>4. PICK f : f = [x \in Shallow(e) |-> f[x]] /\ Compiles(f, e)
        BY <3>2, <3>3
      <3>5. \E g : g = [x \in Shallow(e + 1) |-> g[x]] /\ Compiles(g, e + 1)
        BY <3>4, CompilesNext
      <3>6. Is(d)
        BY <3>1, <3>3, <3>5
      <3> QED BY <2>1, <3>6
    <2> QED BY <2>2, <2>3
  <1> QED BY <1>1

\* int_compile computes what its text says, a state of the compiler and a register.
LEMMA CompileUnfolds ==
  ASSUME NEW s \in CompilerStates, NEW node \in Nodes, NEW reg \in Int
  PROVE  /\ Compile[<<s, node, reg>>] = Body(Compile, s, node, reg)
         /\ Compile[<<s, node, reg>>] \in Outcome
  <1> DEFINE d == MaxDepth + 1
  <1>1. d \in Nat
    BY SizesAssumption
  <1>2. Shallow(d) = Points
    <2> SUFFICES ASSUME NEW x \in Points PROVE Depth[x[2]] < d
      BY DEF Shallow
    <2>1. x[2] \in Nodes
      BY DEF Points
    <2> QED BY <2>1, NodeDepth, SizesAssumption
  <1>3. PICK f : f = [x \in Points |-> f[x]] /\ Compiles(f, d)
    <2> HIDE DEF d
    <2> QED BY <1>1, <1>2, SomeCompiler
  <1> DEFINE F(h) == [x \in Points |-> Body(h, x[1], x[2], x[3])]
  <1>4. \A x \in Points : f[x] = Body(f, x[1], x[2], x[3])
    BY <1>2, <1>3 DEF Compiles
  <1>5. f = F(f)
    BY <1>3, <1>4
  <1>6. Compile = F(Compile)
    <2> HIDE DEF F
    <2>1. Compile = CHOOSE h : h = F(h)
      BY CompileIsBody DEF F
    <2> QED BY <1>5, <2>1
  <1>7. \A x \in Points : Compile[x] = Body(Compile, x[1], x[2], x[3])
    BY <1>6
  <1> DEFINE p == <<s, node, reg>>
  <1>8. p \in Points /\ p[1] = s /\ p[2] = node /\ p[3] = reg
    BY DEF Points
  <1>9. Compile[p] = Body(Compile, s, node, reg)
    BY <1>7, <1>8
  <1>10. Compile[p] \in Outcome
    <2> DEFINE T == {k \in Nat : \E x \in Points : Compile[x] \notin Outcome /\ k = Depth[x[2]]}
    <2> SUFFICES ASSUME Compile[p] \notin Outcome PROVE FALSE
      OBVIOUS
    <2>1. T # {}
      <3>1. Depth[node] \in Nat
        BY NodeDepth, SizesAssumption
      <3> HIDE DEF p
      <3> QED BY <1>8, <3>1
    <2>2. PICK k \in T : \A e \in T : k <= e
      <3>1. T \in SUBSET Nat
        OBVIOUS
      <3> HIDE DEF T
      <3> QED BY <2>1, <3>1, Least
    <2>3. PICK x \in Points : Compile[x] \notin Outcome /\ k = Depth[x[2]] /\ k \in Nat
      BY <2>2
    <2>4. \A y \in Shallow(k) : Compile[y] \in Outcome /\ Compile[y] = Compile[y]
      <3> SUFFICES ASSUME NEW y \in Shallow(k), Compile[y] \notin Outcome PROVE FALSE
        OBVIOUS
      <3>1. y \in Points /\ Depth[y[2]] < k /\ y[2] \in Nodes
        BY DEF Shallow, Points
      <3>2. Depth[y[2]] \in Nat
        BY <3>1, NodeDepth, SizesAssumption
      <3>3. Depth[y[2]] \in T
        BY <3>1, <3>2
      <3> QED BY <2>2, <2>3, <3>1, <3>2, <3>3
    <2>5. x[1] \in CompilerStates /\ x[2] \in Nodes /\ x[3] \in Int /\ Depth[x[2]] <= k
      BY <2>3 DEF Points
    <2>6. Body(Compile, x[1], x[2], x[3]) \in Outcome
      BY <2>3, <2>4, <2>5, BodyShallow
    <2> QED BY <1>7, <2>3, <2>6
  <1> QED BY <1>9, <1>10

-----------------------------------------------------------------------------
(* The compiler's programs can be scheduled *)

\* The registers of the terminals, and those that have been given a value.
Used(s) == {r \in Regs : s.terminals[r] # Unused}
Virtual(s) == RegCount..(s.n_vregs - 1)
Dests(s) == {s.prog[m].dest : m \in DOMAIN s.prog}
Named(s) == Used(s) \cup Dests(s)

Emitted(s, i) ==
  /\ i.op \in Opcodes /\ i.dest \in Used(s) \cup Virtual(s)
  /\ Operands(i) \subseteq {0} \cup Named(s)
Distinct(s) == \A p, q \in Used(s) : s.terminals[p] = s.terminals[q] => p = q
Sound(s) ==
  /\ s.n_vregs >= RegCount /\ Used(s) \cap Reserved = {} /\ Distinct(s)
  /\ \A m \in DOMAIN s.prog : Emitted(s, s.prog[m])
  /\ \A m, n \in DOMAIN s.prog :
       s.prog[m].dest = s.prog[n].dest /\ s.prog[m].dest >= RegCount => m = n

\* The compiler goes on: what it has used and emitted stays.
Grown(s, t) ==
  /\ s.n_vregs <= t.n_vregs
  /\ \A r \in Used(s) : t.terminals[r] = s.terminals[r]
  /\ Len(s.prog) <= Len(t.prog) /\ \A m \in 1..Len(s.prog) : t.prog[m] = s.prog[m]
\* Only new registers are written.
Quiet(s, t) == \A m \in (Len(s.prog) + 1)..Len(t.prog) : t.prog[m].dest >= s.n_vregs

\* A register whose value may be computed: a terminal's or a new one.
Fresh(s, dest) == dest \in Used(s) \/ (dest \in Virtual(s) /\ dest \notin Dests(s))

\* The outcome of code for the register dest, and for a register of the compiler's choice.
Emits(s, dest, res) ==
  /\ res.cs \in CompilerStates /\ Sound(res.cs) /\ Grown(s, res.cs)
  /\ res.reg \in {-1, dest} /\ (res.reg = dest => dest \in Named(res.cs))
  /\ \A m \in (Len(s.prog) + 1)..Len(res.cs.prog) :
       res.cs.prog[m].dest >= s.n_vregs \/ (res.cs.prog[m].dest = dest /\ res.reg = dest)
Passes(s, res) ==
  /\ res.cs \in CompilerStates /\ Sound(res.cs) /\ Grown(s, res.cs) /\ Quiet(s, res.cs)
  /\ res.reg \in {-1} \cup Named(res.cs)

LEMMA ProgFacts ==
  ASSUME NEW s \in CompilerStates
  PROVE  /\ s.prog \in Seq(Isns) /\ Len(s.prog) \in Nat /\ DOMAIN s.prog = 1..Len(s.prog)
         /\ s.n_vregs \in Nat /\ s.terminals \in [Regs -> Terminals]
         /\ \A m \in DOMAIN s.prog : s.prog[m].dest \in Int
  <1>1. s.prog \in Seq(Isns) /\ s.n_vregs \in Nat /\ s.terminals \in [Regs -> Terminals]
    BY DEF CompilerStates
  <1>2. Len(s.prog) \in Nat /\ DOMAIN s.prog = 1..Len(s.prog)
    BY <1>1
  <1>3. ASSUME NEW m \in DOMAIN s.prog PROVE s.prog[m].dest \in Int
    <2>1. s.prog[m] \in Isns
      BY <1>1
    <2> QED BY <2>1 DEF Isns
  <1> QED BY <1>1, <1>2, <1>3

\* What a longer program says of the registers of a shorter one.
LEMMA GrownNames ==
  ASSUME NEW s \in CompilerStates, NEW t \in CompilerStates, Grown(s, t)
  PROVE  Used(s) \subseteq Used(t) /\ Named(s) \subseteq Named(t) /\ Virtual(s) \subseteq Virtual(t)
  <1>1. Used(s) \subseteq Used(t)
    BY DEF Used, Grown
  <1>2. Dests(s) \subseteq Dests(t)
    <2> SUFFICES ASSUME NEW m \in DOMAIN s.prog PROVE s.prog[m].dest \in Dests(t)
      BY DEF Dests
    <2>1. m \in 1..Len(s.prog) /\ m \in DOMAIN t.prog
      BY ProgFacts DEF Grown
    <2>2. t.prog[m] = s.prog[m]
      BY <2>1 DEF Grown
    <2> QED BY <2>1, <2>2 DEF Dests
  <1>3. Virtual(s) \subseteq Virtual(t)
    <2>1. s.n_vregs \in Int /\ t.n_vregs \in Int /\ s.n_vregs <= t.n_vregs /\ RegCount \in Int
      BY ProgFacts, SizesAssumption DEF Grown
    <2> QED BY <2>1 DEF Virtual
  <1> QED BY <1>1, <1>2, <1>3 DEF Named

LEMMA GrownTrans ==
  ASSUME NEW s \in CompilerStates, NEW t \in CompilerStates, NEW u \in CompilerStates,
         Grown(s, t), Grown(t, u)
  PROVE  /\ Grown(s, u)
         /\ Quiet(s, t) /\ Quiet(t, u) => Quiet(s, u)
  <1>0. /\ Len(s.prog) \in Nat /\ Len(t.prog) \in Nat /\ Len(u.prog) \in Nat
        /\ s.n_vregs \in Int /\ t.n_vregs \in Int /\ u.n_vregs \in Int
        /\ Len(s.prog) <= Len(t.prog) /\ Len(t.prog) <= Len(u.prog)
        /\ s.n_vregs <= t.n_vregs /\ t.n_vregs <= u.n_vregs
    BY ProgFacts DEF Grown
  <1>1. \A r \in Used(s) : u.terminals[r] = s.terminals[r]
    BY GrownNames DEF Grown
  <1>2. \A m \in 1..Len(s.prog) : u.prog[m] = s.prog[m]
    BY <1>0 DEF Grown
  <1>3. Grown(s, u)
    BY <1>0, <1>1, <1>2 DEF Grown
  <1>4. ASSUME Quiet(s, t), Quiet(t, u), NEW m \in (Len(s.prog) + 1)..Len(u.prog)
        PROVE  u.prog[m].dest >= s.n_vregs
    <2>1. CASE m <= Len(t.prog)
      <3>1. m \in 1..Len(t.prog) /\ m \in (Len(s.prog) + 1)..Len(t.prog)
        BY <1>0, <2>1
      <3> QED BY <1>4, <3>1 DEF Quiet, Grown
    <2>2. CASE ~(m <= Len(t.prog))
      <3>1. m \in (Len(t.prog) + 1)..Len(u.prog) /\ m \in DOMAIN u.prog
        BY <1>0, <1>4, <2>2, ProgFacts
      <3>2. u.prog[m].dest >= t.n_vregs /\ u.prog[m].dest \in Int
        BY <1>4, <3>1, ProgFacts DEF Quiet
      <3> QED BY <1>0, <3>2
    <2> QED BY <2>1, <2>2
  <1> QED BY <1>3, <1>4 DEF Quiet

LEMMA EmitsAfter ==
  ASSUME NEW s \in CompilerStates, NEW t \in CompilerStates, NEW dest, NEW res,
         Grown(s, t), Quiet(s, t), Emits(t, dest, res)
  PROVE  Emits(s, dest, res)
  <1> DEFINE u == res.cs
  <1>1. u \in CompilerStates /\ Grown(t, u)
    BY DEF Emits
  <1> HIDE DEF u
  <1>2. Grown(s, u)
    BY <1>1, GrownTrans
  <1>0. /\ Len(s.prog) \in Nat /\ Len(t.prog) \in Nat /\ Len(u.prog) \in Nat
        /\ s.n_vregs \in Int /\ t.n_vregs \in Int /\ s.n_vregs <= t.n_vregs
        /\ Len(s.prog) <= Len(t.prog) /\ Len(t.prog) <= Len(u.prog)
    BY <1>1, ProgFacts DEF Grown
  <1>3. ASSUME NEW m \in (Len(s.prog) + 1)..Len(u.prog)
        PROVE  u.prog[m].dest >= s.n_vregs \/ (u.prog[m].dest = dest /\ res.reg = dest)
    <2>1. CASE m <= Len(t.prog)
      <3>1. m \in 1..Len(t.prog) /\ m \in (Len(s.prog) + 1)..Len(t.prog)
        BY <1>0, <2>1
      <3> QED BY <1>1, <3>1 DEF Quiet, Grown
    <2>2. CASE ~(m <= Len(t.prog))
      <3>1. m \in (Len(t.prog) + 1)..Len(u.prog) /\ m \in DOMAIN u.prog
        BY <1>0, <1>1, <1>3, <2>2, ProgFacts
      <3>2. u.prog[m].dest >= t.n_vregs \/ (u.prog[m].dest = dest /\ res.reg = dest)
        BY <3>1 DEF Emits, u
      <3>3. u.prog[m].dest \in Int
        BY <1>1, <3>1, ProgFacts
      <3> QED BY <1>0, <3>2, <3>3
    <2> QED BY <2>1, <2>2
  <1> QED BY <1>2, <1>3 DEF Emits, u

LEMMA PassesAfter ==
  ASSUME NEW s \in CompilerStates, NEW t \in CompilerStates, NEW res,
         Grown(s, t), Quiet(s, t), Passes(t, res)
  PROVE  Passes(s, res)
  <1>1. res.cs \in CompilerStates /\ Grown(t, res.cs) /\ Quiet(t, res.cs)
    BY DEF Passes
  <1>2. Grown(s, res.cs) /\ Quiet(s, res.cs)
    BY <1>1, GrownTrans
  <1> QED BY <1>2 DEF Passes

\* Nothing is emitted.
LEMMA GrownSame ==
  ASSUME NEW s \in CompilerStates, NEW t \in CompilerStates, t.prog = s.prog, t.n_vregs >= s.n_vregs,
         \A r \in Used(s) : t.terminals[r] = s.terminals[r]
  PROVE  /\ Grown(s, t) /\ Quiet(s, t)
         /\ Sound(s) /\ Used(t) \cap Reserved = {} /\ Distinct(t) => Sound(t)
  <1>0. /\ s.prog \in Seq(Isns) /\ Len(s.prog) \in Nat /\ s.n_vregs \in Int /\ t.n_vregs \in Int
    BY ProgFacts
  <1>1. Grown(s, t)
    BY <1>0 DEF Grown
  <1>2. Quiet(s, t)
    <2>1. (Len(s.prog) + 1)..Len(s.prog) = {}
      BY <1>0
    <2> QED BY <2>1 DEF Quiet
  <1>3. Used(s) \subseteq Used(t) /\ Named(s) \subseteq Named(t) /\ Virtual(s) \subseteq Virtual(t)
    BY <1>1, GrownNames
  <1>4. ASSUME Sound(s), Used(t) \cap Reserved = {}, Distinct(t) PROVE Sound(t)
    <2>1. \A m \in DOMAIN t.prog : Emitted(t, t.prog[m])
      BY <1>3, <1>4 DEF Sound, Emitted
    <2>2. t.n_vregs >= RegCount
      BY <1>0, <1>4, SizesAssumption DEF Sound
    <2> QED BY <1>4, <2>1, <2>2 DEF Sound
  <1> QED BY <1>1, <1>2, <1>4

\* A terminal is looked up or added.
LEMMA TerminalSound ==
  ASSUME NEW s \in CompilerStates, NEW t \in Terminals, t # Unused, Sound(s), NEW res,
         res = AddTerminal(s, t)
  PROVE  /\ Passes(s, res)
         /\ res.cs.prog = s.prog /\ res.cs.n_vregs = s.n_vregs
         /\ res.reg # -1 => res.reg \in Used(res.cs) /\ res.cs.terminals[res.reg] = t
         /\ res.reg = -1 => \A r \in Regs \ Reserved : res.cs.terminals[r] # Unused
  <1>0. -1 \notin Regs /\ s.n_vregs \in Int
    BY ProgFacts DEF Regs
  <1>1. CASE res = [cs |-> s, reg |-> res.reg] /\ res.reg \in Regs /\ s.terminals[res.reg] = t
    <2>1. res.cs = s
      BY <1>1
    <2>2. Grown(s, s) /\ Quiet(s, s)
      BY <1>0, GrownSame
    <2>3. res.reg \in Used(s)
      BY <1>1 DEF Used
    <2> QED BY <1>0, <1>1, <2>1, <2>2, <2>3 DEF Passes, Named
  <1>2. CASE /\ res = [cs |-> WithTerminal(s, res.reg, t), reg |-> res.reg]
             /\ res.reg \in Regs \ Reserved /\ s.terminals[res.reg] = Unused
             /\ \A r \in Regs : s.terminals[r] # t
    <2> DEFINE u == WithTerminal(s, res.reg, t)
    <2>1. u \in CompilerStates
      BY <1>2, TerminalUpdate
    <2>2. u.prog = s.prog /\ u.n_vregs = s.n_vregs /\ u.terminals = [s.terminals EXCEPT ![res.reg] = t]
      BY DEF WithTerminal
    <2>3. res.cs = u
      BY <1>2
    <2> HIDE DEF u
    <2>4. s.terminals \in [Regs -> Terminals]
      BY ProgFacts
    <2>5. \A r \in Used(s) : u.terminals[r] = s.terminals[r]
      BY <1>2, <2>2, <2>4 DEF Used
    <2>6. Used(u) \cap Reserved = {}
      BY <1>2, <2>2, <2>4 DEF Used, Sound
    <2>7. Grown(s, u) /\ Quiet(s, u) /\ Sound(u)
      <3>1. u.n_vregs >= s.n_vregs
        BY <1>0, <2>2
      <3>2. \A p \in Used(u) : p = res.reg \/ (p \in Used(s) /\ u.terminals[p] = s.terminals[p])
        BY <1>2, <2>2, <2>4 DEF Used
      <3>3. \A p \in Used(s) : s.terminals[p] # t
        BY <1>2 DEF Used
      <3>4. u.terminals[res.reg] = t
        BY <1>2, <2>2, <2>4
      <3>5. Distinct(u)
        BY <3>2, <3>3, <3>4 DEF Distinct, Sound
      <3> QED BY <2>1, <2>2, <2>5, <2>6, <3>1, <3>5, GrownSame
    <2>8. res.reg \in Used(u) /\ u.terminals[res.reg] = t
      BY <1>2, <2>2, <2>4 DEF Used
    <2>9. res.reg # -1 /\ res.reg \in Named(u)
      BY <1>0, <1>2, <2>8 DEF Named
    <2> QED BY <2>1, <2>2, <2>3, <2>7, <2>8, <2>9 DEF Passes
  <1>3. CASE res = [cs |-> s, reg |-> -1] /\ \A r \in Regs \ Reserved : s.terminals[r] # Unused
    <2>1. Grown(s, s) /\ Quiet(s, s)
      BY <1>0, GrownSame
    <2> QED BY <1>3, <2>1 DEF Passes
  <1> QED BY <1>1, <1>2, <1>3, Terminal

LEMMA WithIsnFacts ==
  ASSUME NEW s \in CompilerStates, NEW i \in Isns, NEW u, u = WithIsn(s, i)
  PROVE  /\ u \in CompilerStates /\ u.n_vregs = s.n_vregs /\ u.terminals = s.terminals
         /\ Len(u.prog) = Len(s.prog) + 1 /\ u.prog[Len(s.prog) + 1] = i
         /\ DOMAIN u.prog = 1..(Len(s.prog) + 1)
         /\ \A m \in 1..Len(s.prog) : u.prog[m] = s.prog[m]
  <1>1. u \in CompilerStates
    BY IsnUpdate
  <1>2. u.n_vregs = s.n_vregs /\ u.terminals = s.terminals /\ u.prog = Append(s.prog, i)
    BY DEF WithIsn
  <1>3. s.prog \in Seq(Isns)
    BY ProgFacts
  <1> DEFINE p == s.prog
  <1> HIDE DEF p
  <1>4. p \in Seq(Isns) => /\ Len(Append(p, i)) = Len(p) + 1 /\ Append(p, i)[Len(p) + 1] = i
                           /\ DOMAIN Append(p, i) = 1..(Len(p) + 1)
                           /\ \A m \in 1..Len(p) : Append(p, i)[m] = p[m]
    OBVIOUS
  <1> QED BY <1>1, <1>2, <1>3, <1>4 DEF p

\* An instruction on registers that have a value, for a register that may get one.
LEMMA AddSound ==
  ASSUME NEW s \in CompilerStates, Sound(s), NEW op \in Opcodes, NEW a \in Int, NEW b \in Int,
         NEW dest \in Int, Fresh(s, dest), Operands(Isn(op, a, b, dest)) \subseteq {0} \cup Named(s)
  PROVE  Emits(s, dest, AddIsn(s, op, a, b, dest))
  <1> DEFINE i == Isn(op, a, b, dest)
             u == WithIsn(s, i)
             res == AddIsn(s, op, a, b, dest)
  <1>0. op \in DOMAIN Latency
    BY DEF Opcodes, Latency
  <1>1. /\ i \in Isns
        /\ res = IF Len(s.prog) >= ProgSize THEN [cs |-> s, reg |-> -1] ELSE [cs |-> u, reg |-> dest]
    <2>1. Added(s, op, a, b, dest)
      BY <1>0, IsnAdded
    <2> QED BY <2>1 DEF Added
  <1>2. i.op = op /\ i.dest = dest
    BY DEF Isn
  <1>3. Operands(i) \subseteq {0} \cup Named(s)
    OBVIOUS
  <1> HIDE DEF res, i
  <1>4. Len(s.prog) \in Nat /\ s.n_vregs \in Int /\ RegCount \in Nat /\ DOMAIN s.prog = 1..Len(s.prog)
    BY ProgFacts, SizesAssumption
  <1>5. CASE Len(s.prog) >= ProgSize
    <2>1. res = [cs |-> s, reg |-> -1]
      BY <1>1, <1>5
    <2>2. Grown(s, s) /\ Quiet(s, s)
      BY <1>4, GrownSame
    <2>3. (Len(s.prog) + 1)..Len(s.prog) = {}
      BY <1>4
    <2>4. dest # -1
      BY <1>4 DEF Fresh, Used, Regs, Virtual
    <2>5. Emits(s, dest, res)
      BY <2>1, <2>2, <2>3, <2>4 DEF Emits
    <2> QED BY <2>5 DEF res
  <1>6. CASE ~(Len(s.prog) >= ProgSize)
    <2>1. res.cs = u /\ res.reg = dest
      BY <1>1, <1>6
    <2>2. /\ u \in CompilerStates /\ u.n_vregs = s.n_vregs /\ u.terminals = s.terminals
          /\ Len(u.prog) = Len(s.prog) + 1 /\ u.prog[Len(s.prog) + 1] = i
          /\ DOMAIN u.prog = 1..(Len(s.prog) + 1)
          /\ \A m \in 1..Len(s.prog) : u.prog[m] = s.prog[m]
      BY <1>1, WithIsnFacts
    <2> HIDE DEF u
    <2>3. Grown(s, u)
      BY <1>4, <2>2 DEF Grown
    <2>4. Used(u) = Used(s) /\ Virtual(u) = Virtual(s) /\ Named(s) \subseteq Named(u)
      BY <2>2, <2>3, GrownNames DEF Used, Virtual
    <2>5. dest \in Named(u)
      <3>1. Len(s.prog) + 1 \in DOMAIN u.prog
        BY <1>4, <2>2
      <3> QED BY <1>2, <2>2, <3>1 DEF Named, Dests
    <2>6. ASSUME NEW m \in DOMAIN u.prog PROVE Emitted(u, u.prog[m])
      <3>1. CASE m \in 1..Len(s.prog)
        BY <1>4, <2>2, <2>4, <3>1 DEF Sound, Emitted
      <3>2. CASE m = Len(s.prog) + 1
        BY <1>2, <1>3, <2>2, <2>4, <3>2 DEF Emitted, Fresh
      <3> QED BY <1>4, <2>2, <3>1, <3>2
    <2>7. ASSUME NEW m \in DOMAIN u.prog, NEW n \in DOMAIN u.prog,
                 u.prog[m].dest = u.prog[n].dest, u.prog[m].dest >= RegCount
          PROVE  m = n
      <3> DEFINE l == Len(s.prog) + 1
      <3>1. ASSUME NEW k \in 1..Len(s.prog), s.prog[k].dest = dest, dest >= RegCount PROVE FALSE
        <4>1. dest \in Dests(s)
          BY <1>4, <3>1 DEF Dests
        <4>2. dest \notin Used(s)
          BY <1>4, <3>1 DEF Used, Regs
        <4> QED BY <4>1, <4>2 DEF Fresh
      <3>2. CASE m = l /\ n = l
        BY <3>2
      <3>3. CASE m = l /\ n # l
        <4>1. n \in 1..Len(s.prog)
          BY <1>4, <2>2, <3>3
        <4> QED BY <1>2, <2>2, <2>7, <3>1, <3>3, <4>1
      <3>4. CASE m # l /\ n = l
        <4>1. m \in 1..Len(s.prog)
          BY <1>4, <2>2, <3>4
        <4> QED BY <1>2, <2>2, <2>7, <3>1, <3>4, <4>1
      <3>5. CASE m # l /\ n # l
        <4>1. m \in 1..Len(s.prog) /\ n \in 1..Len(s.prog)
          BY <1>4, <2>2, <3>5
        <4> QED BY <1>4, <2>2, <2>7, <4>1 DEF Sound
      <3> QED BY <3>2, <3>3, <3>4, <3>5
    <2>8. Sound(u)
      BY <2>2, <2>4, <2>6, <2>7 DEF Sound, Distinct
    <2>9. \A m \in (Len(s.prog) + 1)..Len(u.prog) : u.prog[m].dest = dest
      BY <1>2, <1>4, <2>2
    <2>10. res.cs \in CompilerStates /\ Sound(res.cs) /\ Grown(s, res.cs) /\ dest \in Named(res.cs)
      BY <2>1, <2>2, <2>3, <2>5, <2>8
    <2>11. \A m \in (Len(s.prog) + 1)..Len(res.cs.prog) : res.cs.prog[m].dest = dest /\ res.reg = dest
      BY <2>1, <2>9
    <2>12. Emits(s, dest, res)
      BY <2>1, <2>10, <2>11 DEF Emits
    <2> QED BY <2>12 DEF res
  <1> QED BY <1>5, <1>6

\* The registers that have a value are numbers.
LEMMA NamedInt ==
  ASSUME NEW s \in CompilerStates, Sound(s)
  PROVE  /\ Named(s) \subseteq Nat /\ Named(s) \subseteq Used(s) \cup Virtual(s)
         /\ Used(s) \cap Reserved = {} /\ Used(s) \subseteq 0..(RegCount - 1)
  <1>1. Used(s) \subseteq Nat /\ Virtual(s) \subseteq Nat /\ Used(s) \subseteq 0..(RegCount - 1)
    BY ProgFacts, SizesAssumption DEF Used, Virtual, Regs
  <1>2. Dests(s) \subseteq Used(s) \cup Virtual(s)
    BY DEF Dests, Sound, Emitted
  <1> QED BY <1>1, <1>2 DEF Named, Sound

LEMMA LeafSound ==
  ASSUME NEW s \in CompilerStates, Sound(s), NEW t \in Terminals, t # Unused, NEW reg \in Int
  PROVE  /\ reg = -1 => Passes(s, Leaf(s, t, reg))
         /\ reg \in Used(s) => Emits(s, reg, Leaf(s, t, reg))
  <1> DEFINE r == AddTerminal(s, t)
  <1>1. Passes(s, r) /\ r.cs.prog = s.prog /\ (r.reg # -1 => r.reg \in Used(r.cs))
    BY TerminalSound
  <1>2. Leaf(s, t, reg) = IF r.reg = -1 \/ reg < 0 THEN r ELSE AddIsn(r.cs, "copy", r.reg, 0, reg)
    BY DEF Leaf
  <1> HIDE DEF r
  <1>3. ASSUME reg = -1 PROVE Passes(s, Leaf(s, t, reg))
    BY <1>1, <1>2, <1>3
  <1>4. ASSUME reg \in Used(s) PROVE Emits(s, reg, Leaf(s, t, reg))
    <2>1. r.cs \in CompilerStates /\ Sound(r.cs) /\ Grown(s, r.cs) /\ Quiet(s, r.cs)
      BY <1>1 DEF Passes
    <2>2. reg \in Used(r.cs) /\ ~(reg < 0)
      BY <1>4, <2>1, GrownNames, NamedInt
    <2>3. CASE r.reg = -1
      <3>1. Leaf(s, t, reg) = r /\ reg # -1
        BY <1>2, <2>2, <2>3
      <3>2. \A m \in (Len(s.prog) + 1)..Len(r.cs.prog) : r.cs.prog[m].dest >= s.n_vregs
        BY <2>1 DEF Quiet
      <3> QED BY <2>1, <2>3, <3>1, <3>2 DEF Emits
    <2>4. CASE r.reg # -1
      <3>1. Leaf(s, t, reg) = AddIsn(r.cs, "copy", r.reg, 0, reg)
        BY <1>2, <2>2, <2>4
      <3>2. r.reg \in Named(r.cs) /\ r.reg \in Int
        BY <1>1, <2>1, <2>4, NamedInt DEF Named
      <3>3. Operands(Isn("copy", r.reg, 0, reg)) \subseteq {0} \cup Named(r.cs)
        BY <3>2 DEF Operands, Isn, Arity
      <3>4. Fresh(r.cs, reg) /\ "copy" \in Opcodes
        BY <2>2 DEF Fresh, Opcodes
      <3>5. Emits(r.cs, reg, AddIsn(r.cs, "copy", r.reg, 0, reg))
        BY <2>1, <3>2, <3>3, <3>4, AddSound
      <3> QED BY <2>1, <3>1, <3>5, EmitsAfter
    <2> QED BY <2>3, <2>4
  <1> QED BY <1>3, <1>4

\* What code for the register d leaves of the others.
LEMMA EmitsDests ==
  ASSUME NEW s \in CompilerStates, NEW d, NEW res, Emits(s, d, res)
  PROVE  \A x \in Dests(res.cs) : x \in Dests(s) \/ x >= s.n_vregs \/ x = d
  <1> DEFINE u == res.cs
  <1>1. u \in CompilerStates /\ Grown(s, u)
    BY DEF Emits
  <1>2. \A m \in (Len(s.prog) + 1)..Len(u.prog) : u.prog[m].dest >= s.n_vregs \/ u.prog[m].dest = d
    BY DEF Emits
  <1> HIDE DEF u
  <1>3. /\ Len(s.prog) \in Nat /\ Len(u.prog) \in Nat /\ Len(s.prog) <= Len(u.prog)
        /\ DOMAIN u.prog = 1..Len(u.prog) /\ DOMAIN s.prog = 1..Len(s.prog)
    BY <1>1, ProgFacts DEF Grown
  <1>4. ASSUME NEW m \in DOMAIN u.prog
        PROVE  u.prog[m].dest \in Dests(s) \/ u.prog[m].dest >= s.n_vregs \/ u.prog[m].dest = d
    <2>1. CASE m \in 1..Len(s.prog)
      BY <1>1, <1>3, <2>1 DEF Grown, Dests
    <2>2. CASE m \notin 1..Len(s.prog)
      <3>1. m \in (Len(s.prog) + 1)..Len(u.prog)
        BY <1>3, <2>2
      <3> QED BY <1>2, <3>1
    <2> QED BY <2>1, <2>2
  <1> QED BY <1>4 DEF Dests, u

LEMMA FreshAfter ==
  ASSUME NEW s \in CompilerStates, Sound(s), NEW d, NEW res, Emits(s, d, res), NEW p, Fresh(s, p), p # d
  PROVE  Fresh(res.cs, p)
  <1> DEFINE u == res.cs
  <1>1. u \in CompilerStates /\ Grown(s, u)
    BY DEF Emits
  <1>2. \A x \in Dests(u) : x \in Dests(s) \/ x >= s.n_vregs \/ x = d
    BY EmitsDests
  <1> HIDE DEF u
  <1>3. Used(s) \subseteq Used(u) /\ Virtual(s) \subseteq Virtual(u)
    BY <1>1, GrownNames
  <1>4. CASE p \in Used(s)
    BY <1>3, <1>4 DEF Fresh, u
  <1>5. CASE p \in Virtual(s) /\ p \notin Dests(s)
    <2>1. p \in Int /\ s.n_vregs \in Int /\ ~(p >= s.n_vregs)
      BY <1>5, ProgFacts, SizesAssumption DEF Virtual
    <2>2. p \notin Dests(u)
      BY <1>2, <1>5, <2>1
    <2> QED BY <1>3, <1>5, <2>2 DEF Fresh, u
  <1> QED BY <1>4, <1>5 DEF Fresh

\* Code for a new register.
LEMMA EmitsNew ==
  ASSUME NEW s \in CompilerStates, NEW t \in CompilerStates, NEW d \in Int, NEW res,
         Grown(s, t), Quiet(s, t), Emits(t, d, res), d >= s.n_vregs
  PROVE  Passes(s, res)
  <1>1. Emits(s, d, res)
    BY EmitsAfter
  <1>2. Quiet(s, res.cs)
    BY <1>1 DEF Emits, Quiet
  <1> QED BY <1>1, <1>2 DEF Emits, Passes

LEMMA PassFailed ==
  ASSUME NEW s, NEW res, Passes(s, res), res.reg = -1, NEW d, d # -1
  PROVE  Emits(s, d, res)
  BY DEF Passes, Emits, Quiet

\* New registers are reserved.
LEMMA VregsSound ==
  ASSUME NEW s \in CompilerStates, Sound(s), NEW n \in {1, 2}, NEW t, t = WithVregs(s, n)
  PROVE  /\ t \in CompilerStates /\ Sound(t) /\ Grown(s, t) /\ Quiet(s, t)
         /\ \A p : Fresh(s, p) => Fresh(t, p)
         /\ Fresh(t, s.n_vregs) /\ (n = 2 => Fresh(t, s.n_vregs + 1))
         /\ t.n_vregs = s.n_vregs + n /\ t.prog = s.prog /\ t.terminals = s.terminals
  <1>1. t \in CompilerStates
    BY VregsUpdate
  <1>2. t.n_vregs = s.n_vregs + n /\ t.prog = s.prog /\ t.terminals = s.terminals
    BY DEF WithVregs
  <1>3. s.n_vregs \in Int /\ RegCount \in Int /\ s.n_vregs >= RegCount
    BY ProgFacts, SizesAssumption DEF Sound
  <1>4. Used(t) = Used(s) /\ Dests(t) = Dests(s)
    BY <1>2 DEF Used, Dests
  <1>5. Sound(t) /\ Grown(s, t) /\ Quiet(s, t)
    <2>1. t.n_vregs >= s.n_vregs /\ Used(t) \cap Reserved = {} /\ Distinct(t)
      BY <1>2, <1>3, <1>4 DEF Sound, Distinct
    <2> QED BY <1>1, <1>2, <2>1, GrownSame
  <1>6. \A x \in Dests(s) : x \in Int /\ x < s.n_vregs
    BY <1>3, NamedInt DEF Named, Virtual
  <1>7. {s.n_vregs} \cup (IF n = 2 THEN {s.n_vregs + 1} ELSE {}) \subseteq Virtual(t)
    BY <1>2, <1>3 DEF Virtual
  <1>8. Virtual(s) \subseteq Virtual(t)
    BY <1>1, <1>5, GrownNames
  <1>9. s.n_vregs \notin Dests(t) /\ s.n_vregs + 1 \notin Dests(t)
    BY <1>3, <1>4, <1>6
  <1>10. Fresh(t, s.n_vregs) /\ (n = 2 => Fresh(t, s.n_vregs + 1))
    BY <1>7, <1>9 DEF Fresh
  <1>11. \A p : Fresh(s, p) => Fresh(t, p)
    BY <1>4, <1>8 DEF Fresh
  <1> QED BY <1>1, <1>2, <1>5, <1>10, <1>11

LEMMA FreshInt ==
  ASSUME NEW s \in CompilerStates, Sound(s), NEW p, Fresh(s, p)
  PROVE  p \in Nat /\ p < s.n_vregs
  <1>1. s.n_vregs \in Int /\ RegCount \in Nat /\ s.n_vregs >= RegCount
    BY ProgFacts, SizesAssumption DEF Sound
  <1> QED BY <1>1 DEF Fresh, Used, Virtual, Regs

\* The three instructions of a trigonometric function.
LEMMA TrigSound ==
  ASSUME NEW s \in CompilerStates, Sound(s), NEW op \in {"sin", "cos"}, NEW a \in Named(s),
         NEW dest \in Int, Fresh(s, dest)
  PROVE  Emits(s, dest, Trig(s, op, a, dest))
  <1> DEFINE k == AddTerminal(s, <<"const", Conv>>)
             v == k.cs.n_vregs
             l == [k.cs EXCEPT !.n_vregs = @ + 2]
             i1 == AddIsn(l, "fmul", k.reg, a, v)
             i2 == AddIsn(i1.cs, "f2i", v, 0, v + 1)
             i3 == AddIsn(i2.cs, op, v + 1, 0, dest)
  <1>1. Trig(s, op, a, dest) = IF k.reg = -1 THEN k
                               ELSE IF i1.reg = -1 THEN i1 ELSE IF i2.reg = -1 THEN i2 ELSE i3
    BY DEF Trig
  <1>2. <<"const", Conv>> \in Terminals /\ <<"const", Conv>> # Unused
    <2>1. Conv \in Literals
      BY DEF Literals
    <2>2. <<"const", Conv>> \in Terminals
      <3> HIDE DEF Conv, Literals
      <3> QED BY <2>1 DEF Terminals
    <2> QED BY <2>2 DEF Unused
  <1>3. /\ Passes(s, k) /\ k.cs.prog = s.prog /\ k.cs.n_vregs = s.n_vregs
        /\ k.reg # -1 => k.reg \in Used(k.cs)
    BY <1>2, TerminalSound
  <1> HIDE DEF k
  <1>4. k.cs \in CompilerStates /\ Sound(k.cs) /\ Grown(s, k.cs) /\ Quiet(s, k.cs)
    BY <1>3 DEF Passes
  <1>5. l = WithVregs(k.cs, 2)
    BY <1>4, VregsUpdate
  <1> HIDE DEF l
  <1>6. /\ l \in CompilerStates /\ Sound(l) /\ Grown(k.cs, l) /\ Quiet(k.cs, l)
        /\ \A p : Fresh(k.cs, p) => Fresh(l, p)
        /\ Fresh(l, v) /\ Fresh(l, v + 1)
    BY <1>4, <1>5, VregsSound
  <1>7. Grown(s, l) /\ Quiet(s, l)
    BY <1>4, <1>6, GrownTrans
  <1>8. Fresh(l, dest) /\ dest \in Nat /\ dest < v /\ v \in Nat /\ v >= s.n_vregs
    <2>1. Used(s) \subseteq Used(k.cs) /\ Virtual(k.cs) = Virtual(s) /\ Dests(k.cs) = Dests(s)
      BY <1>3, <1>4, GrownNames DEF Virtual, Dests
    <2>2. Fresh(k.cs, dest)
      BY <2>1 DEF Fresh
    <2>3. v \in Nat /\ s.n_vregs \in Nat
      BY <1>4, ProgFacts
    <2> QED BY <1>3, <1>4, <1>6, <2>2, <2>3, FreshInt
  <1>9. Named(s) \subseteq Named(l) /\ Used(k.cs) \subseteq Named(l)
    BY <1>4, <1>6, <1>7, GrownNames DEF Named
  <1>10. a \in Int /\ (k.reg # -1 => k.reg \in Int)
    BY <1>3, <1>4, NamedInt DEF Named
  <1> HIDE DEF v, i1, i2, i3
  <1>11. CASE k.reg = -1
    BY <1>1, <1>3, <1>8, <1>11, PassFailed
  <1>12. CASE k.reg # -1
    <2>1. Emits(l, v, i1)
      <3>1. Operands(Isn("fmul", k.reg, a, v)) \subseteq {0} \cup Named(l)
        BY <1>3, <1>9, <1>12 DEF Operands, Isn, Arity
      <3>2. "fmul" \in Opcodes /\ v \in Int
        BY <1>8 DEF Opcodes
      <3> QED BY <1>6, <1>10, <1>12, <3>1, <3>2, AddSound DEF i1
    <2>2. i1.cs \in CompilerStates /\ Sound(i1.cs) /\ Grown(l, i1.cs) /\ (i1.reg = v => v \in Named(i1.cs))
          /\ i1.reg \in {-1, v}
      BY <2>1 DEF Emits
    <2>3. Passes(s, i1)
      BY <1>6, <1>7, <1>8, <2>1, EmitsNew
    <2>4. CASE i1.reg = -1
      BY <1>1, <1>8, <1>12, <2>3, <2>4, PassFailed
    <2>5. CASE i1.reg # -1
      <3>1. Fresh(i1.cs, v + 1) /\ Fresh(i1.cs, dest)
        <4>1. v + 1 # v /\ dest # v
          BY <1>8
        <4> QED BY <1>6, <1>8, <2>1, <4>1, FreshAfter
      <3>2. Emits(i1.cs, v + 1, i2)
        <4>1. Operands(Isn("f2i", v, 0, v + 1)) \subseteq {0} \cup Named(i1.cs)
          BY <2>2, <2>5 DEF Operands, Isn, Arity
        <4>2. "f2i" \in Opcodes /\ v \in Int /\ v + 1 \in Int
          BY <1>8 DEF Opcodes
        <4> QED BY <2>2, <3>1, <4>1, <4>2, AddSound DEF i2
      <3>3. i2.cs \in CompilerStates /\ Sound(i2.cs) /\ (i2.reg = v + 1 => v + 1 \in Named(i2.cs))
            /\ i2.reg \in {-1, v + 1}
        BY <3>2 DEF Emits
      <3>4. Passes(s, i2)
        <4>1. Grown(s, i1.cs) /\ Quiet(s, i1.cs)
          BY <2>3 DEF Passes
        <4>2. v + 1 \in Int /\ v + 1 >= s.n_vregs
          BY <1>4, <1>8, ProgFacts
        <4> QED BY <2>2, <3>2, <4>1, <4>2, EmitsNew
      <3>5. CASE i2.reg = -1
        BY <1>1, <1>8, <1>12, <2>5, <3>4, <3>5, PassFailed
      <3>6. CASE i2.reg # -1
        <4>1. Fresh(i2.cs, dest)
          <5>1. dest # v + 1
            BY <1>8
          <5> QED BY <2>2, <3>1, <3>2, <5>1, FreshAfter
        <4>2. Operands(Isn(op, v + 1, 0, dest)) \subseteq {0} \cup Named(i2.cs)
          BY <3>3, <3>6 DEF Operands, Isn, Arity
        <4>3. op \in Opcodes /\ v + 1 \in Int
          BY <1>8 DEF Opcodes
        <4>4. Emits(i2.cs, dest, i3)
          BY <3>3, <4>1, <4>2, <4>3, AddSound DEF i3
        <4>5. Grown(s, i2.cs) /\ Quiet(s, i2.cs)
          BY <3>4 DEF Passes
        <4>6. Emits(s, dest, i3)
          BY <3>3, <4>4, <4>5, EmitsAfter
        <4> QED BY <1>1, <1>12, <2>5, <3>6, <4>6
      <3> QED BY <3>5, <3>6
    <2> QED BY <2>4, <2>5
  <1> QED BY <1>11, <1>12

\* The opcode of the division cannot be scheduled (its latency is not known): there is none in the
\* presets.
NoDivision == \A node \in Nodes : node.label # "/"

LEMMA Opcodes3 ==
  \A label \in DOMAIN Opcode :
    /\ label # "/" => Opcode[label] \in Opcodes
    /\ label \in Trigonometric => Opcode[label] \in {"sin", "cos"}
  BY DEF Opcode, Opcodes, Arithmetic, Trigonometric, Comparisons

\* The code of a function or operator, after that of its arguments.
LEMMA FunctionSound ==
  ASSUME NEW t \in CompilerStates, Sound(t), NEW dest \in Int, Fresh(t, dest),
         NEW label \in DOMAIN Opcode, label # "/",
         NEW a \in Named(t), NEW b \in {0} \cup Named(t)
  PROVE  Emits(t, dest, IF label \in Trigonometric THEN Trig(t, Opcode[label], a, dest)
                        ELSE AddIsn(t, Opcode[label], a, b, dest))
  <1>1. a \in Int /\ b \in Int
    BY NamedInt
  <1> DEFINE op == Opcode[label]
  <1>2. op \in Opcodes /\ (label \in Trigonometric => op \in {"sin", "cos"})
    BY Opcodes3
  <1> HIDE DEF op
  <1>3. CASE label \in Trigonometric
    <2>1. Emits(t, dest, Trig(t, op, a, dest))
      BY <1>2, <1>3, TrigSound
    <2> QED BY <1>3, <2>1 DEF op
  <1>4. CASE label \notin Trigonometric
    <2>1. Operands(Isn(op, a, b, dest)) \subseteq {0} \cup Named(t)
      BY DEF Operands, Isn
    <2>2. Emits(t, dest, AddIsn(t, op, a, b, dest))
      BY <1>1, <1>2, <2>1, AddSound
    <2> QED BY <1>4, <2>2 DEF op
  <1> QED BY <1>3, <1>4

Compiled(s, reg, res) ==
  (reg = -1 => Passes(s, res)) /\ (reg \in Used(s) => Emits(s, reg, res))

LEMMA ApplySound ==
  ASSUME NEW s \in CompilerStates, Sound(s), NEW node, node.label # "/", NEW reg \in {-1} \cup Used(s),
         NEW a, NEW b, Passes(s, a), a.reg # -1 => Passes(s, b) \/ b = [cs |-> a.cs, reg |-> 0],
         a.reg # -1 => Named(a.cs) \subseteq Named(b.cs)
  PROVE  Compiled(s, reg, Apply2(s, node, reg, a, b))
  <1> DEFINE t == IF reg < 0 THEN [b.cs EXCEPT !.n_vregs = @ + 1] ELSE b.cs
             dest == IF reg < 0 THEN b.cs.n_vregs ELSE reg
             op == Opcode[node.label]
             fun == IF node.label \in Trigonometric THEN Trig(t, op, a.reg, dest)
                    ELSE AddIsn(t, op, a.reg, b.reg, dest)
             res == Apply2(s, node, reg, a, b)
  <1>1. res = IF a.reg = -1 THEN a
              ELSE IF b.reg = -1 THEN b
              ELSE IF node.label \notin DOMAIN Opcode THEN [cs |-> t, reg |-> -1]
              ELSE fun
    BY DEF Apply2
  <1>2. -1 \notin Used(s) /\ (reg # -1 => reg \in Nat)
    BY NamedInt
  <1>3. ASSUME NEW r, Passes(s, r), r.reg = -1 PROVE Compiled(s, reg, r)
    BY <1>2, <1>3, PassFailed DEF Compiled
  <1>4. CASE a.reg = -1
    <2>1. res = a
      BY <1>1, <1>4
    <2> QED BY <1>3, <1>4, <2>1
  <1>5. CASE a.reg # -1
    <2>1. /\ b.cs \in CompilerStates /\ Sound(b.cs) /\ Grown(s, b.cs) /\ Quiet(s, b.cs)
          /\ b.reg \in {-1, 0} \cup Named(b.cs) /\ a.reg \in Named(b.cs)
      BY <1>5 DEF Passes
    <2>2. CASE b.reg = -1
      <3>1. Passes(s, b)
        BY <1>5, <2>2
      <3>2. res = b
        BY <1>1, <1>5, <2>2
      <3> QED BY <1>3, <2>2, <3>1, <3>2
    <2>3. CASE b.reg # -1
      <3>1. reg < 0 <=> reg = -1
        BY <1>2
      <3>2. reg = -1 => t = WithVregs(b.cs, 1) /\ dest = b.cs.n_vregs
        BY <2>1, <3>1, VregsUpdate
      <3>3. reg # -1 => t = b.cs /\ dest = reg
        BY <3>1
      <3> HIDE DEF t, dest, op, fun
      <3>4. /\ t \in CompilerStates /\ Sound(t) /\ Grown(b.cs, t) /\ Quiet(b.cs, t) /\ Fresh(t, dest)
            /\ dest \in Int
        <4>1. CASE reg = -1
          BY <2>1, <3>2, <4>1, VregsSound, ProgFacts
        <4>2. CASE reg # -1
          <5>1. Grown(b.cs, b.cs) /\ Quiet(b.cs, b.cs)
            <6>1. b.cs.n_vregs >= b.cs.n_vregs
              BY <2>1, ProgFacts
            <6> QED BY <2>1, <6>1, GrownSame
          <5>2. reg \in Used(b.cs)
            BY <2>1, <4>2, GrownNames
          <5> QED BY <1>2, <2>1, <3>3, <4>2, <5>1, <5>2 DEF Fresh
        <4> QED BY <4>1, <4>2
      <3>5. Grown(s, t) /\ Quiet(s, t) /\ Named(b.cs) \subseteq Named(t)
        BY <2>1, <3>4, GrownTrans, GrownNames
      <3>6. CASE node.label \notin DOMAIN Opcode
        <4>1. Passes(s, [cs |-> t, reg |-> -1])
          BY <3>4, <3>5 DEF Passes
        <4>2. res = [cs |-> t, reg |-> -1]
          BY <1>1, <1>5, <2>3, <3>6
        <4> QED BY <1>3, <4>1, <4>2
      <3>7. CASE node.label \in DOMAIN Opcode
        <4>1. a.reg \in Named(t) /\ b.reg \in {0} \cup Named(t)
          BY <2>1, <2>3, <3>5
        <4>2. Emits(t, dest, fun)
          BY <3>4, <3>7, <4>1, FunctionSound DEF fun, op
        <4>3. Emits(s, dest, fun)
          BY <3>4, <3>5, <4>2, EmitsAfter
        <4>4. reg = -1 => Passes(s, fun)
          <5> SUFFICES ASSUME reg = -1 PROVE Passes(s, fun)
            OBVIOUS
          <5>1. dest >= s.n_vregs
            BY <2>1, <3>2 DEF Grown
          <5> QED BY <3>4, <3>5, <4>2, <5>1, EmitsNew
        <4>5. res = fun
          BY <1>1, <1>5, <2>3, <3>7
        <4> QED BY <1>2, <3>3, <4>3, <4>4, <4>5 DEF Compiled
      <3> QED BY <3>6, <3>7
    <2> QED BY <2>2, <2>3
  <1> QED BY <1>4, <1>5

\* Each expression of the preset.
CompilesSoundly(node) ==
  \A s \in CompilerStates : Sound(s) =>
    \A reg \in {-1} \cup Used(s) : Compiled(s, reg, Compile[<<s, node, reg>>])

LEMMA CompileSound ==
  ASSUME NoDivision
  PROVE  \A node \in Nodes : CompilesSoundly(node)
  <1> DEFINE T == {k \in Nat : \E node \in Nodes : ~CompilesSoundly(node) /\ k = Depth[node]}
  <1> SUFFICES ASSUME T # {} PROVE FALSE
    BY NodeDepth
  <1>1. PICK k \in T : \A e \in T : k <= e
    <2>1. T \in SUBSET Nat
      OBVIOUS
    <2> HIDE DEF T
    <2> QED BY <2>1, Least
  <1>2. PICK node \in Nodes : ~CompilesSoundly(node) /\ k = Depth[node] /\ k \in Nat
    BY <1>1
  <1>3. ASSUME NEW n \in Nodes, Depth[n] < Depth[node] PROVE CompilesSoundly(n)
    <2> SUFFICES ASSUME ~CompilesSoundly(n) PROVE FALSE
      OBVIOUS
    <2>1. Depth[n] \in Nat
      BY NodeDepth
    <2>2. Depth[n] \in T
      BY <2>1
    <2> QED BY <1>1, <1>2, <1>3, <2>1, <2>2
  <1> HIDE DEF T
  <1>4. ASSUME NEW s \in CompilerStates, Sound(s), NEW reg \in {-1} \cup Used(s)
        PROVE  Compiled(s, reg, Compile[<<s, node, reg>>])
    <2>1. reg \in Int /\ -1 \notin Used(s)
      BY <1>4, NamedInt
    <2>2. Compile[<<s, node, reg>>] = Body(Compile, s, node, reg)
      BY <2>1, CompileUnfolds
    <2>3. NodeForm(node)
      BY NodeFacts
    <2>4. ASSUME NEW t \in Terminals, t # Unused PROVE Compiled(s, reg, Leaf(s, t, reg))
      BY <1>4, <2>1, <2>4, LeafSound DEF Compiled
    <2>5. CASE node.label = ""
      <3> DEFINE t == <<"const", node.constant>>
      <3>1. t \in Terminals /\ t # Unused /\ Body(Compile, s, node, reg) = Leaf(s, t, reg)
        BY <2>3, <2>5 DEF NodeForm, Unused, Body
      <3> HIDE DEF t
      <3> QED BY <2>2, <2>4, <3>1
    <2>6. CASE node.label # "" /\ node.args = <<>>
      <3> DEFINE t == <<"var", node.label>>
      <3>1. t \in Terminals /\ t # Unused /\ Body(Compile, s, node, reg) = Leaf(s, t, reg)
        BY <2>3, <2>6 DEF NodeForm, Unused, Body
      <3> HIDE DEF t
      <3> QED BY <2>2, <2>4, <3>1
    <2>7. CASE node.label # "" /\ node.args # <<>>
      <3> DEFINE a == FirstArgument(Compile, s, node)
                 b == SecondArgument(Compile, s, node)
      <3>1. Body(Compile, s, node, reg) = Apply2(s, node, reg, a, b)
        BY <2>7 DEF Body
      <3>2. node.args[1] \in Nodes /\ Depth[node.args[1]] < Depth[node]
        BY <2>3, <2>7 DEF NodeForm
      <3>3. Passes(s, a)
        BY <1>3, <1>4, <3>2 DEF CompilesSoundly, Compiled, FirstArgument
      <3> HIDE DEF a
      <3>4. a.cs \in CompilerStates /\ Sound(a.cs)
        BY <3>3 DEF Passes
      <3>5. (Passes(s, b) /\ Grown(a.cs, b.cs)) \/ b = [cs |-> a.cs, reg |-> 0]
        <4>1. CASE Len(node.args) = 2
          <5>1. node.args[2] \in Nodes /\ Depth[node.args[2]] < Depth[node]
            BY <2>3, <2>7, <4>1 DEF NodeForm
          <5>2. b = Compile[<<a.cs, node.args[2], -1>>]
            BY <4>1 DEF SecondArgument, a
          <5> HIDE DEF b
          <5>3. Passes(a.cs, b)
            BY <1>3, <3>4, <5>1, <5>2 DEF CompilesSoundly, Compiled
          <5>4. Grown(s, a.cs) /\ Quiet(s, a.cs)
            BY <3>3 DEF Passes
          <5>5. Passes(s, b)
            BY <1>4, <3>4, <5>3, <5>4, PassesAfter
          <5> QED BY <5>3, <5>5 DEF Passes
        <4>2. CASE Len(node.args) # 2
          BY <4>2 DEF SecondArgument, a
        <4> QED BY <4>1, <4>2
      <3> HIDE DEF b
      <3>6. Named(a.cs) \subseteq Named(b.cs)
        <4>1. CASE Passes(s, b) /\ Grown(a.cs, b.cs)
          BY <3>4, <4>1, GrownNames DEF Passes
        <4>2. CASE b = [cs |-> a.cs, reg |-> 0]
          BY <4>2
        <4> QED BY <3>5, <4>1, <4>2
      <3>7. node.label # "/"
        BY DEF NoDivision
      <3>8. Compiled(s, reg, Apply2(s, node, reg, a, b))
        BY <1>4, <3>3, <3>5, <3>6, <3>7, ApplySound
      <3> QED BY <2>2, <3>1, <3>8
    <2> QED BY <2>5, <2>6, <2>7
  <1>5. CompilesSoundly(node)
    BY <1>4 DEF CompilesSoundly
  <1> QED BY <1>2, <1>5

\* Each equation, from a target with a register.
LEMMA EquationSound ==
  ASSUME NoDivision, NEW s \in CompilerStates, Sound(s), NEW eq, eq.node \in Nodes, eq.target \in Names
  PROVE  CompileEquation(s, eq).cs \in CompilerStates /\ Sound(CompileEquation(s, eq).cs)
  <1> DEFINE t == <<"var", eq.target>>
             r == AddTerminal(s, t)
  <1>1. t \in Terminals /\ t # Unused
    <2> DEFINE n == eq.target
    <2> HIDE DEF n, Names
    <2>1. n \in Names
      BY DEF n
    <2>2. <<"var", n>> \in Terminals /\ <<"var", n>> # Unused
      BY <2>1 DEF Terminals, Unused
    <2> QED BY <2>2 DEF n
  <1> HIDE DEF t
  <1>2. Passes(s, r) /\ (r.reg # -1 => r.reg \in Used(r.cs))
    BY <1>1, TerminalSound
  <1>3. CompileEquation(s, eq) = IF r.reg < 0 THEN r ELSE Compile[<<r.cs, eq.node, r.reg>>]
    BY DEF CompileEquation, t
  <1> HIDE DEF r
  <1>4. r.cs \in CompilerStates /\ Sound(r.cs)
    BY <1>2 DEF Passes
  <1>5. CASE r.reg < 0
    BY <1>3, <1>4, <1>5
  <1>6. CASE ~(r.reg < 0)
    <2>1. r.reg \in Used(r.cs)
      BY <1>2, <1>6
    <2>2. Emits(r.cs, r.reg, Compile[<<r.cs, eq.node, r.reg>>])
      BY <1>4, <2>1, CompileSound DEF CompilesSoundly, Compiled
    <2> QED BY <1>3, <1>6, <2>2 DEF Emits
  <1> QED BY <1>5, <1>6

LEMMA InitSound == CompilerInit \in CompilerStates /\ Sound(CompilerInit)
  <1> DEFINE s == CompilerInit
  <1>1. s.n_vregs = RegCount /\ s.terminals = [r \in Regs |-> Unused] /\ s.prog = <<>>
    BY DEF CompilerInit
  <1>2. Unused \in Terminals
    BY DEF Terminals
  <1>3. s \in CompilerStates
    <2>1. <<>> \in Seq(Isns) /\ RegCount \in Nat
      BY SizesAssumption
    <2> HIDE DEF Unused
    <2> QED BY <1>2, <2>1 DEF CompilerStates, CompilerInit
  <1> HIDE DEF s
  <1>4. Sound(s)
    BY <1>1, SizesAssumption DEF Sound, Used, Distinct
  <1> QED BY <1>3, <1>4 DEF s

\* What is compiled can be scheduled.
FrameKeep == Reserved \cup Used(cs)

LEMMA SoundSchedulable ==
  ASSUME NEW s \in CompilerStates, Sound(s)
  PROVE  Schedulable(s.prog, Reserved \cup Used(s))
  <1> DEFINE keep == Reserved \cup Used(s)
  <1>1. s.prog \in Seq(Isns)
    BY ProgFacts
  <1>2. Reserved \subseteq Regs /\ Used(s) \subseteq Regs /\ {0, 1, 2} \subseteq Reserved
    BY SizesAssumption DEF Reserved, Regs, RegOut, Used
  <1>3. /\ Named(s) \subseteq Nat /\ Used(s) \cap Reserved = {}
        /\ \A p \in Named(s) : p < RegCount => p \in Used(s)
    <2>1. Virtual(s) \cap 0..(RegCount - 1) = {}
      BY ProgFacts, SizesAssumption DEF Virtual
    <2>2. \A p \in Named(s) : p < RegCount => p \in Used(s)
      BY <2>1, NamedInt, SizesAssumption
    <2> QED BY <2>2, NamedInt
  <1>4. ASSUME NEW m \in DOMAIN s.prog
        PROVE  /\ s.prog[m].op \in Opcodes
               /\ s.prog[m].dest \in Nat \ {0, 1, 2}
               /\ s.prog[m].dest < RegCount => s.prog[m].dest \in keep
               /\ \A reg \in Operands(s.prog[m]) : reg \in Nat /\ (reg < RegCount => reg \in keep)
    <2>1. Emitted(s, s.prog[m]) /\ s.prog[m].dest \in Named(s)
      BY DEF Sound, Named, Dests
    <2>2. s.prog[m].dest \in Nat \ {0, 1, 2}
      <3>1. \A p \in Virtual(s) : p >= 15
        BY ProgFacts, SizesAssumption DEF Virtual
      <3> QED BY <1>2, <1>3, <2>1, <3>1 DEF Emitted
    <2>3. \A reg \in Operands(s.prog[m]) : reg \in Nat /\ (reg < RegCount => reg \in keep)
      BY <1>2, <1>3, <2>1 DEF Emitted
    <2> QED BY <1>3, <2>1, <2>2, <2>3 DEF Emitted
  <1>5. \A m, n \in DOMAIN s.prog :
          s.prog[m].dest = s.prog[n].dest /\ s.prog[m].dest >= RegCount => m = n
    BY DEF Sound
  <1> QED BY <1>1, <1>2, <1>4, <1>5 DEF Schedulable

-----------------------------------------------------------------------------
(* The dummy DMA at the end of the per-frame program *)

Dma == Isn("copy", 0, 0, RegOut)
WithDma(prog) == Append(prog, Dma)

LEMMA DmaFacts ==
  ASSUME NEW prog \in Seq(Isns)
  PROVE  /\ WithDma(prog) \in Seq(Isns) /\ Len(WithDma(prog)) = Len(prog) + 1
         /\ DOMAIN prog = 1..Len(prog) /\ DOMAIN WithDma(prog) = 1..(Len(prog) + 1)
         /\ Len(prog) \in Nat
         /\ WithDma(prog)[Len(prog) + 1] = Dma
         /\ \A m \in 1..Len(prog) : WithDma(prog)[m] = prog[m]
         /\ Dma.op = "copy" /\ Dma.a = 0 /\ Dma.b = 0 /\ Dma.dest = RegOut /\ Operands(Dma) = {0}
         /\ Arity(Dma.op) = 1 /\ Latency[Dma.op] = 2
  <1>1. Dma \in Isns /\ Dma.op = "copy" /\ Dma.a = 0 /\ Dma.b = 0 /\ Dma.dest = RegOut
    BY SizesAssumption DEF Dma, Isn, Isns, Latency, RegOut
  <1>2. Arity(Dma.op) = 1 /\ Operands(Dma) = {0} /\ Latency[Dma.op] = 2
    BY <1>1 DEF Arity, Operands, Latency
  <1> HIDE DEF Dma
  <1> QED BY <1>1, <1>2 DEF WithDma

LEMMA DmaSchedulable ==
  ASSUME NEW prog, NEW keep, Schedulable(prog, keep)
  PROVE  Schedulable(WithDma(prog), keep)
  <1> DEFINE P == WithDma(prog)
             N == Len(prog) + 1
  <1>1. /\ P \in Seq(Isns) /\ DOMAIN prog = 1..Len(prog) /\ DOMAIN P = 1..N /\ Len(prog) \in Nat
        /\ P[N] = Dma /\ \A m \in 1..Len(prog) : P[m] = prog[m]
        /\ Dma.op = "copy" /\ Dma.dest = RegOut /\ Operands(Dma) = {0}
    BY DmaFacts DEF Schedulable
  <1>2. /\ RegOut \in Nat \ {0, 1, 2} /\ RegOut \in keep /\ 0 \in keep /\ RegOut < RegCount
        /\ RegCount \in Nat
    BY SizesAssumption DEF RegOut, Schedulable, Reserved
  <1> HIDE DEF P
  <1>3. ASSUME NEW m \in DOMAIN P
        PROVE  /\ P[m].op \in Opcodes
               /\ P[m].dest \in Nat \ {0, 1, 2}
               /\ P[m].dest < RegCount => P[m].dest \in keep
               /\ \A reg \in Operands(P[m]) : reg \in Nat /\ (reg < RegCount => reg \in keep)
    <2>1. CASE m = N
      BY <1>1, <1>2, <2>1 DEF Opcodes
    <2>2. CASE m # N
      <3>1. m \in DOMAIN prog /\ P[m] = prog[m]
        BY <1>1, <2>2
      <3> QED BY <3>1 DEF Schedulable
    <2> QED BY <2>1, <2>2
  <1>4. ASSUME NEW m \in DOMAIN P, NEW n \in DOMAIN P, P[m].dest = P[n].dest, P[m].dest >= RegCount
        PROVE  m = n
    <2>1. m # N /\ n # N
      BY <1>1, <1>2, <1>4
    <2>2. m \in DOMAIN prog /\ n \in DOMAIN prog /\ P[m] = prog[m] /\ P[n] = prog[n]
      BY <1>1, <2>1
    <2> QED BY <1>4, <2>2 DEF Schedulable
  <1> QED BY <1>1, <1>3, <1>4 DEF Schedulable, P

\* The DMA is still to be scheduled ...
LEMMA DmaAwaits ==
  ASSUME NEW prog, NEW keep, NEW x, NEW w, NEW y, NEW last \in Cycles,
         Schedulable(prog, keep), Schedule(prog, keep, x, w), LastExit(prog, x, last),
         y = [m \in DOMAIN WithDma(prog) |-> IF m = Len(prog) + 1 THEN -1 ELSE x[m]]
  PROVE  Schedule(WithDma(prog), keep, y, w) /\ Begun(WithDma(prog), y, last)
  <1> DEFINE P == WithDma(prog)
             N == Len(prog) + 1
  <1>1. /\ DOMAIN prog = 1..Len(prog) /\ DOMAIN P = 1..N /\ Len(prog) \in Nat
        /\ \A m \in 1..Len(prog) : P[m] = prog[m]
    BY DmaFacts DEF Schedulable
  <1>2. /\ x \in [DOMAIN prog -> -1..(ProgSize - 1)] /\ w \in [Cycles -> Microwords]
        /\ Placed(prog, keep, x, w) /\ Alone(prog, x) /\ Accounted(prog, x, w)
        /\ Ordered(prog, x) /\ Fed(prog, keep, x, w)
    BY DEF Schedule
  <1> HIDE DEF P
  <1>3. /\ y \in [DOMAIN P -> -1..(ProgSize - 1)]
        /\ y[N] = -1
        /\ \A m \in DOMAIN prog :
             m \in DOMAIN P /\ P[m] = prog[m] /\ y[m] = x[m] /\ Start(P, y, m) = Start(prog, x, m)
        /\ \A m \in DOMAIN P : y[m] # -1 => m \in DOMAIN prog
    <2>1. y = [m \in 1..N |-> IF m = N THEN -1 ELSE x[m]] /\ N \in 1..N
      BY <1>1 DEF P
    <2>2. \A m \in 1..N : m # N => m \in DOMAIN prog
      BY <1>1
    <2>3. \A m \in DOMAIN prog : m \in 1..N /\ m # N
      BY <1>1
    <2>4. -1 \in -1..(ProgSize - 1)
      BY SizesAssumption
    <2>5. y \in [DOMAIN P -> -1..(ProgSize - 1)]
      BY <1>1, <1>2, <2>1, <2>2, <2>4
    <2> QED BY <1>1, <2>1, <2>2, <2>3, <2>5 DEF Start
  <1>4. Placed(P, keep, y, w)
    BY <1>2, <1>3 DEF Placed
  <1>5. Alone(P, y)
    BY <1>2, <1>3 DEF Alone
  <1>6. Accounted(P, y, w)
    <2> SUFFICES ASSUME NEW b \in Cycles
                 PROVE  /\ w[b].op # "nop" => \E m \in DOMAIN P : y[m] # -1 /\ Start(P, y, m) = b
                        /\ w[b].op = "nop" => w[b].a = 0
                        /\ w[b].dest # 0 => \E m \in DOMAIN P : y[m] = b
      BY DEF Accounted
    <2>1. ASSUME w[b].op # "nop" PROVE \E m \in DOMAIN P : y[m] # -1 /\ Start(P, y, m) = b
      <3>1. PICK m \in DOMAIN prog : x[m] # -1 /\ Start(prog, x, m) = b
        BY <1>2, <2>1 DEF Accounted
      <3> QED BY <1>3, <3>1
    <2>2. ASSUME w[b].dest # 0 PROVE \E m \in DOMAIN P : y[m] = b
      <3>1. PICK m \in DOMAIN prog : x[m] = b
        BY <1>2, <2>2 DEF Accounted
      <3> QED BY <1>3, <3>1
    <2> QED BY <1>2, <2>1, <2>2 DEF Accounted
  <1>7. Ordered(P, y)
    <2> SUFFICES ASSUME NEW m \in DOMAIN P, NEW n \in DOMAIN P, m < n, y[n] # -1
                 PROVE  /\ P[n].dest \in Operands(P[m]) =>
                             y[m] # -1 /\ Start(P, y, m) < Start(P, y, n)
                        /\ P[m].dest = P[n].dest => y[m] # -1 /\ y[m] < y[n]
                        /\ P[m].dest \in Operands(P[n]) => y[m] # -1 /\ y[m] < Start(P, y, n)
      BY DEF Ordered
    <2>1. n \in DOMAIN prog /\ m \in DOMAIN prog
      BY <1>1, <1>3
    <2> QED BY <1>2, <1>3, <2>1 DEF Ordered
  <1>8. Fed(P, keep, y, w)
    <2>1. ASSUME NEW n \in DOMAIN prog, NEW reg, NEW p, Feeds(prog, keep, x, w, n, reg, p)
          PROVE  Feeds(P, keep, y, w, n, reg, p)
      <3>1. \/ reg \in keep /\ p = reg
            \/ /\ reg >= RegCount
               /\ \E m \in DOMAIN P : m < n /\ P[m].dest = reg /\ y[m] # -1 /\ w[y[m]].dest = p
        BY <1>3, <2>1 DEF Feeds
      <3>2. ASSUME NEW k \in DOMAIN P, y[k] # -1, w[y[k]].dest = p, y[k] < Start(P, y, n)
            PROVE  \E m \in DOMAIN P : m < n /\ P[m].dest = reg /\ y[k] <= y[m]
        <4>1. k \in DOMAIN prog /\ x[k] # -1 /\ w[x[k]].dest = p /\ x[k] < Start(prog, x, n)
          BY <1>3, <3>2
        <4>2. PICK m \in DOMAIN prog : m < n /\ prog[m].dest = reg /\ x[k] <= x[m]
          BY <2>1, <4>1 DEF Feeds
        <4> QED BY <1>3, <4>1, <4>2
      <3> QED BY <2>1, <3>1, <3>2 DEF Feeds
    <2> SUFFICES ASSUME NEW n \in DOMAIN P, y[n] # -1
                 PROVE  /\ Arity(P[n].op) >= 1 => Feeds(P, keep, y, w, n, P[n].a, w[Start(P, y, n)].a)
                        /\ Arity(P[n].op) = 2 => Feeds(P, keep, y, w, n, P[n].b, w[Start(P, y, n)].b)
      BY DEF Fed
    <2>2. n \in DOMAIN prog /\ x[n] # -1 /\ P[n] = prog[n] /\ Start(P, y, n) = Start(prog, x, n)
      BY <1>3
    <2>3. /\ Arity(prog[n].op) >= 1 => Feeds(prog, keep, x, w, n, prog[n].a, w[Start(prog, x, n)].a)
          /\ Arity(prog[n].op) = 2 => Feeds(prog, keep, x, w, n, prog[n].b, w[Start(prog, x, n)].b)
      BY <1>2, <2>2 DEF Fed
    <2> QED BY <2>1, <2>2, <2>3
  <1>9. Begun(P, y, last)
    <2> SUFFICES ASSUME NEW m \in DOMAIN P, y[m] # -1 PROVE Start(P, y, m) < last
      BY DEF Begun
    <2>1. m \in DOMAIN prog /\ x[m] <= last /\ x[m] \in Int /\ prog[m].op \in Opcodes
      BY <1>2, <1>3, SizesAssumption DEF LastExit, Schedulable
    <2>2. Latency[prog[m].op] \in 2..5
      BY <2>1, Latencies
    <2>3. Start(P, y, m) = x[m] - Latency[prog[m].op]
      BY <1>3, <2>1 DEF Start
    <2>4. last \in Int
      BY DEF Cycles
    <2> QED BY <2>1, <2>2, <2>3, <2>4
  <1> QED BY <1>2, <1>3, <1>4, <1>5, <1>6, <1>7, <1>8, <1>9 DEF Schedule, P

\* ... two cycles after the last result, which nothing else is in the way of.
LEMMA DmaPlaced ==
  ASSUME NEW s, NEW prog, NEW keep, NEW c, Scheduled(prog, keep, s, c), s.last_exit # -1,
         s.last_exit + 2 < ProgSize, NEW n, n = s.last_exit
  PROVE  /\ DummyDma(s).last_exit = n + 2
         /\ DummyDma(s).prog \in [Cycles -> Microwords]
         /\ n \in Cycles /\ n + 2 \in Cycles
         /\ DummyDma(s).prog[n].op = "copy" /\ DummyDma(s).prog[n + 2].dest = RegOut
         /\ \A b \in Cycles : DummyDma(s).prog[b].a = s.prog[b].a /\ DummyDma(s).prog[b].b = s.prog[b].b
         /\ \A b \in Cycles \ {n} : DummyDma(s).prog[b].op = s.prog[b].op
         /\ \A b \in Cycles \ {n + 2} : DummyDma(s).prog[b].dest = s.prog[b].dest
  <1>1. n \in Cycles /\ n + 2 \in Cycles /\ n # n + 2 /\ n \in Int
    BY SizesAssumption DEF Scheduled, LastExit, Cycles
  <1>2. s.prog \in [Cycles -> Microwords]
    BY DEF Scheduled, Schedule
  <1>3. s = [dont_touch |-> s.dont_touch, allocation |-> s.allocation, exits |-> s.exits,
             prog |-> s.prog, last_exit |-> s.last_exit]
    BY DEF Scheduled
  <1>4. s.prog[n] \in Microwords /\ s.prog[n + 2] \in Microwords
    BY <1>1, <1>2
  <1>5. DummyDma(s).last_exit = n + 2
    BY <1>3 DEF DummyDma, Latency
  <1>6. DummyDma(s).prog = [[s.prog EXCEPT ![n].op = "copy"] EXCEPT ![n + 2].dest = RegOut]
    BY <1>3 DEF DummyDma, Latency
  <1> DEFINE copy == [op |-> "copy", a |-> s.prog[n].a, b |-> s.prog[n].b, dest |-> s.prog[n].dest]
             out == [op |-> s.prog[n + 2].op, a |-> s.prog[n + 2].a, b |-> s.prog[n + 2].b,
                     dest |-> RegOut]
  <1>7. DummyDma(s).prog = [[s.prog EXCEPT ![n] = copy] EXCEPT ![n + 2] = out]
    BY <1>1, <1>2, <1>4, <1>6 DEF Microwords
  <1>8. /\ copy \in Microwords /\ copy.op = "copy" /\ copy.a = s.prog[n].a /\ copy.b = s.prog[n].b
        /\ copy.dest = s.prog[n].dest
    BY <1>4 DEF Microwords, Opcodes
  <1>9. /\ out \in Microwords /\ out.op = s.prog[n + 2].op /\ out.a = s.prog[n + 2].a
        /\ out.b = s.prog[n + 2].b /\ out.dest = RegOut
    BY <1>4, SizesAssumption DEF Microwords, RegOut, Regs
  <1> HIDE DEF copy, out
  <1> DEFINE u == DummyDma(s).prog
  <1>10. /\ u \in [Cycles -> Microwords] /\ u[n] = copy /\ u[n + 2] = out
         /\ \A b \in Cycles \ {n, n + 2} : u[b] = s.prog[b]
    BY <1>1, <1>2, <1>7, <1>8, <1>9
  <1> HIDE DEF u
  <1>11. /\ \A b \in Cycles : u[b].a = s.prog[b].a /\ u[b].b = s.prog[b].b
         /\ \A b \in Cycles \ {n} : u[b].op = s.prog[b].op
         /\ \A b \in Cycles \ {n + 2} : u[b].dest = s.prog[b].dest
    BY <1>1, <1>8, <1>9, <1>10
  <1>12. u[n].op = "copy" /\ u[n + 2].dest = RegOut
    BY <1>8, <1>9, <1>10
  <1> QED BY <1>1, <1>5, <1>10, <1>11, <1>12 DEF u

LEMMA DmaReady ==
  ASSUME NEW prog, NEW keep, NEW x, NEW w, NEW y, NEW last \in Cycles, last + 2 \in Cycles,
         Schedulable(prog, keep), Schedule(prog, keep, x, w), LastExit(prog, x, last),
         \A m \in DOMAIN prog : x[m] # -1 /\ prog[m].dest # RegOut,
         y = [m \in DOMAIN WithDma(prog) |-> IF m = Len(prog) + 1 THEN -1 ELSE x[m]]
  PROVE  Ready(WithDma(prog), keep, y, w, [r \in Regs |-> Free], last, Len(prog) + 1, RegOut)
  <1> DEFINE P == WithDma(prog)
             N == Len(prog) + 1
  <1>1. /\ DOMAIN prog = 1..Len(prog) /\ DOMAIN P = 1..N /\ Len(prog) \in Nat
        /\ \A m \in 1..Len(prog) : P[m] = prog[m]
        /\ P[N] = Dma /\ Dma.dest = RegOut /\ Operands(Dma) = {0} /\ Latency[Dma.op] = 2
    BY DmaFacts DEF Schedulable
  <1>2. /\ RegOut \in Regs /\ RegOut # 0 /\ ~(RegOut >= RegCount) /\ last \in Int
        /\ last + 2 \in Cycles
    BY SizesAssumption DEF RegOut, Regs, Cycles
  <1>3. \A m \in DOMAIN prog : x[m] \in Int /\ x[m] <= last
    BY SizesAssumption DEF Schedule, LastExit
  <1> HIDE DEF P, Dma
  <1>4. /\ N \in DOMAIN P /\ y[N] = -1
        /\ \A m \in DOMAIN P : m # N => m \in DOMAIN prog /\ P[m] = prog[m] /\ y[m] = x[m]
    <2>1. y = [m \in 1..N |-> IF m = N THEN -1 ELSE x[m]] /\ N \in 1..N
      BY <1>1 DEF P
    <2>2. \A m \in 1..N : m # N => m \in DOMAIN prog
      BY <1>1
    <2> QED BY <1>1, <2>1, <2>2
  <1>5. w[last + 2].dest = 0
    <2> SUFFICES ASSUME w[last + 2].dest # 0 PROVE FALSE
      OBVIOUS
    <2>1. PICK m \in DOMAIN prog : x[m] = last + 2
      BY DEF Schedule, Accounted
    <2> QED BY <1>2, <1>3, <2>1
  <1>6. ASSUME NEW m \in DOMAIN P, m < N
        PROVE  /\ P[m].dest \in Operands(P[N]) \cup {P[N].dest} => y[m] # -1 /\ y[m] < last
               /\ P[N].dest \in Operands(P[m]) => y[m] # -1
    <2>1. m \in DOMAIN prog /\ P[m] = prog[m] /\ y[m] = x[m] /\ x[m] # -1 /\ prog[m].dest # RegOut
      BY <1>1, <1>4, <1>6
    <2>2. prog[m].dest # 0
      BY <2>1 DEF Schedulable
    <2> QED BY <1>1, <2>1, <2>2
  <1>7. ASSUME NEW k \in DOMAIN P, y[k] # -1, w[y[k]].dest = RegOut PROVE y[k] < last
    <2>1. k \in DOMAIN prog /\ y[k] = x[k] /\ prog[k].dest # RegOut /\ prog[k].dest \in Nat
      BY <1>4, <1>7 DEF Schedulable
    <2>2. RegOut \in keep
      BY DEF Schedulable, Reserved
    <2> QED BY <1>7, <2>1, <2>2, SizesAssumption DEF Schedule, Placed
  <1>8. \A m \in DOMAIN P : m < N =>
          /\ P[m].dest \in Operands(P[N]) \cup {P[N].dest} => y[m] # -1 /\ y[m] < last
          /\ P[N].dest \in Operands(P[m]) => y[m] # -1
    BY <1>6
  <1>9. \A k \in DOMAIN P : y[k] # -1 /\ w[y[k]].dest = RegOut => y[k] < last
    BY <1>7
  <1>10. last + Latency[P[N].op] = last + 2 /\ P[N].dest = RegOut
    BY <1>1
  <1> QED BY <1>2, <1>4, <1>5, <1>8, <1>9, <1>10 DEF Ready, P

\* What is loaded for the per-frame program.
LEMMA DmaFitting ==
  ASSUME NEW prog, NEW keep, NEW s, NEW c, Schedulable(prog, keep), Scheduled(prog, keep, s, c),
         Complete(s), s.last_exit # -1, s.last_exit + 2 < ProgSize, s.last_exit + 2 < PageSize,
         \A m \in DOMAIN prog : prog[m].dest # RegOut
  PROVE  Fitting(WithDma(prog), keep, Words(DummyDma(s)))
  <1> DEFINE P == WithDma(prog)
             N == Len(prog) + 1
             last == s.last_exit
             x == s.exits
             w == s.prog
             u == DummyDma(s).prog
             al == [r \in Regs |-> Free]
             y == [m \in DOMAIN P |-> IF m = N THEN -1 ELSE x[m]]
             z == [y EXCEPT ![N] = last + 2]
             code == Words(DummyDma(s))
  <1>1. /\ DummyDma(s).last_exit = last + 2 /\ u \in [Cycles -> Microwords]
        /\ last \in Cycles /\ last + 2 \in Cycles
        /\ u[last].op = "copy" /\ u[last + 2].dest = RegOut
        /\ \A b \in Cycles : u[b].a = w[b].a /\ u[b].b = w[b].b
        /\ \A b \in Cycles \ {last} : u[b].op = w[b].op
        /\ \A b \in Cycles \ {last + 2} : u[b].dest = w[b].dest
    BY DmaPlaced
  <1>2. /\ DOMAIN prog = 1..Len(prog) /\ DOMAIN P = 1..N /\ Len(prog) \in Nat
        /\ \A m \in 1..Len(prog) : P[m] = prog[m]
        /\ P[N] = Dma /\ Dma.dest = RegOut /\ Operands(Dma) = {0} /\ Latency[Dma.op] = 2
        /\ Dma.op = "copy" /\ Arity(Dma.op) = 1 /\ Dma.a = 0
    BY DmaFacts DEF Schedulable
  <1>3. Schedule(prog, keep, x, w) /\ LastExit(prog, x, last)
    BY DEF Scheduled
  <1>4. \A m \in DOMAIN prog : x[m] # -1 /\ x[m] \in Int /\ x[m] <= last
    BY <1>3, SizesAssumption DEF Complete, Schedule, LastExit
  <1>5. Schedulable(P, keep)
    BY DmaSchedulable
  <1> USE DEF Complete
  <1>6. Schedule(P, keep, y, w) /\ Begun(P, y, last)
    BY <1>1, <1>3, DmaAwaits
  <1>7. Ready(P, keep, y, w, al, last, N, RegOut)
    BY <1>1, <1>3, <1>4, DmaReady
  <1> HIDE DEF P, Dma, last, x, w, u, y
  <1>8. /\ y \in [DOMAIN P -> -1..(ProgSize - 1)]
        /\ \A m \in DOMAIN P : m # N => m \in DOMAIN prog /\ y[m] = x[m]
    BY <1>2, <1>6 DEF Schedule, y
  <1>9. Written2(P, w, u, last, N, RegOut)
    BY <1>1, <1>2 DEF Written2
  <1>10. z = [y EXCEPT ![N] = last + Latency[P[N].op]]
    BY <1>2
  <1>11. Held(P, keep, y, w, al)
    BY SizesAssumption DEF Held, Free
  <1>12. w[last].a = 0
    <2> SUFFICES ASSUME w[last].op # "nop" PROVE FALSE
      BY <1>1, <1>3 DEF Schedule, Accounted
    <2>1. PICK m \in DOMAIN prog : x[m] # -1 /\ Start(prog, x, m) = last
      BY <1>1, <1>3 DEF Schedule, Accounted
    <2>2. Latency[prog[m].op] \in 2..5
      BY Latencies DEF Schedulable
    <2>3. x[m] - Latency[prog[m].op] = last
      BY <2>1 DEF Start
    <2> QED BY <1>4, <2>2, <2>3
  <1>13. /\ Arity(P[N].op) >= 1 => P[N].a \in Operands(P[N]) /\ Holds(keep, al, P[N].a, u[last].a)
         /\ Arity(P[N].op) = 2 => P[N].b \in Operands(P[N]) /\ Holds(keep, al, P[N].b, u[last].b)
    BY <1>1, <1>2, <1>12, SizesAssumption DEF Holds, Regs
  <1> HIDE DEF z, al, code
  <1>14. last \in Cycles
    BY <1>1
  <1>15. Placed(P, keep, z, u) /\ Alone(P, z) /\ Begun(P, z, last + 1)
    BY <1>5, <1>6, <1>7, <1>9, <1>10, <1>14, PlacedStep
  <1>16. Accounted(P, z, u) /\ Ordered(P, z)
    BY <1>5, <1>6, <1>7, <1>9, <1>10, <1>14, AccountedStep
  <1>17. Fed(P, keep, z, u)
    BY <1>5, <1>6, <1>7, <1>9, <1>10, <1>11, <1>13, <1>14, FedStep
  <1>18. /\ z \in [DOMAIN P -> -1..(ProgSize - 1)] /\ z[N] = last + 2
         /\ \A m \in DOMAIN P : m # N => m \in DOMAIN prog /\ z[m] = x[m]
    <2>1. N \in DOMAIN P /\ last + 2 \in -1..(ProgSize - 1)
      BY <1>1, <1>2, SizesAssumption DEF Cycles
    <2> QED BY <1>8, <2>1 DEF z
  <1>19. Schedule(P, keep, z, u)
    BY <1>1, <1>15, <1>16, <1>17, <1>18 DEF Schedule
  <1>20. Len(code) = last + 3 /\ code = [i \in 1..Len(code) |-> u[i - 1]] /\ Len(code) \in 0..ProgSize
    <2>1. last + 3 \in Nat /\ last + 3 <= ProgSize
      BY <1>1, SizesAssumption DEF Cycles
    <2>2. code = [i \in 1..(last + 3) |-> u[i - 1]]
      BY <1>1, <2>1 DEF Words, code, u, Cycles
    <2> QED BY <2>1, <2>2, SizesAssumption
  <1>21. ASSUME NEW m \in DOMAIN P PROVE z[m] # -1 /\ z[m] \in Int /\ z[m] <= last + 2
    <2>1. last \in Int /\ last >= 0
      BY <1>1 DEF Cycles
    <2>2. CASE m = N
      BY <1>18, <2>1, <2>2
    <2>3. CASE m # N
      BY <1>4, <1>18, <2>1, <2>3
    <2> QED BY <2>2, <2>3
  <1>22. Ending(P, z)
    <2> SUFFICES ASSUME NEW m \in DOMAIN P, NEW o \in DOMAIN P, P[o].dest = RegOut
                 PROVE  z[m] <= z[o]
      BY DEF Ending
    <2>1. o = N
      BY <1>2, <1>18
    <2> QED BY <1>18, <1>21, <2>1
  <1>23. \E m \in DOMAIN P : P[m].dest = RegOut
    <2>1. N \in DOMAIN P
      BY <1>2
    <2> QED BY <1>2, <2>1
  <1>24. \A m \in DOMAIN P : z[m] # -1 /\ z[m] < Len(code)
    <2>1. last \in Int
      BY <1>1 DEF Cycles
    <2> QED BY <1>20, <1>21, <2>1
  <1>25. Loaded(P, keep, code, z, u)
    BY <1>19, <1>20, <1>22, <1>23, <1>24 DEF Loaded
  <1>26. Len(code) <= PageSize
    <2>1. last \in Int /\ last + 2 < PageSize /\ PageSize \in Int
      BY <1>1, SizesAssumption DEF Cycles, last
    <2> QED BY <1>20, <2>1
  <1> QED BY <1>25, <1>26 DEF Fitting, P, code

-----------------------------------------------------------------------------
(* The per-frame program, from the compiler to the PFPU *)

FrameProgram == WithDma(cs.prog)
\* What it starts from.
FrameFile == LoadRegisters(eval.current, vertex)

Compiling ==
  /\ preset \in Presets /\ equation \in Nat \ {0}
  /\ cs \in CompilerStates /\ Sound(cs)
FrameScheduling ==
  phase \in {"schedule", "finish"} /\ unit = "frame" => Scheduling(cs.prog, FrameKeep)
FrameScheduled ==
  Evaluating \/ (phase \in {"schedule", "finish"} /\ unit = "vertex") =>
    (fits => Fitting(FrameProgram, FrameKeep, eval.perframe))
FrameExecuting ==
  phase = "run" /\ unit = "frame" /\ fits
    => Executing(FrameProgram, FrameKeep, eval.perframe, FrameFile)

FrameInv == PhaseInv /\ Compiling /\ FrameScheduling /\ FrameScheduled /\ FrameExecuting

LEMMA FrameInit == Init => FrameInv
  <1> SUFFICES ASSUME Init PROVE FrameInv
    OBVIOUS
  <1>1. PhaseInv
    BY PhaseInit
  <1>2. phase = "compile" /\ cs = CompilerInit /\ preset \in Presets /\ equation = 1
    BY DEF Init
  <1>3. Compiling
    BY <1>2, InitSound DEF Compiling
  <1> QED BY <1>1, <1>2, <1>3
          DEF FrameInv, FrameScheduling, FrameScheduled, FrameExecuting, Evaluating

\* The equations of a preset.
LEMMA EquationFacts ==
  ASSUME NEW p \in Presets, NEW k \in 1..Len(p.equations)
  PROVE  p.equations[k].node \in Nodes /\ p.equations[k].target \in Names
  <1> DEFINE S == [target : Names, node : DOMAIN Depth]
             eq == p.equations[k]
  <1> HIDE DEF S
  <1>1. p.equations \in Seq(S)
    BY PresetsAssumption DEF S
  <1>2. eq \in S
    BY <1>1
  <1> HIDE DEF eq
  <1>3. eq.node \in DOMAIN Depth /\ eq.target \in Names
    <2> HIDE DEF Names
    <2> QED BY <1>2 DEF S
  <1> QED BY <1>3 DEF eq, Nodes

LEMMA EquationsLength == \A p \in Presets : Len(p.equations) \in Nat
  <1> SUFFICES ASSUME NEW p \in Presets PROVE Len(p.equations) \in Nat
    OBVIOUS
  <1> DEFINE S == [target : Names, node : DOMAIN Depth]
  <1> HIDE DEF S
  <1>1. p.equations \in Seq(S)
    BY PresetsAssumption DEF S
  <1> QED BY <1>1

LEMMA CompilingNext == ASSUME NoDivision PROVE Compiling /\ [Next]_vars => Compiling'
  <1> SUFFICES ASSUME Compiling, [Next]_vars PROVE Compiling'
    OBVIOUS
  <1>1. ASSUME cs' = cs, preset' = preset, equation' = equation PROVE Compiling'
    BY <1>1 DEF Compiling
  <1>2. CASE CompileNext
    <2> DEFINE eq == preset.equations[equation]
    <2>1. cs' = CompileEquation(cs, eq).cs /\ preset' = preset /\ equation' = equation + 1
          /\ equation <= Len(preset.equations)
      BY <1>2 DEF CompileNext
    <2>2. equation \in 1..Len(preset.equations) /\ preset \in Presets
      BY <2>1, EquationsLength DEF Compiling
    <2>3. eq.node \in Nodes /\ eq.target \in Names
      BY <2>2, EquationFacts
    <2> HIDE DEF eq
    <2>4. CompileEquation(cs, eq).cs \in CompilerStates /\ Sound(CompileEquation(cs, eq).cs)
      BY <2>3, EquationSound DEF Compiling
    <2>5. cs' \in CompilerStates /\ Sound(cs')
      BY <2>1, <2>4
    <2>6. preset' \in Presets /\ equation' \in Nat \ {0}
      BY <2>1, <2>2
    <2>7. Sound(cs') => Sound(cs)'
      BY DEF Sound, Distinct, Used, Emitted, Named, Dests, Virtual
    <2> QED BY <2>5, <2>6, <2>7 DEF Compiling
  <1> USE <1>1 DEF compiling
  <1>3. CASE StartSchedule
    BY <1>3 DEF StartSchedule
  <1>4. CASE ScheduleCycle
    BY <1>4 DEF ScheduleCycle
  <1>5. CASE ScheduleEnd
    BY <1>5 DEF ScheduleEnd
  <1>6. CASE FinishFrame
    BY <1>6 DEF FinishFrame
  <1>7. CASE FinishVertex
    BY <1>7 DEF FinishVertex
  <1>8. CASE EvalFrame
    BY <1>8 DEF EvalFrame
  <1>9. CASE Execute
    BY <1>9 DEF Execute
  <1>10. CASE NextVertex
    BY <1>10 DEF NextVertex
  <1>11. CASE FrameDone
    BY <1>11 DEF FrameDone
  <1>12. CASE EvalVertices
    BY <1>12 DEF EvalVertices
  <1>13. CASE VerticesDone
    BY <1>13 DEF VerticesDone
  <1>14. CASE UNCHANGED vars
    BY <1>14 DEF vars
  <1> QED BY <1>2, <1>3, <1>4, <1>5, <1>6, <1>7, <1>8, <1>9, <1>10, <1>11, <1>12, <1>13, <1>14
          DEF Next

\* Its program can be scheduled, and so can the DMA.
LEMMA FrameSchedulable ==
  ASSUME Compiling
  PROVE  Schedulable(cs.prog, FrameKeep) /\ Schedulable(FrameProgram, FrameKeep)
         /\ \A m \in DOMAIN cs.prog : cs.prog[m].dest # RegOut
  <1>1. Schedulable(cs.prog, FrameKeep)
    BY SoundSchedulable DEF Compiling, FrameKeep
  <1>2. ASSUME NEW m \in DOMAIN cs.prog PROVE cs.prog[m].dest # RegOut
    <2>1. cs.prog[m].dest \in Used(cs) \cup Virtual(cs) /\ Used(cs) \cap Reserved = {}
      BY DEF Compiling, Sound, Emitted
    <2>2. RegOut \in Reserved /\ RegOut < RegCount
      BY SizesAssumption DEF Reserved, RegOut
    <2>3. RegOut \notin Virtual(cs)
      BY <2>2, SizesAssumption, ProgFacts DEF Compiling, Virtual, RegOut
    <2> QED BY <2>1, <2>2, <2>3
  <1> QED BY <1>1, <1>2, DmaSchedulable DEF FrameProgram

LEMMA FrameSchedulingNext == FrameInv /\ [Next]_vars => FrameScheduling'
  <1> SUFFICES ASSUME FrameInv, [Next]_vars, phase' \in {"schedule", "finish"}, unit' = "frame"
               PROVE  Scheduling(cs.prog, FrameKeep)'
    BY DEF FrameScheduling
  <1> USE DEF FrameInv, PhaseInv
  <1> PICK prog, keep : prog = cs.prog /\ keep = FrameKeep
    OBVIOUS
  <1>1. ASSUME cs' = cs, Scheduling(prog, keep)' PROVE Scheduling(cs.prog, FrameKeep)'
    BY <1>1 DEF FrameKeep, Used
  <1>2. CASE CompileNext
    BY <1>2 DEF CompileNext
  <1>3. CASE StartSchedule
    <2> DEFINE kept == Used(cs)
    <2>1. /\ visn' = prog /\ cycle' = 0 /\ cs' = cs /\ phase' = "schedule"
          /\ sc' = SchedulerInit(kept, Len(prog))
      BY <1>3 DEF StartSchedule, Goto, compiling, Used
    <2>2. kept \in SUBSET Regs /\ keep = Reserved \cup kept
      BY DEF Used, FrameKeep
    <2>3. Schedulable(prog, keep)
      BY FrameSchedulable
    <2> HIDE DEF kept
    <2>4. Scheduled(prog, keep, SchedulerInit(kept, Len(prog)), 0)
      BY <2>2, <2>3, InitialSchedule
    <2>5. Scheduling(prog, keep)'
      BY <2>1, <2>4 DEF Scheduling
    <2> QED BY <1>1, <2>1, <2>5
  <1>4. CASE ScheduleCycle \/ ScheduleEnd
    <2>1. phase = "schedule" /\ unit = "frame" /\ cs' = cs
      BY <1>4 DEF ScheduleCycle, ScheduleEnd, Goto, compiling
    <2>2. Scheduling(prog, keep) /\ Schedulable(prog, keep)
      BY <2>1, FrameSchedulable DEF FrameScheduling
    <2>3. Scheduling(prog, keep)'
      BY <1>4, <2>2, SchedulingStep
    <2> QED BY <1>1, <2>1, <2>3
  <1>5. CASE FinishFrame
    BY <1>5 DEF FinishFrame
  <1>6. CASE FinishVertex
    BY <1>6 DEF FinishVertex, Goto
  <1>7. CASE EvalFrame
    BY <1>7 DEF EvalFrame, Goto
  <1>8. CASE Execute
    BY <1>8 DEF Execute
  <1>9. CASE NextVertex
    BY <1>9 DEF NextVertex
  <1>10. CASE FrameDone
    BY <1>10 DEF FrameDone, Goto
  <1>11. CASE EvalVertices
    BY <1>11 DEF EvalVertices, Goto
  <1>12. CASE VerticesDone
    BY <1>12 DEF VerticesDone, Goto
  <1>13. CASE UNCHANGED vars
    <2>1. /\ cs' = cs /\ phase \in {"schedule", "finish"} /\ unit = "frame"
          /\ visn' = visn /\ sc' = sc /\ cycle' = cycle /\ phase' = phase /\ fits' = fits
      BY <1>13 DEF vars, compiling, scheduling, history
    <2>2. Scheduling(prog, keep)
      BY <2>1 DEF FrameScheduling
    <2>3. Scheduling(prog, keep)'
      BY <2>1, <2>2 DEF Scheduling, Complete
    <2> QED BY <1>1, <2>1, <2>3
  <1> QED BY <1>2, <1>3, <1>4, <1>5, <1>6, <1>7, <1>8, <1>9, <1>10, <1>11, <1>12, <1>13 DEF Next

LEMMA FrameScheduledNext == FrameInv /\ [Next]_vars => FrameScheduled'
  <1> SUFFICES ASSUME FrameInv, [Next]_vars, fits',
                      Evaluating' \/ (phase' \in {"schedule", "finish"} /\ unit' = "vertex")
               PROVE  Fitting(FrameProgram, FrameKeep, eval.perframe)'
    BY DEF FrameScheduled
  <1> PICK prog, keep, code : prog = cs.prog /\ keep = FrameKeep /\ code = eval.perframe
    OBVIOUS
  <1>1. ASSUME cs' = cs, Fitting(WithDma(prog), keep, eval.perframe)'
        PROVE  Fitting(FrameProgram, FrameKeep, eval.perframe)'
    BY <1>1 DEF FrameProgram, FrameKeep, Used
  <1>2. ASSUME cs' = cs, eval'.perframe = code, fits,
               Evaluating \/ (phase \in {"schedule", "finish"} /\ unit = "vertex")
        PROVE  Fitting(FrameProgram, FrameKeep, eval.perframe)'
    <2>1. Fitting(WithDma(prog), keep, code)
      BY <1>2 DEF FrameInv, FrameScheduled, FrameProgram
    <2>2. Fitting(WithDma(prog), keep, eval.perframe)'
      BY <1>2, <2>1 DEF Fitting
    <2> QED BY <1>1, <1>2, <2>2
  <1>3. EvalForm /\ (phase \in {"compile", "refused", "frame"} => unit = "frame")
    BY DEF FrameInv, PhaseInv
  <1>4. CASE CompileNext
    BY <1>3, <1>4 DEF CompileNext, Evaluating
  <1>5. CASE StartSchedule
    BY <1>3, <1>5 DEF StartSchedule, Goto, Evaluating
  <1>6. CASE ScheduleCycle
    BY <1>2, <1>6 DEF ScheduleCycle, Evaluating, compiling
  <1>7. CASE ScheduleEnd
    BY <1>2, <1>7 DEF ScheduleEnd, Goto, Evaluating, compiling, history
  <1>8. CASE FinishFrame
    <2>1. /\ phase = "finish" /\ unit = "frame" /\ sc.last_exit # -1 /\ cs' = cs
          /\ ~(sc.last_exit + 2 >= ProgSize) /\ fits /\ sc.last_exit + 2 < PageSize
          /\ eval' = [eval EXCEPT !.perframe = Words(DummyDma(sc))]
      BY <1>8 DEF FinishFrame, Evaluating, compiling, Latency
    <2>2. Scheduled(prog, keep, sc, cycle) /\ Complete(sc)
      BY <2>1 DEF FrameInv, FrameScheduling, Scheduling
    <2>3. /\ Schedulable(prog, keep) /\ \A m \in DOMAIN prog : prog[m].dest # RegOut
      BY FrameSchedulable DEF FrameInv
    <2>4. sc.last_exit \in Int
      BY <2>2, SizesAssumption DEF Scheduled, LastExit
    <2>5. sc.last_exit + 2 < ProgSize
      BY <2>1, <2>4, SizesAssumption
    <2>6. Fitting(WithDma(prog), keep, Words(DummyDma(sc)))
      BY <2>1, <2>2, <2>3, <2>5, DmaFitting
    <2>7. eval'.perframe = Words(DummyDma(sc))
      BY <1>3, <2>1 DEF EvalForm
    <2>8. Fitting(WithDma(prog), keep, eval.perframe)'
      BY <2>6, <2>7 DEF Fitting
    <2> QED BY <1>1, <2>1, <2>8
  <1>9. CASE FinishVertex
    BY <1>2, <1>3, <1>9 DEF FinishVertex, Goto, EvalForm, compiling
  <1>10. CASE EvalFrame
    BY <1>2, <1>3, <1>10 DEF EvalFrame, Goto, EvalForm, compiling, Evaluating
  <1>11. CASE Execute
    BY <1>2, <1>11 DEF Execute, Evaluating, compiling, history
  <1>12. CASE NextVertex
    BY <1>2, <1>12 DEF NextVertex, Evaluating, compiling
  <1>13. CASE FrameDone
    BY <1>2, <1>3, <1>13 DEF FrameDone, Goto, EvalForm, compiling, Evaluating, history
  <1>14. CASE EvalVertices
    BY <1>2, <1>14 DEF EvalVertices, Goto, compiling, Evaluating, history
  <1>15. CASE VerticesDone
    BY <1>2, <1>15 DEF VerticesDone, Goto, compiling, Evaluating, history
  <1>16. CASE UNCHANGED vars
    BY <1>2, <1>16 DEF vars, compiling, Evaluating, history
  <1> QED BY <1>4, <1>5, <1>6, <1>7, <1>8, <1>9, <1>10, <1>11, <1>12, <1>13, <1>14, <1>15, <1>16
          DEF Next

LEMMA FrameFileRegs == DOMAIN FrameFile = Regs
  BY DEF FrameFile, LoadRegisters

\* While the program runs, what it started from does not change.
LEMMA FrameFileStays ==
  ASSUME eval' = eval, vertex' = vertex, \A p \in Reserved : regs'[p] = regs[p]
  PROVE  FrameFile' = FrameFile
  BY DEF FrameFile, LoadRegisters

LEMMA FrameExecutingNext == FrameInv /\ [Next]_vars => FrameExecuting'
  <1> SUFFICES ASSUME FrameInv, [Next]_vars, phase' = "run", unit' = "frame", fits'
               PROVE  Executing(FrameProgram, FrameKeep, eval.perframe, FrameFile)'
    BY DEF FrameExecuting
  <1> PICK prog, keep, code, F :
        prog = FrameProgram /\ keep = FrameKeep /\ code = eval.perframe /\ F = FrameFile
    OBVIOUS
  <1>1. Schedulable(prog, keep)
    BY FrameSchedulable DEF FrameInv
  <1>2. ASSUME cs' = cs, eval'.perframe = code, NEW G, G = FrameFile', Executing(prog, keep, code, G)'
        PROVE  Executing(FrameProgram, FrameKeep, eval.perframe, FrameFile)'
    BY <1>2 DEF FrameProgram, FrameKeep, Used
  <1>3. CASE EvalFrame
    <2> DEFINE given == WritePfv("time", InputTime)
    <2> PICK file : file = given
      OBVIOUS
    <2>1. /\ phase = "ready" /\ fits /\ cs' = cs /\ eval' = [eval EXCEPT !.current = file]
          /\ StartPfpu(code, file)
      BY <1>3 DEF EvalFrame, Goto, compiling
    <2>2. eval'.current = file /\ eval'.perframe = code
      BY <2>1 DEF FrameInv, PhaseInv, EvalForm
    <2>3. PICK x, w : Loaded(prog, keep, code, x, w)
      BY <2>1 DEF FrameInv, FrameScheduled, Evaluating, Fitting
    <2>4. Len(code) <= PageSize
      BY <2>1 DEF FrameInv, FrameScheduled, Evaluating, Fitting
    <2>5. /\ regs' = [r \in Regs |-> CASE r = 0 -> <<"x", 0>> [] r = 1 -> <<"y", 0>>
                        [] r \in Reserved \ {0, 1} -> regs[r] [] OTHER -> file[r]]
          /\ FrameFile' = [r \in Regs |-> CASE r = 0 -> <<"x", 0>> [] r = 1 -> <<"y", 0>>
                        [] r \in Reserved \ {0, 1} -> regs'[r] [] OTHER -> file[r]]
      BY <2>1, <2>2 DEF StartPfpu, LoadRegisters, FrameFile
    <2>6. PICK G : G = FrameFile'
      OBVIOUS
    <2>7. keep \subseteq Regs
      BY <1>1 DEF Schedulable
    <2>8. \A p \in keep : G[p] = regs'[p]
      BY <2>5, <2>6, <2>7
    <2>9. Executing(prog, keep, code, G)'
      BY <1>1, <2>1, <2>3, <2>4, <2>8, StartExecuting
    <2> QED BY <1>2, <2>1, <2>2, <2>6, <2>9
  <1>4. CASE Execute
    <2>1. phase = "run" /\ unit = "frame" /\ fits /\ eval' = eval /\ vertex' = vertex /\ cs' = cs
      BY <1>4 DEF Execute, history, compiling
    <2>2. DOMAIN F = Regs /\ Executing(prog, keep, code, F)
      BY <2>1, FrameFileRegs DEF FrameInv, FrameExecuting
    <2>3. Executing(prog, keep, code, F)' /\ \A p \in Reserved : regs'[p] = regs[p]
      BY <1>1, <1>4, <2>2, ExecuteStep
    <2>4. F = FrameFile'
      BY <2>1, <2>3, FrameFileStays
    <2> QED BY <1>2, <2>1, <2>3, <2>4
  <1>5. CASE NextVertex
    BY <1>5 DEF NextVertex
  <1>6. CASE CompileNext
    BY <1>6 DEF CompileNext
  <1>7. CASE StartSchedule
    BY <1>7 DEF StartSchedule, Goto
  <1>8. CASE ScheduleCycle
    BY <1>8 DEF ScheduleCycle
  <1>9. CASE ScheduleEnd
    BY <1>9 DEF ScheduleEnd, Goto
  <1>10. CASE FinishFrame
    BY <1>10 DEF FinishFrame
  <1>11. CASE FinishVertex
    BY <1>11 DEF FinishVertex, Goto
  <1>12. CASE EvalVertices
    BY <1>12 DEF EvalVertices
  <1>13. CASE FrameDone
    BY <1>13 DEF FrameDone, Goto
  <1>14. CASE VerticesDone
    BY <1>14 DEF VerticesDone, Goto
  <1>15. CASE UNCHANGED vars
    <2>1. /\ phase = "run" /\ unit = "frame" /\ fits /\ eval' = eval /\ vertex' = vertex
          /\ cs' = cs /\ regs' = regs /\ mem' = mem /\ pc' = pc /\ pipe' = pipe
      BY <1>15 DEF vars, core, history, compiling
    <2>2. Executing(prog, keep, code, F)
      BY <2>1 DEF FrameInv, FrameExecuting
    <2>3. Executing(prog, keep, code, F)'
      BY <2>1, <2>2 DEF Executing
    <2>4. F = FrameFile'
      BY <2>1, FrameFileStays
    <2> QED BY <1>2, <2>1, <2>3, <2>4
  <1> QED BY <1>3, <1>4, <1>5, <1>6, <1>7, <1>8, <1>9, <1>10, <1>11, <1>12, <1>13, <1>14, <1>15
          DEF Next

LEMMA FrameNext == ASSUME NoDivision PROVE FrameInv /\ [Next]_vars => FrameInv'
  <1> SUFFICES ASSUME FrameInv, [Next]_vars PROVE FrameInv'
    OBVIOUS
  <1>1. PhaseInv'
    BY PhaseNext DEF FrameInv
  <1>2. Compiling'
    BY CompilingNext DEF FrameInv
  <1> QED BY <1>1, <1>2, FrameSchedulingNext, FrameScheduledNext, FrameExecutingNext DEF FrameInv

-----------------------------------------------------------------------------
(* No result is lost *)

LEMMA ExecutingNoCollision ==
  ASSUME NEW prog, NEW keep, NEW code, NEW file,
         Schedulable(prog, keep), Executing(prog, keep, code, file)
  PROVE  /\ Cardinality(Emerging) <= 1
         /\ (mem[pc].dest # 0) <=> (Emerging # {})
         /\ pc < Len(code)
  <1>1. PICK x, w :
          /\ Loaded(prog, keep, code, x, w)
          /\ \A c \in Cycles : c < Len(code) => mem[c] = w[c]
          /\ pc \in Cycles
          /\ Runs(prog, keep, x, w, file, pc, regs, pipe)
    BY Zenon DEF Executing
  <1>2. pc < Len(code) /\ mem[pc] = w[pc]
    BY <1>1, BeforeEnd
  <1>3. Schedule(prog, keep, x, w)
    BY <1>1 DEF Loaded
  <1>4. Leaves(prog, x, w, file, pc, pipe)
    <2>1. InPipe(prog, x, file, pc, pipe)
      BY <1>1 DEF Runs
    <2> QED BY <1>1, <1>3, <2>1, Leaving
  <1>5. CASE w[pc].dest = 0
    <2>1. Emerging = {}
      BY <1>4, <1>5 DEF Leaves, Emerging
    <2>2. Cardinality(Emerging) = 0
      BY <2>1, FS_EmptySet
    <2> QED BY <1>2, <1>5, <2>1, <2>2
  <1>6. CASE w[pc].dest # 0
    <2>1. PICK m \in DOMAIN prog : x[m] = pc
      BY <1>4, <1>6 DEF Leaves
    <2> DEFINE t == Token(prog, x, file, m)
    <2>2. Emerging = {t}
      BY <1>4, <2>1 DEF Leaves, Emerging
    <2> HIDE DEF t
    <2>3. Cardinality(Emerging) = 1
      BY <2>2, FS_Singleton
    <2> QED BY <1>2, <1>6, <2>2, <2>3
  <1> QED BY <1>5, <1>6

\* In every cycle of the PFPU at most one result leaves its pipeline, in exactly the words that
\* name a register (scheduler.c's exits), and each program ends within its microcode: for every
\* preset without a division, whatever the sizes, until a program meets a limit of the hardware.
THEOREM NoResultsCollide == ASSUME NoDivision PROVE Spec => []NoCollision
  <1>1. VertexInv /\ FrameInv => NoCollision
    <2> SUFFICES ASSUME VertexInv, FrameInv, fits, phase = "run"
                 PROVE  /\ Cardinality(Emerging) <= 1
                        /\ (mem[pc].dest # 0) <=> (Emerging # {})
                        /\ pc < Len(Running)
      BY DEF NoCollision
    <2>1. CASE unit = "vertex"
      <3>1. /\ Executing(VertexProgram, VertexKeep, eval.pervertex, VertexFile)
            /\ Schedulable(VertexProgram, VertexKeep)
        BY <2>1, VertexSchedulable DEF VertexInv, VertexExecuting
      <3>2. Running = eval.pervertex
        BY <2>1 DEF Running
      <3> QED BY <3>1, <3>2, ExecutingNoCollision
    <2>2. CASE unit = "frame"
      <3>1. /\ Executing(FrameProgram, FrameKeep, eval.perframe, FrameFile)
            /\ Schedulable(FrameProgram, FrameKeep)
        BY <2>2, FrameSchedulable DEF FrameInv, FrameExecuting
      <3>2. Running = eval.perframe
        BY <2>2 DEF Running
      <3> QED BY <3>1, <3>2, ExecutingNoCollision
    <2> QED BY <2>1, <2>2 DEF FrameInv, PhaseInv
  <1>2. Init => VertexInv /\ FrameInv
    BY VertexInit, FrameInit
  <1>3. VertexInv /\ FrameInv /\ [Next]_vars => (VertexInv /\ FrameInv)'
    BY VertexNext, FrameNext
  <1> QED BY <1>1, <1>2, <1>3, PTL DEF Spec

-----------------------------------------------------------------------------
(* What a program computes goes on from what its beginning does *)

LEMMA CoursePrefix ==
  ASSUME NEW p, NEW q, Len(p) \in Nat, Len(q) \in Nat, Len(p) <= Len(q),
         \A m \in 1..Len(p) : q[m] = p[m], NEW file
  PROVE  \A k \in 0..Len(p) : Course(q, file)[k] = Course(p, file)[k]
  <1> DEFINE C == Course(p, file)
             D == Course(q, file)
             T == {k \in 0..Len(p) : D[k] # C[k]}
  <1>1. /\ C[0] = file /\ \A k \in 1..Len(p) : C[k] = After(p[k], C[k - 1])
        /\ D[0] = file /\ \A k \in 1..Len(q) : D[k] = After(q[k], D[k - 1])
    BY CourseSteps
  <1> HIDE DEF C, D
  <1>2. T = {}
    <2> SUFFICES ASSUME T # {} PROVE FALSE
      OBVIOUS
    <2>1. PICK k \in T : \A j \in T : k <= j
      <3>1. T \in SUBSET Nat
        OBVIOUS
      <3> HIDE DEF T
      <3> QED BY <3>1, Least
    <2>2. k \in 0..Len(p) /\ D[k] # C[k]
      BY <2>1
    <2>3. k \in 1..Len(p) /\ k \in 1..Len(q)
      BY <1>1, <2>2
    <2>4. k - 1 \in 0..Len(p) /\ ~(k <= k - 1)
      BY <2>3
    <2>5. D[k - 1] = C[k - 1]
      BY <2>1, <2>4
    <2> QED BY <1>1, <2>2, <2>3, <2>5
  <1> QED BY <1>2 DEF C, D

\* A register keeps its value while it is not written.
LEMMA CourseKeeps ==
  ASSUME NEW q, Len(q) \in Nat, NEW file, NEW j \in 0..Len(q), NEW r,
         r \in DOMAIN Course(q, file)[j], \A m \in (j + 1)..Len(q) : q[m].dest # r
  PROVE  Course(q, file)[Len(q)][r] = Course(q, file)[j][r]
  <1> DEFINE D == Course(q, file)
             Same(k) == r \in DOMAIN D[k] /\ D[k][r] = D[j][r]
             T == {k \in j..Len(q) : ~Same(k)}
  <1>1. \A k \in 1..Len(q) : D[k] = After(q[k], D[k - 1])
    BY CourseSteps
  <1>2. r \in DOMAIN D[j]
    OBVIOUS
  <1> HIDE DEF D
  <1>3. T = {}
    <2> SUFFICES ASSUME T # {} PROVE FALSE
      OBVIOUS
    <2>1. PICK k \in T : \A i \in T : k <= i
      <3>1. T \in SUBSET Nat
        OBVIOUS
      <3> HIDE DEF T
      <3> QED BY <3>1, Least
    <2>2. k \in j..Len(q) /\ ~Same(k)
      BY <2>1
    <2>3. k # j
      BY <1>2, <2>2
    <2>4. k \in 1..Len(q) /\ k - 1 \in j..Len(q) /\ ~(k <= k - 1) /\ k \in (j + 1)..Len(q)
      BY <2>2, <2>3
    <2>5. r \in DOMAIN D[k - 1] /\ D[k - 1][r] = D[j][r]
      BY <2>1, <2>4
    <2>6. D[k] = After(q[k], D[k - 1]) /\ q[k].dest # r
      BY <1>1, <2>4
    <2> PICK X : X = D[k - 1]
      OBVIOUS
    <2>7. D[k] = After(q[k], X) /\ r \in DOMAIN X /\ X[r] = D[j][r]
      BY <2>5, <2>6
    <2>8. r \in DOMAIN After(q[k], X) /\ After(q[k], X)[r] = X[r]
      BY <2>6, <2>7 DEF After
    <2> QED BY <2>2, <2>7, <2>8
  <1>4. Len(q) \in j..Len(q)
    OBVIOUS
  <1> QED BY <1>3, <1>4 DEF D

\* The registers after the code that has been emitted.
Exec(s, file) == Executed(s.prog, file)

LEMMA ExecDomain ==
  ASSUME NEW s \in CompilerStates, NEW file
  PROVE  DOMAIN Exec(s, file) = DOMAIN file \cup Dests(s)
  <1> DEFINE p == s.prog
  <1>1. Len(p) \in Nat /\ DOMAIN p = 1..Len(p)
    BY ProgFacts
  <1>2. Dests(s) = {p[j].dest : j \in 1..Len(p)}
    BY <1>1 DEF Dests
  <1> HIDE DEF p
  <1>3. \A k \in 0..Len(p) : CourseAt(p, file, k)
    BY <1>1, CourseRegisters
  <1>4. CourseAt(p, file, Len(p))
    BY <1>1, <1>3
  <1> QED BY <1>2, <1>4, ExecutedIsCourse DEF CourseAt, Exec, p

LEMMA ExecIsn ==
  ASSUME NEW s \in CompilerStates, NEW i \in Isns, NEW u, u = WithIsn(s, i), NEW file
  PROVE  Exec(u, file) = After(i, Exec(s, file))
  <1> DEFINE p == s.prog
             q == u.prog
             n == Len(p) + 1
  <1>0. u \in CompilerStates /\ Len(p) \in Nat
    BY ProgFacts, WithIsnFacts
  <1>1. Len(p) \in Nat /\ Len(q) = n /\ q[n] = i /\ \A m \in 1..Len(p) : q[m] = p[m]
    <2>1. Len(q) = n /\ q[n] = i /\ \A m \in 1..Len(p) : q[m] = p[m]
      BY WithIsnFacts
    <2> QED BY <1>0, <2>1
  <1> HIDE DEF p, q
  <1>2. Len(q) \in Nat /\ Len(p) <= Len(q) /\ n \in 1..Len(q) /\ n - 1 = Len(p) /\ Len(p) \in 0..Len(p)
    BY <1>1
  <1>3. Course(q, file)[n] = After(q[n], Course(q, file)[n - 1])
    BY <1>2, CourseSteps
  <1>4. Course(q, file)[Len(p)] = Course(p, file)[Len(p)]
    BY <1>1, <1>2, CoursePrefix
  <1> QED BY <1>1, <1>2, <1>3, <1>4, ExecutedIsCourse DEF Exec, p, q

\* Registers that the code between s and t does not write.
LEMMA ExecKeeps ==
  ASSUME NEW s \in CompilerStates, NEW t \in CompilerStates, Grown(s, t), NEW file, NEW r,
         r \in DOMAIN Exec(s, file),
         \A m \in (Len(s.prog) + 1)..Len(t.prog) : t.prog[m].dest # r
  PROVE  Exec(t, file)[r] = Exec(s, file)[r]
  <1> DEFINE p == s.prog
             q == t.prog
  <1>1. /\ Len(p) \in Nat /\ Len(q) \in Nat /\ Len(p) <= Len(q)
        /\ \A m \in 1..Len(p) : q[m] = p[m]
        /\ \A m \in (Len(p) + 1)..Len(q) : q[m].dest # r
    BY ProgFacts DEF Grown
  <1>2. Exec(s, file) = Course(p, file)[Len(p)] /\ Exec(t, file) = Course(q, file)[Len(q)]
    BY ExecutedIsCourse DEF Exec
  <1> HIDE DEF p, q
  <1>3. Len(p) \in 0..Len(p) /\ Len(p) \in 0..Len(q)
    BY <1>1
  <1>4. Course(q, file)[Len(p)] = Course(p, file)[Len(p)]
    BY <1>1, <1>3, CoursePrefix
  <1>5. r \in DOMAIN Course(q, file)[Len(p)]
    BY <1>2, <1>4
  <1>6. Course(q, file)[Len(q)][r] = Course(q, file)[Len(p)][r]
    BY <1>1, <1>3, <1>5, CourseKeeps
  <1> QED BY <1>2, <1>4, <1>6

LEMMA ExecQuiet ==
  ASSUME NEW s \in CompilerStates, NEW t \in CompilerStates, Sound(s), Grown(s, t), Quiet(s, t),
         NEW file, DOMAIN file = Regs, NEW r \in Regs \cup Named(s)
  PROVE  Exec(t, file)[r] = Exec(s, file)[r]
  <1>1. r \in DOMAIN Exec(s, file)
    BY ExecDomain DEF Named, Used
  <1>2. r \in Int /\ s.n_vregs \in Int /\ ~(r >= s.n_vregs)
    <2>1. s.n_vregs \in Int /\ RegCount \in Nat /\ s.n_vregs >= RegCount
      BY ProgFacts, SizesAssumption DEF Sound
    <2>2. r \in Regs \/ r \in Virtual(s)
      BY NamedInt DEF Used
    <2> QED BY <2>1, <2>2 DEF Regs, Virtual
  <1>3. \A m \in (Len(s.prog) + 1)..Len(t.prog) : t.prog[m].dest # r
    BY <1>2 DEF Quiet
  <1> QED BY <1>1, <1>3, ExecKeeps

-----------------------------------------------------------------------------
(* What an expression means *)

\* The operators have two arguments.  The compiler reads the second one of a node without it,
\* which the parser has not written.
WellApplied ==
  \A node \in Nodes :
    node.label \in (DOMAIN Opcode) \ Trigonometric /\ node.label # "" /\ node.args # <<>> =>
      Len(node.args) = 2

\* Value, v in place of its recursive calls.
ValueBody(v, env, node) ==
  IF node.label = "" THEN Number(node.constant)
  ELSE IF node.args = <<>> THEN env[node.label]
  ELSE IF node.label \notin DOMAIN Opcode \/ \E i \in DOMAIN node.args : v[node.args[i]] = None
       THEN None
  ELSE IF node.label \in Trigonometric
       THEN <<Opcode[node.label], <<"f2i", <<"fmul", Number(Conv), v[node.args[1]]>>>>>>
       ELSE <<Opcode[node.label], v[node.args[1]], v[node.args[2]]>>
Values(env) == CHOOSE v : v = [node \in Nodes |-> ValueBody(v, env, node)]

LEMMA ValueIsBody ==
  ASSUME NEW env, NEW node
  PROVE  Value(env, node) = Values(env)[node]
  BY DEF Value, Values, ValueBody

ShallowNodes(d) == {node \in Nodes : Depth[node] < d}
Evaluates(v, env, d) == \A node \in ShallowNodes(d) : v[node] = ValueBody(v, env, node)

\* A function or an operator.
Applied(node) == node.label # "" /\ node.args # <<>>

LEMMA ArgumentFacts ==
  ASSUME NEW node \in Nodes, Applied(node)
  PROVE  /\ node.args[1] \in Nodes /\ Depth[node.args[1]] < Depth[node]
         /\ Len(node.args) \in {1, 2} /\ DOMAIN node.args = 1..Len(node.args)
         /\ Len(node.args) = 2 => node.args[2] \in Nodes /\ Depth[node.args[2]] < Depth[node]
  <1> DEFINE g == node.args
  <1>1. g \in Seq(Nodes) /\ Len(g) \in 0..2 /\ g # <<>>
    <2>1. node \in DOMAIN Depth
      BY DEF Nodes
    <2> QED BY <2>1, NodesAssumption DEF Nodes, Applied
  <1> HIDE DEF g
  <1>2. Len(g) \in {1, 2} /\ DOMAIN g = 1..Len(g)
    <2>1. DOMAIN g = 1..Len(g) /\ Len(g) \in Nat
      BY <1>1
    <2>2. Len(g) # 0
      BY <1>1
    <2>3. Len(g) \in {1, 2}
      BY <1>1, <2>2
    <2> QED BY <2>1, <2>3
  <1>3. NodeForm(node)
    BY NodeFacts
  <1> QED BY <1>2, <1>3 DEF NodeForm, g, Applied

\* The recursive calls are for nodes less deep.
LEMMA ValueShallow ==
  ASSUME WellApplied, NEW v, NEW u, NEW env, NEW d \in Nat, NEW node \in Nodes, Depth[node] <= d,
         \A n \in ShallowNodes(d) : u[n] = v[n]
  PROVE  ValueBody(u, env, node) = ValueBody(v, env, node)
  <1>1. CASE node.label = "" \/ node.args = <<>>
    BY <1>1 DEF ValueBody
  <1>2. CASE Applied(node)
    <2> DEFINE g == node.args
    <2>1. /\ g[1] \in Nodes /\ Depth[g[1]] < Depth[node] /\ Len(g) \in {1, 2} /\ DOMAIN g = 1..Len(g)
          /\ Len(g) = 2 => g[2] \in Nodes /\ Depth[g[2]] < Depth[node]
      BY <1>2, ArgumentFacts
    <2>2. node.label \in DOMAIN Opcode /\ node.label \notin Trigonometric => Len(g) = 2
      BY <1>2 DEF WellApplied, Applied
    <2>3. /\ ValueBody(u, env, node) =
               IF node.label \notin DOMAIN Opcode \/ \E i \in DOMAIN g : u[g[i]] = None THEN None
               ELSE IF node.label \in Trigonometric
                    THEN <<Opcode[node.label], <<"f2i", <<"fmul", Number(Conv), u[g[1]]>>>>>>
                    ELSE <<Opcode[node.label], u[g[1]], u[g[2]]>>
          /\ ValueBody(v, env, node) =
               IF node.label \notin DOMAIN Opcode \/ \E i \in DOMAIN g : v[g[i]] = None THEN None
               ELSE IF node.label \in Trigonometric
                    THEN <<Opcode[node.label], <<"f2i", <<"fmul", Number(Conv), v[g[1]]>>>>>>
                    ELSE <<Opcode[node.label], v[g[1]], v[g[2]]>>
      BY <1>2 DEF ValueBody, Applied
    <2> HIDE DEF g
    <2>4. \A n \in Nodes : Depth[n] < Depth[node] => u[n] = v[n]
      <3> SUFFICES ASSUME NEW n \in Nodes, Depth[n] < Depth[node] PROVE n \in ShallowNodes(d)
        OBVIOUS
      <3>1. Depth[n] \in Nat /\ Depth[node] \in Nat
        BY NodeDepth
      <3> QED BY <3>1 DEF ShallowNodes
    <2>5. u[g[1]] = v[g[1]] /\ (Len(g) = 2 => u[g[2]] = v[g[2]])
      BY <2>1, <2>4
    <2>6. \A i \in DOMAIN g : u[g[i]] = v[g[i]]
      <3>1. \A i \in DOMAIN g : i = 1 \/ (i = 2 /\ Len(g) = 2)
        BY <2>1
      <3> QED BY <2>5, <3>1
    <2> QED BY <2>2, <2>3, <2>5, <2>6
  <1> QED BY <1>1, <1>2 DEF Applied

LEMMA EvaluatesNext ==
  ASSUME WellApplied, NEW env, NEW d \in Nat, NEW f, f = [n \in ShallowNodes(d) |-> f[n]],
         Evaluates(f, env, d)
  PROVE  \E g : g = [n \in ShallowNodes(d + 1) |-> g[n]] /\ Evaluates(g, env, d + 1)
  <1> DEFINE g == [n \in ShallowNodes(d + 1) |->
                     IF n \in ShallowNodes(d) THEN f[n] ELSE ValueBody(f, env, n)]
  <1>1. ShallowNodes(d) \subseteq ShallowNodes(d + 1)
    <2> SUFFICES ASSUME NEW n \in ShallowNodes(d) PROVE n \in ShallowNodes(d + 1)
      OBVIOUS
    <2>1. n \in Nodes /\ Depth[n] < d
      BY DEF ShallowNodes
    <2>2. Depth[n] \in Int
      BY <2>1, NodeDepth
    <2> QED BY <2>1, <2>2 DEF ShallowNodes
  <1>2. /\ \A n \in ShallowNodes(d) : g[n] = f[n]
        /\ \A n \in ShallowNodes(d + 1) \ ShallowNodes(d) : g[n] = ValueBody(f, env, n)
        /\ g = [n \in ShallowNodes(d + 1) |-> g[n]]
    BY <1>1
  <1> HIDE DEF g
  <1>3. ASSUME NEW n \in ShallowNodes(d + 1) PROVE ValueBody(g, env, n) = ValueBody(f, env, n)
    <2>1. n \in Nodes /\ Depth[n] < d + 1
      BY DEF ShallowNodes
    <2>2. Depth[n] <= d
      BY <2>1, NodeDepth
    <2> QED BY <1>2, <2>1, <2>2, ValueShallow
  <1>4. ASSUME NEW n \in ShallowNodes(d + 1) PROVE g[n] = ValueBody(g, env, n)
    <2>1. CASE n \in ShallowNodes(d)
      BY <1>2, <1>3, <2>1 DEF Evaluates
    <2>2. CASE n \notin ShallowNodes(d)
      BY <1>2, <1>3, <2>2
    <2> QED BY <2>1, <2>2
  <1> QED BY <1>2, <1>4 DEF Evaluates

LEMMA SomeValues ==
  ASSUME WellApplied, NEW env
  PROVE  \A d \in Nat : \E f : f = [n \in ShallowNodes(d) |-> f[n]] /\ Evaluates(f, env, d)
  <1> DEFINE Is(d) == \E f : f = [n \in ShallowNodes(d) |-> f[n]] /\ Evaluates(f, env, d)
             T == {d \in Nat : ~Is(d)}
  <1>1. T = {}
    <2> SUFFICES ASSUME T # {} PROVE FALSE
      OBVIOUS
    <2>1. PICK d \in T : \A e \in T : d <= e
      <3>1. T \in SUBSET Nat
        OBVIOUS
      <3> HIDE DEF T
      <3> QED BY <3>1, Least
    <2>2. CASE d = 0
      <3>1. ShallowNodes(0) = {}
        <4> SUFFICES ASSUME NEW n \in ShallowNodes(0) PROVE FALSE
          OBVIOUS
        <4>1. n \in Nodes /\ Depth[n] < 0
          BY DEF ShallowNodes
        <4> QED BY <4>1, NodeDepth
      <3> DEFINE f == [n \in {} |-> n]
      <3>2. f = [n \in {} |-> f[n]]
        OBVIOUS
      <3>3. f = [n \in ShallowNodes(0) |-> f[n]] /\ Evaluates(f, env, 0)
        BY <3>1, <3>2 DEF Evaluates
      <3> QED BY <2>1, <2>2, <3>3
    <2>3. CASE d # 0
      <3>1. d - 1 \in Nat /\ ~(d <= d - 1) /\ (d - 1) + 1 = d
        BY <2>1, <2>3
      <3>2. Is(d - 1)
        BY <2>1, <3>1
      <3>3. PICK e \in Nat : e = d - 1
        BY <3>1
      <3>4. PICK f : f = [n \in ShallowNodes(e) |-> f[n]] /\ Evaluates(f, env, e)
        BY <3>2, <3>3
      <3>5. \E g : g = [n \in ShallowNodes(e + 1) |-> g[n]] /\ Evaluates(g, env, e + 1)
        BY <3>4, EvaluatesNext
      <3>6. Is(d)
        BY <3>1, <3>3, <3>5
      <3> QED BY <2>1, <3>6
    <2> QED BY <2>2, <2>3
  <1> QED BY <1>1

LEMMA ValueUnfolds ==
  ASSUME WellApplied, NEW env, NEW node \in Nodes
  PROVE  Value(env, node) = ValueBody(Values(env), env, node)
  <1> DEFINE d == MaxDepth + 1
  <1>1. d \in Nat
    BY SizesAssumption
  <1>2. ShallowNodes(d) = Nodes
    <2> SUFFICES ASSUME NEW n \in Nodes PROVE Depth[n] < d
      BY DEF ShallowNodes
    <2> QED BY NodeDepth, SizesAssumption
  <1>3. PICK f : f = [n \in Nodes |-> f[n]] /\ Evaluates(f, env, d)
    <2> HIDE DEF d
    <2> QED BY <1>1, <1>2, SomeValues
  <1> DEFINE F(h) == [n \in Nodes |-> ValueBody(h, env, n)]
  <1>4. \A n \in Nodes : f[n] = ValueBody(f, env, n)
    BY <1>2, <1>3 DEF Evaluates
  <1>5. f = F(f)
    BY <1>3, <1>4
  <1>6. Values(env) = F(Values(env))
    <2> HIDE DEF F
    <2>1. Values(env) = CHOOSE h : h = F(h)
      BY DEF Values, F
    <2> QED BY <1>5, <2>1
  <1>7. Values(env)[node] = ValueBody(Values(env), env, node)
    BY <1>6
  <1> QED BY <1>7, ValueIsBody

\* The value of a function or operator.
LEMMA ValueApplied ==
  ASSUME WellApplied, NEW env, NEW node \in Nodes, Applied(node), NEW va, va = Value(env, node.args[1]),
         NEW vb, Len(node.args) = 2 => vb = Value(env, node.args[2])
  PROVE  Value(env, node) =
           IF node.label \notin DOMAIN Opcode \/ va = None \/ (Len(node.args) = 2 /\ vb = None) THEN None
           ELSE IF node.label \in Trigonometric
                THEN <<Opcode[node.label], <<"f2i", <<"fmul", Number(Conv), va>>>>>>
                ELSE <<Opcode[node.label], va, vb>>
  <1> DEFINE g == node.args
             v == Values(env)
  <1>1. Len(g) \in {1, 2} /\ DOMAIN g = 1..Len(g)
    BY ArgumentFacts
  <1>2. node.label \in DOMAIN Opcode /\ node.label \notin Trigonometric => Len(g) = 2
    BY DEF WellApplied, Applied
  <1>3. Value(env, node) =
               IF node.label \notin DOMAIN Opcode \/ \E i \in DOMAIN g : v[g[i]] = None THEN None
               ELSE IF node.label \in Trigonometric
                    THEN <<Opcode[node.label], <<"f2i", <<"fmul", Number(Conv), v[g[1]]>>>>>>
                    ELSE <<Opcode[node.label], v[g[1]], v[g[2]]>>
    BY ValueUnfolds DEF ValueBody, Applied
  <1>4. v[g[1]] = va /\ (Len(g) = 2 => v[g[2]] = vb)
    BY ValueIsBody
  <1> HIDE DEF g, v
  <1>5. (\E i \in DOMAIN g : v[g[i]] = None) <=> (va = None \/ (Len(g) = 2 /\ vb = None))
    <2>1. 1..1 = {1} /\ 1..2 = {1, 2}
      OBVIOUS
    <2>2. Len(g) = 1 => DOMAIN g = {1}
      BY <1>1, <2>1
    <2>3. Len(g) = 2 => DOMAIN g = {1, 2}
      BY <1>1, <2>1
    <2> QED BY <1>1, <1>4, <2>2, <2>3
  <1>6. Value(env, node) =
           IF node.label \notin DOMAIN Opcode \/ va = None \/ (Len(g) = 2 /\ vb = None) THEN None
           ELSE IF node.label \in Trigonometric
                THEN <<Opcode[node.label], <<"f2i", <<"fmul", Number(Conv), va>>>>>>
                ELSE <<Opcode[node.label], va, vb>>
    BY <1>2, <1>3, <1>4, <1>5
  <1> QED BY <1>6 DEF g

-----------------------------------------------------------------------------
(* The equations one after the other *)

AssignedTo(equations, env) ==
  CHOOSE e : e = [k \in 0..Len(equations) |-> IF k = 0 THEN env ELSE Assign(equations[k], e[k - 1])]

LEMMA AssignedIsLast ==
  ASSUME NEW equations, NEW env
  PROVE  Assigned(equations, env) = AssignedTo(equations, env)[Len(equations)]
  BY DEF Assigned, AssignedTo

LEMMA AssignedSteps ==
  ASSUME NEW eqs, Len(eqs) \in Nat, NEW env
  PROVE  /\ AssignedTo(eqs, env)[0] = env
         /\ \A k \in 1..Len(eqs) : AssignedTo(eqs, env)[k] = Assign(eqs[k], AssignedTo(eqs, env)[k - 1])
  <1> DEFINE F(g, m) == [k \in 0..m |-> IF k = 0 THEN env ELSE Assign(eqs[k], g[k - 1])]
             Some(m) == \E g : g = F(g, m)
             T == {m \in Nat : ~Some(m)}
  <1>1. T = {}
    <2> SUFFICES ASSUME T # {} PROVE FALSE
      OBVIOUS
    <2>1. PICK m \in T : \A k \in T : m <= k
      BY Least
    <2>2. m \in Nat /\ ~Some(m)
      BY <2>1
    <2>3. CASE m = 0
      <3> DEFINE g == [k \in 0..m |-> env]
      <3>1. g = F(g, m)
        BY <2>3
      <3> QED BY <2>2, <3>1
    <2>4. CASE m > 0
      <3>1. m - 1 \in Nat /\ Some(m - 1)
        <4>1. m - 1 \in Nat /\ ~(m <= m - 1)
          BY <2>2, <2>4
        <4> HIDE DEF Some
        <4> QED BY <2>1, <4>1
      <3>2. PICK h : h = F(h, m - 1)
        BY <3>1
      <3> DEFINE X == Assign(eqs[m], h[m - 1])
                 g == [k \in 0..m |-> IF k = m THEN X ELSE h[k]]
      <3> HIDE DEF X
      <3>3. \A k \in 0..(m - 1) : h[k] = IF k = 0 THEN env ELSE Assign(eqs[k], h[k - 1])
        BY <3>2
      <3>4. \A k \in 0..(m - 1) : g[k] = h[k]
        BY <2>2
      <3>5. g[m] = X
        BY <2>2
      <3>6. \A k \in 0..m : g[k] = IF k = 0 THEN env ELSE Assign(eqs[k], g[k - 1])
        <4> SUFFICES ASSUME NEW k \in 0..m
                     PROVE  g[k] = IF k = 0 THEN env ELSE Assign(eqs[k], g[k - 1])
          OBVIOUS
        <4> HIDE DEF g
        <4>1. CASE k = m
          <5>1. k # 0 /\ g[k - 1] = h[k - 1]
            BY <2>2, <2>4, <3>4, <4>1
          <5> QED BY <3>5, <4>1, <5>1 DEF X
        <4>2. CASE k # m
          <5>1. k \in 0..(m - 1) /\ (k # 0 => k - 1 \in 0..(m - 1))
            BY <2>2, <4>2
          <5> QED BY <3>3, <3>4, <5>1
        <4> QED BY <4>1, <4>2
      <3>7. g = F(g, m)
        BY <3>6
      <3> QED BY <2>2, <3>7
    <2> QED BY <2>2, <2>3, <2>4
  <1>2. Some(Len(eqs))
    <2> HIDE DEF Some
    <2> QED BY <1>1
  <1>3. AssignedTo(eqs, env) = F(AssignedTo(eqs, env), Len(eqs))
    BY <1>2 DEF AssignedTo
  <1> QED BY <1>3

\* Every name has a value.
Environment(env) == DOMAIN env = Names /\ \A n \in Names : env[n] # None

LEMMA AssignFacts ==
  ASSUME NEW env, Environment(env), NEW eq, eq.target \in Names
  PROVE  /\ Environment(Assign(eq, env))
         /\ \A n \in Names \ {eq.target} : Assign(eq, env)[n] = env[n]
  <1> DEFINE x == Value(env, eq.node)
             t == eq.target
  <1>1. Assign(eq, env) = IF x = None THEN env ELSE [env EXCEPT ![t] = x]
    BY DEF Assign
  <1>2. t \in Names
    OBVIOUS
  <1> HIDE DEF x, t, Names, None
  <1>3. /\ Environment(Assign(eq, env))
        /\ \A n \in Names \ {t} : Assign(eq, env)[n] = env[n]
    BY <1>1, <1>2 DEF Environment
  <1> QED BY <1>3 DEF t

LEMMA AssignedFacts ==
  ASSUME NEW p \in Presets, NEW env, Environment(env)
  PROVE  \A k \in 0..Len(p.equations) :
           /\ Environment(AssignedTo(p.equations, env)[k])
           /\ \A n \in Names : (\A j \in 1..k : p.equations[j].target # n) =>
                AssignedTo(p.equations, env)[k][n] = env[n]
  <1> DEFINE eqs == p.equations
             A == AssignedTo(eqs, env)
             Is(k) == /\ Environment(A[k])
                      /\ \A n \in Names : (\A j \in 1..k : eqs[j].target # n) => A[k][n] = env[n]
             T == {k \in 0..Len(eqs) : ~Is(k)}
  <1>1. Len(eqs) \in Nat /\ \A k \in 1..Len(eqs) : eqs[k].target \in Names
    BY EquationFacts, EquationsLength
  <1> HIDE DEF eqs, Names
  <1>2. A[0] = env /\ \A k \in 1..Len(eqs) : A[k] = Assign(eqs[k], A[k - 1])
    BY <1>1, AssignedSteps
  <1> HIDE DEF A
  <1>3. T = {}
    <2> SUFFICES ASSUME T # {} PROVE FALSE
      OBVIOUS
    <2>1. PICK k \in T : \A j \in T : k <= j
      <3>1. T \in SUBSET Nat
        BY <1>1
      <3> HIDE DEF T
      <3> QED BY <3>1, Least
    <2>2. k \in 0..Len(eqs) /\ ~Is(k)
      BY <2>1
    <2>3. k # 0
      BY <1>2, <2>2
    <2>4. k \in 1..Len(eqs) /\ k - 1 \in 0..Len(eqs) /\ ~(k <= k - 1) /\ 1..k = 1..(k - 1) \cup {k}
      BY <1>1, <2>2, <2>3
    <2>5. Is(k - 1)
      BY <2>1, <2>4
    <2> PICK B, eq : B = A[k - 1] /\ eq = eqs[k]
      OBVIOUS
    <2>6. A[k] = Assign(eq, B) /\ eq.target \in Names /\ Environment(B)
      BY <1>1, <1>2, <2>4, <2>5
    <2>7. Environment(Assign(eq, B)) /\ \A n \in Names \ {eq.target} : Assign(eq, B)[n] = B[n]
      BY <2>6, AssignFacts
    <2>8. ASSUME NEW n \in Names, \A j \in 1..k : eqs[j].target # n PROVE A[k][n] = env[n]
      <3>1. B[n] = env[n] /\ n # eq.target
        BY <2>4, <2>5, <2>8
      <3> QED BY <2>6, <2>7, <3>1
    <2> QED BY <2>2, <2>6, <2>7, <2>8
  <1> QED BY <1>3 DEF A, eqs

-----------------------------------------------------------------------------
(* The code of an expression computes its value *)

\* The program is within the limits of the PFPU, and T are the terminals it will end with.
Room(s) == Len(s.prog) < ProgSize /\ \E r \in Regs \ Reserved : s.terminals[r] = Unused
Ample(T, s) == Room(s) /\ \A r \in Used(s) : T[r] = s.terminals[r]

\* The registers of the terminals hold what these stand for.
Matches(T, env, file) ==
  \A r \in Regs : /\ \A n \in Names : T[r] = <<"var", n>> => file[r] = env[n]
                  /\ \A x : T[r] = <<"const", x>> => file[r] = Number(x)

LEMMA AmpleBefore ==
  ASSUME NEW s \in CompilerStates, NEW t \in CompilerStates, Grown(s, t), NEW T, Ample(T, t)
  PROVE  Ample(T, s)
  <1>1. Len(s.prog) < ProgSize
    <2>1. /\ Len(s.prog) \in Int /\ Len(t.prog) \in Int /\ ProgSize \in Int
          /\ Len(s.prog) <= Len(t.prog) /\ Len(t.prog) < ProgSize
      BY ProgFacts, SizesAssumption DEF Grown, Ample, Room
    <2> QED BY <2>1
  <1>2. PICK r \in Regs \ Reserved : t.terminals[r] = Unused
    BY DEF Ample, Room
  <1>3. s.terminals[r] = Unused
    BY <1>2 DEF Grown, Used
  <1>4. \A p \in Used(s) : T[p] = s.terminals[p]
    BY GrownNames DEF Ample, Grown
  <1> QED BY <1>1, <1>3, <1>4 DEF Ample, Room

LEMMA TerminalAmple ==
  ASSUME NEW s \in CompilerStates, Sound(s), NEW t \in Terminals, t # Unused, NEW res,
         res = AddTerminal(s, t), NEW T, Ample(T, res.cs)
  PROVE  res.reg \in Used(res.cs) /\ res.reg \in Regs /\ res.reg # -1 /\ T[res.reg] = t
  <1>1. /\ res.reg # -1 => res.reg \in Used(res.cs) /\ res.cs.terminals[res.reg] = t
        /\ res.reg = -1 => \A r \in Regs \ Reserved : res.cs.terminals[r] # Unused
    BY TerminalSound
  <1>2. res.reg # -1
    BY <1>1 DEF Ample, Room
  <1> QED BY <1>1, <1>2 DEF Ample, Used

AmplyAdded(s, op, a, b, dest, res, T, file) ==
  /\ res.cs \in CompilerStates /\ res.reg = dest /\ Ample(T, s)
  /\ Exec(res.cs, file)[dest] = Term(Isn(op, a, b, dest), Exec(s, file))

LEMMA AddAmple ==
  ASSUME NEW s \in CompilerStates, NEW op \in DOMAIN Latency, NEW a \in Int, NEW b \in Int,
         NEW dest \in Int, NEW res, res = AddIsn(s, op, a, b, dest), NEW T, Ample(T, res.cs), NEW file
  PROVE  AmplyAdded(s, op, a, b, dest, res, T, file)
  <1> DEFINE i == Isn(op, a, b, dest)
             u == WithIsn(s, i)
  <1>1. i \in Isns /\ res = IF Len(s.prog) >= ProgSize THEN [cs |-> s, reg |-> -1] ELSE [cs |-> u, reg |-> dest]
    <2>1. Added(s, op, a, b, dest)
      BY IsnAdded
    <2> QED BY <2>1 DEF Added
  <1>2. i.dest = dest
    BY DEF Isn
  <1> HIDE DEF i, u
  <1>3. ~(Len(s.prog) >= ProgSize)
    <2> SUFFICES ASSUME Len(s.prog) >= ProgSize PROVE FALSE
      OBVIOUS
    <2>1. res.cs = s
      BY <1>1
    <2>2. Len(s.prog) < ProgSize /\ Len(s.prog) \in Int /\ ProgSize \in Int
      BY <2>1, ProgFacts, SizesAssumption DEF Ample, Room
    <2> QED BY <2>2
  <1>4. res.cs = u /\ res.reg = dest
    BY <1>1, <1>3
  <1>5. /\ u \in CompilerStates /\ u.terminals = s.terminals
        /\ Len(u.prog) = Len(s.prog) + 1 /\ \A m \in 1..Len(s.prog) : u.prog[m] = s.prog[m]
        /\ u.n_vregs = s.n_vregs
    BY <1>1, WithIsnFacts DEF u
  <1>6. Grown(s, u)
    <2>1. Len(s.prog) \in Nat /\ s.n_vregs \in Nat
      BY ProgFacts
    <2> QED BY <1>5, <2>1 DEF Grown
  <1>7. Ample(T, s)
    BY <1>4, <1>5, <1>6, AmpleBefore
  <1> PICK F : F = Exec(s, file)
    OBVIOUS
  <1>8. Exec(u, file) = After(i, F)
    BY <1>1, ExecIsn DEF u
  <1>9. After(i, F)[dest] = Term(i, F)
    BY <1>2 DEF After
  <1>10. Exec(res.cs, file)[dest] = Term(i, F)
    BY <1>4, <1>8, <1>9
  <1> QED BY <1>4, <1>5, <1>7, <1>10 DEF i, AmplyAdded

LEMMA SameCode ==
  ASSUME NEW s, NEW t, t.prog = s.prog, NEW file
  PROVE  Exec(t, file) = Exec(s, file)
  BY DEF Exec

LeafRead(s, t, res, T, file) ==
  \E r \in Regs : T[r] = t /\ res.reg # -1 /\ Exec(res.cs, file)[res.reg] = Exec(s, file)[r]
LEMMA LeafAmple ==
  ASSUME NEW s \in CompilerStates, Sound(s), NEW t \in Terminals, t # Unused,
         NEW reg \in {-1} \cup Used(s), NEW res, res = Leaf(s, t, reg), NEW T, NEW file, Ample(T, res.cs)
  PROVE  LeafRead(s, t, res, T, file)
  <1> DEFINE r == AddTerminal(s, t)
  <1>1. Passes(s, r) /\ r.cs.prog = s.prog /\ r.cs \in CompilerStates
    BY TerminalSound DEF Passes
  <1>2. res = IF r.reg = -1 \/ reg < 0 THEN r ELSE AddIsn(r.cs, "copy", r.reg, 0, reg)
    BY DEF Leaf
  <1>3. Ample(T, r.cs) => r.reg \in Regs /\ r.reg # -1 /\ T[r.reg] = t
    BY TerminalAmple
  <1> HIDE DEF r
  <1>4. reg \in Int /\ (reg < 0 <=> reg = -1) /\ Regs \subseteq Int
    BY NamedInt DEF Regs
  <1>5. Exec(r.cs, file) = Exec(s, file)
    BY <1>1, SameCode
  <1>6. CASE r.reg = -1
    BY <1>2, <1>3, <1>6
  <1>7. CASE r.reg # -1 /\ reg = -1
    BY <1>2, <1>3, <1>4, <1>5, <1>7 DEF LeafRead
  <1>8. CASE r.reg # -1 /\ reg # -1
    <2>1. res = AddIsn(r.cs, "copy", r.reg, 0, reg)
      BY <1>2, <1>4, <1>8
    <2>2. r.reg \in Int /\ "copy" \in DOMAIN Latency
      <3>1. r.reg \in Named(r.cs) /\ Sound(r.cs)
        BY <1>1, <1>8 DEF Passes
      <3> QED BY <1>1, <3>1, NamedInt DEF Latency
    <2>5. AmplyAdded(r.cs, "copy", r.reg, 0, reg, res, T, file)
      BY <1>1, <1>4, <2>1, <2>2, AddAmple
    <2>3. /\ res.reg = reg /\ Ample(T, r.cs)
          /\ Exec(res.cs, file)[reg] = Term(Isn("copy", r.reg, 0, reg), Exec(r.cs, file))
      BY <2>5 DEF AmplyAdded
    <2> PICK F : F = Exec(r.cs, file)
      OBVIOUS
    <2>4. Term(Isn("copy", r.reg, 0, reg), F) = F[r.reg]
      BY DEF Term, Isn, Arity
    <2> QED BY <1>3, <1>5, <1>8, <2>3, <2>4 DEF LeafRead
  <1> QED BY <1>6, <1>7, <1>8

Constant(T, file, x) == \A r \in Regs : T[r] = <<"const", x>> => file[r] = Number(x)

\* The three instructions of a trigonometric function.
TrigDone(s, op, a, dest, res, T, file) ==
  /\ res.reg = dest /\ Ample(T, s)
  /\ Exec(res.cs, file)[dest] = <<op, <<"f2i", <<"fmul", Number(Conv), Exec(s, file)[a]>>>>>>
LEMMA TrigAmple ==
  ASSUME NEW s \in CompilerStates, Sound(s), NEW op \in {"sin", "cos"}, NEW a \in Named(s),
         NEW dest \in Nat, NEW res, res = Trig(s, op, a, dest), NEW T, Ample(T, res.cs), NEW file,
         Constant(T, Exec(s, file), Conv)
  PROVE  TrigDone(s, op, a, dest, res, T, file)
  <1> DEFINE t == <<"const", Conv>>
             k == AddTerminal(s, t)
             v == k.cs.n_vregs
             l == [k.cs EXCEPT !.n_vregs = @ + 2]
             i1 == AddIsn(l, "fmul", k.reg, a, v)
             i2 == AddIsn(i1.cs, "f2i", v, 0, v + 1)
             i3 == AddIsn(i2.cs, op, v + 1, 0, dest)
             num == Number(Conv)
  <1>1. res = IF k.reg = -1 THEN k
              ELSE IF i1.reg = -1 THEN i1 ELSE IF i2.reg = -1 THEN i2 ELSE i3
    BY DEF Trig
  <1>2. t \in Terminals /\ t # Unused
    <2>1. Conv \in Literals
      BY DEF Literals
    <2>2. <<"const", Conv>> \in Terminals
      <3> HIDE DEF Conv, Literals
      <3> QED BY <2>1 DEF Terminals
    <2> QED BY <2>2 DEF Unused
  <1>3. \A r \in Regs : T[r] = t => Exec(s, file)[r] = num
    BY DEF Constant
  <1> HIDE DEF t, num
  <1>4. /\ Passes(s, k) /\ k.cs.prog = s.prog /\ k.cs.n_vregs = s.n_vregs
    BY <1>2, TerminalSound
  <1>5. Ample(T, k.cs) => k.reg \in Regs /\ k.reg # -1 /\ T[k.reg] = t
    BY <1>2, TerminalAmple
  <1> HIDE DEF k
  <1>6. k.cs \in CompilerStates /\ Sound(k.cs) /\ Grown(s, k.cs)
    BY <1>4 DEF Passes
  <1>7. l = WithVregs(k.cs, 2)
    BY <1>6, VregsUpdate
  <1> HIDE DEF l
  <1>8. l \in CompilerStates /\ l.prog = k.cs.prog /\ l.terminals = k.cs.terminals
    BY <1>6, <1>7, VregsSound
  <1>9. Ample(T, l) => Ample(T, k.cs)
    BY <1>8 DEF Ample, Room, Used
  <1>10. v \in Nat /\ a \in Int
    BY <1>6, ProgFacts, NamedInt
  <1> HIDE DEF v
  <1>11. k.reg # -1
    BY <1>1, <1>5
  <1>12. k.reg \in Int
    <2>1. k.reg \in Named(k.cs)
      BY <1>4, <1>11 DEF Passes
    <2> QED BY <1>6, <2>1, NamedInt
  <1>13. op \in DOMAIN Latency /\ "fmul" \in DOMAIN Latency /\ "f2i" \in DOMAIN Latency
    BY DEF Latency
  <1> DEFINE F0 == Exec(s, file)
             F1 == Exec(i1.cs, file)
             F2 == Exec(i2.cs, file)
  <1>16. v # -1 /\ v + 1 # -1 /\ dest # -1 /\ v \in Int /\ v + 1 \in Int /\ dest \in Int /\ 0 \in Int
    BY <1>10
  <1>14. Exec(l, file) = F0
    <2>1. l.prog = s.prog
      BY <1>4, <1>8
    <2> QED BY <2>1, SameCode
  <1>15. ASSUME Ample(T, i1.cs)
         PROVE  /\ i1.cs \in CompilerStates /\ i1.reg = v /\ Ample(T, l)
                /\ F1[v] = <<"fmul", F0[k.reg], F0[a]>>
    <2>5. PICK j : j = i1
      OBVIOUS
    <2>3. j = AddIsn(l, "fmul", k.reg, a, v) /\ Ample(T, j.cs) /\ F1 = Exec(j.cs, file)
      BY <1>15, <2>5
    <2>4. AmplyAdded(l, "fmul", k.reg, a, v, j, T, file)
      BY <1>8, <1>10, <1>12, <1>13, <1>16, <2>3, AddAmple
    <2>1. /\ i1.cs \in CompilerStates /\ i1.reg = v /\ Ample(T, l)
          /\ F1[v] = Term(Isn("fmul", k.reg, a, v), F0)
      BY <1>14, <2>3, <2>4, <2>5 DEF AmplyAdded
    <2> HIDE DEF F0, F1
    <2>2. Term(Isn("fmul", k.reg, a, v), F0) = <<"fmul", F0[k.reg], F0[a]>>
      BY DEF Term, Isn, Arity
    <2> QED BY <2>1, <2>2
  <1> HIDE DEF i1
  <1>17. i1.reg # -1
    BY <1>1, <1>11, <1>15, <1>16
  <1>18. ASSUME Ample(T, i2.cs), Ample(T, i2.cs) => i1.cs \in CompilerStates
         PROVE  /\ i2.cs \in CompilerStates /\ i2.reg = v + 1 /\ Ample(T, i1.cs)
                /\ F2[v + 1] = <<"f2i", F1[v]>>
    <2>5. PICK j : j = i2
      OBVIOUS
    <2>3. j = AddIsn(i1.cs, "f2i", v, 0, v + 1) /\ Ample(T, j.cs) /\ F2 = Exec(j.cs, file)
          /\ i1.cs \in CompilerStates
      BY <1>18, <2>5
    <2>4. AmplyAdded(i1.cs, "f2i", v, 0, v + 1, j, T, file)
      BY <1>13, <1>16, <2>3, AddAmple
    <2>1. /\ i2.cs \in CompilerStates /\ i2.reg = v + 1 /\ Ample(T, i1.cs)
          /\ F2[v + 1] = Term(Isn("f2i", v, 0, v + 1), F1)
      BY <2>3, <2>4, <2>5 DEF AmplyAdded
    <2> HIDE DEF F0, F1, F2
    <2>2. Term(Isn("f2i", v, 0, v + 1), F1) = <<"f2i", F1[v]>>
      BY DEF Term, Isn, Arity
    <2> QED BY <2>1, <2>2
  <1>19. i1.cs \in CompilerStates
    <2>1. Added(l, "fmul", k.reg, a, v)
      BY <1>8, <1>10, <1>12, <1>13, <1>16, IsnAdded
    <2> QED BY <2>1 DEF Added, Outcome, i1
  <1> HIDE DEF i2
  <1>20. i2.reg # -1
    BY <1>1, <1>11, <1>16, <1>17, <1>18, <1>19
  <1>21. i2.cs \in CompilerStates
    <2>1. Added(i1.cs, "f2i", v, 0, v + 1)
      BY <1>13, <1>16, <1>19, IsnAdded
    <2> QED BY <2>1 DEF Added, Outcome, i2
  <1>22. res = i3
    BY <1>1, <1>11, <1>17, <1>20
  <1>23. /\ i3.reg = dest /\ Ample(T, i2.cs)
         /\ Exec(i3.cs, file)[dest] = Term(Isn(op, v + 1, 0, dest), F2)
    <2> HIDE DEF i3
    <2>1. AmplyAdded(i2.cs, op, v + 1, 0, dest, i3, T, file)
      BY <1>13, <1>16, <1>21, <1>22, AddAmple DEF i3
    <2> QED BY <2>1 DEF AmplyAdded
  <1>24. Term(Isn(op, v + 1, 0, dest), F2) = <<op, F2[v + 1]>>
    BY DEF Term, Isn, Arity
  <1>25. F1[v] = <<"fmul", F0[k.reg], F0[a]>> /\ F2[v + 1] = <<"f2i", F1[v]>> /\ Ample(T, k.cs)
    BY <1>9, <1>15, <1>18, <1>19, <1>23
  <1>26. F0[k.reg] = num
    BY <1>3, <1>5, <1>25
  <1>27. Ample(T, s)
    BY <1>6, <1>25, AmpleBefore
  <1>28. Exec(res.cs, file)[dest] = <<op, <<"f2i", <<"fmul", num, F0[a]>>>>>>
    <2> HIDE DEF F0, F1, F2
    <2> QED BY <1>22, <1>23, <1>24, <1>25, <1>26
  <1> QED BY <1>22, <1>23, <1>27, <1>28 DEF num, TrigDone

\* An operator reads two registers, a trigonometric function takes three instructions.
FunctionDone(t, label, a, b, dest, res, T, file) ==
  /\ res.reg = dest /\ Ample(T, t)
  /\ Exec(res.cs, file)[dest] =
       IF label \in Trigonometric
       THEN <<Opcode[label], <<"f2i", <<"fmul", Number(Conv), Exec(t, file)[a]>>>>>>
       ELSE <<Opcode[label], Exec(t, file)[a], Exec(t, file)[b]>>

LEMMA OperatorArity ==
  \A label \in (DOMAIN Opcode) \ Trigonometric : Arity(Opcode[label]) = 2
  BY DEF Opcode, Arity, Arithmetic, Trigonometric, Comparisons

LEMMA FunctionAmple ==
  ASSUME NEW t \in CompilerStates, Sound(t), NEW dest \in Nat, NEW label \in DOMAIN Opcode,
         NEW a \in Named(t), NEW b \in {0} \cup Named(t), NEW res,
         res = IF label \in Trigonometric THEN Trig(t, Opcode[label], a, dest)
               ELSE AddIsn(t, Opcode[label], a, b, dest),
         NEW T, Ample(T, res.cs), NEW file, Constant(T, Exec(t, file), Conv)
  PROVE  FunctionDone(t, label, a, b, dest, res, T, file)
  <1>1. a \in Int /\ b \in Int /\ dest \in Int
    BY NamedInt
  <1> DEFINE op == Opcode[label]
  <1>2. op \in DOMAIN Latency /\ (label \in Trigonometric => op \in {"sin", "cos"})
        /\ (label \notin Trigonometric => Arity(op) = 2)
    BY Opcodes2, Opcodes3, OperatorArity
  <1> HIDE DEF op
  <1>3. CASE label \in Trigonometric
    <2>1. res = Trig(t, op, a, dest)
      BY <1>3 DEF op
    <2>2. op \in {"sin", "cos"}
      BY <1>2, <1>3
    <2>3. TrigDone(t, op, a, dest, res, T, file)
      BY <2>1, <2>2, TrigAmple
    <2> QED BY <1>3, <2>3 DEF op, FunctionDone, TrigDone
  <1>4. CASE label \notin Trigonometric
    <2>1. res = AddIsn(t, op, a, b, dest)
      BY <1>4 DEF op
    <2>2. AmplyAdded(t, op, a, b, dest, res, T, file)
      BY <1>1, <1>2, <2>1, AddAmple
    <2> PICK F : F = Exec(t, file)
      OBVIOUS
    <2>3. Term(Isn(op, a, b, dest), F) = <<op, F[a], F[b]>>
      BY <1>2, <1>4 DEF Term, Isn
    <2> QED BY <1>4, <2>2, <2>3 DEF op, FunctionDone, AmplyAdded
  <1> QED BY <1>3, <1>4

\* Without an opcode no register, otherwise one that holds the value.
Right(env, file, node, res) ==
  /\ res.reg = -1 <=> Value(env, node) = None
  /\ res.reg # -1 => Exec(res.cs, file)[res.reg] = Value(env, node)

LEMMA MatchesQuiet ==
  ASSUME NEW s \in CompilerStates, NEW t \in CompilerStates, Sound(s), Grown(s, t), Quiet(s, t),
         NEW file, DOMAIN file = Regs, NEW T, NEW env, Matches(T, env, Exec(s, file))
  PROVE  Matches(T, env, Exec(t, file))
  <1> PICK F, G : F = Exec(s, file) /\ G = Exec(t, file)
    OBVIOUS
  <1>1. \A r \in Regs : G[r] = F[r]
    BY ExecQuiet
  <1>2. Matches(T, env, F)
    OBVIOUS
  <1>3. Matches(T, env, G)
    BY <1>1, <1>2 DEF Matches
  <1> QED BY <1>3

LEMMA LeafRight ==
  ASSUME WellApplied, NEW s \in CompilerStates, Sound(s), NEW node \in Nodes, ~Applied(node),
         NEW reg \in {-1} \cup Used(s), NEW res,
         res = Compile[<<s, node, reg>>], NEW T, NEW env, NEW file, Ample(T, res.cs),
         Environment(env), Matches(T, env, Exec(s, file))
  PROVE  Right(env, file, node, res)
  <1>1. reg \in Int
    BY NamedInt
  <1>2. res = Body(Compile, s, node, reg)
    BY <1>1, CompileUnfolds
  <1>3. NodeForm(node)
    BY NodeFacts
  <1> PICK F : F = Exec(s, file)
    OBVIOUS
  <1>4. Value(env, node) = ValueBody(Values(env), env, node)
    BY ValueUnfolds
  <1>5. CASE node.label = ""
    <2> DEFINE x == node.constant
               t == <<"const", x>>
    <2>1. t \in Terminals /\ t # Unused /\ res = Leaf(s, t, reg)
      BY <1>2, <1>3, <1>5 DEF NodeForm, Unused, Body
    <2>2. Value(env, node) = Number(x) /\ Number(x) # None
      BY <1>4, <1>5 DEF ValueBody, Number, None
    <2> HIDE DEF x
    <2>3. \A r \in Regs : T[r] = t => F[r] = Number(x)
      BY DEF Matches
    <2> HIDE DEF t
    <2>4. LeafRead(s, t, res, T, file)
      BY <2>1, LeafAmple
    <2> QED BY <2>2, <2>3, <2>4 DEF Right, LeafRead
  <1>6. CASE node.label # "" /\ node.args = <<>>
    <2> DEFINE x == node.label
               t == <<"var", x>>
    <2>1. t \in Terminals /\ t # Unused /\ res = Leaf(s, t, reg)
      BY <1>2, <1>3, <1>6 DEF NodeForm, Unused, Body
    <2>2. Value(env, node) = env[x]
      BY <1>4, <1>6 DEF ValueBody
    <2>5. x \in Names
      <3>1. node \in DOMAIN Depth
        BY DEF Nodes
      <3> QED BY <1>6, <3>1, NodesAssumption
    <2> HIDE DEF x
    <2>6. env[x] # None
      BY <2>5 DEF Environment
    <2>3. \A r \in Regs : T[r] = t => F[r] = env[x]
      BY <2>5 DEF Matches
    <2> HIDE DEF t
    <2>4. LeafRead(s, t, res, T, file)
      BY <2>1, LeafAmple
    <2> QED BY <2>2, <2>3, <2>4, <2>6 DEF Right, LeafRead
  <1> QED BY <1>5, <1>6 DEF Applied

\* The code of an argument.
Argument(T, env, file, s, node, res) ==
  Passes(s, res) /\ (Ample(T, res.cs) => Right(env, file, node, res))
Arguments(T, env, file, s, node, a, b) ==
  /\ Argument(T, env, file, s, node.args[1], a)
  /\ Len(node.args) = 2 => Argument(T, env, file, a.cs, node.args[2], b)
  /\ Len(node.args) # 2 => b = [cs |-> a.cs, reg |-> 0]

\* A register of the first one keeps its value in the code of the second one.
LEMMA FirstKept ==
  ASSUME NEW s \in CompilerStates, NEW t \in CompilerStates, Sound(s), Grown(s, t), Quiet(s, t),
         NEW file, DOMAIN file = Regs, NEW r \in Named(s)
  PROVE  Exec(t, file)[r] = Exec(s, file)[r]
  BY ExecQuiet

LEMMA ApplyRight ==
  ASSUME WellApplied, NEW s \in CompilerStates, Sound(s), NEW node \in Nodes, Applied(node),
         NEW reg \in {-1} \cup Used(s), NEW a, NEW b, NEW res, res = Apply2(s, node, reg, a, b),
         NEW T, NEW env, NEW file, Ample(T, res.cs), DOMAIN file = Regs,
         Matches(T, env, Exec(s, file)), Arguments(T, env, file, s, node, a, b)
  PROVE  Right(env, file, node, res)
  <1> DEFINE t == IF reg < 0 THEN [b.cs EXCEPT !.n_vregs = @ + 1] ELSE b.cs
             dest == IF reg < 0 THEN b.cs.n_vregs ELSE reg
             label == node.label
             op == Opcode[label]
             fun == IF label \in Trigonometric THEN Trig(t, op, a.reg, dest)
                    ELSE AddIsn(t, op, a.reg, b.reg, dest)
             va == Value(env, node.args[1])
             vb == Value(env, node.args[2])
             two == Len(node.args) = 2
  <1>1. res = IF a.reg = -1 THEN a
              ELSE IF b.reg = -1 THEN b
              ELSE IF label \notin DOMAIN Opcode THEN [cs |-> t, reg |-> -1]
              ELSE fun
    BY DEF Apply2
  <1>2. Value(env, node) =
           IF label \notin DOMAIN Opcode \/ va = None \/ (two /\ vb = None) THEN None
           ELSE IF label \in Trigonometric
                THEN <<op, <<"f2i", <<"fmul", Number(Conv), va>>>>>>
                ELSE <<op, va, vb>>
    BY ValueApplied
  <1>3. label \in DOMAIN Opcode /\ label \notin Trigonometric => two
    BY DEF WellApplied, Applied
  <1>4. /\ Passes(s, a) /\ (Ample(T, a.cs) => (a.reg = -1 <=> va = None)
                                           /\ (a.reg # -1 => Exec(a.cs, file)[a.reg] = va))
        /\ two => /\ Passes(a.cs, b)
                  /\ Ample(T, b.cs) => (b.reg = -1 <=> vb = None)
                                    /\ (b.reg # -1 => Exec(b.cs, file)[b.reg] = vb)
        /\ ~two => b = [cs |-> a.cs, reg |-> 0]
    BY DEF Arguments, Argument, Right
  <1> SUFFICES /\ res.reg = -1 <=> Value(env, node) = None
               /\ res.reg # -1 => Exec(res.cs, file)[res.reg] = Value(env, node)
    BY DEF Right
  <1> PICK val : val = Value(env, node)
    OBVIOUS
  <1>5. reg # -1 => reg \in Nat
    BY NamedInt
  <1>6. a.cs \in CompilerStates /\ Sound(a.cs) /\ Grown(s, a.cs) /\ Quiet(s, a.cs) /\ a.reg \in {-1} \cup Named(a.cs)
    BY <1>4 DEF Passes
  <1>7. /\ b.cs \in CompilerStates /\ Sound(b.cs) /\ Grown(a.cs, b.cs) /\ Quiet(a.cs, b.cs)
        /\ b.reg \in {-1, 0} \cup Named(b.cs)
    <2>1. CASE two
      BY <1>4, <2>1 DEF Passes
    <2>2. CASE ~two
      <3>1. Grown(a.cs, a.cs) /\ Quiet(a.cs, a.cs)
        <4>1. a.cs.n_vregs >= a.cs.n_vregs
          BY <1>6, ProgFacts
        <4> QED BY <1>6, <4>1, GrownSame
      <3> QED BY <1>4, <1>6, <2>2, <3>1
    <2> QED BY <2>1, <2>2
  <1>8. two \/ b.reg = 0
    BY <1>4
  <1> HIDE DEF va, vb, two, fun
  <1>9. CASE a.reg = -1
    <2>1. res = a
      BY <1>1, <1>9
    <2> QED BY <1>2, <1>4, <1>9, <2>1
  <1>10. CASE a.reg # -1 /\ b.reg = -1
    <2>1. res = b /\ two
      BY <1>1, <1>8, <1>10
    <2> QED BY <1>2, <1>4, <1>10, <2>1
  <1>11. CASE a.reg # -1 /\ b.reg # -1 /\ label \notin DOMAIN Opcode
    <2>1. res.reg = -1
      BY <1>1, <1>11
    <2> QED BY <1>2, <1>11, <2>1
  <1>12. CASE a.reg # -1 /\ b.reg # -1 /\ label \in DOMAIN Opcode
    <2>1. res = fun
      BY <1>1, <1>12
    <2>2. reg < 0 <=> reg = -1
      BY <1>5
    <2>3. reg = -1 => t = WithVregs(b.cs, 1) /\ dest = b.cs.n_vregs
      BY <1>7, <2>2, VregsUpdate
    <2>4. reg # -1 => t = b.cs /\ dest = reg
      BY <2>2
    <2> HIDE DEF t, dest
    <2>5. /\ t \in CompilerStates /\ Sound(t) /\ t.prog = b.cs.prog /\ t.terminals = b.cs.terminals
          /\ dest \in Nat
      <3>1. CASE reg = -1
        BY <1>7, <2>3, <3>1, VregsSound, ProgFacts
      <3>2. CASE reg # -1
        BY <1>5, <1>7, <2>4, <3>2
      <3> QED BY <3>1, <3>2
    <2>6. Named(t) = Named(b.cs) /\ Named(a.cs) \subseteq Named(b.cs)
      <3>1. Named(t) = Named(b.cs)
        BY <2>5 DEF Named, Used, Dests
      <3> QED BY <1>6, <1>7, <3>1, GrownNames
    <2>7. a.reg \in Named(t) /\ b.reg \in {0} \cup Named(t)
      BY <1>6, <1>7, <1>12, <2>6
    <2> PICK F, G : F = Exec(a.cs, file) /\ G = Exec(b.cs, file)
      OBVIOUS
    <2>8. Exec(t, file) = G
      BY <2>5, SameCode
    <2>9. Constant(T, Exec(t, file), Conv)
      <3>1. Matches(T, env, F)
        BY <1>6, MatchesQuiet
      <3>2. Matches(T, env, G)
        BY <1>6, <1>7, <3>1, MatchesQuiet
      <3> QED BY <2>8, <3>2 DEF Matches, Constant
    <2>10. FunctionDone(t, label, a.reg, b.reg, dest, res, T, file)
      <3>1. res = IF label \in Trigonometric THEN Trig(t, Opcode[label], a.reg, dest)
               ELSE AddIsn(t, Opcode[label], a.reg, b.reg, dest)
        BY <2>1 DEF fun, op
      <3> HIDE DEF op, label
      <3> QED BY <1>12, <2>5, <2>7, <2>9, <3>1, FunctionAmple
    <2>11. /\ res.reg = dest /\ Ample(T, t)
           /\ Exec(res.cs, file)[dest] =
                IF label \in Trigonometric
                THEN <<op, <<"f2i", <<"fmul", Number(Conv), G[a.reg]>>>>>>
                ELSE <<op, G[a.reg], G[b.reg]>>
      BY <2>8, <2>10 DEF FunctionDone, op
    <2>12. Ample(T, b.cs) /\ Ample(T, a.cs)
      <3>1. Ample(T, b.cs)
        BY <2>5, <2>11 DEF Ample, Room, Used
      <3> QED BY <1>6, <1>7, <3>1, AmpleBefore
    <2>13. F[a.reg] = va /\ va # None /\ (two => vb # None /\ G[b.reg] = vb)
      BY <1>4, <1>12, <2>12
    <2>14. G[a.reg] = F[a.reg]
      BY <1>6, <1>7, <1>12, FirstKept
    <2>15. dest # -1
      BY <2>5
    <2> HIDE DEF op, label
    <2>16. val = Exec(res.cs, file)[dest] /\ val # None
      <3>1. CASE label \in Trigonometric
        <4> DEFINE x == <<"f2i", <<"fmul", Number(Conv), va>>>>
        <4>1. val = <<op, x>> /\ Exec(res.cs, file)[dest] = <<op, x>>
          BY <1>2, <1>12, <2>11, <2>13, <2>14, <3>1
        <4> HIDE DEF x
        <4> QED BY <4>1 DEF None
      <3>2. CASE label \notin Trigonometric
        <4>1. val = <<op, va, vb>> /\ Exec(res.cs, file)[dest] = <<op, va, vb>>
          BY <1>2, <1>3, <1>12, <2>11, <2>13, <2>14, <3>2
        <4> QED BY <4>1 DEF None
      <3> QED BY <3>1, <3>2
    <2> QED BY <2>11, <2>15, <2>16
  <1> QED BY <1>9, <1>10, <1>11, <1>12

\* Each expression of the preset computes its value.
ComputedRight(s, node, reg, T, env, file) ==
  LET res == Compile[<<s, node, reg>>] IN
  Ample(T, res.cs) /\ DOMAIN file = Regs /\ Environment(env) /\ Matches(T, env, Exec(s, file))
    => Right(env, file, node, res)
ComputesRight(node) ==
  \A s \in CompilerStates : Sound(s) =>
    \A reg \in {-1} \cup Used(s) : \A T, env, file : ComputedRight(s, node, reg, T, env, file)

LEMMA CompileRight ==
  ASSUME NoDivision, WellApplied
  PROVE  \A node \in Nodes : ComputesRight(node)
  <1> DEFINE U == {k \in Nat : \E node \in Nodes : ~ComputesRight(node) /\ k = Depth[node]}
  <1> SUFFICES ASSUME U # {} PROVE FALSE
    BY NodeDepth
  <1>1. PICK k \in U : \A e \in U : k <= e
    <2>1. U \in SUBSET Nat
      OBVIOUS
    <2> HIDE DEF U
    <2> QED BY <2>1, Least
  <1>2. PICK node \in Nodes : ~ComputesRight(node) /\ k = Depth[node] /\ k \in Nat
    BY <1>1
  <1>3. ASSUME NEW n \in Nodes, Depth[n] < Depth[node] PROVE ComputesRight(n)
    <2> SUFFICES ASSUME ~ComputesRight(n) PROVE FALSE
      OBVIOUS
    <2>1. Depth[n] \in Nat
      BY NodeDepth
    <2>2. Depth[n] \in U
      BY <2>1
    <2> QED BY <1>1, <1>2, <1>3, <2>1, <2>2
  <1> HIDE DEF U
  <1>4. ASSUME NEW s \in CompilerStates, Sound(s), NEW reg \in {-1} \cup Used(s),
               NEW T, NEW env, NEW file
        PROVE  ComputedRight(s, node, reg, T, env, file)
    <2> DEFINE r == Compile[<<s, node, reg>>]
    <2> SUFFICES ASSUME Ample(T, r.cs), DOMAIN file = Regs, Environment(env), Matches(T, env, Exec(s, file))
                 PROVE  Right(env, file, node, r)
      BY DEF ComputedRight
    <2> PICK res : res = r
      OBVIOUS
    <2>1. reg \in Int /\ -1 \notin Used(s) /\ res = Compile[<<s, node, reg>>] /\ Ample(T, res.cs)
      BY <1>4, NamedInt
    <2> HIDE DEF r
    <2>2. CASE ~Applied(node)
      <3>1. Right(env, file, node, res)
        BY <1>4, <2>1, <2>2, LeafRight
      <3> QED BY <3>1
    <2>3. CASE Applied(node)
      <3> DEFINE a == FirstArgument(Compile, s, node)
                 b == SecondArgument(Compile, s, node)
      <3>1. res = Apply2(s, node, reg, a, b)
        <4>1. res = Body(Compile, s, node, reg)
          BY <2>1, CompileUnfolds
        <4> QED BY <2>3, <4>1 DEF Body, Applied
      <3>2. /\ node.args[1] \in Nodes /\ Depth[node.args[1]] < Depth[node]
            /\ Len(node.args) = 2 => node.args[2] \in Nodes /\ Depth[node.args[2]] < Depth[node]
        BY <2>3, ArgumentFacts
      <3>3. Argument(T, env, file, s, node.args[1], a)
        <4> DEFINE n == node.args[1]
        <4>1. n \in Nodes /\ a = Compile[<<s, n, -1>>] /\ ComputesRight(n) /\ CompilesSoundly(n)
          BY <1>3, <3>2, CompileSound DEF FirstArgument
        <4> HIDE DEF n, a
        <4>2. Passes(s, a)
          BY <1>4, <4>1 DEF CompilesSoundly, Compiled
        <4>3. ComputedRight(s, n, -1, T, env, file)
          BY <1>4, <4>1 DEF ComputesRight
        <4>4. Ample(T, a.cs) => Right(env, file, n, a)
          BY <4>1, <4>3 DEF ComputedRight
        <4> QED BY <4>2, <4>4 DEF Argument, n
      <3>4. Len(node.args) # 2 => b = [cs |-> a.cs, reg |-> 0]
        BY DEF SecondArgument
      <3>5. ASSUME Len(node.args) = 2 PROVE Argument(T, env, file, a.cs, node.args[2], b)
        <4> DEFINE n == node.args[2]
        <4>1. n \in Nodes /\ b = Compile[<<a.cs, n, -1>>] /\ ComputesRight(n) /\ CompilesSoundly(n)
          BY <1>3, <3>2, <3>5, CompileSound DEF SecondArgument
        <4> HIDE DEF n, a, b
        <4>2. a.cs \in CompilerStates /\ Sound(a.cs) /\ Grown(s, a.cs) /\ Quiet(s, a.cs)
          BY <3>3 DEF Argument, Passes
        <4>3. Matches(T, env, Exec(a.cs, file))
          BY <1>4, <4>2, MatchesQuiet
        <4>4. Passes(a.cs, b)
          BY <4>1, <4>2 DEF CompilesSoundly, Compiled
        <4>5. ComputedRight(a.cs, n, -1, T, env, file)
          BY <4>1, <4>2 DEF ComputesRight
        <4>6. Ample(T, b.cs) => Right(env, file, n, b)
          BY <4>1, <4>3, <4>5 DEF ComputedRight
        <4> QED BY <4>4, <4>6 DEF Argument, n
      <3> HIDE DEF a, b
      <3>6. Arguments(T, env, file, s, node, a, b)
        BY <3>3, <3>4, <3>5 DEF Arguments
      <3>7. Right(env, file, node, res)
        BY <1>4, <2>1, <2>3, <3>1, <3>6, ApplyRight
      <3> QED BY <3>7
    <2> QED BY <2>2, <2>3
  <1>5. ComputesRight(node)
    BY <1>4 DEF ComputesRight
  <1> QED BY <1>2, <1>5

\* The registers of T: no two of them stand for the same.
Unambiguous(T) == \A p, q \in Regs : T[p] = T[q] /\ T[p] # Unused => p = q

\* The code of an equation does what it says.
LEMMA EquationRight ==
  ASSUME NoDivision, WellApplied, NEW s \in CompilerStates, Sound(s), NEW eq, eq.node \in Nodes,
         eq.target \in Names, NEW u, u = CompileEquation(s, eq).cs, NEW T, Unambiguous(T), Ample(T, u),
         NEW env, Environment(env), NEW file, DOMAIN file = Regs, Matches(T, env, Exec(s, file))
  PROVE  Matches(T, Assign(eq, env), Exec(u, file)) /\ Grown(s, u)
  <1> DEFINE tg == eq.target
             t == <<"var", tg>>
             k == AddTerminal(s, t)
             val == Value(env, eq.node)
  <1>1. t \in Terminals /\ t # Unused
    <2> HIDE DEF tg, Names
    <2>1. tg \in Names
      BY DEF tg
    <2> QED BY <2>1 DEF Terminals, Unused
  <1>2. u = (IF k.reg < 0 THEN k ELSE Compile[<<k.cs, eq.node, k.reg>>]).cs
    BY DEF CompileEquation
  <1>3. Assign(eq, env) = IF val = None THEN env ELSE [env EXCEPT ![tg] = val]
    BY DEF Assign
  <1>4. /\ Passes(s, k) /\ k.cs.prog = s.prog /\ k.cs.n_vregs = s.n_vregs
        /\ k.reg # -1 => k.reg \in Used(k.cs)
    <2> HIDE DEF t
    <2> QED BY <1>1, TerminalSound
  <1>5. Ample(T, k.cs) => k.reg \in Used(k.cs) /\ k.reg \in Regs /\ k.reg # -1 /\ T[k.reg] = t
    <2> HIDE DEF t
    <2> QED BY <1>1, TerminalAmple
  <1> HIDE DEF k, tg, val
  <1>6. k.cs \in CompilerStates /\ Sound(k.cs) /\ Grown(s, k.cs)
    BY <1>4 DEF Passes
  <1> PICK d : d = k.reg
    OBVIOUS
  <1> PICK res : res = Compile[<<k.cs, eq.node, d>>]
    OBVIOUS
  <1>7. d \in {-1} \cup Used(k.cs) /\ (d < 0 <=> d = -1)
    <2>1. Used(k.cs) \subseteq Nat
      BY <1>6, NamedInt
    <2> QED BY <1>4, <2>1
  <1>8. d # -1
    BY <1>2, <1>5, <1>7
  <1>9. u = res.cs /\ d \in Used(k.cs)
    BY <1>2, <1>7, <1>8
  <1>10. Emits(k.cs, d, res)
    BY <1>6, <1>9, CompileSound DEF CompilesSoundly, Compiled
  <1>11. u \in CompilerStates /\ Grown(k.cs, u) /\ Grown(s, u)
    <2>1. u \in CompilerStates /\ Grown(k.cs, u)
      BY <1>9, <1>10 DEF Emits
    <2> QED BY <1>6, <2>1, GrownTrans
  <1>12. Ample(T, k.cs) /\ d \in Regs /\ T[d] = t
    BY <1>5, <1>6, <1>11, AmpleBefore
  <1> PICK F, G : F = Exec(s, file) /\ G = Exec(u, file)
    OBVIOUS
  <1>13. Exec(k.cs, file) = F
    BY <1>4, SameCode
  <1>14. Right(env, file, eq.node, res)
    <2>1. ComputedRight(k.cs, eq.node, d, T, env, file)
      BY <1>6, <1>7, CompileRight DEF ComputesRight
    <2> QED BY <1>9, <1>13, <2>1 DEF ComputedRight
  <1>15. /\ res.reg \in {-1, d} /\ (res.reg = -1 <=> val = None)
         /\ res.reg # -1 => G[d] = val
    BY <1>9, <1>10, <1>14 DEF Right, Emits, val
  <1>16. ASSUME NEW r \in Regs, r # d \/ res.reg = -1 PROVE G[r] = F[r]
    <2>1. \A m \in (Len(k.cs.prog) + 1)..Len(u.prog) : u.prog[m].dest # r
      <3> SUFFICES ASSUME NEW m \in (Len(k.cs.prog) + 1)..Len(u.prog), u.prog[m].dest = r PROVE FALSE
        OBVIOUS
      <3>1. u.prog[m].dest >= k.cs.n_vregs
        BY <1>8, <1>9, <1>10, <1>16 DEF Emits
      <3>2. k.cs.n_vregs >= RegCount /\ k.cs.n_vregs \in Int /\ RegCount \in Int
        BY <1>6, ProgFacts, SizesAssumption DEF Sound
      <3> QED BY <3>1, <3>2 DEF Regs
    <2>2. r \in DOMAIN Exec(k.cs, file)
      BY <1>6, ExecDomain
    <2> QED BY <1>6, <1>11, <1>13, <2>1, <2>2, ExecKeeps
  <1>17. \A r \in Regs : T[r] = t => r = d
    BY <1>1, <1>12 DEF Unambiguous
  <1> PICK new : new = Assign(eq, env)
    OBVIOUS
  <1>18. tg \in Names /\ DOMAIN env = Names
    BY DEF tg, Environment
  <1>19. /\ val = None => new = env
         /\ val # None => new = [env EXCEPT ![tg] = val]
    BY <1>3
  <1> HIDE DEF Names
  <1>20. ASSUME NEW r \in Regs, NEW n \in Names, T[r] = <<"var", n>> PROVE G[r] = new[n]
    <2>1. F[r] = env[n]
      BY <1>20 DEF Matches
    <2>2. CASE val = None
      BY <1>15, <1>16, <1>19, <2>1, <2>2
    <2>3. CASE val # None /\ n = tg
      <3>1. r = d /\ new[tg] = val
        BY <1>17, <1>18, <1>19, <1>20, <2>3
      <3> QED BY <1>15, <2>3, <3>1
    <2>4. CASE val # None /\ n # tg
      <3>1. r # d
        BY <1>12, <1>20, <2>4
      <3>2. new[n] = env[n]
        BY <1>18, <1>19, <2>4
      <3> QED BY <1>16, <2>1, <3>1, <3>2
    <2> QED BY <2>2, <2>3, <2>4
  <1>21. ASSUME NEW r \in Regs, NEW x, T[r] = <<"const", x>> PROVE G[r] = Number(x)
    <2>1. F[r] = Number(x)
      BY <1>21 DEF Matches
    <2>2. r # d
      BY <1>12, <1>21
    <2> QED BY <1>16, <2>1, <2>2
  <1>22. Matches(T, new, G)
    BY <1>20, <1>21 DEF Matches
  <1> QED BY <1>11, <1>22

-----------------------------------------------------------------------------
(* The equations of a preset *)

\* What has been compiled does what the first k equations say.
Meaning(eqs, k, s) ==
  \A T, env, file :
    Unambiguous(T) /\ Ample(T, s) /\ DOMAIN file = Regs /\ Environment(env) /\ Matches(T, env, file)
      => Matches(T, AssignedTo(eqs, env)[k], Exec(s, file))
\* Each of their targets has a register.
Targets(eqs, k, s) ==
  Room(s) => \A j \in 1..k : \E r \in Regs : s.terminals[r] = <<"var", eqs[j].target>>

LEMMA EquationGrows ==
  ASSUME NoDivision, NEW s \in CompilerStates, Sound(s), NEW eq, eq.node \in Nodes,
         eq.target \in Names, NEW u, u = CompileEquation(s, eq).cs
  PROVE  /\ u \in CompilerStates /\ Grown(s, u)
         /\ Room(u) => \E r \in Regs : u.terminals[r] = <<"var", eq.target>>
  <1> DEFINE tg == eq.target
             t == <<"var", tg>>
             k == AddTerminal(s, t)
  <1>1. t \in Terminals /\ t # Unused
    <2> HIDE DEF tg, Names
    <2>1. tg \in Names
      BY DEF tg
    <2> QED BY <2>1 DEF Terminals, Unused
  <1>2. u = (IF k.reg < 0 THEN k ELSE Compile[<<k.cs, eq.node, k.reg>>]).cs
    BY DEF CompileEquation
  <1> HIDE DEF t
  <1>3. /\ Passes(s, k)
        /\ k.reg # -1 => k.reg \in Used(k.cs) /\ k.cs.terminals[k.reg] = t
        /\ k.reg = -1 => \A r \in Regs \ Reserved : k.cs.terminals[r] # Unused
    BY <1>1, TerminalSound
  <1> HIDE DEF k, tg
  <1>4. k.cs \in CompilerStates /\ Sound(k.cs) /\ Grown(s, k.cs)
    BY <1>3 DEF Passes
  <1>5. k.reg < 0 <=> k.reg = -1
    <2>1. Used(k.cs) \subseteq Nat
      BY <1>4, NamedInt
    <2> QED BY <1>3, <2>1
  <1>6. CASE k.reg = -1
    BY <1>2, <1>3, <1>4, <1>5, <1>6 DEF Room
  <1>7. CASE k.reg # -1
    <2>1. Emits(k.cs, k.reg, Compile[<<k.cs, eq.node, k.reg>>])
      BY <1>3, <1>4, <1>7, CompileSound DEF CompilesSoundly, Compiled
    <2>2. u \in CompilerStates /\ Grown(k.cs, u)
      BY <1>2, <1>5, <1>7, <2>1 DEF Emits
    <2>3. Grown(s, u)
      BY <1>4, <2>2, GrownTrans
    <2>4. u.terminals[k.reg] = t /\ k.reg \in Regs
      BY <1>3, <1>7, <2>2 DEF Grown, Used
    <2> QED BY <2>2, <2>3, <2>4 DEF t, tg
  <1> QED BY <1>6, <1>7

LEMMA MeaningInit ==
  ASSUME NEW p \in Presets
  PROVE  Meaning(p.equations, 0, CompilerInit) /\ Targets(p.equations, 0, CompilerInit)
  <1>1. ASSUME NEW env, NEW file
        PROVE  AssignedTo(p.equations, env)[0] = env /\ Exec(CompilerInit, file) = file
    <2>1. AssignedTo(p.equations, env)[0] = env
      BY EquationsLength, AssignedSteps
    <2>2. CompilerInit.prog = <<>> /\ Len(<<>>) = 0
      BY DEF CompilerInit
    <2>3. Course(<<>>, file)[0] = file
      BY <2>2, CourseSteps
    <2> QED BY <2>1, <2>2, <2>3, ExecutedIsCourse DEF Exec
  <1>2. Meaning(p.equations, 0, CompilerInit)
    BY <1>1 DEF Meaning
  <1> QED BY <1>2 DEF Targets

LEMMA MeaningNext ==
  ASSUME NoDivision, WellApplied, NEW p \in Presets, NEW k \in 1..Len(p.equations),
         NEW s \in CompilerStates, Sound(s), Meaning(p.equations, k - 1, s), Targets(p.equations, k - 1, s),
         NEW u, u = CompileEquation(s, p.equations[k]).cs
  PROVE  Meaning(p.equations, k, u) /\ Targets(p.equations, k, u)
  <1> DEFINE eqs == p.equations
             eq == eqs[k]
  <1>1. eq.node \in Nodes /\ eq.target \in Names /\ Len(eqs) \in Nat
    BY EquationFacts, EquationsLength
  <1> PICK e : e = eq
    OBVIOUS
  <1>2. e.node \in Nodes /\ e.target \in Names /\ u = CompileEquation(s, e).cs
    BY <1>1
  <1>3. /\ u \in CompilerStates /\ Grown(s, u)
        /\ Room(u) => \E r \in Regs : u.terminals[r] = <<"var", e.target>>
    BY <1>2, EquationGrows
  <1> HIDE DEF eqs
  <1>4. ASSUME NEW T, NEW env, NEW file, Unambiguous(T), Ample(T, u), DOMAIN file = Regs,
               Environment(env), Matches(T, env, file)
        PROVE  Matches(T, AssignedTo(eqs, env)[k], Exec(u, file))
    <2>1. Ample(T, s)
      BY <1>3, <1>4, AmpleBefore
    <2> PICK B : B = AssignedTo(eqs, env)[k - 1]
      OBVIOUS
    <2>2. Matches(T, B, Exec(s, file))
      BY <1>4, <2>1 DEF Meaning, eqs
    <2>3. Environment(B)
      <3>1. k - 1 \in 0..Len(eqs)
        BY <1>1 DEF eqs
      <3> QED BY <1>4, <3>1, AssignedFacts DEF eqs
    <2>4. Matches(T, Assign(e, B), Exec(u, file))
      BY <1>2, <1>4, <2>2, <2>3, EquationRight
    <2>5. AssignedTo(eqs, env)[k] = Assign(e, B)
      BY <1>1, AssignedSteps DEF eqs
    <2> QED BY <2>4, <2>5
  <1>5. ASSUME Room(u), NEW j \in 1..k
        PROVE  \E r \in Regs : u.terminals[r] = <<"var", eqs[j].target>>
    <2>1. CASE j = k
      BY <1>3, <1>5, <2>1
    <2>2. CASE j # k
      <3>1. j \in 1..(k - 1)
        BY <2>2
      <3>2. Room(s)
        <4>1. Ample(u.terminals, u)
          BY <1>5 DEF Ample
        <4> QED BY <1>3, <4>1, AmpleBefore DEF Ample
      <3>3. PICK r \in Regs : s.terminals[r] = <<"var", eqs[j].target>>
        BY <3>1, <3>2 DEF Targets, eqs
      <3>4. r \in Used(s)
        <4> DEFINE x == eqs[j].target
        <4> HIDE DEF x
        <4>1. s.terminals[r] = <<"var", x>>
          BY <3>3 DEF x
        <4> QED BY <4>1 DEF Used, Unused
      <3> QED BY <1>3, <3>3, <3>4 DEF Grown
    <2> QED BY <2>1, <2>2
  <1> QED BY <1>4, <1>5 DEF Meaning, Targets, eqs

\* What the compiler has done, and has to do.
Translated ==
  /\ equation - 1 \in 0..Len(preset.equations)
  /\ Meaning(preset.equations, equation - 1, cs) /\ Targets(preset.equations, equation - 1, cs)
  /\ phase # "compile" => equation - 1 = Len(preset.equations)

LEMMA TranslatedInit == Init => Translated
  <1> SUFFICES ASSUME Init PROVE Translated
    OBVIOUS
  <1>1. preset \in Presets /\ equation = 1 /\ cs = CompilerInit /\ phase = "compile"
    BY DEF Init
  <1>2. Len(preset.equations) \in Nat
    BY <1>1, EquationsLength
  <1>3. equation - 1 = 0 /\ equation - 1 \in 0..Len(preset.equations)
    BY <1>1, <1>2
  <1>4. Meaning(preset.equations, 0, CompilerInit) /\ Targets(preset.equations, 0, CompilerInit)
    BY <1>1, MeaningInit
  <1> QED BY <1>1, <1>3, <1>4 DEF Translated

LEMMA TranslatedNext ==
  ASSUME NoDivision, WellApplied
  PROVE  Compiling /\ Translated /\ [Next]_vars => Translated'
  <1> SUFFICES ASSUME Compiling, Translated, [Next]_vars PROVE Translated'
    OBVIOUS
  <1>0. preset \in Presets /\ cs \in CompilerStates /\ Sound(cs) /\ equation \in Nat \ {0}
        /\ Len(preset.equations) \in Nat
    BY EquationsLength DEF Compiling
  <1>1. CASE CompileNext
    <2>1. /\ preset' = preset /\ equation' = equation + 1 /\ equation <= Len(preset.equations)
          /\ cs' = CompileEquation(cs, preset.equations[equation]).cs /\ phase' = "compile"
      BY <1>1 DEF CompileNext
    <2>2. equation \in 1..Len(preset.equations) /\ equation' - 1 = equation
          /\ equation' - 1 \in 0..Len(preset.equations)
      BY <1>0, <2>1
    <2> PICK q, u, k : q = preset /\ u = cs' /\ k = equation
      OBVIOUS
    <2>3. Meaning(q.equations, k, u) /\ Targets(q.equations, k, u)
      BY <1>0, <2>1, <2>2, MeaningNext DEF Translated
    <2> QED BY <2>1, <2>2, <2>3 DEF Translated
  <1>2. ASSUME preset' = preset, equation' = equation, cs' = cs,
               phase' # "compile" => equation - 1 = Len(preset.equations)
        PROVE  Translated'
    BY <1>2 DEF Translated
  <1>3. CASE StartSchedule
    <2>1. equation - 1 = Len(preset.equations)
      BY <1>0, <1>3 DEF StartSchedule, Translated
    <2> QED BY <1>2, <1>3, <2>1 DEF StartSchedule, compiling
  <1>4. ASSUME preset' = preset, compiling' = compiling, phase = "compile" => phase' = "compile"
        PROVE  Translated'
    BY <1>2, <1>4 DEF compiling, Translated
  <1>5. CASE ScheduleCycle \/ ScheduleEnd
    BY <1>4, <1>5 DEF ScheduleCycle, ScheduleEnd, Goto
  <1>6. CASE FinishFrame \/ FinishVertex
    BY <1>4, <1>6 DEF FinishFrame, FinishVertex, Goto
  <1>7. CASE EvalFrame \/ EvalVertices
    BY <1>4, <1>7 DEF EvalFrame, EvalVertices, Goto
  <1>8. CASE Execute \/ NextVertex
    BY <1>4, <1>8 DEF Execute, NextVertex
  <1>9. CASE FrameDone \/ VerticesDone
    BY <1>4, <1>9 DEF FrameDone, VerticesDone, Goto
  <1>10. CASE UNCHANGED vars
    BY <1>4, <1>10 DEF vars
  <1> QED BY <1>1, <1>3, <1>5, <1>6, <1>7, <1>8, <1>9, <1>10 DEF Next

-----------------------------------------------------------------------------
(* What a program leaves in the registers it keeps *)

\* At the output, each of them has what the whole of the program gives it in order.
LEMMA OutputKept ==
  ASSUME NEW prog, NEW keep, NEW code, NEW file, Schedulable(prog, keep), DOMAIN file = Regs,
         Executing(prog, keep, code, file), Output, NEW p \in keep, p # RegOut
  PROVE  DOMAIN regs = Regs /\ regs[p] = Executed(prog, file)[p]
  <1>1. PICK x, w :
          /\ Loaded(prog, keep, code, x, w)
          /\ \A c \in Cycles : c < Len(code) => mem[c] = w[c]
          /\ pc \in Cycles
          /\ Runs(prog, keep, x, w, file, pc, regs, pipe)
    BY Zenon DEF Executing
  <1>2. pc < Len(code) /\ mem[pc] = w[pc]
    BY <1>1, BeforeEnd
  <1>3. Schedule(prog, keep, x, w) /\ Ending(prog, x) /\ \A m \in DOMAIN prog : x[m] # -1
    BY <1>1, Zenon DEF Loaded
  <1>4. InPipe(prog, x, file, pc, pipe) /\ InRegs(prog, keep, x, w, file, pc, regs)
    BY <1>1 DEF Runs
  <1>5. Leaves(prog, x, w, file, pc, pipe)
    BY <1>1, <1>3, <1>4, Leaving
  <1>6. w[pc].dest = RegOut /\ RegOut # 0
    BY <1>2, SizesAssumption DEF Output, RegOut
  <1>7. PICK o \in DOMAIN prog : x[o] = pc
    BY <1>5, <1>6 DEF Leaves
  <1>8. /\ Len(prog) \in Nat /\ DOMAIN prog = 1..Len(prog)
        /\ p \in Regs /\ p < RegCount /\ RegOut \in keep /\ RegOut < RegCount
        /\ \A m \in DOMAIN prog : prog[m].dest \in Nat
    <2>1. prog \in Seq(Isns) /\ keep \subseteq Regs /\ RegOut \in keep
      BY DEF Schedulable, Reserved
    <2>2. \A m \in DOMAIN prog : prog[m].dest \in Nat
      BY DEF Schedulable
    <2> QED BY <2>1, <2>2, SizesAssumption DEF Regs, RegOut
  <1>9. \A m \in DOMAIN prog : x[m] \in Int
    BY <1>3, SizesAssumption DEF Schedule
  \* A register it keeps is written only under its own name.
  <1>10. ASSUME NEW m \in DOMAIN prog, NEW r \in keep, w[x[m]].dest = r, r < RegCount
         PROVE  prog[m].dest = r
    <2>1. ~(prog[m].dest >= RegCount)
      BY <1>3, <1>10 DEF Schedule, Placed
    <2>2. prog[m].dest < RegCount
      BY <1>8, <2>1, SizesAssumption
    <2> QED BY <1>3, <1>10, <2>2 DEF Schedule, Placed
  <1>11. prog[o].dest = RegOut
    BY <1>6, <1>7, <1>8, <1>10
  <1>12. \A m \in DOMAIN prog : prog[m].dest = p => w[x[m]].dest = p /\ x[m] < pc
    <2> SUFFICES ASSUME NEW m \in DOMAIN prog, prog[m].dest = p PROVE w[x[m]].dest = p /\ x[m] < pc
      OBVIOUS
    <2>1. w[x[m]].dest = p
      BY <1>3, <1>8 DEF Schedule, Placed
    <2>2. x[m] <= x[o]
      BY <1>3, <1>8, <1>11 DEF Ending
    <2>3. m # o
      BY <1>11
    <2>4. x[m] # x[o]
      BY <1>3, <2>3 DEF Schedule, Alone
    <2> QED BY <1>7, <1>9, <2>1, <2>2, <2>4
  <1> DEFINE N == Len(prog)
             C == Course(prog, file)[N]
             W == {m \in 1..N : prog[m].dest = p}
  <1>13. CourseAt(prog, file, N)
    <2>1. \A k \in 0..Len(prog) : CourseAt(prog, file, k)
      BY <1>8, CourseRegisters
    <2> QED BY <1>8, <2>1
  <1>14. Executed(prog, file) = C
    BY ExecutedIsCourse
  <1>15. DOMAIN regs = Regs
    BY <1>4 DEF InRegs
  <1>16. CASE W = {}
    <2>1. \A m \in 1..N : prog[m].dest # p
      BY <1>16
    <2>2. C[p] = file[p]
      BY <1>8, <1>13, <2>1 DEF CourseAt
    <2>3. \A k \in DOMAIN prog : w[x[k]].dest # p
      BY <1>8, <1>10, <2>1
    <2>4. regs[p] = file[p]
      BY <1>4, <2>3 DEF InRegs
    <2> QED BY <1>14, <1>15, <2>2, <2>4
  <1>17. CASE W # {}
    <2>1. W \in SUBSET (0..N) /\ N \in Nat
      BY <1>8
    <2> HIDE DEF W
    <2>2. PICK m : m \in W /\ \A k \in W : k <= m
      BY <1>17, <2>1, MaxOf
    <2>3. m \in 1..N /\ prog[m].dest = p /\ \A k \in 1..N : prog[k].dest = p => k <= m
      BY <2>2 DEF W
    <2>4. C[p] = Result(prog, file, m)
      <3>1. \A j \in (m + 1)..N : prog[j].dest # prog[m].dest
        BY <1>8, <2>3
      <3> QED BY <1>13, <2>3, <3>1 DEF CourseAt
    <2>5. m \in DOMAIN prog /\ w[x[m]].dest = p /\ x[m] < pc /\ x[m] # -1
      BY <1>3, <1>8, <1>12, <2>3
    <2>6. ASSUME NEW k \in DOMAIN prog, w[x[k]].dest = p PROVE x[k] <= x[m]
      <3>1. prog[k].dest = p
        BY <1>8, <1>10, <2>6
      <3>2. k <= m /\ k \in Int /\ m \in Int
        BY <1>8, <2>3, <3>1
      <3>3. CASE k = m
        BY <1>9, <3>3
      <3>4. CASE k < m
        <4>1. x[k] < x[m]
          BY <1>3, <2>3, <2>5, <3>1, <3>4 DEF Schedule, Ordered
        <4> QED BY <1>9, <2>5, <4>1
      <3> QED BY <3>2, <3>3, <3>4
    <2>7. regs[w[x[m]].dest] = Result(prog, file, m)
      BY <1>4, <2>5, <2>6 DEF InRegs
    <2> QED BY <1>14, <1>15, <2>4, <2>5, <2>7
  <1> QED BY <1>16, <1>17

\* The dummy DMA leaves them alone.
LEMMA DmaKeeps ==
  ASSUME NEW prog \in Seq(Isns), NEW file, NEW p \in DOMAIN file, p # RegOut
  PROVE  Executed(WithDma(prog), file)[p] = Executed(prog, file)[p]
  <1> DEFINE q == WithDma(prog)
             N == Len(prog)
  <1>1. /\ N \in Nat /\ DOMAIN prog = 1..N /\ Len(q) = N + 1 /\ q[N + 1].dest = RegOut
        /\ \A m \in 1..N : q[m] = prog[m]
    BY DmaFacts
  <1> HIDE DEF q, N
  <1>2. Len(q) \in Nat /\ N <= Len(q) /\ N \in 0..N /\ N \in 0..Len(q)
    BY <1>1
  <1>3. Course(q, file)[N] = Course(prog, file)[N]
    BY <1>1, <1>2, CoursePrefix DEF N
  <1>4. p \in DOMAIN Course(q, file)[N]
    <2>1. CourseAt(prog, file, N)
      <3>1. \A k \in 0..Len(prog) : CourseAt(prog, file, k)
        BY <1>1, CourseRegisters DEF N
      <3> QED BY <1>2, <3>1 DEF N
    <2> QED BY <1>3, <2>1 DEF CourseAt
  <1>5. \A m \in (N + 1)..Len(q) : q[m].dest # p
    BY <1>1
  <1>6. Course(q, file)[Len(q)][p] = Course(q, file)[N][p]
    BY <1>2, <1>4, <1>5, CourseKeeps
  <1> QED BY <1>3, <1>6, ExecutedIsCourse DEF q, N

-----------------------------------------------------------------------------
(* The variables of MilkDrop in the registers *)

Registered(s, n) == \E r \in Regs : s.terminals[r] = <<"var", n>>
\* A variable without a register is none that the preset sets.
Unregistered(s, v, initial) == \A n \in Pfv \ {"time"} : ~Registered(s, n) => v[n] = initial[n]

LEMMA UsedTerminal ==
  ASSUME NEW s \in CompilerStates, NEW r \in Regs, NEW k \in {"var", "const"}, NEW x,
         s.terminals[r] = <<k, x>>
  PROVE  r \in Used(s) /\ r \notin {-1}
  <1>1. <<k, x>> # Unused
    BY DEF Unused
  <1> QED BY <1>1, SizesAssumption DEF Used, Regs

LEMMA SoundUnambiguous ==
  ASSUME NEW s \in CompilerStates, Sound(s)
  PROVE  Unambiguous(s.terminals)
  BY DEF Sound, Distinct, Used, Unambiguous

\* Only the registers in use matter.
LEMMA MatchesUsed ==
  ASSUME NEW s \in CompilerStates, NEW v, NEW F, NEW G, Matches(s.terminals, v, F),
         \A r \in Used(s) : G[r] = F[r]
  PROVE  Matches(s.terminals, v, G)
  <1> DEFINE T == s.terminals
  <1>1. ASSUME NEW r \in Regs, NEW n \in Names, T[r] = <<"var", n>> PROVE G[r] = v[n]
    <2>1. F[r] = v[n]
      BY <1>1 DEF Matches
    <2>2. r \in Used(s)
      BY <1>1, UsedTerminal
    <2> QED BY <2>1, <2>2
  <1>2. ASSUME NEW r \in Regs, NEW x, T[r] = <<"const", x>> PROVE G[r] = Number(x)
    <2>1. F[r] = Number(x)
      BY <1>2 DEF Matches
    <2>2. r \in Used(s)
      BY <1>2, UsedTerminal
    <2> QED BY <2>1, <2>2
  <1> QED BY <1>1, <1>2 DEF Matches

LEMMA AllocationFacts ==
  ASSUME NEW s \in CompilerStates, Sound(s), NEW n \in Pfv, NEW a, a = Allocation(s)[n]
  PROVE  /\ ~Registered(s, n) => a = -1
         /\ Registered(s, n) => a \in Regs /\ s.terminals[a] = <<"var", n>> /\ ~(a < 0)
         /\ \A r \in Regs : s.terminals[r] = <<"var", n>> => a = r
  <1> DEFINE t == <<"var", n>>
             at == {r \in Regs : s.terminals[r] = t}
  <1>1. a = IF at = {} THEN -1 ELSE Min(at)
    BY DEF Allocation
  <1>2. t # Unused
    BY DEF Unused
  <1> HIDE DEF t
  <1>3. ASSUME at # {} PROVE a \in Regs /\ s.terminals[a] = t
    <2>1. at \in SUBSET Nat
      BY SizesAssumption DEF Regs
    <2>2. Min(at) \in at
      <3> HIDE DEF at
      <3> QED BY <1>3, <2>1, MinOf
    <2> QED BY <1>1, <1>3, <2>2
  <1>4. at = {} <=> ~Registered(s, n)
    BY DEF Registered, t
  <1>5. \A r \in Regs : r >= 0 /\ r \in Int
    BY SizesAssumption DEF Regs
  <1>6. ASSUME NEW r \in Regs, s.terminals[r] = t PROVE a = r
    <2>1. at # {}
      BY <1>6
    <2>2. a \in Used(s) /\ r \in Used(s)
      BY <1>2, <1>3, <1>6, <2>1 DEF Used
    <2> QED BY <1>3, <1>6, <2>1, <2>2 DEF Sound, Distinct
  <1>7. /\ ~Registered(s, n) => a = -1
        /\ Registered(s, n) => a \in Regs /\ s.terminals[a] = t /\ ~(a < 0)
        /\ \A r \in Regs : s.terminals[r] = t => a = r
    <2> HIDE DEF at
    <2> QED BY <1>1, <1>3, <1>4, <1>5, <1>6
  <1> QED BY <1>7 DEF t

\* The registers to begin with.
LEMMA InitialMatches ==
  ASSUME NEW s \in CompilerStates, NEW initial, NEW v,
         v = [n \in Names |-> IF n \in Pfv THEN initial[n] ELSE Zero]
  PROVE  Matches(s.terminals, v, InitialRegs(s, initial))
  <1> DEFINE T == s.terminals
             F == InitialRegs(s, initial)
  <1>1. ASSUME NEW r \in Regs, NEW n \in Names, T[r] = <<"var", n>> PROVE F[r] = v[n]
    <2>1. F[r] = IF T[r][1] = "const" THEN Number(T[r][2])
                 ELSE IF T[r][1] = "var" /\ T[r][2] \in Pfv THEN initial[T[r][2]] ELSE Zero
      BY DEF InitialRegs
    <2> HIDE DEF F, T, Names, Pfv
    <2>2. T[r][1] = "var" /\ T[r][2] = n
      BY <1>1
    <2> QED BY <2>1, <2>2
  <1>2. ASSUME NEW r \in Regs, NEW x, T[r] = <<"const", x>> PROVE F[r] = Number(x)
    <2>1. F[r] = IF T[r][1] = "const" THEN Number(T[r][2])
                 ELSE IF T[r][1] = "var" /\ T[r][2] \in Pfv THEN initial[T[r][2]] ELSE Zero
      BY DEF InitialRegs
    <2> HIDE DEF F, T
    <2>2. T[r][1] = "const" /\ T[r][2] = x
      BY <1>2
    <2> QED BY <2>1, <2>2
  <1> QED BY <1>1, <1>2 DEF Matches

\* An input is written.
With(v, m, x) == [v EXCEPT ![m] = x]
InputWritten(s, m, x, F) == IF Allocation(s)[m] < 0 THEN F ELSE [F EXCEPT ![Allocation(s)[m]] = x]

LEMMA InputMatches ==
  ASSUME NEW s \in CompilerStates, Sound(s), NEW v, DOMAIN v = Names, NEW F, DOMAIN F = Regs,
         Matches(s.terminals, v, F), NEW m \in Pfv, NEW x,
         NEW G, G = InputWritten(s, m, x, F), NEW u, u = With(v, m, x)
  PROVE  DOMAIN G = Regs /\ Matches(s.terminals, u, G)
  <1> DEFINE T == s.terminals
  <1> PICK a : a = Allocation(s)[m]
    OBVIOUS
  <1>1. /\ ~Registered(s, m) => a = -1
        /\ Registered(s, m) => a \in Regs /\ T[a] = <<"var", m>> /\ ~(a < 0)
        /\ \A r \in Regs : T[r] = <<"var", m>> => a = r
    BY AllocationFacts
  <1>2. G = IF a < 0 THEN F ELSE [F EXCEPT ![a] = x]
    BY DEF InputWritten
  <1>3. m \in Names
    BY DEF Names
  <1> HIDE DEF Names, Pfv
  <1>4. u[m] = x /\ \A n \in Names : n # m => u[n] = v[n]
    BY <1>3 DEF With
  <1>5. \A r \in Regs : r # a => G[r] = F[r]
    BY <1>2
  <1>6. Registered(s, m) => G[a] = x
    BY <1>1, <1>2
  <1>7. ~Registered(s, m) => G = F
    BY <1>1, <1>2
  <1>8. ASSUME NEW r \in Regs, NEW n \in Names, T[r] = <<"var", n>> PROVE G[r] = u[n]
    <2>1. CASE n = m
      <3>1. Registered(s, m)
        BY <1>8, <2>1 DEF Registered
      <3> QED BY <1>1, <1>4, <1>6, <1>8, <2>1, <3>1
    <2>2. CASE n # m
      <3>1. F[r] = v[n]
        BY <1>8 DEF Matches
      <3>2. Registered(s, m) => r # a
        BY <1>1, <1>8, <2>2
      <3> QED BY <1>4, <1>5, <1>7, <2>2, <3>1, <3>2
    <2> QED BY <2>1, <2>2
  <1>9. ASSUME NEW r \in Regs, NEW y, T[r] = <<"const", y>> PROVE G[r] = Number(y)
    <2>1. F[r] = Number(y)
      BY <1>9 DEF Matches
    <2>2. Registered(s, m) => r # a
      BY <1>1, <1>9
    <2> QED BY <1>5, <1>7, <2>1, <2>2
  <1>10. DOMAIN G = Regs
    BY <1>2
  <1> QED BY <1>8, <1>9, <1>10 DEF Matches

\* What is read is the value of the variable.
Calculated == Pfv \ {"time"}                \* not an input
ReadFrom(s, n, initial, F) ==
  IF Allocation(s)[n] < 0 THEN initial[n] ELSE F[Allocation(s)[n]]

LEMMA ReadsValue ==
  ASSUME NEW s \in CompilerStates, Sound(s), NEW v, NEW F, Matches(s.terminals, v, F),
         NEW initial, Unregistered(s, v, initial), NEW n \in Calculated
  PROVE  ReadFrom(s, n, initial, F) = v[n]
  <1> PICK a : a = Allocation(s)[n]
    OBVIOUS
  <1>1. /\ ~Registered(s, n) => a = -1
        /\ Registered(s, n) => a \in Regs /\ s.terminals[a] = <<"var", n>> /\ ~(a < 0)
    BY AllocationFacts DEF Calculated
  <1>2. n \in Names
    BY DEF Names, Calculated
  <1>3. ReadFrom(s, n, initial, F) = IF a < 0 THEN initial[n] ELSE F[a]
    BY DEF ReadFrom
  <1>4. CASE Registered(s, n)
    BY <1>1, <1>2, <1>3, <1>4 DEF Matches
  <1>5. CASE ~Registered(s, n)
    BY <1>1, <1>3, <1>5 DEF Unregistered, Calculated
  <1> QED BY <1>4, <1>5

\* A frame gives every variable a value, and the equations do not change what has no register.
Timed(v, x) == [v EXCEPT !["time"] = x]

LEMMA TimedFacts ==
  ASSUME NEW v, Environment(v), NEW x, x # None, NEW e, e = Timed(v, x)
  PROVE  Environment(e) /\ \A n \in Names \ {"time"} : e[n] = v[n]
  <1>1. "time" \in Names
    BY DEF Names, Pfv
  <1> HIDE DEF Names
  <1> QED BY <1>1 DEF Environment, Timed

LEMMA StartedEnvironment ==
  ASSUME NEW p \in Presets, NEW v, Environment(v), NEW x, x # None, NEW e, e = Timed(v, x)
  PROVE  Environment(e) /\ Environment(Assigned(p.equations, e))
  <1> DEFINE eqs == p.equations
  <1>1. Len(eqs) \in Nat
    BY EquationsLength
  <1>2. Environment(e)
    BY TimedFacts
  <1> HIDE DEF eqs
  <1>3. Assigned(eqs, e) = AssignedTo(eqs, e)[Len(eqs)]
    BY <1>1, AssignedIsLast
  <1>4. Environment(AssignedTo(eqs, e)[Len(eqs)])
    <2>1. \A k \in 0..Len(p.equations) : Environment(AssignedTo(p.equations, e)[k])
      BY <1>2, AssignedFacts
    <2>2. Len(eqs) \in 0..Len(eqs)
      BY <1>1
    <2> QED BY <2>1, <2>2 DEF eqs
  <1> QED BY <1>2, <1>3, <1>4 DEF eqs

LEMMA UnregisteredNext ==
  ASSUME NEW p \in Presets, NEW s, Targets(p.equations, Len(p.equations), s), Room(s),
         NEW v, Environment(v), NEW initial, Unregistered(s, v, initial), NEW x, x # None,
         NEW e, e = Timed(v, x)
  PROVE  Unregistered(s, Assigned(p.equations, e), initial)
  <1> DEFINE eqs == p.equations
             w == Assigned(eqs, e)
  <1>1. \A n \in Pfv \ {"time"} : n \in Names \ {"time"}
    BY DEF Names
  <1>2. Len(eqs) \in Nat
    BY EquationsLength
  <1>3. Environment(e) /\ \A n \in Names \ {"time"} : e[n] = v[n]
    BY TimedFacts
  <1> HIDE DEF eqs, Names, Pfv
  <1>4. w = AssignedTo(eqs, e)[Len(eqs)]
    BY <1>2, AssignedIsLast
  <1>5. \A n \in Names : (\A j \in 1..Len(eqs) : eqs[j].target # n) =>
          AssignedTo(eqs, e)[Len(eqs)][n] = e[n]
    <2>1. Len(eqs) \in 0..Len(eqs)
      BY <1>2
    <2>2. \A k \in 0..Len(p.equations) :
            \A n \in Names : (\A j \in 1..k : p.equations[j].target # n) =>
              AssignedTo(p.equations, e)[k][n] = e[n]
      BY <1>3, AssignedFacts
    <2> QED BY <2>1, <2>2 DEF eqs
  <1> HIDE DEF w
  <1>6. ASSUME NEW n \in Pfv \ {"time"}, ~Registered(s, n) PROVE w[n] = initial[n]
    <2>1. \A j \in 1..Len(eqs) : eqs[j].target # n
      <3> SUFFICES ASSUME NEW j \in 1..Len(eqs), eqs[j].target = n PROVE Registered(s, n)
        BY <1>6
      <3>1. \E r \in Regs : s.terminals[r] = <<"var", eqs[j].target>>
        BY DEF Targets, eqs
      <3> QED BY <3>1 DEF Registered
    <2>2. w[n] = e[n] /\ e[n] = v[n]
      BY <1>1, <1>3, <1>4, <1>5, <2>1
    <2> QED BY <1>6, <2>2 DEF Unregistered
  <1> QED BY <1>6 DEF Unregistered, w, eqs

-----------------------------------------------------------------------------
(* What is read after a frame *)

Beginning(p) == [n \in Names |-> IF n \in Pfv THEN Initial(p)[n] ELSE Zero]

\* The variables, the registers they have been given, and the room for all of them.
ReadForm ==
  /\ Environment(values) /\ eval.initial = Initial(preset) /\ DOMAIN eval.current = Regs
  /\ phase = "compile" => values = Beginning(preset)
  /\ phase # "compile" => eval.allocation = Allocation(cs)
ReadRoom ==
  fits /\ phase # "compile" => Room(cs) /\ Unregistered(cs, values, eval.initial)
\* Where their values are: in eval_state, in the PFPU once the per-frame program has ended, and
\* before that still to be computed from what it was started with.
Settled == phase # "compile" /\ ~(unit = "frame" /\ phase \in {"run", "irq"})
ReadSettled == fits /\ Settled => Matches(cs.terminals, values, eval.current)
Computing(p, s, v, file) ==
  \E env : /\ Environment(env) /\ v = Assigned(p.equations, env)
           /\ Matches(s.terminals, env, file)
ReadRun ==
  fits /\ unit = "frame" /\ phase = "run" => Computing(preset, cs, values, FrameFile)
ReadIrq ==
  fits /\ unit = "frame" /\ phase = "irq" => Matches(cs.terminals, values, regs)

ReadInv == ReadForm /\ ReadRoom /\ ReadSettled /\ ReadRun /\ ReadIrq

LEMMA BeginningFacts == ASSUME NEW p PROVE Environment(Beginning(p))
  <1> DEFINE b == Beginning(p)
  <1>1. \A n \in Pfv : Initial(p)[n] # None
    BY DEF Initial, Number, Zero, None
  <1>2. Zero # None
    BY DEF Zero, None
  <1>3. DOMAIN b = Names
    BY DEF Beginning
  <1>4. \A n \in Names : b[n] # None
    <2> HIDE DEF Names, Pfv
    <2> QED BY <1>1, <1>2 DEF Beginning
  <1> QED BY <1>3, <1>4 DEF Environment

LEMMA ReadInit == Init => ReadInv
  <1> SUFFICES ASSUME Init PROVE ReadInv
    OBVIOUS
  <1>1. phase = "compile" /\ values = Beginning(preset)
    BY DEF Init, Beginning
  <1>2. eval.initial = Initial(preset) /\ DOMAIN eval.current = Regs
    BY DEF Init
  <1>3. ReadForm
    BY <1>1, <1>2, BeginningFacts DEF ReadForm
  <1> QED BY <1>1, <1>3 DEF ReadInv, ReadRoom, ReadSettled, Settled, ReadRun, ReadIrq

\* The steps that leave the variables where they are.
LEMMA ReadSame ==
  ASSUME ReadInv, cs' = cs, preset' = preset, values' = values, fits' => fits,
         eval'.initial = eval.initial, eval'.current = eval.current,
         eval'.allocation = eval.allocation, Settled, Settled'
  PROVE  ReadInv'
  <1>1. phase # "compile" /\ phase' # "compile"
    BY DEF Settled
  <1>2. ReadForm'
    BY <1>1 DEF ReadInv, ReadForm
  <1>3. ReadRoom'
    BY <1>1 DEF ReadInv, ReadRoom
  <1>4. ReadSettled'
    BY DEF ReadInv, ReadSettled
  <1>5. ReadRun' /\ ReadIrq'
    BY DEF Settled, ReadRun, ReadIrq
  <1> QED BY <1>2, <1>3, <1>4, <1>5 DEF ReadInv

LEMMA ReadCompile ==
  ASSUME ReadInv, PhaseInv, CompileNext
  PROVE  ReadInv'
  <1>1. /\ phase = "compile" /\ phase' = "compile" /\ preset' = preset /\ eval' = eval
        /\ values' = values
    BY DEF CompileNext, history
  <1>2. ReadForm'
    BY <1>1 DEF ReadInv, ReadForm
  <1> QED BY <1>1, <1>2 DEF ReadInv, ReadRoom, ReadSettled, Settled, ReadRun, ReadIrq

LEMMA ReadStart ==
  ASSUME ReadInv, PhaseInv, Compiling, StartSchedule
  PROVE  ReadInv'
  <1> PICK s, file, i, a : s = cs /\ file = InitialRegs(cs, eval.initial) /\ i = eval.initial
                           /\ a = Allocation(cs)
    OBVIOUS
  <1>1. /\ phase = "compile" /\ phase' = "schedule" /\ unit' = unit /\ preset' = preset /\ cs' = s
        /\ values' = values /\ eval' = [eval EXCEPT !.current = file, !.allocation = a]
    BY DEF StartSchedule, Goto, compiling
  <1>2. eval'.initial = i /\ eval'.current = file /\ eval'.allocation = a
    BY <1>1 DEF PhaseInv, EvalForm
  <1>3. fits' => Room(s)
    BY DEF StartSchedule, Room
  <1>4. values = Beginning(preset) /\ i = Initial(preset) /\ Environment(values)
    BY <1>1 DEF ReadInv, ReadForm
  <1>5. DOMAIN file = Regs
    BY DEF InitialRegs
  <1>6. Matches(s.terminals, values, file)
    <2>1. values = [n \in Names |-> IF n \in Pfv THEN i[n] ELSE Zero]
      BY <1>4 DEF Beginning
    <2> PICK v : v = values
      OBVIOUS
    <2> QED BY <2>1, InitialMatches DEF Compiling
  <1>7. Unregistered(s, values, i)
    <2>1. \A n \in Pfv : n \in Names
      BY DEF Names
    <2> HIDE DEF Names, Pfv
    <2>2. \A n \in Pfv : values[n] = i[n]
      BY <1>4, <2>1 DEF Beginning
    <2> QED BY <2>2 DEF Unregistered
  <1>8. ReadForm'
    BY <1>1, <1>2, <1>4, <1>5 DEF ReadForm
  <1>9. ReadRoom' /\ ReadSettled'
    BY <1>1, <1>2, <1>3, <1>6, <1>7 DEF ReadRoom, ReadSettled
  <1> QED BY <1>1, <1>8, <1>9 DEF ReadInv, ReadRun, ReadIrq

\* The per-frame program is started: its input is written.
LEMMA ReadFrame ==
  ASSUME ReadInv, PhaseInv, Compiling, Translated, EvalFrame
  PROVE  ReadInv'
  <1> PICK s, p, v, e, i, x, F, G :
        /\ s = cs /\ p = preset /\ v = values /\ i = eval.initial /\ x = InputTime
        /\ F = eval.current /\ G = WritePfv("time", InputTime)
        /\ e = Timed(values, InputTime)
    OBVIOUS
  <1>1. /\ phase = "ready" /\ phase' = "run" /\ unit' = "frame" /\ preset' = p /\ cs' = s
        /\ eval' = [eval EXCEPT !.current = G] /\ fits' = fits /\ vertex' = 0
        /\ values' = Assigned(p.equations, e) /\ StartPfpu(eval.perframe, G)
    BY DEF EvalFrame, Goto, StartPfpu, compiling, Timed
  <1>2. eval'.initial = i /\ eval'.current = G /\ eval'.allocation = eval.allocation
    BY <1>1 DEF PhaseInv, EvalForm
  <1>3. /\ Environment(v) /\ i = Initial(p) /\ DOMAIN F = Regs /\ eval.allocation = Allocation(s)
        /\ e = Timed(v, x)
    BY <1>1 DEF ReadInv, ReadForm
  <1>4. G = IF Allocation(s)["time"] < 0 THEN F ELSE [F EXCEPT ![Allocation(s)["time"]] = x]
    BY <1>3 DEF WritePfv
  <1>5. s \in CompilerStates /\ Sound(s) /\ p \in Presets
    BY DEF Compiling
  <1>6. x # None /\ "time" \in Pfv
    BY DEF InputTime, None, Pfv
  <1>7. Environment(e) /\ Environment(Assigned(p.equations, e))
    BY <1>3, <1>5, <1>6, StartedEnvironment
  <1>8. DOMAIN G = Regs
    BY <1>3, <1>4
  <1>9. ReadForm'
    BY <1>1, <1>2, <1>3, <1>7, <1>8 DEF ReadForm
  <1>10. ASSUME fits PROVE Room(s) /\ Unregistered(s, v, i) /\ Matches(s.terminals, v, F)
    BY <1>1, <1>10 DEF ReadInv, ReadRoom, ReadSettled, Settled
  <1>11. ReadRoom'
    <2> SUFFICES ASSUME fits PROVE Room(s) /\ Unregistered(s, Assigned(p.equations, e), i)
      BY <1>1, <1>2 DEF ReadRoom
    <2>1. Targets(p.equations, Len(p.equations), s)
      BY <1>1 DEF Translated
    <2> QED BY <1>3, <1>5, <1>6, <1>10, <2>1, UnregisteredNext
  <1>12. ReadRun'
    <2> SUFFICES ASSUME fits PROVE Computing(p, s, Assigned(p.equations, e), FrameFile')
      BY <1>1 DEF ReadRun
    <2>1. Matches(s.terminals, e, G)
      <3>1. DOMAIN v = Names
        BY <1>3 DEF Environment
      <3> PICK m : m = "time"
        OBVIOUS
      <3>2. m \in Pfv /\ e = With(v, m, x) /\ G = InputWritten(s, m, x, F)
        BY <1>3, <1>4, <1>6 DEF Timed, With, InputWritten
      <3> QED BY <1>3, <1>5, <1>10, <3>1, <3>2, InputMatches
    <2> PICK H : H = FrameFile'
      OBVIOUS
    <2>2. H = [r \in Regs |-> CASE r = 0 -> <<"x", 0>> [] r = 1 -> <<"y", 0>>
                 [] r \in Reserved \ {0, 1} -> regs'[r] [] OTHER -> G[r]]
      BY <1>1, <1>2 DEF FrameFile, LoadRegisters
    <2>3. \A r \in Used(s) : H[r] = G[r]
      <3>1. \A r \in Used(s) : r \in Regs /\ r \notin Reserved /\ r # 0 /\ r # 1
        BY <1>5 DEF Used, Sound, Reserved
      <3> QED BY <2>2, <3>1
    <2>4. Matches(s.terminals, e, H)
      BY <1>5, <2>1, <2>3, MatchesUsed
    <2> QED BY <1>7, <2>4 DEF Computing
  <1> QED BY <1>1, <1>9, <1>11, <1>12 DEF ReadInv, ReadSettled, Settled, ReadIrq

\* It runs: what it was started with stays.
LEMMA ReadExecute ==
  ASSUME ReadInv, FrameInv, Execute
  PROVE  ReadInv'
  <1>1. /\ phase = "run" /\ phase' = "run" /\ unit' = unit /\ preset' = preset /\ cs' = cs
        /\ eval' = eval /\ values' = values /\ fits' = fits /\ vertex' = vertex
    BY DEF Execute, compiling, history
  <1>2. CASE unit = "vertex"
    <2>1. Settled /\ Settled'
      BY <1>1, <1>2 DEF Settled
    <2> QED BY <1>1, <2>1, ReadSame
  <1>3. CASE unit = "frame"
    <2>1. ReadForm' /\ ReadRoom'
      BY <1>1 DEF ReadInv, ReadForm, ReadRoom
    <2>2. ReadRun'
      <3> SUFFICES ASSUME fits PROVE Computing(preset, cs, values, FrameFile')
        BY <1>1 DEF ReadRun
      <3>1. Executing(FrameProgram, FrameKeep, eval.perframe, FrameFile)
        BY <1>1, <1>3 DEF FrameInv, FrameExecuting
      <3>2. Schedulable(FrameProgram, FrameKeep)
        BY FrameSchedulable DEF FrameInv
      <3> PICK prog, keep, code, F :
            prog = FrameProgram /\ keep = FrameKeep /\ code = eval.perframe /\ F = FrameFile
        OBVIOUS
      <3>3. DOMAIN F = Regs /\ Executing(prog, keep, code, F) /\ Schedulable(prog, keep)
        BY <3>1, <3>2, FrameFileRegs
      <3>4. \A p \in Reserved : regs'[p] = regs[p]
        BY <3>3, ExecuteStep
      <3>5. FrameFile' = FrameFile
        BY <1>1, <3>4, FrameFileStays
      <3>6. Computing(preset, cs, values, FrameFile)
        BY <1>1, <1>3 DEF ReadInv, ReadRun
      <3> QED BY <3>5, <3>6
    <2> QED BY <1>1, <1>3, <2>1, <2>2 DEF ReadInv, ReadSettled, Settled, ReadIrq
  <1> QED BY <1>2, <1>3 DEF FrameInv, PhaseInv

\* It ends: the registers hold what the equations give.
LEMMA FrameComputed ==
  ASSUME NEW s \in CompilerStates, Sound(s), Room(s), NEW p \in Presets,
         Meaning(p.equations, Len(p.equations), s),
         NEW v, NEW F, DOMAIN F = Regs, Computing(p, s, v, F),
         NEW keep, Used(s) \subseteq keep, NEW code, Schedulable(WithDma(s.prog), keep),
         Executing(WithDma(s.prog), keep, code, F), Output
  PROVE  Matches(s.terminals, v, regs)
  <1> PICK T, eqs, q, R : T = s.terminals /\ eqs = p.equations /\ q = s.prog /\ R = regs
    OBVIOUS
  <1>1. PICK env : Environment(env) /\ v = Assigned(eqs, env) /\ Matches(T, env, F)
    BY DEF Computing
  <1>2. Unambiguous(T)
    BY SoundUnambiguous
  <1>3. Ample(T, s)
    BY DEF Ample
  <1>4. v = AssignedTo(eqs, env)[Len(eqs)]
    BY <1>1, AssignedIsLast
  <1>5. Matches(T, v, Exec(s, F))
    BY <1>1, <1>2, <1>3, <1>4 DEF Meaning
  <1>6. ASSUME NEW r \in Used(s) PROVE R[r] = Exec(s, F)[r]
    <2>1. r \in Regs /\ r \in keep /\ r # RegOut /\ r \in DOMAIN F
      BY DEF Used, Sound, Reserved
    <2> PICK prog : prog = WithDma(q)
      OBVIOUS
    <2>2. Schedulable(prog, keep) /\ Executing(prog, keep, code, F)
      OBVIOUS
    <2>3. R[r] = Executed(prog, F)[r]
      BY <2>1, <2>2, OutputKept
    <2>4. q \in Seq(Isns)
      BY DEF CompilerStates
    <2>5. Executed(prog, F)[r] = Executed(q, F)[r]
      BY <2>1, <2>4, DmaKeeps
    <2> QED BY <2>3, <2>5 DEF Exec
  <1>7. Matches(T, v, R)
    BY <1>5, <1>6, MatchesUsed
  <1> QED BY <1>7

LEMMA ReadOutput ==
  ASSUME ReadInv, FrameInv, Translated, NextVertex
  PROVE  ReadInv'
  <1>1. /\ phase = "run" /\ phase' \in {"run", "irq"} /\ unit' = unit /\ preset' = preset
        /\ cs' = cs /\ eval' = eval /\ values' = values /\ fits' = fits
    BY DEF NextVertex, compiling
  <1>2. CASE unit = "vertex"
    <2>1. Settled /\ Settled'
      BY <1>1, <1>2 DEF Settled
    <2> QED BY <1>1, <2>1, ReadSame
  <1>3. CASE unit = "frame"
    <2>1. ReadForm' /\ ReadRoom'
      BY <1>1 DEF ReadInv, ReadForm, ReadRoom
    <2>2. phase' = "irq" /\ regs' = regs /\ Output
      BY <1>3 DEF NextVertex
    <2>3. ASSUME fits PROVE Matches(cs.terminals, values, regs)
      <3> PICK s, p, v, F, keep, code :
            /\ s = cs /\ p = preset /\ v = values /\ F = FrameFile /\ keep = FrameKeep
            /\ code = eval.perframe
        OBVIOUS
      <3>1. s \in CompilerStates /\ Sound(s) /\ p \in Presets
        BY DEF FrameInv, Compiling
      <3>2. Room(s)
        BY <1>1, <2>3 DEF ReadInv, ReadRoom
      <3>3. Meaning(p.equations, Len(p.equations), s)
        BY <1>1 DEF Translated
      <3>4. DOMAIN F = Regs /\ Computing(p, s, v, F)
        BY <1>1, <1>3, <2>3, FrameFileRegs DEF ReadInv, ReadRun
      <3>5. Used(s) \subseteq keep
        BY DEF FrameKeep
      <3>6. Schedulable(WithDma(s.prog), keep)
        BY FrameSchedulable DEF FrameInv, FrameProgram
      <3>7. Executing(WithDma(s.prog), keep, code, F)
        BY <1>1, <1>3, <2>3 DEF FrameInv, FrameExecuting, FrameProgram
      <3>8. Matches(s.terminals, v, regs)
        BY <2>2, <3>1, <3>2, <3>3, <3>4, <3>5, <3>6, <3>7, FrameComputed
      <3> QED BY <3>8
    <2>4. ReadIrq'
      BY <1>1, <2>2, <2>3 DEF ReadIrq
    <2> QED BY <1>1, <1>3, <2>1, <2>2, <2>4 DEF ReadInv, ReadSettled, Settled, ReadRun
  <1> QED BY <1>2, <1>3 DEF FrameInv, PhaseInv

\* The registers are read back.
LEMMA ReadBack ==
  ASSUME ReadInv, FrameInv, FrameDone
  PROVE  ReadInv'
  <1> PICK G : G = [r \in Regs |-> IF r \in Reserved THEN eval.current[r] ELSE regs[r]]
    OBVIOUS
  <1>1. /\ phase = "irq" /\ phase' = "frame" /\ unit = "frame" /\ unit' = unit /\ preset' = preset
        /\ cs' = cs /\ values' = values /\ fits' = fits /\ eval' = [eval EXCEPT !.current = G]
    BY DEF FrameDone, Goto, compiling, history
  <1>2. eval'.initial = eval.initial /\ eval'.current = G /\ eval'.allocation = eval.allocation
    BY <1>1 DEF FrameInv, PhaseInv, EvalForm
  <1>3. ReadForm' /\ ReadRoom'
    BY <1>1, <1>2 DEF ReadInv, ReadForm, ReadRoom
  <1>4. ASSUME fits PROVE Matches(cs.terminals, values, G)
    <2> PICK s, v, R : s = cs /\ v = values /\ R = regs
      OBVIOUS
    <2>1. Matches(s.terminals, v, R)
      BY <1>1, <1>4 DEF ReadInv, ReadIrq
    <2>2. s \in CompilerStates /\ \A r \in Used(s) : r \in Regs /\ r \notin Reserved
      BY DEF FrameInv, Compiling, Sound, Used
    <2>3. \A r \in Used(s) : G[r] = R[r]
      BY <2>2
    <2>4. Matches(s.terminals, v, G)
      BY <2>1, <2>2, <2>3, MatchesUsed
    <2> QED BY <2>4
  <1>5. ReadSettled'
    BY <1>1, <1>2, <1>4 DEF ReadSettled
  <1> QED BY <1>1, <1>3, <1>5 DEF ReadInv, ReadRun, ReadIrq

LEMMA ReadNext == FrameInv /\ Translated /\ ReadInv /\ [Next]_vars => ReadInv'
  <1> SUFFICES ASSUME FrameInv, Translated, ReadInv, [Next]_vars PROVE ReadInv'
    OBVIOUS
  <1>1. PhaseInv /\ Compiling /\ EvalForm
    BY DEF FrameInv, PhaseInv
  <1>2. CASE CompileNext
    BY <1>1, <1>2, ReadCompile
  <1>3. CASE StartSchedule
    BY <1>1, <1>3, ReadStart
  <1>4. CASE EvalFrame
    BY <1>1, <1>4, ReadFrame
  <1>5. CASE Execute
    BY <1>5, ReadExecute
  <1>6. CASE NextVertex
    BY <1>6, ReadOutput
  <1>7. CASE FrameDone
    BY <1>7, ReadBack
  <1>8. CASE ScheduleCycle \/ ScheduleEnd
    <2>1. /\ phase = "schedule" /\ phase' \in {"schedule", "finish"} /\ cs' = cs /\ preset' = preset
          /\ values' = values /\ eval' = eval /\ (fits' => fits)
      <3>1. CASE ScheduleCycle
        BY <3>1 DEF ScheduleCycle, compiling
      <3>2. CASE ScheduleEnd
        BY <3>2 DEF ScheduleEnd, Goto, compiling, history
      <3> QED BY <1>8, <3>1, <3>2
    <2>2. Settled /\ Settled'
      BY <2>1 DEF Settled
    <2> QED BY <2>1, <2>2, ReadSame
  <1>9. CASE FinishFrame
    <2>1. /\ phase = "finish" /\ phase' \in {"refused", "schedule"} /\ cs' = cs /\ preset' = preset
          /\ values' = values /\ (fits' => fits)
          /\ eval' = eval \/ eval' = [eval EXCEPT !.perframe = Words(DummyDma(sc))]
      BY <1>9 DEF FinishFrame, compiling
    <2>2. eval'.initial = eval.initial /\ eval'.current = eval.current
          /\ eval'.allocation = eval.allocation
      BY <1>1, <2>1 DEF EvalForm
    <2>3. Settled /\ Settled'
      BY <2>1 DEF Settled
    <2> QED BY <2>1, <2>2, <2>3, ReadSame
  <1>10. CASE FinishVertex
    <2>1. /\ phase = "finish" /\ phase' = "ready" /\ cs' = cs /\ preset' = preset
          /\ values' = values /\ (fits' => fits)
          /\ eval' = [eval EXCEPT !.pervertex = Words(sc)]
      BY <1>10 DEF FinishVertex, Goto, compiling
    <2>2. eval'.initial = eval.initial /\ eval'.current = eval.current
          /\ eval'.allocation = eval.allocation
      BY <1>1, <2>1 DEF EvalForm
    <2>3. Settled /\ Settled'
      BY <2>1 DEF Settled
    <2> QED BY <2>1, <2>2, <2>3, ReadSame
  <1>11. CASE EvalVertices
    <2>1. /\ phase = "frame" /\ phase' = "run" /\ unit' = "vertex" /\ cs' = cs /\ preset' = preset
          /\ values' = values /\ eval' = eval /\ fits' = fits
      BY <1>11 DEF EvalVertices, Goto, compiling, history
    <2>2. Settled /\ Settled'
      BY <2>1 DEF Settled
    <2> QED BY <2>1, <2>2, ReadSame
  <1>12. CASE VerticesDone
    <2>1. /\ phase = "irq" /\ phase' = "ready" /\ unit = "vertex" /\ cs' = cs /\ preset' = preset
          /\ values' = values /\ eval' = eval /\ fits' = fits
      BY <1>12 DEF VerticesDone, Goto, compiling, history
    <2>2. Settled /\ Settled'
      BY <2>1 DEF Settled
    <2> QED BY <2>1, <2>2, ReadSame
  <1>13. CASE UNCHANGED vars
    <2>1. /\ phase' = phase /\ unit' = unit /\ cs' = cs /\ preset' = preset /\ values' = values
          /\ eval' = eval /\ fits' = fits /\ regs' = regs /\ vertex' = vertex
      BY <1>13 DEF vars, compiling, core, history
    <2>2. FrameFile' = FrameFile
      BY <2>1, FrameFileStays
    <2>3. ReadForm' /\ ReadRoom'
      BY <2>1 DEF ReadInv, ReadForm, ReadRoom
    <2>4. ReadSettled' /\ ReadIrq'
      BY <2>1 DEF ReadInv, ReadSettled, Settled, ReadIrq
    <2>5. ReadRun'
      BY <2>1, <2>2 DEF ReadInv, ReadRun
    <2> QED BY <2>3, <2>4, <2>5 DEF ReadInv
  <1> QED BY <1>2, <1>3, <1>4, <1>5, <1>6, <1>7, <1>8, <1>9, <1>10, <1>11, <1>12, <1>13 DEF Next

LEMMA ReadsPfv ==
  ASSUME FrameInv, ReadInv, fits, phase = "frame", NEW n \in Calculated
  PROVE  ReadPfv(n) = values[n]
  <1> PICK s, v, i, F : s = cs /\ v = values /\ i = eval.initial /\ F = eval.current
    OBVIOUS
  <1>1. s \in CompilerStates /\ Sound(s)
    BY DEF FrameInv, Compiling
  <1>2. eval.allocation = Allocation(s)
    BY DEF ReadInv, ReadForm
  <1>3. Unregistered(s, v, i) /\ Matches(s.terminals, v, F)
    BY DEF ReadInv, ReadRoom, ReadSettled, Settled
  <1>4. ReadFrom(s, n, i, F) = v[n]
    BY <1>1, <1>3, ReadsValue
  <1> QED BY <1>2, <1>4 DEF ReadPfv, ReadFrom

\* What eval.h promises of eval_read_pfv: after each frame the variables the renderer reads have
\* the values that the equations of the preset give when they are evaluated one after the other,
\* compiled, scheduled out of order and executed by the PFPU as they are: for every preset
\* without a division whose operators have their two arguments, whatever the sizes, until a
\* program meets a limit of the hardware.
THEOREM ReadsAreCorrect == ASSUME NoDivision, WellApplied PROVE Spec => []ReadsCorrect
  <1>1. FrameInv /\ ReadInv => ReadsCorrect
    <2>1. {"zoom", "decay"} \subseteq Calculated
      BY DEF Pfv, Calculated
    <2>2. FrameInv /\ ReadInv /\ fits /\ phase = "frame" => \A n \in Calculated : ReadPfv(n) = values[n]
      BY ReadsPfv
    <2> HIDE DEF Calculated
    <2> QED BY <2>1, <2>2 DEF ReadsCorrect
  <1>2. Init => FrameInv /\ Translated /\ ReadInv
    BY FrameInit, TranslatedInit, ReadInit
  <1>3. FrameInv /\ Translated /\ ReadInv /\ [Next]_vars => (FrameInv /\ Translated /\ ReadInv)'
    <2>1. FrameInv => Compiling
      BY DEF FrameInv
    <2> QED BY <2>1, FrameNext, TranslatedNext, ReadNext
  <1> QED BY <1>1, <1>2, <1>3, PTL DEF Spec
=============================================================================
