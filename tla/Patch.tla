------------------------------- MODULE Patch -------------------------------
(***************************************************************************)
(* From a parsed preset to vertices: software/demo/compiler.c compiles the *)
(* per-frame equations, scheduler.c (module Scheduler) makes microcode of  *)
(* them and of the built-in per-vertex program, eval.c maps MilkDrop's     *)
(* variables to registers and libhal/pfpu.c loads the PFPU (cores/pfpu),   *)
(* which executes both programs in each frame of music.                    *)
(*                                                                         *)
(* Numbers are symbolic: the term that computes them.  Two terms are equal *)
(* when the same operations were applied to the same inputs.               *)
(***************************************************************************)
EXTENDS Scheduler

CONSTANTS PageSize,     \* PFPU_PAGESIZE
          Presets,      \* the presets that may be loaded
          Depth,        \* of each expression in them and each of its parts
          MaxDepth,     \* bound: nesting of expressions
          MaxFrames,    \* bound: frames evaluated
          Vertices      \* vertices of the mesh

VARIABLES
  preset, phase,        \* the preset; where its loading or evaluation is
  unit,                 \* the program at hand, per-frame or per-vertex
  equation, cs,         \* compiler: the next equation, its state
  visn, cycle, sc,      \* scheduler: virtual program, cycle, its state
  eval,                 \* eval_state
  mem, pc, regs, pipe,  \* PFPU: program memory, counter, registers, pipeline
  vertex, frames,
  values, drawn, due,   \* history: what the variables should hold, the last vertex
                        \* written to memory and what it should be
  fits                  \* history: no program has met a limit of the hardware

compiling == <<equation, cs>>
scheduling == <<visn, cycle, sc>>
core == <<mem, pc, regs, pipe, vertex>>
history == <<values, drawn, due, fits>>
vars == <<preset, phase, unit, compiling, scheduling, eval, core, frames, history>>

Pfv == {"zoom", "decay", "time"}             \* of pfv_names
Names == Pfv \cup {"q"}                      \* and a variable of the preset's own

\* The presets, and the nodes of their equations: a node has no more than two arguments, each
\* of them less deep.
ASSUME SizesAssumption ==
  /\ {RegCount, ProgSize, PageSize} \subseteq Nat \ {0} /\ RegCount >= 15
  /\ {MaxFrames, Vertices, MaxDepth} \subseteq Nat
ASSUME NodesAssumption ==
  /\ Depth \in [DOMAIN Depth -> 0..MaxDepth]
  /\ \A node \in DOMAIN Depth :
       node.label # "" =>
         /\ node.args \in Seq(DOMAIN Depth) /\ Len(node.args) \in 0..2
         /\ node.args = <<>> => node.label \in Names
         /\ \A i \in DOMAIN node.args : Depth[node.args[i]] < Depth[node]
ASSUME PresetsAssumption ==
  \A p \in Presets : p.equations \in Seq([target : Names, node : DOMAIN Depth])

-----------------------------------------------------------------------------
(* The syntax tree (ast.h), and what it means *)

Nodes == DOMAIN Depth
Const(x) == [label |-> "", constant |-> x]
Var(n) == [label |-> n, args |-> <<>>]
Apply(f, args) == [label |-> f, args |-> args]

\* operator2opcode; the other functions and operators have none.
Arithmetic == {"+", "-", "*", "/"}
Trigonometric == {"sin", "cos"}
Comparisons == {"above", "equal"}
Opcode ==
  [f \in Arithmetic \cup Trigonometric \cup Comparisons |->
     CASE f = "+" -> "fadd" [] f = "-" -> "fsub" [] f = "*" -> "fmul" [] f = "/" -> "fdiv"
       [] OTHER -> f]

Zero == <<"0">>
Conv == "8192/2pi"                           \* PFPU_TRIG_CONV
Number(x) == <<x>>

None == <<>>                                 \* no value

\* The value of an expression, None if one of its functions has no opcode: the reference
\* the microcode is compared with.
Value(env, expression) ==
  LET v[node \in Nodes] ==
        IF node.label = "" THEN Number(node.constant)
        ELSE IF node.args = <<>> THEN env[node.label]
        ELSE IF node.label \notin DOMAIN Opcode \/ \E i \in DOMAIN node.args : v[node.args[i]] = None
             THEN None
        ELSE IF node.label \in Trigonometric
             THEN <<Opcode[node.label], <<"f2i", <<"fmul", Number(Conv), v[node.args[1]]>>>>>>
             ELSE <<Opcode[node.label], v[node.args[1]], v[node.args[2]]>>
  IN  v[expression]

\* The equations take effect one after the other; one without a value is left out.
Assign(eq, env) ==
  LET x == Value(env, eq.node) IN IF x = None THEN env ELSE [env EXCEPT ![eq.target] = x]
Assigned(equations, env) ==
  LET e[k \in 0..Len(equations)] == IF k = 0 THEN env ELSE Assign(equations[k], e[k - 1])
  IN  e[Len(equations)]

-----------------------------------------------------------------------------
(* compiler.c *)

Unused == <<"unused">>
Literals == {Conv} \cup {n.constant : n \in {m \in Nodes : m.label = ""}}
Terminals == {Unused} \cup {"var"} \X Names \cup {"const"} \X Literals
Isns == [op : DOMAIN Latency, a : Int, b : Int, dest : Int]
CompilerStates == [n_vregs : Nat, terminals : [Regs -> Terminals], prog : Seq(Isns)]

\* compiler_init
CompilerInit == [n_vregs |-> RegCount, terminals |-> [r \in Regs |-> Unused], prog |-> <<>>]

\* compiler_add_variable, compiler_add_constant
AddTerminal(s, t) ==
  LET old == {r \in Regs : s.terminals[r] = t}
      free == {r \in Regs \ Reserved : s.terminals[r] = Unused}
  IN  IF old # {} THEN [cs |-> s, reg |-> Min(old)]
      ELSE IF free = {} THEN [cs |-> s, reg |-> -1]
      ELSE [cs |-> [s EXCEPT !.terminals[Min(free)] = t], reg |-> Min(free)]

\* compiler_add_isn
AddIsn(s, op, a, b, dest) ==
  IF Len(s.prog) >= ProgSize THEN [cs |-> s, reg |-> -1]
  ELSE [cs |-> [s EXCEPT !.prog = Append(@, [op |-> op, a |-> a, b |-> b, dest |-> dest])],
        reg |-> dest]

\* The leaves of int_compile: the register of the constant or variable, copied when the
\* caller wants the result elsewhere.
Leaf(s, t, reg) ==
  LET r == AddTerminal(s, t)
  IN  IF r.reg = -1 \/ reg < 0 THEN r ELSE AddIsn(r.cs, "copy", r.reg, 0, reg)

\* The trigonometric functions take turns, not radians: three instructions.
Trig(s, op, a, reg) ==
  LET k == AddTerminal(s, <<"const", Conv>>)
      mul == k.cs.n_vregs
      i1 == AddIsn([k.cs EXCEPT !.n_vregs = @ + 2], "fmul", k.reg, a, mul)
      i2 == AddIsn(i1.cs, "f2i", mul, 0, mul + 1)
  IN  IF k.reg = -1 THEN k
      ELSE IF i1.reg = -1 THEN i1 ELSE IF i2.reg = -1 THEN i2
      ELSE AddIsn(i2.cs, op, mul + 1, 0, reg)

\* int_compile: the state after it and the register of the result, -1 on an error.
\* (parser.y does not write the second branch of a node with one argument: here it is NULL.)
Compile[x \in CompilerStates \X Nodes \X Int] ==
  LET s == x[1]
      node == x[2]
      reg == x[3]
  IN
  IF node.label = "" THEN Leaf(s, <<"const", node.constant>>, reg)
  ELSE IF node.args = <<>> THEN Leaf(s, <<"var", node.label>>, reg)
  ELSE
    LET a == Compile[<<s, node.args[1], -1>>]
        b == IF Len(node.args) = 2 THEN Compile[<<a.cs, node.args[2], -1>>]
                                   ELSE [cs |-> a.cs, reg |-> 0]
        t == IF reg < 0 THEN [b.cs EXCEPT !.n_vregs = @ + 1] ELSE b.cs
        dest == IF reg < 0 THEN b.cs.n_vregs ELSE reg
    IN  IF a.reg = -1 THEN a
        ELSE IF b.reg = -1 THEN b
        ELSE IF node.label \notin DOMAIN Opcode THEN [cs |-> t, reg |-> -1]
        ELSE IF node.label \in Trigonometric THEN Trig(t, Opcode[node.label], a.reg, dest)
        ELSE AddIsn(t, Opcode[node.label], a.reg, b.reg, dest)

\* compiler_compile_equation
CompileEquation(s, eq) ==
  LET r == AddTerminal(s, <<"var", eq.target>>)
  IN  IF r.reg < 0 THEN r ELSE Compile[<<r.cs, eq.node, r.reg>>]

-----------------------------------------------------------------------------
(* eval.c *)

Alias(n) == IF n = "fDecay" THEN "decay" ELSE n

\* load_defaults and generate_initial: parameters of the preset override the defaults.
Initial(p) ==
  [n \in Pfv |-> LET set == {m \in DOMAIN p.parameters : Alias(m) = n}
                 IN  IF set # {} THEN Number(p.parameters[CHOOSE m \in set : TRUE])
                     ELSE IF n = "time" THEN Zero ELSE Number("1")]

\* compiler_get_initial_regs
InitialRegs(s, initial) ==
  [r \in Regs |-> LET t == s.terminals[r] IN
     IF t[1] = "const" THEN Number(t[2])
     ELSE IF t[1] = "var" /\ t[2] \in Pfv THEN initial[t[2]] ELSE Zero]

\* generate_perframe's search for the registers to read back
Allocation(s) ==
  [n \in Pfv |-> LET at == {r \in Regs : s.terminals[r] = <<"var", n>>}
                 IN  IF at = {} THEN -1 ELSE Min(at)]

\* eval_read_pfv, eval_write_pfv
ReadPfv(n) == IF eval.allocation[n] < 0 THEN eval.initial[n] ELSE eval.current[eval.allocation[n]]
WritePfv(n, x) ==
  IF eval.allocation[n] < 0 THEN eval.current ELSE [eval.current EXCEPT ![eval.allocation[n]] = x]

\* The registers of generate_pervertex: 3 to 6 the sizes, 7 to 12 cx to zoom, 13 Conv.
VertexInputs == <<"hmeshsize", "vmeshsize", "hres", "vres", "cx", "cy", "rot", "dx", "dy", "zoom",
                  Conv>>
VertexRegs(zoom) ==
  [r \in Regs |-> IF r \notin 3..13 THEN Zero
                  ELSE IF r = 12 THEN <<"1/", zoom>> ELSE Number(VertexInputs[r - 2])]

Isn(op, a, b, dest) == [op |-> op, a |-> a, b |-> b, dest |-> dest]
FR(n) == RegCount + n

\* The program of generate_pervertex: coordinates, zoom, rotation, displacement, vector.
VertexProgram == <<
  Isn("i2f", 0, 0, FR(0)),           Isn("i2f", 1, 0, FR(1)),
  Isn("fmul", FR(0), 3, FR(2)),      Isn("fmul", FR(1), 4, FR(3)),
  Isn("fsub", FR(2), 7, FR(4)),      Isn("fsub", FR(3), 8, FR(5)),
  Isn("fmul", FR(4), 12, FR(6)),     Isn("fmul", FR(5), 12, FR(7)),
  Isn("fadd", FR(6), 7, FR(8)),      Isn("fadd", FR(7), 8, FR(9)),
  Isn("fmul", 13, 9, FR(80)),        Isn("f2i", FR(80), 0, FR(81)),
  Isn("cos", FR(81), 0, FR(10)),     Isn("sin", FR(81), 0, FR(11)),
  Isn("fsub", FR(8), 7, FR(12)),     Isn("fsub", FR(9), 8, FR(13)),
  Isn("fmul", FR(12), FR(10), FR(14)), Isn("fmul", FR(12), FR(11), FR(15)),
  Isn("fmul", FR(13), FR(10), FR(16)), Isn("fmul", FR(13), FR(11), FR(17)),
  Isn("fsub", FR(14), FR(17), FR(18)), Isn("fadd", FR(15), FR(16), FR(19)),
  Isn("fadd", FR(18), 7, FR(30)),    Isn("fadd", FR(19), 8, FR(31)),
  Isn("fadd", FR(30), 10, FR(20)),   Isn("fadd", FR(31), 11, FR(21)),
  Isn("fmul", FR(20), 5, FR(22)),    Isn("fmul", FR(21), 6, FR(23)),
  Isn("f2i", FR(22), 0, FR(24)),     Isn("f2i", FR(23), 0, FR(25)),
  Isn("vect", FR(25), FR(24), RegOut) >>

\* The operation an instruction performs.
Term(isn, file) ==
  IF Arity(isn.op) = 2 THEN <<isn.op, file[isn.a], file[isn.b]>>
  ELSE IF isn.op = "copy" THEN file[isn.a] ELSE <<isn.op, file[isn.a]>>

\* Executed in order, one instruction after the other, from the registers in file.
After(isn, file) ==
  [r \in DOMAIN file \cup {isn.dest} |-> IF r = isn.dest THEN Term(isn, file) ELSE file[r]]
Executed(prog, file) ==
  LET f[k \in 0..Len(prog)] == IF k = 0 THEN file ELSE After(prog[k], f[k - 1])
  IN  f[Len(prog)]

-----------------------------------------------------------------------------
Init ==
  /\ preset \in Presets
  /\ phase = "compile" /\ unit = "frame"
  /\ equation = 1 /\ cs = CompilerInit
  /\ visn = <<>> /\ cycle = 0 /\ sc = SchedulerInit({}, 0)
  /\ eval = [initial |-> Initial(preset), allocation |-> [n \in Pfv |-> -1],
             current |-> [r \in Regs |-> Zero], perframe |-> <<>>, pervertex |-> <<>>]
  /\ mem = [c \in Cycles |-> Word] /\ pc = 0 /\ regs = [r \in Regs |-> Zero] /\ pipe = {}
  /\ vertex = 0 /\ frames = 0
  /\ values = [n \in Names |-> IF n \in Pfv THEN Initial(preset)[n] ELSE Zero]
  /\ drawn = Zero /\ due = Zero /\ fits = TRUE

Goto(from, to) == phase = from /\ phase' = to

\* generate_perframe compiles an equation; the result is never found to be an error,
\* -1 being as true as a register.
CompileNext ==
  /\ phase = "compile" /\ equation <= Len(preset.equations)
  /\ cs' = CompileEquation(cs, preset.equations[equation]).cs
  /\ equation' = equation + 1
  /\ UNCHANGED <<preset, phase, unit, scheduling, eval, core, frames, history>>

\* ... then fills in the initial registers, finds the variables to read back and starts
\* to schedule.  A preset that took the last register or the last instruction may lack one.
StartSchedule ==
  /\ Goto("compile", "schedule") /\ equation > Len(preset.equations)
  /\ eval' = [eval EXCEPT !.current = InitialRegs(cs, eval.initial), !.allocation = Allocation(cs)]
  /\ visn' = cs.prog /\ cycle' = 0
  /\ sc' = SchedulerInit({r \in Regs : cs.terminals[r] # Unused}, Len(cs.prog))
  /\ fits' = (/\ Len(cs.prog) < ProgSize
              /\ \E r \in Regs \ Reserved : cs.terminals[r] = Unused)
  /\ UNCHANGED <<preset, unit, compiling, core, frames, values, drawn, due>>

\* scheduler_schedule, one cycle.  Its callers do not look at what it returns: a program
\* that failed is used as far as it got.
ScheduleCycle ==
  LET ready == Candidates(sc, visn, cycle)
      failed == cycle = ProgSize \/ (ready # {} /\ Fails(sc, visn, cycle, Min(ready)))
  IN
  /\ phase = "schedule" /\ ~Complete(sc)
  /\ sc' = IF failed \/ ready = {} THEN sc ELSE Issued(sc, visn, cycle, Min(ready))
  /\ phase' = IF failed THEN "finish" ELSE "schedule"
  /\ cycle' = IF failed THEN cycle ELSE cycle + 1
  /\ fits' = (fits /\ ~failed)
  /\ UNCHANGED <<preset, unit, compiling, visn, eval, core, frames, values, drawn, due>>

ScheduleEnd ==
  /\ Goto("schedule", "finish") /\ Complete(sc)
  /\ UNCHANGED <<preset, unit, compiling, scheduling, eval, core, frames, history>>

Words(s) == [i \in 1..(s.last_exit + 1) |-> s.prog[i - 1]]
DummyDma(s) ==
  [s EXCEPT !.prog[s.last_exit].op = "copy", !.prog[s.last_exit + Latency.copy].dest = RegOut,
            !.last_exit = @ + Latency.copy]

\* The per-frame program is made to end with a DMA, which ends its execution; eval_load_preset
\* goes on with the per-vertex program.  Without any instruction to schedule, the code writes
\* in front of the program: that is not modelled.
FinishFrame ==
  /\ phase = "finish" /\ unit = "frame" /\ sc.last_exit # -1
  /\ IF sc.last_exit + Latency.copy >= ProgSize
     THEN phase' = "refused" /\ UNCHANGED <<unit, eval, scheduling, fits>>
     ELSE /\ eval' = [eval EXCEPT !.perframe = Words(DummyDma(sc))]
          /\ fits' = (fits /\ sc.last_exit + Latency.copy < PageSize)
          /\ phase' = "schedule" /\ unit' = "vertex"
          /\ visn' = VertexProgram /\ cycle' = 0
          /\ sc' = SchedulerInit(3..13, Len(VertexProgram))
  /\ UNCHANGED <<preset, compiling, core, frames, values, drawn, due>>

FinishVertex ==
  /\ Goto("finish", "ready") /\ unit = "vertex"
  /\ eval' = [eval EXCEPT !.pervertex = Words(sc)]
  /\ sc' = SchedulerInit({}, 0) /\ visn' = <<>> /\ cycle' = 0
  /\ fits' = (fits /\ sc.last_exit < PageSize)
  /\ UNCHANGED <<preset, unit, compiling, core, frames, values, drawn, due>>

-----------------------------------------------------------------------------
(* libhal/pfpu.c and the PFPU *)

\* load_program writes word after word at CODEBASE and never turns the page.
LoadProgram(prog) ==
  [c \in Cycles |-> LET put == {i \in 1..Len(prog) : (i - 1) % PageSize = c}
                    IN  IF put = {} THEN mem[c] ELSE prog[Max(put)]]

\* load_registers leaves the reserved ones alone; 0 and 1 are the vertex' coordinates.
LoadRegisters(file, v) ==
  [r \in Regs |-> CASE r = 0 -> <<"x", v>> [] r = 1 -> <<"y", v>>
                    [] r \in Reserved \ {0, 1} -> regs[r] [] OTHER -> file[r]]

StartPfpu(prog, file) ==
  /\ mem' = LoadProgram(prog) /\ regs' = LoadRegisters(file, 0)
  /\ pc' = 0 /\ pipe' = {} /\ vertex' = 0

InputTime == <<"time", frames>>

\* A buffer was analysed: the inputs are written and the per-frame program is started.
EvalFrame ==
  /\ Goto("ready", "run") /\ frames < MaxFrames
  /\ unit' = "frame" /\ frames' = frames + 1
  /\ eval' = [eval EXCEPT !.current = WritePfv("time", InputTime)]
  /\ StartPfpu(eval.perframe, WritePfv("time", InputTime))
  /\ values' = Assigned(preset.equations, [values EXCEPT !["time"] = InputTime])
  /\ UNCHANGED <<preset, compiling, scheduling, drawn, due, fits>>

\* One cycle of the core: the operands are read and what was issued leaves the pipeline
\* after its latency, into the register this word names.  A division is never valid.
Emerging == {r \in pipe : r.exit = pc}
Issue ==
  LET w == mem[pc] IN
  IF w.op \in {"nop", "fdiv"} THEN {}
  ELSE {[exit |-> pc + Latency[w.op], value |-> Term(w, regs)]}
Output == Emerging # {} /\ mem[pc].dest = RegOut

Execute ==
  /\ phase = "run" /\ ~Output /\ pc < ProgSize - 1
  /\ regs' = IF Emerging = {} THEN regs
             ELSE [regs EXCEPT ![mem[pc].dest] = (CHOOSE r \in Emerging : TRUE).value]
  /\ pipe' = (pipe \ Emerging) \cup Issue
  /\ pc' = pc + 1
  /\ UNCHANGED <<preset, phase, unit, compiling, scheduling, eval, mem, vertex, frames, history>>

\* A write to RegOut ends the program for this vertex and what is in the pipeline.
NextVertex ==
  /\ phase = "run" /\ Output
  /\ IF unit = "vertex"
     THEN /\ drawn' = (CHOOSE r \in Emerging : TRUE).value
          /\ due' = Executed(VertexProgram, LoadRegisters(VertexRegs(ReadPfv("zoom")), vertex))[RegOut]
     ELSE UNCHANGED <<drawn, due>>
  /\ IF unit = "vertex" /\ vertex + 1 < Vertices
     THEN /\ vertex' = vertex + 1 /\ phase' = "run"
          /\ regs' = [regs EXCEPT ![0] = <<"x", vertex + 1>>, ![1] = <<"y", vertex + 1>>]
     ELSE /\ vertex' = 0 /\ phase' = "irq" /\ UNCHANGED regs
  /\ pc' = 0 /\ pipe' = {}
  /\ UNCHANGED <<preset, unit, compiling, scheduling, eval, mem, frames, values, fits>>

\* pfpu_isr after the per-frame program reads the registers back ...
FrameDone ==
  /\ Goto("irq", "frame") /\ unit = "frame"
  /\ eval' = [eval EXCEPT !.current = [r \in Regs |-> IF r \in Reserved THEN @[r] ELSE regs[r]]]
  /\ UNCHANGED <<preset, unit, compiling, scheduling, core, frames, history>>

\* ... and pfv_callback hands the per-frame variables to the per-vertex program.
EvalVertices ==
  /\ Goto("frame", "run")
  /\ unit' = "vertex"
  /\ StartPfpu(eval.pervertex, VertexRegs(ReadPfv("zoom")))
  /\ UNCHANGED <<preset, compiling, scheduling, eval, frames, history>>

VerticesDone ==
  /\ Goto("irq", "ready") /\ unit = "vertex"
  /\ UNCHANGED <<preset, unit, compiling, scheduling, eval, core, frames, history>>

Next ==
  \/ CompileNext \/ StartSchedule \/ ScheduleCycle \/ ScheduleEnd \/ FinishFrame \/ FinishVertex
  \/ EvalFrame \/ Execute \/ NextVertex \/ FrameDone \/ EvalVertices \/ VerticesDone

Spec == Init /\ [][Next]_vars /\ WF_vars(Next)

-----------------------------------------------------------------------------
(* Properties *)

\* The properties are about presets within the limits of the hardware: the callers of the
\* compiler and of the scheduler do not notice one that is not, and load_program loads no
\* more than a page.

\* eval.h says of eval_read_pfv that it "always returns a correct value": after a frame,
\* every per-frame variable the renderer reads has the value that its equations give when
\* they are evaluated one after the other.
ReadsCorrect ==
  fits /\ phase = "frame" => \A n \in {"zoom", "decay"} : ReadPfv(n) = values[n]

\* The out-of-order, register-sharing per-vertex program writes the vertex its instructions
\* give in order, for every vertex of every frame.
VertexCorrect == fits => drawn = due

\* The core's error counters stay at zero: in every cycle at most one result leaves the
\* pipeline, it does so in exactly the words that name a register, never in R0, and each
\* program reaches its DMA, before what was loaded of it ends.
Running == IF unit = "frame" THEN eval.perframe ELSE eval.pervertex
NoCollision ==
  fits /\ phase = "run" => /\ Cardinality(Emerging) <= 1
                           /\ (mem[pc].dest # 0) <=> (Emerging # {})
                           /\ pc < Len(Running)
=============================================================================
