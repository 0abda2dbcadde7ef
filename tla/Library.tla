------------------------------ MODULE Library ------------------------------
(***************************************************************************)
(* What the firmware's programs are built on: the C library with its       *)
(* allocator and its floating point (libbase), the clock and the slow      *)
(* outputs (libhal), the command lines and the front panel, which stand    *)
(* on them.  These parts share no state, so that each is run by itself:    *)
(* `unit' says which.                                                      *)
(***************************************************************************)
EXTENDS FloatSpec, LibcSpec, Heap, Timers, Shell, Panel

VARIABLE unit

vars == <<unit, floatVars, libcVars, heapVars, clockVars, slowVars, shellVars, panelVars>>

Units == {"floats", "memory", "text", "heap", "clock", "slow outputs", "commands", "panel"}

Init ==
  /\ unit \in Units
  /\ FloatInit /\ LibcInit /\ HeapInit /\ ClockInit /\ SlowInit /\ ShellInit /\ PanelInit
  /\ unit # "slow outputs" => todo["main"] = <<>>

In(u, action, others) == unit = u /\ action /\ UNCHANGED <<unit, others>>
appVars == <<shellVars, panelVars>>

Floats ==
  In("floats", SetMode \/ SetOperand, <<libcVars, heapVars, clockVars, slowVars, appVars>>)
Memory ==
  In("memory", FillMemory, <<floatVars, heapVars, clockVars, slowVars, appVars>>)
Text ==
  In("text", ChooseNumber, <<floatVars, heapVars, clockVars, slowVars, appVars>>)
Allocator ==
  In("heap", HeapNext, <<floatVars, libcVars, clockVars, slowVars, appVars>>)
Time ==
  In("clock", ClockNext, <<floatVars, libcVars, heapVars, slowVars, appVars>>)
SlowOutputs ==
  In("slow outputs", SlowNext, <<floatVars, libcVars, heapVars, clockVars, appVars>>)
Commands ==
  In("commands", ShellNext, <<floatVars, libcVars, heapVars, clockVars, slowVars, panelVars>>)
FrontPanel ==
  In("panel", PanelNext, <<floatVars, libcVars, heapVars, clockVars, slowVars, shellVars>>)

Next == Floats \/ Memory \/ Text \/ Allocator \/ Time \/ SlowOutputs \/ Commands \/ FrontPanel
Spec == Init /\ [][Next]_vars

-----------------------------------------------------------------------------
(* Properties *)

\* Floating point without a floating-point unit: every operation of softfloat.c rounds the exact
\* result once, as the rounding mode says, and raises the exceptions that belong to it.
FloatsAsPromised == unit = "floats" => FloatsRight

\* What the library copies, compares, writes, reads and divides is what was meant, no text
\* passes the end of its buffer, a command does what its line, as corrected, asks for, and
\* the front panel shows and starts what was chosen whenever keys and ticks come.
TextAsPromised ==
  /\ unit = "memory" => MemoryRight
  /\ unit = "text" => ConversionsOfText
  /\ unit = "commands" => CommandsRight
  /\ unit = "panel" => PanelRight
=============================================================================
