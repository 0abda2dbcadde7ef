------------------------------- MODULE Timers -------------------------------
(***************************************************************************)
(* The two timers of the system controller with the software that each     *)
(* drives: the clock and the load statistics (timer 0), the slow outputs   *)
(* (timer 1).  They share the processor and nothing else, so that a step   *)
(* of the one comes between any two steps of the other.  (Each has its own *)
(* account of where the handler is, so that this allows more than the one  *)
(* handler of the firmware does.)                                          *)
(***************************************************************************)
EXTENDS Clock, Slowout

timersVars == <<clockVars, slowVars>>

TimersInit == ClockInit /\ SlowInit
TimersNext == (ClockNext /\ UNCHANGED slowVars) \/ (SlowNext /\ UNCHANGED clockVars)

TimersSpec == TimersInit /\ [][TimersNext]_timersVars

-----------------------------------------------------------------------------
(* Properties *)

\* The time is right whenever it is asked for, the load that is reported was measured, and the
\* outputs come in their order until the handler's own get between the main program's
\* (time_get, cpustats_tick, slowout_queue, slowout_isr).
TimersRight == TimeRight /\ LoadRight /\ SlowRight
=============================================================================
