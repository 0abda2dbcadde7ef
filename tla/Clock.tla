------------------------------- MODULE Clock -------------------------------
(***************************************************************************)
(* The time of day (libhal/time.c) and the processor load (demo/cpustats.c) *)
(* on timer 0 of the system controller (cores/sysctl), with the main       *)
(* program, the interrupt handler (demo/isr.c) that may run between any    *)
(* two of its steps, and the timer that counts on between any two of both. *)
(*                                                                         *)
(* A microsecond is a cycle of the timer, a second is Frequency of them.   *)
(***************************************************************************)
EXTENDS Naturals, FiniteSets

CONSTANTS Frequency,
          MaxSec            \* bound: seconds counted

ASSUME FrequencyAssumption == Frequency \in Nat /\ Frequency >= 4 /\ MaxSec \in Nat

VARIABLES
  counter, pending,         \* timer 0 and its interrupt
  mask,                     \* irq_getmask(): timer 0 and the others
  sec,
  main, isr,                \* where each is in a function of time.c or cpustats.c
  inside,                   \* the main program is between cpustats_enter and _leave
  enter_count, acc, first_enter,
  load,                     \* in microseconds
  counting, busy, measured  \* the time that was busy, as it really was

clockVars == <<counter, pending, mask, sec, main, isr, inside, enter_count, acc, first_enter,
               load, counting, busy, measured>>
hardware == <<counter, pending>>
stats == <<enter_count, acc, first_enter, load>>
truth == <<counting, busy, measured>>

Stamp(s, u) == [sec |-> s, usec |-> u]
\* Sources of interrupts: timer 0 and whatever else there is.
All == {"timer", "other"}
Quiescent == [does |-> "nothing", at |-> "none", counter |-> 0, asked |-> 0,
              oldmask |-> {}, saved |-> {}]

ClockInit ==
  /\ counter = 0 /\ pending = FALSE /\ mask = All /\ sec = 0
  /\ main = Quiescent /\ isr = Quiescent /\ inside = FALSE
  /\ enter_count = 0 /\ acc = Stamp(0, 0) /\ first_enter = Stamp(0, 0) /\ load = 0
  /\ counting = FALSE /\ busy = 0 /\ measured = 0

\* The time in microseconds: a second has passed once its interrupt is pending.
Seconds == sec + (IF pending THEN 1 ELSE 0)
Now == Seconds * Frequency + counter

time_add(t, delta) ==
  LET u == t.usec + delta.usec
  IN  IF u >= Frequency THEN Stamp(t.sec + delta.sec + 1, u - Frequency)
                        ELSE Stamp(t.sec + delta.sec, u)
time_diff(t1, t0) ==
  IF t1.usec < t0.usec
  THEN [sec |-> (t1.sec - t0.sec) - 1, usec |-> (t1.usec + Frequency) - t0.usec]
  ELSE [sec |-> t1.sec - t0.sec, usec |-> t1.usec - t0.usec]

-----------------------------------------------------------------------------
(* The timer *)

\* It counts from 1 to the number of cycles in a second.  The handler gets to it within half
\* a second, and half a second does not pass between two reads of registers.
Tick ==
  /\ Seconds < MaxSec \/ counter < Frequency
  /\ pending => counter + 1 < Frequency \div 2
  /\ \A f \in {main, isr} : f.at = "pending" => Now - f.asked + 1 < Frequency \div 2
  /\ IF counter = Frequency THEN counter' = 1 /\ pending' = TRUE
                            ELSE counter' = counter + 1 /\ UNCHANGED pending
  /\ busy' = IF counting THEN busy + 1 ELSE busy
  /\ UNCHANGED <<mask, sec, main, isr, inside, stats, counting, measured>>

-----------------------------------------------------------------------------
(* time_get(), step by step; f is main or isr *)

Call(f, does, saved) == f' = [Quiescent EXCEPT !.does = does, !.at = "mask", !.saved = saved]

\* Only the interrupt of timer 0 is held off ...
Masked(f) ==
  /\ f.at = "mask"
  /\ mask' = mask \ {"timer"}
  /\ f' = [f EXCEPT !.at = "counter", !.oldmask = mask]
  /\ UNCHANGED <<hardware, sec, inside, stats, truth>>

\* ... the counter is read, which is the moment whose time it is ...
ReadCounter(f) ==
  /\ f.at = "counter"
  /\ f' = [f EXCEPT !.at = "pending", !.counter = counter, !.asked = Now]
  /\ counting' = CASE f.does = "enter" -> TRUE [] f.does = "leave" -> FALSE [] OTHER -> counting
  /\ IF f.does = "tick" THEN measured' = busy /\ busy' = 0 ELSE UNCHANGED <<measured, busy>>
  /\ UNCHANGED <<hardware, mask, sec, inside, stats>>

\* Mutant: the second that is pending is always added.
TimestampPending(f) == Stamp(IF pending THEN sec + 1 ELSE sec, f.counter)

\* ... then whether a second is pending, which began before the counter was read if it
\* had not counted half of it.
Timestamp(f) ==
  Stamp(IF pending /\ f.counter < Frequency \div 2 THEN sec + 1 ELSE sec, f.counter)

-----------------------------------------------------------------------------
(* What is done with the time *)

Accumulated(ts) == time_add(acc, time_diff(ts, first_enter))

GetTime(f) == f.at = "pending" /\ f.does = "time" /\ f' = Quiescent /\ UNCHANGED stats

EnterDone(f) ==
  /\ f.at = "pending" /\ f.does = "enter"
  /\ first_enter' = Timestamp(f) /\ UNCHANGED <<enter_count, acc, load>>

LeaveDone(f) ==
  /\ f.at = "pending" /\ f.does = "leave"
  /\ acc' = Accumulated(Timestamp(f)) /\ UNCHANGED <<enter_count, first_enter, load>>

\* Mutant: the time that was counted goes on being counted from where it began.
TickDoneKeeps(f) ==
  LET total == Accumulated(Timestamp(f)) IN
  /\ f.at = "pending" /\ f.does = "tick"
  /\ load' = total.sec * Frequency + total.usec
  /\ acc' = Stamp(0, 0) /\ UNCHANGED <<enter_count, first_enter>>

\* cpustats_tick: the busy time of the second that ends, of which the handler is part.
TickDone(f) ==
  LET total == Accumulated(Timestamp(f)) IN
  /\ f.at = "pending" /\ f.does = "tick"
  /\ load' = total.sec * Frequency + total.usec
  /\ first_enter' = Timestamp(f) /\ acc' = Stamp(0, 0) /\ UNCHANGED enter_count

-----------------------------------------------------------------------------
(* The main program; it runs while the handler does not *)

Running == isr.does = "nothing" /\ main.does = "nothing"

MainTime == Running /\ Call(main, "time", {}) /\ UNCHANGED <<isr, mask, hardware, sec, inside, stats, truth>>

\* cpustats_enter and cpustats_leave: the first one and the last one take the time.
MainEnter ==
  /\ Running /\ ~inside /\ inside' = TRUE
  /\ enter_count' = enter_count + 1
  /\ mask' = {} /\ Call(main, "enter", mask)
  /\ UNCHANGED <<isr, hardware, sec, acc, first_enter, load, truth>>

MainLeave ==
  /\ Running /\ inside /\ inside' = FALSE
  /\ enter_count' = enter_count - 1
  /\ mask' = {} /\ Call(main, "leave", mask)
  /\ UNCHANGED <<isr, hardware, sec, acc, first_enter, load, truth>>

MainStep ==
  /\ isr.does = "nothing" /\ UNCHANGED isr
  /\ \/ Masked(main) \/ ReadCounter(main)
     \/ /\ GetTime(main) /\ mask' = main.oldmask
        /\ UNCHANGED <<hardware, sec, inside, truth>>
     \/ /\ EnterDone(main) \/ LeaveDone(main)
        /\ main' = Quiescent /\ mask' = main.saved
        /\ UNCHANGED <<hardware, sec, inside, truth>>

-----------------------------------------------------------------------------
(* isr() *)

\* Between any two steps of the main program, if something is not held off.
Interrupt ==
  /\ isr.does = "nothing"
  /\ "other" \in mask \/ ("timer" \in mask /\ pending)
  /\ enter_count' = enter_count + 1
  /\ isr' = IF enter_count = 0
            THEN [Quiescent EXCEPT !.does = "enter", !.at = "mask", !.saved = mask]
            ELSE [Quiescent EXCEPT !.does = "serve", !.saved = mask]
  /\ mask' = IF enter_count = 0 THEN {} ELSE mask
  /\ UNCHANGED <<main, hardware, sec, inside, acc, first_enter, load, truth>>

\* time_isr, with the functions it calls each second.
Serve ==
  /\ isr.does = "serve" /\ UNCHANGED <<main, inside, counter, truth>>
  /\ IF pending /\ "timer" \in mask
     THEN /\ pending' = FALSE /\ sec' = sec + 1
          /\ isr' = [isr EXCEPT !.does = "tick", !.at = "mask"]
          /\ UNCHANGED <<stats, mask>>
     ELSE /\ UNCHANGED <<pending, sec, acc, first_enter, load>>
          /\ enter_count' = enter_count - 1
          /\ IF enter_count = 1
             THEN mask' = {} /\ isr' = [isr EXCEPT !.does = "leave", !.at = "mask", !.saved = mask]
             ELSE UNCHANGED mask /\ isr' = Quiescent

IsrStep ==
  /\ UNCHANGED main
  /\ \/ Masked(isr) \/ ReadCounter(isr)
     \/ /\ EnterDone(isr) /\ mask' = isr.saved
        /\ isr' = [Quiescent EXCEPT !.does = "serve"]
        /\ UNCHANGED <<hardware, sec, inside, truth>>
     \/ /\ TickDone(isr) /\ mask' = isr.oldmask
        /\ isr' = [Quiescent EXCEPT !.does = "serve"]
        /\ UNCHANGED <<hardware, sec, inside, truth>>
     \/ /\ LeaveDone(isr) /\ mask' = isr.saved
        /\ isr' = Quiescent
        /\ UNCHANGED <<hardware, sec, inside, truth>>

ClockNext ==
  Tick \/ MainTime \/ MainEnter \/ MainLeave \/ MainStep \/ Interrupt \/ Serve \/ IsrStep

-----------------------------------------------------------------------------
(* Properties *)

\* The time that is returned is the time at which the counter was read, whether it overflowed
\* before, between the two reads or after, and whatever interrupts came in between.
TimeRight ==
  \A f \in {main, isr} : f.at = "pending" =>
    Timestamp(f).sec * Frequency + Timestamp(f).usec = f.asked

\* The load reported for a second is the time in it that the main program or the handler was
\* busy, with the handler coming in between at any point.
LoadRight == isr.does = "tick" \/ load = measured
=============================================================================
