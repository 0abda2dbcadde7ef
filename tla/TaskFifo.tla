------------------------------ MODULE TaskFifo -----------------------------
(***************************************************************************)
(* What an accelerator driver promises to those who submit tasks: accepted *)
(* tasks run one at a time in the order they were accepted, each is        *)
(* reported done once, after it ran, and at most QSize are held.           *)
(***************************************************************************)
EXTENDS Naturals, Sequences

CONSTANTS QSize, NoTask

VARIABLES fifo,     \* the tasks accepted and not reported done, oldest first
          sent,     \* how many tasks were accepted; they are numbered from 1
          unit,     \* the accelerator
          running   \* the task it was last started on

fvars == <<fifo, sent, unit, running>>

Init == fifo = <<>> /\ sent = 0 /\ unit = "idle" /\ running = NoTask

Accept ==
  /\ Len(fifo) < QSize
  /\ sent' = sent + 1
  /\ fifo' = Append(fifo, sent')
  /\ UNCHANGED <<unit, running>>

Start ==
  /\ unit = "idle" /\ fifo # <<>>
  /\ unit' = "busy" /\ running' = Head(fifo)
  /\ UNCHANGED <<fifo, sent>>

Finish ==
  /\ unit = "busy"
  /\ unit' = "done"
  /\ UNCHANGED <<fifo, sent, running>>

\* The oldest task is reported done and leaves.
Complete ==
  /\ unit = "done"
  /\ unit' = "idle"
  /\ fifo' = Tail(fifo)
  /\ UNCHANGED <<sent, running>>

Next == Accept \/ Start \/ Finish \/ Complete

SafetySpec == Init /\ [][Next]_fvars
=============================================================================
