------------------------------- MODULE Drivers ------------------------------
(***************************************************************************)
(* The accelerator drivers software/libhal/pfpu.c and software/libhal/tmu.c*)
(* on the processor that runs them: the main program, the interrupt        *)
(* handler (demo/isr.c), and the two units working beside them.            *)
(*                                                                         *)
(* Both drivers keep a ring of task descriptors shared by the submitting   *)
(* function and the interrupt handler, protected by masking the driver's   *)
(* own interrupt.  A callback that runs in the handler may submit again.   *)
(* Tasks are numbered in the order the driver accepts them.                *)
(***************************************************************************)
EXTENDS Naturals, FiniteSets

CONSTANTS PFPU, TMU,     \* the two units
          NoTask,
          QSize,         \* PFPU_TASKQ_SIZE and TMU_TASKQ_SIZE
          MaxTasks       \* bound: tasks each driver accepts

Devices == {PFPU, TMU}

ASSUME DevicesAssumption == PFPU # TMU
ASSUME QSizeAssumption == QSize \in Nat \ {0}
ASSUME MaxTasksAssumption == MaxTasks \in Nat
ASSUME NoTaskAssumption == NoTask \notin Nat

VARIABLES
  queue, produce, consume, level, cts,   \* the drivers' static variables
  unit,    \* the hardware: idle, busy, or done with results not yet used
  running, \* the task it was last started on
  im, ip,  \* the processor's interrupt mask and pending registers
  at, dev, oldmask, td,   \* per context (main program, handler), the driver call in
                          \* progress: where it is, for which unit, its variables
  isr, irqs, serving,     \* the handler: where it is, the interrupts it has still
                          \* to serve, the unit it serves
  sent     \* tasks accepted so far

ring == <<queue, produce, consume, level>>
hardware == <<unit, running>>
call == <<at, dev, oldmask, td>>
handler == <<isr, irqs, serving>>
vars == <<ring, cts, hardware, im, ip, call, handler, sent>>

Slots == 0..(QSize - 1)
Tasks == 1..MaxTasks
Contexts == {"main", "isr"}

\* (p + 1) & TASKQ_MASK
Wrap(p) == IF p = QSize - 1 THEN 0 ELSE p + 1

\* The handler runs to its end with interrupts disabled: main waits for it.
Runs(c) == IF c = "main" THEN isr = "idle" ELSE isr = "submitting"

\* pfpu_start, tmu_start: the unit is programmed from the descriptor and started.
StartUnit(d, t) ==
  unit' = [unit EXCEPT ![d] = "busy"] /\ running' = [running EXCEPT ![d] = t]

-----------------------------------------------------------------------------
\* Static storage is zero: no driver is clear to send before its init.
Init ==
  /\ queue = [d \in Devices |-> [s \in Slots |-> NoTask]]
  /\ produce = [d \in Devices |-> 0]
  /\ consume = [d \in Devices |-> 0]
  /\ level = [d \in Devices |-> 0]
  /\ cts = [d \in Devices |-> FALSE]
  /\ unit = [d \in Devices |-> "idle"]
  /\ running = [d \in Devices |-> NoTask]
  /\ im = {} /\ ip = {}
  /\ at = [c \in Contexts |-> IF c = "main" THEN "boot" ELSE "idle"]
  /\ dev = [c \in Contexts |-> PFPU]
  /\ oldmask = [c \in Contexts |-> {}]
  /\ td = [c \in Contexts |-> NoTask]
  /\ isr = "idle" /\ irqs = {} /\ serving = PFPU
  /\ sent = [d \in Devices |-> 0]

\* pfpu_init and tmu_init, in main's order: reset and acknowledge the unit, empty
\* the ring, enable the interrupt.
InitDriver(d) ==
  /\ Runs("main")
  /\ at["main"] = "boot" /\ dev["main"] = d
  /\ unit' = [unit EXCEPT ![d] = "idle"]
  /\ ip' = ip \ {d}
  /\ produce' = [produce EXCEPT ![d] = 0]
  /\ consume' = [consume EXCEPT ![d] = 0]
  /\ level' = [level EXCEPT ![d] = 0]
  /\ cts' = [cts EXCEPT ![d] = TRUE]
  /\ im' = im \cup {d}
  /\ at' = [at EXCEPT !["main"] = IF d = PFPU THEN "boot" ELSE "idle"]
  /\ dev' = [dev EXCEPT !["main"] = TMU]
  /\ UNCHANGED <<queue, running, oldmask, td, handler, sent>>

-----------------------------------------------------------------------------
(***************************************************************************)
(* pfpu_submit_task and tmu_submit_task, in the context c that calls them. *)
(***************************************************************************)
\* Bound: the tasks accepted, and those a call may still accept.
MayAccept(d) ==
  sent[d] + Cardinality({c \in Contexts : dev[c] = d /\ at[c] \in {"mask", "check"}})
    < MaxTasks

\* oldmask = irq_getmask()
SubmitGetMask(c, d) ==
  /\ at' = [at EXCEPT ![c] = "mask"]
  /\ dev' = [dev EXCEPT ![c] = d]
  /\ oldmask' = [oldmask EXCEPT ![c] = im]
  /\ UNCHANGED td

\* The main program submits a task.
MainSubmit(d) ==
  /\ Runs("main")
  /\ at["main"] = "idle"
  /\ MayAccept(d)
  /\ SubmitGetMask("main", d)
  /\ UNCHANGED <<ring, cts, hardware, im, ip, handler, sent>>

\* Mutant: the other unit's interrupt is masked.
SubmitMaskOther(c) ==
  /\ Runs(c)
  /\ at[c] = "mask"
  /\ im' = oldmask[c] \ (Devices \ {dev[c]})
  /\ at' = [at EXCEPT ![c] = "check"]
  /\ UNCHANGED <<ring, cts, hardware, ip, dev, oldmask, td, handler, sent>>

\* irq_setmask(oldmask & ~IRQ): the handler of this driver is kept out.
SubmitMask(c) ==
  /\ Runs(c)
  /\ at[c] = "mask"
  /\ im' = oldmask[c] \ {dev[c]}
  /\ at' = [at EXCEPT ![c] = "check"]
  /\ UNCHANGED <<ring, cts, hardware, ip, dev, oldmask, td, handler, sent>>

\* The task queue is full: the task is refused.
SubmitOverflow(c) ==
  /\ Runs(c)
  /\ at[c] = "check"
  /\ level[dev[c]] >= QSize
  /\ at' = [at EXCEPT ![c] = "unmask"]
  /\ UNCHANGED <<ring, cts, hardware, im, ip, dev, oldmask, td, handler, sent>>

\* Mutant: one task too many is let in.
SubmitEnqueueFull(c) ==
  LET d == dev[c] IN
  /\ Runs(c)
  /\ at[c] = "check"
  /\ level[d] <= QSize
  /\ queue' = [queue EXCEPT ![d][produce[d]] = sent[d] + 1]
  /\ produce' = [produce EXCEPT ![d] = Wrap(produce[d])]
  /\ level' = [level EXCEPT ![d] = @ + 1]
  /\ sent' = [sent EXCEPT ![d] = @ + 1]
  /\ at' = [at EXCEPT ![c] = "start"]
  /\ td' = [td EXCEPT ![c] = sent[d] + 1]
  /\ UNCHANGED <<consume, cts, hardware, im, ip, dev, oldmask, handler>>

\* The task enters the ring.
SubmitEnqueue(c) ==
  LET d == dev[c] IN
  /\ Runs(c)
  /\ at[c] = "check"
  /\ level[d] < QSize
  /\ queue' = [queue EXCEPT ![d][produce[d]] = sent[d] + 1]
  /\ produce' = [produce EXCEPT ![d] = Wrap(produce[d])]
  /\ level' = [level EXCEPT ![d] = @ + 1]
  /\ sent' = [sent EXCEPT ![d] = @ + 1]
  /\ at' = [at EXCEPT ![c] = "start"]
  /\ td' = [td EXCEPT ![c] = sent[d] + 1]
  /\ UNCHANGED <<consume, cts, hardware, im, ip, dev, oldmask, handler>>

\* Mutant: cts is forgotten, so that the next submission starts the unit again.
SubmitStartKeepsCts(c) ==
  LET d == dev[c] IN
  /\ Runs(c)
  /\ at[c] = "start"
  /\ IF cts[d] THEN StartUnit(d, td[c]) ELSE UNCHANGED hardware
  /\ at' = [at EXCEPT ![c] = "unmask"]
  /\ UNCHANGED <<ring, cts, im, ip, dev, oldmask, td, handler, sent>>

\* An idle unit is started on the task just queued, a busy one is left to the
\* handler.
SubmitStart(c) ==
  LET d == dev[c] IN
  /\ Runs(c)
  /\ at[c] = "start"
  /\ cts' = [cts EXCEPT ![d] = FALSE]
  /\ IF cts[d] THEN StartUnit(d, td[c]) ELSE UNCHANGED hardware
  /\ at' = [at EXCEPT ![c] = "unmask"]
  /\ UNCHANGED <<ring, im, ip, dev, oldmask, td, handler, sent>>

\* Mutant: the mask is left as the submission set it.
SubmitUnmaskForgets(c) ==
  /\ Runs(c)
  /\ at[c] = "unmask"
  /\ at' = [at EXCEPT ![c] = "idle"]
  /\ td' = [td EXCEPT ![c] = NoTask]
  /\ isr' = IF c = "isr" THEN "advance" ELSE isr
  /\ UNCHANGED <<ring, cts, hardware, im, ip, dev, oldmask, irqs, serving, sent>>

\* irq_setmask(oldmask) and return.
SubmitUnmask(c) ==
  /\ Runs(c)
  /\ at[c] = "unmask"
  /\ im' = oldmask[c]
  /\ at' = [at EXCEPT ![c] = "idle"]
  /\ td' = [td EXCEPT ![c] = NoTask]
  /\ isr' = IF c = "isr" THEN "advance" ELSE isr
  /\ UNCHANGED <<ring, cts, hardware, ip, dev, oldmask, irqs, serving, sent>>

Submit(c) ==
  SubmitMask(c) \/ SubmitOverflow(c) \/ SubmitEnqueue(c) \/ SubmitStart(c) \/ SubmitUnmask(c)

-----------------------------------------------------------------------------
(***************************************************************************)
(* isr(), pfpu_isr() and tmu_isr().                                        *)
(***************************************************************************)
\* An unmasked interrupt is pending: the handler takes a snapshot.
IsrEnter ==
  /\ isr = "idle"
  /\ ip \cap im # {}
  /\ isr' = "dispatch"
  /\ irqs' = ip \cap im
  /\ UNCHANGED <<ring, cts, hardware, im, ip, call, serving, sent>>

\* The units are served in isr()'s order, each at most once.
IsrDispatch(d) ==
  /\ isr = "dispatch"
  /\ d \in irqs
  /\ d = TMU => PFPU \notin irqs
  /\ isr' = "callback"
  /\ irqs' = irqs \ {d}
  /\ serving' = d
  /\ UNCHANGED <<ring, cts, hardware, im, ip, call, sent>>

IsrReturn ==
  /\ isr = "dispatch"
  /\ irqs = {}
  /\ isr' = "idle"
  /\ UNCHANGED <<ring, cts, hardware, im, ip, call, irqs, serving, sent>>

\* The callback of the task at queue[consume] returns without submitting, or the
\* task has none (tmu.c).
IsrCallback ==
  /\ isr = "callback"
  /\ isr' = "advance"
  /\ UNCHANGED <<ring, cts, hardware, im, ip, call, irqs, serving, sent>>

\* The units a callback submits to: pfv_callback starts the per-vertex program on
\* the PFPU, pvv_callback hands the frame to the TMU.  No TMU callback submits.
CallbackTargets(d) == IF d = PFPU THEN Devices ELSE {}

\* The callback submits a task.  A TMU task is never submitted from the handler
\* while the main program is submitting one: rpipe submits from the handler only
\* while its pipeline is empty, when its part of the main program submits nothing.
\* (The shell's tmutest obeys no such rule: it is not to be used while rendering.)
IsrCallbackSubmit(d) ==
  /\ isr = "callback"
  /\ d \in CallbackTargets(serving)
  /\ ~(d = TMU /\ dev["main"] = TMU /\ at["main"] # "idle")
  /\ MayAccept(d)
  /\ SubmitGetMask("isr", d)
  /\ isr' = "submitting"
  /\ UNCHANGED <<ring, cts, hardware, im, ip, irqs, serving, sent>>

\* Mutant: the ring is not advanced.
IsrAdvanceStuck ==
  LET d == serving IN
  /\ isr = "advance"
  /\ level' = [level EXCEPT ![d] = @ - 1]
  /\ unit' = [unit EXCEPT ![d] = "idle"]
  /\ isr' = "ack"
  /\ UNCHANGED <<queue, produce, consume, cts, running, im, ip, call, irqs, serving, sent>>

\* consume and level move past the finished task, whose results are used.
IsrAdvance ==
  LET d == serving IN
  /\ isr = "advance"
  /\ consume' = [consume EXCEPT ![d] = Wrap(@)]
  /\ level' = [level EXCEPT ![d] = @ - 1]
  /\ unit' = [unit EXCEPT ![d] = "idle"]
  /\ isr' = "ack"
  /\ UNCHANGED <<queue, produce, cts, running, im, ip, call, irqs, serving, sent>>

\* Mutant: every pending interrupt is acknowledged.
IsrAckAll ==
  /\ isr = "ack"
  /\ ip' = {}
  /\ isr' = "restart"
  /\ UNCHANGED <<ring, cts, hardware, im, call, irqs, serving, sent>>

\* irq_ack(IRQ)
IsrAck ==
  /\ isr = "ack"
  /\ ip' = ip \ {serving}
  /\ isr' = "restart"
  /\ UNCHANGED <<ring, cts, hardware, im, call, irqs, serving, sent>>

\* The next task is started, or the driver is clear to send.
IsrRestart ==
  LET d == serving IN
  /\ isr = "restart"
  /\ IF level[d] > 0
       THEN StartUnit(d, queue[d][consume[d]]) /\ UNCHANGED cts
       ELSE cts' = [cts EXCEPT ![d] = TRUE] /\ UNCHANGED hardware
  /\ isr' = "dispatch"
  /\ UNCHANGED <<ring, im, ip, call, irqs, serving, sent>>

Isr ==
  \/ (\E d \in Devices : IsrDispatch(d) \/ IsrCallbackSubmit(d))
  \/ IsrReturn \/ IsrCallback \/ IsrAdvance \/ IsrAck \/ IsrRestart \/ Submit("isr")

-----------------------------------------------------------------------------
\* The unit ends its task, at any point of the program, and raises its interrupt.
Finish(d) ==
  /\ unit[d] = "busy"
  /\ unit' = [unit EXCEPT ![d] = "done"]
  /\ ip' = ip \cup {d}
  /\ UNCHANGED <<ring, cts, running, im, call, handler, sent>>

Next ==
  \/ \E d \in Devices : InitDriver(d) \/ MainSubmit(d) \/ Finish(d)
  \/ Submit("main")
  \/ IsrEnter \/ Isr

\* The program's own steps are taken: a call in progress goes on, the handler
\* too.  The processor takes an unmasked interrupt within a few instructions, so
\* one that is pending again and again is taken (strong fairness: each submission
\* masks it for a while).  Each unit ends what it was started on.
Fairness ==
  /\ \A d \in Devices : WF_vars(InitDriver(d)) /\ WF_vars(Finish(d))
  /\ WF_vars(Submit("main"))
  /\ SF_vars(IsrEnter)
  /\ WF_vars(Isr)

Spec == Init /\ [][Next]_vars /\ Fairness

-----------------------------------------------------------------------------
TypeOK ==
  /\ queue \in [Devices -> [Slots -> Nat \cup {NoTask}]]
  /\ produce \in [Devices -> Slots]
  /\ consume \in [Devices -> Slots]
  /\ level \in [Devices -> 0..QSize]
  /\ cts \in [Devices -> BOOLEAN]
  /\ unit \in [Devices -> {"idle", "busy", "done"}]
  /\ running \in [Devices -> Nat \cup {NoTask}]
  /\ im \in SUBSET Devices /\ ip \in SUBSET Devices
  /\ at \in [Contexts -> {"boot", "idle", "mask", "check", "start", "unmask"}]
  /\ dev \in [Contexts -> Devices]
  /\ oldmask \in [Contexts -> SUBSET Devices]
  /\ td \in [Contexts -> Nat \cup {NoTask}]
  /\ isr \in {"idle", "dispatch", "callback", "submitting", "advance", "ack", "restart"}
  /\ irqs \in SUBSET Devices /\ serving \in Devices
  /\ sent \in [Devices -> Nat]

\* The slot i places after slot p, and the tasks held, oldest first.
Slot(p, i) == IF p + i < QSize THEN p + i ELSE p + i - QSize
Fifo(d) == [i \in 1..level[d] |-> queue[d][Slot(consume[d], i - 1)]]

\* A running unit, or one whose results wait, has the task at queue[consume]: the
\* handler's update_registers and callback take the results for the right task.
RunningIsHead ==
  \A d \in Devices :
    unit[d] # "idle" => level[d] > 0 /\ running[d] = queue[d][consume[d]]

\* No unit is started while it runs or before its results were used.
NeverRestarted ==
  [][\A d \in Devices :
       running'[d] # running[d] => unit[d] = "idle"]_vars

\* The read-modify-write of the interrupt mask, nested between the two contexts,
\* loses no interrupt: outside a driver call both drivers are unmasked, and inside
\* one only that driver is masked.
MaskRestored ==
  isr # "submitting" =>
    /\ at["main"] \in {"idle", "mask"} => im = Devices
    /\ at["main"] \in {"check", "start", "unmask"} => im = Devices \ {dev["main"]}

\* Each driver serves its tasks first in, first out, one at a time, each once.
PfpuFifo == INSTANCE TaskFifo WITH fifo <- Fifo(PFPU), sent <- sent[PFPU],
                                  unit <- unit[PFPU], running <- running[PFPU]
TmuFifo == INSTANCE TaskFifo WITH fifo <- Fifo(TMU), sent <- sent[TMU],
                                 unit <- unit[TMU], running <- running[TMU]
ImplementsFifo == PfpuFifo!SafetySpec /\ TmuFifo!SafetySpec

\* Every accepted task is reported done, whatever the two contexts and the units
\* interleave: no interrupt and no start is lost.
EveryTaskReported ==
  \A d \in Devices : \A n \in Tasks :
    (sent[d] >= n) ~> (sent[d] - level[d] >= n)
=============================================================================
