--------------------------- MODULE DriversProofs ---------------------------
(***************************************************************************)
(* The accelerator drivers for every queue size: each unit runs the oldest *)
(* task, is never restarted while busy, serves its tasks first in, first   *)
(* out, and no context loses an interrupt from the mask.                   *)
(***************************************************************************)
EXTENDS Drivers, Sequences, SequenceTheorems, TLAPS

(***************************************************************************)
(* The inductive invariant.                                                *)
(*                                                                         *)
(* Masks says what the interrupt mask is at each point of the two          *)
(* contexts; it is what keeps a driver's handler out while the main        *)
(* program submits (Exclusion).  Under that, Rings says what the ring      *)
(* holds and Units how the unit, cts, the pending bit and the handler's    *)
(* progress agree.                                                         *)
(***************************************************************************)
Inside(c, d) == dev[c] = d /\ at[c] \in {"check", "start", "unmask"}
Starting(d) == \E c \in Contexts : dev[c] = d /\ at[c] = "start"
Serving(d) == serving = d /\ isr \in {"callback", "submitting", "advance"}
Leaving(d) == serving = d /\ isr \in {"ack", "restart"}

Booted == IF at["main"] = "boot" THEN (IF dev["main"] = PFPU THEN {} ELSE {PFPU}) ELSE Devices
MainMask == {d \in Booted : ~Inside("main", d)}

Masks ==
  /\ im = {d \in MainMask : ~Inside("isr", d)}
  /\ at["main"] \in {"mask", "check", "start", "unmask"} => oldmask["main"] = Devices
  /\ at["isr"] # "idle" => oldmask["isr"] = MainMask

Nesting ==
  /\ at["isr"] # "boot"
  /\ at["isr"] # "idle" <=> isr = "submitting"
  /\ isr = "submitting" => dev["isr"] = PFPU \/ ~(dev["main"] = TMU /\ at["main"] # "idle")
  /\ isr = "submitting" => serving = PFPU

Exclusion ==
  \A d \in Devices :
    /\ Inside("main", d) => ~(isr # "idle" /\ d \in irqs) /\ ~Serving(d) /\ ~Leaving(d)
    /\ ~(Inside("main", d) /\ Inside("isr", d))

Rings ==
  \A d \in Devices :
    /\ produce[d] = Slot(consume[d], level[d])
    /\ level[d] <= sent[d]
    /\ \A i \in 0..(QSize - 1) : i < level[d] => queue[d][Slot(consume[d], i)] = sent[d] - level[d] + 1 + i

Units ==
  \A d \in Devices :
    /\ unit[d] # "idle" => level[d] > 0 /\ running[d] = queue[d][consume[d]] /\ ~cts[d]
    /\ (d \in ip) <=> (unit[d] = "done" \/ (serving = d /\ isr = "ack"))
    /\ isr # "idle" /\ d \in irqs => unit[d] = "done" /\ ~Serving(d) /\ ~Leaving(d)
    /\ Serving(d) => unit[d] = "done"
    /\ Leaving(d) => unit[d] = "idle" /\ ~cts[d]
    /\ unit[d] = "idle" /\ ~Leaving(d) =>
         IF d \notin Booted THEN level[d] = 0 /\ ~cts[d]
         ELSE cts[d] /\ level[d] = (IF Starting(d) THEN 1 ELSE 0)

Calls ==
  \A c \in Contexts : at[c] = "start" => td[c] = sent[dev[c]]

\* Nothing runs before both drivers are ready.
Boot ==
  at["main"] = "boot" => isr = "idle" /\ \A d \in Devices : unit[d] = "idle" /\ d \notin ip

IInv == Boot /\ TypeOK /\ Masks /\ Nesting /\ Exclusion /\ Rings /\ Units /\ Calls

-----------------------------------------------------------------------------
LEMMA InitInv == Init => IInv
  <1> SUFFICES ASSUME Init PROVE IInv
    OBVIOUS
  <1> USE DevicesAssumption, QSizeAssumption DEF Devices, Contexts, Slots
  <1>1. TypeOK
    BY DEF Init, TypeOK
  <1>2. Masks /\ Nesting /\ Exclusion /\ Calls
    BY DEF Init, Masks, Nesting, Exclusion, Calls, Inside, MainMask, Booted, Serving, Leaving
  <1>3. Rings /\ Units /\ Boot
    BY DEF Init, Boot, Rings, Units, Slot, Booted, Serving, Leaving, Starting
  <1> QED BY <1>1, <1>2, <1>3 DEF IInv

LEMMA WrapType == \A p \in Slots : Wrap(p) \in Slots
  BY QSizeAssumption DEF Slots, Wrap

\* Arithmetic of the ring: advancing the head renumbers the places, and different
\* places are different slots.
LEMMA SlotStep ==
  \A p \in Slots, i \in 0..(QSize - 1) :
    /\ Slot(p, i) \in Slots
    /\ Slot(p, 0) = p
    /\ Slot(Wrap(p), i) = Slot(p, i + 1)
    /\ Wrap(Slot(p, i)) = Slot(p, i + 1)
  BY QSizeAssumption DEF Slots, Slot, Wrap

LEMMA SlotInjective ==
  \A p \in Slots, i, j \in 0..(QSize - 1) : i # j => Slot(p, i) # Slot(p, j)
  BY QSizeAssumption DEF Slots, Slot

\* While the handler serves a unit, that unit holds a task.
LEMMA ServedHasTask ==
  ASSUME IInv, isr = "advance"
  PROVE  serving \in Devices /\ level[serving] > 0 /\ unit[serving] = "done"
  BY DEF IInv, TypeOK, Units, Serving

LEMMA NextType == IInv /\ [Next]_vars => TypeOK'
  <1> SUFFICES ASSUME IInv, [Next]_vars PROVE TypeOK'
    OBVIOUS
  <1>t. TypeOK
    BY DEF IInv
  <1>a. ASSUME NEW d \in Devices, InitDriver(d) PROVE TypeOK'
    BY <1>a, <1>t, DevicesAssumption, QSizeAssumption
    DEF InitDriver, handler, TypeOK, Contexts, Devices, Slots
  <1> USE DEF ring, hardware, call, handler
  <1>1. ASSUME NEW d \in Devices, MainSubmit(d) \/ IsrCallbackSubmit(d) PROVE TypeOK'
    BY <1>1, <1>t DEF MainSubmit, IsrCallbackSubmit, SubmitGetMask, TypeOK, Contexts
  <1>2. ASSUME NEW d \in Devices, Finish(d) \/ IsrDispatch(d) PROVE TypeOK'
    BY <1>2, <1>t DEF Finish, IsrDispatch, TypeOK
  <1>3. ASSUME NEW c \in Contexts, SubmitMask(c) \/ SubmitOverflow(c) \/ SubmitUnmask(c) PROVE TypeOK'
    BY <1>3, <1>t DEF SubmitMask, SubmitOverflow, SubmitUnmask, TypeOK
  <1>4. ASSUME NEW c \in Contexts, SubmitEnqueue(c) PROVE TypeOK'
    <2> DEFINE d == dev[c]
    <2>1. d \in Devices /\ sent[d] + 1 \in Nat /\ level[d] + 1 \in 0..QSize /\ Wrap(produce[d]) \in Slots
      BY <1>4, <1>t, WrapType, QSizeAssumption DEF SubmitEnqueue, TypeOK
    <2>2. queue' \in [Devices -> [Slots -> Nat \cup {NoTask}]]
      BY <1>4, <1>t, <2>1 DEF SubmitEnqueue, TypeOK
    <2>3. /\ produce' \in [Devices -> Slots] /\ level' \in [Devices -> 0..QSize]
          /\ sent' \in [Devices -> Nat] /\ td' \in [Contexts -> Nat \cup {NoTask}]
      BY <1>4, <1>t, <2>1 DEF SubmitEnqueue, TypeOK
    <2>4. /\ at' \in [Contexts -> {"boot", "idle", "mask", "check", "start", "unmask"}]
          /\ UNCHANGED <<consume, cts, unit, running, im, ip, dev, oldmask, isr, irqs, serving>>
      BY <1>4, <1>t DEF SubmitEnqueue, TypeOK
    <2> QED BY <1>t, <2>2, <2>3, <2>4 DEF TypeOK
  <1>5. ASSUME NEW c \in Contexts, SubmitStart(c) PROVE TypeOK'
    BY <1>5, <1>t DEF SubmitStart, StartUnit, TypeOK
  <1>6. CASE IsrEnter \/ IsrReturn \/ IsrCallback \/ IsrAck
    BY <1>6, <1>t DEF IsrEnter, IsrReturn, IsrCallback, IsrAck, TypeOK
  <1>7. CASE IsrAdvance
    <2>1. level[serving] - 1 \in 0..QSize
      BY <1>7, <1>t, ServedHasTask, QSizeAssumption DEF IsrAdvance, TypeOK
    <2> QED BY <1>7, <1>t, <2>1, WrapType DEF IsrAdvance, TypeOK
  <1>8. CASE IsrRestart
    <2>1. queue[serving][consume[serving]] \in Nat \cup {NoTask}
      BY <1>t DEF TypeOK
    <2>2. CASE level[serving] > 0
      BY <1>8, <1>t, <2>1, <2>2 DEF IsrRestart, StartUnit, TypeOK
    <2>3. CASE ~(level[serving] > 0)
      BY <1>8, <1>t, <2>3 DEF IsrRestart, TypeOK
    <2> QED BY <2>2, <2>3
  <1>9. CASE UNCHANGED vars
    BY <1>9, <1>t DEF vars, TypeOK
  <1> QED
    BY <1>a, <1>1, <1>2, <1>3, <1>4, <1>5, <1>6, <1>7, <1>8, <1>9 DEF Next, Submit, Isr, Contexts

-----------------------------------------------------------------------------
\* The mask each context leaves is the mask it found, less its own driver.
LEMMA NextMasks == IInv /\ [Next]_vars => (Masks /\ Nesting)'
  <1> SUFFICES ASSUME IInv, [Next]_vars PROVE (Masks /\ Nesting)'
    OBVIOUS
  <1>t. TypeOK /\ Masks /\ Nesting
    BY DEF IInv
  <1> USE DevicesAssumption DEF ring, hardware, call, handler, Contexts
  <1>a. ASSUME NEW d \in Devices, InitDriver(d) PROVE (Masks /\ Nesting)'
    BY <1>a, <1>t DEF InitDriver, TypeOK, Masks, Nesting, Inside, MainMask, Booted, Runs, Devices
  <1>1. ASSUME UNCHANGED <<im, at, dev, oldmask, isr>>, serving' = serving \/ isr = "idle"
        PROVE  (Masks /\ Nesting)'
    BY <1>1, <1>t DEF Masks, Nesting, Inside, MainMask, Booted
  <1>2. ASSUME NEW d \in Devices, MainSubmit(d) PROVE (Masks /\ Nesting)'
    BY <1>2, <1>t DEF MainSubmit, SubmitGetMask, Runs, TypeOK, Masks, Nesting, Inside, MainMask, Booted
  <1>3. ASSUME NEW d \in Devices, IsrCallbackSubmit(d) PROVE (Masks /\ Nesting)'
    BY <1>3, <1>t DEF IsrCallbackSubmit, SubmitGetMask, CallbackTargets, TypeOK, Masks, Nesting, Inside, MainMask, Booted, Devices
  <1>4. ASSUME NEW d \in Devices, IsrDispatch(d) PROVE (Masks /\ Nesting)'
    BY <1>4, <1>t DEF IsrDispatch, TypeOK, Masks, Nesting, Inside, MainMask, Booted
  <1>5. ASSUME NEW d \in Devices, Finish(d) PROVE (Masks /\ Nesting)'
    BY <1>5, <1>1 DEF Finish
  <1>6. ASSUME NEW c \in Contexts, SubmitMask(c) PROVE (Masks /\ Nesting)'
    BY <1>6, <1>t DEF SubmitMask, Runs, TypeOK, Masks, Nesting, Inside, MainMask, Booted
  <1>7. ASSUME NEW c \in Contexts, SubmitOverflow(c) PROVE (Masks /\ Nesting)'
    BY <1>7, <1>t DEF SubmitOverflow, Runs, TypeOK, Masks, Nesting, Inside, MainMask, Booted
  <1>8. ASSUME NEW c \in Contexts, SubmitEnqueue(c) PROVE (Masks /\ Nesting)'
    BY <1>8, <1>t DEF SubmitEnqueue, Runs, TypeOK, Masks, Nesting, Inside, MainMask, Booted
  <1>9. ASSUME NEW c \in Contexts, SubmitStart(c) PROVE (Masks /\ Nesting)'
    BY <1>9, <1>t DEF SubmitStart, Runs, TypeOK, Masks, Nesting, Inside, MainMask, Booted
  <1>10. ASSUME NEW c \in Contexts, SubmitUnmask(c) PROVE (Masks /\ Nesting)'
    BY <1>10, <1>t DEF SubmitUnmask, Runs, TypeOK, Masks, Nesting, Inside, MainMask, Booted
  <1>11. CASE IsrEnter \/ IsrReturn \/ IsrCallback \/ IsrAck \/ IsrAdvance \/ IsrRestart
    BY <1>11, <1>t DEF IsrEnter, IsrReturn, IsrCallback, IsrAck, IsrAdvance, IsrRestart,
                   Masks, Nesting, Inside, MainMask, Booted
  <1>12. CASE UNCHANGED vars
    BY <1>12, <1>1 DEF vars
  <1> QED
    BY <1>a, <1>2, <1>3, <1>4, <1>5, <1>6, <1>7, <1>8, <1>9, <1>10, <1>11, <1>12 DEF Next, Submit, Isr

\* The handler never serves the driver the main program is submitting to, and
\* the two contexts are never inside the same driver.
LEMMA NextExclusion == IInv /\ [Next]_vars => Exclusion'
  <1> SUFFICES ASSUME IInv, [Next]_vars PROVE Exclusion'
    OBVIOUS
  <1>t. TypeOK /\ Masks /\ Nesting /\ Exclusion
    BY DEF IInv
  <1>u. \A d \in Devices : ~(Inside("main", d) /\ d \in im)
    BY <1>t DEF Masks, MainMask
  <1> USE DevicesAssumption DEF ring, hardware, call, handler, Contexts
  <1>a. ASSUME NEW d \in Devices, InitDriver(d) PROVE Exclusion'
    BY <1>a, <1>t DEF InitDriver, TypeOK, Exclusion, Inside, Serving, Leaving, Runs, Devices
  <1>1. ASSUME UNCHANGED <<at, dev, isr, irqs, serving>> PROVE Exclusion'
    BY <1>1, <1>t DEF Exclusion, Inside, Serving, Leaving
  <1>2. ASSUME NEW d \in Devices, MainSubmit(d) PROVE Exclusion'
    BY <1>2, <1>t DEF MainSubmit, SubmitGetMask, Runs, TypeOK, Exclusion, Inside, Serving, Leaving
  <1>3. ASSUME NEW d \in Devices, IsrCallbackSubmit(d) PROVE Exclusion'
    BY <1>3, <1>t DEF IsrCallbackSubmit, SubmitGetMask, TypeOK, Exclusion, Inside, Serving, Leaving
  <1>4. ASSUME NEW d \in Devices, IsrDispatch(d) PROVE Exclusion'
    BY <1>4, <1>t DEF IsrDispatch, TypeOK, Exclusion, Inside, Serving, Leaving
  <1>5. ASSUME NEW d \in Devices, Finish(d) PROVE Exclusion'
    BY <1>5, <1>1 DEF Finish
  <1>6. ASSUME NEW c \in Contexts, SubmitMask(c) PROVE Exclusion'
    <2>1. CASE c = "main"
      BY <1>6, <1>t, <2>1 DEF SubmitMask, Runs, TypeOK, Nesting, Exclusion, Inside, Serving, Leaving
    <2>2. CASE c = "isr"
      \* The handler serves the PFPU, or main is not in the TMU's driver.
      <3>1. serving = PFPU /\ isr = "submitting" /\ Serving(serving)
        BY <1>6, <1>t, <2>2 DEF SubmitMask, Runs, Nesting, Serving
      <3>2. ~Inside("main", dev["isr"])
        BY <1>t, <3>1 DEF TypeOK, Nesting, Exclusion, Inside, Devices
      <3> QED BY <1>6, <1>t, <2>2, <3>1, <3>2 DEF SubmitMask, Runs, TypeOK, Exclusion, Inside, Serving, Leaving
    <2> QED BY <2>1, <2>2
  <1>7. ASSUME NEW c \in Contexts, SubmitOverflow(c) PROVE Exclusion'
    BY <1>7, <1>t DEF SubmitOverflow, TypeOK, Exclusion, Inside, Serving, Leaving
  <1>8. ASSUME NEW c \in Contexts, SubmitEnqueue(c) PROVE Exclusion'
    BY <1>8, <1>t DEF SubmitEnqueue, TypeOK, Exclusion, Inside, Serving, Leaving
  <1>9. ASSUME NEW c \in Contexts, SubmitStart(c) PROVE Exclusion'
    BY <1>9, <1>t DEF SubmitStart, TypeOK, Exclusion, Inside, Serving, Leaving
  <1>10. ASSUME NEW c \in Contexts, SubmitUnmask(c) PROVE Exclusion'
    BY <1>10, <1>t DEF SubmitUnmask, Runs, TypeOK, Exclusion, Inside, Serving, Leaving
  <1>11. CASE IsrEnter
    BY <1>11, <1>t, <1>u DEF IsrEnter, Exclusion, Inside, Serving, Leaving
  <1>12. CASE IsrReturn \/ IsrCallback \/ IsrAck \/ IsrAdvance \/ IsrRestart
    BY <1>12, <1>t DEF IsrReturn, IsrCallback, IsrAck, IsrAdvance, IsrRestart,
                   Exclusion, Inside, Serving, Leaving
  <1>13. CASE UNCHANGED vars
    BY <1>13, <1>1 DEF vars
  <1> QED
    BY <1>a, <1>2, <1>3, <1>4, <1>5, <1>6, <1>7, <1>8, <1>9, <1>10, <1>11, <1>12, <1>13
    DEF Next, Submit, Isr

LEMMA NextBoot == IInv /\ [Next]_vars => Boot'
  <1> SUFFICES ASSUME IInv, [Next]_vars, at'["main"] = "boot"
               PROVE  isr' = "idle" /\ \A d \in Devices : unit'[d] = "idle" /\ d \notin ip'
    BY DEF Boot
  <1>t. TypeOK /\ Boot /\ Nesting
    BY DEF IInv
  <1> USE DEF ring, hardware, call, handler, Contexts
  <1>1. at["main"] = "boot"
    <2>1. ASSUME NEW d \in Devices,
                 InitDriver(d) \/ MainSubmit(d) \/ IsrCallbackSubmit(d) \/ IsrDispatch(d) \/ Finish(d)
          PROVE  at["main"] = "boot"
      BY <2>1, <1>t DEF InitDriver, MainSubmit, IsrCallbackSubmit, SubmitGetMask, IsrDispatch, Finish, TypeOK
    <2>2. ASSUME NEW c \in Contexts, Submit(c) PROVE at["main"] = "boot"
      BY <2>2, <1>t
      DEF Submit, SubmitMask, SubmitOverflow, SubmitEnqueue, SubmitStart, SubmitUnmask, TypeOK
    <2>3. CASE IsrEnter \/ IsrReturn \/ IsrCallback \/ IsrAck \/ IsrAdvance \/ IsrRestart \/ UNCHANGED vars
      BY <2>3 DEF IsrEnter, IsrReturn, IsrCallback, IsrAck, IsrAdvance, IsrRestart, vars
    <2> QED BY <2>1, <2>2, <2>3 DEF Next, Isr
  <1>2. isr = "idle" /\ \A d \in Devices : unit[d] = "idle" /\ d \notin ip
    BY <1>1, <1>t DEF Boot
  <1>3. ASSUME NEW d \in Devices, InitDriver(d)
        PROVE  isr' = "idle" /\ \A e \in Devices : unit'[e] = "idle" /\ e \notin ip'
    BY <1>2, <1>3, <1>t DEF InitDriver, TypeOK
  <1>4. CASE UNCHANGED vars
    BY <1>2, <1>4 DEF vars
  <1>5. CASE Next /\ ~\E d \in Devices : InitDriver(d)
    \* No other step can be taken.
    BY <1>1, <1>2, <1>5, <1>t
    DEF Next, Isr, Submit, MainSubmit, Finish, SubmitMask, SubmitOverflow, SubmitEnqueue, SubmitStart,
        SubmitUnmask, Runs, IsrEnter, IsrDispatch, IsrCallbackSubmit, IsrReturn, IsrCallback,
        IsrAdvance, IsrAck, IsrRestart, TypeOK, Nesting
  <1> QED BY <1>3, <1>4, <1>5

LEMMA NextCalls == IInv /\ [Next]_vars => Calls'
  <1> SUFFICES ASSUME IInv, [Next]_vars PROVE Calls'
    OBVIOUS
  <1>t. TypeOK /\ Exclusion /\ Calls
    BY DEF IInv
  <1> USE DEF ring, hardware, call, handler, Contexts
  <1>a. ASSUME NEW d \in Devices, InitDriver(d) PROVE Calls'
    BY <1>a, <1>t DEF InitDriver, TypeOK, Calls
  <1>1. ASSUME UNCHANGED <<at, dev, td, sent>> PROVE Calls'
    BY <1>1, <1>t DEF Calls
  <1>2. ASSUME NEW d \in Devices, MainSubmit(d) \/ IsrCallbackSubmit(d) PROVE Calls'
    BY <1>2, <1>t DEF MainSubmit, IsrCallbackSubmit, SubmitGetMask, TypeOK, Calls
  <1>3. ASSUME NEW d \in Devices, IsrDispatch(d) \/ Finish(d) PROVE Calls'
    BY <1>3, <1>1 DEF IsrDispatch, Finish
  <1>4. ASSUME NEW c \in Contexts, SubmitMask(c) \/ SubmitOverflow(c) \/ SubmitStart(c) \/ SubmitUnmask(c)
        PROVE  Calls'
    BY <1>4, <1>t DEF SubmitMask, SubmitOverflow, SubmitStart, SubmitUnmask, TypeOK, Calls
  <1>5. ASSUME NEW c \in Contexts, SubmitEnqueue(c) PROVE Calls'
    <2> SUFFICES ASSUME NEW e \in Contexts, at'[e] = "start" PROVE td'[e] = sent'[dev'[e]]
      BY DEF Calls
    <2>1. CASE e = c
      BY <1>5, <1>t, <2>1 DEF SubmitEnqueue, TypeOK
    <2>2. CASE e # c
      \* The other context's driver is not the one being entered.
      <3>1. dev[e] # dev[c]
        BY <1>5, <1>t, <2>2 DEF SubmitEnqueue, TypeOK, Exclusion, Inside
      <3> QED BY <1>5, <1>t, <2>2, <3>1 DEF SubmitEnqueue, TypeOK, Calls
    <2> QED BY <2>1, <2>2
  <1>6. CASE IsrEnter \/ IsrReturn \/ IsrCallback \/ IsrAck \/ IsrAdvance \/ IsrRestart
    BY <1>6, <1>1 DEF IsrEnter, IsrReturn, IsrCallback, IsrAck, IsrAdvance, IsrRestart
  <1>7. CASE UNCHANGED vars
    BY <1>7, <1>1 DEF vars
  <1> QED BY <1>a, <1>2, <1>3, <1>4, <1>5, <1>6, <1>7 DEF Next, Submit, Isr

-----------------------------------------------------------------------------
LEMMA NextRings == IInv /\ [Next]_vars => Rings'
  <1> SUFFICES ASSUME IInv, [Next]_vars PROVE Rings'
    OBVIOUS
  <1>t. TypeOK /\ Rings
    BY DEF IInv
  <1> USE QSizeAssumption DEF ring, hardware, call, handler
  <1>1. ASSUME UNCHANGED <<ring, sent>> PROVE Rings'
    BY <1>1, <1>t DEF Rings
  <1>2. ASSUME NEW d \in Devices, InitDriver(d) PROVE Rings'
    BY <1>2, <1>t DEF InitDriver, TypeOK, Rings, Slot
  <1>3. ASSUME NEW d \in Devices, MainSubmit(d) \/ IsrCallbackSubmit(d) \/ IsrDispatch(d) \/ Finish(d)
        PROVE  Rings'
    BY <1>3, <1>1 DEF MainSubmit, IsrCallbackSubmit, IsrDispatch, Finish
  <1>4. ASSUME NEW c \in Contexts, SubmitMask(c) \/ SubmitOverflow(c) \/ SubmitStart(c) \/ SubmitUnmask(c)
        PROVE  Rings'
    BY <1>4, <1>1 DEF SubmitMask, SubmitOverflow, SubmitStart, SubmitUnmask
  <1>5. ASSUME NEW c \in Contexts, SubmitEnqueue(c) PROVE Rings'
    <2> DEFINE e == dev[c]
    <2>a. e \in Devices /\ level[e] \in 0..(QSize - 1) /\ sent[e] \in Nat /\ consume[e] \in Slots
      BY <1>5, <1>t DEF SubmitEnqueue, TypeOK
    <2>b. /\ produce' = [produce EXCEPT ![e] = Wrap(produce[e])]
          /\ queue' = [queue EXCEPT ![e][produce[e]] = sent[e] + 1]
          /\ level' = [level EXCEPT ![e] = level[e] + 1]
          /\ sent' = [sent EXCEPT ![e] = sent[e] + 1]
          /\ consume' = consume
      BY <1>5 DEF SubmitEnqueue
    <2>c. produce[e] = Slot(consume[e], level[e]) /\ produce[e] \in Slots
      BY <1>t, <2>a DEF Rings, TypeOK
    <2> HIDE DEF e
    <2>1. SUFFICES ASSUME NEW d \in Devices, d = e
                   PROVE  /\ produce'[d] = Slot(consume'[d], level'[d])
                          /\ level'[d] <= sent'[d]
                          /\ \A i \in 0..(QSize - 1) : i < level'[d] =>
                               queue'[d][Slot(consume'[d], i)] = sent'[d] - level'[d] + 1 + i
      BY <1>t, <2>b DEF Rings, TypeOK
    <2>2. produce'[d] = Slot(consume'[d], level'[d])
      BY <1>t, <2>a, <2>b, <2>c, <2>1, SlotStep DEF TypeOK
    <2>3. level'[d] = level[d] + 1 /\ sent'[d] = sent[d] + 1 /\ level'[d] <= sent'[d]
      BY <1>t, <2>a, <2>b, <2>1 DEF TypeOK, Rings
    <2>4. ASSUME NEW i \in 0..(QSize - 1), i < level'[d]
          PROVE  queue'[d][Slot(consume'[d], i)] = sent'[d] - level'[d] + 1 + i
      <3>1. CASE i = level[d]
        BY <1>t, <2>a, <2>b, <2>c, <2>1, <2>3, <3>1 DEF TypeOK
      <3>2. CASE i # level[d]
        <4>1. i < level[d] /\ Slot(consume[d], i) # produce[d] /\ Slot(consume[d], i) \in Slots
          BY <2>a, <2>c, <2>1, <2>3, <2>4, <3>2, SlotInjective, SlotStep, SMTT(30)
        <4>2. queue'[d][Slot(consume[d], i)] = queue[d][Slot(consume[d], i)]
          BY <1>t, <2>b, <2>1, <4>1 DEF TypeOK
        <4>3. queue[d][Slot(consume[d], i)] = sent[d] - level[d] + 1 + i
          BY <1>t, <4>1 DEF Rings
        <4> QED BY <2>a, <2>b, <2>1, <2>3, <4>2, <4>3
      <3> QED BY <3>1, <3>2
    <2> QED BY <2>2, <2>3, <2>4
  <1>6. CASE IsrEnter \/ IsrReturn \/ IsrCallback \/ IsrAck \/ IsrRestart
    BY <1>6, <1>1 DEF IsrEnter, IsrReturn, IsrCallback, IsrAck, IsrRestart
  <1>7. CASE IsrAdvance
    <2> DEFINE e == serving
    <2>a. e \in Devices /\ level[e] \in 1..QSize /\ consume[e] \in Slots /\ sent[e] \in Nat
      BY <1>7, <1>t, ServedHasTask DEF IsrAdvance, TypeOK
    <2>b. /\ consume' = [consume EXCEPT ![e] = Wrap(consume[e])]
          /\ level' = [level EXCEPT ![e] = level[e] - 1]
          /\ UNCHANGED <<produce, queue, sent>>
      BY <1>7 DEF IsrAdvance
    <2> HIDE DEF e
    <2>1. SUFFICES ASSUME NEW d \in Devices, d = e
                   PROVE  /\ produce'[d] = Slot(consume'[d], level'[d])
                          /\ level'[d] <= sent'[d]
                          /\ \A i \in 0..(QSize - 1) : i < level'[d] =>
                               queue'[d][Slot(consume'[d], i)] = sent'[d] - level'[d] + 1 + i
      BY <1>t, <2>b DEF Rings, TypeOK
    <2>2. level'[d] = level[d] - 1 /\ consume'[d] = Wrap(consume[d]) /\ level'[d] \in 0..(QSize - 1)
      BY <1>t, <2>a, <2>b, <2>1 DEF TypeOK
    <2>3. produce'[d] = Slot(consume'[d], level'[d])
      <3>1. Slot(Wrap(consume[d]), level[d] - 1) = Slot(consume[d], level[d])
        BY <2>a, <2>1, SlotStep
      <3> QED BY <1>t, <2>b, <2>2, <3>1 DEF Rings
    <2>4. level'[d] <= sent'[d]
      BY <1>t, <2>a, <2>b, <2>1, <2>2 DEF Rings
    <2>5. ASSUME NEW i \in 0..(QSize - 1), i < level'[d]
          PROVE  queue'[d][Slot(consume'[d], i)] = sent'[d] - level'[d] + 1 + i
      <3>1. Slot(consume'[d], i) = Slot(consume[d], i + 1)
        BY <2>a, <2>1, <2>2, SlotStep
      <3>2. i + 1 \in 0..(QSize - 1) /\ i + 1 < level[d]
        BY <2>a, <2>1, <2>2, <2>5
      <3>3. queue[d][Slot(consume[d], i + 1)] = sent[d] - level[d] + 1 + (i + 1)
        BY <1>t, <3>2 DEF Rings
      <3> QED BY <2>a, <2>b, <2>1, <2>2, <3>1, <3>3
    <2> QED BY <2>3, <2>4, <2>5
  <1>8. CASE UNCHANGED vars
    BY <1>8, <1>1 DEF vars
  <1> QED BY <1>2, <1>3, <1>4, <1>5, <1>6, <1>7, <1>8 DEF Next, Submit, Isr, Contexts

-----------------------------------------------------------------------------
\* Units, for one driver.
UnitOf(d) ==
  /\ unit[d] # "idle" => level[d] > 0 /\ running[d] = queue[d][consume[d]] /\ ~cts[d]
  /\ (d \in ip) <=> (unit[d] = "done" \/ (serving = d /\ isr = "ack"))
  /\ isr # "idle" /\ d \in irqs => unit[d] = "done" /\ ~Serving(d) /\ ~Leaving(d)
  /\ Serving(d) => unit[d] = "done"
  /\ Leaving(d) => unit[d] = "idle" /\ ~cts[d]
  /\ unit[d] = "idle" /\ ~Leaving(d) =>
       IF d \notin Booted THEN level[d] = 0 /\ ~cts[d]
       ELSE cts[d] /\ level[d] = (IF Starting(d) THEN 1 ELSE 0)

LEMMA UnitsOf == Units <=> \A d \in Devices : UnitOf(d)
  BY DEF Units, UnitOf

\* A step that touches nothing of driver d, and neither starts nor ends a call for
\* it, keeps what is known of its unit.
LEMMA UnitFrame ==
  ASSUME NEW d \in Devices, UnitOf(d),
         unit'[d] = unit[d], running'[d] = running[d], level'[d] = level[d],
         queue'[d][consume'[d]] = queue[d][consume[d]], cts'[d] = cts[d],
         (d \in ip') <=> (d \in ip),
         isr' # "idle" /\ d \in irqs' => isr # "idle" /\ d \in irqs,
         Serving(d)' <=> Serving(d), Leaving(d)' <=> Leaving(d),
         (serving' = d /\ isr' = "ack") <=> (serving = d /\ isr = "ack"),
         (d \in Booted') <=> (d \in Booted), Starting(d)' <=> Starting(d)
  PROVE  UnitOf(d)'
  BY DEF UnitOf

LEMMA NextUnits == IInv /\ [Next]_vars => Units'
  <1> SUFFICES ASSUME IInv, [Next]_vars, NEW d \in Devices PROVE UnitOf(d)'
    BY DEF Units, UnitOf
  <1>t. TypeOK /\ Boot /\ Masks /\ Nesting /\ Exclusion /\ Calls /\ Rings
    BY DEF IInv
  <1>d. UnitOf(d)
    BY UnitsOf DEF IInv
  <1> USE DevicesAssumption DEF ring, hardware, call, handler, Contexts
  <1>1. ASSUME NEW e \in Devices, InitDriver(e) PROVE UnitOf(d)'
    <2>0. isr = "idle" /\ isr' = "idle" /\ at["isr"] = "idle" /\ ~Starting(d) /\ ~Starting(d)'
      BY <1>1, <1>t DEF InitDriver, Runs, Nesting, Starting, TypeOK
    <2>1. CASE d = e
      BY <1>1, <1>t, <1>d, <2>0, <2>1 DEF InitDriver, UnitOf, TypeOK, Booted, Serving, Leaving, Devices
    <2>2. CASE d # e
      BY <1>1, <1>t, <1>d, <2>0, <2>2 DEF InitDriver, UnitOf, TypeOK, Booted, Serving, Leaving, Devices
    <2> QED BY <2>1, <2>2
  <1>2. ASSUME NEW e \in Devices, MainSubmit(e) PROVE UnitOf(d)'
    BY <1>2, <1>t, <1>d DEF MainSubmit, SubmitGetMask, UnitOf, TypeOK, Booted, Serving, Leaving, Starting
  <1>3. ASSUME NEW e \in Devices, IsrCallbackSubmit(e) PROVE UnitOf(d)'
    BY <1>3, <1>t, <1>d DEF IsrCallbackSubmit, SubmitGetMask, UnitOf, TypeOK, Nesting, Booted, Serving, Leaving, Starting
  <1>4. ASSUME NEW e \in Devices, IsrDispatch(e) PROVE UnitOf(d)'
    BY <1>4, <1>t, <1>d, UnitsOf DEF IsrDispatch, UnitOf, TypeOK, Booted, Serving, Leaving, Starting, IInv
  <1>5. ASSUME NEW e \in Devices, Finish(e) PROVE UnitOf(d)'
    BY <1>5, <1>t, <1>d DEF Finish, UnitOf, TypeOK, Booted, Serving, Leaving, Starting
  <1>6. ASSUME NEW c \in Contexts, SubmitMask(c) PROVE UnitOf(d)'
    BY <1>6, <1>t, <1>d DEF SubmitMask, UnitOf, TypeOK, Booted, Serving, Leaving, Starting
  <1>7. ASSUME NEW c \in Contexts, SubmitOverflow(c) PROVE UnitOf(d)'
    BY <1>7, <1>t, <1>d DEF SubmitOverflow, UnitOf, TypeOK, Booted, Serving, Leaving, Starting
  <1>8. ASSUME NEW c \in Contexts, SubmitEnqueue(c) PROVE UnitOf(d)'
    <2>1. ~\E x \in Contexts : x # c /\ dev[x] = dev[c] /\ at[x] = "start"
      BY <1>8, <1>t DEF SubmitEnqueue, Exclusion, Inside, TypeOK
    <2>2. dev[c] \in Booted /\ Booted' = Booted
      BY <1>8, <1>t DEF SubmitEnqueue, Runs, Nesting, Boot, Booted, TypeOK, Devices
    <2>3. CASE d = dev[c]
      <3>1. Starting(d)' /\ ~Starting(d) /\ level'[d] = level[d] + 1 /\ UNCHANGED <<unit, ip, cts, running, consume>>
        BY <1>8, <1>t, <2>1, <2>3 DEF SubmitEnqueue, Starting, TypeOK
      <3>2. level[d] > 0 => queue'[d][consume[d]] = queue[d][consume[d]]
        <4> SUFFICES ASSUME level[d] > 0 PROVE produce[d] # consume[d]
          BY <1>8, <1>t, <2>3 DEF SubmitEnqueue, TypeOK
        <4>1. level[d] \in 0..(QSize - 1) /\ consume[d] \in Slots /\ 0 \in 0..(QSize - 1)
          BY <1>8, <1>t, <2>3, QSizeAssumption DEF SubmitEnqueue, TypeOK
        <4>2. produce[d] = Slot(consume[d], level[d])
          BY <1>t DEF Rings
        <4> QED BY <4>1, <4>2, SlotStep, SlotInjective
      <3>3. UNCHANGED <<isr, irqs, serving>>
        BY <1>8 DEF SubmitEnqueue
      <3> QED BY <1>t, <1>d, <2>2, <2>3, <3>1, <3>2, <3>3 DEF UnitOf, TypeOK, Serving, Leaving
    <2>4. CASE d # dev[c]
      <3>1. Starting(d)' <=> Starting(d)
        BY <1>8, <1>t, <2>4 DEF SubmitEnqueue, Starting, TypeOK
      <3> QED BY <1>8, <1>t, <1>d, <2>2, <2>4, <3>1 DEF SubmitEnqueue, UnitOf, TypeOK, Serving, Leaving
    <2> QED BY <2>3, <2>4
  <1>9. ASSUME NEW c \in Contexts, SubmitStart(c) PROVE UnitOf(d)'
    <2>1. dev[c] \in Devices /\ dev[c] \in Booted /\ Booted' = Booted
      BY <1>9, <1>t DEF SubmitStart, Runs, Nesting, Boot, Booted, TypeOK, Devices
    <2>2. CASE d # dev[c]
      <3>1. Starting(d)' <=> Starting(d)
        BY <1>9, <1>t, <2>2 DEF SubmitStart, Starting, TypeOK
      <3> QED BY <1>9, <1>t, <1>d, <2>1, <2>2, <3>1 DEF SubmitStart, StartUnit, UnitOf, TypeOK, Serving, Leaving
    <2>3. CASE d = dev[c]
      <3>1. Starting(d)
        BY <1>9, <2>3 DEF SubmitStart, Starting
      <3>2. CASE cts[d]
        \* The driver was clear to send: the ring holds the new task alone.
        <4>1. unit[d] = "idle" /\ ~Leaving(d) /\ ~Serving(d) /\ level[d] = 1
          BY <1>t, <1>d, <2>1, <2>3, <3>1, <3>2 DEF UnitOf, TypeOK
        <4>2. queue[d][consume[d]] = td[c]
          <5>1. 0 \in 0..(QSize - 1) /\ 0 < level[d] /\ consume[d] \in Slots
            BY <1>t, <4>1, QSizeAssumption DEF TypeOK
          <5>2. queue[d][Slot(consume[d], 0)] = sent[d] - level[d] + 1 + 0
            BY <1>t, <5>1 DEF Rings
          <5>3. td[c] = sent[d] /\ sent[d] \in Nat
            BY <1>9, <1>t, <2>3 DEF Calls, SubmitStart, TypeOK
          <5> QED BY <4>1, <5>1, <5>2, <5>3, SlotStep
        <4>3. /\ unit'[d] = "busy" /\ running'[d] = td[c] /\ cts'[d] = FALSE
              /\ UNCHANGED <<queue, consume, level, ip, isr, irqs, serving>>
          BY <1>9, <1>t, <2>1, <2>3, <3>2 DEF SubmitStart, StartUnit, TypeOK
        <4> QED BY <1>d, <4>1, <4>2, <4>3 DEF UnitOf, Serving, Leaving
      <3>3. CASE ~cts[d]
        <4>1. /\ cts'[d] = FALSE
              /\ UNCHANGED <<unit, running, queue, consume, level, ip, isr, irqs, serving>>
          BY <1>9, <1>t, <2>1, <2>3, <3>3 DEF SubmitStart, TypeOK
        <4> QED BY <1>d, <2>1, <2>3, <3>3, <4>1 DEF UnitOf, Serving, Leaving
      <3> QED BY <3>2, <3>3
    <2> QED BY <2>2, <2>3
  <1>10. ASSUME NEW c \in Contexts, SubmitUnmask(c) PROVE UnitOf(d)'
    BY <1>10, <1>t, <1>d DEF SubmitUnmask, Runs, UnitOf, TypeOK, Booted, Serving, Leaving, Starting
  <1>11. CASE IsrEnter
    BY <1>11, <1>t, <1>d DEF IsrEnter, UnitOf, TypeOK, Booted, Serving, Leaving, Starting
  <1>12. CASE IsrReturn \/ IsrCallback
    BY <1>12, <1>t, <1>d DEF IsrReturn, IsrCallback, UnitOf, TypeOK, Booted, Serving, Leaving, Starting
  <1>13. CASE IsrAdvance
    BY <1>13, <1>t, <1>d DEF IsrAdvance, UnitOf, TypeOK, Booted, Serving, Leaving, Starting
  <1>14. CASE IsrAck
    BY <1>14, <1>t, <1>d DEF IsrAck, UnitOf, TypeOK, Booted, Serving, Leaving, Starting
  <1>15. CASE IsrRestart
    <2>1. Booted' = Booted /\ (Starting(d)' <=> Starting(d)) /\ ~Serving(d) /\ ~Serving(d)' /\ ~Leaving(d)'
      BY <1>15 DEF IsrRestart, Booted, Starting, Serving, Leaving
    <2>2. CASE d # serving
      BY <1>15, <1>t, <1>d, <2>1, <2>2 DEF IsrRestart, StartUnit, UnitOf, TypeOK, Leaving
    <2>3. CASE d = serving
      <3>1. Leaving(d) /\ unit[d] = "idle" /\ ~cts[d] /\ d \notin ip /\ d \notin irqs /\ ~Inside("main", d)
        BY <1>15, <1>t, <1>d, <2>3 DEF IsrRestart, UnitOf, TypeOK, Leaving, Exclusion
      <3>2. d \in Booted /\ ~Starting(d)
        BY <1>15, <1>t, <3>1
        DEF IsrRestart, Nesting, Boot, Booted, Inside, Starting, TypeOK
      <3>3. CASE level[d] > 0
        BY <1>15, <1>t, <2>1, <2>3, <3>1, <3>2, <3>3 DEF IsrRestart, StartUnit, UnitOf, TypeOK
      <3>4. CASE ~(level[d] > 0)
        BY <1>15, <1>t, <2>1, <2>3, <3>1, <3>2, <3>4 DEF IsrRestart, UnitOf, TypeOK
      <3> QED BY <3>3, <3>4
    <2> QED BY <2>2, <2>3
  <1>16. CASE UNCHANGED vars
    BY <1>16, <1>d DEF vars, UnitOf, Booted, Serving, Leaving, Starting
  <1> QED
    BY <1>1, <1>2, <1>3, <1>4, <1>5, <1>6, <1>7, <1>8, <1>9, <1>10, <1>11, <1>12, <1>13, <1>14,
       <1>15, <1>16 DEF Next, Submit, Isr

\* IInv is an invariant of the two drivers.
LEMMA Invariance == Spec => []IInv
  <1>1. IInv /\ [Next]_vars => IInv'
    BY NextType, NextMasks, NextExclusion, NextCalls, NextRings, NextUnits, NextBoot DEF IInv
  <1> QED BY <1>1, InitInv, PTL DEF Spec

-----------------------------------------------------------------------------
\* Every variable of the two drivers keeps its type.
THEOREM TypeCorrect == Spec => []TypeOK
  <1>1. IInv => TypeOK
    BY DEF IInv
  <1> QED BY <1>1, Invariance, PTL

\* The results the handler takes are those of the task at the head of the ring.
THEOREM RunsHead == Spec => []RunningIsHead
  <1>1. IInv => RunningIsHead
    BY DEF IInv, Units, RunningIsHead
  <1> QED BY <1>1, Invariance, PTL

\* No nesting of submissions in the main program and in callbacks loses an
\* interrupt from the mask.
THEOREM MasksAreRestored == Spec => []MaskRestored
  <1>1. IInv => MaskRestored
    BY DEF IInv, Masks, Nesting, MaskRestored, MainMask, Booted, Inside, TypeOK
  <1> QED BY <1>1, Invariance, PTL

\* No unit is started while it runs or holds results: cts and the handler's
\* restart are the only two ways to start it.
THEOREM NeverStartedTwice == Spec => NeverRestarted
  <1>1. IInv /\ [Next]_vars => [\A d \in Devices : running'[d] # running[d] => unit[d] = "idle"]_vars
    <2> SUFFICES ASSUME IInv, [Next]_vars, NEW d \in Devices, running'[d] # running[d]
                 PROVE  unit[d] = "idle"
      OBVIOUS
    <2>t. TypeOK /\ UnitOf(d)
      BY UnitsOf DEF IInv
    <2>1. ASSUME NEW c \in Contexts, SubmitStart(c) PROVE unit[d] = "idle"
      BY <2>1, <2>t DEF SubmitStart, StartUnit, hardware, UnitOf, TypeOK
    <2>2. CASE IsrRestart
      BY <2>2, <2>t DEF IsrRestart, StartUnit, hardware, UnitOf, Leaving, TypeOK
    <2>3. SUFFICES ASSUME ~IsrRestart, \A c \in Contexts : ~SubmitStart(c) PROVE running' = running
      BY <2>1, <2>2
    <2> QED
      BY <2>3 DEF Next, Isr, Submit, Contexts, InitDriver, MainSubmit, Finish, SubmitMask, SubmitOverflow,
             SubmitEnqueue, SubmitUnmask, IsrEnter, IsrDispatch, IsrCallbackSubmit, IsrReturn, IsrCallback,
             IsrAdvance, IsrAck, vars, hardware
  <1> QED BY <1>1, Invariance, PTL DEF Spec, NeverRestarted

-----------------------------------------------------------------------------
(***************************************************************************)
(* Refinement: the tasks held by a ring are the last `level' accepted, so  *)
(* that the ring operations are operations on a sequence of numbers.       *)
(***************************************************************************)
Run(s, n) == [i \in 1..n |-> s - n + i]

LEMMA RunIsSeq ==
  ASSUME NEW s \in Nat, NEW n \in 0..s
  PROVE  Run(s, n) \in Seq(Nat) /\ Len(Run(s, n)) = n
  <1>1. Run(s, n) \in [1..n -> Nat]
    BY DEF Run
  <1> QED BY <1>1, SeqDef

LEMMA RunAppend ==
  ASSUME NEW s \in Nat, NEW n \in 0..s
  PROVE  Run(s + 1, n + 1) = Append(Run(s, n), s + 1)
  <1>1. Append(Run(s, n), s + 1) = [i \in 1..(n + 1) |-> IF i = n + 1 THEN s + 1 ELSE Run(s, n)[i]]
    BY RunIsSeq, AppendProperties, SMTT(30)
  <1> QED BY <1>1 DEF Run

LEMMA RunTail ==
  ASSUME NEW s \in Nat, NEW n \in 1..s
  PROVE  Run(s, n - 1) = Tail(Run(s, n)) /\ Head(Run(s, n)) = s - n + 1 /\ Run(s, n) # <<>>
  <1> DEFINE r == Run(s, n)
             q == Run(s, n - 1)
  <1>1. r \in Seq(Nat) /\ Len(r) = n /\ q \in Seq(Nat) /\ Len(q) = n - 1
    BY RunIsSeq
  <1>2. r # <<>>
    BY <1>1
  <1>3. Head(r) = s - n + 1
    BY <1>1, <1>2 DEF Run
  <1>4. Tail(r) \in Seq(Nat) /\ Len(Tail(r)) = n - 1 /\ \A i \in 1..(n - 1) : Tail(r)[i] = r[i + 1]
    BY <1>1, <1>2, HeadTailProperties
  <1>5. \A i \in 1..(n - 1) : r[i + 1] = q[i]
    BY DEF Run
  <1>6. q = Tail(r)
    <2> HIDE DEF r, q
    <2>1. \A i \in 1..Len(q) : q[i] = Tail(r)[i]
      BY <1>1, <1>4, <1>5
    <2> QED BY <1>1, <1>4, <2>1, SeqEqual
  <1> QED BY <1>2, <1>3, <1>6

HoldsLast ==
  \A d \in Devices : /\ Fifo(d) = Run(sent[d], level[d])
                     /\ sent[d] \in Nat /\ level[d] \in 0..sent[d]

LEMMA FifoIsRun == TypeOK /\ Rings => HoldsLast
  <1> SUFFICES ASSUME TypeOK, Rings, NEW d \in Devices
               PROVE  /\ Fifo(d) = Run(sent[d], level[d])
                      /\ sent[d] \in Nat /\ level[d] \in 0..sent[d]
    BY DEF HoldsLast
  <1>1. sent[d] \in Nat /\ level[d] \in 0..QSize /\ level[d] <= sent[d]
    BY DEF TypeOK, Rings
  <1>2. ASSUME NEW i \in 1..level[d]
        PROVE  queue[d][Slot(consume[d], i - 1)] = sent[d] - level[d] + i
    <2>1. i - 1 \in 0..(QSize - 1) /\ i - 1 < level[d]
      BY <1>1, QSizeAssumption
    <2>2. queue[d][Slot(consume[d], i - 1)] = sent[d] - level[d] + 1 + (i - 1)
      BY <2>1 DEF Rings
    <2> QED BY <1>1, <2>2
  <1> QED BY <1>1, <1>2 DEF Fifo, Run

\* The four operations of TaskFifo, on the ring of driver d.
Accepts(d) ==
  /\ Len(Fifo(d)) < QSize
  /\ sent'[d] = sent[d] + 1
  /\ Fifo(d)' = Append(Fifo(d), sent'[d])
  /\ unit'[d] = unit[d] /\ running'[d] = running[d]

Starts(d) ==
  /\ unit[d] = "idle" /\ Fifo(d) # <<>>
  /\ unit'[d] = "busy" /\ running'[d] = Head(Fifo(d))
  /\ Fifo(d)' = Fifo(d) /\ sent'[d] = sent[d]

Finishes(d) ==
  /\ unit[d] = "busy"
  /\ unit'[d] = "done"
  /\ Fifo(d)' = Fifo(d) /\ sent'[d] = sent[d] /\ running'[d] = running[d]

Completes(d) ==
  /\ unit[d] = "done"
  /\ unit'[d] = "idle"
  /\ Fifo(d)' = Tail(Fifo(d))
  /\ sent'[d] = sent[d] /\ running'[d] = running[d]

Stutters(d) ==
  Fifo(d)' = Fifo(d) /\ sent'[d] = sent[d] /\ unit'[d] = unit[d] /\ running'[d] = running[d]

\* Every step of the two drivers is, for each of them, one operation of its fifo
\* or none.
LEMMA StepsImplementFifo ==
  ASSUME IInv, [Next]_vars, NEW d \in Devices
  PROVE  Accepts(d) \/ Starts(d) \/ Finishes(d) \/ Completes(d) \/ Stutters(d)
  <1> DEFINE Goal == Accepts(d) \/ Starts(d) \/ Finishes(d) \/ Completes(d) \/ Stutters(d)
  <1>t. TypeOK /\ Rings /\ Boot /\ UnitOf(d) /\ (TypeOK /\ Rings)'
    BY NextType, NextRings, UnitsOf DEF IInv
  <1>f. /\ Fifo(d) = Run(sent[d], level[d]) /\ Fifo(d)' = Run(sent'[d], level'[d])
        /\ sent[d] \in Nat /\ level[d] \in 0..sent[d]
    <2>1. HoldsLast'
      BY <1>t, FifoIsRun, PTL
    <2> QED BY <1>t, <2>1, FifoIsRun DEF HoldsLast
  <1> USE DEF ring, hardware, call, handler
  <1>1. ASSUME level'[d] = level[d], sent'[d] = sent[d], unit'[d] = unit[d], running'[d] = running[d]
        PROVE  Goal
    BY <1>1, <1>f DEF Stutters
  <1>2. ASSUME NEW e \in Devices, InitDriver(e) PROVE Goal
    <2>1. at["main"] = "boot" /\ dev["main"] = e /\ isr = "idle"
      BY <1>2 DEF InitDriver, Runs
    <2>2. unit[d] = "idle" /\ (d = e => level[d] = 0)
      BY <1>t, <2>1, DevicesAssumption DEF Boot, UnitOf, Booted, Leaving, Devices
    <2> QED BY <1>1, <1>2, <1>t, <2>2 DEF InitDriver, TypeOK
  <1>3. ASSUME NEW c \in Contexts, SubmitEnqueue(c) PROVE Goal
    <2>1. CASE d = dev[c]
      <3>1. level[d] < QSize /\ level'[d] = level[d] + 1 /\ sent'[d] = sent[d] + 1 /\ UNCHANGED <<unit, running>>
        BY <1>3, <1>t, <2>1 DEF SubmitEnqueue, TypeOK
      <3>2. Fifo(d)' = Append(Fifo(d), sent'[d]) /\ Len(Fifo(d)) = level[d]
        BY <1>f, <3>1, RunAppend, RunIsSeq
      <3> QED BY <3>1, <3>2 DEF Accepts
    <2>2. CASE d # dev[c]
      BY <1>1, <1>3, <1>t, <2>2 DEF SubmitEnqueue, TypeOK
    <2> QED BY <2>1, <2>2
  <1>4. ASSUME Starting(d) \/ Leaving(d), UNCHANGED <<ring, sent>>, unit[d] = "idle", level[d] > 0,
               unit'[d] = "busy", running'[d] = Head(Fifo(d))
        PROVE  Goal
    <2>1. Fifo(d) # <<>>
      BY <1>4, <1>f, RunTail
    <2> QED BY <1>4, <1>f, <2>1 DEF Starts
  <1>5. level[d] > 0 => queue[d][consume[d]] = Head(Fifo(d))
    <2> SUFFICES ASSUME level[d] > 0 PROVE queue[d][consume[d]] = sent[d] - level[d] + 1
      BY <1>f, RunTail
    <2>1. 0 \in 0..(QSize - 1) /\ 0 < level[d] /\ consume[d] \in Slots
      BY <1>t, QSizeAssumption DEF TypeOK
    <2>2. queue[d][Slot(consume[d], 0)] = sent[d] - level[d] + 1 + 0
      BY <1>t, <2>1 DEF Rings
    <2> QED BY <1>f, <2>1, <2>2, SlotStep
  <1>6. ASSUME NEW c \in Contexts, SubmitStart(c) PROVE Goal
    <2>1. CASE d = dev[c] /\ cts[d]
      <3>1. Starting(d) /\ UNCHANGED <<ring, sent>>
        BY <1>6, <2>1 DEF SubmitStart, Starting
      <3>2. unit[d] = "idle" /\ ~Leaving(d) /\ level[d] = 1
        BY <1>t, <2>1, <3>1 DEF UnitOf, TypeOK
      <3>3. unit'[d] = "busy" /\ running'[d] = td[c] /\ td[c] = sent[d]
        BY <1>6, <1>t, <2>1 DEF SubmitStart, StartUnit, TypeOK, IInv, Calls
      <3>4. td[c] = Head(Fifo(d))
        BY <1>f, <3>2, <3>3, RunTail
      <3> QED BY <1>4, <3>1, <3>2, <3>3, <3>4
    <2>2. CASE ~(d = dev[c] /\ cts[d])
      BY <1>1, <1>6, <1>t, <2>2 DEF SubmitStart, StartUnit, TypeOK
    <2> QED BY <2>1, <2>2
  <1>7. CASE IsrRestart
    <2>1. CASE d = serving /\ level[d] > 0
      <3>1. Leaving(d) /\ unit[d] = "idle" /\ UNCHANGED <<ring, sent>>
        BY <1>7, <1>t, <2>1 DEF IsrRestart, UnitOf, Leaving
      <3>2. unit'[d] = "busy" /\ running'[d] = queue[d][consume[d]]
        BY <1>7, <1>t, <2>1 DEF IsrRestart, StartUnit, TypeOK
      <3> QED BY <1>4, <1>5, <2>1, <3>1, <3>2
    <2>2. CASE ~(d = serving /\ level[d] > 0)
      BY <1>1, <1>7, <1>t, <2>2 DEF IsrRestart, StartUnit, TypeOK
    <2> QED BY <2>1, <2>2
  <1>8. CASE IsrAdvance
    <2>1. CASE d = serving
      <3>1. unit[d] = "done" /\ level[d] > 0
        BY <1>8, <2>1, ServedHasTask DEF IsrAdvance
      <3>2. unit'[d] = "idle" /\ level'[d] = level[d] - 1 /\ UNCHANGED <<sent, running>>
        BY <1>8, <1>t, <2>1 DEF IsrAdvance, TypeOK
      <3>3. Fifo(d)' = Tail(Fifo(d))
        BY <1>f, <3>1, <3>2, RunTail
      <3> QED BY <3>1, <3>2, <3>3 DEF Completes
    <2>2. CASE d # serving
      BY <1>1, <1>8, <1>t, <2>2 DEF IsrAdvance, TypeOK
    <2> QED BY <2>1, <2>2
  <1>9. ASSUME NEW e \in Devices, Finish(e) PROVE Goal
    <2>1. CASE d = e
      <3>1. unit[d] = "busy" /\ unit'[d] = "done" /\ UNCHANGED <<ring, sent, running>>
        BY <1>9, <1>t, <2>1 DEF Finish, TypeOK
      <3> QED BY <1>f, <3>1 DEF Finishes
    <2>2. CASE d # e
      BY <1>1, <1>9, <1>t, <2>2 DEF Finish, TypeOK
    <2> QED BY <2>1, <2>2
  <1>10. ASSUME NEW e \in Devices, MainSubmit(e) \/ IsrCallbackSubmit(e) \/ IsrDispatch(e) PROVE Goal
    BY <1>1, <1>10 DEF MainSubmit, IsrCallbackSubmit, IsrDispatch
  <1>11. ASSUME NEW c \in Contexts, SubmitMask(c) \/ SubmitOverflow(c) \/ SubmitUnmask(c) PROVE Goal
    BY <1>1, <1>11 DEF SubmitMask, SubmitOverflow, SubmitUnmask
  <1>12. CASE IsrEnter \/ IsrReturn \/ IsrCallback \/ IsrAck \/ UNCHANGED vars
    BY <1>1, <1>12 DEF IsrEnter, IsrReturn, IsrCallback, IsrAck, vars
  <1> QED
    BY <1>2, <1>3, <1>6, <1>7, <1>8, <1>9, <1>10, <1>11, <1>12 DEF Next, Submit, Isr, Contexts

\* The two drivers serve their tasks first in, first out, one at a time, each once:
\* each implements TaskFifo.
THEOREM FifoRefinement == Spec => ImplementsFifo
  <1>1. Init => PfpuFifo!Init /\ TmuFifo!Init
    <2> SUFFICES ASSUME Init, NEW d \in Devices
                 PROVE  Fifo(d) = <<>> /\ sent[d] = 0 /\ unit[d] = "idle" /\ running[d] = NoTask
      BY DEF PfpuFifo!Init, TmuFifo!Init, Devices
    <2>1. level[d] = 0 /\ sent[d] = 0 /\ unit[d] = "idle" /\ running[d] = NoTask
      BY DEF Init
    <2>2. TypeOK /\ Rings
      BY InitInv DEF IInv
    <2> QED BY <2>1, <2>2, FifoIsRun, RunIsSeq DEF HoldsLast
  <1>2. IInv /\ [Next]_vars => [PfpuFifo!Next]_(PfpuFifo!fvars)
    <2> SUFFICES ASSUME IInv, [Next]_vars PROVE [PfpuFifo!Next]_(PfpuFifo!fvars)
      OBVIOUS
    <2>1. Accepts(PFPU) \/ Starts(PFPU) \/ Finishes(PFPU) \/ Completes(PFPU) \/ Stutters(PFPU)
      BY StepsImplementFifo DEF Devices
    <2> QED
      BY <2>1 DEF Accepts, Starts, Finishes, Completes, Stutters, PfpuFifo!Next, PfpuFifo!fvars,
              PfpuFifo!Accept, PfpuFifo!Start, PfpuFifo!Finish, PfpuFifo!Complete
  <1>3. IInv /\ [Next]_vars => [TmuFifo!Next]_(TmuFifo!fvars)
    <2> SUFFICES ASSUME IInv, [Next]_vars PROVE [TmuFifo!Next]_(TmuFifo!fvars)
      OBVIOUS
    <2>1. Accepts(TMU) \/ Starts(TMU) \/ Finishes(TMU) \/ Completes(TMU) \/ Stutters(TMU)
      BY StepsImplementFifo DEF Devices
    <2> QED
      BY <2>1 DEF Accepts, Starts, Finishes, Completes, Stutters, TmuFifo!Next, TmuFifo!fvars,
              TmuFifo!Accept, TmuFifo!Start, TmuFifo!Finish, TmuFifo!Complete
  <1> QED
    BY <1>1, <1>2, <1>3, Invariance, PTL
    DEF Spec, ImplementsFifo, PfpuFifo!SafetySpec, TmuFifo!SafetySpec
=============================================================================
