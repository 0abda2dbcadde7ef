-------------------------------- MODULE Uart -------------------------------
(***************************************************************************)
(* The console: the interrupt-driven driver software/libbase/uart-async.c  *)
(* on the UART core (cores/uart), and its handover to the boot loader's    *)
(* polled driver (software/libbase/uart.c) on a reboot.                    *)
(*                                                                         *)
(* Characters are numbered, on each direction, in the order they are put   *)
(* on it.  0 stands for no character.                                      *)
(***************************************************************************)
EXTENDS Naturals

CONSTANTS RxSize, TxSize,   \* UART_RINGBUFFER_SIZE_RX and _TX
          MaxIn, MaxOut     \* bounds: characters received and written

ASSUME SizeAssumption == RxSize \in Nat \ {0, 1} /\ TxSize \in Nat \ {0, 1}
ASSUME BoundAssumption == MaxIn \in Nat /\ MaxOut \in Nat

VARIABLES
  rx_buf, rx_produce, rx_consume,
  tx_buf, tx_produce, tx_consume, tx_cts, force_sync,
  reading,       \* main in readchar: at its poll, its load, or its update of rx_consume
  writing, oldmask, char,  \* per context: where it is in writechar, and its variables
  nested,        \* a handler has printed inside the main program's writechar, or between
                 \* its last look at tx_cts in uart_force_sync and what follows it
  phase,         \* the application, its reboot, or the boot loader
  im, ip,        \* the two UART bits of the interrupt mask and pending registers
  isr, irqs,     \* the handler: what it does, and its snapshot of the interrupts
  rxdata, txd,   \* the UART core: last character received, character being sent
  unread,        \* rxdata was not read yet
  received, got, rx_lost,     \* received by the core, returned by readchar
  written, wired, tx_lost     \* passed to writechar, out on the line

rxring == <<rx_buf, rx_produce, rx_consume>>
txring == <<tx_buf, tx_produce, tx_consume>>
cpu == <<phase, im, isr, irqs>>
call == <<writing, oldmask, char, nested>>
rx == <<rxring, reading, rxdata, unread, received, got, rx_lost>>
tx == <<txring, tx_cts, force_sync, call, txd, written, wired, tx_lost>>
vars == <<rx, tx, cpu, ip>>

Contexts == {"main", "isr"}
WrapRx(p) == (p + 1) % RxSize
WrapTx(p) == (p + 1) % TxSize

\* The handler runs to its end with interrupts disabled: main waits for it.
Runs(c) == IF c = "main" THEN isr = "idle" ELSE isr = "print"

\* uart_async_init, called before anything is printed; the tx half after it holds.
Init ==
  /\ rx_buf = [p \in 0..(RxSize - 1) |-> 0] /\ rx_produce = 0 /\ rx_consume = 0
  /\ tx_buf = [p \in 0..(TxSize - 1) |-> 0] /\ tx_produce = 0 /\ tx_consume = 0
  /\ tx_cts = TRUE /\ force_sync = FALSE
  /\ reading = "no"
  /\ writing = [c \in Contexts |-> "no"]
  /\ oldmask = [c \in Contexts |-> {}]
  /\ char = [c \in Contexts |-> 0]
  /\ nested = FALSE
  /\ phase = "app"
  /\ im = {"RX", "TX"} /\ ip = {}
  /\ isr = "idle" /\ irqs = {}
  /\ rxdata = 0 /\ txd = 0 /\ unread = FALSE
  /\ received = 0 /\ got = 0 /\ rx_lost = FALSE
  /\ written = 0 /\ wired = 0 /\ tx_lost = FALSE

-----------------------------------------------------------------------------
(***************************************************************************)
(* The UART core.                                                          *)
(***************************************************************************)
\* A character arrives.  One that was not read is lost.
Receive ==
  /\ received < MaxIn
  /\ received' = received + 1
  /\ rxdata' = received + 1
  /\ unread' = TRUE
  /\ rx_lost' = (rx_lost \/ unread)
  /\ ip' = ip \cup {"RX"}
  /\ UNCHANGED <<rxring, reading, got, tx, cpu>>

\* The last bit of a character is out.
Transmit ==
  /\ txd # 0
  /\ wired' = txd
  /\ txd' = 0
  /\ ip' = ip \cup {"TX"}
  /\ UNCHANGED <<rx, txring, tx_cts, force_sync, call, written, tx_lost, cpu>>

-----------------------------------------------------------------------------
(***************************************************************************)
(* The interrupt handler.                                                  *)
(***************************************************************************)
\* Handlers print: renderer_start its progress, when the push-button handler starts
\* a preset, tmu_isr its profile.
MayPrint == written < MaxOut

\* The main program has looked at the driver's state and not yet acted on it.
MainInside == writing["main"] # "no" \/ phase = "flushed"

\* isr(): a snapshot of the unmasked interrupts.  A handler that prints is entered
\* for an interrupt of another device.
IsrEnter ==
  /\ isr = "idle" /\ phase # "bios"
  /\ ip \cap im # {} \/ MayPrint
  /\ irqs' = ip \cap im
  /\ isr' = "rx"
  /\ UNCHANGED <<rx, tx, phase, im, ip>>

\* uart_async_isr_rx: irq_ack
IsrRxAck ==
  /\ isr = "rx"
  /\ IF "RX" \in irqs THEN ip' = ip \ {"RX"} /\ isr' = "rxread"
                      ELSE isr' = "tx" /\ UNCHANGED ip
  /\ UNCHANGED <<rx, tx, phase, im, irqs>>

\* ... then the data register is read into the ring, full or not.
IsrRxStore ==
  /\ isr = "rxread"
  /\ rx_buf' = [rx_buf EXCEPT ![rx_produce] = rxdata]
  /\ rx_produce' = WrapRx(rx_produce)
  /\ unread' = FALSE
  /\ rx_lost' = (rx_lost \/ WrapRx(rx_produce) = rx_consume)
  /\ isr' = "tx"
  /\ UNCHANGED <<rx_consume, reading, rxdata, received, got, tx, phase, im, ip, irqs>>

\* Mutant: every pending interrupt is acknowledged.
IsrTxAckAll ==
  /\ isr = "tx" /\ "TX" \in irqs
  /\ ip' = {}
  /\ IF tx_produce # tx_consume
       THEN txd' = tx_buf[tx_consume] /\ tx_consume' = WrapTx(tx_consume) /\ UNCHANGED tx_cts
       ELSE tx_cts' = TRUE /\ UNCHANGED <<txd, tx_consume>>
  /\ isr' = "print"
  /\ UNCHANGED <<rx, tx_buf, tx_produce, force_sync, call, written, wired, tx_lost, phase, im, irqs>>

\* Mutant: an empty ring does not make the driver clear to send.
IsrTxNoCts ==
  /\ isr = "tx" /\ "TX" \in irqs
  /\ ip' = ip \ {"TX"}
  /\ IF tx_produce # tx_consume
       THEN txd' = tx_buf[tx_consume] /\ tx_consume' = WrapTx(tx_consume)
       ELSE UNCHANGED <<txd, tx_consume>>
  /\ isr' = "print"
  /\ UNCHANGED <<rx, tx_buf, tx_produce, tx_cts, force_sync, call, written, wired, tx_lost, phase, im, irqs>>

\* uart_async_isr_tx: the next character is sent, or the driver is clear to send.
\* The transmitter is idle, so that nothing can come between its steps.
IsrTx ==
  /\ isr = "tx" /\ "TX" \in irqs
  /\ ip' = ip \ {"TX"}
  /\ IF tx_produce # tx_consume
       THEN txd' = tx_buf[tx_consume] /\ tx_consume' = WrapTx(tx_consume) /\ UNCHANGED tx_cts
       ELSE tx_cts' = TRUE /\ UNCHANGED <<txd, tx_consume>>
  /\ isr' = "print"
  /\ UNCHANGED <<rx, tx_buf, tx_produce, force_sync, call, written, wired, tx_lost, phase, im, irqs>>

IsrNoTx ==
  /\ isr = "tx" /\ "TX" \notin irqs
  /\ isr' = "print"
  /\ UNCHANGED <<rx, tx, phase, im, ip, irqs>>

IsrReturn ==
  /\ isr = "print" /\ writing["isr"] = "no"
  /\ isr' = "idle"
  /\ UNCHANGED <<rx, tx, phase, im, ip, irqs>>

-----------------------------------------------------------------------------
(***************************************************************************)
(* writechar, in the context c that calls it.                              *)
(***************************************************************************)
\* A character to print.  oldmask = irq_getmask()
Write(c) ==
  /\ Runs(c) /\ writing[c] = "no"
  /\ IF c = "main" THEN phase = "app" /\ reading = "no" /\ written < MaxOut ELSE MayPrint
  /\ written' = written + 1
  /\ char' = [char EXCEPT ![c] = written + 1]
  /\ oldmask' = [oldmask EXCEPT ![c] = im]
  /\ writing' = [writing EXCEPT ![c] = "mask"]
  /\ nested' = (nested \/ (c = "isr" /\ MainInside))
  /\ UNCHANGED <<rx, txring, tx_cts, force_sync, txd, wired, tx_lost, cpu, ip>>

\* Mutant: the interrupt is not masked.
WriteMaskNot(c) ==
  /\ Runs(c) /\ writing[c] = "mask"
  /\ writing' = [writing EXCEPT ![c] = IF force_sync THEN "sync" ELSE "cts"]
  /\ UNCHANGED <<rx, txring, tx_cts, force_sync, oldmask, char, nested, txd, written, wired, tx_lost, cpu, ip>>

\* irq_setmask(oldmask & ~IRQ_UARTTX)
WriteMask(c) ==
  /\ Runs(c) /\ writing[c] = "mask"
  /\ im' = oldmask[c] \ {"TX"}
  /\ writing' = [writing EXCEPT ![c] = IF force_sync THEN "sync" ELSE "cts"]
  /\ UNCHANGED <<rx, txring, tx_cts, force_sync, oldmask, char, nested, txd, written, wired, tx_lost,
                 phase, isr, irqs, ip>>

\* if(tx_cts)
WriteTest(c) ==
  /\ Runs(c) /\ writing[c] = "cts"
  /\ writing' = [writing EXCEPT ![c] = IF tx_cts THEN "send" ELSE "store"]
  /\ UNCHANGED <<rx, txring, tx_cts, force_sync, oldmask, char, nested, txd, written, wired, tx_lost, cpu, ip>>

\* tx_cts = 0, and the data register is written.
WriteSend(c) ==
  /\ Runs(c) /\ writing[c] = "send"
  /\ tx_cts' = FALSE
  /\ txd' = char[c]
  /\ writing' = [writing EXCEPT ![c] = "unmask"]
  /\ UNCHANGED <<rx, txring, force_sync, oldmask, char, nested, written, wired, tx_lost, cpu, ip>>

\* Mutant: tx_produce does not wrap.
WriteStoreNoWrap(c) ==
  /\ Runs(c) /\ writing[c] = "store"
  /\ tx_buf' = [tx_buf EXCEPT ![tx_produce] = char[c]]
  /\ tx_produce' = tx_produce + 1
  /\ tx_lost' = (tx_lost \/ WrapTx(tx_produce) = tx_consume)
  /\ writing' = [writing EXCEPT ![c] = "unmask"]
  /\ UNCHANGED <<rx, tx_consume, tx_cts, force_sync, oldmask, char, nested, txd, written, wired, cpu, ip>>

\* The character enters the ring, full or not.
WriteStore(c) ==
  /\ Runs(c) /\ writing[c] = "store"
  /\ tx_buf' = [tx_buf EXCEPT ![tx_produce] = char[c]]
  /\ tx_produce' = WrapTx(tx_produce)
  /\ tx_lost' = (tx_lost \/ WrapTx(tx_produce) = tx_consume)
  /\ writing' = [writing EXCEPT ![c] = "unmask"]
  /\ UNCHANGED <<rx, tx_consume, tx_cts, force_sync, oldmask, char, nested, txd, written, wired, cpu, ip>>

\* irq_setmask(oldmask)
WriteUnmask(c) ==
  /\ Runs(c) /\ writing[c] = "unmask"
  /\ im' = oldmask[c]
  /\ writing' = [writing EXCEPT ![c] = "no"]
  /\ UNCHANGED <<rx, txring, tx_cts, force_sync, oldmask, char, nested, txd, written, wired, tx_lost,
                 phase, isr, irqs, ip>>

\* The polled transmission, of uart.c and of writechar once force_sync is set:
\* the data register is written, and the interrupt awaited and acknowledged.
SyncSend(c) ==
  /\ Runs(c) /\ writing[c] = "sync"
  /\ txd' = char[c]
  /\ writing' = [writing EXCEPT ![c] = "wait"]
  /\ UNCHANGED <<rx, txring, tx_cts, force_sync, oldmask, char, nested, written, wired, tx_lost, cpu, ip>>

SyncWait(c) ==
  /\ Runs(c) /\ writing[c] = "wait"
  /\ "TX" \in ip
  /\ ip' = ip \ {"TX"}
  /\ writing' = [writing EXCEPT ![c] = IF phase = "bios" THEN "no" ELSE "unmask"]
  /\ UNCHANGED <<rx, txring, tx_cts, force_sync, oldmask, char, nested, txd, written, wired, tx_lost, cpu>>

WriteStep(c) ==
  \/ WriteMask(c) \/ WriteTest(c) \/ WriteSend(c) \/ WriteStore(c) \/ WriteUnmask(c)
  \/ SyncSend(c) \/ SyncWait(c)

-----------------------------------------------------------------------------
(***************************************************************************)
(* readchar, in the main loop, with no lock.                               *)
(***************************************************************************)
\* Mutant: readchar does not wait for a character.
ReadPollBlind ==
  /\ isr = "idle" /\ phase = "app" /\ writing["main"] = "no"
  /\ reading = "no"
  /\ reading' = "load"
  /\ UNCHANGED <<rxring, rxdata, unread, received, got, rx_lost, tx, cpu, ip>>

\* readchar_nonblock() and the loop of readchar() see a character.
ReadPoll ==
  /\ isr = "idle" /\ phase = "app" /\ writing["main"] = "no"
  /\ reading = "no" /\ rx_consume # rx_produce
  /\ reading' = "load"
  /\ UNCHANGED <<rxring, rxdata, unread, received, got, rx_lost, tx, cpu, ip>>

\* c = rx_buf[rx_consume]
ReadLoad ==
  /\ isr = "idle" /\ reading = "load"
  /\ got' = rx_buf[rx_consume]
  /\ reading' = "advance"
  /\ UNCHANGED <<rxring, rxdata, unread, received, rx_lost, tx, cpu, ip>>

ReadAdvance ==
  /\ isr = "idle" /\ reading = "advance"
  /\ rx_consume' = WrapRx(rx_consume)
  /\ reading' = "no"
  /\ UNCHANGED <<rx_buf, rx_produce, rxdata, unread, received, got, rx_lost, tx, cpu, ip>>

-----------------------------------------------------------------------------
(***************************************************************************)
(* reboot(), and the boot loader.                                          *)
(***************************************************************************)
Reboot ==
  /\ isr = "idle" /\ phase = "app" /\ reading = "no" /\ writing["main"] = "no"
  /\ phase' = "flush"
  /\ UNCHANGED <<rx, tx, im, isr, irqs, ip>>

\* Mutant: uart_force_sync does not wait for the characters still to be sent.
RebootFlushNot ==
  /\ isr = "idle" /\ phase = "flush"
  /\ phase' = "flushed"
  /\ UNCHANGED <<rx, tx, im, isr, irqs, ip>>

\* uart_force_sync(1): while(!tx_cts) is left ...
RebootFlush ==
  /\ isr = "idle" /\ phase = "flush"
  /\ tx_cts
  /\ phase' = "flushed"
  /\ UNCHANGED <<rx, tx, im, isr, irqs, ip>>

\* ... then force_sync = 1.  A handler may have come in between.
RebootSync ==
  /\ isr = "idle" /\ phase = "flushed"
  /\ force_sync' = TRUE
  /\ phase' = "sync"
  /\ UNCHANGED <<rx, txring, tx_cts, call, txd, written, wired, tx_lost, im, isr, irqs, ip>>

\* irq_setmask(0), irq_enable(0) and the jump.  What readchar did not return is
\* gone with the application; the pending register keeps its bits.
RebootJump ==
  /\ isr = "idle" /\ phase = "sync"
  /\ im' = {}
  /\ phase' = "bios"
  /\ rx_lost' = (rx_lost \/ rx_consume # rx_produce)
  /\ UNCHANGED <<rxring, reading, rxdata, unread, received, got, tx, isr, irqs, ip>>

\* The boot loader's writechar ...
BiosWrite ==
  /\ phase = "bios" /\ writing["main"] = "no" /\ reading = "no"
  /\ written < MaxOut
  /\ written' = written + 1
  /\ char' = [char EXCEPT !["main"] = written + 1]
  /\ writing' = [writing EXCEPT !["main"] = "sync"]
  /\ UNCHANGED <<rx, txring, tx_cts, force_sync, oldmask, nested, txd, wired, tx_lost, cpu, ip>>

\* ... and its readchar: the interrupt is awaited and acknowledged, ...
BiosPoll ==
  /\ phase = "bios" /\ writing["main"] = "no" /\ reading = "no"
  /\ "RX" \in ip
  /\ ip' = ip \ {"RX"}
  /\ reading' = "bios"
  /\ UNCHANGED <<rxring, rxdata, unread, received, got, rx_lost, tx, cpu>>

\* ... then the data register read.
BiosRead ==
  /\ reading = "bios"
  /\ got' = rxdata
  /\ unread' = FALSE
  /\ reading' = "no"
  /\ UNCHANGED <<rxring, rxdata, received, rx_lost, tx, cpu, ip>>

-----------------------------------------------------------------------------
Isr == IsrRxAck \/ IsrRxStore \/ IsrTx \/ IsrNoTx \/ IsrReturn \/ WriteStep("isr")
Read == ReadPoll \/ ReadLoad \/ ReadAdvance
Bios == BiosWrite \/ BiosPoll \/ BiosRead

Next ==
  \/ Receive \/ Transmit
  \/ IsrEnter \/ Isr
  \/ \E c \in Contexts : Write(c)
  \/ WriteStep("main")
  \/ Read \/ Reboot \/ RebootFlush \/ RebootSync \/ RebootJump \/ Bios

\* The core sends at its baud rate; the processor takes an unmasked interrupt (one
\* that is masked again and again is taken, being enabled in between) and ends its
\* handler; between handlers, which may come again and again, the main program goes on
\* with the call it is in and polls readchar_nonblock.
Fairness ==
  /\ WF_vars(Transmit)
  /\ SF_vars(IsrEnter) /\ WF_vars(Isr)
  /\ SF_vars(WriteStep("main") \/ Read)

Spec == Init /\ [][Next]_vars /\ Fairness

-----------------------------------------------------------------------------
TypeOK ==
  /\ rx_buf \in [0..(RxSize - 1) -> Nat] /\ tx_buf \in [0..(TxSize - 1) -> Nat]
  /\ rx_produce \in 0..(RxSize - 1) /\ rx_consume \in 0..(RxSize - 1)
  /\ tx_produce \in 0..(TxSize - 1) /\ tx_consume \in 0..(TxSize - 1)
  /\ tx_cts \in BOOLEAN /\ force_sync \in BOOLEAN
  /\ reading \in {"no", "load", "advance", "bios"}
  /\ writing \in [Contexts -> {"no", "mask", "cts", "send", "store", "sync", "wait", "unmask"}]
  /\ oldmask \in [Contexts -> SUBSET {"RX", "TX"}]
  /\ char \in [Contexts -> Nat] /\ nested \in BOOLEAN
  /\ phase \in {"app", "flush", "flushed", "sync", "bios"}
  /\ im \in SUBSET {"RX", "TX"} /\ ip \in SUBSET {"RX", "TX"}
  /\ isr \in {"idle", "rx", "rxread", "tx", "print"} /\ irqs \in SUBSET {"RX", "TX"}
  /\ rxdata \in Nat /\ txd \in Nat /\ unread \in BOOLEAN
  /\ received \in Nat /\ got \in Nat /\ rx_lost \in BOOLEAN
  /\ written \in Nat /\ wired \in Nat /\ tx_lost \in BOOLEAN

\* The data register is never written while a character is being sent (uart.tex: "it must
\* wait for the interrupt before writing again"), as uart-async.c:27 has it ("TX functions
\* already implement locking").
LockedTransmitter == [][txd' # 0 /\ txd' # txd => txd = 0]_vars

\* The same, by the driver or by the boot loader after it, as long as no handler has
\* printed inside the main program's writechar, or between the end of uart_force_sync's
\* wait and the polled operation that it waits for.
WaitsForTransmitter == [][~nested /\ txd' # 0 /\ txd' # txd => txd = 0]_vars

\* Characters come out on the line once each and in the order they were written,
\* across the two drivers, unless more were written than the ring holds or a handler
\* printed inside a call of the main program's.
SentInOrder == [][wired' # wired /\ ~tx_lost /\ ~nested => wired' = wired + 1]_vars

\* Every character written comes out, with the same two exceptions: a boot loader that
\* takes over leaves nothing behind in the ring.
EverySent == \A n \in 1..MaxOut : (written >= n) ~> (wired >= n \/ tx_lost \/ nested)

\* readchar, which takes no lock, returns the characters once each and in the order
\* they came, unless the program was late to read some.
ReadInOrder == [][got' # got /\ ~rx_lost' => got' = got + 1]_vars

\* Every character received is returned by readchar while the application runs,
\* unless some were lost.
EveryRead == \A n \in 1..MaxIn : (received >= n) ~> (got >= n \/ rx_lost \/ phase # "app")
=============================================================================
