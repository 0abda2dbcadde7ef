----------------------------- MODULE UartProofs -----------------------------
(***************************************************************************)
(* The console, for rings of any size and any number of characters: types, *)
(* the order in which readchar returns what was received, and, until a     *)
(* handler prints inside a call of the main program's, the use of the      *)
(* transmitter and the order on the line.                                  *)
(***************************************************************************)
EXTENDS Uart, Integers, TLAPS

(***************************************************************************)
(* Rings.  Of a ring of N slots, Count(p, c, N) hold characters when p is  *)
(* the next slot to fill and c the next to empty, and a slot i is at       *)
(* position Count(i, c, N).                                                *)
(***************************************************************************)
Count(p, c, N) == IF c <= p THEN p - c ELSE p - c + N
RxCount == Count(rx_produce, rx_consume, RxSize)
TxCount == Count(tx_produce, tx_consume, TxSize)
RxSlots == 0..(RxSize - 1)
TxSlots == 0..(TxSize - 1)

(***************************************************************************)
(* The receiving half.  Until a character is lost, the one in the data     *)
(* register is announced by the pending bit or by what the handler or the  *)
(* boot loader is about to do, and what readchar returned last, what the   *)
(* ring holds and the register make up all that was received.              *)
(***************************************************************************)
Stored == IF unread THEN received - 1 ELSE received
Returned == IF reading = "advance" THEN got - 1 ELSE got

Announced ==
  /\ unread <=> ("RX" \in ip \/ isr = "rxread" \/ reading = "bios")
  /\ "RX" \in ip => isr # "rxread" /\ reading # "bios"
  /\ isr = "rx" /\ "RX" \in irqs => "RX" \in ip

Backlog ==
  IF phase = "bios" THEN got = Stored
  ELSE /\ Returned + RxCount = Stored
       /\ \A i \in RxSlots :
            Count(i, rx_consume, RxSize) < RxCount =>
              rx_buf[i] = Returned + Count(i, rx_consume, RxSize) + 1

RxInv ==
  /\ rxdata = received
  /\ phase = "bios" => isr = "idle" /\ reading \in {"no", "bios"}
  /\ reading = "bios" => phase = "bios"
  /\ reading \in {"load", "advance"} => phase = "app"
  /\ ~rx_lost => Announced /\ Backlog /\ (reading \in {"load", "advance"} => RxCount > 0)

(***************************************************************************)
(* The sending half, until a call is nested: one context at a time is in   *)
(* writechar or behind uart_force_sync's wait, and once it has masked the  *)
(* interrupt its handler does not run; so what it saw of tx_cts stays      *)
(* true, and with it what tx_cts says of the transmitter.                  *)
(***************************************************************************)
Locked(c) == writing[c] \in {"cts", "send", "store", "sync", "wait", "unmask"}
Lock == Locked("main") \/ Locked("isr")
Waits == writing["main"] = "wait" \/ writing["isr"] = "wait"

Calls ==
  /\ isr # "print" => writing["isr"] = "no"
  /\ writing["main"] = "no" \/ writing["isr"] = "no"
  /\ phase \in {"flush", "flushed", "sync"} => writing["main"] = "no"
  /\ phase = "flushed" => writing["isr"] = "no"
  /\ phase = "bios" => isr = "idle" /\ writing["main"] \in {"no", "sync", "wait"}
  /\ force_sync <=> phase \in {"sync", "bios"}
  /\ \A c \in Contexts : /\ writing[c] \in {"sync", "wait"} => force_sync
                         /\ writing[c] \in {"cts", "send", "store"} => ~force_sync
  /\ phase # "bios" =>
       /\ im = IF Lock THEN {"RX"} ELSE {"RX", "TX"}
       /\ \A c \in Contexts : writing[c] # "no" => oldmask[c] = {"RX", "TX"}
  /\ isr \in {"rx", "rxread", "tx"} /\ "TX" \in irqs => "TX" \in ip /\ ~Locked("main")

\* The wait of uart_force_sync is over.
Flushed == phase = "flushed" => tx_cts

Transmitter ==
  /\ txd # 0 => "TX" \notin ip
  /\ tx_cts => tx_produce = tx_consume
  /\ tx_cts /\ ~Waits => txd = 0 /\ "TX" \notin ip
  /\ force_sync => tx_cts
  /\ \A c \in Contexts : (writing[c] = "send" => tx_cts) /\ (writing[c] = "store" => ~tx_cts)

\* The characters written are on the line, being sent, in the ring or in the hands of
\* writechar, in this order.
Putting(c) == writing[c] \in {"mask", "cts", "send", "store", "sync"}
InCall == IF Putting("main") \/ Putting("isr") THEN 1 ELSE 0
Sent == IF txd # 0 THEN wired + 1 ELSE wired

Order ==
  /\ \A c \in Contexts : Putting(c) => char[c] = written /\ written > 0
  /\ ~tx_lost =>
       /\ txd # 0 => txd = wired + 1
       /\ Sent + TxCount + InCall = written
       /\ \A i \in TxSlots :
            Count(i, tx_consume, TxSize) < TxCount =>
              tx_buf[i] = Sent + Count(i, tx_consume, TxSize) + 1

TxInv == Calls /\ Flushed /\ Transmitter /\ Order

IInv == TypeOK /\ RxInv /\ (~nested => TxInv)

-----------------------------------------------------------------------------
(* Rings *)

LEMMA Wraps ==
  ASSUME NEW N \in Nat \ {0, 1}, NEW p \in 0..(N - 1)
  PROVE  (p + 1) % N = IF p = N - 1 THEN 0 ELSE p + 1
  <1>1. CASE p = N - 1
    <2>1. p + 1 = N
      BY <1>1
    <2>2. N % N = 0
      OBVIOUS
    <2> QED BY <1>1, <2>1, <2>2
  <1>2. CASE p # N - 1
    BY <1>2
  <1> QED BY <1>1, <1>2

LEMMA Counts ==
  ASSUME NEW N \in Nat \ {0, 1}, NEW p \in 0..(N - 1), NEW c \in 0..(N - 1)
  PROVE  Count(p, c, N) \in 0..(N - 1) /\ (Count(p, c, N) = 0 <=> p = c)
  BY DEF Count

\* A slot filled in a ring that has room
LEMMA Push ==
  ASSUME NEW N \in Nat \ {0, 1}, NEW p \in 0..(N - 1), NEW c \in 0..(N - 1), (p + 1) % N # c
  PROVE  /\ (p + 1) % N \in 0..(N - 1)
         /\ Count((p + 1) % N, c, N) = Count(p, c, N) + 1
         /\ \A i \in 0..(N - 1) : i # p /\ Count(i, c, N) < Count((p + 1) % N, c, N)
                                    => Count(i, c, N) < Count(p, c, N)
  <1>1. (p + 1) % N = IF p = N - 1 THEN 0 ELSE p + 1
    BY Wraps
  <1> QED BY <1>1 DEF Count

\* A slot emptied
LEMMA Pop ==
  ASSUME NEW N \in Nat \ {0, 1}, NEW p \in 0..(N - 1), NEW c \in 0..(N - 1), p # c
  PROVE  /\ (c + 1) % N \in 0..(N - 1)
         /\ Count(p, (c + 1) % N, N) = Count(p, c, N) - 1
         /\ \A i \in 0..(N - 1) : Count(i, (c + 1) % N, N) < Count(p, (c + 1) % N, N)
                                    => Count(i, c, N) = Count(i, (c + 1) % N, N) + 1
  <1>1. (c + 1) % N = IF c = N - 1 THEN 0 ELSE c + 1
    BY Wraps
  <1> QED BY <1>1 DEF Count

LEMMA WrapInRange ==
  ASSUME NEW N \in Nat \ {0, 1}, NEW p \in 0..(N - 1)
  PROVE  (p + 1) % N \in 0..(N - 1)
  BY Wraps

-----------------------------------------------------------------------------
LEMMA InitTypes == Init => TypeOK
  <1> SUFFICES ASSUME Init PROVE TypeOK
    OBVIOUS
  <1>1. /\ rx_buf \in [0..(RxSize - 1) -> Nat] /\ tx_buf \in [0..(TxSize - 1) -> Nat]
        /\ rx_produce \in 0..(RxSize - 1) /\ rx_consume \in 0..(RxSize - 1)
        /\ tx_produce \in 0..(TxSize - 1) /\ tx_consume \in 0..(TxSize - 1)
    BY SizeAssumption DEF Init
  <1>2. /\ writing \in [Contexts -> {"no", "mask", "cts", "send", "store", "sync", "wait", "unmask"}]
        /\ oldmask \in [Contexts -> SUBSET {"RX", "TX"}] /\ char \in [Contexts -> Nat]
    BY DEF Init
  <1>3. /\ tx_cts \in BOOLEAN /\ force_sync \in BOOLEAN /\ unread \in BOOLEAN
        /\ nested \in BOOLEAN /\ rx_lost \in BOOLEAN /\ tx_lost \in BOOLEAN
    BY DEF Init
  <1>4. /\ reading \in {"no", "load", "advance", "bios"} /\ phase \in {"app", "flush", "flushed", "sync", "bios"}
        /\ isr \in {"idle", "rx", "rxread", "tx", "print"}
        /\ im \in SUBSET {"RX", "TX"} /\ ip \in SUBSET {"RX", "TX"} /\ irqs \in SUBSET {"RX", "TX"}
    BY DEF Init
  <1>5. /\ rxdata \in Nat /\ txd \in Nat /\ received \in Nat /\ got \in Nat
        /\ written \in Nat /\ wired \in Nat
    BY DEF Init
  <1> QED BY <1>1, <1>2, <1>3, <1>4, <1>5 DEF TypeOK

LEMMA NextTypes == TypeOK /\ [Next]_vars => TypeOK'
  <1> SUFFICES ASSUME TypeOK, [Next]_vars PROVE TypeOK'
    OBVIOUS
  <1> USE DEF TypeOK, rx, tx, cpu, call, rxring, txring, Runs
  <1>w. /\ WrapRx(rx_produce) \in 0..(RxSize - 1) /\ WrapRx(rx_consume) \in 0..(RxSize - 1)
        /\ WrapTx(tx_produce) \in 0..(TxSize - 1) /\ WrapTx(tx_consume) \in 0..(TxSize - 1)
    BY WrapInRange, SizeAssumption DEF WrapRx, WrapTx
  <1>1. CASE Receive
    BY <1>1 DEF Receive
  <1>2. CASE Transmit
    BY <1>2 DEF Transmit
  <1>3. CASE IsrEnter \/ IsrRxAck
    BY <1>3, ZenonT(60) DEF IsrEnter, IsrRxAck
  <1>4. CASE IsrRxStore
    BY <1>4, <1>w, ZenonT(60) DEF IsrRxStore
  <1>5. CASE IsrTx
    BY <1>5, <1>w, ZenonT(60) DEF IsrTx
  <1>6. CASE IsrNoTx \/ IsrReturn
    BY <1>6, ZenonT(60) DEF IsrNoTx, IsrReturn
  <1>7. ASSUME NEW c \in Contexts, Write(c) PROVE TypeOK'
    BY <1>7 DEF Write
  <1>8. ASSUME NEW c \in Contexts, WriteStep(c) PROVE TypeOK'
    <2>1. CASE WriteMask(c) \/ WriteTest(c)
      BY <1>8, <2>1, ZenonT(60) DEF WriteMask, WriteTest
    <2>4. CASE WriteSend(c)
      BY <1>8, <2>4, ZenonT(60) DEF WriteSend
    <2>2. CASE WriteStore(c)
      BY <1>8, <2>2, <1>w, SMTT(30) DEF WriteStore
    <2>3. CASE WriteUnmask(c)
      BY <1>8, <2>3 DEF WriteUnmask
    <2>5. CASE SyncSend(c)
      BY <1>8, <2>5 DEF SyncSend
    <2>6. CASE SyncWait(c)
      BY <1>8, <2>6 DEF SyncWait
    <2> QED BY <1>8, <2>1, <2>2, <2>3, <2>4, <2>5, <2>6 DEF WriteStep
  <1>9. CASE Read
    BY <1>9, <1>w, ZenonT(60) DEF Read, ReadPoll, ReadLoad, ReadAdvance
  <1>10. CASE Reboot \/ RebootFlush \/ RebootSync \/ RebootJump
    BY <1>10, ZenonT(60) DEF Reboot, RebootFlush, RebootSync, RebootJump
  <1>11. CASE Bios
    <2>1. CASE BiosWrite
      BY <2>1 DEF BiosWrite, Contexts
    <2>2. CASE BiosPoll \/ BiosRead
      BY <2>2, ZenonT(60) DEF BiosPoll, BiosRead
    <2> QED BY <1>11, <2>1, <2>2 DEF Bios
  <1>12. CASE UNCHANGED vars
    BY <1>12 DEF vars
  <1> QED BY <1>1, <1>2, <1>3, <1>4, <1>5, <1>6, <1>7, <1>8, <1>9, <1>10, <1>11, <1>12
          DEF Next, Isr, Contexts

-----------------------------------------------------------------------------
(* The receiving half *)

LEMMA RxSteps ==
  ASSUME [Next]_vars
  PROVE  \/ /\ UNCHANGED rx /\ (phase' = "bios" <=> phase = "bios") /\ ("RX" \in ip' <=> "RX" \in ip)
            /\ phase' = phase \/ phase # "app" \/ reading = "no"
            /\ \/ isr' = isr /\ irqs' = irqs
               \/ isr \in {"tx", "print"} /\ isr' \in {"print", "idle"}
         \/ Receive \/ IsrEnter \/ IsrRxAck \/ IsrRxStore
         \/ ReadPoll \/ ReadLoad \/ ReadAdvance \/ RebootJump \/ BiosPoll \/ BiosRead
  <1> DEFINE Same ==
        /\ UNCHANGED rx /\ (phase' = "bios" <=> phase = "bios") /\ ("RX" \in ip' <=> "RX" \in ip)
        /\ phase' = phase \/ phase # "app" \/ reading = "no"
        /\ \/ isr' = isr /\ irqs' = irqs
           \/ isr \in {"tx", "print"} /\ isr' \in {"print", "idle"}
  <1> USE DEF cpu
  <1>1. ASSUME Transmit \/ IsrTx \/ IsrNoTx \/ IsrReturn PROVE Same
    BY <1>1 DEF Transmit, IsrTx, IsrNoTx, IsrReturn
  <1>2. ASSUME NEW c \in Contexts, Write(c) \/ WriteStep(c) PROVE Same
    <2>1. CASE Write(c) \/ WriteMask(c) \/ WriteTest(c) \/ WriteSend(c)
      BY <2>1 DEF Write, WriteMask, WriteTest, WriteSend
    <2>2. CASE WriteStore(c) \/ WriteUnmask(c) \/ SyncSend(c) \/ SyncWait(c)
      BY <2>2 DEF WriteStore, WriteUnmask, SyncSend, SyncWait
    <2> QED BY <1>2, <2>1, <2>2 DEF WriteStep
  <1>3. ASSUME Reboot \/ RebootFlush \/ RebootSync \/ BiosWrite \/ UNCHANGED vars PROVE Same
    BY <1>3 DEF Reboot, RebootFlush, RebootSync, BiosWrite, vars
  <1> QED BY <1>1, <1>2, <1>3 DEF Next, Isr, Read, Bios, Contexts

LEMMA NextRx == TypeOK /\ RxInv /\ [Next]_vars => RxInv'
  <1> SUFFICES ASSUME TypeOK, RxInv, [Next]_vars PROVE RxInv'
    OBVIOUS
  <1>s. RxSize \in Nat \ {0, 1} /\ rx_produce \in 0..(RxSize - 1) /\ rx_consume \in 0..(RxSize - 1)
    BY SizeAssumption DEF TypeOK
  <1>c. RxCount \in 0..(RxSize - 1) /\ (RxCount = 0 <=> rx_produce = rx_consume)
    BY <1>s, Counts DEF RxCount
  <1>t. /\ unread \in BOOLEAN /\ received \in Nat /\ got \in Nat /\ rx_lost \in BOOLEAN
        /\ rx_buf \in [RxSlots -> Nat]
    BY DEF TypeOK, RxSlots
  <1> USE DEF rx, rxring
  <1>1. CASE /\ UNCHANGED rx /\ (phase' = "bios" <=> phase = "bios") /\ ("RX" \in ip' <=> "RX" \in ip)
             /\ phase' = phase \/ phase # "app" \/ reading = "no"
             /\ \/ isr' = isr /\ irqs' = irqs
                \/ isr \in {"tx", "print"} /\ isr' \in {"print", "idle"}
    <2>1. Stored' = Stored /\ Returned' = Returned /\ RxCount' = RxCount
      BY <1>1 DEF Stored, Returned, RxCount
    <2>2. Announced => Announced'
      BY <1>1 DEF Announced
    <2>3. Backlog => Backlog'
      BY <1>1, <2>1 DEF Backlog
    <2> QED BY <1>1, <2>1, <2>2, <2>3 DEF RxInv
  <1>2. CASE Receive
    <2>1. /\ rxdata' = received + 1 /\ received' = received + 1 /\ unread'
          /\ rx_lost' = (rx_lost \/ unread) /\ "RX" \in ip'
          /\ UNCHANGED <<rx_buf, rx_produce, rx_consume, reading, got, phase, isr, irqs>>
      BY <1>2 DEF Receive, cpu
    <2>2. Returned' = Returned /\ RxCount' = RxCount
      BY <2>1 DEF Returned, RxCount
    <2>3. CASE rx_lost \/ unread
      BY <2>1, <2>3 DEF RxInv
    <2>4. CASE ~rx_lost /\ ~unread
      <3>1. Stored' = Stored
        BY <1>t, <2>1, <2>4 DEF Stored
      <3>2. Announced'
        BY <2>1, <2>4 DEF RxInv, Announced
      <3>3. Backlog'
        BY <2>1, <2>2, <2>4, <3>1 DEF RxInv, Backlog
      <3> QED BY <2>1, <2>2, <2>4, <3>2, <3>3 DEF RxInv
    <2> QED BY <1>t, <2>3, <2>4
  <1>3. CASE IsrEnter
    <2>1. /\ UNCHANGED <<rx, phase, im, ip>> /\ isr = "idle" /\ phase # "bios"
          /\ irqs' \subseteq ip /\ isr' = "rx"
      BY <1>3 DEF IsrEnter
    <2>2. Stored' = Stored /\ Returned' = Returned /\ RxCount' = RxCount
      BY <2>1 DEF Stored, Returned, RxCount
    <2>3. Announced => Announced'
      BY <2>1 DEF Announced
    <2>4. Backlog => Backlog'
      BY <2>1, <2>2 DEF Backlog
    <2> QED BY <2>1, <2>2, <2>3, <2>4 DEF RxInv
  <1>4. CASE IsrRxAck
    <2>1. UNCHANGED <<rx, phase, irqs>> /\ isr = "rx" /\ phase # "bios"
      BY <1>4 DEF IsrRxAck, RxInv
    <2>2. \/ "RX" \in irqs /\ "RX" \notin ip' /\ isr' = "rxread"
          \/ "RX" \notin irqs /\ ip' = ip /\ isr' = "tx"
      BY <1>4 DEF IsrRxAck
    <2>3. Stored' = Stored /\ Returned' = Returned /\ RxCount' = RxCount
      BY <2>1 DEF Stored, Returned, RxCount
    <2>4. ~rx_lost => Announced'
      BY <2>1, <2>2 DEF RxInv, Announced
    <2>5. Backlog => Backlog'
      BY <2>1, <2>3 DEF Backlog
    <2> QED BY <2>1, <2>3, <2>4, <2>5 DEF RxInv
  <1>5. CASE IsrRxStore
    <2> DEFINE q == WrapRx(rx_produce)
    <2>1. /\ isr = "rxread" /\ isr' = "tx" /\ phase # "bios" /\ reading # "bios"
          /\ rx_buf' = [rx_buf EXCEPT ![rx_produce] = rxdata] /\ rx_produce' = q
          /\ unread' = FALSE /\ rx_lost' = (rx_lost \/ q = rx_consume)
          /\ UNCHANGED <<rx_consume, reading, rxdata, received, got, phase, ip, irqs>>
      BY <1>5 DEF IsrRxStore, RxInv
    <2>2. SUFFICES ASSUME ~rx_lost, q # rx_consume PROVE RxInv'
      BY <1>t, <2>1 DEF RxInv
    <2>3. unread /\ "RX" \notin ip /\ Announced /\ Backlog
      BY <2>1, <2>2 DEF RxInv, Announced
    <2>4. /\ RxCount' = RxCount + 1
          /\ \A i \in RxSlots : i # rx_produce /\ Count(i, rx_consume, RxSize) < RxCount'
                                 => Count(i, rx_consume, RxSize) < RxCount
      BY <1>s, <2>1, <2>2, Push DEF RxCount, RxSlots, WrapRx
    <2>5. Stored' = Stored + 1 /\ Returned' = Returned /\ rxdata = Stored + 1
      BY <1>t, <2>1, <2>3 DEF Stored, Returned, RxInv
    <2>6. Returned + RxCount = Stored
      BY <2>1, <2>3 DEF Backlog
    <2>7. Announced'
      BY <2>1, <2>3 DEF Announced
    <2>8. ASSUME NEW i \in RxSlots, Count(i, rx_consume, RxSize) < RxCount'
          PROVE  rx_buf'[i] = Returned + Count(i, rx_consume, RxSize) + 1
      <3>1. CASE i = rx_produce
        BY <1>t, <2>1, <2>5, <2>6, <2>8, <3>1 DEF RxCount
      <3>2. CASE i # rx_produce
        BY <1>t, <2>1, <2>3, <2>4, <2>8, <3>2 DEF Backlog
      <3> QED BY <3>1, <3>2
    <2>9. Returned' + RxCount' = Stored'
      BY <1>t, <1>c, <2>4, <2>5, <2>6 DEF Returned, Stored
    <2>10. Backlog'
      BY <2>1, <2>5, <2>8, <2>9 DEF Backlog
    <2> QED BY <1>c, <2>1, <2>4, <2>7, <2>10 DEF RxInv
  <1>6. CASE ReadPoll
    <2>1. /\ phase = "app" /\ reading = "no" /\ reading' = "load" /\ rx_consume # rx_produce
          /\ UNCHANGED <<rxring, rxdata, unread, received, got, rx_lost, phase, isr, irqs, ip>>
      BY <1>6 DEF ReadPoll, cpu
    <2>2. Stored' = Stored /\ Returned' = Returned /\ RxCount' = RxCount /\ RxCount > 0
      BY <1>c, <2>1 DEF Stored, Returned, RxCount
    <2>3. Announced => Announced'
      BY <2>1 DEF Announced
    <2>4. Backlog => Backlog'
      BY <2>1, <2>2 DEF Backlog
    <2> QED BY <2>1, <2>2, <2>3, <2>4 DEF RxInv
  <1>7. CASE ReadLoad
    <2>1. /\ reading = "load" /\ reading' = "advance" /\ got' = rx_buf[rx_consume]
          /\ UNCHANGED <<rxring, rxdata, unread, received, rx_lost, phase, isr, irqs, ip>>
      BY <1>7 DEF ReadLoad, cpu
    <2>2. phase # "bios"
      BY <2>1 DEF RxInv
    <2>3. Stored' = Stored /\ RxCount' = RxCount /\ Returned = got /\ Returned' = rx_buf[rx_consume] - 1
      BY <2>1 DEF Stored, RxCount, Returned
    <2>4. SUFFICES ASSUME ~rx_lost PROVE RxInv'
      BY <2>1, <2>2 DEF RxInv
    <2>5. Announced'
      BY <2>1, <2>4 DEF Announced, RxInv
    <2>6. rx_buf[rx_consume] = got + 1
      <3>1. Count(rx_consume, rx_consume, RxSize) = 0 /\ rx_consume \in RxSlots
        BY <1>s DEF Count, RxSlots
      <3>2. RxCount > 0 /\ Backlog
        BY <2>1, <2>4 DEF RxInv
      <3> QED BY <1>t, <2>2, <2>3, <3>1, <3>2 DEF Backlog
    <2>7. Returned' = Returned
      BY <1>t, <2>3, <2>6
    <2>8. Backlog'
      BY <2>1, <2>2, <2>3, <2>4, <2>7 DEF Backlog, RxInv
    <2> QED BY <2>1, <2>2, <2>3, <2>4, <2>5, <2>8 DEF RxInv
  <1>8. CASE ReadAdvance
    <2> DEFINE d == WrapRx(rx_consume)
    <2>1. /\ reading = "advance" /\ reading' = "no" /\ rx_consume' = d
          /\ UNCHANGED <<rx_buf, rx_produce, rxdata, unread, received, got, rx_lost, phase, isr, irqs, ip>>
      BY <1>8 DEF ReadAdvance, cpu
    <2>2. phase # "bios"
      BY <2>1 DEF RxInv
    <2>3. SUFFICES ASSUME ~rx_lost PROVE RxInv'
      BY <2>1, <2>2 DEF RxInv
    <2>4. Announced' /\ Backlog /\ RxCount > 0
      BY <2>1, <2>3 DEF Announced, RxInv
    <2>5. /\ RxCount' = RxCount - 1
          /\ \A i \in RxSlots : Count(i, d, RxSize) < RxCount'
                                 => Count(i, rx_consume, RxSize) = Count(i, d, RxSize) + 1
      BY <1>s, <1>c, <2>1, <2>4, Pop DEF RxCount, RxSlots, WrapRx
    <2>6. Stored' = Stored /\ Returned' = Returned + 1
      BY <1>t, <2>1 DEF Stored, Returned
    <2>7. Returned + RxCount = Stored
      BY <2>2, <2>4 DEF Backlog
    <2>8. Returned' + RxCount' = Stored'
      BY <1>t, <1>c, <2>5, <2>6, <2>7 DEF Returned
    <2>9. ASSUME NEW i \in RxSlots, Count(i, d, RxSize) < RxCount'
          PROVE  rx_buf[i] = Returned' + Count(i, d, RxSize) + 1
      <3>1. Count(i, d, RxSize) \in Int /\ Count(i, d, RxSize) + 1 < RxCount
        BY <1>s, <1>c, <2>5, <2>9, WrapInRange DEF Count, RxSlots, WrapRx
      <3>2. Count(i, rx_consume, RxSize) = Count(i, d, RxSize) + 1
        BY <2>5, <2>9
      <3>3. rx_buf[i] = Returned + Count(i, rx_consume, RxSize) + 1
        BY <2>2, <2>4, <3>1, <3>2 DEF Backlog
      <3> QED BY <1>t, <2>6, <3>1, <3>2, <3>3 DEF Returned
    <2>10. Backlog'
      BY <2>1, <2>2, <2>8, <2>9 DEF Backlog
    <2> QED BY <2>1, <2>2, <2>3, <2>4, <2>10 DEF RxInv
  <1>9. CASE RebootJump
    <2>1. /\ isr = "idle" /\ phase = "sync" /\ phase' = "bios" /\ UNCHANGED <<isr, irqs, ip>>
          /\ rx_lost' = (rx_lost \/ rx_consume # rx_produce)
          /\ UNCHANGED <<rxring, reading, rxdata, unread, received, got>>
      BY <1>9 DEF RebootJump
    <2>2. reading = "no"
      BY <2>1 DEF RxInv, TypeOK
    <2>3. SUFFICES ASSUME ~rx_lost, rx_consume = rx_produce PROVE RxInv'
      BY <1>t, <2>1, <2>2 DEF RxInv
    <2>4. RxCount = 0 /\ Announced /\ Backlog
      BY <1>c, <2>1, <2>3 DEF RxInv
    <2>5. Stored' = Stored /\ Announced'
      BY <2>1, <2>4 DEF Announced, Stored
    <2>6. got = Stored
      BY <1>t, <2>1, <2>2, <2>4 DEF Backlog, Returned
    <2>7. Backlog'
      BY <2>1, <2>5, <2>6 DEF Backlog
    <2> QED BY <2>1, <2>2, <2>5, <2>7 DEF RxInv
  <1>10. CASE BiosPoll
    <2>1. /\ phase = "bios" /\ reading = "no" /\ reading' = "bios" /\ "RX" \in ip /\ "RX" \notin ip'
          /\ UNCHANGED <<rxring, rxdata, unread, received, got, rx_lost, phase, isr, irqs>>
      BY <1>10 DEF BiosPoll, cpu
    <2>2. Stored' = Stored /\ isr = "idle"
      BY <2>1 DEF Stored, RxInv
    <2>3. Announced => Announced'
      BY <2>1, <2>2 DEF Announced
    <2>4. Backlog => Backlog'
      BY <2>1, <2>2 DEF Backlog
    <2> QED BY <2>1, <2>2, <2>3, <2>4 DEF RxInv
  <1>11. CASE BiosRead
    <2>1. /\ reading = "bios" /\ reading' = "no" /\ got' = rxdata /\ unread' = FALSE
          /\ UNCHANGED <<rxring, rxdata, received, rx_lost, phase, isr, irqs, ip>>
      BY <1>11 DEF BiosRead, cpu
    <2>2. phase = "bios" /\ isr = "idle" /\ rxdata = received
      BY <2>1 DEF RxInv
    <2>3. Stored' = received
      BY <2>1 DEF Stored
    <2>4. Announced => Announced'
      BY <2>1, <2>2 DEF Announced
    <2>5. Backlog'
      BY <2>1, <2>2, <2>3 DEF Backlog
    <2> QED BY <2>1, <2>2, <2>4, <2>5 DEF RxInv
  <1> QED BY <1>1, <1>2, <1>3, <1>4, <1>5, <1>6, <1>7, <1>8, <1>9, <1>10, <1>11, RxSteps

-----------------------------------------------------------------------------
(* The sending half *)

LEMMA TxSteps ==
  ASSUME [Next]_vars
  PROVE  \/ /\ UNCHANGED <<tx, phase, im, isr, irqs>> /\ ("TX" \in ip' <=> "TX" \in ip)
         \/ Transmit \/ IsrEnter \/ IsrRxAck \/ IsrRxStore \/ IsrTx \/ IsrNoTx \/ IsrReturn
         \/ \E c \in Contexts : Write(c) \/ WriteStep(c)
         \/ Reboot \/ RebootFlush \/ RebootSync \/ RebootJump \/ BiosWrite
  <1>1. ASSUME Receive \/ Read \/ BiosPoll \/ BiosRead \/ UNCHANGED vars
        PROVE  UNCHANGED <<tx, phase, im, isr, irqs>> /\ ("TX" \in ip' <=> "TX" \in ip)
    BY <1>1 DEF Receive, Read, ReadPoll, ReadLoad, ReadAdvance, BiosPoll, BiosRead, cpu, vars
  <1> QED BY <1>1 DEF Next, Isr, Bios, Contexts

\* What has happened is not forgotten.
LEMMA NestedStays == TypeOK /\ nested /\ [Next]_vars => nested'
  <1> SUFFICES ASSUME TypeOK, nested, [Next]_vars PROVE nested'
    OBVIOUS
  <1> USE DEF tx, call
  <1>1. ASSUME NEW c \in Contexts, Write(c) PROVE nested'
    BY <1>1 DEF Write
  <1>2. ASSUME NEW c \in Contexts, WriteStep(c) PROVE nested'
    BY <1>2
    DEF WriteStep, WriteMask, WriteTest, WriteSend, WriteStore, WriteUnmask, SyncSend, SyncWait
  <1>3. CASE Transmit \/ IsrEnter \/ IsrRxAck \/ IsrRxStore \/ IsrTx \/ IsrNoTx \/ IsrReturn
    BY <1>3 DEF Transmit, IsrEnter, IsrRxAck, IsrRxStore, IsrTx, IsrNoTx, IsrReturn
  <1>4. CASE Reboot \/ RebootFlush \/ RebootSync \/ RebootJump \/ BiosWrite
    BY <1>4 DEF Reboot, RebootFlush, RebootSync, RebootJump, BiosWrite
  <1> QED BY <1>1, <1>2, <1>3, <1>4, TxSteps

LEMMA NextCalls == ~nested' /\ TypeOK /\ Calls /\ Transmitter /\ [Next]_vars => Calls'
  <1> SUFFICES ASSUME ~nested', TypeOK, Calls, Transmitter, [Next]_vars PROVE Calls'
    OBVIOUS
  <1> USE DEF tx, cpu, call, txring, Lock, Locked, Contexts
  <1>t. /\ writing \in [Contexts -> {"no", "mask", "cts", "send", "store", "sync", "wait", "unmask"}]
        /\ oldmask \in [Contexts -> SUBSET {"RX", "TX"}] /\ ip \subseteq {"RX", "TX"}
        /\ isr \in {"idle", "rx", "rxread", "tx", "print"}
        /\ phase \in {"app", "flush", "flushed", "sync", "bios"}
    BY DEF TypeOK
  <1>1. CASE UNCHANGED <<tx, phase, im, isr, irqs>> /\ ("TX" \in ip' <=> "TX" \in ip)
    BY <1>1 DEF Calls
  <1>2. CASE Transmit
    BY <1>2 DEF Transmit, Calls
  <1>3. CASE IsrEnter
    BY <1>3, <1>t DEF IsrEnter, Calls
  <1>4. CASE IsrRxAck
    BY <1>4 DEF IsrRxAck, Calls
  <1>5. CASE IsrRxStore
    BY <1>5 DEF IsrRxStore, Calls
  <1>6. CASE IsrTx
    BY <1>6 DEF IsrTx, Calls
  <1>7. CASE IsrNoTx \/ IsrReturn
    BY <1>7 DEF IsrNoTx, IsrReturn, Calls
  <1>8. ASSUME NEW c \in Contexts, Write(c) PROVE Calls'
    <2>1. /\ writing[c] = "no" /\ writing' = [writing EXCEPT ![c] = "mask"]
          /\ oldmask' = [oldmask EXCEPT ![c] = im]
          /\ UNCHANGED <<force_sync, phase, im, isr, irqs, ip>>
      BY <1>8 DEF Write
    <2>2. CASE c = "main"
      <3>1. isr = "idle" /\ phase = "app"
        BY <1>8, <2>2 DEF Write, Runs
      <3> QED BY <1>t, <2>1, <2>2, <3>1 DEF Calls
    <2>3. CASE c = "isr"
      <3>1. isr = "print" /\ writing["main"] = "no" /\ phase # "flushed"
        BY <1>8, <2>3 DEF Write, Runs, MainInside
      <3> QED BY <1>t, <2>1, <2>3, <3>1 DEF Calls
    <2> QED BY <2>2, <2>3
  <1>9. ASSUME NEW c \in Contexts, WriteStep(c) PROVE Calls'
    <2> DEFINE d == IF c = "main" THEN "isr" ELSE "main"
    <2>1. /\ writing[c] # "no" /\ writing[d] = "no" /\ d \in Contexts /\ d # c
          /\ c = "main" => isr = "idle"
          /\ c = "isr" => isr = "print"
          /\ UNCHANGED <<force_sync, oldmask, phase, isr, irqs>>
      BY <1>9 DEF WriteStep, WriteMask, WriteTest, WriteSend, WriteStore, WriteUnmask, SyncSend,
                  SyncWait, Calls, Runs
    <2>2. CASE WriteMask(c)
      BY <1>t, <2>1, <2>2 DEF WriteMask, Calls
    <2>3. CASE WriteTest(c) \/ WriteSend(c) \/ WriteStore(c) \/ SyncSend(c)
      <3>1. /\ writing'[d] = "no" /\ Locked(c) /\ Locked(c)' /\ UNCHANGED <<im, ip>>
            /\ IF SyncSend(c) THEN writing[c] = "sync" /\ writing'[c] = "wait"
               ELSE writing[c] \in {"cts", "send", "store"} /\ writing'[c] \in {"send", "store", "unmask"}
        BY <1>t, <2>1, <2>3 DEF WriteTest, WriteSend, WriteStore, SyncSend
      <3> QED BY <1>t, <2>1, <3>1 DEF Calls
    <2>4. CASE WriteUnmask(c)
      BY <1>t, <2>1, <2>4 DEF WriteUnmask, Calls
    <2>5. CASE SyncWait(c)
      <3>1. /\ writing[c] = "wait" /\ writing'[c] = (IF phase = "bios" THEN "no" ELSE "unmask")
            /\ writing'[d] = "no" /\ im' = im
        BY <1>t, <2>1, <2>5 DEF SyncWait
      <3> QED BY <1>t, <2>1, <3>1 DEF Calls
    <2> QED BY <1>9, <2>2, <2>3, <2>4, <2>5 DEF WriteStep
  <1>10. CASE Reboot
    BY <1>10 DEF Reboot, Calls
  <1>11. CASE RebootFlush
    BY <1>11, <1>t DEF RebootFlush, Calls
  <1>14. CASE RebootSync
    BY <1>14, <1>t DEF RebootSync, Calls
  <1>12. CASE RebootJump
    BY <1>12 DEF RebootJump, Calls
  <1>13. CASE BiosWrite
    BY <1>13, <1>t DEF BiosWrite, Calls
  <1> QED BY <1>1, <1>2, <1>3, <1>4, <1>5, <1>6, <1>7, <1>8, <1>9, <1>10, <1>11, <1>14, <1>12, <1>13, TxSteps

LEMMA NextFlushed == TypeOK /\ Calls /\ Flushed /\ [Next]_vars => Flushed'
  <1> SUFFICES ASSUME TypeOK, Calls, Flushed, [Next]_vars PROVE Flushed'
    OBVIOUS
  <1> USE DEF tx, cpu, call, txring, Flushed
  <1>1. CASE UNCHANGED <<tx, phase, im, isr, irqs>>
    BY <1>1
  <1>2. CASE Transmit \/ IsrEnter \/ IsrRxAck \/ IsrRxStore \/ IsrNoTx \/ IsrReturn
    BY <1>2 DEF Transmit, IsrEnter, IsrRxAck, IsrRxStore, IsrNoTx, IsrReturn
  <1>3. CASE IsrTx
    BY <1>3 DEF IsrTx
  <1>4. ASSUME NEW c \in Contexts, Write(c) \/ WriteStep(c) PROVE Flushed'
    <2>1. phase = "flushed" => ~WriteSend(c)
      BY DEF WriteSend, Calls, Contexts
    <2> QED BY <1>4, <2>1
            DEF Write, WriteStep, WriteMask, WriteTest, WriteStore, WriteUnmask, SyncSend, SyncWait,
                WriteSend
  <1>5. CASE Reboot \/ RebootFlush \/ RebootSync \/ RebootJump \/ BiosWrite
    BY <1>5 DEF Reboot, RebootFlush, RebootSync, RebootJump, BiosWrite
  <1> QED BY <1>1, <1>2, <1>3, <1>4, <1>5, TxSteps

LEMMA NextTransmitter ==
  ~nested' /\ TypeOK /\ Calls /\ Flushed /\ Transmitter /\ [Next]_vars => Transmitter'
  <1> SUFFICES ASSUME ~nested', TypeOK, Calls, Flushed, Transmitter, [Next]_vars PROVE Transmitter'
    OBVIOUS
  <1> USE DEF tx, cpu, call, txring, Waits, Contexts
  <1>t. /\ writing \in [Contexts -> {"no", "mask", "cts", "send", "store", "sync", "wait", "unmask"}]
        /\ ip \subseteq {"RX", "TX"} /\ tx_cts \in BOOLEAN
    BY DEF TypeOK
  <1>1. CASE UNCHANGED <<tx, phase, im, isr, irqs>> /\ ("TX" \in ip' <=> "TX" \in ip)
    BY <1>1 DEF Transmitter
  <1>2. CASE Transmit
    BY <1>2 DEF Transmit, Transmitter
  <1>3. CASE IsrEnter \/ IsrRxAck \/ IsrRxStore \/ IsrNoTx \/ IsrReturn
    <2>1. UNCHANGED tx /\ ("TX" \in ip' <=> "TX" \in ip)
      BY <1>3 DEF IsrEnter, IsrRxAck, IsrRxStore, IsrNoTx, IsrReturn
    <2> QED BY <2>1 DEF Transmitter
  <1>4. CASE IsrTx
    <2>1. /\ "TX" \in ip /\ "TX" \notin ip' /\ txd = 0 /\ ~Waits /\ ~tx_cts
          /\ UNCHANGED <<tx_produce, force_sync, writing>>
      BY <1>4, <1>t DEF IsrTx, Calls, Transmitter, Locked
    <2>2. /\ ~force_sync
          /\ \A c \in Contexts : writing[c] # "send"
      BY <2>1 DEF Transmitter
    <2>3. \A c \in Contexts : writing[c] # "store"
      BY <1>4 DEF IsrTx, Calls, Locked
    <2>4. CASE tx_produce # tx_consume
      <3>1. tx_cts' = tx_cts
        BY <1>4, <2>4 DEF IsrTx
      <3> QED BY <2>1, <2>2, <2>3, <3>1 DEF Transmitter
    <2>5. CASE tx_produce = tx_consume
      <3>1. tx_cts' = TRUE /\ txd' = txd /\ tx_consume' = tx_consume
        BY <1>4, <2>5 DEF IsrTx
      <3> QED BY <2>1, <2>2, <2>3, <2>5, <3>1 DEF Transmitter
    <2> QED BY <2>4, <2>5
  <1>5. ASSUME NEW c \in Contexts, Write(c) PROVE Transmitter'
    <2>1. /\ writing[c] = "no" /\ writing' = [writing EXCEPT ![c] = "mask"]
          /\ UNCHANGED <<txring, tx_cts, force_sync, txd, ip>>
      BY <1>5 DEF Write
    <2> QED BY <1>t, <2>1 DEF Transmitter
  <1>6. ASSUME NEW c \in Contexts, WriteStep(c) PROVE Transmitter'
    <2> DEFINE d == IF c = "main" THEN "isr" ELSE "main"
    <2>1. writing[c] # "no" /\ writing[d] = "no" /\ d \in Contexts /\ d # c /\ force_sync' = force_sync
      BY <1>6 DEF WriteStep, WriteMask, WriteTest, WriteSend, WriteStore, WriteUnmask, SyncSend,
                  SyncWait, Calls
    <2>2. CASE WriteMask(c) \/ WriteTest(c) \/ WriteUnmask(c)
      <3>1. /\ writing[c] # "wait" /\ writing'[c] \in {"sync", "cts", "send", "store", "no"}
            /\ writing'[c] = "send" => tx_cts
            /\ writing'[c] = "store" => ~tx_cts
            /\ writing'[d] = "no" /\ UNCHANGED <<txring, tx_cts, txd, ip>>
        BY <1>t, <2>1, <2>2 DEF WriteMask, WriteTest, WriteUnmask
      <3> QED BY <1>t, <2>1, <3>1 DEF Transmitter
    <2>3. CASE WriteSend(c)
      <3>1. /\ writing[c] = "send" /\ writing'[c] = "unmask" /\ writing'[d] = "no"
            /\ tx_cts' = FALSE /\ UNCHANGED <<txring, ip>>
        BY <1>t, <2>1, <2>3 DEF WriteSend
      <3>2. tx_cts /\ "TX" \notin ip /\ ~force_sync
        BY <2>1, <3>1 DEF Transmitter, Calls
      <3> QED BY <2>1, <3>1, <3>2 DEF Transmitter
    <2>4. CASE WriteStore(c)
      <3>1. /\ writing[c] = "store" /\ writing'[c] = "unmask" /\ writing'[d] = "no"
            /\ UNCHANGED <<tx_cts, txd, ip>>
        BY <1>t, <2>1, <2>4 DEF WriteStore
      <3>2. ~tx_cts
        BY <2>1, <3>1 DEF Transmitter
      <3> QED BY <2>1, <3>1, <3>2 DEF Transmitter
    <2>5. CASE SyncSend(c)
      <3>1. /\ writing[c] = "sync" /\ writing'[c] = "wait" /\ writing'[d] = "no"
            /\ UNCHANGED <<txring, tx_cts, ip>>
        BY <1>t, <2>1, <2>5 DEF SyncSend
      <3>2. tx_cts /\ "TX" \notin ip
        BY <2>1, <3>1 DEF Transmitter, Calls
      <3> QED BY <2>1, <3>1, <3>2 DEF Transmitter
    <2>6. CASE SyncWait(c)
      <3>1. /\ writing[c] = "wait" /\ writing'[c] \in {"no", "unmask"} /\ writing'[d] = "no"
            /\ "TX" \in ip /\ "TX" \notin ip' /\ UNCHANGED <<txring, tx_cts, txd>>
        BY <1>t, <2>1, <2>6 DEF SyncWait
      <3> QED BY <2>1, <3>1 DEF Transmitter
    <2> QED BY <1>6, <2>2, <2>3, <2>4, <2>5, <2>6 DEF WriteStep
  <1>7. CASE Reboot \/ RebootJump
    <2>1. UNCHANGED <<tx, ip>>
      BY <1>7 DEF Reboot, RebootJump
    <2> QED BY <2>1 DEF Transmitter
  <1>8. CASE RebootFlush \/ RebootSync
    BY <1>8 DEF RebootFlush, RebootSync, Flushed, Transmitter
  <1>9. CASE BiosWrite
    <2>1. /\ writing["main"] = "no" /\ writing' = [writing EXCEPT !["main"] = "sync"]
          /\ UNCHANGED <<txring, tx_cts, force_sync, txd, ip>>
      BY <1>9 DEF BiosWrite
    <2> QED BY <1>t, <2>1 DEF Transmitter
  <1> QED BY <1>1, <1>2, <1>3, <1>4, <1>5, <1>6, <1>7, <1>8, <1>9, TxSteps

LEMMA NextOrder == ~nested' /\ TypeOK /\ TxInv /\ [Next]_vars => Order'
  <1> SUFFICES ASSUME ~nested', TypeOK, TxInv, [Next]_vars PROVE Order'
    OBVIOUS
  <1>k. Calls /\ Transmitter /\ Order
    BY DEF TxInv
  <1> USE DEF Contexts, Putting
  <1>t. /\ writing \in [Contexts -> {"no", "mask", "cts", "send", "store", "sync", "wait", "unmask"}]
        /\ tx_cts \in BOOLEAN /\ tx_lost \in BOOLEAN /\ txd \in Nat /\ wired \in Nat /\ written \in Nat
        /\ char \in [Contexts -> Nat] /\ tx_buf \in [TxSlots -> Nat]
    BY DEF TypeOK, TxSlots
  <1>s. TxSize \in Nat \ {0, 1} /\ tx_produce \in 0..(TxSize - 1) /\ tx_consume \in 0..(TxSize - 1)
    BY SizeAssumption DEF TypeOK
  <1>c. TxCount \in 0..(TxSize - 1) /\ (TxCount = 0 <=> tx_produce = tx_consume)
    BY <1>s, Counts DEF TxCount
  <1>1. CASE UNCHANGED tx
    <2>1. Sent' = Sent /\ TxCount' = TxCount /\ InCall' = InCall
      BY <1>1 DEF tx, txring, call, Sent, TxCount, InCall
    <2> QED BY <1>1, <1>k, <2>1 DEF tx, txring, call, Order
  <1>2. CASE Transmit
    <2>1. /\ txd # 0 /\ wired' = txd /\ txd' = 0
          /\ UNCHANGED <<tx_buf, tx_produce, tx_consume, writing, char, written, tx_lost>>
      BY <1>2 DEF Transmit, txring, call
    <2>2. TxCount' = TxCount /\ InCall' = InCall
      BY <2>1 DEF TxCount, InCall
    <2>3. ~tx_lost => Sent' = Sent
      BY <1>k, <2>1 DEF Sent, Order
    <2> QED BY <1>k, <2>1, <2>2, <2>3 DEF Order
  <1>3. CASE IsrEnter \/ IsrRxAck \/ IsrRxStore \/ IsrNoTx \/ IsrReturn
    BY <1>1, <1>3 DEF IsrEnter, IsrRxAck, IsrRxStore, IsrNoTx, IsrReturn
  <1>4. CASE IsrTx
    <2>1. UNCHANGED <<tx_buf, tx_produce, writing, char, wired, written, tx_lost>> /\ txd = 0
      BY <1>4, <1>k DEF IsrTx, call, Calls, Transmitter
    <2>2. CASE tx_produce = tx_consume
      <3>1. UNCHANGED <<txd, tx_consume>>
        BY <1>4, <2>2 DEF IsrTx
      <3>2. Sent' = Sent /\ TxCount' = TxCount /\ InCall' = InCall
        BY <2>1, <3>1 DEF Sent, TxCount, InCall
      <3> QED BY <1>k, <2>1, <3>1, <3>2 DEF Order
    <2>3. CASE tx_produce # tx_consume
      <3> DEFINE d == WrapTx(tx_consume)
      <3>1. txd' = tx_buf[tx_consume] /\ tx_consume' = d
        BY <1>4, <2>3 DEF IsrTx
      <3>2. /\ TxCount' = TxCount - 1 /\ d \in 0..(TxSize - 1)
            /\ \A i \in TxSlots : Count(i, d, TxSize) < TxCount'
                                   => Count(i, tx_consume, TxSize) = Count(i, d, TxSize) + 1
        BY <1>s, <2>1, <2>3, <3>1, Pop DEF TxCount, TxSlots, WrapTx
      <3>3. InCall' = InCall
        BY <2>1 DEF InCall
      <3>4. SUFFICES ASSUME ~tx_lost PROVE Order'
        BY <1>k, <2>1 DEF Order
      <3>5. Sent = wired /\ Sent + TxCount + InCall = written
        BY <1>k, <2>1, <3>4 DEF Sent, Order
      <3>6. txd' = wired + 1
        <4>1. Count(tx_consume, tx_consume, TxSize) = 0 /\ tx_consume \in TxSlots
          BY <1>s DEF Count, TxSlots
        <4>2. Count(tx_consume, tx_consume, TxSize) < TxCount
          BY <1>c, <2>3, <4>1
        <4>3. tx_buf[tx_consume] = Sent + Count(tx_consume, tx_consume, TxSize) + 1
          BY <1>k, <3>4, <4>1, <4>2 DEF Order
        <4> QED BY <1>t, <3>1, <3>5, <4>1, <4>3
      <3>7. Sent' = Sent + 1
        BY <1>t, <2>1, <3>5, <3>6 DEF Sent
      <3>8. ASSUME NEW i \in TxSlots, Count(i, d, TxSize) < TxCount'
            PROVE  tx_buf[i] = Sent' + Count(i, d, TxSize) + 1
        <4>1. Count(i, d, TxSize) \in Int
          BY <1>s, <3>2 DEF Count, TxSlots
        <4>2. Count(i, tx_consume, TxSize) = Count(i, d, TxSize) + 1
          BY <3>2, <3>8
        <4>3. Count(i, tx_consume, TxSize) < TxCount
          BY <1>c, <3>2, <3>8, <4>1, <4>2
        <4>4. tx_buf[i] = Sent + Count(i, tx_consume, TxSize) + 1
          BY <1>k, <3>4, <4>3 DEF Order
        <4> QED BY <1>t, <3>5, <3>7, <4>1, <4>2, <4>4
      <3>9. Sent' + TxCount' + InCall' = written'
        BY <1>t, <1>c, <2>1, <3>2, <3>3, <3>5, <3>7 DEF InCall
      <3> QED BY <1>k, <2>1, <3>1, <3>6, <3>8, <3>9 DEF Order
    <2> QED BY <2>2, <2>3
  <1>5. ASSUME NEW c \in Contexts, Write(c) PROVE Order'
    <2>1. /\ writing[c] = "no" /\ writing' = [writing EXCEPT ![c] = "mask"]
          /\ written' = written + 1 /\ char' = [char EXCEPT ![c] = written + 1]
          /\ UNCHANGED <<tx_buf, tx_produce, tx_consume, txd, wired, tx_lost>>
      BY <1>5 DEF Write, txring
    <2>2. /\ \A d \in Contexts : d # c => writing[d] = "no" /\ writing'[d] = "no"
          /\ writing'[c] = "mask" /\ char'[c] = written + 1
      <3>1. \A d \in Contexts : d # c => writing[d] = "no"
        BY <1>5, <1>k DEF Write, Runs, MainInside, Calls
      <3> QED BY <1>t, <2>1, <3>1
    <2>3. Sent' = Sent /\ TxCount' = TxCount /\ InCall = 0 /\ InCall' = 1
      BY <2>1, <2>2 DEF Sent, TxCount, InCall
    <2>4. \A d \in Contexts : Putting(d)' => char'[d] = written' /\ written' > 0
      BY <1>t, <2>1, <2>2
    <2>5. ~tx_lost => Sent' + TxCount' + InCall' = written'
      BY <1>k, <1>t, <1>c, <2>1, <2>3 DEF Order, Sent
    <2> QED BY <1>k, <2>1, <2>3, <2>4, <2>5 DEF Order
  <1>6. ASSUME NEW c \in Contexts, WriteStep(c) PROVE Order'
    <2> DEFINE d == IF c = "main" THEN "isr" ELSE "main"
    <2>1. /\ writing[c] # "no" /\ writing[d] = "no" /\ writing'[d] = "no" /\ Contexts = {c, d}
          /\ UNCHANGED <<char, written, wired>>
      BY <1>6, <1>k, <1>t
      DEF WriteStep, WriteMask, WriteTest, WriteSend, WriteStore, WriteUnmask, SyncSend, SyncWait,
          Calls, call
    <2>2. Putting(c) => char[c] = written /\ written > 0
      BY <1>k DEF Order
    <2>3. InCall = (IF Putting(c) THEN 1 ELSE 0) /\ InCall' = (IF Putting(c)' THEN 1 ELSE 0)
      BY <2>1 DEF InCall
    <2>4. CASE WriteMask(c) \/ WriteTest(c) \/ WriteUnmask(c) \/ SyncWait(c)
      <3>1. /\ Putting(c)' <=> Putting(c)
            /\ UNCHANGED <<tx_buf, tx_produce, tx_consume, txd, tx_lost>>
        BY <1>t, <2>4 DEF WriteMask, WriteTest, WriteUnmask, SyncWait, txring
      <3>2. Sent' = Sent /\ TxCount' = TxCount
        BY <2>1, <3>1 DEF Sent, TxCount
      <3> QED BY <1>k, <2>1, <2>3, <3>1, <3>2 DEF Order
    <2>5. CASE WriteSend(c) \/ SyncSend(c)
      <3>1. /\ writing[c] \in {"send", "sync"} /\ writing'[c] \in {"unmask", "wait"} /\ txd' = char[c]
            /\ UNCHANGED <<tx_buf, tx_produce, tx_consume, tx_lost>>
        BY <1>t, <2>5 DEF WriteSend, SyncSend, txring
      <3>2. tx_cts /\ ~Waits
        BY <1>k, <2>1, <3>1 DEF Calls, Transmitter, Waits
      <3>3. TxCount = 0 /\ txd = 0
        BY <1>c, <1>k, <3>2 DEF Transmitter
      <3>4. txd' = written /\ written > 0 /\ TxCount' = 0 /\ Sent = wired /\ Sent' = wired + 1
        BY <2>1, <2>2, <3>1, <3>3 DEF TxCount, Sent
      <3>5. ~tx_lost => written = wired + 1
        BY <1>k, <1>t, <2>3, <3>1, <3>3, <3>4 DEF Order
      <3>6. InCall' = 0 /\ ~Putting(c)'
        BY <2>3, <3>1
      <3>7. \A i \in TxSlots : ~(Count(i, tx_consume, TxSize) < 0)
        BY <1>s DEF Count, TxSlots
      <3> QED BY <1>t, <2>1, <3>1, <3>4, <3>5, <3>6, <3>7 DEF Order
    <2>6. CASE WriteStore(c)
      <3> DEFINE q == WrapTx(tx_produce)
      <3>1. /\ writing[c] = "store" /\ writing'[c] = "unmask"
            /\ tx_buf' = [tx_buf EXCEPT ![tx_produce] = char[c]] /\ tx_produce' = q
            /\ tx_lost' = (tx_lost \/ q = tx_consume) /\ UNCHANGED <<tx_consume, txd>>
        BY <1>t, <2>6 DEF WriteStore
      <3>2. InCall = 1 /\ InCall' = 0 /\ ~Putting(c)' /\ ~Putting(d)' /\ Sent' = Sent
        BY <2>1, <2>3, <3>1 DEF Sent
      <3>3. SUFFICES ASSUME ~tx_lost, q # tx_consume PROVE Order'
        BY <1>t, <2>1, <3>1, <3>2 DEF Order
      <3>4. /\ TxCount' = TxCount + 1
            /\ \A i \in TxSlots : i # tx_produce /\ Count(i, tx_consume, TxSize) < TxCount'
                                   => Count(i, tx_consume, TxSize) < TxCount
        BY <1>s, <3>1, <3>3, Push DEF TxCount, TxSlots, WrapTx
      <3>5. Sent + TxCount + 1 = written /\ char[c] = written /\ Sent \in Nat
        BY <1>k, <1>t, <2>2, <3>1, <3>2, <3>3 DEF Order, Sent
      <3>6. ASSUME NEW i \in TxSlots, Count(i, tx_consume, TxSize) < TxCount'
            PROVE  tx_buf'[i] = Sent + Count(i, tx_consume, TxSize) + 1
        <4>1. CASE i = tx_produce
          BY <1>t, <1>c, <3>1, <3>5, <3>6, <4>1 DEF TxCount
        <4>2. CASE i # tx_produce
          BY <1>k, <1>t, <3>1, <3>3, <3>4, <3>6, <4>2 DEF Order
        <4> QED BY <4>1, <4>2
      <3>7. Sent' + TxCount' + InCall' = written'
        BY <1>c, <2>1, <3>2, <3>4, <3>5
      <3> QED BY <1>k, <2>1, <3>1, <3>2, <3>3, <3>6, <3>7 DEF Order
    <2> QED BY <1>6, <2>4, <2>5, <2>6 DEF WriteStep
  <1>7. CASE Reboot \/ RebootFlush \/ RebootJump
    BY <1>1, <1>7 DEF Reboot, RebootFlush, RebootJump
  <1>8. CASE RebootSync
    <2>1. UNCHANGED <<tx_buf, tx_produce, tx_consume, txd, writing, char, written, wired, tx_lost>>
      BY <1>8 DEF RebootSync, txring, call
    <2>2. Sent' = Sent /\ TxCount' = TxCount /\ InCall' = InCall
      BY <2>1 DEF Sent, TxCount, InCall
    <2> QED BY <1>k, <2>1, <2>2 DEF Order
  <1>9. CASE BiosWrite
    <2>1. /\ writing["main"] = "no" /\ writing' = [writing EXCEPT !["main"] = "sync"]
          /\ written' = written + 1 /\ char' = [char EXCEPT !["main"] = written + 1]
          /\ UNCHANGED <<tx_buf, tx_produce, tx_consume, txd, wired, tx_lost>>
      BY <1>9 DEF BiosWrite, txring
    <2>2. /\ writing["isr"] = "no" /\ writing'["isr"] = "no"
          /\ writing'["main"] = "sync" /\ char'["main"] = written + 1
      BY <1>9, <1>k, <1>t, <2>1 DEF BiosWrite, Calls
    <2>3. Sent' = Sent /\ TxCount' = TxCount /\ InCall = 0 /\ InCall' = 1
      BY <2>1, <2>2 DEF Sent, TxCount, InCall
    <2>4. \A c \in Contexts : Putting(c)' => char'[c] = written' /\ written' > 0
      BY <1>t, <2>1, <2>2
    <2>5. ~tx_lost => Sent' + TxCount' + InCall' = written'
      BY <1>k, <1>t, <1>c, <2>1, <2>3 DEF Order, Sent
    <2> QED BY <1>k, <2>1, <2>3, <2>4, <2>5 DEF Order
  <1>10. CASE UNCHANGED <<tx, phase, im, isr, irqs>>
    BY <1>1, <1>10
  <1> QED BY <1>2, <1>3, <1>4, <1>5, <1>6, <1>7, <1>8, <1>9, <1>10, TxSteps

LEMMA InitInv == Init => IInv
  <1> SUFFICES ASSUME Init PROVE IInv
    OBVIOUS
  <1>1. TypeOK
    BY InitTypes
  <1>2. RxInv
    BY SizeAssumption DEF Init, RxInv, Announced, Backlog, Stored, Returned, RxCount, RxSlots, Count
  <1>3. Calls /\ Flushed /\ Transmitter
    BY DEF Init, Calls, Flushed, Transmitter, Contexts, Waits, Lock, Locked
  <1>4. Order
    BY SizeAssumption DEF Init, Order, Contexts, Putting, InCall, Sent, TxCount, TxSlots, Count
  <1> QED BY <1>1, <1>2, <1>3, <1>4 DEF IInv, TxInv

LEMMA Invariant == Spec => []IInv
  <1>1. IInv /\ [Next]_vars => IInv'
    <2> SUFFICES ASSUME IInv, [Next]_vars PROVE IInv'
      OBVIOUS
    <2>1. TypeOK' /\ RxInv'
      BY NextTypes, NextRx DEF IInv
    <2>2. ~nested' => TxInv'
      BY NestedStays, NextCalls, NextFlushed, NextTransmitter, NextOrder DEF IInv, TxInv
    <2> QED BY <2>1, <2>2 DEF IInv
  <1> QED BY InitInv, <1>1, PTL DEF Spec

-----------------------------------------------------------------------------
(* Theorems *)

\* TypeOK always holds: the indices of both rings stay inside them, overfilled or not.
THEOREM TypeCorrect == Spec => []TypeOK
  <1>1. IInv => TypeOK
    BY DEF IInv
  <1> QED BY Invariant, <1>1, PTL

\* ReadInOrder holds of every step, whatever the handlers print: readchar, without a
\* lock, and the boot loader's readchar after it return the characters once each, in
\* the order received, until one was lost.
THEOREM ReadsInOrder == Spec => ReadInOrder
  <1>1. ASSUME IInv, [Next]_vars, got' # got, ~rx_lost' PROVE got' = got + 1
    <2>i. TypeOK /\ RxInv
      BY <1>1 DEF IInv
    <2>s. RxSize \in Nat \ {0, 1} /\ rx_consume \in RxSlots /\ got \in Nat /\ received \in Nat
      BY <2>i, SizeAssumption DEF TypeOK, RxSlots
    <2>1. CASE UNCHANGED rx \/ Receive \/ IsrEnter \/ IsrRxAck \/ IsrRxStore
      BY <1>1, <2>1 DEF rx, Receive, IsrEnter, IsrRxAck, IsrRxStore
    <2>2. CASE ReadPoll \/ ReadAdvance \/ RebootJump \/ BiosPoll
      BY <1>1, <2>2 DEF ReadPoll, ReadAdvance, RebootJump, BiosPoll
    <2>3. CASE ReadLoad
      <3>1. reading = "load" /\ got' = rx_buf[rx_consume] /\ ~rx_lost
        BY <1>1, <2>3 DEF ReadLoad
      <3>2. phase = "app" /\ Backlog /\ RxCount > 0 /\ Returned = got
        BY <2>i, <3>1 DEF RxInv, Returned
      <3>3. Count(rx_consume, rx_consume, RxSize) = 0
        BY <2>s DEF Count, RxSlots
      <3>4. rx_buf[rx_consume] = Returned + Count(rx_consume, rx_consume, RxSize) + 1
        BY <2>s, <3>2, <3>3 DEF Backlog
      <3> QED BY <2>s, <3>1, <3>2, <3>3, <3>4
    <2>4. CASE BiosRead
      <3>1. reading = "bios" /\ got' = received /\ ~rx_lost
        BY <1>1, <2>i, <2>4 DEF BiosRead, RxInv
      <3>2. unread /\ got = received - 1
        BY <2>i, <3>1 DEF RxInv, Announced, Backlog, Stored
      <3> QED BY <2>s, <3>1, <3>2
    <2> QED BY <1>1, <2>1, <2>2, <2>3, <2>4, RxSteps
  <1>2. IInv /\ [Next]_vars => [got' # got /\ ~rx_lost' => got' = got + 1]_vars
    BY <1>1
  <1> QED BY Invariant, <1>2, PTL DEF Spec, ReadInOrder

\* WaitsForTransmitter holds of every step: until a handler has printed inside the main
\* program's writechar or behind uart_force_sync's wait, neither driver writes the data
\* register of a busy transmitter.  (Afterwards it is: see the run UartNested.)
THEOREM WaitsUntilNested == Spec => WaitsForTransmitter
  <1>1. ASSUME IInv, [Next]_vars, ~nested, txd' # 0, txd' # txd PROVE txd = 0
    <2>k. Calls /\ Transmitter
      BY <1>1 DEF IInv, TxInv
    <2>1. CASE UNCHANGED tx \/ Transmit \/ IsrEnter \/ IsrRxAck \/ IsrRxStore \/ IsrNoTx \/ IsrReturn
      BY <1>1, <2>1 DEF tx, Transmit, IsrEnter, IsrRxAck, IsrRxStore, IsrNoTx, IsrReturn
    <2>2. CASE IsrTx
      BY <2>2, <2>k DEF IsrTx, Calls, Transmitter
    <2>3. ASSUME NEW c \in Contexts, Write(c) \/ WriteStep(c) PROVE txd = 0
      <3>1. WriteSend(c) \/ SyncSend(c)
        BY <1>1, <2>3 DEF Write, WriteStep, WriteMask, WriteTest, WriteStore, WriteUnmask, SyncWait
      <3>2. writing[c] \in {"send", "sync"}
        BY <3>1 DEF WriteSend, SyncSend
      <3> QED BY <2>k, <3>2 DEF Calls, Transmitter, Waits, Contexts
    <2>4. CASE Reboot \/ RebootFlush \/ RebootSync \/ RebootJump \/ BiosWrite
      BY <1>1, <2>4 DEF Reboot, RebootFlush, RebootSync, RebootJump, BiosWrite, tx
    <2> QED BY <1>1, <2>1, <2>2, <2>3, <2>4, TxSteps
  <1>2. IInv /\ [Next]_vars => [~nested /\ txd' # 0 /\ txd' # txd => txd = 0]_vars
    BY <1>1
  <1> QED BY Invariant, <1>2, PTL DEF Spec, WaitsForTransmitter

\* SentInOrder holds of every step: until such a call, and until a ring was overfilled, the
\* line carries the characters written once each and in order, also across the reboot into
\* the polled driver.
THEOREM SendsInOrderUntilNested == Spec => SentInOrder
  <1>1. ASSUME IInv, [Next]_vars, wired' # wired, ~tx_lost, ~nested PROVE wired' = wired + 1
    <2>k. Order
      BY <1>1 DEF IInv, TxInv
    <2>1. CASE UNCHANGED tx \/ IsrEnter \/ IsrRxAck \/ IsrRxStore \/ IsrTx \/ IsrNoTx \/ IsrReturn
      BY <1>1, <2>1 DEF tx, IsrEnter, IsrRxAck, IsrRxStore, IsrTx, IsrNoTx, IsrReturn
    <2>2. CASE Transmit
      BY <1>1, <2>2, <2>k DEF Transmit, Order
    <2>3. ASSUME NEW c \in Contexts, Write(c) \/ WriteStep(c) PROVE FALSE
      BY <1>1, <2>3 DEF Write, WriteStep, WriteMask, WriteTest, WriteSend, WriteStore, WriteUnmask,
                        SyncSend, SyncWait
    <2>4. CASE Reboot \/ RebootFlush \/ RebootSync \/ RebootJump \/ BiosWrite
      BY <1>1, <2>4 DEF Reboot, RebootFlush, RebootSync, RebootJump, BiosWrite, tx
    <2> QED BY <1>1, <2>1, <2>2, <2>3, <2>4, TxSteps
  <1>2. IInv /\ [Next]_vars => [wired' # wired /\ ~tx_lost /\ ~nested => wired' = wired + 1]_vars
    BY <1>1
  <1> QED BY Invariant, <1>2, PTL DEF Spec, SentInOrder

=============================================================================
