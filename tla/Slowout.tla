------------------------------ MODULE Slowout ------------------------------
(***************************************************************************)
(* The queue of slow outputs (libhal/slowout.c), whose operations timer 1  *)
(* of the system controller ends one after the other, and the character    *)
(* display (libhal/hdlcd.c), which is sent a byte as two nibbles of three  *)
(* operations each.                                                        *)
(*                                                                         *)
(* Two send: the main program, with the shell's commands, and the          *)
(* interrupt handler, with the ticks and the keys of the front panel.  The *)
(* queue is guarded by the mask of timer 1's interrupt, which keeps        *)
(* slowout_isr out and no other handler.  The handler runs to its end      *)
(* between any two steps of the main program.                              *)
(*                                                                         *)
(* How long an operation lasts, and which texts the bytes make up, is left *)
(* out.                                                                    *)
(***************************************************************************)
EXTENDS Integers, Sequences

CONSTANTS OPQ_SIZE,
          Bytes           \* bound: how many bytes are sent after the selection

ASSUME SlowoutAssumption == OPQ_SIZE \in Nat \ {0} /\ Bytes \in Nat

VARIABLES
  opq, produce, consume, level, cts,       \* slowout.c
  pins, timer1, ip1, im1,                  \* CSR_GPIO_OUT, timer 1, its interrupt and its mask
  queueing,                                \* where the main program is in slowout_queue
  handler, irq1,                           \* where isr() is, and what it saw of the interrupt
  todo, sent,                              \* per context the operations left of its byte; the
                                           \* bytes begun
  refused,                                 \* an operation was refused
  entered, split,                          \* the handler sent while the main program was inside
                                           \* slowout_queue; while it had not sent all of a byte
  due,                                     \* the operations accepted that have not ended
  display                                  \* its mode, the nibble it holds and what it took

calls == <<queueing, handler, irq1, todo, sent, refused, entered, split>>
slowVars == <<opq, produce, consume, level, cts, pins, timer1, ip1, im1, calls, due, display>>

Op(enable, nibble) == [enable |-> enable, nibble |-> nibble]
NoNibble == <<0, "none">>
\* The upper half of 0x28 or, as one operation in the 8-bit mode, the selection of 4 bits.
Select == <<0, "select">>
Pulse(nibble) == <<Op(FALSE, nibble), Op(TRUE, nibble), Op(FALSE, nibble)>>

\* hdlcd_send_byte
SendByte(n) == Pulse(<<n, "high">>) \o Pulse(<<n, "low">>)

\* slowout_init and the beginning of hdlcd_init: DIP switch 3 is on if the display is in the
\* 4-bit mode already.
SlowInit ==
  /\ opq = [i \in 0..(OPQ_SIZE - 1) |-> Op(FALSE, NoNibble)]
  /\ produce = 0 /\ consume = 0 /\ level = 0 /\ cts = TRUE
  /\ pins = Op(FALSE, NoNibble) /\ timer1 = "off" /\ ip1 = FALSE /\ im1 = TRUE
  /\ queueing = "no" /\ handler = "idle" /\ irq1 = FALSE
  /\ \E dip3 \in BOOLEAN :
       /\ todo = [main |-> IF dip3 THEN <<>> ELSE Pulse(Select), isr |-> <<>>]
       /\ display = [bits |-> IF dip3 THEN 4 ELSE 8, held |-> NoNibble, took |-> 0,
                     confused |-> FALSE]
  /\ sent = 0 /\ refused = FALSE /\ entered = FALSE /\ split = FALSE /\ due = <<>>

\* The display takes a nibble when its enable input falls; two make a byte.
Taken(nibble) ==
  IF nibble = Select THEN [display EXCEPT !.bits = 4, !.confused = @ \/ display.bits # 8]
  ELSE IF display.held = NoNibble THEN [display EXCEPT !.held = nibble]
  ELSE [display EXCEPT !.held = NoNibble, !.took = @ + 1,
                       !.confused = @ \/ display.held # <<display.took + 1, "high">>
                                      \/ nibble # <<display.took + 1, "low">>]

\* slowout_start
SlowStart(op) ==
  /\ pins' = op /\ timer1' = "on"
  /\ display' = IF pins.enable /\ ~op.enable THEN Taken(pins.nibble) ELSE display

\* level is unsigned: a value below 0 stands for one near 2^32.
QueueFull == level >= OPQ_SIZE \/ level < 0
NextPlace(p) == (p + 1) % OPQ_SIZE

\* Timer 1 has counted the duration of the operation and stops.
Timer1 ==
  /\ timer1 = "on" /\ timer1' = "off" /\ ip1' = TRUE
  /\ UNCHANGED <<opq, produce, consume, level, cts, pins, im1, calls, due, display>>

-----------------------------------------------------------------------------
(***************************************************************************)
(* The main program, which goes on while no handler runs.                  *)
(***************************************************************************)
Main(from, to) == handler = "idle" /\ queueing = from /\ queueing' = to

\* hdlcd_init, hdlcd_clear and hdlcd_printf: the next byte.
NextByte ==
  /\ handler = "idle" /\ queueing = "no"
  /\ todo["main"] = <<>> /\ sent < Bytes
  /\ sent' = sent + 1 /\ todo' = [todo EXCEPT !["main"] = SendByte(sent + 1)]
  /\ UNCHANGED <<opq, produce, consume, level, cts, pins, timer1, ip1, im1,
                 queueing, handler, irq1, refused, entered, split, due, display>>

\* Mutant: the interrupt is not masked.
QueueMaskNot ==
  /\ Main("no", "test") /\ todo["main"] # <<>>
  /\ UNCHANGED <<opq, produce, consume, level, cts, pins, timer1, ip1, im1,
                 handler, irq1, todo, sent, refused, entered, split, due, display>>

\* slowout_queue: irq_getmask, and irq_setmask without IRQ_TIMER1.
QueueMask ==
  /\ Main("no", "test") /\ todo["main"] # <<>>
  /\ im1' = FALSE
  /\ UNCHANGED <<opq, produce, consume, level, cts, pins, timer1, ip1,
                 handler, irq1, todo, sent, refused, entered, split, due, display>>

\* level >= OPQ_SIZE: refused, which hdlcd_send_byte does not look at.
QueueRefuse ==
  /\ Main("test", "unmask") /\ QueueFull
  /\ refused' = TRUE /\ todo' = [todo EXCEPT !["main"] = Tail(@)]
  /\ UNCHANGED <<opq, produce, consume, level, cts, pins, timer1, ip1, im1,
                 handler, irq1, sent, entered, split, due, display>>

\* queue[produce] is filled in.
QueueStore ==
  /\ Main("test", "cts") /\ ~QueueFull
  /\ opq' = [opq EXCEPT ![produce] = Head(todo["main"])]
  /\ UNCHANGED <<produce, consume, level, cts, pins, timer1, ip1, im1,
                 handler, irq1, todo, sent, refused, entered, split, due, display>>

\* The operation counts as accepted: it is started or follows those that are due.
Accept(c) ==
  /\ todo' = [todo EXCEPT ![c] = Tail(@)]
  /\ due' = Append(due, Head(todo[c]))

\* if(cts) ...
QueueWait ==
  /\ Main("cts", "produce") /\ ~cts
  /\ Accept("main")
  /\ UNCHANGED <<opq, produce, consume, level, cts, pins, timer1, ip1, im1,
                 handler, irq1, sent, refused, entered, split, display>>

\* ... cts = 0 ...
QueueClear ==
  /\ Main("cts", "start") /\ cts
  /\ cts' = FALSE
  /\ UNCHANGED <<opq, produce, consume, level, pins, timer1, ip1, im1,
                 handler, irq1, todo, sent, refused, entered, split, due, display>>

\* ... and slowout_start(&queue[produce])
QueueStart ==
  /\ Main("start", "produce")
  /\ SlowStart(opq[produce])
  /\ Accept("main")
  /\ UNCHANGED <<opq, produce, consume, level, cts, ip1, im1,
                 handler, irq1, sent, refused, entered, split>>

\* produce = (produce + 1) & OPQ_MASK
QueueProduce ==
  /\ Main("produce", "level")
  /\ produce' = NextPlace(produce)
  /\ UNCHANGED <<opq, consume, level, cts, pins, timer1, ip1, im1,
                 handler, irq1, todo, sent, refused, entered, split, due, display>>

\* level++
QueueLevel ==
  /\ Main("level", "unmask")
  /\ level' = level + 1
  /\ UNCHANGED <<opq, produce, consume, cts, pins, timer1, ip1, im1,
                 handler, irq1, todo, sent, refused, entered, split, due, display>>

\* irq_setmask(oldmask); timer 1's interrupt is enabled for good.
QueueUnmask ==
  /\ Main("unmask", "no")
  /\ im1' = TRUE
  /\ UNCHANGED <<opq, produce, consume, level, cts, pins, timer1, ip1,
                 handler, irq1, todo, sent, refused, entered, split, due, display>>

SlowQueue ==
  \/ QueueMask \/ QueueRefuse \/ QueueStore \/ QueueWait \/ QueueClear \/ QueueStart
  \/ QueueProduce \/ QueueLevel \/ QueueUnmask

-----------------------------------------------------------------------------
(***************************************************************************)
(* The interrupt handler: time_isr with the front panel's tick, then       *)
(* slowout_isr, then the keys.                                             *)
(***************************************************************************)
Isr(from, to) == handler = from /\ handler' = to

\* The first byte stands for those of hdlcd_init, before which no handler sends.
MayPrint ==
  /\ sent > 0 /\ sent < Bytes
  /\ sent > 1 \/ todo["main"] = <<>>

\* isr() is entered for timer 1, for the tick or for a key.
SlowEnter ==
  /\ Isr("idle", "tick")
  /\ (ip1 /\ im1) \/ MayPrint
  /\ irq1' = (ip1 /\ im1)
  /\ UNCHANGED <<opq, produce, consume, level, cts, pins, timer1, ip1, im1,
                 queueing, todo, sent, refused, entered, split, due, display>>

\* refresh_screen, from ui_tick or from handle_key.
IsrByte ==
  /\ handler \in {"tick", "key"} /\ todo["isr"] = <<>> /\ MayPrint
  /\ sent' = sent + 1 /\ todo' = [todo EXCEPT !["isr"] = SendByte(sent + 1)]
  /\ entered' = (entered \/ queueing # "no")
  /\ split' = (split \/ queueing # "no" \/ todo["main"] # <<>>)
  /\ UNCHANGED <<opq, produce, consume, level, cts, pins, timer1, ip1, im1,
                 queueing, handler, irq1, refused, due, display>>

\* slowout_queue, between whose steps nothing comes but timer 1.
IsrQueue ==
  /\ handler \in {"tick", "key"} /\ todo["isr"] # <<>>
  /\ IF QueueFull
     THEN /\ refused' = TRUE /\ todo' = [todo EXCEPT !["isr"] = Tail(@)]
          /\ UNCHANGED <<opq, produce, level, cts, pins, timer1, due, display>>
     ELSE /\ opq' = [opq EXCEPT ![produce] = Head(todo["isr"])]
          /\ produce' = NextPlace(produce) /\ level' = level + 1
          /\ Accept("isr")
          /\ cts' = FALSE
          /\ IF cts THEN SlowStart(Head(todo["isr"])) ELSE UNCHANGED <<pins, timer1, display>>
          /\ UNCHANGED refused
  /\ UNCHANGED <<consume, ip1, im1, queueing, handler, irq1, sent, entered, split>>

\* slowout_isr: irq_ack ...
SlowAck ==
  /\ todo["isr"] = <<>>
  /\ IF irq1 THEN Isr("tick", "serve") /\ ip1' = FALSE
             ELSE Isr("tick", "key") /\ UNCHANGED ip1
  /\ UNCHANGED <<opq, produce, consume, level, cts, pins, timer1, im1,
                 queueing, irq1, todo, sent, refused, entered, split, due, display>>

\* The first operation has ended.  Nothing is due when a nested call has started timer 1 twice.
Ended == IF due = <<>> THEN due ELSE Tail(due)

\* Mutant: the operation that has ended is started again.
SlowIsrStale ==
  /\ Isr("serve", "key")
  /\ consume' = NextPlace(consume) /\ level' = level - 1
  /\ IF level # 1 THEN SlowStart(opq[consume]) /\ UNCHANGED cts
     ELSE cts' = TRUE /\ UNCHANGED <<pins, timer1, display>>
  /\ due' = Ended
  /\ UNCHANGED <<opq, produce, ip1, im1, queueing, irq1, todo, sent, refused, entered, split>>

\* ... then the next operation is started, or the queue is clear to send.
SlowIsr ==
  /\ Isr("serve", "key")
  /\ consume' = NextPlace(consume) /\ level' = level - 1
  /\ IF level # 1 THEN SlowStart(opq[consume']) /\ UNCHANGED cts
     ELSE cts' = TRUE /\ UNCHANGED <<pins, timer1, display>>
  /\ due' = Ended
  /\ UNCHANGED <<opq, produce, ip1, im1, queueing, irq1, todo, sent, refused, entered, split>>

SlowReturn ==
  /\ Isr("key", "idle") /\ todo["isr"] = <<>>
  /\ UNCHANGED <<opq, produce, consume, level, cts, pins, timer1, ip1, im1,
                 queueing, irq1, todo, sent, refused, entered, split, due, display>>

SlowNext ==
  \/ Timer1 \/ NextByte \/ SlowQueue
  \/ SlowEnter \/ IsrByte \/ IsrQueue \/ SlowAck \/ SlowIsr \/ SlowReturn

-----------------------------------------------------------------------------
(* Properties *)

\* Until the handler has sent while the main program was inside slowout_queue, the pins show
\* the operations that were accepted in their order, each until the timer ended it, whenever
\* the next one was queued and by whom; and until it has sent between the operations of one of
\* the main program's bytes, or an operation was refused, the display takes the bytes sent.
SlowRight ==
  /\ ~entered =>
       /\ due # <<>> => pins = Head(due) /\ (timer1 = "on" \/ ip1 \/ handler = "serve")
       /\ due = <<>> => timer1 = "off" /\ ~ip1 /\ handler # "serve"
       /\ queueing # "start" => (cts <=> due = <<>>)
  /\ ~split /\ ~refused =>
       /\ ~display.confused
       /\ due = <<>> /\ todo["main"] = <<>> /\ todo["isr"] = <<>> => display.took = sent
=============================================================================
