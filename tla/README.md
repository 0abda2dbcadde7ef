# Milkymist: a verification development

Milkymist is a system on chip that renders live visual effects to music: an LM32
processor, accelerators for floating point (PFPU) and texture mapping (TMU), sound,
video and serial cores (`src/cores`), and the software on it (`src/software`): a boot
loader (`bios`) and the rendering program (`demo`) over a set of drivers (`libhal`,
`libbase`). There is no operating system. One main loop polls flags; one interrupt
handler sets them; the accelerators work beside both. What is hard to get right and to
test is exactly that: which steps of the three may come in between each other.

The modules here are TLA+ models of that code, checked with TLC on small instances and,
where said below, proved with TLAPS for every size.

## Inventory

| Part | State it keeps | Operations | Interacts through | What is hard, and what makes it correct |
|---|---|---|---|---|
| `libhal/vga.c`, `cores/vgafb` | three buffer pointers; base address, latched address, burst counter | init, swap, disable; scan | CSR base address, busy wait | the core latches at the start of its next frame: the buffer drawn in is never scanned, a frame never mixes two pictures, swaps end |
| `libhal/pfpu.c`, `libhal/tmu.c` | ring of task descriptors, `cts` | submit, interrupt handler with callbacks that submit | ring shared with the handler, interrupt mask | interleaving, nested submission; first in first out, once each, nothing lost |
| `libbase/uart-async.c`, `libbase/uart.c`, `cores/uart` | two rings, `tx_cts`, data register | `readchar`, `writechar`, handlers, `force_sync`, handover on reboot | rings shared with the handler | no lock on reception, printing handlers; order, no overwriting of a character being sent |
| `demo/apipe.c` | the analysis flag and buffer, `eval_ready`, two frames | sound callback, PFPU callbacks, bottom half, start, stop | flags, frames, descriptors | stale frames, flags cleared late; no sound buffer is lost |
| `demo/rpipe.c` | frame ring, `cts`, two bottom-half flags, two textures | input, TMU callbacks, wave and swap bottom halves | flags, ring, textures, screens | one frame at a time in the textures, only finished pictures shown |
| `libhal/snd.c`, `cores/ac97` | record and play rings, overrun flags, codec registers | `snd_init`, refill, start, stop, handlers | rings, DMA registers, callbacks | refills from handlers that mask another interrupt, nested into the other direction; no buffer lost, repeated or reordered |
| `demo/ui.c`, `demo/renderer.c` | panel state, preset list, names, key times | keys, tick, start, stop | the button handler and the shell drive the same renderer | long handlers between the shell's steps: panel, display and renderer agree |
| `demo/shell.c`, `bios/main.c`, `libbase/console.c` | a line being typed | commands on memory, `render`, `stop`, `echo`, booting | memory, everything above | lines are corrected, numbers have three bases; a command touches what it names |
| `demo/isr.c`, `libbase/irq.S` | pending and mask registers | dispatch | all drivers | snapshot against acknowledgement |
| `libhal/time.c`, `demo/cpustats.c`, `cores/sysctl` | seconds, counter, nesting count | `time_get`, `enter`, `leave`, tick | timer 0 | counter wrap against pending interrupt, nested calls: time and load are right |
| `libhal/slowout.c`, `libhal/hdlcd.c` | ring of operations | queue, handler, bytes | timer 1, the display; called by the main program and by the handler | a byte is six operations of two senders, and only timer 1 is masked: the display gets whole bytes in order until one sender comes between the other's steps |
| `demo/compiler.c`, `scheduler.c`, `eval.c`, `libhal/pfpu.c`, `cores/pfpu` | register allocation, pipelines, two programs | compile, schedule, evaluate | one PFPU, loaded by turns | out-of-order issue, freed registers, fixed latencies: a preset computes what its equations say |
| `libbase/malloc.c`, `libhal/mem.c` | chunk lists of two banks | `malloc`, `mallocex`, `free` | called by the parser | chunks disjoint, aligned, refused only when there is no room |
| `bios/boot.c`, `tools/flterm.c` | error count, addresses; the upload | frames of the serial download | serial line | noise, repetition: an image that is started is whole |
| `libbase/cfcard.c`, `libbase/cffat.c` | cached sectors, cluster chain | load, list | memory card | reads that fail: whole files or none; long names are put together |
| `libnet`, `libbase/eth.c` | protocol states, handlers, descriptors | ARP, TFTP | network, clock | lost, repeated, late packets, several sessions: success means the file |
| `libbase/softfloat*` | rounding mode, exceptions | all single-precision operations | called by the compiler's code | rounding, overflow, gradual underflow |
| `libbase/libc.c`, `vsnprintf*.c`, `divsi3.c`, `atof.c` | - | memory, strings, numbers, formatted text | everyone | ends of buffers, signs, bases |
| parser, signal analysis, board setup, other cores | - | - | - | generated, pure numeric code, or cycle-level hardware |

`PROJECT.json` lists every part with its sources and status, and every hazard at its line.

## Modules

| Module | Models | Of |
|---|---|---|
| `Display` | a screen shows finished pictures in order | abstract |
| `Vga` | triple buffering and the scan-out core | `vga.c`, `vgafb_pixelfeed.v` |
| `VgaProofs` | theorems | |
| `TaskFifo` | tasks run one at a time in the order accepted, each reported once | abstract |
| `Drivers` | both accelerator drivers, handler, mask | `pfpu.c`, `tmu.c`, `isr.c` |
| `DriversProofs` | theorems | |
| `Uart` | console and handover to the boot loader | `uart-async.c`, `uart.c`, `system.c` |
| `UartProofs` | theorems | |
| `Render` | the pipeline from sound buffer to screen | `apipe.c`, `rpipe.c`, `snd.c` (recording) |
| `RenderProofs` | theorems | |
| `Sound` | both sound queues, the codec's registers, the echo | `snd.c`, `cores/ac97`, `shell.c` |
| `SoundProofs` | theorems | |
| `Scheduler`, `Patch` | the code scheduler; a preset from its equations to vertices | `scheduler.c`, `compiler.c`, `eval.c`, `pfpu.c`, `cores/pfpu` |
| `PatchProofs` | theorems | |
| `BootMemory` | what is loaded and started | `boot.c` |
| `Sfl` | serial download, both ends | `boot.c`, `flterm.c` |
| `Card` | booting from the memory card | `boot.c`, `cffat.c`, `cfcard.c` |
| `Tftp` | booting from the network | `net.c`, `arp.c`, `tftp.c`, `eth.c` |
| `Bios` | composes the three in the boot order and with the commands | `bios/main.c` |
| `BiosProofs` | theorems | |
| `Softfloat`, `FloatSpec` | floating point; exact arithmetic rounded once | `softfloat.c`, its two headers, `softfloat-glue.c` |
| `Libc`, `LibcSpec` | memory, strings, formatted text; what they promise | `libc.c`, `vsnprintf*.c`, `divsi3.c`, `atof.c` |
| `Heap` | the allocator | `malloc.c`, `mem.c` |
| `Clock` | time of day and load under interrupts | `time.c`, `cpustats.c`, `sysctl.v` |
| `Slowout` | slow outputs and the display's bytes, two senders | `slowout.c`, `hdlcd.c` |
| `Timers` | composes the two | |
| `ServicesProofs` | theorems about `Heap` and `Timers` | |
| `Shell` | both command lines and the commands on memory | `shell.c`, `bios/main.c`, `console.c` |
| `Panel` | keys, display, presets of the card, the shell's `render` and `stop` | `ui.c`, `renderer.c`, `cffat.c` |
| `Library` | runs the last eight groups side by side (`unit`) | |
| `PatchMC`, `BiosMC`, `LibraryMC` | values of the constants for TLC | |

Conventions: variables and actions carry the names of the code. The main program's steps
are one action per access to shared state; `pc`, `at` or `writing` says where it is. The
handler runs with interrupts disabled (`lm32_interrupt.v` clears `ie`), so it comes
between any two of the main program's steps and is not interrupted itself; in `Drivers`
and `Uart` it is still cut into steps because the hardware moves meanwhile. Operators
marked "Mutant" are not used by any specification: each is a definition next to it with
one plausible mistake, and shows that a property notices the mistake.

**Vga.** `Draw` fills the back buffer strip by strip, `CallSwap`, `SwapPoll`,
`SwapRotate`, `SwapRequest` are `vga_swap_buffers`; `NextBurst`, `Fetch`, `BurstDone` the
state machine of the scan-out core with its `sof` and `ignore` flags; `Disable` and
`ResetEdge` the reset.

**Drivers.** A submission goes through mask, check, start, unmask; the handler through
dispatch, callback, (nested submission,) advance, acknowledge, restart. Callbacks submit
to either unit, as `apipe.c` does; the handler starts TMU tasks only where `rpipe.c`
would, that is when the main program is not inside a submission to the TMU. The shell's
`tmutest` breaks this rule and is left out (see the hazards).

**Uart.** Characters are numbered. The ring overruns when overfilled, as in the code; the
history variables `rx_lost` and `tx_lost` record that it did, and the properties about
order and delivery speak of runs in which it did not. Handlers of other devices print at
any moment (`Write("isr")`). A third history variable, `nested`, records that one did so where the
code's locking does not keep it out: inside the main program's `writechar`, whose mask covers
only `IRQ_UARTTX`, or in `uart_force_sync` between the wait (`RebootFlush`, line 121) and
`force_sync = f` (`RebootSync`, line 122). From then on nothing is
asked of transmission; `LockedTransmitter` is the promise without this condition.

**Render.** The main loop's bottom halves step by step (`pc`), each handler one action.
A submission to a unit is one step, which `DriversProofs` justifies; a refill of a sound
buffer is one step, which it is against the sound interrupt it masks (see the hazards for
the nested refill it does not mask). Pixels are abstracted to what they stand for: a
texture is drawn or warped, the picture old, copied or finished. `in_use` and `apart` are
history: which frames were given out, and whether one ever was given out twice. The
branch of `analyzer_bottom_half` for no free frame is absent because no state takes it
(see Findings). Dead local variables are reset, to keep the state space small.

**Sound.** `SetRequest` ... `CodecIsr` are `snd_init`'s accesses to the codec with the
link's frames in between; then `EchoStart`, `EchoPlay`, `EchoRecord`, `EchoStop` are the
shell's `echo`. A stream is one record per direction: ring, core channel, flags. `Isr` is a
handler with the callback's refill of the other direction. `snd_init` runs with interrupts
enabled but its flags are set and cleared in separate steps, so the order matters.
Buffers last a third of a second; the model lets none end during the straight-line code
that starts the echo. `StopWhenDry` is off in the run: after an overrun `snd_record_stop` and
`snd_play_stop` leave the overrun flag, and a later refill starts the stopped channel (see
the hazards).

**Patch, Scheduler.** Numbers are terms: two results are equal when the same operations were
applied to the same inputs. `CompileNext` translates an equation, `ScheduleCycle` is one
turn of `scheduler_schedule`'s loop, `Execute` one cycle of the PFPU with its pipelines. The
per-vertex program is the built-in one. The nodes of the syntax tree are the domain of the constant
`Depth`, which says how deep each of them is, so that the recursion over them
(`Compile`, `Value`) is a recursive function. Nothing in the code notices a program that does not fit: `eval.c:140` takes the
compiler's -1 for a register, `eval.c:187` does not look at what `scheduler_schedule` returns,
and `load_program` never writes `CODEPAGE`. The model does the same; the history variable `fits`
records that no program has met one of these limits, and the properties speak of presets for which it is still
true. Left out: an empty per-frame program, for which `eval.c:189` looks at the word in front of
the program.

**Bios.** `Sfl`, `Card` and `Tftp` extend `BootMemory` and share its `stage`; `Bios` says which
stage follows which. Memory is counted in units that carry what they hold (medium, file,
index), so that "whole" is visible. Noise damages a magic string or the part of a frame that
its checksum covers; the length byte, which nothing protects, stays whole. The network keeps packets
as a set, from which one is taken, kept or dropped. `NoisyReplies` lets the device's one-byte
replies be damaged; it is off in `Bios` because of the fourth finding. `PortsReused` lets a
transfer draw the port of an earlier one; it is off because of what is said of it under Findings. `PartialReads` (a card
read that times out part-way) is off because of the hazard at `cffat.c:214`.

**Library.** The parts share no state, so `unit` picks one for a behaviour; the run explores
all. `Softfloat` has the width as parameters and is checked on every pair of 8-bit floats in
every mode; `float32_sqrt` is left out, because its table of estimates exists for 32 bits
only. In `Libc` memory is a function, text a sequence with a NUL, an `int` has `WordBits`
bits; characters are signed. `Clock` takes two assumptions on time: the handler is
reached within half a second, and half a second does not pass between the counter's
reading and that of the pending interrupt. In `Timers` a step of the clock's software comes between
any two of the slow outputs', which the run need not repeat: they share nothing. Both modules
have the handler; that it is only one is left out there, which allows more interleavings. In
`Slowout` durations are left out. `slowout_queue` goes through its steps (`QueueMask` ...
`QueueUnmask`) in the main program; the handler, of which the ticks and the keys reach
`refresh_screen` (`IsrByte`, `IsrQueue`), comes between any two. Two history variables say
what that did: `entered`, that the handler sent inside the main program's `slowout_queue`,
after which slots are written twice and `level` may pass below 0; `split`, that it sent inside one
of the main program's bytes, after which the display has the nibbles in another order.
`SlowRight` holds of the pins until `entered`, of the display until `split` or a refusal. In `Shell`
the memory is `ram`, big-endian; the boot loader takes its parameters by several calls in one
argument list, whose order C leaves open: `LeftToRight` says what the compiler does.
`readstr` does not look at the size it is given, so only lines that fit are typed there.
In `Panel` each handler comes between any two steps of `ui_render_from_file`,
`ui_render_stop` and the `refresh_screen` they end with (`MainPicture` reads the panel's state,
`MainRefresh` draws what was read) in the main program. The reading of the card and the start of the
renderer are one step each, since neither the card's reader nor the compiler is made for two
at a time (see the hazards).

## Runs

| Run | Bounds | Checks | Shows |
|---|---|---|---|
| `Vga` | 3 strips, 4 pictures | `TypeOK`, `BackNeverRead`, `WholePicture`, `RequestTaken`, `ImplementsDisplay`, `SwapReturns`, `EveryPictureShown` | no tearing, no lost or repeated picture, swaps return unless the core is disabled |
| `Drivers` | ring of 2, 3 tasks per unit | `TypeOK`, `RunningIsHead`, `MaskRestored`, `NeverRestarted`, `ImplementsFifo`, `EveryTaskReported` | both drivers are first-in first-out services; nested masking loses nothing |
| `Uart` | rings of 2, 2 characters in, 3 out | `TypeOK`, `WaitsForTransmitter`, `SentInOrder`, `EverySent`, `ReadInOrder`, `EveryRead` | order and delivery, also over the reboot, until a handler prints inside a call of the program's; reading whatever is printed |
| `UartNested` | as above, 1 in, 3 out | `LockedTransmitter` | violated, see Findings |
| `Render` | frame ring of 2, record ring of 4, one start | `TypeOK`, `TmuQuiet`, `OnlyFinishedShown`, `BuffersConserved`, `DescriptorsStable`, `EveryFrameShown`, `EveryBufferAnalyzed` | the pipeline under overload, with every handler between any two steps |
| `RenderFrames`, `RenderReady` | the code's ring sizes | `FrameOwned`, `ReadyMeansEmpty` | violated, see Findings |
| `Sound` | rings of 4 (the code's), 5 codec registers, recordings numbered modulo 5, 2 starts | `HeadTransferred`, `CodecSetUp`, `EchoInOrder`, `EveryRecordingHeard` | the echo is a relay of buffers in order over starts and stops |
| `Patch` | 24 registers, 2 frames of 2 vertices, presets of up to 3 equations | `ReadsCorrect`, `VertexCorrect`, `NoCollision` | a preset that `fits` computes its equations, in scheduled order too |
| `Bios` | 4 units of memory per file, 2 faults, 3 blocks, 1 command | `StartedWhole`, `TransferWhole`, `LoadingEnds` | whatever medium: whole images, true arguments, an end |
| `BiosReplies` | as `Bios`, replies damaged too | `StartedWhole` | violated, see Findings |
| `Library` | 8-bit floats and words, 5 characters of memory, banks of 10 and 2 elements, a second of 6 cycles, a queue of 2 and 3 bytes of two senders, lines of 10, 2 cards | `FloatsAsPromised`, `TextAsPromised`, `HeapSound`, `TimersRight` | what the programs stand on, part by part |

Why the bounds suffice. Three strips let a reset or a new frame fall before, inside and
after a burst; four pictures go round the three buffers and one further. Three tasks fill
a ring of two, are refused, and wrap it; the theorems cover every size. A ring of two
holds one character, so three characters overfill, empty and wrap the one that is sent from, and with
the core's register two overrun the other. The frame ring of 2
overflows and wraps with the three sound buffers; the number of sound buffers and the
record ring are the code's own. One start and its stop are enough for the steady state,
which is unbounded in frames; restarts are in `Sound`. The sound rings have the code's size;
recordings are numbered modulo one more than can be in flight, and the second start meets
what the first left. 24 registers are the PFPU's reserved ones and few enough that
the per-vertex program has to reuse them; two frames show a program loaded over another and a
variable carried over. Two faults allow a frame to be damaged twice running (`MAX_FAILED` is
2), a block to be lost and repeated, a read to fail in either of two files (three were tried once,
with the same result, and the theorems hold for any number). Four units are two
clusters, three blocks have a first, a middle and a short last one. Floats of 4 exponent and
3 fraction bits have subnormal numbers, both overflows and sticky bits, and every pair is
tried. The allocator's larger bank holds three chunks of the middle size, so that
`free` meets all its four cases; the clock's second of six cycles has the wrap anywhere
inside `time_get`. A queue of two operations is refused, emptied and wrapped within one byte, and
three bytes let either sender send first, in between and last. Two cards differ in what is on them, so that a card is changed under the
list; two ticks turn the display round.

Each of the Library's four properties is a conjunction of named parts (`FloatsRight`:
arithmetic, conversions, comparisons; `MemoryRight`, `ConversionsOfText`, `CommandsRight`,
`PanelRight`; `HeapSound`; `TimeRight`, `LoadRight`, `SlowRight`). Besides the mutants listed in
`PROJECT.json`, each part was seen to fail for a changed definition of its own module, such
as `MemmoveUp`, `TickDoneKeeps` or `SlowIsrStale`.

`PanelRight` is conditional in three ways that are faults of the code worth knowing. A key that
stops a preset after `renderer_start` but before `state = STATE_RENDERING` leaves the panel
saying that it renders when it does not, and one that starts a preset after `renderer_stop` but
before `state = STATE_MAIN` the contrary (`late`). The author and title are taken from
the new file before it is known to compile: if it does not, a preset that was running goes on
under the other's name, as one does whose file was read before a key started another
(`failed`). And a key that changes the panel while the main program is inside `refresh_screen` is
drawn over by what was read before: OK then leaves "rendering" on the display of a panel that is
back at its beginning (`overtaken`), until the panel is drawn again.

`ComparisonsRight` states what each operator of a C program says: the compiler calls a function of
`softfloat-glue.c` and tests the `int` it returns. Four of the six say what the values do; of `<` and `>=`
it states the fault (see the observations).

`BuffersConserved` is conditional on `apart`, because a frame given out twice does lose a
buffer (first finding). What it shows is that nothing else does, and that the three
buffers then always leave one to record into. `EveryBufferAnalyzed` is conditional on
`~Overtaken`: if the whole evaluation ends between `pfpu_submit_task` and
`eval_ready = 0`, the flag is lost for good. That needs two long interrupts within a few
instructions and is the only way to lose it.

The runs that switch deadlock checking off do so because the models bound what is submitted,
written, started, evaluated or loaded, after which the program has nothing left to do.

## Fairness

The processor executes (weak fairness of the program's and the handler's steps: handlers
are short and interrupts are edges, so the main loop gets on between them); a unit that
was started ends; the scan-out core runs. An interrupt that is pending is taken; in
`Drivers` this is strong fairness, since each submission masks it for a while and the
processor takes it within a few instructions of the unmasking. In `Uart` it is strong for the same
reason, and so is that of the main program's steps inside a call, which the handler's keep
disabling; the reboot, the arrival of characters and what handlers print have none. In `Render` the
PFPU's and the TMU's handlers each have their own weak fairness, because `isr.c` serves
every pending interrupt at each entry; the sound handler needs none for what is shown. In `Sound` the set-up and the started echo go on, enabled
channels transfer and each handler is taken. In `Bios` the loader's code and flterm go on,
`check_ack` runs out of patience, the server answers, and a packet that is again and again in
flight arrives some time (strong fairness: the network may lose any packet, but a bounded
number of times). No fairness is assumed of anything that starts work: the shell, the
buttons, the arrival of sound or characters, the user at the prompt.

## Theorems

Proved with TLAPS, for all values of the constants that satisfy the assumptions named in the
modules (`DistinctAssumption`, `DevicesAssumption`, `QSizeAssumption`, `SizeAssumption` and so on:
sizes are positive numbers, names differ). TLC evaluates them in the runs. In every module
the theorems follow from an inductive invariant, which is there because no property is
inductive on its own; TLC checked it on the small instances before it was proved, except for
`PatchProofs`, whose invariant quantifies over schedules and over all values of the variables.

| Module | Theorems |
|---|---|
| `VgaProofs` | `TypeCorrect`, `BackBufferSafe`, `NoTearing`, `RequestsAreTaken`, `DisplayRefinement` |
| `DriversProofs` | `TypeCorrect`, `RunsHead`, `MasksAreRestored`, `NeverStartedTwice`, `FifoRefinement` |
| `UartProofs` | `TypeCorrect`, `ReadsInOrder`, `WaitsUntilNested`, `SendsInOrderUntilNested` |
| `RenderProofs` | `TypeCorrect`, `TmuIsQuiet`, `ShowsFinished`, `BuffersAreConserved`, `DescriptorsAreStable` |
| `SoundProofs` | `CodecIsSetUp`; without `StopWhenDry`: `HeadsAreTransferred`, `EchoIsInOrder` |
| `BiosProofs` | without `PortsReused`: `TransfersAreWhole`; without `NoisyReplies` and `PartialReads`: `ImagesAreWhole` |
| `PatchProofs` | `VertexIsCorrect`; without a division: `NoResultsCollide`; with `WellApplied` too: `ReadsAreCorrect` |
| `ServicesProofs` | of `Timers` `TimeIsRight`, `LoadIsRight`, `OutputsAreRight` and of both together `TimersAreRight`; of `Heap` `HeapIsSound` and about its arithmetic `GcdRight` |

**Vga.** The invariant is `RolesInv /\ ContentsInv`. `RolesInv` says which of the
three buffers is requested, which is scanned and which is free at each step of the swap;
this is needed because `BackNeverRead` alone does not survive the rotation: one must know that
the request before was taken. `ContentsInv` says which picture each buffer holds; tearing
and the refinement follow from both.

**Drivers.** `Boot` (a driver not initialised is quiet), `Masks` (the mask register and the saved
copies, nested), `Nesting` and `Exclusion` (the two contexts are never inside calls to the same
driver), `Rings` (produce, consume and level agree), `Units` (a unit is idle only if its ring is
empty, or someone is about to start it) and `Calls`. The ring is shown to be a sequence by the
lemmas on `Slot`; submission is then `Append` and the handler's advance `Tail`.

**Uart.** `RxInv`: what `readchar` returned, what the ring holds and the data register are
consecutive numbers, until one was lost; it holds whatever the handlers print. `TxInv` is the
same for transmission: `Calls` (who is inside `writechar`, with which mask), `Transmitter` (a
busy one is announced by `tx_cts` or by the interrupt that ends it), `Flushed` (after the wait of
`uart_force_sync` the transmitter stays idle) and `Order`. It holds until `nested`, so the
invariant is `~nested => TxInv`; that it does not hold beyond is the run `UartNested`.

**Render.** `Token` is the heart: one frame at a time passes from the ring to the TMU's queue, the
wave flag, the queue again, the swap flag and the swap, and what admits the next is `cts`.
`TmuQuiet` and `OnlyFinishedShown` follow, with `Pixels`, whatever `level` says and even when a
frame has been given out twice, that is independently of findings 2 and 3. `Conserved` says
where each buffer is (`Whereabouts`), until a frame is given out twice; `Ring`, `Recorder`
and `Analyzer` are the three queues it speaks of.

**Sound.** `Codec`: one request is under way at a time, and the flag `snd_init` waits for is not
set before that request was answered. `EchoInv`, for each stage of the echo: the queues are
where they should be, the recordings in them are consecutive, and a channel that is off knows
that the next refill starts it. It needs `~StopWhenDry` because of the overrun flag that
survives a stop (see the hazards); the codec's part does not.

**Bios.** `Stages` and `Shape`: only one of the three loaders works at a time, so what one has
stored stays there. `SerialInv`: what is on the line in either direction is a frame of flterm's
script and the reply to it; a frame that was confirmed is in memory. `CardInv`: the sectors of
the files found so far are in memory in order, as `ChainsAssumption` lets no cluster be in two
places. `NetInv`: the sessions for the present port are no more than a block ahead of what is
stored, and those of earlier ports cannot be heard. Each of the three holds under its own
condition; finding 4, the observation on `tftp.c` and the hazard at `cffat.c:214` say why it is needed: the
code keeps none of the three by itself, so the theorems say what it relies on.

**Patch.** The proof has the four layers of the program.

*Scheduler.* `Scheduled` says of each cycle what has been scheduled so far: `Schedule` (each
instruction has the word it starts in and the word it leaves in for itself; the three hazards are
`Ordered`; `Fed`: what an instruction reads was left there by the last instruction before it that
writes it) and, for what is still to come, which registers are `Held` or `Awaited`. `IssuedStep` is the
heart: freeing and allocating a register in the same turn loses nobody's value.
`check_hazard_read` never looks at the first instruction (`scheduler.c:112`, `i>0`). This is harmless because
that one is issued in cycle 0, before all others (`FirstReady`).

*PFPU.* `Runs` ties each cycle of the core to that schedule: the pipeline holds just the
instructions in flight (`InPipe`), and each register what the last one that left wrote (`InRegs`), the
value being that of executing the program one instruction after the other (`Course`). `NoCollision` and
`VertexCorrect` follow from it: at the output, every instruction the result depends on has left.
`VertexInv` and `FrameInv` carry this through loading, both programs and all frames; they say why a longer
program left in memory does no harm.

*Compiler.* `Sound`: no two registers stand for the same, each virtual register is written once
and nothing is read before it is written. This is what the scheduler needs (`SoundSchedulable`). `CompilesSoundly`
shows it for every expression, `ComputesRight` that the emitted code leaves the expression's
`Value` in its register, whatever registers come later (`Ample`), and `MeaningNext` that compiling one
equation more assigns one variable more. `Translated` is the invariant that says this of all equations
compiled so far.

*Evaluator.* `ReadInv` follows the variables: from the initial registers into the PFPU, through the program
and back. A variable without a register is one that no equation sets, so its initial value is
right. `ReadsCorrect` follows.

Two hypotheses are on the presets. `NoDivision`: the hardware's divider is a stub whose result is
never valid (`pfpu_fdiv.v:33`) and its latency is a `TODO` of 0 (`include/hw/pfpu.h:59`), so that a program with a
division makes the scheduler place an exit in the cycle of the issue. `VertexIsCorrect` does without it, as the
per-vertex program has none and does not depend on how the other one ended. `WellApplied`: an operator or comparison has its two
arguments. The grammar lets a preset name a function of two with one, for which the compiler reads a branch that
was never written. The presets of the run satisfy both. The recursion is treated as in
`ServicesProofs`, by the least depth or length for which a statement would be wrong (`Least`).

**Timers.** `ClockInv`: `Soon` and `Asked` tie the reading of the counter and of the pending interrupt to
the time that has passed, which the half-period test of `time_get` relies on; `Control` and
`Nested` say who holds which mask while the handler is inside the main program's call; `Counted`
says what the accumulator and the time since the last `first_enter` add up to at each step of the
nested calls. `TimeRight` follows from `Asked`, `LoadRight` is part of the invariant. `SlowInv`, until
the handler has sent inside the main program's `slowout_queue`: `Due`
makes the ring a sequence whose first operation is on the pins, whatever step the main program is at
(an operation that is stored but not counted yet is `Uncounted`, one that the handler will take off is
`Passed`); `OneSends` says that only one sender has operations `Left` of its byte, and `Follow`
numbers the operations of all
bytes (`Operation`), so that those on the pins, in the ring and still to be queued are consecutive
and the display has taken what the number on the pins says (`Shown`). These two end with the
first byte that is split, and `Follow` with the first refusal, as the property does. The two hold side by side because neither's steps touch the other's
variables.

**Heap.** `HeapInv`: every chunk is `Placed` (in its bank, aligned, with its size in its record),
chunks of one bank are `Apart`, and the records are `Linked` through just these places in the
order of their addresses, from the first to the last. `ListSound` alone is not inductive: it
does not say which chunk comes next, nor that the first one has a record in front of it that
`free` would find. Each case of `mallocex` and `free` is a lemma on `Linked` (`LinkFirst` ...
`UnlinkMiddle`), and `WalkedIsLinked` says that the walk along the list meets what is linked.
`RefusedWhenFull` follows from the invariant: a free and aligned place has a chunk in front of it or
none, and what is left free up to there is no more than up to any aligned place (`ExtraLeast`).
That a place aligned in bytes is one aligned in elements (`AlignedElements`) rests on `GcdRight`, the
correctness of the binary algorithm: what it computes divides both numbers and is a sum of
multiples of them. The assumptions are that the banks do not overlap, as `mem.c:27` has it,
and that sizes are not negative and alignments not zero; sums are exact, which
those of the code are as long as no caller asks for nearly 4 GB.

The lemmas on the walk and on `gcd` are about recursive functions. They are shown by the
least number for which they would be wrong (`Least`), for no theorem on induction with an
operator as a parameter can be cited.

Model-checked only: liveness (`SwapReturns`, `EveryPictureShown`, `EveryTaskReported`,
`EverySent`, `EveryRead`, `EveryFrameShown`, `EveryBufferAnalyzed`, `EveryRecordingHeard`,
`LoadingEnds`), which the prover cannot treat under fairness, and of `Library` the two invariants
`FloatsAsPromised` and `TextAsPromised`. `Libc` (`Format`, one call per directive) declares RECURSIVE
operators, so it and what extends it (`LibcSpec`, `Shell`, `Panel`, `Library`) stay with TLC.
`Softfloat` has recursive functions of its own (`countLeadingZeros32` and the quotient's digits),
but what keeps it with TLC is its statement, that a result is the rounding of the exact one: this is
nonlinear in the operands and in powers of two, which the provers do not get through.

## Findings

1. `UartNested`: `uart-async.c` claims that its transmission implements locking; it masks
   only its own interrupt, and a handler that prints overwrites the character being sent. The
   same happens between lines 121 and 122, when `uart_force_sync` has seen the transmitter idle and
   not yet set `force_sync`: the polled boot loader then writes over what the handler sent.
2. `RenderFrames`: `frame1_free` and `frame2_free` (`apipe.c`) are never cleared, so the
   frame being rendered is given out again under load; the second frame is never used and
   the comment's "drop this buffer" never happens.
3. `RenderReady`: `rpipe_swap_bottom_half` changes `level` and `cts` without masking the
   PFPU interrupt, whose callback calls `rpipe_input`: a frame can be left waiting. It takes
   two frames in the pipeline, which today happens through the second finding.
4. `BiosReplies`: flterm announces that it aborts on an unknown reply, but only the current
   file's upload ends; it goes on with the others and starts a kernel that is not whole.

Further observations, met while modelling, that contradict no comment or that the models
leave out:

- `snd.c:320`, `snd.c:279`: the overrun flags survive a stop; a refill from the PFPU's handler
  masks only the sound interrupt.
- `scheduler.c`: `scheduler_schedule`'s failure is ignored by `eval.c`, and so is the
  compiler's -1 (`eval.c:140`): an equation that does not compile is dropped without a word.
- `parser.y:186`, `:193`: a node with one argument comes from `malloc` and its second branch is not
  written, but `compiler.c:157` compiles it unless it is NULL; `sin` and `cos` are such nodes. The model
  takes it to be NULL, as it is in memory never used before.
- `boot.c`: the length byte is outside the CRC and replies carry no number; a command line that
  is corrupt on the card is given up with the card's lock, which is also kept on other
  failures. `flterm.c:117` waits for an answer without end, as its TODO says.
- `tftp.c`: `TftpStart` draws its port from 3072, so an attempt may have the port of the one
  before. `TftpHandler` adopts the sender of a first block before it refuses it for not being
  block 1: the refused block is acknowledged or, when it comes once more, stored. A short last
  block then ends the download with success although a block in the middle was never stored.
  TLC finds this in `BiosMC` with `PortsReused = TRUE`, `Faults = 3` and no card: it takes three
  disturbances and an unlucky draw.
- `net.c`, `arp.c`: an IP packet counts as the ARP reply; ARP is repeated without end
  outside debug builds; a TFTP error restarts the transfer; `NETLOOP_FAIL` is never set.
- `softfloat-glue.c:56`, `:64`: `__gesf2` and `__ltsf2` return 1 or 0, of which the compiler tests the
  sign: `a >= b` always holds and `a < b` never does. `vsnprintf.c:205` says so of the latter ("TODO: fix
  that ... '<' operator") and writes `(f <= 0.0f) && (f != 0.0f)` instead; libmath, which is full of
  both (`atanf.c:70`, `atan2f.c:37`), does not, and `line.c` calls it. `ComparisonsRight` states both faults, and
  the comparison of the values for the other four. `__gtsf2` is 1 for what is not a number, so operators are
  compared for numbers only.
- `vsnprintf.c:206`, `:214`: `%f` writes a sign without looking for the end, and prints 10 and
  100 with a colon. `libc.c:406` promises 0 for a size of 0, where -1 is returned.
- `hdlcd.c:48`: a refused operation leaves the display half a byte off.
- `slowout.c:85`: only timer 1 is masked, but ticks and keys send from the handler. Inside the main
  program's `slowout_queue` an operation is overwritten in its slot or the timer is started
  twice, after which `level` counts below 0; inside a byte the nibbles of two bytes are mixed.
- `ui.c:93`: what `refresh_screen` has read is drawn over what a key has shown in between.
- `vgafb_pixelfeed.v:130`: the flag for a reset inside a burst is never needed: nothing calls
  `vga_disable`, and nothing releases the reset after it.
- `cffat.c:296`: the entry is looked at before it is compared with NULL, so that a listing
  whose read fails looks at address 0; the models list directories that can be read.
- `shell.c`, `main.c`: `mc` to a place behind its source repeats what is in between, as
  `CopyOf` states; `mr` counts bytes, `mw` and `mc` count words.

## Plan

The inventory is modelled as far as it says, and every safety property of the runs that the provers reach is a
theorem. What would come next:

1. `Softfloat`: the lemmas about rounding that are linear (`packFloat32`, comparisons).
2. The TMU core, of which only the registers are modelled.
3. The empty per-frame program and programs of several code pages, once the code handles them.

## Not modelled

The preset parser and scanner are generated; the signal analysis, `line.c`, `wave.c` and
libmath are pure numeric code; board, memory and network set-up run once, before interrupts
are enabled; `bootp.c` and `rarp.c` are compiled out (`CONFIG_COMMANDS` is not defined, and
`NetLoop` is only called for TFTP); the cores are modelled as far as their registers show,
and LM32 and the Ethernet controller are third-party. `float32_sqrt` and the checksums are left
out of the C library. `PROJECT.json` lists all of it part by part.
