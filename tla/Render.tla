------------------------------- MODULE Render -------------------------------
(***************************************************************************)
(* The renderer of the demo: software/demo/apipe.c (sound buffers are      *)
(* analysed and evaluated), software/demo/rpipe.c (evaluated frames are    *)
(* warped, drawn upon, copied and shown), and the recording half of        *)
(* software/libhal/snd.c which feeds them.                                 *)
(*                                                                         *)
(* The main loop runs the bottom halves step by step; between any two of   *)
(* its steps the interrupt handlers of the sound core, of the PFPU, of the *)
(* TMU and of the push buttons may run, each to its end.  Submitting a     *)
(* task and refilling a sound buffer are single steps: Drivers shows the   *)
(* former to be, the latter masks the interrupt it is shared with.         *)
(***************************************************************************)
EXTENDS Integers, Sequences

CONSTANTS FrameQSize,    \* RPIPE_FRAMEQ_SIZE
          BufQSize,      \* RECORD_BUFQ_SIZE
          MaxStarts      \* bound: renderer_start calls

ASSUME FrameQSizeAssumption == FrameQSize \in Nat \ {0}
ASSUME BufQSizeAssumption == BufQSize \in Nat /\ BufQSize >= 3
ASSUME MaxStartsAssumption == MaxStarts \in Nat

VARIABLES
  record_queue, record_overrun,          \* snd.c: the buffers to record into
  uctl, filling, dmaw,                   \* the sound core: enabled, the buffer it
                                         \* writes, its interrupt
  run_analyzer_bottom_half, analyzer_buffer, eval_ready,          \* apipe.c
  free, samples,                         \* apipe.c: frame<n>_free, frame<n>.samples
  pfpu_td, pfpu_queue, pfpu_done,        \* apipe.c's descriptor, how often the PFPU
                                         \* driver holds it, the PFPU's interrupt
  tmu_task, tmu_queue, tmu_done,         \* rpipe.c's two descriptors, those the TMU
                                         \* driver holds, the TMU's interrupt
  queue, produce, consume, level, cts,   \* rpipe.c: the frames to render
  bh_frame, run_wave_bottom_half, run_swap_bottom_half, spam_enabled,
  tex_frontbuffer, tex_backbuffer,
  texture, picture,                      \* what the textures and vga_backbuffer hold
  pc, rpipe_frame, loaded,               \* the main loop and its local variables
  rendering, starts,                     \* ui.c's state, renderer_start calls so far
  in_use, apart                          \* history: the frames allocated and not given
                                         \* back; none was ever given out twice

sound == <<record_queue, record_overrun, uctl, filling, dmaw>>
analysis == <<run_analyzer_bottom_half, analyzer_buffer, eval_ready>>
frames == <<free, samples, in_use, apart>>
pfpu == <<pfpu_td, pfpu_queue, pfpu_done>>
tmu == <<tmu_task, tmu_queue, tmu_done>>
ring == <<queue, produce, consume, level, cts>>
halves == <<bh_frame, run_wave_bottom_half, run_swap_bottom_half>>
pixels == <<tex_frontbuffer, tex_backbuffer, texture, picture>>
main == <<pc, rpipe_frame, loaded>>
ui == <<rendering, starts, spam_enabled>>
vars == <<sound, analysis, frames, pfpu, tmu, ring, halves, pixels, main, ui>>

Buffers == 1..3                       \* audiobuffer1 to audiobuffer3
NoBuffer == 0
Frames == {"frame1", "frame2"}
NoFrame == "none"
Textures == {"A", "B"}
Slots == 0..(FrameQSize - 1)
Wrap(p) == IF p = FrameQSize - 1 THEN 0 ELSE p + 1

NoTask == [op |-> "none", src |-> "A", dst |-> "A", user |-> NoFrame, last |-> FALSE]

-----------------------------------------------------------------------------
(* snd.c, recording *)

\* record_start: with a buffer programmed and the stream enabled, the core writes.
RecordStart(b) == filling' = b /\ uctl' = TRUE

\* snd_record_refill
Refill(b) ==
  IF Len(record_queue) >= BufQSize
  THEN UNCHANGED <<record_queue, record_overrun, uctl, filling>>
  ELSE /\ record_queue' = Append(record_queue, b)
       /\ record_overrun' = FALSE
       /\ IF record_overrun THEN RecordStart(b) ELSE UNCHANGED <<uctl, filling>>

\* free_rpipe_frame, through frame->callback or after a refused rpipe_input.
FreeFrame(f) ==
  /\ Refill(samples[f])
  /\ free' = free \cup {f}
  /\ in_use' = in_use \ {f}
  /\ UNCHANGED <<dmaw, samples, apart>>

\* alloc_rpipe_frame: no caller ever clears frame1_free or frame2_free.
Alloc ==
  IF "frame1" \in free THEN "frame1"
  ELSE IF "frame2" \in free THEN "frame2" ELSE NoFrame

-----------------------------------------------------------------------------
(* The submissions, and the frame queue of rpipe.c *)

SubmitPfpu(td, queued) == pfpu_td' = td /\ pfpu_queue' = queued + 1

\* The descriptor is filled in and submitted.
SubmitTmu(n, task) ==
  /\ tmu_task' = [tmu_task EXCEPT ![n] = task]
  /\ tmu_queue' = Append(tmu_queue, n)
  /\ UNCHANGED tmu_done

\* rpipe_start: warp the front texture into the back one over the frame's mesh.
Warp(f) == [op |-> "warp", src |-> tex_frontbuffer, dst |-> tex_backbuffer,
            user |-> f, last |-> FALSE]
RpipeStart(f) == SubmitTmu(1, Warp(f))

\* Mutant: the ring is not checked for room.
InputUnchecked(f) ==
  /\ queue' = [queue EXCEPT ![produce] = f]
  /\ produce' = Wrap(produce)
  /\ level' = level + 1
  /\ cts' = FALSE
  /\ IF cts THEN RpipeStart(f) ELSE UNCHANGED tmu
  /\ UNCHANGED <<consume, sound, frames>>

\* Mutant: an empty ring is taken for a free TMU.
InputByLevel(f) ==
  /\ level < FrameQSize
  /\ queue' = [queue EXCEPT ![produce] = f]
  /\ produce' = Wrap(produce)
  /\ level' = level + 1
  /\ cts' = FALSE
  /\ IF level = 0 THEN RpipeStart(f) ELSE UNCHANGED tmu
  /\ UNCHANGED <<consume, sound, frames>>

\* rpipe_input, accepting the frame
Input(f) ==
  /\ level < FrameQSize
  /\ queue' = [queue EXCEPT ![produce] = f]
  /\ produce' = Wrap(produce)
  /\ level' = level + 1
  /\ cts' = FALSE
  /\ IF cts THEN RpipeStart(f) ELSE UNCHANGED tmu
  /\ UNCHANGED <<consume, sound, frames>>

\* rpipe_input refuses, and pvv_callback frees the frame.
Refuse(f) ==
  /\ level >= FrameQSize
  /\ FreeFrame(f)
  /\ UNCHANGED <<ring, tmu>>

Init ==
  /\ record_queue = <<>> /\ record_overrun = FALSE
  /\ uctl = FALSE /\ filling = NoBuffer /\ dmaw = FALSE
  /\ run_analyzer_bottom_half = FALSE /\ analyzer_buffer = NoBuffer
  /\ eval_ready = TRUE /\ free = Frames
  /\ samples = [f \in Frames |-> NoBuffer]
  /\ pfpu_td = [callback |-> "none", user |-> NoFrame]
  /\ pfpu_queue = 0 /\ pfpu_done = FALSE
  /\ tmu_task = [n \in 1..2 |-> NoTask] /\ tmu_queue = <<>> /\ tmu_done = FALSE
  /\ queue = [s \in Slots |-> NoFrame]
  /\ produce = 0 /\ consume = 0 /\ level = 0 /\ cts = TRUE
  /\ bh_frame = NoFrame
  /\ run_wave_bottom_half = FALSE /\ run_swap_bottom_half = FALSE
  /\ spam_enabled = TRUE
  /\ tex_frontbuffer = "A" /\ tex_backbuffer = "B"
  /\ texture = [t \in Textures |-> "drawn"] /\ picture = "old"
  /\ pc = "loop" /\ rpipe_frame = NoFrame /\ loaded = 0
  /\ rendering = FALSE /\ starts = 0
  /\ in_use = {} /\ apart = TRUE

-----------------------------------------------------------------------------
(* The main loop *)

Goto(from, to) == pc = from /\ pc' = to

\* Mutant: an evaluation still under way is not waited for.
ServiceEager ==
  /\ pc = "loop"
  /\ pc' = IF run_analyzer_bottom_half THEN "alloc" ELSE "wave"
  /\ spam_enabled' \in BOOLEAN
  /\ UNCHANGED <<sound, analysis, frames, pfpu, tmu, ring, halves, pixels,
                 rpipe_frame, loaded, rendering, starts>>

\* A turn of the loop: the shell may run its spam command, which changes nothing else
\* here; then apipe_service finds a buffer to analyse and no evaluation under way, or not.
Service ==
  /\ pc = "loop"
  /\ pc' = IF run_analyzer_bottom_half /\ eval_ready THEN "alloc" ELSE "wave"
  /\ spam_enabled' \in BOOLEAN
  /\ UNCHANGED <<sound, analysis, frames, pfpu, tmu, ring, halves, pixels,
                 rpipe_frame, loaded, rendering, starts>>

\* analyzer_bottom_half takes a frame and hangs the buffer on it.
AllocFrame ==
  /\ Goto("alloc", "analyze")
  /\ Alloc # NoFrame
  /\ rpipe_frame' = Alloc
  /\ samples' = [samples EXCEPT ![Alloc] = analyzer_buffer]
  /\ in_use' = in_use \cup {Alloc}
  /\ apart' = (apart /\ Alloc \notin in_use)
  /\ UNCHANGED <<sound, analysis, free, pfpu, tmu, ring, halves, pixels, loaded, ui>>

\* The samples are analysed and the per-frame equations submitted.
Analyze ==
  /\ Goto("analyze", "submitted")
  /\ SubmitPfpu([callback |-> "pfv", user |-> rpipe_frame], pfpu_queue)
  /\ UNCHANGED <<sound, analysis, frames, pfpu_done, tmu, ring, halves, pixels,
                 rpipe_frame, loaded, ui>>

\* eval_ready = 0, once analyzer_bottom_half has returned.
ClearReady ==
  /\ Goto("submitted", "analyzed")
  /\ eval_ready' = FALSE
  /\ UNCHANGED <<sound, run_analyzer_bottom_half, analyzer_buffer, frames, pfpu, tmu,
                 ring, halves, pixels, rpipe_frame, loaded, ui>>

\* run_analyzer_bottom_half = 0; the buffer and the frame are not looked at again.
Analyzed ==
  /\ Goto("analyzed", "wave")
  /\ run_analyzer_bottom_half' = FALSE
  /\ analyzer_buffer' = NoBuffer /\ rpipe_frame' = NoFrame
  /\ UNCHANGED <<sound, eval_ready, frames, pfpu, tmu, ring, halves, pixels, loaded, ui>>

\* rpipe_service: is a frame warped?
TestWave ==
  /\ IF run_wave_bottom_half THEN Goto("wave", "draw") ELSE Goto("wave", "swap")
  /\ UNCHANGED <<sound, analysis, frames, pfpu, tmu, ring, halves, pixels,
                 rpipe_frame, loaded, ui>>

\* rpipe_draw_waves: the waves go on top of a warped picture.
DrawWaves ==
  /\ Goto("draw", "copy")
  /\ texture' = [texture EXCEPT ![tex_backbuffer] =
                   IF @ = "warped" THEN "drawn" ELSE "bad"]
  /\ UNCHANGED <<sound, analysis, frames, pfpu, tmu, ring, halves, tex_frontbuffer,
                 tex_backbuffer, picture, rpipe_frame, loaded, ui>>

\* Mutant: the copy calls rpipe_tmu_copydone even when the logo is still to come.
CopyCalls == [op |-> "copy", src |-> tex_backbuffer, dst |-> "A", user |-> NoFrame,
              last |-> TRUE]

\* tmu_task2 copies the texture to vga_backbuffer; rpipe_tmu_copydone is called after
\* the last task of a frame.
Copy == [op |-> "copy", src |-> tex_backbuffer, dst |-> "A", user |-> NoFrame,
         last |-> ~spam_enabled]
SubmitCopy ==
  /\ Goto("copy", IF spam_enabled THEN "spam" ELSE "copied")
  /\ SubmitTmu(2, Copy)
  /\ UNCHANGED <<sound, analysis, frames, pfpu, ring, halves, pixels, rpipe_frame,
                 loaded, ui>>

\* The logo is laid over the picture.
Logo == [op |-> "logo", src |-> "A", dst |-> "A", user |-> NoFrame, last |-> TRUE]
SubmitLogo ==
  /\ Goto("spam", "copied")
  /\ SubmitTmu(1, Logo)
  /\ UNCHANGED <<sound, analysis, frames, pfpu, ring, halves, pixels, rpipe_frame,
                 loaded, ui>>

\* Mutant: both bottom halves are taken for done.
WaveDoneBoth ==
  /\ Goto("copied", "swap")
  /\ run_wave_bottom_half' = FALSE /\ run_swap_bottom_half' = FALSE
  /\ UNCHANGED <<sound, analysis, frames, pfpu, tmu, ring, bh_frame, pixels,
                 rpipe_frame, loaded, ui>>

\* run_wave_bottom_half = 0
WaveDone ==
  /\ Goto("copied", "swap")
  /\ run_wave_bottom_half' = FALSE
  /\ UNCHANGED <<sound, analysis, frames, pfpu, tmu, ring, bh_frame,
                 run_swap_bottom_half, pixels, rpipe_frame, loaded, ui>>

\* rpipe_service: is a picture ready?
TestSwap ==
  /\ IF run_swap_bottom_half THEN Goto("swap", "swaptex") ELSE Goto("swap", "loop")
  /\ UNCHANGED <<sound, analysis, frames, pfpu, tmu, ring, halves, pixels,
                 rpipe_frame, loaded, ui>>

\* tex_backbuffer = tex_frontbuffer, the old value kept in b
SwapTextures1 ==
  /\ Goto("swaptex", "swaptex2")
  /\ tex_backbuffer' = tex_frontbuffer
  /\ UNCHANGED <<sound, analysis, frames, pfpu, tmu, ring, halves, tex_frontbuffer,
                 texture, picture, rpipe_frame, loaded, ui>>

\* tex_frontbuffer = b
SwapTextures2 ==
  /\ Goto("swaptex2", "show")
  /\ tex_frontbuffer' \in Textures \ {tex_frontbuffer}
  /\ UNCHANGED <<sound, analysis, frames, pfpu, tmu, ring, halves, tex_backbuffer,
                 texture, picture, rpipe_frame, loaded, ui>>

\* vga_swap_buffers: vga_backbuffer is now a picture no longer shown.
Show ==
  /\ Goto("show", "free")
  /\ picture' = "old"
  /\ UNCHANGED <<sound, analysis, frames, pfpu, tmu, ring, halves, tex_frontbuffer,
                 tex_backbuffer, texture, rpipe_frame, loaded, ui>>

\* queue[consume]->callback(queue[consume])
GiveBack ==
  /\ Goto("free", "consume")
  /\ FreeFrame(queue[consume])
  /\ UNCHANGED <<analysis, pfpu, tmu, ring, halves, pixels, rpipe_frame, loaded, ui>>

\* consume is advanced; level-- loads level, which pvv_callback also changes ...
LoadLevel ==
  /\ Goto("consume", "level")
  /\ consume' = Wrap(consume)
  /\ loaded' = level
  /\ UNCHANGED <<sound, analysis, frames, pfpu, tmu, queue, produce, level, cts, halves,
                 pixels, rpipe_frame, ui>>

\* ... and stores it.
StoreLevel ==
  /\ Goto("level", "next")
  /\ level' = loaded - 1 /\ loaded' = 0
  /\ UNCHANGED <<sound, analysis, frames, pfpu, tmu, queue, produce, consume, cts,
                 halves, pixels, rpipe_frame, ui>>

TestLevel ==
  /\ Goto("next", IF level > 0 THEN "start" ELSE "ready")
  /\ UNCHANGED <<sound, analysis, frames, pfpu, tmu, ring, halves, pixels, rpipe_frame,
                 loaded, ui>>

\* rpipe_start(queue[consume])
StartNext ==
  /\ Goto("start", "swapped")
  /\ RpipeStart(queue[consume])
  /\ UNCHANGED <<sound, analysis, frames, pfpu, ring, halves, pixels, rpipe_frame,
                 loaded, ui>>

\* cts = 1
Ready ==
  /\ Goto("ready", "swapped")
  /\ cts' = TRUE
  /\ UNCHANGED <<sound, analysis, frames, pfpu, tmu, queue, produce, consume, level,
                 halves, pixels, rpipe_frame, loaded, ui>>

\* run_swap_bottom_half = 0
SwapDone ==
  /\ Goto("swapped", "loop")
  /\ run_swap_bottom_half' = FALSE
  /\ UNCHANGED <<sound, analysis, frames, pfpu, tmu, ring, bh_frame,
                 run_wave_bottom_half, pixels, rpipe_frame, loaded, ui>>

Main ==
  \/ Service \/ AllocFrame \/ Analyze \/ ClearReady \/ Analyzed
  \/ TestWave \/ DrawWaves \/ SubmitCopy \/ SubmitLogo \/ WaveDone
  \/ TestSwap \/ SwapTextures1 \/ SwapTextures2 \/ Show \/ GiveBack
  \/ LoadLevel \/ StoreLevel \/ TestLevel \/ StartNext \/ Ready \/ SwapDone

-----------------------------------------------------------------------------
(* The sound core, the PFPU and the TMU *)

\* The buffer is full.
SoundFills ==
  /\ uctl /\ filling # NoBuffer
  /\ filling' = NoBuffer /\ dmaw' = TRUE
  /\ UNCHANGED <<record_queue, record_overrun, uctl, analysis, frames, pfpu, tmu, ring,
                 halves, pixels, main, ui>>

PfpuFinishes ==
  /\ pfpu_queue > 0 /\ ~pfpu_done
  /\ pfpu_done' = TRUE
  /\ UNCHANGED <<sound, analysis, frames, pfpu_td, pfpu_queue, tmu, ring, halves, pixels,
                 main, ui>>

\* What the TMU makes of the pixels, by the oldest task in its driver's ring.
TmuFinishes ==
  LET t == tmu_task[Head(tmu_queue)] IN
  /\ tmu_queue # <<>> /\ ~tmu_done
  /\ tmu_done' = TRUE
  /\ texture' = IF t.op # "warp" THEN texture
                ELSE [texture EXCEPT ![t.dst] =
                        IF t.src # t.dst /\ texture[t.src] = "drawn" THEN "warped" ELSE "bad"]
  /\ picture' = CASE t.op = "warp" -> picture
                  [] t.op = "copy" -> IF texture[t.src] # "drawn" THEN "bad"
                                      ELSE IF t.last THEN "finished" ELSE "copied"
                  [] t.op = "logo" -> IF picture = "copied" THEN "finished" ELSE "bad"
  /\ UNCHANGED <<sound, analysis, frames, pfpu, tmu_task, tmu_queue, ring, halves,
                 tex_frontbuffer, tex_backbuffer, main, ui>>

-----------------------------------------------------------------------------
(* The interrupt handlers *)

\* snd_isr_dmaw after the callback left the ring q: its head is done with, and the
\* next buffer recorded into.
NextBuffer(q) ==
  /\ record_queue' = Tail(q)
  /\ dmaw' = FALSE
  /\ IF Len(q) > 1
     THEN RecordStart(q[2]) /\ UNCHANGED record_overrun
     ELSE record_overrun' = TRUE /\ UNCHANGED <<uctl, filling>>

\* apipe_snd_callback keeps the buffer ...
KeepBuffer ==
  /\ dmaw /\ ~run_analyzer_bottom_half
  /\ analyzer_buffer' = Head(record_queue)
  /\ run_analyzer_bottom_half' = TRUE
  /\ NextBuffer(record_queue)
  /\ UNCHANGED <<eval_ready, frames, pfpu, tmu, ring, halves, pixels, main, ui>>

\* Mutant: a skipped buffer is not put back.
SkipBufferLost ==
  /\ dmaw /\ run_analyzer_bottom_half
  /\ NextBuffer(record_queue)
  /\ UNCHANGED <<analysis, frames, pfpu, tmu, ring, halves, pixels, main, ui>>

\* ... or skips it, putting it back while the ring still counts it.
SkipBuffer ==
  /\ dmaw /\ run_analyzer_bottom_half
  /\ NextBuffer(IF Len(record_queue) >= BufQSize THEN record_queue
                ELSE Append(record_queue, Head(record_queue)))
  /\ UNCHANGED <<analysis, frames, pfpu, tmu, ring, halves, pixels, main, ui>>

\* pfpu_isr with pfv_callback: the per-vertex equations are submitted from within.
PfvCallback ==
  /\ pfpu_done /\ pfpu_td.callback = "pfv"
  /\ SubmitPfpu([pfpu_td EXCEPT !.callback = "pvv"], pfpu_queue - 1)
  /\ pfpu_done' = FALSE
  /\ UNCHANGED <<sound, analysis, frames, tmu, ring, halves, pixels, main, ui>>

\* Mutant: a refused frame does not end the evaluation.
PvvCallbackRefused ==
  /\ pfpu_done /\ pfpu_td.callback = "pvv"
  /\ Input(pfpu_td.user) \/ Refuse(pfpu_td.user)
  /\ eval_ready' = (level < FrameQSize)
  /\ pfpu_done' = FALSE /\ pfpu_queue' = pfpu_queue - 1
  /\ UNCHANGED <<run_analyzer_bottom_half, analyzer_buffer, pfpu_td, halves, pixels,
                 main, ui>>

\* pfpu_isr with pvv_callback: the frame goes on to rpipe.c.
PvvCallback ==
  /\ pfpu_done /\ pfpu_td.callback = "pvv"
  /\ Input(pfpu_td.user) \/ Refuse(pfpu_td.user)
  /\ eval_ready' = TRUE
  /\ pfpu_done' = FALSE /\ pfpu_queue' = pfpu_queue - 1
  /\ UNCHANGED <<run_analyzer_bottom_half, analyzer_buffer, pfpu_td, halves, pixels,
                 main, ui>>

\* tmu_isr with rpipe_tmu_warpdone, with rpipe_tmu_copydone or with no callback
TmuIsr ==
  LET t == tmu_task[Head(tmu_queue)] IN
  /\ tmu_done
  /\ bh_frame' = IF t.op = "warp" THEN t.user ELSE bh_frame
  /\ run_wave_bottom_half' = (run_wave_bottom_half \/ t.op = "warp")
  /\ run_swap_bottom_half' = (run_swap_bottom_half \/ t.last)
  /\ tmu_queue' = Tail(tmu_queue) /\ tmu_done' = FALSE
  /\ UNCHANGED <<sound, analysis, frames, pfpu, tmu_task, ring, pixels, main, ui>>

\* ui_isr_key starts the renderer: apipe_start empties the record ring, puts the three
\* buffers in it wherever they are, and snd_record_start programs the core unless it
\* is still enabled.
Start ==
  /\ ~rendering /\ starts < MaxStarts
  /\ rendering' = TRUE /\ starts' = starts + 1
  /\ record_queue' = <<1, 2, 3>> /\ record_overrun' = FALSE
  /\ IF uctl THEN UNCHANGED <<uctl, filling>> ELSE RecordStart(1)
  /\ apart' = (apart /\ in_use = {} /\ ~run_analyzer_bottom_half)
  /\ UNCHANGED <<dmaw, analysis, free, samples, in_use, pfpu, tmu, ring, halves, pixels,
                 main, spam_enabled>>

\* ui_isr_key stops it: snd_record_stop disables the core and drops its interrupt; an
\* overrun is not forgotten.
Stop ==
  /\ rendering
  /\ rendering' = FALSE
  /\ uctl' = FALSE /\ dmaw' = FALSE
  /\ UNCHANGED <<record_queue, record_overrun, filling, analysis, frames, pfpu, tmu, ring,
                 halves, pixels, main, spam_enabled, starts>>

Units == SoundFills \/ PfpuFinishes \/ TmuFinishes
Handlers == KeepBuffer \/ SkipBuffer \/ PfvCallback \/ PvvCallback \/ TmuIsr

Next == Main \/ Units \/ Handlers \/ Start \/ Stop

SafetySpec == Init /\ [][Next]_vars

\* The main loop gets on between interrupts, the handler serves every interrupt that
\* is pending, and a started unit finishes.
Spec ==
  /\ SafetySpec
  /\ WF_vars(Main)
  /\ WF_vars(PfpuFinishes) /\ WF_vars(TmuFinishes)
  /\ WF_vars(PfvCallback \/ PvvCallback) /\ WF_vars(TmuIsr)

-----------------------------------------------------------------------------
(* Properties *)

\* Types, and that no ring is ever counted past its size or below zero.
TypeOK ==
  /\ record_queue \in Seq(Buffers) /\ Len(record_queue) <= BufQSize
  /\ record_overrun \in BOOLEAN /\ uctl \in BOOLEAN /\ dmaw \in BOOLEAN
  /\ filling \in Buffers \cup {NoBuffer}
  /\ run_analyzer_bottom_half \in BOOLEAN /\ eval_ready \in BOOLEAN
  /\ analyzer_buffer \in Buffers \cup {NoBuffer}
  /\ free \subseteq Frames /\ samples \in [Frames -> Buffers \cup {NoBuffer}]
  /\ pfpu_td \in [callback : {"none", "pfv", "pvv"}, user : Frames \cup {NoFrame}]
  /\ pfpu_queue \in 0..1 /\ pfpu_done \in BOOLEAN
  /\ tmu_queue \in Seq(1..2) /\ Len(tmu_queue) <= 2 /\ tmu_done \in BOOLEAN
  /\ queue \in [Slots -> Frames \cup {NoFrame}]
  /\ produce \in Slots /\ consume \in Slots /\ level \in 0..FrameQSize
  /\ cts \in BOOLEAN /\ bh_frame \in Frames \cup {NoFrame}
  /\ run_wave_bottom_half \in BOOLEAN /\ run_swap_bottom_half \in BOOLEAN
  /\ tex_frontbuffer \in Textures /\ tex_backbuffer \in Textures
  /\ texture \in [Textures -> {"warped", "drawn", "bad"}]
  /\ picture \in {"old", "copied", "finished", "bad"}
  /\ in_use \subseteq Frames /\ apart \in BOOLEAN

\* While the main loop draws in a texture, exchanges the textures or the screens, the
\* TMU neither reads nor writes any: however frames queue up behind each other, one
\* frame at a time is between its warp and its display.
TmuQuiet ==
  pc \in {"draw", "swaptex", "swaptex2", "show"} => tmu_queue = <<>>

\* A picture is shown only after its waves, its copy and its logo, each on top of the
\* one before, in whatever order callbacks, submissions and the shell's spam command
\* come.
OnlyFinishedShown == pc = "show" => picture = "finished"

\* apipe.c and rpipe.c use three descriptors for every frame: none is filled in again
\* while its unit works from it or it waits in the unit's ring.
DescriptorsStable ==
  [][/\ pfpu_td' # pfpu_td => pfpu_queue = 0 \/ pfpu_done
     /\ \A n \in 1..2 : tmu_task'[n] # tmu_task[n] =>
          \A i \in 1..Len(tmu_queue) : tmu_queue[i] = n => i = 1 /\ tmu_done]_vars

\* The buffer apipe_snd_callback kept and the analyzer has not yet put on a frame
Kept == IF run_analyzer_bottom_half /\ pc \notin {"analyze", "submitted", "analyzed"}
        THEN {analyzer_buffer} ELSE {}

Lent == {samples[f] : f \in in_use}
Recordable == {record_queue[i] : i \in 1..Len(record_queue)}

\* As long as no frame is given out twice, every sound buffer is in one place: to be
\* recorded, kept for analysis, or read by a frame; one is always left to record into,
\* and a stopped recorder stays stopped.
BuffersConserved ==
  apart /\ starts > 0 =>
    /\ Recordable \cup Kept \cup Lent = Buffers
    /\ Recordable \cap Kept = {} /\ (Recordable \cup Kept) \cap Lent = {}
    /\ \A i, j \in 1..Len(record_queue) : record_queue[i] = record_queue[j] => i = j
    /\ ~record_overrun
    /\ uctl => rendering

\* A frame the TMU has begun to render reaches the screen: no callback's flag is lost
\* between the handlers and the bottom halves that clear it.
EveryFrameShown == tmu_queue # <<>> ~> pc = "show"

\* pvv_callback has set eval_ready and the main loop is about to clear it: the
\* evaluation it waits for is over before it starts to wait.
Overtaken == pc = "submitted" /\ pfpu_queue = 0

\* Unless that happens, a buffer kept for analysis is taken up.
EveryBufferAnalyzed ==
  [](run_analyzer_bottom_half => <>(~run_analyzer_bottom_half)) \/ <>Overtaken

\* alloc_rpipe_frame gives out a frame only when it is not being evaluated or rendered.
FrameOwned == pc = "alloc" => Alloc \notin in_use

\* rpipe_input may start a frame at once only when no frame is waiting.
ReadyMeansEmpty == cts => level = 0
=============================================================================
