---------------------------- MODULE RenderProofs ----------------------------
(***************************************************************************)
(* The renderer, for every size of the two rings and any number of starts: *)
(* types, the TMU's silence while the main loop works on the pixels, what  *)
(* is shown, and where the sound buffers are.                              *)
(***************************************************************************)
EXTENDS Render, SequenceTheorems, TLAPS

(***************************************************************************)
(* The inductive invariant.                                                *)
(*                                                                         *)
(* A frame that is rendered passes through the stages of Token below, and  *)
(* no other frame is in any of them, although `level' may be too small by  *)
(* then (see RenderReady) and a frame may have been given out twice (see   *)
(* RenderFrames): what admits the next frame is cts, not level.            *)
(***************************************************************************)
Waving == {"copy", "spam", "copied"}
Showing == {"swaptex", "swaptex2", "show"}
Leaving == {"free", "consume", "level", "next", "start", "ready"}
Analyzing == {"analyze", "submitted", "analyzed"}
Points == {"loop", "alloc", "wave", "draw", "swap", "swapped"}
            \cup Analyzing \cup Waving \cup Showing \cup Leaving

Tasks == [op : {"none", "warp", "copy", "logo"}, src : Textures, dst : Textures,
          user : Frames \cup {NoFrame}, last : BOOLEAN]

Loop ==
  /\ pc \in Points /\ spam_enabled \in BOOLEAN
  /\ rendering \in BOOLEAN /\ starts \in Nat

\* snd.c: the core works on the head of the ring, or on nothing.
Recorder ==
  /\ record_queue \in Seq(Buffers) /\ Len(record_queue) <= BufQSize
  /\ record_overrun \in BOOLEAN /\ uctl \in BOOLEAN /\ dmaw \in BOOLEAN
  /\ filling \in Buffers \cup {NoBuffer}
  /\ dmaw => uctl /\ filling = NoBuffer /\ record_queue # <<>>
  /\ uctl /\ filling # NoBuffer => record_queue # <<>>
  /\ record_overrun => ~dmaw /\ filling = NoBuffer

\* apipe.c: frame1_free and frame2_free are never cleared, so that frame1 is the only frame
\* ever given out; it has a sound buffer wherever it is.
OnlyFrame(f) == f = "frame1" /\ samples[f] # NoBuffer
Analyzer ==
  /\ run_analyzer_bottom_half \in BOOLEAN /\ eval_ready \in BOOLEAN
  /\ analyzer_buffer \in Buffers \cup {NoBuffer}
  /\ free = Frames /\ samples \in [Frames -> Buffers \cup {NoBuffer}]
  /\ in_use \subseteq Frames /\ apart \in BOOLEAN
  /\ pfpu_td \in [callback : {"none", "pfv", "pvv"}, user : Frames \cup {NoFrame}]
  /\ pfpu_queue \in 0..1 /\ pfpu_done \in BOOLEAN
  /\ run_analyzer_bottom_half => analyzer_buffer # NoBuffer
  /\ pc \in {"alloc"} \cup Analyzing => run_analyzer_bottom_half
  /\ pc \in {"alloc", "analyze"} => eval_ready
  /\ eval_ready /\ pc # "submitted" => pfpu_queue = 0
  /\ pfpu_done => pfpu_queue = 1
  /\ pc = "analyze" => OnlyFrame(rpipe_frame)
  /\ pfpu_queue = 1 => OnlyFrame(pfpu_td.user)

\* rpipe.c: level never counts a frame that is not in the ring; once every slot has held a
\* frame, all that can be read from it is a frame.
Counted == IF pc = "level" THEN level - 1 ELSE level
Ring ==
  /\ queue \in [Slots -> Frames \cup {NoFrame}]
  /\ produce \in Slots /\ consume \in Slots /\ level \in 0..FrameQSize
  /\ loaded \in 0..FrameQSize
  /\ \A s \in Slots : queue[s] # NoFrame => OnlyFrame(queue[s])
  /\ \/ \A s \in Slots : queue[s] # NoFrame
     \/ /\ \A s \in Slots : s < produce => queue[s] # NoFrame
        /\ Counted <= produce - consume
  /\ pc = "level" => 1 <= loaded /\ loaded <= level
  /\ ~cts /\ pc \notin {"level", "next", "ready"} => level > 0

Other(t) == IF t = "A" THEN "B" ELSE "A"
Back == Other(tex_frontbuffer)

\* The front texture is drawn; the two are the same only in the midst of their exchange.
Pixels ==
  /\ tex_frontbuffer \in Textures
  /\ texture \in [Textures -> {"warped", "drawn", "bad"}]
  /\ picture \in {"old", "copied", "finished", "bad"}
  /\ IF pc = "swaptex2"
     THEN tex_backbuffer = tex_frontbuffer /\ texture[Back] = "drawn"
     ELSE tex_backbuffer = Back /\ texture[tex_frontbuffer] = "drawn"

\* The copy before the logo, and the logo
CopyFirst == tmu_task[2].op = "copy" /\ tmu_task[2].src = Back /\ ~tmu_task[2].last
CopyLast == tmu_task[2].op = "copy" /\ tmu_task[2].src = Back /\ tmu_task[2].last
LogoLast == tmu_task[1].op = "logo" /\ tmu_task[1].last

Idle == cts /\ tmu_queue = <<>> /\ ~run_wave_bottom_half
Warping ==
  /\ ~cts /\ tmu_queue = <<1>> /\ ~run_wave_bottom_half
  /\ tmu_task[1].op = "warp" /\ tmu_task[1].src = tex_frontbuffer
  /\ tmu_task[1].dst = Back /\ tmu_task[1].user \in Frames /\ ~tmu_task[1].last
  /\ tmu_done => texture[Back] = "warped"
Warped == ~cts /\ tmu_queue = <<>> /\ run_wave_bottom_half /\ texture[Back] = "warped"

Drawn == ~cts /\ texture[Back] = "drawn"
ToCopy == pc = "copy" /\ tmu_queue = <<>> /\ ~run_swap_bottom_half
ToLogo ==
  /\ pc = "spam" /\ ~run_swap_bottom_half
  /\ \/ tmu_queue = <<2>> /\ CopyFirst /\ (tmu_done => picture = "copied")
     \/ tmu_queue = <<>> /\ picture = "copied"
ToFinish ==
  \/ /\ ~run_swap_bottom_half
     /\ \/ tmu_queue = <<2, 1>> /\ CopyFirst /\ LogoLast /\ (tmu_done => picture = "copied")
        \/ tmu_queue = <<1>> /\ LogoLast /\ picture = (IF tmu_done THEN "finished" ELSE "copied")
        \/ tmu_queue = <<2>> /\ CopyLast /\ (tmu_done => picture = "finished")
  \/ run_swap_bottom_half /\ tmu_queue = <<>> /\ picture = "finished"
Finishing ==
  /\ Drawn /\ (run_wave_bottom_half <=> pc \in Waving)
  /\ IF pc = "copy" THEN ToCopy ELSE IF pc = "spam" THEN ToLogo ELSE ToFinish

Token ==
  /\ tmu_task \in [1..2 -> Tasks] /\ tmu_done \in BOOLEAN /\ cts \in BOOLEAN
  /\ bh_frame \in Frames \cup {NoFrame}
  /\ run_wave_bottom_half \in BOOLEAN /\ run_swap_bottom_half \in BOOLEAN
  /\ tmu_done => tmu_queue # <<>>
  /\ IF pc \in Waving THEN Finishing
     ELSE IF pc \in Showing \cup Leaving
     THEN /\ ~cts /\ tmu_queue = <<>> /\ ~run_wave_bottom_half /\ run_swap_bottom_half
          /\ pc \in Showing => picture = "finished"
          /\ pc = "swaptex" => texture[Back] = "drawn"
     ELSE IF pc = "draw" THEN Warped /\ ~run_swap_bottom_half
     ELSE IF pc = "swapped" THEN (Idle \/ Warping \/ Warped) /\ run_swap_bottom_half
     ELSE Finishing \/ ((Idle \/ Warping \/ Warped) /\ ~run_swap_bottom_half)

\* Where frame1 is, as long as it was not given out twice
Settled == cts /\ level = 0
Whereabouts ==
  IF in_use = {}
  THEN /\ pfpu_queue = 0 /\ pc \notin Analyzing
       /\ \/ Settled
          \/ ~cts /\ pc \in {"consume", "level"} /\ level = 1
          \/ ~cts /\ pc \in {"next", "ready"} /\ level = 0
  ELSE /\ in_use = {"frame1"}
       /\ \/ pc = "analyze" /\ pfpu_queue = 0 /\ Settled
          \/ pc # "analyze" /\ pfpu_queue = 1 /\ Settled
          \/ /\ ~cts /\ level = 1 /\ pfpu_queue = 0
             /\ pc \notin {"analyze", "consume", "level", "next", "start", "ready"}

Quiet ==
  /\ record_queue = <<>> /\ ~record_overrun /\ ~uctl /\ ~dmaw /\ ~run_analyzer_bottom_half
  /\ in_use = {} /\ ~rendering

Conserved ==
  apart => Whereabouts /\ IF starts = 0 THEN Quiet ELSE BuffersConserved

IInv == Loop /\ Recorder /\ Analyzer /\ Ring /\ Pixels /\ Token /\ Conserved

-----------------------------------------------------------------------------
LEMMA TmuQueues ==
  /\ Append(<<>>, 1) = <<1>> /\ Append(<<>>, 2) = <<2>> /\ Append(<<2>>, 1) = <<2, 1>>
  /\ Head(<<1>>) = 1 /\ Head(<<2>>) = 2 /\ Head(<<2, 1>>) = 2
  /\ Tail(<<1>>) = <<>> /\ Tail(<<2>>) = <<>> /\ Tail(<<2, 1>>) = <<1>>
  /\ {<<>>, <<1>>, <<2>>, <<2, 1>>} \subseteq Seq(1..2)
  /\ Len(<<1>>) = 1 /\ Len(<<2>>) = 1 /\ Len(<<2, 1>>) = 2
  /\ <<1>> # <<>> /\ <<2>> # <<>> /\ <<2, 1>> # <<>>
  /\ <<1>> # <<2>> /\ <<1>> # <<2, 1>> /\ <<2>> # <<2, 1>>
  <1>0. {<<>>, <<1>>, <<2>>, <<2, 1>>} \subseteq Seq(1..2)
    OBVIOUS
  <1>1. Append(<<>>, 1) = <<1>> /\ Append(<<>>, 2) = <<2>>
    OBVIOUS
  <1>a. Append(<<2>>, 1) = <<2, 1>>
    <2> DEFINE s == Append(<<2>>, 1)
               t == <<2, 1>>
    <2>1. s \in Seq(1..2) /\ t \in Seq(1..2) /\ Len(s) = 2 /\ Len(t) = 2
      OBVIOUS
    <2>2. s[1] = 2 /\ s[2] = 1 /\ t[1] = 2 /\ t[2] = 1
      OBVIOUS
    <2>3. \A i \in 1..Len(s) : s[i] = t[i]
      BY <2>1, <2>2
    <2> HIDE DEF s, t
    <2>4. s = t
      BY <2>1, <2>3, SeqEqual
    <2> QED BY <2>4 DEF s, t
  <1>2. Head(<<1>>) = 1 /\ Head(<<2>>) = 2 /\ Head(<<2, 1>>) = 2
    OBVIOUS
  <1>3. Tail(<<1>>) = <<>>
    OBVIOUS
  <1>4. Tail(<<2>>) = <<>>
    OBVIOUS
  <1>5. Tail(<<2, 1>>) = <<1>>
    OBVIOUS
  <1>6. <<1>> # <<>> /\ <<2>> # <<>> /\ <<2, 1>> # <<>>
    OBVIOUS
  <1>7. <<1>> # <<2>> /\ <<1>> # <<2, 1>> /\ <<2>> # <<2, 1>>
    OBVIOUS
  <1>8. Len(<<1>>) = 1 /\ Len(<<2>>) = 1 /\ Len(<<2, 1>>) = 2
    OBVIOUS
  <1> QED BY <1>8, <1>0, <1>1, <1>a, <1>2, <1>3, <1>4, <1>5, <1>6, <1>7

LEMMA Types == IInv => TypeOK
  <1> SUFFICES ASSUME IInv PROVE TypeOK
    OBVIOUS
  <1>1. tmu_queue \in {<<>>, <<1>>, <<2>>, <<2, 1>>}
    BY DEF IInv, Token, Finishing, ToCopy, ToLogo, ToFinish, Idle, Warping, Warped
  <1>2. tmu_queue \in Seq(1..2) /\ Len(tmu_queue) <= 2
    <2>1. CASE tmu_queue = <<>>
      BY <2>1
    <2>2. CASE tmu_queue = <<1>>
      BY <2>2
    <2>3. CASE tmu_queue = <<2>>
      BY <2>3
    <2>4. CASE tmu_queue = <<2, 1>>
      BY <2>4
    <2> QED BY <1>1, <2>1, <2>2, <2>3, <2>4
  <1>3. tex_backbuffer \in Textures
    BY DEF IInv, Pixels, Back, Other, Textures
  <1> QED BY <1>2, <1>3 DEF IInv, Recorder, Analyzer, Ring, Pixels, Token, TypeOK

LEMMA InitInv == Init => IInv
  <1> SUFFICES ASSUME Init PROVE IInv
    OBVIOUS
  <1> USE FrameQSizeAssumption, BufQSizeAssumption DEF Init, Frames, Textures, Slots
  <1>1. Loop
    BY DEF Loop, Points
  <1>2. Recorder
    BY EmptySeq, SMTT(30) DEF Recorder
  <1>3. Analyzer
    <2>1. /\ samples \in [Frames -> Buffers \cup {NoBuffer}]
          /\ pfpu_td \in [callback : {"none", "pfv", "pvv"}, user : Frames \cup {NoFrame}]
      OBVIOUS
    <2>2. free = Frames /\ in_use \subseteq Frames /\ apart \in BOOLEAN
      OBVIOUS
    <2>3. pfpu_queue = 0 /\ pc = "loop"
      OBVIOUS
    <2>5. pfpu_queue \in 0..1
      BY ONLY <2>3
    <2>6. ~pfpu_done /\ pfpu_done \in BOOLEAN /\ ~run_analyzer_bottom_half
      OBVIOUS
    <2>4. /\ run_analyzer_bottom_half \in BOOLEAN /\ eval_ready \in BOOLEAN
          /\ analyzer_buffer \in Buffers \cup {NoBuffer}
      OBVIOUS
    <2> QED BY ONLY <2>1, <2>2, <2>3, <2>4, <2>5, <2>6 DEF Analyzer, Analyzing
  <1>4. Ring
    BY DEF Ring, Counted
  <1>5. Pixels
    BY DEF Pixels, Other, Back
  <1>6. Token
    <2>1. tmu_task \in [1..2 -> Tasks]
      BY DEF Tasks, NoTask
    <2> QED BY <2>1 DEF Token, Idle, Waving, Showing, Leaving
  <1>7. Conserved
    BY DEF Conserved, Whereabouts, Quiet, Settled, Analyzing
  <1> QED BY <1>1, <1>2, <1>3, <1>4, <1>5, <1>6, <1>7 DEF IInv

-----------------------------------------------------------------------------
(* Which steps touch what *)

LEMMA SoundSteps ==
  ASSUME [Next]_vars
  PROVE  \/ UNCHANGED sound
         \/ GiveBack \/ PvvCallback \/ SoundFills \/ KeepBuffer \/ SkipBuffer \/ Start \/ Stop
  <1>1. ASSUME Service \/ AllocFrame \/ Analyze \/ ClearReady \/ Analyzed PROVE UNCHANGED sound
    BY <1>1 DEF Service, AllocFrame, Analyze, ClearReady, Analyzed
  <1>2. ASSUME TestWave \/ DrawWaves \/ SubmitCopy \/ SubmitLogo \/ WaveDone PROVE UNCHANGED sound
    BY <1>2 DEF TestWave, DrawWaves, SubmitCopy, SubmitLogo, WaveDone
  <1>3. ASSUME TestSwap \/ SwapTextures1 \/ SwapTextures2 \/ Show PROVE UNCHANGED sound
    BY <1>3 DEF TestSwap, SwapTextures1, SwapTextures2, Show
  <1>4. ASSUME LoadLevel \/ StoreLevel \/ TestLevel \/ StartNext \/ Ready \/ SwapDone
        PROVE  UNCHANGED sound
    BY <1>4 DEF LoadLevel, StoreLevel, TestLevel, StartNext, Ready, SwapDone
  <1>5. ASSUME PfpuFinishes \/ TmuFinishes \/ PfvCallback \/ TmuIsr \/ UNCHANGED vars
        PROVE  UNCHANGED sound
    BY <1>5 DEF PfpuFinishes, TmuFinishes, PfvCallback, TmuIsr, vars
  <1> QED BY <1>1, <1>2, <1>3, <1>4, <1>5 DEF Next, Main, Units, Handlers

LEMMA AnalyzerSteps ==
  ASSUME [Next]_vars
  PROVE  \/ /\ UNCHANGED <<analysis, frames, pfpu, rpipe_frame>>
            /\ pc' = pc \/ {pc, pc'} \cap ({"alloc"} \cup Analyzing) = {}
         \/ Service \/ AllocFrame \/ Analyze \/ ClearReady \/ Analyzed
         \/ GiveBack \/ PfpuFinishes \/ KeepBuffer \/ PfvCallback \/ PvvCallback \/ Start
  <1> DEFINE Same == /\ UNCHANGED <<analysis, frames, pfpu, rpipe_frame>>
                     /\ pc' = pc \/ {pc, pc'} \cap ({"alloc"} \cup Analyzing) = {}
  <1> USE DEF Goto, Analyzing
  <1>1. ASSUME TestWave \/ DrawWaves \/ SubmitCopy \/ SubmitLogo \/ WaveDone PROVE Same
    BY <1>1 DEF TestWave, DrawWaves, SubmitCopy, SubmitLogo, WaveDone
  <1>2. ASSUME TestSwap \/ SwapTextures1 \/ SwapTextures2 \/ Show PROVE Same
    BY <1>2 DEF TestSwap, SwapTextures1, SwapTextures2, Show
  <1>3. ASSUME LoadLevel \/ StoreLevel \/ TestLevel PROVE Same
    BY <1>3 DEF LoadLevel, StoreLevel, TestLevel
  <1>4. ASSUME StartNext \/ Ready \/ SwapDone PROVE Same
    BY <1>4 DEF StartNext, Ready, SwapDone
  <1>5. ASSUME SoundFills \/ TmuFinishes \/ SkipBuffer \/ TmuIsr \/ Stop \/ UNCHANGED vars PROVE Same
    BY <1>5 DEF SoundFills, TmuFinishes, SkipBuffer, TmuIsr, Stop, vars, main
  <1> QED BY <1>1, <1>2, <1>3, <1>4, <1>5 DEF Next, Main, Units, Handlers

LEMMA RingSteps ==
  ASSUME [Next]_vars
  PROVE  \/ /\ UNCHANGED <<ring, samples, loaded>>
            /\ pc' = pc \/ {pc, pc'} \cap {"level", "next", "ready"} = {}
         \/ AllocFrame \/ LoadLevel \/ StoreLevel \/ TestLevel \/ Ready \/ PvvCallback
  <1> DEFINE Same == /\ UNCHANGED <<ring, samples, loaded>>
                     /\ pc' = pc \/ {pc, pc'} \cap {"level", "next", "ready"} = {}
  <1> USE DEF Goto, frames, main
  <1>1. ASSUME Service \/ Analyze \/ ClearReady \/ Analyzed PROVE Same
    BY <1>1 DEF Service, Analyze, ClearReady, Analyzed
  <1>2. ASSUME TestWave \/ DrawWaves \/ SubmitCopy \/ SubmitLogo \/ WaveDone PROVE Same
    BY <1>2 DEF TestWave, DrawWaves, SubmitCopy, SubmitLogo, WaveDone
  <1>3. ASSUME TestSwap \/ SwapTextures1 \/ SwapTextures2 \/ Show PROVE Same
    BY <1>3 DEF TestSwap, SwapTextures1, SwapTextures2, Show
  <1>4. ASSUME GiveBack \/ StartNext \/ SwapDone PROVE Same
    BY <1>4 DEF GiveBack, FreeFrame, StartNext, SwapDone
  <1>5. ASSUME SoundFills \/ PfpuFinishes \/ TmuFinishes \/ KeepBuffer \/ SkipBuffer PROVE Same
    BY <1>5 DEF SoundFills, PfpuFinishes, TmuFinishes, KeepBuffer, SkipBuffer
  <1>6. ASSUME PfvCallback \/ TmuIsr \/ Start \/ Stop \/ UNCHANGED vars PROVE Same
    BY <1>6 DEF PfvCallback, TmuIsr, Start, Stop, vars
  <1> QED BY <1>1, <1>2, <1>3, <1>4, <1>5, <1>6 DEF Next, Main, Units, Handlers

Busy == Waving \cup Showing \cup Leaving \cup {"draw", "swapped"}

LEMMA TokenSteps ==
  ASSUME [Next]_vars
  PROVE  \/ /\ UNCHANGED <<tmu, cts, bh_frame, run_wave_bottom_half, run_swap_bottom_half, pixels>>
            /\ \/ pc' = pc
               \/ {pc, pc'} \cap Busy = {}
               \/ pc \in {"free", "consume", "level", "next"} /\ pc' \in Leaving
         \/ TestWave \/ DrawWaves \/ SubmitCopy \/ SubmitLogo \/ WaveDone
         \/ TestSwap \/ SwapTextures1 \/ SwapTextures2 \/ Show \/ StartNext \/ Ready \/ SwapDone
         \/ TmuFinishes \/ PvvCallback \/ TmuIsr
  <1> DEFINE Same == /\ UNCHANGED <<tmu, cts, bh_frame, run_wave_bottom_half,
                                    run_swap_bottom_half, pixels>>
                     /\ \/ pc' = pc
                        \/ {pc, pc'} \cap Busy = {}
                        \/ pc \in {"free", "consume", "level", "next"} /\ pc' \in Leaving
  <1> USE DEF Goto, ring, halves, main, Busy, Waving, Showing, Leaving
  <1>1. ASSUME Service \/ AllocFrame \/ Analyze \/ ClearReady \/ Analyzed PROVE Same
    BY <1>1 DEF Service, AllocFrame, Analyze, ClearReady, Analyzed
  <1>2. ASSUME GiveBack \/ LoadLevel \/ StoreLevel \/ TestLevel PROVE Same
    BY <1>2 DEF GiveBack, LoadLevel, StoreLevel, TestLevel
  <1>3. ASSUME SoundFills \/ PfpuFinishes \/ KeepBuffer \/ SkipBuffer PROVE Same
    BY <1>3 DEF SoundFills, PfpuFinishes, KeepBuffer, SkipBuffer
  <1>4. ASSUME PfvCallback \/ Start \/ Stop \/ UNCHANGED vars PROVE Same
    BY <1>4 DEF PfvCallback, Start, Stop, vars
  <1> QED BY <1>1, <1>2, <1>3, <1>4 DEF Next, Main, Units, Handlers

-----------------------------------------------------------------------------
(* Every step keeps every part. *)

LEMMA HeadIsFrame ==
  ASSUME IInv, pc = "free" \/ (pc = "start" /\ level > 0)
  PROVE  queue[consume] \in Frames /\ OnlyFrame(queue[consume])
  <1>1. Ring /\ ~cts
    BY DEF IInv, Token, Showing, Leaving, Waving
  <1>2. level > 0 /\ Counted = level /\ consume \in Slots /\ produce \in Slots
    BY <1>1 DEF Ring, Counted
  <1>3. queue[consume] # NoFrame
    BY <1>1, <1>2, FrameQSizeAssumption DEF Ring, Slots
  <1> QED BY <1>1, <1>2, <1>3 DEF Ring, OnlyFrame, Frames

\* A buffer given back to the recorder
LEMMA RefillRecorder ==
  ASSUME Recorder, NEW b \in Buffers, Refill(b), UNCHANGED dmaw
  PROVE  Recorder'
  <1>1. Append(record_queue, b) \in Seq(Buffers) /\ Len(Append(record_queue, b)) = Len(record_queue) + 1
        /\ Append(record_queue, b) # <<>> /\ Len(record_queue) \in Nat
    BY DEF Recorder
  <1>2. CASE Len(record_queue) >= BufQSize
    BY <1>2 DEF Refill, Recorder
  <1>3. CASE ~(Len(record_queue) >= BufQSize)
    <2>1. Len(record_queue) + 1 <= BufQSize
      BY <1>1, <1>3, BufQSizeAssumption
    <2>2. CASE record_overrun
      BY <1>1, <1>3, <2>1, <2>2 DEF Refill, Recorder, RecordStart
    <2>3. CASE ~record_overrun
      BY <1>1, <1>3, <2>1, <2>3 DEF Refill, Recorder
    <2> QED BY <2>2, <2>3
  <1> QED BY <1>2, <1>3

LEMMA NextBufferRecorder ==
  ASSUME Recorder, dmaw, NEW q \in Seq(Buffers), q # <<>>, Len(q) <= BufQSize, NextBuffer(q)
  PROVE  Recorder'
  <1>1. Tail(q) \in Seq(Buffers) /\ Len(Tail(q)) = Len(q) - 1 /\ Len(q) \in Nat
    BY HeadTailProperties
  <1>a. Len(Tail(q)) <= BufQSize
    BY <1>1, BufQSizeAssumption
  <1>b. record_queue' = Tail(q) /\ dmaw' = FALSE
    BY DEF NextBuffer
  <1>2. record_queue' \in Seq(Buffers) /\ Len(record_queue') <= BufQSize /\ dmaw' = FALSE
    BY <1>1, <1>a, <1>b
  <1>3. CASE Len(q) > 1
    <2>1. q[2] \in Buffers
      BY <1>1, <1>3, ElementOfSeq
    <2>a. Len(Tail(q)) # 0
      BY <1>1, <1>3
    <2>b. Len(<<>>) = 0
      OBVIOUS
    <2>2. record_queue' # <<>>
      BY <2>a, <2>b, <1>b
    <2>3. uctl' /\ uctl' \in BOOLEAN /\ filling' \in Buffers \cup {NoBuffer}
      BY <1>3, <2>1 DEF NextBuffer, RecordStart
    <2>4. record_overrun' \in BOOLEAN /\ ~record_overrun'
      BY <1>3 DEF NextBuffer, Recorder
    <2> QED BY <1>2, <2>2, <2>3, <2>4 DEF Recorder
  <1>4. CASE ~(Len(q) > 1)
    <2>1. record_overrun' = TRUE /\ uctl' = uctl /\ filling' = filling /\ filling = NoBuffer
      BY <1>4 DEF NextBuffer, Recorder
    <2> QED BY <1>2, <2>1 DEF Recorder
  <1> QED BY <1>3, <1>4

LEMMA NextRecorder == IInv /\ [Next]_vars => Recorder'
  <1> SUFFICES ASSUME IInv, [Next]_vars PROVE Recorder'
    OBVIOUS
  <1>r. Recorder
    BY DEF IInv
  <1>1. CASE UNCHANGED sound
    BY <1>1, <1>r DEF sound, Recorder
  <1>2. CASE GiveBack
    <2>1. samples[queue[consume]] \in Buffers
      BY <1>2, HeadIsFrame DEF GiveBack, Goto, IInv, Analyzer, OnlyFrame
    <2> QED BY <1>2, <1>r, <2>1, RefillRecorder DEF GiveBack, FreeFrame
  <1>3. CASE PvvCallback
    <2>1. samples[pfpu_td.user] \in Buffers
      BY <1>3 DEF PvvCallback, IInv, Analyzer, OnlyFrame, Frames
    <2>2. CASE Input(pfpu_td.user)
      BY <2>2, <1>r DEF Input, sound, Recorder
    <2>3. CASE Refuse(pfpu_td.user)
      BY <2>3, <1>r, <2>1, RefillRecorder DEF Refuse, FreeFrame
    <2> QED BY <1>3, <2>2, <2>3 DEF PvvCallback
  <1>4. CASE SoundFills
    BY <1>4, <1>r DEF SoundFills, Recorder
  <1>5. CASE KeepBuffer
    BY <1>5, <1>r, NextBufferRecorder DEF KeepBuffer, Recorder
  <1>6. CASE SkipBuffer
    <2> DEFINE q == IF Len(record_queue) >= BufQSize THEN record_queue
                    ELSE Append(record_queue, Head(record_queue))
    <2>1. record_queue # <<>> /\ record_queue \in Seq(Buffers) /\ Len(record_queue) <= BufQSize /\ dmaw
      BY <1>6, <1>r DEF SkipBuffer, Recorder
    <2>2. Head(record_queue) \in Buffers
      BY <2>1, HeadTailProperties
    <2>3. q \in Seq(Buffers) /\ q # <<>> /\ Len(q) <= BufQSize
      BY <2>1, <2>2, BufQSizeAssumption
    <2>4. NextBuffer(q)
      BY <1>6 DEF SkipBuffer
    <2> HIDE DEF q
    <2> QED BY <1>r, <2>1, <2>3, <2>4, NextBufferRecorder
  <1>7. CASE Start
    <2>1. <<1, 2, 3>> \in Seq(Buffers) /\ Len(<<1, 2, 3>>) = 3 /\ <<1, 2, 3>> # <<>>
      BY DEF Buffers
    <2>2. record_queue' \in Seq(Buffers) /\ Len(record_queue') <= BufQSize /\ record_queue' # <<>>
      BY <1>7, <2>1, BufQSizeAssumption DEF Start
    <2>3. record_overrun' = FALSE /\ dmaw' = dmaw
      BY <1>7 DEF Start
    <2>4. CASE uctl
      <3>1. uctl' = uctl /\ filling' = filling
        BY <1>7, <2>4 DEF Start
      <3> QED BY <1>r, <2>2, <2>3, <3>1 DEF Recorder
    <2>5. CASE ~uctl
      <3>1. uctl' = TRUE /\ filling' = 1 /\ 1 \in Buffers
        BY <1>7, <2>5 DEF Start, RecordStart, Buffers
      <3>2. ~dmaw
        BY <1>r, <2>5 DEF Recorder
      <3> QED BY <1>r, <2>2, <2>3, <3>1, <3>2 DEF Recorder
    <2> QED BY <2>4, <2>5
  <1>8. CASE Stop
    BY <1>8, <1>r DEF Stop, Recorder
  <1> QED BY <1>1, <1>2, <1>3, <1>4, <1>5, <1>6, <1>7, <1>8, SoundSteps

LEMMA NextLoop == IInv /\ [Next]_vars => Loop'
  <1> SUFFICES ASSUME IInv, [Next]_vars PROVE Loop'
    OBVIOUS
  <1>l. Loop
    BY DEF IInv
  <1> USE DEF Loop, Points, Analyzing, Waving, Showing, Leaving, Goto, ui, main
  <1>1. ASSUME Service \/ AllocFrame \/ Analyze \/ ClearReady \/ Analyzed PROVE Loop'
    BY <1>1, <1>l DEF Service, AllocFrame, Analyze, ClearReady, Analyzed
  <1>2. ASSUME TestWave \/ DrawWaves \/ SubmitCopy \/ SubmitLogo \/ WaveDone PROVE Loop'
    BY <1>2, <1>l DEF TestWave, DrawWaves, SubmitCopy, SubmitLogo, WaveDone
  <1>3. ASSUME TestSwap \/ SwapTextures1 \/ SwapTextures2 \/ Show \/ GiveBack PROVE Loop'
    BY <1>3, <1>l DEF TestSwap, SwapTextures1, SwapTextures2, Show, GiveBack
  <1>4. ASSUME LoadLevel \/ StoreLevel \/ TestLevel \/ StartNext \/ Ready \/ SwapDone PROVE Loop'
    BY <1>4, <1>l DEF LoadLevel, StoreLevel, TestLevel, StartNext, Ready, SwapDone
  <1>5. ASSUME SoundFills \/ PfpuFinishes \/ TmuFinishes \/ KeepBuffer \/ SkipBuffer PROVE Loop'
    BY <1>5, <1>l DEF SoundFills, PfpuFinishes, TmuFinishes, KeepBuffer, SkipBuffer
  <1>6. ASSUME PfvCallback \/ PvvCallback \/ TmuIsr \/ UNCHANGED vars PROVE Loop'
    BY <1>6, <1>l DEF PfvCallback, PvvCallback, TmuIsr, vars
  <1>7. ASSUME Start \/ Stop PROVE Loop'
    <2>1. UNCHANGED <<pc, spam_enabled>> /\ starts' \in Nat
      BY <1>7, <1>l DEF Start, Stop
    <2>2. rendering' = TRUE \/ rendering' = FALSE
      BY <1>7 DEF Start, Stop
    <2> QED BY <1>l, <2>1, <2>2
  <1> QED BY <1>1, <1>2, <1>3, <1>4, <1>5, <1>6, <1>7 DEF Next, Main, Units, Handlers

LEMMA NextAnalyzer == IInv /\ [Next]_vars => Analyzer'
  <1> SUFFICES ASSUME IInv, [Next]_vars PROVE Analyzer'
    OBVIOUS
  <1>a. Analyzer
    BY DEF IInv
  <1> USE DEF analysis, frames, pfpu, OnlyFrame
  <1>1. CASE /\ UNCHANGED <<analysis, frames, pfpu, rpipe_frame>>
             /\ pc' = pc \/ {pc, pc'} \cap ({"alloc"} \cup Analyzing) = {}
    BY <1>1, <1>a DEF Analyzer, Analyzing
  <1> USE DEF Goto, Analyzing
  <1>2. CASE Service
    BY <1>2, <1>a DEF Service, Analyzer
  <1>3. CASE AllocFrame
    BY <1>3, <1>a DEF AllocFrame, Alloc, Analyzer, Frames
  <1>4. CASE Analyze
    <2>1. pfpu_td' = [callback |-> "pfv", user |-> rpipe_frame] /\ pfpu_queue' = 1
      BY <1>4, <1>a DEF Analyze, SubmitPfpu, Analyzer
    <2>2. OnlyFrame(rpipe_frame) /\ run_analyzer_bottom_half
      BY <1>4, <1>a DEF Analyze, Analyzer
    <2>3. UNCHANGED <<analysis, frames, pfpu_done, rpipe_frame>> /\ pc' = "submitted"
      BY <1>4 DEF Analyze
    <2> QED BY <1>a, <2>1, <2>2, <2>3 DEF Analyzer, Frames
  <1>5. CASE ClearReady
    BY <1>5, <1>a DEF ClearReady, Analyzer
  <1>6. CASE Analyzed
    BY <1>6, <1>a DEF Analyzed, Analyzer
  <1>7. CASE GiveBack
    <2>1. queue[consume] \in Frames
      BY <1>7, HeadIsFrame DEF GiveBack
    <2> QED BY <1>7, <2>1, <1>a DEF GiveBack, FreeFrame, Analyzer, Frames
  <1>8. CASE PfpuFinishes
    <2>1. pfpu_queue = 1 /\ pfpu_queue' = 1
      BY <1>8, <1>a DEF PfpuFinishes, Analyzer
    <2>2. pfpu_done' = TRUE
      BY <1>8 DEF PfpuFinishes
    <2>3. UNCHANGED <<analysis, frames, pfpu_td, rpipe_frame, pc>>
      BY <1>8 DEF PfpuFinishes, main
    <2> QED BY <1>a, <2>1, <2>2, <2>3 DEF Analyzer
  <1>9. CASE KeepBuffer
    <2>1. analyzer_buffer' \in Buffers /\ run_analyzer_bottom_half' = TRUE
      BY <1>9, HeadTailProperties DEF KeepBuffer, IInv, Recorder
    <2>2. UNCHANGED <<eval_ready, frames, pfpu, pc, rpipe_frame>>
      BY <1>9 DEF KeepBuffer, main
    <2> QED BY <2>1, <2>2, <1>a DEF Analyzer, Buffers, NoBuffer
  <1>10. CASE PfvCallback
    <2>1. pfpu_queue = 1 /\ pfpu_queue' = 1 /\ pfpu_done' = FALSE
      BY <1>10, <1>a DEF PfvCallback, SubmitPfpu, Analyzer
    <2>2. pfpu_td'.user = pfpu_td.user
          /\ pfpu_td' \in [callback : {"none", "pfv", "pvv"}, user : Frames \cup {NoFrame}]
      BY <1>10, <1>a DEF PfvCallback, SubmitPfpu, Analyzer
    <2>3. UNCHANGED <<analysis, frames, pc, rpipe_frame>>
      BY <1>10 DEF PfvCallback, main
    <2> QED BY <1>a, <2>1, <2>2, <2>3 DEF Analyzer
  <1>11. CASE PvvCallback
    <2>1. pfpu_queue' = 0 /\ pfpu_done' = FALSE /\ eval_ready' = TRUE
      BY <1>11, <1>a DEF PvvCallback, Analyzer
    <2>2. UNCHANGED <<run_analyzer_bottom_half, analyzer_buffer, pfpu_td, samples, apart, pc, rpipe_frame>>
      BY <1>11 DEF PvvCallback, Input, Refuse, FreeFrame, main
    <2>3. free' = Frames /\ in_use' \subseteq Frames
      BY <1>11, <1>a DEF PvvCallback, Input, Refuse, FreeFrame, Analyzer, Frames
    <2>4. pfpu_queue' \in 0..1 /\ pfpu_queue' # 1
      BY <2>1
    <2>5. pfpu_done' \in BOOLEAN /\ eval_ready' \in BOOLEAN /\ ~pfpu_done' /\ eval_ready'
      BY <2>1
    <2> QED BY <1>a, <2>1, <2>2, <2>3, <2>4, <2>5 DEF Analyzer
  <1>12. CASE Start
    <2>1. UNCHANGED <<analysis, free, samples, in_use, pfpu, pc, rpipe_frame>>
      BY <1>12 DEF Start, main
    <2>2. apart' \in BOOLEAN
      BY <1>12 DEF Start
    <2> QED BY <1>a, <2>1, <2>2 DEF Analyzer
  <1> QED BY <1>1, <1>2, <1>3, <1>4, <1>5, <1>6, <1>7, <1>8, <1>9, <1>10, <1>11, <1>12,
             AnalyzerSteps

LEMMA NextRing == IInv /\ [Next]_vars => Ring'
  <1> SUFFICES ASSUME IInv, [Next]_vars PROVE Ring'
    OBVIOUS
  <1>r. Ring
    BY DEF IInv
  <1>1. CASE /\ UNCHANGED <<ring, samples, loaded>>
             /\ pc' = pc \/ {pc, pc'} \cap {"level", "next", "ready"} = {}
    BY <1>1, <1>r DEF ring, Ring, Counted, OnlyFrame
  <1> USE DEF Goto
  <1>2. CASE AllocFrame
    <2>1. UNCHANGED <<ring, loaded>> /\ pc = "alloc" /\ pc' = "analyze"
      BY <1>2 DEF AllocFrame
    <2>2. samples' = [samples EXCEPT !["frame1"] = analyzer_buffer] /\ analyzer_buffer # NoBuffer
          /\ samples \in [Frames -> Buffers \cup {NoBuffer}]
      BY <1>2 DEF AllocFrame, Alloc, IInv, Analyzer, Frames
    <2>3. \A f : OnlyFrame(f) => OnlyFrame(f)'
      BY <2>2 DEF OnlyFrame, Frames
    <2> QED BY <2>1, <2>3, <1>r DEF ring, Ring, Counted
  <1>3. CASE LoadLevel
    <2>1. level > 0 /\ pc = "consume" /\ pc' = "level"
      BY <1>3, <1>r DEF LoadLevel, IInv, Token, Waving, Showing, Leaving, Ring
    <2>2. consume' = Wrap(consume) /\ loaded' = level /\ UNCHANGED <<queue, produce, level, cts, samples>>
      BY <1>3 DEF LoadLevel, frames
    <2>3. Wrap(consume) \in Slots
      BY <1>r, FrameQSizeAssumption DEF Ring, Wrap, Slots
    <2>4. CASE \A s \in Slots : queue[s] # NoFrame
      BY <1>r, <2>1, <2>2, <2>3, <2>4 DEF Ring, OnlyFrame, Counted
    <2>5. CASE ~\A s \in Slots : queue[s] # NoFrame
      <3>1. level <= produce - consume /\ \A s \in Slots : s < produce => queue[s] # NoFrame
        BY <1>r, <2>1, <2>5 DEF Ring, Counted
      <3>2. Wrap(consume) = consume + 1
        BY <1>r, <2>1, <3>1, FrameQSizeAssumption DEF Ring, Wrap, Slots
      <3>3. level - 1 <= produce - (consume + 1)
        BY <1>r, <3>1, FrameQSizeAssumption DEF Ring, Slots
      <3> QED BY <1>r, <2>1, <2>2, <2>3, <3>1, <3>2, <3>3 DEF Ring, OnlyFrame, Counted
    <2> QED BY <2>4, <2>5
  <1>4. CASE StoreLevel
    <2>1. pc = "level" /\ pc' = "next" /\ level' = loaded - 1 /\ loaded' = 0
      BY <1>4 DEF StoreLevel
    <2>2. UNCHANGED <<queue, produce, consume, cts, samples>>
      BY <1>4 DEF StoreLevel, frames
    <2>3. 1 <= loaded /\ loaded <= level
      BY <1>r, <2>1 DEF Ring
    <2>4. Counted' <= Counted /\ level' \in 0..FrameQSize /\ 0 \in 0..FrameQSize
      BY <1>r, <2>1, <2>3, FrameQSizeAssumption DEF Ring, Counted
    <2>5. Counted' <= produce - consume \/ ~(Counted <= produce - consume)
      BY <1>r, <2>1, <2>3, <2>4, FrameQSizeAssumption DEF Ring, Counted, Slots
    <2> QED BY <1>r, <2>1, <2>2, <2>4, <2>5 DEF Ring, OnlyFrame
  <1>5. CASE TestLevel
    <2>1. UNCHANGED <<queue, produce, consume, level, cts, samples, loaded>>
      BY <1>5 DEF TestLevel, frames, ring
    <2>2. pc = "next" /\ pc' \in {"start", "ready"} /\ (pc' = "start" => level > 0)
      BY <1>5 DEF TestLevel
    <2> QED BY <1>r, <2>1, <2>2 DEF Ring, OnlyFrame, Counted
  <1>6. CASE Ready
    <2>1. UNCHANGED <<queue, produce, consume, level, samples, loaded>> /\ cts' = TRUE
      BY <1>6 DEF Ready, frames
    <2>2. pc = "ready" /\ pc' = "swapped"
      BY <1>6 DEF Ready
    <2> QED BY <1>r, <2>1, <2>2 DEF Ring, OnlyFrame, Counted
  <1>7. CASE PvvCallback
    <2> DEFINE f == pfpu_td.user
    <2>1. OnlyFrame(f) /\ f \in Frames /\ f # NoFrame
      BY <1>7 DEF PvvCallback, IInv, Analyzer, OnlyFrame, Frames, NoFrame
    <2>2. UNCHANGED <<pc, loaded, samples>>
      BY <1>7 DEF PvvCallback, main, Input, Refuse, FreeFrame, frames
    <2>3. CASE Refuse(f)
      BY <2>2, <2>3, <1>r DEF Refuse, ring, Ring, OnlyFrame, Counted
    <2>4. CASE Input(f)
      <3> HIDE DEF f
      <3>1. /\ level < FrameQSize /\ queue' = [queue EXCEPT ![produce] = f]
            /\ produce' = Wrap(produce) /\ level' = level + 1 /\ UNCHANGED consume
        BY <2>4 DEF Input
      <3>2. /\ queue' \in [Slots -> Frames \cup {NoFrame}] /\ Wrap(produce) \in Slots
            /\ level + 1 \in 0..FrameQSize /\ Counted' = Counted + 1
        BY <1>r, <2>1, <2>2, <3>1, FrameQSizeAssumption DEF Ring, Wrap, Slots, Counted
      <3>3. (\A s \in Slots : queue[s] # NoFrame => OnlyFrame(queue[s]))'
        BY <1>r, <2>1, <2>2, <3>1 DEF Ring, OnlyFrame
      <3>4. \A s \in Slots : queue[s] # NoFrame \/ s = produce => queue'[s] # NoFrame
        BY <1>r, <2>1, <3>1 DEF Ring
      <3>5. \/ \A s \in Slots : queue'[s] # NoFrame
            \/ /\ \A s \in Slots : s < produce' => queue'[s] # NoFrame
               /\ Counted' <= produce' - consume'
        <4>1. CASE \A s \in Slots : queue[s] # NoFrame
          BY <3>4, <4>1
        <4>2. CASE /\ \A s \in Slots : s < produce => queue[s] # NoFrame
                   /\ Counted <= produce - consume
          <5>1. CASE produce = FrameQSize - 1
            BY <1>r, <3>4, <4>2, <5>1, FrameQSizeAssumption DEF Ring, Slots
          <5>2. CASE produce # FrameQSize - 1
            <6>1. produce' = produce + 1
              BY <3>1, <5>2 DEF Wrap
            <6>2. Counted' <= produce' - consume'
              BY <1>r, <3>1, <3>2, <4>2, <6>1, FrameQSizeAssumption DEF Ring, Slots, Counted
            <6> QED BY <1>r, <3>4, <4>2, <6>1, <6>2, FrameQSizeAssumption DEF Ring, Slots
          <5> QED BY <5>1, <5>2
        <4> QED BY <1>r, <4>1, <4>2 DEF Ring
      <3>6. /\ pc' = "level" => 1 <= loaded' /\ loaded' <= level'
            /\ level' > 0 /\ loaded' \in 0..FrameQSize
        BY <1>r, <2>2, <3>1, FrameQSizeAssumption DEF Ring
      <3> QED BY <1>r, <3>1, <3>2, <3>3, <3>5, <3>6 DEF Ring
    <2> QED BY <1>7, <2>3, <2>4 DEF PvvCallback
  <1> QED BY <1>1, <1>2, <1>3, <1>4, <1>5, <1>6, <1>7, RingSteps

\* What the TMU may be at work on
LEMMA Running ==
  ASSUME IInv, tmu_queue # <<>>
  PROVE  /\ pc \notin Showing \cup Leaving \cup {"draw", "copy"}
         /\ \/ Warping /\ Head(tmu_queue) = 1 /\ Tail(tmu_queue) = <<>> /\ pc \notin Waving
            \/ /\ Drawn /\ Head(tmu_queue) = 2 /\ tmu_queue = <<2>> /\ Tail(tmu_queue) = <<>>
               /\ tmu_task[2].op = "copy" /\ tmu_task[2].src = Back
            \/ /\ Drawn /\ Head(tmu_queue) = 2 /\ tmu_queue = <<2, 1>> /\ Tail(tmu_queue) = <<1>>
               /\ tmu_task[2].op = "copy" /\ tmu_task[2].src = Back /\ ~tmu_task[2].last
            \/ /\ Drawn /\ Head(tmu_queue) = 1 /\ tmu_queue = <<1>> /\ Tail(tmu_queue) = <<>>
               /\ LogoLast /\ (~tmu_done => picture = "copied")
  BY TmuQueues DEF IInv, Token, Finishing, ToCopy, ToLogo, ToFinish, Idle, Warping, Warped,
                   CopyFirst, CopyLast, LogoLast, Waving, Showing, Leaving

LEMMA Textures2 == \A t \in Textures : Other(t) \in Textures /\ Other(t) # t /\ Other(Other(t)) = t
  BY DEF Textures, Other

LEMMA NextPixels == IInv /\ [Next]_vars => Pixels'
  <1> SUFFICES ASSUME IInv, [Next]_vars PROVE Pixels'
    OBVIOUS
  <1>p. Pixels /\ Token
    BY DEF IInv
  <1> USE DEF Goto, pixels, Busy, Leaving, Showing, Waving
  <1>1. CASE /\ UNCHANGED pixels
             /\ pc' = pc \/ {pc, pc'} \cap {"swaptex2"} = {}
    BY <1>1, <1>p DEF Pixels, Back
  <1>2. CASE TestWave \/ SubmitCopy \/ SubmitLogo \/ WaveDone \/ TestSwap
    BY <1>1, <1>2 DEF TestWave, SubmitCopy, SubmitLogo, WaveDone, TestSwap
  <1>3. CASE StartNext \/ Ready \/ SwapDone \/ PvvCallback \/ TmuIsr
    BY <1>1, <1>3 DEF StartNext, Ready, SwapDone, PvvCallback, TmuIsr, main
  <1>4. CASE DrawWaves
    BY <1>4, <1>p, Textures2 DEF DrawWaves, Pixels, Back
  <1>5. CASE SwapTextures1
    BY <1>5, <1>p DEF SwapTextures1, Pixels, Token, Back
  <1>6. CASE SwapTextures2
    BY <1>6, <1>p, Textures2 DEF SwapTextures2, Pixels, Back, Textures, Other
  <1>7. CASE Show
    BY <1>7, <1>p DEF Show, Pixels, Back
  <1>8. CASE TmuFinishes
    <2> DEFINE t == tmu_task[Head(tmu_queue)]
    <2>1. UNCHANGED <<pc, tex_frontbuffer, tex_backbuffer>> /\ pc # "swaptex2"
      BY <1>8, Running DEF TmuFinishes, main
    <2>2. t.op = "warp" => t.dst = Back
      BY <1>8, Running DEF TmuFinishes, Warping, LogoLast
    <2>3. t.op \in {"warp", "copy", "logo"}
      BY <1>8, Running DEF TmuFinishes, Warping, LogoLast
    <2>4. /\ texture' \in [Textures -> {"warped", "drawn", "bad"}]
          /\ texture'[tex_frontbuffer] = texture[tex_frontbuffer]
      BY <1>8, <1>p, <2>1, <2>2, Textures2 DEF TmuFinishes, Pixels, Back
    <2>5. picture' \in {"old", "copied", "finished", "bad"}
      BY <1>8, <1>p, <2>3 DEF TmuFinishes, Pixels
    <2> QED BY <1>p, <2>1, <2>4, <2>5 DEF Pixels, Back
  <1> QED BY <1>1, <1>2, <1>3, <1>4, <1>5, <1>6, <1>7, <1>8, TokenSteps

\* rpipe_start with an idle TMU
LEMMA StartWarps ==
  ASSUME Token, Pixels, pc # "swaptex2", tmu_queue = <<>>, ~run_wave_bottom_half',
         UNCHANGED pixels, ~cts', NEW f \in Frames, RpipeStart(f)
  PROVE  Warping' /\ tmu_task' \in [1..2 -> Tasks] /\ tmu_queue' # <<>>
  <1>1. /\ tmu_task' = [tmu_task EXCEPT ![1] = Warp(f)] /\ tmu_queue' = <<1>> /\ tmu_done' = tmu_done
        /\ ~tmu_done
    BY TmuQueues DEF RpipeStart, SubmitTmu, Token
  <1>2. /\ Warp(f).op = "warp" /\ Warp(f).src = tex_frontbuffer /\ Warp(f).dst = Back
        /\ Warp(f).user = f /\ ~Warp(f).last
    BY DEF Warp, Pixels
  <1>3. Warp(f) \in Tasks
    BY Textures2 DEF Warp, Tasks, Pixels, Back
  <1>4. tmu_task' \in [1..2 -> Tasks] /\ tmu_task'[1] = Warp(f)
    BY <1>1, <1>3 DEF Token
  <1>5. Back' = Back /\ tex_frontbuffer' = tex_frontbuffer
    BY DEF Back, pixels
  <1> QED BY <1>1, <1>2, <1>4, <1>5, TmuQueues DEF Warping

LEMMA NextToken == IInv /\ [Next]_vars => Token'
  <1> SUFFICES ASSUME IInv, [Next]_vars PROVE Token'
    OBVIOUS
  <1>k. Token /\ Pixels
    BY DEF IInv
  <1> USE DEF Goto, tmu, ring, halves, pixels, main, Waving, Showing, Leaving
  <1> DEFINE Stages == <<tmu, cts, bh_frame, run_wave_bottom_half, run_swap_bottom_half, pixels>>
  <1>1. CASE /\ UNCHANGED <<tmu, cts, bh_frame, run_wave_bottom_half, run_swap_bottom_half, pixels>>
             /\ \/ pc' = pc
                \/ {pc, pc'} \cap Busy = {}
                \/ pc \in {"free", "consume", "level", "next"} /\ pc' \in Leaving
    <2>1. /\ (Drawn' <=> Drawn) /\ (Idle' <=> Idle) /\ (Warping' <=> Warping)
          /\ (Warped' <=> Warped) /\ (ToFinish' <=> ToFinish)
      BY <1>1 DEF Drawn, Idle, Warping, Warped, ToFinish, CopyFirst, CopyLast, LogoLast, Back
    <2>2. CASE pc' = pc
      BY <1>1, <1>k, <2>1, <2>2 DEF Token, Finishing, ToCopy, ToLogo, Back, CopyFirst, CopyLast, LogoLast
    <2>3. CASE {pc, pc'} \cap Busy = {}
      BY <1>1, <1>k, <2>1, <2>3 DEF Token, Finishing, Busy
    <2>4. CASE pc \in {"free", "consume", "level", "next"} /\ pc' \in Leaving
      BY <1>1, <1>k, <2>1, <2>4 DEF Token
    <2> QED BY <1>1, <2>2, <2>3, <2>4
  <1>2. CASE TestWave
    BY <1>2, <1>k DEF TestWave, Token, Finishing, Drawn, Idle, Warping, Warped, ToFinish,
                      CopyFirst, CopyLast, LogoLast, Back
  <1>3. CASE DrawWaves
    BY <1>3, <1>k, Textures2 DEF DrawWaves, Token, Finishing, Drawn, Warped, ToCopy, Pixels, Back
  <1>4. CASE SubmitCopy
    <2>1. /\ pc = "copy" /\ pc' = IF spam_enabled THEN "spam" ELSE "copied"
          /\ UNCHANGED <<cts, bh_frame, run_wave_bottom_half, run_swap_bottom_half, pixels>>
      BY <1>4 DEF SubmitCopy
    <2>2. /\ Drawn /\ tmu_queue = <<>> /\ ~run_swap_bottom_half /\ run_wave_bottom_half
          /\ tex_backbuffer = Back /\ Back \in Textures /\ ~tmu_done
      BY <1>k, <2>1, Textures2 DEF Token, Finishing, ToCopy, Pixels, Back
    <2>a. Copy.op = "copy" /\ Copy.src = Back
      BY <2>2 DEF Copy
    <2>b. Copy.last = ~spam_enabled
      BY DEF Copy
    <2>c. Copy \in Tasks
      BY <2>2 DEF Copy, Tasks, Textures, Loop, IInv
    <2>3. /\ tmu_task' = [tmu_task EXCEPT ![2] = Copy] /\ tmu_queue' = <<2>> /\ tmu_done' = tmu_done
      BY <1>4, <2>2, TmuQueues DEF SubmitCopy, SubmitTmu
    <2>4. tmu_task' \in [1..2 -> Tasks] /\ tmu_task'[2] = Copy /\ tmu_queue' # <<>>
      BY <1>k, <2>c, <2>3, TmuQueues DEF Token
    <2>5. Drawn' /\ Back' = Back
      BY <2>1, <2>2 DEF Drawn, Back
    <2>6. CASE spam_enabled
      <3>1. CopyFirst'
        BY <2>a, <2>b, <2>4, <2>5, <2>6 DEF CopyFirst
      <3> QED BY <1>k, <2>1, <2>2, <2>3, <2>4, <2>5, <2>6, <3>1 DEF Token, Finishing, ToLogo
    <2>7. CASE ~spam_enabled
      <3>1. CopyLast'
        BY <2>a, <2>b, <2>4, <2>5, <2>7 DEF CopyLast
      <3> QED BY <1>k, <2>1, <2>2, <2>3, <2>4, <2>5, <2>7, <3>1 DEF Token, Finishing, ToFinish
    <2> QED BY <2>6, <2>7
  <1>5. CASE SubmitLogo
    <2>1. /\ pc = "spam" /\ pc' = "copied"
          /\ UNCHANGED <<cts, bh_frame, run_wave_bottom_half, run_swap_bottom_half, pixels>>
      BY <1>5 DEF SubmitLogo
    <2>2. Drawn /\ ToLogo /\ run_wave_bottom_half
      BY <1>k, <2>1 DEF Token, Finishing
    <2>3. Logo \in Tasks /\ Logo.op = "logo" /\ Logo.last
      BY DEF Logo, Tasks, Textures
    <2>4. /\ tmu_task' = [tmu_task EXCEPT ![1] = Logo] /\ tmu_queue' = Append(tmu_queue, 1)
          /\ tmu_done' = tmu_done
      BY <1>5 DEF SubmitLogo, SubmitTmu
    <2>5. tmu_task' \in [1..2 -> Tasks] /\ tmu_task'[1] = Logo /\ tmu_task'[2] = tmu_task[2]
      BY <1>k, <2>3, <2>4 DEF Token
    <2>6. Drawn' /\ LogoLast' /\ Back' = Back
      BY <2>1, <2>2, <2>3, <2>5 DEF Drawn, LogoLast, Back
    <2>7. CASE tmu_queue = <<2>> /\ CopyFirst /\ (tmu_done => picture = "copied")
      <3>1. tmu_queue' = <<2, 1>> /\ CopyFirst'
        BY <2>4, <2>5, <2>6, <2>7, TmuQueues DEF CopyFirst
      <3> QED BY <1>k, <2>1, <2>2, <2>4, <2>5, <2>6, <2>7, <3>1, TmuQueues
              DEF Token, Finishing, ToLogo, ToFinish
    <2>8. CASE tmu_queue = <<>> /\ picture = "copied"
      <3>1. tmu_queue' = <<1>> /\ ~tmu_done
        BY <1>k, <2>4, <2>8, TmuQueues DEF Token
      <3> QED BY <1>k, <2>1, <2>2, <2>4, <2>5, <2>6, <2>8, <3>1, TmuQueues
              DEF Token, Finishing, ToLogo, ToFinish
    <2> QED BY <2>2, <2>7, <2>8 DEF ToLogo
  <1>6. CASE WaveDone
    BY <1>6, <1>k DEF WaveDone, Token, Finishing, Drawn, ToFinish, Back, CopyFirst, CopyLast, LogoLast
  <1>7. CASE TestSwap
    BY <1>7, <1>k DEF TestSwap, Token, Finishing, Drawn, Idle, Warping, Warped, ToFinish,
                      CopyFirst, CopyLast, LogoLast, Back
  <1>8. CASE SwapTextures1 \/ SwapTextures2 \/ Show
    BY <1>8, <1>k DEF SwapTextures1, SwapTextures2, Show, Token
  <1>9. CASE StartNext
    <2>1. /\ pc = "start" /\ pc' = "swapped"
          /\ UNCHANGED <<cts, bh_frame, run_wave_bottom_half, run_swap_bottom_half, pixels>>
      BY <1>9 DEF StartNext
    <2>2. ~cts /\ tmu_queue = <<>> /\ ~tmu_done /\ ~run_wave_bottom_half /\ run_swap_bottom_half
      BY <1>k, <2>1 DEF Token
    <2>3. queue[consume] \in Frames
      BY <2>1, <2>2, HeadIsFrame DEF IInv, Ring
    <2>4. RpipeStart(queue[consume])
      BY <1>9 DEF StartNext
    <2>5. Warping' /\ tmu_task' \in [1..2 -> Tasks] /\ tmu_queue' # <<>>
      BY <1>k, <2>1, <2>2, <2>3, <2>4, StartWarps
    <2>6. tmu_done' = tmu_done
      BY <2>4 DEF RpipeStart, SubmitTmu
    <2>7. /\ tmu_done' \in BOOLEAN /\ cts' \in BOOLEAN /\ bh_frame' \in Frames \cup {NoFrame}
          /\ run_wave_bottom_half' \in BOOLEAN /\ run_swap_bottom_half' \in BOOLEAN
      BY <1>k, <2>1, <2>6 DEF Token
    <2>8. run_swap_bottom_half'
      BY <2>1, <2>2
    <2> QED BY ONLY <2>1, <2>5, <2>7, <2>8 DEF Token, Waving, Showing, Leaving
  <1>10. CASE Ready
    BY <1>10, <1>k DEF Ready, Token, Idle
  <1>11. CASE SwapDone
    BY <1>11, <1>k DEF SwapDone, Token, Idle, Warping, Warped, Back
  <1>12. CASE TmuFinishes
    <2> DEFINE t == tmu_task[Head(tmu_queue)]
    <2>1. /\ UNCHANGED <<tmu_task, tmu_queue, cts, halves, tex_frontbuffer, pc>>
          /\ tmu_queue # <<>> /\ ~tmu_done /\ tmu_done' = TRUE
      BY <1>12 DEF TmuFinishes
    <2>2. Back' = Back /\ Back \in Textures /\ Back # tex_frontbuffer
      BY <1>k, <2>1, Textures2 DEF Back, Pixels
    <2>3. CASE Warping /\ Head(tmu_queue) = 1 /\ pc \notin Waving
      <3>1. texture' = [texture EXCEPT ![Back] = "warped"]
        BY <1>12, <1>k, <2>1, <2>2, <2>3, Running DEF TmuFinishes, Warping, Pixels
      <3>2. Warping'
        BY <1>k, <2>1, <2>2, <2>3, <3>1 DEF Warping, Pixels
      <3>3. /\ tmu_done' \in BOOLEAN /\ tmu_queue' # <<>> /\ tmu_task' = tmu_task
            /\ UNCHANGED <<cts, bh_frame, run_wave_bottom_half, run_swap_bottom_half, pc>>
        BY <2>1
      <3>4. pc \notin Showing \cup Leaving \cup Waving \cup {"draw"}
        BY <2>1, <2>3, Running
      <3>5. ~Finishing /\ ~Idle /\ ~Warped
        BY <2>3, <3>4, TmuQueues DEF Finishing, ToFinish, Idle, Warped, Warping, LogoLast, CopyLast
      <3>6. run_swap_bottom_half <=> pc = "swapped"
        BY <1>k, <3>4, <3>5 DEF Token
      <3> QED BY ONLY <1>k, <3>2, <3>3, <3>4, <3>6 DEF Token, Waving, Showing, Leaving
    <2>4. CASE ~(Warping /\ Head(tmu_queue) = 1 /\ pc \notin Waving)
      <3>1. t.op \in {"copy", "logo"} /\ Drawn
        BY <2>1, <2>4, Running DEF LogoLast
      <3>2. texture' = texture
        BY <1>12, <3>1 DEF TmuFinishes
      <3>3. Drawn' /\ (CopyFirst' <=> CopyFirst) /\ (CopyLast' <=> CopyLast) /\ (LogoLast' <=> LogoLast)
        BY <2>1, <2>2, <3>1, <3>2 DEF Drawn, CopyFirst, CopyLast, LogoLast
      <3>4. t.op = "copy" => picture' = IF t.last THEN "finished" ELSE "copied"
        BY <1>12, <2>1, <2>4, <3>1, Running DEF TmuFinishes, LogoLast, Drawn
      <3>5. t.op = "logo" /\ picture = "copied" => picture' = "finished"
        BY <1>12 DEF TmuFinishes
      <3>6. pc \notin Showing \cup Leaving \cup {"draw", "copy", "swapped"} /\ Finishing
        BY <1>k, <2>1, <2>4, Running, TmuQueues DEF Token, Idle, Warped, Warping
      <3>7. Finishing'
        BY <2>1, <3>3, <3>4, <3>5, <3>6, TmuQueues
        DEF Finishing, ToLogo, ToFinish, CopyFirst, CopyLast, LogoLast
      <3> QED BY <1>k, <2>1, <3>6, <3>7 DEF Token
    <2> QED BY <2>3, <2>4
  <1>13. CASE PvvCallback
    <2>1. /\ UNCHANGED <<pc, bh_frame, run_wave_bottom_half, run_swap_bottom_half, pixels>>
          /\ pfpu_td.user \in Frames
      BY <1>13 DEF PvvCallback, IInv, Analyzer, OnlyFrame, Frames
    <2>2. CASE Refuse(pfpu_td.user) \/ (Input(pfpu_td.user) /\ ~cts)
      <3>1. UNCHANGED <<tmu, cts>>
        BY <1>k, <2>2 DEF Refuse, Input, Token
      <3> QED BY <1>1, <2>1, <3>1
    <2>3. CASE Input(pfpu_td.user) /\ cts
      <3>1. RpipeStart(pfpu_td.user) /\ cts' = FALSE
        BY <2>3 DEF Input
      <3>2. /\ tmu_queue = <<>> /\ ~run_wave_bottom_half
            /\ pc \notin Showing \cup Leaving \cup Waving \cup {"draw"}
            /\ run_swap_bottom_half <=> pc = "swapped"
        BY <1>k, <2>3 DEF Token, Idle, Warping, Warped, Finishing, Drawn
      <3>3. Warping' /\ tmu_task' \in [1..2 -> Tasks] /\ tmu_queue' # <<>>
        BY <1>k, <2>1, <3>1, <3>2, StartWarps
      <3>4. tmu_done' = tmu_done
        BY <3>1 DEF RpipeStart, SubmitTmu
      <3> QED BY <1>k, <2>1, <3>1, <3>2, <3>3, <3>4 DEF Token
    <2> QED BY <1>13, <2>2, <2>3 DEF PvvCallback
  <1>14. CASE TmuIsr
    <2> DEFINE t == tmu_task[Head(tmu_queue)]
    <2>1. /\ UNCHANGED <<tmu_task, cts, pixels, pc>> /\ tmu_done /\ tmu_done' = FALSE
          /\ tmu_queue' = Tail(tmu_queue)
      BY <1>14 DEF TmuIsr
    <2>2. tmu_queue # <<>> /\ Back' = Back
      BY <1>k, <2>1 DEF Token, Back
    <2>3. CASE Warping /\ Head(tmu_queue) = 1 /\ Tail(tmu_queue) = <<>> /\ pc \notin Waving
      <3>1. t.op = "warp" /\ ~t.last /\ t.user \in Frames
        BY <2>3 DEF Warping
      <3>2. bh_frame' = t.user
        BY <1>14, <3>1 DEF TmuIsr
      <3>3. run_wave_bottom_half' = TRUE
        BY <1>14, <3>1 DEF TmuIsr
      <3>4. run_swap_bottom_half' = run_swap_bottom_half
        BY <1>14, <1>k, <3>1 DEF TmuIsr, Token
      <3>5. tmu_queue' = <<>> /\ ~cts' /\ texture'[Back]  = "warped"
        BY <2>1, <2>3 DEF Warping
      <3>6. Warped'
        BY <2>2, <3>3, <3>5 DEF Warped
      <3>7. pc \notin Showing \cup Leaving \cup Waving \cup {"draw"}
        BY <2>2, <2>3, Running
      <3>8. ~Finishing /\ ~Idle /\ ~Warped
        BY <2>1, <2>3, <3>7, TmuQueues DEF Finishing, ToFinish, Idle, Warped, Warping, LogoLast, CopyLast
      <3>9. run_swap_bottom_half <=> pc = "swapped"
        BY <1>k, <3>7, <3>8 DEF Token
      <3>10. /\ bh_frame' \in Frames \cup {NoFrame} /\ run_wave_bottom_half' \in BOOLEAN
             /\ tmu_done' \in BOOLEAN
        BY <2>1, <3>1, <3>2, <3>3
      <3> QED BY ONLY <1>k, <2>1, <3>4, <3>6, <3>7, <3>9, <3>10 DEF Token, Waving, Showing, Leaving
    <2>4. CASE ~(Warping /\ Head(tmu_queue) = 1 /\ Tail(tmu_queue) = <<>> /\ pc \notin Waving)
      <3>1. t.op \in {"copy", "logo"} /\ Drawn
        BY <2>2, <2>4, Running DEF LogoLast
      <3>2. /\ UNCHANGED <<bh_frame, run_wave_bottom_half>>
            /\ run_swap_bottom_half' = (run_swap_bottom_half \/ t.last)
        BY <1>14, <1>k, <3>1 DEF TmuIsr, Token
      <3>3. Drawn' /\ (CopyFirst' <=> CopyFirst) /\ (CopyLast' <=> CopyLast) /\ (LogoLast' <=> LogoLast)
        BY <2>1, <2>2, <3>1 DEF Drawn, CopyFirst, CopyLast, LogoLast
      <3>4. pc \notin Showing \cup Leaving \cup {"draw", "copy", "swapped"} /\ Finishing
        BY <1>k, <2>2, <2>4, Running, TmuQueues DEF Token, Idle, Warped, Warping
      <3>5. Finishing'
        BY <1>k, <2>1, <3>2, <3>3, <3>4, TmuQueues
        DEF Token, Finishing, ToLogo, ToFinish, CopyFirst, CopyLast, LogoLast
      <3> QED BY <1>k, <2>1, <3>2, <3>4, <3>5 DEF Token
    <2> QED BY <2>3, <2>4
  <1> QED BY <1>1, <1>2, <1>3, <1>4, <1>5, <1>6, <1>7, <1>8, <1>9, <1>10, <1>11, <1>12, <1>13, <1>14, TokenSteps

-----------------------------------------------------------------------------
(* Where the frame and the sound buffers are *)

Elements(q) == {q[i] : i \in 1..Len(q)}
Distinct(q) == \A i, j \in 1..Len(q) : q[i] = q[j] => i = j

\* Some of the buffers, and one more
LEMMA AppendBuffer ==
  ASSUME NEW q \in Seq(Buffers), Distinct(q), NEW b \in Buffers, b \notin Elements(q)
  PROVE  /\ Len(q) <= 2 /\ Append(q, b) \in Seq(Buffers)
         /\ Elements(Append(q, b)) = Elements(q) \cup {b} /\ Distinct(Append(q, b))
  <1>1. Len(q) \in Nat /\ \A i \in 1..Len(q) : q[i] \in Buffers /\ q[i] # b
    BY ElementOfSeq DEF Elements
  <1>2. Len(q) <= 2
    <2>1. SUFFICES ASSUME Len(q) >= 3 PROVE FALSE
      BY <1>1
    <2>2. 1 \in 1..Len(q) /\ 2 \in 1..Len(q) /\ 3 \in 1..Len(q)
      BY <1>1, <2>1
    <2>3. q[1] # q[2] /\ q[1] # q[3] /\ q[2] # q[3]
      BY <2>2 DEF Distinct
    <2>4. {q[1], q[2], q[3]} \subseteq 1..3 /\ b \in 1..3 /\ b \notin {q[1], q[2], q[3]}
      BY <1>1, <2>2 DEF Buffers
    <2> QED BY <2>3, <2>4
  <1>3. /\ Append(q, b) \in Seq(Buffers) /\ Len(Append(q, b)) = Len(q) + 1
        /\ Append(q, b)[Len(q) + 1] = b /\ \A i \in 1..Len(q) : Append(q, b)[i] = q[i]
    BY AppendProperties
  <1>4. Elements(Append(q, b)) = Elements(q) \cup {b}
    BY <1>1, <1>3 DEF Elements
  <1>5. Distinct(Append(q, b))
    BY <1>1, <1>3 DEF Distinct
  <1> QED BY <1>2, <1>3, <1>4, <1>5

\* One buffer less
LEMMA TailBuffer ==
  ASSUME NEW q \in Seq(Buffers), Distinct(q), q # <<>>
  PROVE  /\ Tail(q) \in Seq(Buffers) /\ Head(q) \in Buffers /\ Head(q) \in Elements(q)
         /\ Elements(Tail(q)) = Elements(q) \ {Head(q)} /\ Distinct(Tail(q))
  <1>1. /\ Len(q) \in Nat \ {0} /\ Head(q) = q[1] /\ Head(q) \in Buffers /\ Tail(q) \in Seq(Buffers)
        /\ Len(Tail(q)) = Len(q) - 1 /\ \A i \in 1..(Len(q) - 1) : Tail(q)[i] = q[i + 1]
    BY HeadTailProperties, EmptySeq
  <1>2. Head(q) \in Elements(q)
    BY <1>1 DEF Elements
  <1>3. Distinct(Tail(q))
    BY <1>1 DEF Distinct
  <1>4. ASSUME NEW x \in Elements(Tail(q)) PROVE x \in Elements(q) \ {Head(q)}
    <2>1. PICK i \in 1..(Len(q) - 1) : x = q[i + 1]
      BY <1>1, <1>4 DEF Elements
    <2>2. i + 1 \in 1..Len(q) /\ i + 1 # 1 /\ 1 \in 1..Len(q)
      BY <1>1
    <2> QED BY <1>1, <2>1, <2>2 DEF Elements, Distinct
  <1>5. ASSUME NEW x \in Elements(q) \ {Head(q)} PROVE x \in Elements(Tail(q))
    <2>1. PICK i \in 1..Len(q) : x = q[i]
      BY <1>5 DEF Elements
    <2>2. i - 1 \in 1..(Len(q) - 1) /\ (i - 1) + 1 = i
      BY <1>1, <1>5, <2>1
    <2>3. Tail(q)[i - 1] = x
      BY <1>1, <2>1, <2>2
    <2> QED BY <1>1, <2>2, <2>3 DEF Elements
  <1> QED BY <1>1, <1>2, <1>3, <1>4, <1>5

\* The head put back at the end
LEMMA RotateBuffers ==
  ASSUME NEW q \in Seq(Buffers), q # <<>>
  PROVE  Tail(Append(q, Head(q))) = Append(Tail(q), Head(q))
  <1> DEFINE s == Tail(Append(q, Head(q)))
             t == Append(Tail(q), Head(q))
  <1>1. /\ Len(q) \in Nat \ {0} /\ Head(q) \in Buffers /\ Tail(q) \in Seq(Buffers)
        /\ Len(Tail(q)) = Len(q) - 1 /\ \A i \in 1..(Len(q) - 1) : Tail(q)[i] = q[i + 1]
    BY HeadTailProperties, EmptySeq
  <1> DEFINE a == Append(q, Head(q))
  <1>2. /\ a \in Seq(Buffers) /\ Len(a) = Len(q) + 1 /\ a # <<>>
        /\ a[Len(q) + 1] = Head(q) /\ \A i \in 1..Len(q) : a[i] = q[i]
    BY <1>1, AppendProperties
  <1> HIDE DEF a
  <1>3. /\ Tail(a) \in Seq(Buffers) /\ Len(Tail(a)) = Len(q)
        /\ \A i \in 1..Len(q) : Tail(a)[i] = a[i + 1]
    BY <1>1, <1>2, HeadTailProperties
  <1>4. /\ t \in Seq(Buffers) /\ Len(t) = Len(q) /\ t[Len(q)] = Head(q)
        /\ \A i \in 1..(Len(q) - 1) : t[i] = q[i + 1]
    BY <1>1, AppendProperties
  <1>5. s = Tail(a)
    BY DEF a
  <1> HIDE DEF s, t
  <1>6. \A i \in 1..Len(s) : s[i] = t[i]
    BY <1>1, <1>2, <1>3, <1>4, <1>5, SMTT(30)
  <1>7. s = t
    BY <1>3, <1>4, <1>5, <1>6, SeqEqual
  <1> QED BY <1>7 DEF s, t

LEMMA WhereSteps ==
  ASSUME IInv, [Next]_vars
  PROVE  \/ /\ UNCHANGED <<in_use, pfpu_queue, cts, level>>
            /\ pc' = pc \/ {pc, pc'} \cap (Analyzing \cup Leaving) = {} \/ {pc, pc'} = {"show", "free"}
         \/ AllocFrame \/ Analyze \/ ClearReady \/ Analyzed
         \/ GiveBack \/ LoadLevel \/ StoreLevel \/ TestLevel \/ StartNext \/ Ready \/ PvvCallback
  <1> DEFINE Same == /\ UNCHANGED <<in_use, pfpu_queue, cts, level>>
                     /\ \/ pc' = pc \/ {pc, pc'} \cap (Analyzing \cup Leaving) = {}
                        \/ {pc, pc'} = {"show", "free"}
  <1> USE DEF Goto, frames, ring, pfpu, main, Analyzing, Leaving
  <1>1. ASSUME Service \/ SubmitCopy \/ SubmitLogo \/ WaveDone PROVE Same
    BY <1>1 DEF Service, SubmitCopy, SubmitLogo, WaveDone
  <1>2. ASSUME TestWave \/ DrawWaves \/ TestSwap \/ SwapTextures1 PROVE Same
    BY <1>2 DEF TestWave, DrawWaves, TestSwap, SwapTextures1
  <1>3. ASSUME SwapTextures2 \/ Show \/ SwapDone PROVE Same
    BY <1>3 DEF SwapTextures2, Show, SwapDone
  <1>4. ASSUME SoundFills \/ PfpuFinishes \/ TmuFinishes \/ KeepBuffer \/ SkipBuffer PROVE Same
    BY <1>4 DEF SoundFills, PfpuFinishes, TmuFinishes, KeepBuffer, SkipBuffer
  <1>5. ASSUME TmuIsr \/ Start \/ Stop \/ UNCHANGED vars PROVE Same
    BY <1>5 DEF TmuIsr, Start, Stop, vars
  <1>6. ASSUME PfvCallback PROVE Same
    BY <1>6 DEF PfvCallback, SubmitPfpu, IInv, Analyzer
  <1> QED BY <1>1, <1>2, <1>3, <1>4, <1>5, <1>6 DEF Next, Main, Units, Handlers

LEMMA NextWhereabouts ==
  ASSUME IInv, [Next]_vars, Whereabouts, apart'
  PROVE  Whereabouts'
  <1>t. Token /\ Ring /\ Analyzer
    BY DEF IInv
  <1> USE DEF Goto, Whereabouts, Settled, Analyzing
  <1>1. CASE /\ UNCHANGED <<in_use, pfpu_queue, cts, level>>
             /\ \/ pc' = pc \/ {pc, pc'} \cap (Analyzing \cup Leaving) = {}
                \/ {pc, pc'} = {"show", "free"}
    BY <1>1 DEF Leaving
  <1>2. CASE AllocFrame
    <2>1. /\ pc = "alloc" /\ pc' = "analyze" /\ in_use = {} /\ in_use' = {"frame1"}
          /\ UNCHANGED <<pfpu_queue, cts, level>>
      BY <1>2, <1>t DEF AllocFrame, Alloc, Analyzer, Frames, pfpu, ring
    <2> QED BY <2>1
  <1>3. CASE Analyze
    <2>1. UNCHANGED <<in_use, cts, level>> /\ pfpu_queue' = pfpu_queue + 1
      BY <1>3 DEF Analyze, SubmitPfpu, frames, ring
    <2>2. pc = "analyze" /\ pc' = "submitted"
      BY <1>3 DEF Analyze
    <2> QED BY <2>1, <2>2
  <1>4. CASE ClearReady \/ Analyzed
    <2>1. /\ pc \in Analyzing \ {"analyze"} /\ pc' \in {"analyzed", "wave"}
          /\ UNCHANGED <<in_use, pfpu_queue, cts, level>>
      BY <1>4 DEF ClearReady, Analyzed, frames, pfpu, ring
    <2> QED BY <2>1
  <1>5. CASE GiveBack
    <2>1. queue[consume] = "frame1"
      BY <1>5, HeadIsFrame DEF GiveBack, OnlyFrame
    <2>2. pc = "free" /\ ~cts /\ pc' = "consume"
      BY <1>5, <1>t DEF GiveBack, Token, Waving, Showing, Leaving
    <2>3. in_use' = in_use \ {"frame1"} /\ UNCHANGED <<pfpu_queue, cts, level>>
      BY <1>5, <2>1 DEF GiveBack, FreeFrame, pfpu, ring
    <2> QED BY <2>2, <2>3
  <1>6. CASE LoadLevel
    <2>1. pc = "consume" /\ ~cts /\ pc' = "level"
      BY <1>6, <1>t DEF LoadLevel, Token, Waving, Showing, Leaving
    <2>2. UNCHANGED <<in_use, pfpu_queue, cts, level>>
      BY <1>6 DEF LoadLevel, frames, pfpu
    <2> QED BY <2>1, <2>2
  <1>7. CASE StoreLevel
    <2>1. pc = "level" /\ ~cts /\ pc' = "next" /\ level' = loaded - 1 /\ 1 <= loaded /\ loaded <= level
      BY <1>7, <1>t DEF StoreLevel, Token, Waving, Showing, Leaving, Ring
    <2>2. UNCHANGED <<in_use, pfpu_queue, cts>>
      BY <1>7 DEF StoreLevel, frames, pfpu
    <2> QED BY <2>1, <2>2, <1>t DEF Ring
  <1>8. CASE TestLevel
    <2>1. pc = "next" /\ ~cts /\ UNCHANGED <<in_use, pfpu_queue, cts, level>>
          /\ pc' = IF level > 0 THEN "start" ELSE "ready"
      BY <1>8, <1>t DEF TestLevel, frames, pfpu, ring, Token, Waving, Showing, Leaving
    <2> QED BY <2>1
  <1>9. CASE StartNext
    BY <1>9, <1>t DEF StartNext, Token, Waving, Showing, Leaving
  <1>10. CASE Ready
    <2>1. pc = "ready" /\ ~cts /\ cts' /\ UNCHANGED <<in_use, pfpu_queue, level>> /\ pc' = "swapped"
      BY <1>10, <1>t DEF Ready, frames, pfpu, Token, Waving, Showing, Leaving
    <2> QED BY <2>1
  <1>11. CASE PvvCallback
    <2>1. pfpu_queue = 1 /\ pfpu_queue' = 0 /\ pc' = pc
      BY <1>11, <1>t DEF PvvCallback, Analyzer, main
    <2>2. in_use = {"frame1"} /\ Settled /\ pc # "analyze" /\ pc \notin Leaving
      BY <1>t, <2>1 DEF Token, Waving, Showing, Leaving
    <2>3. Input(pfpu_td.user)
      BY <1>11, <2>2, FrameQSizeAssumption DEF PvvCallback, Refuse
    <2>4. level' = 1 /\ cts' = FALSE /\ in_use' = in_use
      BY <2>2, <2>3 DEF Input, frames
    <2> QED BY <2>1, <2>2, <2>4 DEF Leaving
  <1> QED BY <1>1, <1>2, <1>3, <1>4, <1>5, <1>6, <1>7, <1>8, <1>9, <1>10, <1>11, WhereSteps

\* The sound buffers, once recording has begun: K, the buffer kept, and L, the one lent
Partition(K, L) ==
  /\ Recordable \cup K \cup L = Buffers /\ Recordable \cap K = {} /\ (Recordable \cup K) \cap L = {}
  /\ Distinct(record_queue) /\ ~record_overrun /\ (uctl => rendering)

LEMMA BufferSteps ==
  ASSUME IInv, [Next]_vars
  PROVE  \/ /\ UNCHANGED <<record_queue, record_overrun, uctl, dmaw, rendering, starts,
                           run_analyzer_bottom_half, analyzer_buffer, samples, in_use>>
            /\ pc \in Analyzing <=> pc' \in Analyzing
         \/ AllocFrame \/ Analyzed \/ GiveBack
         \/ SoundFills \/ KeepBuffer \/ SkipBuffer \/ PvvCallback \/ Start \/ Stop
  <1> DEFINE Same == /\ UNCHANGED <<record_queue, record_overrun, uctl, dmaw, rendering, starts,
                                    run_analyzer_bottom_half, analyzer_buffer, samples, in_use>>
                     /\ pc \in Analyzing <=> pc' \in Analyzing
  <1> USE DEF Goto, sound, analysis, frames, ui, main, Analyzing
  <1>1. ASSUME Service \/ SubmitCopy \/ SubmitLogo \/ WaveDone \/ Analyze \/ ClearReady PROVE Same
    BY <1>1 DEF Service, SubmitCopy, SubmitLogo, WaveDone, Analyze, ClearReady
  <1>2. ASSUME TestWave \/ DrawWaves \/ TestSwap \/ SwapTextures1 PROVE Same
    BY <1>2 DEF TestWave, DrawWaves, TestSwap, SwapTextures1
  <1>3. ASSUME SwapTextures2 \/ Show \/ SwapDone \/ LoadLevel \/ StoreLevel PROVE Same
    BY <1>3 DEF SwapTextures2, Show, SwapDone, LoadLevel, StoreLevel
  <1>4. ASSUME TestLevel \/ StartNext \/ Ready PROVE Same
    BY <1>4 DEF TestLevel, StartNext, Ready
  <1>5. ASSUME PfpuFinishes \/ TmuFinishes \/ PfvCallback \/ TmuIsr \/ UNCHANGED vars PROVE Same
    BY <1>5 DEF PfpuFinishes, TmuFinishes, PfvCallback, TmuIsr, vars
  <1> QED BY <1>1, <1>2, <1>3, <1>4, <1>5 DEF Next, Main, Units, Handlers

\* No frame is out of the analyzer's hands for good
LEMMA AtWork ==
  ASSUME IInv, Whereabouts
  PROVE  /\ pc = "free" => in_use = {"frame1"} /\ queue[consume] = "frame1"
         /\ pfpu_done => ~Refuse(pfpu_td.user)
         /\ in_use \in {{}, {"frame1"}}
  <1>1. Token /\ Analyzer /\ Ring
    BY DEF IInv
  <1>2. pc = "free" => in_use = {"frame1"}
    BY <1>1 DEF Token, Waving, Showing, Leaving, Whereabouts, Settled
  <1>3. pc = "free" => queue[consume] = "frame1"
    BY HeadIsFrame DEF OnlyFrame
  <1>4. pfpu_done => level = 0
    BY <1>1 DEF Analyzer, Whereabouts, Settled
  <1> QED BY <1>2, <1>3, <1>4, FrameQSizeAssumption DEF Refuse, Whereabouts

\* Before the first start nothing happens.
LEMMA NextQuiet ==
  ASSUME IInv, [Next]_vars, Whereabouts, Quiet, starts' = 0
  PROVE  Quiet'
  <1>a. Analyzer /\ Loop
    BY DEF IInv
  <1> USE DEF Quiet
  <1>1. CASE UNCHANGED <<record_queue, record_overrun, uctl, dmaw, rendering, starts,
                         run_analyzer_bottom_half, analyzer_buffer, samples, in_use>>
    BY <1>1
  <1>2. CASE Start
    BY <1>2, <1>a DEF Start, Loop
  <1>3. CASE PvvCallback
    BY <1>3, <1>a DEF PvvCallback, Analyzer, Whereabouts
  <1> QED BY <1>a, <1>1, <1>2, <1>3, BufferSteps, AtWork
          DEF AllocFrame, Analyzed, GiveBack, Goto, SoundFills, KeepBuffer, SkipBuffer, Stop,
              Analyzer, Analyzing


\* A start with every frame back
LEMMA StartBuffers ==
  ASSUME IInv, Start, apart'
  PROVE  Partition(Kept, Lent)'
  <1> DEFINE q == <<1, 2, 3>>
  <1>1. q[1] = 1 /\ q[2] = 2 /\ q[3] = 3 /\ Len(q) = 3
    OBVIOUS
  <1> HIDE DEF q
  <1>2. Elements(q) = Buffers /\ Distinct(q)
    BY <1>1 DEF Elements, Distinct, Buffers
  <1>3. record_queue' = q /\ ~record_overrun' /\ rendering'
    BY DEF Start, q
  <1>4. Recordable' = Elements(q) /\ Distinct(record_queue)'
    BY <1>2, <1>3 DEF Recordable, Elements, Distinct
  <1>5. in_use' = {} /\ ~run_analyzer_bottom_half'
    BY DEF Start, analysis
  <1>6. Kept' = {} /\ Lent' = {}
    BY <1>5 DEF Kept, Lent
  <1> QED BY <1>2, <1>3, <1>4, <1>6 DEF Partition

LEMMA NextBuffers ==
  ASSUME IInv, [Next]_vars, Whereabouts, Whereabouts', apart', Partition(Kept, Lent)
  PROVE  Partition(Kept, Lent)'
  <1>i. Recorder /\ Analyzer /\ Loop
    BY DEF IInv
  <1>q. /\ record_queue \in Seq(Buffers) /\ Distinct(record_queue) /\ ~record_overrun
        /\ Recordable = Elements(record_queue) /\ Recordable' = Elements(record_queue')
    BY <1>i DEF Partition, Recorder, Recordable, Elements
  <1>l. Lent \subseteq {samples["frame1"]}
    BY AtWork DEF Lent
  <1>1. CASE /\ UNCHANGED <<record_queue, record_overrun, uctl, dmaw, rendering, starts,
                            run_analyzer_bottom_half, analyzer_buffer, samples, in_use>>
             /\ pc \in Analyzing <=> pc' \in Analyzing
    <2>1. Kept' = Kept /\ Lent' = Lent /\ Recordable' = Recordable
      BY <1>1 DEF Kept, Lent, Recordable, Analyzing
    <2> QED BY <1>1, <2>1 DEF Partition, Distinct
  <1>2. CASE AllocFrame
    <2>1. UNCHANGED <<record_queue, record_overrun, uctl, rendering>>
      BY <1>2 DEF AllocFrame, sound, ui
    <2>2. pc = "alloc" /\ pc' = "analyze" /\ run_analyzer_bottom_half
      BY <1>2, <1>i DEF AllocFrame, Goto, Analyzer
    <2>3. in_use = {} /\ in_use' = {"frame1"} /\ samples' = [samples EXCEPT !["frame1"] = analyzer_buffer]
      BY <1>2, <1>i, AtWork DEF AllocFrame, Alloc, Analyzer, Frames
    <2>4. Kept = {analyzer_buffer} /\ Kept' = {} /\ Lent = {} /\ Lent' = {analyzer_buffer}
      BY <2>2, <2>3, <1>i DEF Kept, Lent, Analyzer, Frames
    <2>5. Recordable' = Recordable
      BY <2>1 DEF Recordable
    <2> QED BY <2>1, <2>4, <2>5 DEF Partition, Distinct
  <1>3. CASE Analyzed
    <2>1. UNCHANGED <<record_queue, record_overrun, uctl, rendering, in_use, samples>>
      BY <1>3 DEF Analyzed, sound, ui, frames
    <2>2. Kept = {} /\ Kept' = {} /\ Lent' = Lent /\ Recordable' = Recordable
      BY <1>3, <2>1 DEF Analyzed, Goto, Kept, Lent, Recordable
    <2> QED BY <2>1, <2>2 DEF Partition, Distinct
  <1>4. CASE GiveBack
    <2>1. in_use = {"frame1"} /\ queue[consume] = "frame1"
      BY <1>4, AtWork DEF GiveBack, Goto
    <2> DEFINE b == samples["frame1"]
    <2>2. /\ in_use' = {} /\ Refill(b)
          /\ UNCHANGED <<run_analyzer_bottom_half, analyzer_buffer, samples, rendering>>
          /\ pc = "free" /\ pc' = "consume"
      BY <1>4, <2>1 DEF GiveBack, FreeFrame, Goto, analysis, ui
    <2>3. Lent = {b} /\ Lent' = {} /\ Kept' = Kept /\ b \in Buffers /\ b \notin Elements(record_queue)
      BY <1>q, <2>1, <2>2 DEF Lent, Kept, Partition
    <2> HIDE DEF b
    <2>4. /\ Len(record_queue) <= 2 /\ Elements(Append(record_queue, b)) = Recordable \cup {b}
          /\ Distinct(Append(record_queue, b)) /\ Len(record_queue) \in Nat
      BY <1>q, <2>3, AppendBuffer
    <2>5. ~(Len(record_queue) >= BufQSize)
      BY <2>4, BufQSizeAssumption
    <2>6. record_queue' = Append(record_queue, b) /\ ~record_overrun' /\ uctl' = uctl
      BY <1>q, <2>2, <2>5 DEF Refill
    <2>7. Distinct(record_queue)' /\ Recordable' = Recordable \cup {b}
      BY <1>q, <2>4, <2>6 DEF Distinct
    <2> QED BY <2>2, <2>3, <2>6, <2>7 DEF Partition
  <1>5. CASE SoundFills
    <2>1. /\ UNCHANGED <<record_queue, record_overrun, uctl, rendering, in_use, samples, pc,
                         run_analyzer_bottom_half, analyzer_buffer>>
      BY <1>5 DEF SoundFills, ui, frames, main, analysis
    <2>2. Kept' = Kept /\ Lent' = Lent /\ Recordable' = Recordable
      BY <2>1 DEF Kept, Lent, Recordable
    <2> QED BY <2>1, <2>2 DEF Partition, Distinct
  <1>6. CASE KeepBuffer
    <2>1. /\ dmaw /\ ~run_analyzer_bottom_half /\ run_analyzer_bottom_half'
          /\ analyzer_buffer' = Head(record_queue) /\ NextBuffer(record_queue)
          /\ UNCHANGED <<in_use, samples, pc, rendering>>
      BY <1>6 DEF KeepBuffer, frames, main, ui
    <2>2. Kept = {} /\ Kept' = {Head(record_queue)} /\ Lent' = Lent
      BY <1>i, <2>1 DEF Kept, Lent, Analyzer, Analyzing
    <2>3. record_queue # <<>> /\ uctl /\ rendering /\ rendering'
      BY <1>i, <2>1 DEF Recorder, Partition
    <2>4. /\ Elements(Tail(record_queue)) = Recordable \ {Head(record_queue)}
          /\ Distinct(Tail(record_queue)) /\ Head(record_queue) \in Recordable
      BY <1>q, <2>3, TailBuffer
    <2>5. Len(record_queue) > 1
      <3>1. Len(record_queue) \in Nat
        BY <1>q
      <3>2. SUFFICES ASSUME Len(record_queue) <= 1 PROVE FALSE
        BY <3>1
      <3>3. Recordable \subseteq {record_queue[1]}
        BY <3>1, <3>2 DEF Recordable
      <3>4. 1..3 \subseteq {record_queue[1], samples["frame1"]}
        BY <1>l, <2>2, <3>3 DEF Partition, Buffers
      <3> QED BY <3>4
    <2>6. record_queue' = Tail(record_queue) /\ ~record_overrun'
      BY <1>q, <2>1, <2>5 DEF NextBuffer
    <2>7. Distinct(record_queue)' /\ Recordable' = Recordable \ {Head(record_queue)}
      BY <1>q, <2>4, <2>6 DEF Distinct
    <2> QED BY <2>2, <2>3, <2>4, <2>6, <2>7 DEF Partition
  <1>7. CASE SkipBuffer
    <2> DEFINE h == Head(record_queue)
    <2>1. dmaw /\ run_analyzer_bottom_half /\ UNCHANGED <<in_use, samples, pc, rendering>>
          /\ UNCHANGED <<run_analyzer_bottom_half, analyzer_buffer>>
      BY <1>7 DEF SkipBuffer, frames, main, ui, analysis
    <2>2. Kept' = Kept /\ Lent' = Lent
      BY <2>1 DEF Kept, Lent
    <2>3. record_queue # <<>> /\ uctl /\ rendering /\ rendering'
      BY <1>i, <2>1 DEF Recorder, Partition
    <2>4. PICK b \in Buffers : b \notin Elements(record_queue)
      <3>1. CASE pc \in Analyzing
        <4>1. in_use = {"frame1"} /\ Lent = {samples["frame1"]}
          BY <3>1, AtWork DEF Whereabouts, Lent
        <4> QED BY <1>q, <4>1 DEF Partition
      <3>2. CASE pc \notin Analyzing
        <4>1. Kept = {analyzer_buffer}
          BY <2>1, <3>2 DEF Kept, Analyzing
        <4> QED BY <1>q, <4>1 DEF Partition
      <3> QED BY <3>1, <3>2
    <2>5. Len(record_queue) <= 2 /\ Len(record_queue) \in Nat
      BY <1>q, <2>4, AppendBuffer
    <2>6. NextBuffer(Append(record_queue, h))
      BY <1>7, <2>5, BufQSizeAssumption DEF SkipBuffer
    <2>7. h \in Buffers /\ Len(Append(record_queue, h)) > 1
      BY <1>q, <2>3, <2>5, HeadTailProperties, AppendProperties, EmptySeq
    <2>8. record_queue' = Append(Tail(record_queue), h) /\ ~record_overrun'
      BY <1>q, <2>3, <2>6, <2>7, RotateBuffers DEF NextBuffer
    <2>9. /\ Tail(record_queue) \in Seq(Buffers) /\ h \in Recordable
          /\ Elements(Tail(record_queue)) = Recordable \ {h} /\ Distinct(Tail(record_queue))
      BY <1>q, <2>3, TailBuffer
    <2> HIDE DEF h
    <2>10. /\ Elements(record_queue') = (Recordable \ {h}) \cup {h}
           /\ Distinct(Append(Tail(record_queue), h))
      BY <2>7, <2>8, <2>9, AppendBuffer
    <2>11. Distinct(record_queue)'
      BY ONLY <2>8, <2>10 DEF Distinct
    <2>12. Recordable' = Recordable
      BY <1>q, <2>9, <2>10
    <2> QED BY <2>2, <2>3, <2>8, <2>11, <2>12 DEF Partition
  <1>8. CASE PvvCallback
    <2>1. Input(pfpu_td.user)
      BY <1>8, AtWork DEF PvvCallback
    <2>2. /\ UNCHANGED <<record_queue, record_overrun, uctl, rendering, in_use, samples, pc,
                         run_analyzer_bottom_half, analyzer_buffer>>
      BY <1>8, <2>1 DEF PvvCallback, Input, sound, frames, main, ui
    <2>3. Kept' = Kept /\ Lent' = Lent /\ Recordable' = Recordable
      BY <2>2 DEF Kept, Lent, Recordable
    <2> QED BY <2>2, <2>3 DEF Partition, Distinct
  <1>9. CASE Start
    BY <1>9, StartBuffers
  <1>10. CASE Stop
    <2>1. /\ UNCHANGED <<record_queue, record_overrun, in_use, samples, pc,
                         run_analyzer_bottom_half, analyzer_buffer>> /\ uctl' = FALSE
      BY <1>10 DEF Stop, frames, main, analysis
    <2>2. Kept' = Kept /\ Lent' = Lent /\ Recordable' = Recordable
      BY <2>1 DEF Kept, Lent, Recordable
    <2> QED BY <2>1, <2>2 DEF Partition, Distinct
  <1> QED BY <1>1, <1>2, <1>3, <1>4, <1>5, <1>6, <1>7, <1>8, <1>9, <1>10, BufferSteps

LEMMA NextConserved == IInv /\ [Next]_vars => Conserved'
  <1> SUFFICES ASSUME IInv, [Next]_vars, apart' PROVE Conserved'
    BY DEF Conserved
  <1>1. apart
    <2>1. CASE UNCHANGED <<analysis, frames, pfpu, rpipe_frame>>
      BY <2>1 DEF frames
    <2>2. CASE Service \/ Analyze \/ ClearReady \/ Analyzed
      BY <2>2 DEF Service, Analyze, ClearReady, Analyzed, frames
    <2>3. CASE GiveBack \/ PvvCallback
      BY <2>3 DEF GiveBack, PvvCallback, Input, Refuse, FreeFrame, frames
    <2>4. CASE PfpuFinishes \/ KeepBuffer \/ PfvCallback
      BY <2>4 DEF PfpuFinishes, KeepBuffer, PfvCallback, frames
    <2>5. CASE AllocFrame \/ Start
      BY <2>5 DEF AllocFrame, Start
    <2> QED BY <2>1, <2>2, <2>3, <2>4, <2>5, AnalyzerSteps
  <1>2. Whereabouts /\ IF starts = 0 THEN Quiet ELSE BuffersConserved
    BY <1>1 DEF IInv, Conserved
  <1>3. Whereabouts'
    BY <1>2, NextWhereabouts
  <1>4. starts \in Nat /\ starts' \in Nat /\ (starts' = starts \/ Start)
    <2>1. starts \in Nat
      BY DEF IInv, Loop
    <2>a. starts' \in Nat
      BY NextLoop DEF Loop
    <2>2. CASE Analyzed \/ AllocFrame \/ GiveBack
      BY <2>1, <2>a, <2>2 DEF Analyzed, AllocFrame, GiveBack, ui
    <2>3. CASE SoundFills \/ KeepBuffer \/ SkipBuffer \/ PvvCallback \/ Stop
      BY <2>1, <2>a, <2>3 DEF SoundFills, KeepBuffer, SkipBuffer, PvvCallback, Stop, ui
    <2> QED BY <2>1, <2>a, <2>2, <2>3, BufferSteps
  <1>5. starts' = 0 => Quiet'
    <2>1. SUFFICES ASSUME starts' = 0 PROVE Quiet'
      OBVIOUS
    <2>a. Start => starts' = starts + 1
      BY DEF Start
    <2>2. starts = 0
      BY <1>4, <2>1, <2>a
    <2> QED BY <1>2, <2>1, <2>2, NextQuiet
  <1>6. starts' # 0 => Partition(Kept, Lent)'
    <2>1. SUFFICES ASSUME starts' # 0 PROVE Partition(Kept, Lent)'
      OBVIOUS
    <2>2. CASE Start
      BY <2>2, StartBuffers
    <2>3. CASE ~Start
      <3>1. BuffersConserved /\ starts > 0
        BY <1>2, <1>4, <2>1, <2>3
      <3>2. Partition(Kept, Lent)
        BY <1>1, <3>1 DEF BuffersConserved, Partition, Distinct
      <3> QED BY <1>2, <1>3, <3>2, NextBuffers
    <2> QED BY <2>2, <2>3
  <1>7. starts' # 0 => BuffersConserved'
    BY <1>6 DEF BuffersConserved, Partition, Distinct
  <1> QED BY <1>3, <1>5, <1>7 DEF Conserved

LEMMA Invariant == SafetySpec => []IInv
  <1>1. IInv /\ [Next]_vars => IInv'
    BY NextLoop, NextRecorder, NextAnalyzer, NextRing, NextPixels, NextToken, NextConserved DEF IInv
  <1> QED BY InitInv, <1>1, PTL DEF SafetySpec

-----------------------------------------------------------------------------
(* Theorems *)

\* TypeOK always holds: rpipe.c's level, its ring, the recorder's ring and the two
\* drivers' rings stay within their sizes, whatever these are.
THEOREM TypeCorrect == Spec => []TypeOK
  BY Invariant, Types, PTL DEF Spec

\* TmuQuiet always holds: while rpipe_draw_waves or rpipe_service's exchange of textures
\* and screens is under way, the TMU driver holds no task.
THEOREM TmuIsQuiet == Spec => []TmuQuiet
  <1>1. IInv => TmuQuiet
    BY DEF IInv, Token, TmuQuiet, Warped, Waving, Showing, Leaving
  <1> QED BY Invariant, <1>1, PTL DEF Spec

\* OnlyFinishedShown always holds: vga_swap_buffers is called for complete pictures only.
THEOREM ShowsFinished == Spec => []OnlyFinishedShown
  <1>1. IInv => OnlyFinishedShown
    BY DEF IInv, Token, OnlyFinishedShown, Waving, Showing, Leaving
  <1> QED BY Invariant, <1>1, PTL DEF Spec

\* BuffersConserved always holds: until a frame is given out twice, every sound buffer is
\* in the recorder's ring, with apipe.c or with a frame, and in one of them only.
THEOREM BuffersAreConserved == Spec => []BuffersConserved
  <1>1. IInv => BuffersConserved
    <2> SUFFICES ASSUME IInv, apart, starts > 0 PROVE BuffersConserved
      BY DEF BuffersConserved
    <2>1. starts # 0
      OBVIOUS
    <2> QED BY <2>1 DEF IInv, Conserved
  <1> QED BY Invariant, <1>1, PTL DEF Spec

LEMMA StepStable ==
  ASSUME IInv, [Next]_vars
  PROVE  /\ pfpu_td' # pfpu_td => pfpu_queue = 0 \/ pfpu_done
         /\ \A n \in 1..2 : tmu_task'[n] # tmu_task[n] =>
              \A i \in 1..Len(tmu_queue) : tmu_queue[i] = n => i = 1 /\ tmu_done
  <1>i. Token /\ Analyzer
    BY DEF IInv
  <1>1. pfpu_td' # pfpu_td => pfpu_queue = 0 \/ pfpu_done
    <2>1. CASE UNCHANGED pfpu \/ Service \/ AllocFrame \/ ClearReady \/ Analyzed
      BY <2>1 DEF pfpu, Service, AllocFrame, ClearReady, Analyzed
    <2>2. CASE Analyze
      BY <2>2, <1>i DEF Analyze, Goto, Analyzer
    <2>3. CASE GiveBack \/ PfpuFinishes \/ KeepBuffer \/ PvvCallback \/ Start
      BY <2>3 DEF GiveBack, PfpuFinishes, KeepBuffer, PvvCallback, Start, pfpu
    <2>4. CASE PfvCallback
      BY <2>4 DEF PfvCallback
    <2> QED BY <2>1, <2>2, <2>3, <2>4, AnalyzerSteps
  <1>2. ASSUME NEW n \in 1..2, tmu_task'[n] # tmu_task[n], NEW i \in 1..Len(tmu_queue), tmu_queue[i] = n
        PROVE  FALSE
    <2> USE DEF tmu
    <2>1. CASE UNCHANGED tmu \/ TestWave \/ DrawWaves \/ WaveDone \/ TestSwap
      BY <1>2, <2>1 DEF TestWave, DrawWaves, WaveDone, TestSwap
    <2>2. CASE SwapTextures1 \/ SwapTextures2 \/ Show \/ Ready \/ SwapDone \/ TmuFinishes \/ TmuIsr
      BY <1>2, <2>2 DEF SwapTextures1, SwapTextures2, Show, Ready, SwapDone, TmuFinishes, TmuIsr
    <2>3. Len(<<>>) = 0 /\ 1..0 = {}
      OBVIOUS
    <2>4. CASE StartNext
      BY <1>2, <1>i, <2>3, <2>4 DEF StartNext, Goto, Token, Waving, Showing, Leaving
    <2>5. CASE SubmitCopy
      BY <1>2, <1>i, <2>3, <2>5 DEF SubmitCopy, Goto, Token, Finishing, ToCopy, Waving
    <2>6. CASE SubmitLogo
      <3>1. n = 1
        BY <1>2, <1>i, <2>6 DEF SubmitLogo, SubmitTmu, Token
      <3>2. tmu_queue = <<>> \/ tmu_queue = <<2>>
        BY <1>i, <2>6 DEF SubmitLogo, Goto, Token, Finishing, ToLogo, Waving
      <3> QED BY <1>2, <2>3, <3>1, <3>2
    <2>7. CASE PvvCallback
      <3>1. CASE Refuse(pfpu_td.user) \/ (Input(pfpu_td.user) /\ ~cts)
        BY <1>2, <1>i, <3>1 DEF Refuse, Input, Token
      <3>2. CASE Input(pfpu_td.user) /\ cts
        BY <1>2, <1>i, <2>3, <3>2 DEF Token, Idle, Warping, Warped, Finishing, Drawn
      <3> QED BY <2>7, <3>1, <3>2 DEF PvvCallback
    <2> QED BY <2>1, <2>2, <2>4, <2>5, <2>6, <2>7, TokenSteps
  <1> QED BY <1>1, <1>2

\* DescriptorsStable holds of every step: pfpu_td, tmu_task1 and tmu_task2 are filled in
\* again only when their driver is done with them.
THEOREM DescriptorsAreStable == Spec => DescriptorsStable
  <1>1. IInv /\ [Next]_vars =>
          [/\ pfpu_td' # pfpu_td => pfpu_queue = 0 \/ pfpu_done
           /\ \A n \in 1..2 : tmu_task'[n] # tmu_task[n] =>
                \A i \in 1..Len(tmu_queue) : tmu_queue[i] = n => i = 1 /\ tmu_done]_vars
    BY StepStable
  <1> QED BY Invariant, <1>1, PTL DEF Spec, SafetySpec, DescriptorsStable

=============================================================================
