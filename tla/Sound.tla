------------------------------- MODULE Sound -------------------------------
(***************************************************************************)
(* The sound driver software/libhal/snd.c, both directions, with the AC97  *)
(* core (cores/ac97) and the shell's digital echo (software/demo/shell.c), *)
(* which hands each recorded buffer to the playback queue and each played  *)
(* one back to the recording queue, from within the interrupt handlers.    *)
(*                                                                         *)
(* snd_init first talks to the codec register by register; then the user   *)
(* starts and stops the echo.  A handler runs to its end between two steps *)
(* of the program, and with it the callback's refill of the other queue.   *)
(*                                                                         *)
(* Timing: a buffer lasts a third of a second, the straight-line code that *)
(* starts the echo some microseconds, so no buffer ends during that code.  *)
(***************************************************************************)
EXTENDS Integers

CONSTANTS QSize,        \* PLAY_BUFQ_SIZE and RECORD_BUFQ_SIZE
          Volumes,      \* how many codec registers snd_init writes
          Stamps,       \* bound: recordings are numbered modulo this
          MaxStarts,    \* bound: times the echo is started
          StopWhenDry   \* whether the user may stop the echo after an overrun

ASSUME QSizeAssumption == QSize \in Nat /\ QSize >= 4
ASSUME VolumesAssumption == Volumes \in Nat \ {0}
ASSUME StampsAssumption == Stamps \in Nat /\ Stamps > 4

VARIABLES
  pc, todo,                                  \* the program; the codec register it is at
  request_en, request_write, request_addr,   \* the core's codec registers
  asked, reply_data, cr_irqs,                \* the read the codec is to answer, the core's
                                             \* answer and interrupts
  codec,                                     \* the codec's registers that have been set
  snd_cr_request, snd_cr_reply, codec_id,    \* snd.c
  stream,                                    \* per direction: queue and DMA channel
  content, stamp, heard,                     \* what the buffers hold, the next number, the
                                             \* number last played
  starts

request == <<request_en, request_write, request_addr>>
link == <<asked, reply_data, cr_irqs, codec>>
flags == <<snd_cr_request, snd_cr_reply, codec_id>>
audio == <<content, stamp, heard>>
vars == <<pc, todo, request, link, flags, stream, audio, starts>>

Dirs == {"play", "record"}
Other(d) == IF d = "play" THEN "record" ELSE "play"
Buffers == 1..4                              \* audio_buffer1 to audio_buffer4
None == 0
Silence == Stamps                            \* the content of a cleared buffer
Slots == 0..(QSize - 1)
Wrap(p) == IF p = QSize - 1 THEN 0 ELSE p + 1

-----------------------------------------------------------------------------
(* A stream: the queue of snd.c and the DMA channel it programs.  `dma' is    *)
(* the buffer whose transfer is not finished, `dry' play_underrun or          *)
(* record_overrun.                                                            *)

Idle == [queue |-> [p \in Slots |-> None], produce |-> 0, consume |-> 0, level |-> 0,
         dry |-> FALSE, en |-> FALSE, dma |-> None, irq |-> FALSE]

\* snd_play_empty, snd_record_empty
Empty(s) == [s EXCEPT !.produce = 0, !.consume = 0, !.level = 0, !.dry = FALSE]

\* play_start, record_start
Start(s, b) == [s EXCEPT !.dma = b, !.en = TRUE]

\* Mutant: a stream that ran dry is not started again.
RefillNoRestart(s, b) ==
  IF s.level >= QSize THEN s
  ELSE [s EXCEPT !.queue[s.produce] = b, !.produce = Wrap(@), !.level = @ + 1]

\* snd_play_refill, snd_record_refill
Refill(s, b) ==
  LET t == [s EXCEPT !.queue[s.produce] = b, !.produce = Wrap(@), !.level = @ + 1,
                     !.dry = FALSE]
  IN  IF s.level >= QSize THEN s ELSE IF s.dry THEN Start(t, b) ELSE t

\* snd_play_start, snd_record_start: refused while the channel is enabled.
StartStream(s) ==
  IF s.en THEN s
  ELSE IF s.level > 0 THEN Start(s, s.queue[s.consume]) ELSE [s EXCEPT !.dry = TRUE]

\* Mutant: the buffer that is handed back is started again.
HandBackStale(s) ==
  LET t == [s EXCEPT !.consume = Wrap(@), !.level = @ - 1, !.irq = FALSE]
  IN  IF t.level > 0 THEN Start(t, s.queue[s.consume]) ELSE [t EXCEPT !.dry = TRUE]

\* snd_isr_dmar and snd_isr_dmaw after their callback
HandBack(s) ==
  LET t == [s EXCEPT !.consume = Wrap(@), !.level = @ - 1, !.irq = FALSE]
  IN  IF t.level > 0 THEN Start(t, t.queue[t.consume]) ELSE [t EXCEPT !.dry = TRUE]

-----------------------------------------------------------------------------
(* snd_init and the codec *)

Init ==
  /\ pc = "set" /\ todo = 0
  /\ request_en = FALSE /\ request_write = FALSE /\ request_addr = 0
  /\ asked = "none" /\ reply_data = "none" /\ cr_irqs = {} /\ codec = {}
  /\ snd_cr_request = FALSE /\ snd_cr_reply = FALSE /\ codec_id = "none"
  /\ stream = [d \in Dirs |-> Idle]
  /\ content = [b \in Buffers |-> Silence] /\ stamp = 0 /\ heard = Silence
  /\ starts = 0

Goto(from, to) == pc = from /\ pc' = to

\* Register 0 is read, the others, numbered from 1, are written.
Reading == todo = 0

\* Mutant: a write does not forget the interrupt of the request before.
SetRequestStale ==
  /\ Goto("set", "go")
  /\ request_addr' = todo
  /\ snd_cr_reply' = (snd_cr_reply /\ ~Reading)
  /\ UNCHANGED <<todo, request_en, request_write, link, snd_cr_request, codec_id, stream,
                 audio, starts>>

\* snd_ac97_read and snd_ac97_write name the register and clear the flag.
SetRequest ==
  /\ Goto("set", "go")
  /\ request_addr' = todo
  /\ snd_cr_reply' = (snd_cr_reply /\ ~Reading)
  /\ snd_cr_request' = (snd_cr_request /\ Reading)
  /\ UNCHANGED <<todo, request_en, request_write, link, codec_id, stream, audio, starts>>

\* ... then the request is made ...
Request ==
  /\ Goto("go", "wait")
  /\ request_en' = TRUE /\ request_write' = ~Reading
  /\ UNCHANGED <<todo, request_addr, link, flags, stream, audio, starts>>

\* ... and the flag waited for.  snd_init goes on to the next register.
Await ==
  /\ pc = "wait"
  /\ IF Reading THEN snd_cr_reply /\ codec_id' = reply_data
                ELSE snd_cr_request /\ UNCHANGED codec_id
  /\ IF todo < Volumes
     THEN todo' = todo + 1 /\ pc' = "set" /\ UNCHANGED stream
     ELSE /\ todo' = 0 /\ pc' = "idle"
          /\ stream' = [d \in Dirs |-> Empty(stream[d])]
  /\ UNCHANGED <<request, link, snd_cr_request, snd_cr_reply, audio, starts>>

\* ac97_ctlif.v: the next frame down the link takes the request.
DownFrame ==
  /\ request_en
  /\ request_en' = FALSE
  /\ cr_irqs' = cr_irqs \cup {"request"}
  /\ IF request_write THEN codec' = codec \cup {request_addr} /\ UNCHANGED asked
                      ELSE asked' = "register" /\ UNCHANGED codec
  /\ UNCHANGED <<pc, todo, request_write, request_addr, reply_data, flags, stream, audio,
                 starts>>

\* ac97_ctlif.v: a frame up the link brings the codec's answer.
UpFrame ==
  /\ asked # "none"
  /\ reply_data' = asked /\ asked' = "none"
  /\ cr_irqs' = cr_irqs \cup {"reply"}
  /\ UNCHANGED <<pc, todo, request, codec, flags, stream, audio, starts>>

\* snd_isr_crrequest and snd_isr_crreply: isr() calls those that are pending.
CodecIsr ==
  /\ cr_irqs # {}
  /\ snd_cr_request' = (snd_cr_request \/ "request" \in cr_irqs)
  /\ snd_cr_reply' = (snd_cr_reply \/ "reply" \in cr_irqs)
  /\ cr_irqs' = {}
  /\ UNCHANGED <<pc, todo, request, asked, reply_data, codec, codec_id, stream, audio, starts>>

-----------------------------------------------------------------------------
(* echo(): one step per call of the driver *)

Step(from, to, d, s) ==
  /\ Goto(from, to)
  /\ stream' = [stream EXCEPT ![d] = s]
  /\ UNCHANGED <<todo, request, link, flags>>

\* Not playing: the playback queue is emptied and the first two buffers are cleared.
EchoStart ==
  /\ ~stream["play"].en /\ starts < MaxStarts
  /\ Step("idle", "play_refill", "play", Empty(stream["play"]))
  /\ content' = [content EXCEPT ![1] = Silence, ![2] = Silence]
  /\ stamp' = 0 /\ heard' = Silence
  /\ starts' = starts + 1

EchoPlay ==
  \/ /\ Step("play_refill", "play_start", "play", Refill(Refill(stream["play"], 1), 2))
     /\ UNCHANGED <<audio, starts>>
  \/ /\ Step("play_start", "record_empty", "play", StartStream(stream["play"]))
     /\ UNCHANGED <<audio, starts>>

EchoRecord ==
  \/ /\ Step("record_empty", "record_refill", "record", Empty(stream["record"]))
     /\ UNCHANGED <<audio, starts>>
  \/ /\ Step("record_refill", "record_start", "record", Refill(Refill(stream["record"], 3), 4))
     /\ UNCHANGED <<audio, starts>>
  \/ /\ Step("record_start", "idle", "record", StartStream(stream["record"]))
     /\ UNCHANGED <<audio, starts>>

\* Playing: snd_record_stop disables the channel with its interrupt masked ...
EchoStop ==
  /\ stream["play"].en
  /\ StopWhenDry \/ ~stream["record"].dry
  /\ Step("idle", "record_ack", "record", [stream["record"] EXCEPT !.en = FALSE])
  /\ UNCHANGED <<audio, starts>>

\* Mutant: the interrupt of a transfer that ended just before is kept.
AckKept ==
  \/ Step("record_ack", "play_stop", "record", stream["record"])
  \/ Step("play_stop", "play_ack", "play", [stream["play"] EXCEPT !.en = FALSE])
  \/ Step("play_ack", "idle", "play", stream["play"])

\* ... and acknowledges it; snd_play_stop does the same.
Ack ==
  \/ Step("record_ack", "play_stop", "record", [stream["record"] EXCEPT !.irq = FALSE])
  \/ Step("play_stop", "play_ack", "play", [stream["play"] EXCEPT !.en = FALSE])
  \/ Step("play_ack", "idle", "play", [stream["play"] EXCEPT !.irq = FALSE])

EchoStopped == Ack /\ UNCHANGED <<audio, starts>>

Masked(d) == pc = (IF d = "play" THEN "play_ack" ELSE "record_ack")

-----------------------------------------------------------------------------
(* The DMA channels and their interrupts *)

\* A channel that is enabled transfers its buffer to the end; not while the echo is
\* being started.
Transfer(d) ==
  LET b == stream[d].dma IN
  /\ stream[d].en /\ b # None
  /\ pc \in {"idle", "record_ack", "play_stop", "play_ack"}
  /\ stream' = [stream EXCEPT ![d].dma = None, ![d].irq = TRUE]
  /\ IF d = "record"
     THEN /\ content' = [content EXCEPT ![b] = stamp]
          /\ stamp' = (stamp + 1) % Stamps
          /\ UNCHANGED heard
     ELSE heard' = content[b] /\ UNCHANGED <<content, stamp>>
  /\ UNCHANGED <<pc, todo, request, link, flags, starts>>

\* snd_isr_dmar and snd_isr_dmaw: the callback gives the buffer to the other stream.
Isr(d) ==
  LET s == stream[d] IN
  /\ s.irq /\ ~Masked(d)
  /\ stream' = [stream EXCEPT ![d] = HandBack(s),
                              ![Other(d)] = Refill(@, s.queue[s.consume])]
  /\ UNCHANGED <<pc, todo, request, link, flags, audio, starts>>

Setup == SetRequest \/ Request \/ Await \/ DownFrame \/ UpFrame \/ CodecIsr
Echo == EchoStart \/ EchoPlay \/ EchoRecord \/ EchoStop \/ EchoStopped

Next == Setup \/ Echo \/ \E d \in Dirs : Transfer(d) \/ Isr(d)

\* The program goes on, the codec answers, handlers run and enabled channels transfer;
\* the user need not start or stop anything.
Spec ==
  /\ Init /\ [][Next]_vars
  /\ WF_vars(Setup) /\ WF_vars(EchoPlay \/ EchoRecord \/ EchoStopped)
  /\ \A d \in Dirs : WF_vars(Transfer(d)) /\ WF_vars(Isr(d))

-----------------------------------------------------------------------------
(* Properties *)

Contents(s) == [i \in 0..(s.level - 1) |-> s.queue[(s.consume + i) % QSize]]
Held(s) == {Contents(s)[i] : i \in 0..(s.level - 1)}
Echoing == pc = "idle" /\ stream["play"].en

\* A channel transfers the buffer at the head of its queue, the one its handler will
\* hand on, and it is at work unless its interrupt is pending or its queue is empty, in
\* which case the next refill knows that it has to start it.
HeadTransferred ==
  Echoing => \A d \in Dirs : LET s == stream[d] IN
    /\ s.dma # None => s.en /\ ~s.irq /\ s.level > 0 /\ s.dma = s.queue[s.consume]
    /\ s.dma = None => s.irq \/ s.dry
    /\ s.dry <=> s.level = 0

\* What is heard are the recordings in the order in which they were made, each once,
\* after the two silent buffers.
Next1(n) == IF n = Silence THEN 0 ELSE (n + 1) % Stamps
EchoInOrder ==
  [][stream["play"].dma # None /\ stream'["play"].dma = None
     => heard' = Next1(heard) \/ (heard = Silence /\ heard' = Silence)]_vars

\* snd_init leaves every volume set in the codec and has read the codec's own answer,
\* whenever the frames and interrupts came.
CodecSetUp == pc \notin {"set", "go", "wait"} => codec = 1..Volumes /\ codec_id = "register"

\* The echo never stalls: whatever the two streams' order, each buffer that is recorded
\* is played, unless the echo is stopped.
EveryRecordingHeard ==
  \A b \in Buffers :
    (Echoing /\ b \in Held(stream["record"])) ~> (b \in Held(stream["play"]) \/ ~Echoing)
=============================================================================
