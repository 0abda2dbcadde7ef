---------------------------- MODULE SoundProofs ----------------------------
(***************************************************************************)
(* The sound driver, for queues of any size and a codec with any number of *)
(* registers: snd_init reaches all of them, each DMA channel transfers the *)
(* head of its queue, and the echo is heard in the order it was recorded.  *)
(***************************************************************************)
EXTENDS Sound, TLAPS

(***************************************************************************)
(* The codec: one request is under way at a time, and the flag snd_init    *)
(* waits for is not set before that request is answered.                   *)
(***************************************************************************)
Setting == {"set", "go", "wait"}
Starting == {"play_refill", "play_start", "record_empty", "record_refill", "record_start"}
Stopping == {"record_ack", "play_stop", "play_ack"}

Silent == ~request_en /\ asked = "none" /\ cr_irqs = {}
Under(n) == codec = 1..n
Asking ==
  /\ request_en /\ request_addr = todo /\ request_write = ~Reading
  /\ asked = "none" /\ cr_irqs = {}
  /\ IF Reading THEN ~snd_cr_reply /\ Under(0) ELSE ~snd_cr_request /\ Under(todo - 1)
Answering ==
  /\ ~request_en
  /\ IF Reading
     THEN /\ Under(0)
          /\ \/ asked = "register" /\ cr_irqs \subseteq {"request"} /\ ~snd_cr_reply
             \/ asked = "none" /\ reply_data = "register" /\ (IF snd_cr_reply THEN cr_irqs = {} ELSE "reply" \in cr_irqs)
     ELSE /\ Under(todo) /\ asked = "none"
          /\ cr_irqs = (IF snd_cr_request THEN {} ELSE {"request"})

Codec ==
  /\ pc \in Setting \cup {"idle"} \cup Starting \cup Stopping
  /\ todo \in 0..Volumes
  /\ cr_irqs \subseteq {"request", "reply"} /\ asked \in {"none", "register"}
  /\ request_en \in BOOLEAN /\ snd_cr_request \in BOOLEAN /\ snd_cr_reply \in BOOLEAN
  /\ pc = "set" => Silent /\ Under(IF Reading THEN 0 ELSE todo - 1)
  /\ pc = "go" => /\ Silent /\ Under(IF Reading THEN 0 ELSE todo - 1) /\ request_addr = todo
                  /\ IF Reading THEN ~snd_cr_reply ELSE ~snd_cr_request
  /\ pc = "wait" => Asking \/ Answering
  /\ todo > 0 => pc \in Setting /\ codec_id = "register"
  /\ pc \notin Setting => Silent /\ Under(Volumes) /\ codec_id = "register"

(***************************************************************************)
(* The streams.                                                            *)
(***************************************************************************)
Stream == [queue : [Slots -> Buffers \cup {None}], produce : Slots, consume : Slots,
           level : 0..QSize, dry : BOOLEAN, en : BOOLEAN, dma : Buffers \cup {None}, irq : BOOLEAN]

\* The i-th buffer of a queue
Slot(c, i) == IF c + i < QSize THEN c + i ELSE c + i - QSize
At(s, i) == s.queue[Slot(s.consume, i)]
Listed(s) == 0..(s.level - 1)

Queue(s) ==
  /\ s.level <= 4 /\ s.produce = Slot(s.consume, s.level)
  /\ \A i \in Listed(s) : At(s, i) \in Buffers
  /\ \A i, j \in Listed(s) : At(s, i) = At(s, j) => i = j

Off(s) == ~s.en /\ ~s.irq
Emptied(s) == s.level = 0 /\ ~s.dry /\ s.produce = 0 /\ s.consume = 0
Loaded(s, a, b) == Queue(s) /\ s.level = 2 /\ ~s.dry /\ At(s, 0) = a /\ At(s, 1) = b

\* HeadTransferred for one stream, whose interrupt is pending for the buffer at its head
HeadOf(s) ==
  /\ s.dma # None => s.en /\ ~s.irq /\ s.level > 0 /\ s.dma = s.queue[s.consume]
  /\ s.dma = None => s.irq \/ s.dry
  /\ s.irq => s.level > 0
  /\ s.dry <=> s.level = 0

\* All four buffers are in the two queues.
Shared(p, r) ==
  /\ Queue(p) /\ Queue(r) /\ p.level + r.level = 4
  /\ \A i \in Listed(p), j \in Listed(r) : At(p, i) # At(r, j)

\* The recordings in the playback queue follow each other and what was heard last ...
Follows(m, n) == n = Next1(m) \/ (m = Silence /\ n = Silence)
Chain(p) ==
  /\ IF p.irq THEN heard = content[At(p, 0)]
     ELSE p.level > 0 => Follows(heard, content[At(p, 0)])
  /\ \A i \in Listed(p) : i + 1 < p.level => Follows(content[At(p, i)], content[At(p, i + 1)])

\* ... up to the last one made, which may still be in the hands of the recorder.
Last(p) == IF p.level = 0 THEN heard ELSE content[At(p, p.level - 1)]
Newest(p, r) ==
  IF r.irq THEN Follows(Last(p), content[At(r, 0)]) /\ Next1(content[At(r, 0)]) = stamp
  ELSE Next1(Last(p)) = stamp

Typed ==
  /\ stream \in [Dirs -> Stream] /\ content \in [Buffers -> 0..Stamps]
  /\ stamp \in 0..(Stamps - 1) /\ heard \in 0..Stamps

Started(p) == Loaded(p, 1, 2) /\ p.en /\ ~p.irq /\ p.dma = 1

Play == stream["play"]
Rec == stream["record"]

Resting ==
  /\ pc \in Setting => Play = Idle /\ Rec = Idle
  /\ pc = "idle" /\ ~Play.en => Off(Play) /\ Off(Rec)
Beginning ==
  /\ pc \in Starting => /\ Off(Rec) /\ stamp = 0 /\ heard = Silence
                        /\ content[1] = Silence /\ content[2] = Silence
  /\ pc = "play_refill" => Off(Play) /\ Emptied(Play)
  /\ pc = "play_start" => Off(Play) /\ Loaded(Play, 1, 2)
  /\ pc \in {"record_empty", "record_refill", "record_start"} => Started(Play)
  /\ pc = "record_refill" => Emptied(Rec)
  /\ pc = "record_start" => Loaded(Rec, 3, 4)
Ending ==
  /\ pc \in Stopping => ~Rec.en /\ ~Rec.dry
  /\ pc \in {"play_stop", "play_ack"} => ~Rec.irq
  /\ pc \in {"record_ack", "play_stop"} => Play.en
  /\ pc = "play_ack" => ~Play.en
Playing == Shared(Play, Rec) /\ HeadOf(Play) /\ Chain(Play)
Recording == Rec.en /\ HeadOf(Rec) /\ Newest(Play, Rec)
Running ==
  /\ Play.en /\ pc \in {"idle", "record_ack", "play_stop"} => Playing
  /\ Play.en /\ pc = "idle" => Recording

EchoInv == Resting /\ Beginning /\ Ending /\ Running

IInv == Codec /\ (~StopWhenDry => Typed /\ EchoInv)

-----------------------------------------------------------------------------
(* The codec *)

LEMMA CodecSteps ==
  ASSUME [Next]_vars
  PROVE  \/ /\ UNCHANGED <<todo, request, link, flags>>
            /\ pc' = pc \/ {pc, pc'} \subseteq {"idle"} \cup Starting \cup Stopping
         \/ SetRequest \/ Request \/ Await \/ DownFrame \/ UpFrame \/ CodecIsr
  <1> DEFINE Same == /\ UNCHANGED <<todo, request, link, flags>>
                     /\ pc' = pc \/ {pc, pc'} \subseteq {"idle"} \cup Starting \cup Stopping
  <1> USE DEF Starting, Stopping
  <1>1. ASSUME Echo PROVE Same
    BY <1>1 DEF Echo, EchoStart, EchoPlay, EchoRecord, EchoStop, EchoStopped, Ack, Step, Goto
  <1>2. ASSUME NEW d \in Dirs, Transfer(d) \/ Isr(d) PROVE Same
    BY <1>2 DEF Transfer, Isr
  <1>3. ASSUME UNCHANGED vars PROVE Same
    BY <1>3 DEF vars
  <1> QED BY <1>1, <1>2, <1>3 DEF Next, Setup

LEMMA NextCodec == Codec /\ [Next]_vars => Codec'
  <1> SUFFICES ASSUME Codec, [Next]_vars PROVE Codec'
    OBVIOUS
  <1> USE VolumesAssumption DEF Setting, Starting, Stopping, Reading, Goto, Silent, Under
  <1>1. CASE /\ UNCHANGED <<todo, request, link, flags>>
             /\ pc' = pc \/ {pc, pc'} \subseteq {"idle"} \cup Starting \cup Stopping
    BY <1>1 DEF Codec, Asking, Answering, request, link, flags
  <1>2. CASE SetRequest
    BY <1>2 DEF SetRequest, Codec, link
  <1>3. CASE Request
    BY <1>3 DEF Request, Codec, Asking, link, flags
  <1>4. CASE Await
    <2>1. /\ pc = "wait" /\ UNCHANGED <<request, link, snd_cr_request, snd_cr_reply>>
          /\ IF Reading THEN snd_cr_reply /\ codec_id' = reply_data
             ELSE snd_cr_request /\ codec_id' = codec_id
      BY <1>4 DEF Await
    <2>2. /\ Silent /\ Under(todo) /\ codec_id' = "register" /\ todo \in 0..Volumes
      BY <2>1 DEF Codec, Asking, Answering
    <2>3. CASE todo < Volumes
      <3>1. todo' = todo + 1 /\ pc' = "set"
        BY <1>4, <2>3 DEF Await
      <3> QED BY <2>1, <2>2, <2>3, <3>1 DEF Codec, request, link
    <2>4. CASE ~(todo < Volumes)
      <3>1. todo' = 0 /\ pc' = "idle" /\ todo = Volumes
        BY <1>4, <2>2, <2>4 DEF Await
      <3> QED BY <2>1, <2>2, <3>1 DEF Codec, request, link
    <2> QED BY <2>3, <2>4
  <1>5. CASE DownFrame
    <2>1. /\ request_en /\ request_en' = FALSE /\ cr_irqs' = cr_irqs \cup {"request"}
          /\ IF request_write THEN codec' = codec \cup {request_addr} /\ asked' = asked
             ELSE asked' = "register" /\ codec' = codec
          /\ UNCHANGED <<pc, todo, request_addr, flags>>
      BY <1>5 DEF DownFrame
    <2>2. pc = "wait" /\ Asking
      BY <2>1 DEF Codec, Answering
    <2>3. request_en' \in BOOLEAN /\ snd_cr_request' \in BOOLEAN /\ snd_cr_reply' \in BOOLEAN
      BY <2>1 DEF Codec, flags
    <2>4. cr_irqs' = {"request"} /\ pc' = "wait" /\ todo' = todo /\ todo \in 0..Volumes
          /\ codec_id' = codec_id /\ (todo > 0 => codec_id = "register")
      BY <2>1, <2>2 DEF Asking, Codec, flags
    <2>5. CASE todo = 0
      <3>1. codec = 1..0 /\ asked' = "register" /\ codec' = codec /\ ~snd_cr_reply'
        BY <2>1, <2>2, <2>5 DEF Asking, flags
      <3>2. Answering'
        BY <2>1, <2>4, <2>5, <3>1 DEF Answering
      <3> QED BY <2>3, <2>4, <2>5, <3>1, <3>2 DEF Codec
    <2>6. CASE todo # 0
      <3>1. /\ request_write /\ request_addr = todo /\ asked = "none" /\ codec = 1..(todo - 1)
            /\ ~snd_cr_request
        BY <2>2, <2>6 DEF Asking
      <3>2. codec' = codec \cup {todo} /\ asked' = "none" /\ ~snd_cr_request'
        BY <2>1, <3>1 DEF flags
      <3>3. 1..(todo - 1) \cup {todo} = 1..todo
        BY <2>4, <2>6
      <3>4. codec' = 1..todo
        BY ONLY <3>1, <3>2, <3>3
      <3>5. Answering'
        BY <2>1, <2>4, <2>6, <3>2, <3>4 DEF Answering
      <3> QED BY <2>3, <2>4, <2>6, <3>2, <3>5 DEF Codec
    <2> QED BY <2>5, <2>6
  <1>6. CASE UpFrame
    <2>1. /\ asked = "register" /\ asked' = "none" /\ reply_data' = asked
          /\ cr_irqs' = cr_irqs \cup {"reply"} /\ UNCHANGED <<pc, todo, request, codec, flags>>
      BY <1>6 DEF UpFrame, Codec
    <2>2. pc = "wait" /\ Answering /\ todo = 0
      BY <2>1 DEF Codec, Asking, Answering
    <2>3. Answering'
      BY <2>1, <2>2 DEF Answering, request, flags
    <2> QED BY <2>1, <2>2, <2>3 DEF Codec, request, flags
  <1>7. CASE CodecIsr
    <2>1. /\ cr_irqs # {} /\ cr_irqs' = {}
          /\ snd_cr_request' = (snd_cr_request \/ "request" \in cr_irqs)
          /\ snd_cr_reply' = (snd_cr_reply \/ "reply" \in cr_irqs)
          /\ UNCHANGED <<pc, todo, request, asked, reply_data, codec, codec_id>>
      BY <1>7 DEF CodecIsr
    <2>2. pc = "wait" /\ Answering
      BY <2>1 DEF Codec, Asking
    <2>3. Answering'
      BY <2>1, <2>2 DEF Answering, request, Codec
    <2>4. snd_cr_request' \in BOOLEAN /\ snd_cr_reply' \in BOOLEAN
      BY <2>1
    <2> QED BY <2>1, <2>2, <2>3, <2>4 DEF Codec, request
  <1> QED BY <1>1, <1>2, <1>3, <1>4, <1>5, <1>6, <1>7, CodecSteps

-----------------------------------------------------------------------------
(* One stream *)

LEMMA SlotFacts ==
  ASSUME NEW c \in Slots
  PROVE  /\ Slot(c, 0) = c /\ Wrap(c) \in Slots
         /\ \A i \in 0..4 : Slot(c, i) \in Slots
         /\ \A i, j \in 0..3 : Slot(c, i) = Slot(c, j) => i = j
         /\ \A i \in 0..3 : Wrap(Slot(c, i)) = Slot(c, i + 1) /\ Slot(Wrap(c), i) = Slot(c, i + 1)
  BY QSizeAssumption DEF Slot, Wrap, Slots

\* r is s with b in its queue, and loaded into the controller when that had run dry.
Refilled(r, s, b) ==
  /\ r \in Stream
  /\ r.queue = [s.queue EXCEPT ![s.produce] = b]
  /\ r.produce = Wrap(s.produce) /\ r.consume = s.consume
  /\ r.level = s.level + 1 /\ r.dry = FALSE /\ r.irq = s.irq
  /\ s.dry => r.dma = b /\ r.en
  /\ ~s.dry => r.dma = s.dma /\ r.en = s.en

LEMMA RefillFields ==
  ASSUME NEW s \in Stream, NEW b \in Buffers, s.level < QSize
  PROVE  Refilled(Refill(s, b), s, b)
  <1> DEFINE t == [s EXCEPT !.queue[s.produce] = b, !.produce = Wrap(@), !.level = @ + 1,
                            !.dry = FALSE]
  <1>1. ~(s.level >= QSize)
    BY QSizeAssumption DEF Stream
  <1>2. Refill(s, b) = IF s.dry THEN [t EXCEPT !.dma = b, !.en = TRUE] ELSE t
    BY <1>1 DEF Refill, Start
  <1>3. Wrap(s.produce) \in Slots /\ s.level + 1 \in 0..QSize
    BY SlotFacts, QSizeAssumption DEF Stream
  <1>4. /\ t \in Stream /\ t.queue = [s.queue EXCEPT ![s.produce] = b] /\ t.produce = Wrap(s.produce)
        /\ t.consume = s.consume /\ t.level = s.level + 1 /\ t.dry = FALSE /\ t.irq = s.irq
        /\ t.dma = s.dma /\ t.en = s.en
    BY <1>3 DEF Stream
  <1> HIDE DEF t
  <1>5. CASE s.dry
    <2>1. Refill(s, b) = [t EXCEPT !.dma = b, !.en = TRUE]
      BY <1>2, <1>5
    <2>2. [t EXCEPT !.dma = b, !.en = TRUE] \in Stream
      BY <1>4 DEF Stream
    <2> QED BY <1>4, <1>5, <2>1, <2>2 DEF Stream, Refilled
  <1>6. CASE ~s.dry
    BY <1>2, <1>4, <1>6 DEF Stream, Refilled
  <1> QED BY <1>5, <1>6

LEMMA RefillQueue ==
  ASSUME NEW s \in Stream, NEW b \in Buffers, Queue(s), s.level < 4, \A i \in Listed(s) : At(s, i) # b
  PROVE  /\ Queue(Refill(s, b)) /\ At(Refill(s, b), s.level) = b
         /\ \A i \in Listed(s) : At(Refill(s, b), i) = At(s, i)
  <1> DEFINE r == Refill(s, b)
  <1>1. /\ r \in Stream /\ r.queue = [s.queue EXCEPT ![s.produce] = b] /\ r.produce = Wrap(s.produce)
        /\ r.consume = s.consume /\ r.level = s.level + 1
    <2>1. s.level < QSize
      BY QSizeAssumption DEF Stream
    <2> QED BY <2>1, RefillFields DEF Refilled
  <1> HIDE DEF r
  <1>2. s.level \in 0..3 /\ s.consume \in Slots /\ s.produce = Slot(s.consume, s.level)
        /\ s.queue \in [Slots -> Buffers \cup {None}]
    BY DEF Stream, Queue
  <1>3. \A i \in Listed(s) : At(r, i) = At(s, i)
    BY <1>1, <1>2, SlotFacts DEF At, Listed
  <1>4. At(r, s.level) = b
    BY <1>1, <1>2, SlotFacts DEF At
  <1>5. r.produce = Slot(r.consume, r.level) /\ r.level <= 4
    BY <1>1, <1>2, SlotFacts
  <1>6. \A i \in Listed(r) : i \in Listed(s) \/ i = s.level
    BY <1>1, <1>2 DEF Listed
  <1>7. Queue(r)
    BY <1>3, <1>4, <1>5, <1>6 DEF Queue
  <1> QED BY <1>3, <1>4, <1>7 DEF r

\* The first buffer of a queue that is not empty
LEMMA HeadAt ==
  ASSUME NEW s \in Stream
  PROVE  s.queue[s.consume] = At(s, 0)
  BY SlotFacts DEF At, Stream

LEMMA HandBackFields ==
  ASSUME NEW s \in Stream, s.level > 0, Queue(s)
  PROVE  /\ HandBack(s) \in Stream
         /\ HandBack(s).queue = s.queue /\ HandBack(s).produce = s.produce
         /\ HandBack(s).consume = Wrap(s.consume) /\ HandBack(s).level = s.level - 1
         /\ ~HandBack(s).irq
         /\ s.level > 1 => /\ HandBack(s).dma = At(s, 1) /\ HandBack(s).en
                           /\ HandBack(s).dry = s.dry
         /\ s.level = 1 => /\ HandBack(s).dma = s.dma /\ HandBack(s).en = s.en /\ HandBack(s).dry
  <1> DEFINE t == [s EXCEPT !.consume = Wrap(@), !.level = @ - 1, !.irq = FALSE]
  <1>1. Wrap(s.consume) \in Slots /\ s.level - 1 \in 0..QSize /\ s.queue[Wrap(s.consume)] = At(s, 1)
    <2>1. Wrap(s.consume) = Slot(s.consume, 1) /\ Wrap(s.consume) \in Slots
      BY SlotFacts DEF Stream
    <2> QED BY <2>1, QSizeAssumption DEF Stream, At
  <1>2. /\ t \in Stream /\ t.queue = s.queue /\ t.produce = s.produce /\ t.consume = Wrap(s.consume)
        /\ t.level = s.level - 1 /\ t.irq = FALSE /\ t.dma = s.dma /\ t.en = s.en /\ t.dry = s.dry
    BY <1>1 DEF Stream
  <1>3. HandBack(s) = IF t.level > 0 THEN [t EXCEPT !.dma = t.queue[t.consume], !.en = TRUE]
                      ELSE [t EXCEPT !.dry = TRUE]
    BY DEF HandBack, Start
  <1> HIDE DEF t
  <1>4. CASE s.level > 1
    <2>1. t.level > 0 /\ t.queue[t.consume] = At(s, 1) /\ At(s, 1) \in Buffers
      BY <1>1, <1>2, <1>4 DEF Stream, Queue, Listed
    <2>2. HandBack(s) = [t EXCEPT !.dma = At(s, 1), !.en = TRUE]
      BY <1>3, <2>1
    <2>3. [t EXCEPT !.dma = At(s, 1), !.en = TRUE] \in Stream
      BY <1>2, <2>1 DEF Stream
    <2>4. HandBack(s) \in Stream
      BY <2>2, <2>3
    <2>5. /\ HandBack(s).queue = t.queue /\ HandBack(s).produce = t.produce
          /\ HandBack(s).consume = t.consume /\ HandBack(s).level = t.level
          /\ HandBack(s).irq = t.irq /\ HandBack(s).dry = t.dry
          /\ HandBack(s).dma = At(s, 1) /\ HandBack(s).en = TRUE
      BY <1>2, <2>2 DEF Stream
    <2> QED BY <1>2, <1>4, <2>4, <2>5
  <1>5. CASE s.level = 1
    <2>1. ~(t.level > 0)
      BY <1>2, <1>5
    <2>2. HandBack(s) = [t EXCEPT !.dry = TRUE]
      BY <1>3, <2>1
    <2>3. [t EXCEPT !.dry = TRUE] \in Stream
      BY <1>2 DEF Stream
    <2>4. HandBack(s) \in Stream
      BY <2>2, <2>3
    <2>5. /\ HandBack(s).queue = t.queue /\ HandBack(s).produce = t.produce
          /\ HandBack(s).consume = t.consume /\ HandBack(s).level = t.level
          /\ HandBack(s).irq = t.irq /\ HandBack(s).dry = TRUE
          /\ HandBack(s).dma = t.dma /\ HandBack(s).en = t.en
      BY <1>2, <2>2 DEF Stream
    <2> QED BY <1>2, <1>5, <2>4, <2>5
  <1>6. s.level = 1 \/ s.level > 1
    BY DEF Stream
  <1> QED BY <1>4, <1>5, <1>6

LEMMA HandBackQueue ==
  ASSUME NEW s \in Stream, s.level > 0, Queue(s)
  PROVE  /\ Queue(HandBack(s)) /\ \A i \in Listed(HandBack(s)) : At(HandBack(s), i) = At(s, i + 1)
         /\ \A i \in Listed(HandBack(s)) : At(HandBack(s), i) # At(s, 0)
  <1> DEFINE h == HandBack(s)
  <1>1. /\ h \in Stream /\ h.queue = s.queue /\ h.produce = s.produce /\ h.consume = Wrap(s.consume)
        /\ h.level = s.level - 1
    BY HandBackFields
  <1> HIDE DEF h
  <1>2. /\ s.level \in 1..4 /\ s.consume \in Slots /\ s.produce = Slot(s.consume, s.level)
        /\ \A i \in Listed(s) : At(s, i) \in Buffers
        /\ \A i, j \in Listed(s) : At(s, i) = At(s, j) => i = j
    BY DEF Stream, Queue
  <1>3. \A i \in Listed(h) : /\ At(h, i) = At(s, i + 1) /\ i + 1 \in Listed(s) /\ 0 \in Listed(s)
                             /\ i + 1 # 0
    BY <1>1, <1>2, SlotFacts DEF At, Listed
  <1>4. h.produce = Slot(h.consume, h.level) /\ h.level <= 4
    BY <1>1, <1>2, SlotFacts
  <1>5. \A i, j \in Listed(h) : i + 1 = j + 1 => i = j
    BY <1>1, <1>2 DEF Listed
  <1>6. Queue(h)
    BY <1>2, <1>3, <1>4, <1>5 DEF Queue
  <1>7. \A i \in Listed(h) : At(h, i) # At(s, 0)
    BY <1>2, <1>3
  <1> QED BY <1>3, <1>6, <1>7 DEF h

LEMMA RefillHead ==
  ASSUME NEW s \in Stream, NEW b \in Buffers, Queue(s), s.level < 4, HeadOf(s)
  PROVE  HeadOf(Refill(s, b))
  <1> DEFINE r == Refill(s, b)
  <1>1. /\ r.queue = [s.queue EXCEPT ![s.produce] = b] /\ r.consume = s.consume /\ r.level = s.level + 1
        /\ r.dry = FALSE /\ r.irq = s.irq
        /\ s.dry => r.dma = b /\ r.en
        /\ ~s.dry => r.dma = s.dma /\ r.en = s.en
    <2>1. s.level < QSize
      BY QSizeAssumption DEF Stream
    <2> QED BY <2>1, RefillFields DEF Refilled
  <1> HIDE DEF r
  <1>2. s.level \in 0..3 /\ s.consume \in Slots /\ s.produce = Slot(s.consume, s.level)
        /\ s.queue \in [Slots -> Buffers \cup {None}] /\ b # None
    BY DEF Stream, Queue, Buffers, None
  <1>3. CASE s.dry
    <2>1. s.level = 0 /\ ~s.irq /\ s.produce = s.consume
      BY <1>2, <1>3, SlotFacts DEF HeadOf
    <2> QED BY <1>1, <1>2, <1>3, <2>1 DEF HeadOf, r
  <1>4. CASE ~s.dry
    <2>1. s.level > 0
      BY <1>2, <1>4 DEF HeadOf
    <2>2. s.produce # s.consume
      BY <1>2, <2>1, SlotFacts
    <2>3. r.queue[r.consume] = s.queue[s.consume]
      BY <1>1, <1>2, <2>2
    <2> QED BY <1>1, <1>2, <1>4, <2>1, <2>3 DEF HeadOf, r
  <1> QED BY <1>3, <1>4

LEMMA HandBackHead ==
  ASSUME NEW s \in Stream, s.irq, Queue(s), HeadOf(s)
  PROVE  HeadOf(HandBack(s)) /\ (s.en => HandBack(s).en)
  <1> DEFINE h == HandBack(s)
  <1>1. s.level > 0 /\ s.dma = None /\ ~s.dry /\ s.level \in Nat
    BY DEF HeadOf, Stream
  <1>2. /\ h.queue = s.queue /\ h.consume = Wrap(s.consume) /\ h.level = s.level - 1 /\ ~h.irq
        /\ s.level > 1 => h.dma = At(s, 1) /\ h.en /\ h.dry = s.dry
        /\ s.level = 1 => h.dma = s.dma /\ h.en = s.en /\ h.dry
    BY <1>1, HandBackFields
  <1>3. Wrap(s.consume) = Slot(s.consume, 1)
    BY SlotFacts DEF Stream
  <1> HIDE DEF h
  <1>4. CASE s.level > 1
    <2>1. 1 \in Listed(s)
      BY <1>1, <1>4 DEF Listed
    <2>2. At(s, 1) \in Buffers
      BY <2>1 DEF Queue
    <2>3. h.dma = h.queue[h.consume]
      BY <1>2, <1>3, <1>4 DEF At
    <2> QED BY <1>1, <1>2, <1>4, <2>2, <2>3 DEF HeadOf, h, Buffers, None
  <1>5. CASE s.level = 1
    BY <1>1, <1>2, <1>5 DEF HeadOf, h
  <1> QED BY <1>1, <1>4, <1>5

-----------------------------------------------------------------------------
(* Both streams *)

LEMMA IdleStream == Idle \in Stream
  BY QSizeAssumption DEF Idle, Stream, Slots

LEMMA EmptyFields ==
  ASSUME NEW s \in Stream
  PROVE  /\ Empty(s) \in Stream /\ Emptied(Empty(s))
         /\ Empty(s).en = s.en /\ Empty(s).irq = s.irq /\ Empty(s).dma = s.dma
  <1>1. 0 \in Slots /\ 0 \in 0..QSize
    BY QSizeAssumption DEF Slots
  <1>2. [s EXCEPT !.produce = 0, !.consume = 0, !.level = 0, !.dry = FALSE] \in Stream
    BY <1>1 DEF Stream
  <1>3. Empty(s) \in Stream
    BY <1>2 DEF Empty
  <1>4. /\ Empty(s).produce = 0 /\ Empty(s).consume = 0 /\ Empty(s).level = 0 /\ Empty(s).dry = FALSE
        /\ Empty(s).en = s.en /\ Empty(s).irq = s.irq /\ Empty(s).dma = s.dma
    BY DEF Empty, Stream
  <1> QED BY <1>3, <1>4 DEF Emptied

LEMMA RefillTwice ==
  ASSUME NEW s \in Stream, Emptied(s), NEW a \in Buffers, NEW b \in Buffers, a # b
  PROVE  LET u == Refill(Refill(s, a), b) IN
         u \in Stream /\ Loaded(u, a, b) /\ u.en = s.en /\ u.irq = s.irq /\ u.dma = s.dma
  <1> DEFINE t == Refill(s, a)
             u == Refill(t, b)
  <1>1. s.level = 0 /\ ~s.dry /\ s.level < QSize /\ s.level < 4 /\ Listed(s) = {}
    BY QSizeAssumption DEF Emptied, Listed
  <1>2. Queue(s)
    BY <1>1, QSizeAssumption DEF Queue, Emptied, Slot
  <1>3. /\ t \in Stream /\ t.level = 1 /\ ~t.dry /\ t.irq = s.irq /\ t.dma = s.dma /\ t.en = s.en
        /\ t.level < QSize /\ t.level < 4
    <2>1. /\ t \in Stream /\ t.level = s.level + 1 /\ t.dry = FALSE /\ t.irq = s.irq
          /\ t.dma = s.dma /\ t.en = s.en
      BY <1>1, RefillFields DEF Refilled
    <2> QED BY <1>1, <2>1, QSizeAssumption
  <1>4. Queue(t) /\ At(t, 0) = a
    BY <1>1, <1>2, RefillQueue
  <1> HIDE DEF t
  <1>5. Listed(t) = {0}
    BY <1>3 DEF Listed
  <1>6. /\ u \in Stream /\ u.level = 2 /\ ~u.dry /\ u.irq = t.irq /\ u.dma = t.dma /\ u.en = t.en
    <2>1. /\ u \in Stream /\ u.level = t.level + 1 /\ u.dry = FALSE /\ u.irq = t.irq
          /\ u.dma = t.dma /\ u.en = t.en
      <3>1. t \in Stream /\ t.level < QSize
        BY <1>3
      <3>2. ~t.dry
        BY <1>3
      <3>3. Refilled(u, t, b)
        BY <3>1, RefillFields
      <3> QED BY <3>2, <3>3 DEF Refilled
    <2> QED BY <1>3, <2>1
  <1>7. Queue(u) /\ At(u, 1) = b /\ At(u, 0) = At(t, 0)
    BY <1>3, <1>4, <1>5, RefillQueue
  <1> HIDE DEF u
  <1>8. Loaded(u, a, b) /\ u.en = s.en /\ u.irq = s.irq /\ u.dma = s.dma
    BY <1>3, <1>4, <1>6, <1>7 DEF Loaded
  <1> QED BY <1>6, <1>8 DEF t, u

\* A change of the other fields leaves the queue as it is.
Alike(s, t) ==
  /\ t \in Stream /\ t.queue = s.queue /\ t.produce = s.produce /\ t.consume = s.consume
  /\ t.level = s.level

LEMMA AlikeQueue ==
  ASSUME NEW s, NEW t, Alike(s, t)
  PROVE  /\ Listed(t) = Listed(s) /\ \A i \in Listed(s) : At(t, i) = At(s, i)
         /\ At(t, 0) = At(s, 0) /\ At(t, 1) = At(s, 1)
         /\ Queue(s) => Queue(t)
  BY DEF Alike, Listed, At, Queue

LEMMA SharedAlike ==
  ASSUME NEW p, NEW q, NEW r, NEW s, Shared(p, r), Alike(p, q), Alike(r, s)
  PROVE  Shared(q, s)
  <1>1. q.level = p.level /\ s.level = r.level
    BY DEF Alike
  <1> QED BY <1>1, AlikeQueue DEF Shared

LEMMA StartLoaded ==
  ASSUME NEW s \in Stream, NEW a \in Buffers, NEW b \in Buffers, Loaded(s, a, b), Off(s)
  PROVE  LET t == StartStream(s) IN
         t \in Stream /\ Loaded(t, a, b) /\ t.en /\ ~t.irq /\ t.dma = a
  <1> DEFINE t == StartStream(s)
  <1>1. t = [s EXCEPT !.dma = a, !.en = TRUE]
    <2>1. ~s.en /\ s.level > 0 /\ s.queue[s.consume] = a
      BY HeadAt DEF Off, Loaded
    <2> QED BY <2>1 DEF StartStream, Start
  <1>2. t \in Stream
    BY <1>1 DEF Stream
  <1>3. /\ t.queue = s.queue /\ t.produce = s.produce /\ t.consume = s.consume /\ t.level = s.level
        /\ t.dry = s.dry /\ t.irq = s.irq /\ t.dma = a /\ t.en = TRUE
    BY <1>1 DEF Stream
  <1> HIDE DEF t
  <1>4. Loaded(t, a, b)
    BY <1>2, <1>3, AlikeQueue DEF Loaded, Alike
  <1> QED BY <1>2, <1>3, <1>4 DEF t, Off

\* A buffer goes from one queue to the other.
LEMMA Exchange ==
  ASSUME NEW s \in Stream, NEW t \in Stream, Shared(s, t), s.level > 0
  PROVE  /\ At(s, 0) \in Buffers /\ s.queue[s.consume] = At(s, 0)
         /\ t.level < 4 /\ \A i \in Listed(t) : At(t, i) # At(s, 0)
         /\ Shared(HandBack(s), Refill(t, At(s, 0)))
  <1> DEFINE b == At(s, 0)
             h == HandBack(s)
             f == Refill(t, b)
  <1>1. 0 \in Listed(s) /\ t.level < 4 /\ t.level < QSize /\ s.level \in Nat /\ t.level \in Nat
    BY QSizeAssumption DEF Shared, Stream, Listed
  <1>2. b \in Buffers /\ s.queue[s.consume] = b
    BY <1>1, HeadAt DEF Shared, Queue
  <1>3. \A i \in Listed(t) : At(t, i) # b
    BY <1>1 DEF Shared
  <1>4. /\ Queue(h) /\ \A i \in Listed(h) : At(h, i) = At(s, i + 1) /\ At(h, i) # b
    BY HandBackQueue DEF Shared
  <1>5. /\ Queue(f) /\ At(f, t.level) = b /\ \A i \in Listed(t) : At(f, i) = At(t, i)
    BY <1>1, <1>2, <1>3, RefillQueue DEF Shared
  <1>6. h.level = s.level - 1 /\ f.level = t.level + 1
    BY <1>1, <1>2, HandBackFields, RefillFields DEF Shared, Refilled
  <1> HIDE DEF h, f, b
  <1>7. \A j \in Listed(f) : j = t.level \/ j \in Listed(t)
    BY <1>1, <1>6 DEF Listed
  <1>8. \A i \in Listed(h) : i + 1 \in Listed(s)
    BY <1>1, <1>6 DEF Listed
  <1>9. h.level + f.level = 4
    BY <1>1, <1>6 DEF Shared
  <1>10. \A i \in Listed(h), j \in Listed(f) : At(h, i) # At(f, j)
    BY <1>4, <1>5, <1>7, <1>8 DEF Shared
  <1>11. Shared(h, f)
    BY <1>4, <1>5, <1>9, <1>10 DEF Shared
  <1> QED BY <1>1, <1>2, <1>3, <1>11 DEF b, h, f

LEMMA SharedSwap ==
  ASSUME NEW s \in Stream, NEW t \in Stream, Shared(s, t)
  PROVE  Shared(t, s)
  BY DEF Shared, Stream

-----------------------------------------------------------------------------
(* The echo *)

Quiet == UNCHANGED <<stream, audio>> /\ (pc' = pc \/ {pc, pc'} \subseteq Setting)
Cleared ==
  /\ pc = "wait" /\ pc' = "idle" /\ stream' = [d \in Dirs |-> Empty(stream[d])]
  /\ UNCHANGED audio

LEMMA StreamSteps ==
  ASSUME [Next]_vars
  PROVE  \/ Quiet \/ Cleared \/ EchoStart \/ EchoPlay \/ EchoRecord \/ EchoStop \/ EchoStopped
         \/ Transfer("play") \/ Transfer("record") \/ Isr("play") \/ Isr("record")
  <1>1. ASSUME Await PROVE Quiet \/ Cleared
    BY <1>1 DEF Await, Quiet, Cleared, Setting
  <1>2. ASSUME SetRequest \/ Request \/ DownFrame \/ UpFrame \/ CodecIsr PROVE Quiet
    BY <1>2 DEF SetRequest, Request, DownFrame, UpFrame, CodecIsr, Goto, Quiet, Setting
  <1>3. ASSUME UNCHANGED vars PROVE Quiet
    BY <1>3 DEF vars, Quiet
  <1> QED BY <1>1, <1>2, <1>3 DEF Next, Setup, Echo, Dirs

LEMMA OneStream ==
  ASSUME Typed, NEW s \in Stream, NEW d \in Dirs, stream' = [stream EXCEPT ![d] = s]
  PROVE  /\ stream' \in [Dirs -> Stream]
         /\ Play' = IF d = "play" THEN s ELSE Play
         /\ Rec' = IF d = "record" THEN s ELSE Rec
  BY DEF Typed, Play, Rec, Dirs

LEMMA TypedStreams ==
  ASSUME Typed
  PROVE  Play \in Stream /\ Rec \in Stream
  BY DEF Typed, Play, Rec, Dirs

LEMMA NextQuiet == Typed /\ EchoInv /\ Quiet => Typed' /\ EchoInv'
  <1> SUFFICES ASSUME Typed, EchoInv, Quiet PROVE Typed' /\ EchoInv'
    OBVIOUS
  <1> USE DEF Quiet, audio
  <1>1. Typed'
    BY DEF Typed
  <1>2. Play' = Play /\ Rec' = Rec /\ content' = content /\ stamp' = stamp /\ heard' = heard
    BY DEF Play, Rec
  <1>3. CASE pc' = pc
    BY <1>1, <1>2, <1>3 DEF EchoInv, Resting, Beginning, Ending, Running, Playing, Recording, Chain, Newest,
                      Last
  <1>4. CASE {pc, pc'} \subseteq Setting
    <2>1. pc \in Setting /\ pc' \in {"set", "go", "wait"}
      BY <1>4 DEF Setting
    <2>2. Resting'
      BY <1>2, <2>1 DEF EchoInv, Resting, Setting
    <2>3. Beginning' /\ Ending' /\ Running'
      BY <2>1 DEF Beginning, Ending, Running, Starting, Stopping
    <2> QED BY <1>1, <2>2, <2>3 DEF EchoInv
  <1> QED BY <1>1, <1>3, <1>4

LEMMA NextCleared == Typed /\ EchoInv /\ Cleared => Typed' /\ EchoInv'
  <1> SUFFICES ASSUME Typed, EchoInv, Cleared PROVE Typed' /\ EchoInv'
    OBVIOUS
  <1>1. Play = Idle /\ Rec = Idle
    BY DEF EchoInv, Resting, Cleared, Setting
  <1>2. Play' = Empty(Idle) /\ Rec' = Empty(Idle)
    BY <1>1 DEF Cleared, Play, Rec, Dirs
  <1>3. Empty(Idle) \in Stream /\ Off(Empty(Idle))
    BY IdleStream, EmptyFields DEF Off, Idle
  <1>4. stream' \in [Dirs -> Stream]
    BY <1>1, <1>3 DEF Cleared, Play, Rec, Dirs
  <1>5. Typed'
    BY <1>4 DEF Typed, Cleared, audio
  <1>6. Resting'
    BY <1>2, <1>3 DEF Cleared, Resting, Setting
  <1>7. Beginning' /\ Ending' /\ Running'
    BY <1>2, <1>3 DEF Cleared, Beginning, Ending, Running, Starting, Stopping, Off
  <1> QED BY <1>5, <1>6, <1>7 DEF EchoInv

LEMMA NextStart == Typed /\ EchoInv /\ EchoStart => Typed' /\ EchoInv'
  <1> SUFFICES ASSUME Typed, EchoInv, EchoStart PROVE Typed' /\ EchoInv'
    OBVIOUS
  <1>1. /\ pc = "idle" /\ pc' = "play_refill" /\ ~Play.en
        /\ stream' = [stream EXCEPT !["play"] = Empty(Play)]
        /\ content' = [content EXCEPT ![1] = Silence, ![2] = Silence]
        /\ stamp' = 0 /\ heard' = Silence
    BY DEF EchoStart, Step, Goto, Play
  <1>2. Off(Play) /\ Off(Rec)
    BY <1>1 DEF EchoInv, Resting
  <1>3. Empty(Play) \in Stream /\ Off(Empty(Play)) /\ Emptied(Empty(Play))
    BY <1>2, TypedStreams, EmptyFields DEF Off
  <1>4. stream' \in [Dirs -> Stream] /\ Play' = Empty(Play) /\ Rec' = Rec
    BY <1>1, <1>3, OneStream DEF Dirs
  <1>5. Typed'
    <2>1. Silence \in 0..Stamps /\ 0 \in 0..(Stamps - 1)
      BY StampsAssumption DEF Silence
    <2>2. content' \in [Buffers -> 0..Stamps]
      BY <1>1, <2>1 DEF Typed
    <2> QED BY <1>1, <1>4, <2>1, <2>2 DEF Typed
  <1>6. content'[1] = Silence /\ content'[2] = Silence
    BY <1>1 DEF Typed, Buffers
  <1>7. Resting' /\ Ending' /\ Running'
    BY <1>1 DEF Resting, Ending, Running, Setting, Stopping
  <1>8. Beginning'
    BY <1>1, <1>2, <1>3, <1>4, <1>6 DEF Beginning, Starting
  <1> QED BY <1>5, <1>7, <1>8 DEF EchoInv

LEMMA NextPlay == Typed /\ EchoInv /\ EchoPlay => Typed' /\ EchoInv'
  <1> SUFFICES ASSUME Typed, EchoInv, EchoPlay PROVE Typed' /\ EchoInv'
    OBVIOUS
  <1>1. UNCHANGED audio /\ pc \in Starting
    BY DEF EchoPlay, Step, Goto, Starting
  <1>2. Off(Rec) /\ stamp = 0 /\ heard = Silence /\ content[1] = Silence /\ content[2] = Silence
    BY <1>1 DEF EchoInv, Beginning
  <1>3. Play \in Stream
    BY TypedStreams
  <1>4. CASE Step("play_refill", "play_start", "play", Refill(Refill(stream["play"], 1), 2))
    <2> DEFINE u == Refill(Refill(Play, 1), 2)
    <2>1. pc = "play_refill" /\ pc' = "play_start" /\ stream' = [stream EXCEPT !["play"] = u]
      BY <1>4 DEF Step, Goto, Play
    <2>2. Off(Play) /\ Emptied(Play)
      BY <2>1 DEF EchoInv, Beginning
    <2>3. u \in Stream /\ Loaded(u, 1, 2) /\ Off(u)
      BY <1>3, <2>2, RefillTwice DEF Off, Buffers
    <2> HIDE DEF u
    <2>4. stream' \in [Dirs -> Stream] /\ Play' = u /\ Rec' = Rec
      BY <2>1, <2>3, OneStream DEF Dirs
    <2>5. Typed'
      BY <1>1, <2>4 DEF Typed, audio
    <2>6. Resting' /\ Ending' /\ Running'
      BY <2>1 DEF Resting, Ending, Running, Setting, Stopping
    <2>7. Beginning'
      BY <1>1, <1>2, <2>1, <2>3, <2>4 DEF Beginning, Starting, audio
    <2> QED BY <2>5, <2>6, <2>7 DEF EchoInv
  <1>5. CASE Step("play_start", "record_empty", "play", StartStream(stream["play"]))
    <2> DEFINE u == StartStream(Play)
    <2>1. pc = "play_start" /\ pc' = "record_empty" /\ stream' = [stream EXCEPT !["play"] = u]
      BY <1>5 DEF Step, Goto, Play
    <2>2. Off(Play) /\ Loaded(Play, 1, 2)
      BY <2>1 DEF EchoInv, Beginning
    <2>3. u \in Stream /\ Started(u)
      BY <1>3, <2>2, StartLoaded DEF Started, Buffers
    <2> HIDE DEF u
    <2>4. stream' \in [Dirs -> Stream] /\ Play' = u /\ Rec' = Rec
      BY <2>1, <2>3, OneStream DEF Dirs
    <2>5. Typed'
      BY <1>1, <2>4 DEF Typed, audio
    <2>6. Resting' /\ Ending' /\ Running'
      BY <2>1 DEF Resting, Ending, Running, Setting, Stopping
    <2>7. Beginning'
      BY <1>1, <1>2, <2>1, <2>3, <2>4 DEF Beginning, Starting, audio
    <2> QED BY <2>5, <2>6, <2>7 DEF EchoInv
  <1> QED BY <1>4, <1>5 DEF EchoPlay

LEMMA NextRecord == Typed /\ EchoInv /\ EchoRecord => Typed' /\ EchoInv'
  <1> SUFFICES ASSUME Typed, EchoInv, EchoRecord PROVE Typed' /\ EchoInv'
    OBVIOUS
  <1>1. UNCHANGED audio /\ pc \in {"record_empty", "record_refill", "record_start"}
    BY DEF EchoRecord, Step, Goto
  <1>2. /\ Off(Rec) /\ stamp = 0 /\ heard = Silence /\ content[1] = Silence /\ content[2] = Silence
        /\ Started(Play)
    BY <1>1 DEF EchoInv, Beginning, Starting
  <1>3. Play \in Stream /\ Rec \in Stream
    BY TypedStreams
  <1>4. CASE Step("record_empty", "record_refill", "record", Empty(stream["record"]))
    <2> DEFINE u == Empty(Rec)
    <2>1. pc' = "record_refill" /\ stream' = [stream EXCEPT !["record"] = u]
      BY <1>4 DEF Step, Goto, Rec
    <2>2. u \in Stream /\ Emptied(u) /\ Off(u)
      BY <1>2, <1>3, EmptyFields DEF Off
    <2> HIDE DEF u
    <2>3. stream' \in [Dirs -> Stream] /\ Play' = Play /\ Rec' = u
      BY <2>1, <2>2, OneStream DEF Dirs
    <2>4. Typed'
      BY <1>1, <2>3 DEF Typed, audio
    <2>5. Resting' /\ Ending' /\ Running'
      BY <2>1 DEF Resting, Ending, Running, Setting, Stopping
    <2>6. Beginning'
      BY <1>1, <1>2, <2>1, <2>2, <2>3 DEF Beginning, Starting, audio
    <2> QED BY <2>4, <2>5, <2>6 DEF EchoInv
  <1>5. CASE Step("record_refill", "record_start", "record",
                  Refill(Refill(stream["record"], 3), 4))
    <2> DEFINE u == Refill(Refill(Rec, 3), 4)
    <2>1. pc = "record_refill" /\ pc' = "record_start" /\ stream' = [stream EXCEPT !["record"] = u]
      BY <1>5 DEF Step, Goto, Rec
    <2>2. Emptied(Rec)
      BY <2>1 DEF EchoInv, Beginning
    <2>3. u \in Stream /\ Loaded(u, 3, 4) /\ Off(u)
      BY <1>2, <1>3, <2>2, RefillTwice DEF Off, Buffers
    <2> HIDE DEF u
    <2>4. stream' \in [Dirs -> Stream] /\ Play' = Play /\ Rec' = u
      BY <2>1, <2>3, OneStream DEF Dirs
    <2>5. Typed'
      BY <1>1, <2>4 DEF Typed, audio
    <2>6. Resting' /\ Ending' /\ Running'
      BY <2>1 DEF Resting, Ending, Running, Setting, Stopping
    <2>7. Beginning'
      BY <1>1, <1>2, <2>1, <2>3, <2>4 DEF Beginning, Starting, audio
    <2> QED BY <2>5, <2>6, <2>7 DEF EchoInv
  <1>6. CASE Step("record_start", "idle", "record", StartStream(stream["record"]))
    <2> DEFINE u == StartStream(Rec)
    <2>1. pc = "record_start" /\ pc' = "idle" /\ stream' = [stream EXCEPT !["record"] = u]
      BY <1>6 DEF Step, Goto, Rec
    <2>2. Loaded(Rec, 3, 4)
      BY <2>1 DEF EchoInv, Beginning
    <2>3. u \in Stream /\ Loaded(u, 3, 4) /\ u.en /\ ~u.irq /\ u.dma = 3
      BY <1>2, <1>3, <2>2, StartLoaded DEF Buffers
    <2> HIDE DEF u
    <2>4. stream' \in [Dirs -> Stream] /\ Play' = Play /\ Rec' = u
      BY <2>1, <2>3, OneStream DEF Dirs
    <2>5. Typed'
      BY <1>1, <2>4 DEF Typed, audio
    <2>6. /\ Play.level = 2 /\ ~Play.dry /\ At(Play, 0) = 1 /\ At(Play, 1) = 2 /\ Play.dma = 1
          /\ Play.en /\ ~Play.irq /\ Queue(Play) /\ Listed(Play) = {0, 1}
      BY <1>2 DEF Started, Loaded, Listed
    <2>7. /\ u.level = 2 /\ ~u.dry /\ At(u, 0) = 3 /\ At(u, 1) = 4 /\ u.dma = 3
          /\ Queue(u) /\ Listed(u) = {0, 1}
      BY <2>3 DEF Loaded, Listed
    <2>8. Shared(Play, u)
      BY <2>6, <2>7 DEF Shared
    <2>9. HeadOf(Play) /\ HeadOf(u)
      BY <1>3, <2>3, <2>6, <2>7, HeadAt DEF HeadOf, None
    <2>10. content' = content /\ heard' = heard /\ stamp' = stamp
      BY <1>1 DEF audio
    <2>11. Chain(Play)'
      BY <1>2, <2>4, <2>6, <2>10 DEF Chain, Follows
    <2>12. Newest(Play, Rec)'
      BY <1>2, <2>3, <2>4, <2>6, <2>10 DEF Newest, Last, Next1
    <2>13. Playing' /\ Recording'
      BY <2>3, <2>4, <2>8, <2>9, <2>11, <2>12 DEF Playing, Recording
    <2>14. Resting' /\ Beginning' /\ Ending' /\ Running'
      BY <2>1, <2>4, <2>6, <2>13 DEF Resting, Beginning, Ending, Running, Setting, Starting, Stopping
    <2> QED BY <2>5, <2>14 DEF EchoInv
  <1> QED BY <1>4, <1>5, <1>6 DEF EchoRecord

LEMMA NextStop == ~StopWhenDry /\ Typed /\ EchoInv /\ EchoStop => Typed' /\ EchoInv'
  <1> SUFFICES ASSUME ~StopWhenDry, Typed, EchoInv, EchoStop PROVE Typed' /\ EchoInv'
    OBVIOUS
  <1> DEFINE u == [Rec EXCEPT !.en = FALSE]
  <1>1. /\ Play.en /\ ~Rec.dry /\ pc = "idle" /\ pc' = "record_ack" /\ UNCHANGED audio
        /\ stream' = [stream EXCEPT !["record"] = u]
    BY DEF EchoStop, Step, Goto, Play, Rec
  <1>2. Play \in Stream /\ Rec \in Stream
    BY TypedStreams
  <1>3. u \in Stream
    BY <1>2 DEF Stream
  <1>4. Alike(Rec, u) /\ Alike(Play, Play) /\ u.en = FALSE /\ u.dry = Rec.dry
    BY <1>2, <1>3 DEF Stream, Alike
  <1> HIDE DEF u
  <1>5. stream' \in [Dirs -> Stream] /\ Play' = Play /\ Rec' = u
    BY <1>1, <1>3, OneStream DEF Dirs
  <1>6. Typed'
    BY <1>1, <1>5 DEF Typed, audio
  <1>7. Playing
    BY <1>1 DEF EchoInv, Running
  <1>8. Shared(Play, u)
    BY <1>4, <1>7, SharedAlike DEF Playing
  <1>9. Playing'
    BY <1>1, <1>5, <1>7, <1>8 DEF Playing, Chain, audio
  <1>10. Resting' /\ Beginning' /\ Ending' /\ Running'
    BY <1>1, <1>4, <1>5, <1>9 DEF Resting, Beginning, Ending, Running, Setting, Starting, Stopping
  <1> QED BY <1>6, <1>10 DEF EchoInv

LEMMA NextStopped == Typed /\ EchoInv /\ EchoStopped => Typed' /\ EchoInv'
  <1> SUFFICES ASSUME Typed, EchoInv, EchoStopped PROVE Typed' /\ EchoInv'
    OBVIOUS
  <1>1. UNCHANGED audio /\ pc \in Stopping
    BY DEF EchoStopped, Ack, Step, Goto, Stopping
  <1>2. Play \in Stream /\ Rec \in Stream /\ ~Rec.en /\ ~Rec.dry
    BY <1>1, TypedStreams DEF EchoInv, Ending
  <1>3. CASE Step("record_ack", "play_stop", "record", [stream["record"] EXCEPT !.irq = FALSE])
    <2> DEFINE u == [Rec EXCEPT !.irq = FALSE]
    <2>1. pc = "record_ack" /\ pc' = "play_stop" /\ stream' = [stream EXCEPT !["record"] = u]
      BY <1>3 DEF Step, Goto, Rec
    <2>2. u \in Stream
      BY <1>2 DEF Stream
    <2>3. Alike(Rec, u) /\ Alike(Play, Play) /\ u.irq = FALSE /\ u.en = Rec.en /\ u.dry = Rec.dry
      BY <1>2, <2>2 DEF Stream, Alike
    <2> HIDE DEF u
    <2>4. stream' \in [Dirs -> Stream] /\ Play' = Play /\ Rec' = u
      BY <2>1, <2>2, OneStream DEF Dirs
    <2>5. Typed'
      BY <1>1, <2>4 DEF Typed, audio
    <2>6. Play.en /\ Playing
      BY <2>1 DEF EchoInv, Running, Ending
    <2>7. Shared(Play, u)
      BY <2>3, <2>6, SharedAlike DEF Playing
    <2>8. Playing'
      BY <1>1, <2>4, <2>6, <2>7 DEF Playing, Chain, audio
    <2>9. Resting' /\ Beginning' /\ Ending' /\ Running'
      BY <1>2, <2>1, <2>3, <2>4, <2>6, <2>8
      DEF Resting, Beginning, Ending, Running, Setting, Starting, Stopping
    <2> QED BY <2>5, <2>9 DEF EchoInv
  <1>4. CASE Step("play_stop", "play_ack", "play", [stream["play"] EXCEPT !.en = FALSE])
    <2> DEFINE u == [Play EXCEPT !.en = FALSE]
    <2>1. pc = "play_stop" /\ pc' = "play_ack" /\ stream' = [stream EXCEPT !["play"] = u]
      BY <1>4 DEF Step, Goto, Play
    <2>2. u \in Stream /\ u.en = FALSE
      BY <1>2 DEF Stream
    <2> HIDE DEF u
    <2>3. stream' \in [Dirs -> Stream] /\ Play' = u /\ Rec' = Rec
      BY <2>1, <2>2, OneStream DEF Dirs
    <2>4. Typed'
      BY <1>1, <2>3 DEF Typed, audio
    <2>5. ~Rec.irq
      BY <2>1 DEF EchoInv, Ending
    <2>6. Resting' /\ Beginning' /\ Ending' /\ Running'
      BY <1>2, <2>1, <2>2, <2>3, <2>5
      DEF Resting, Beginning, Ending, Running, Setting, Starting, Stopping
    <2> QED BY <2>4, <2>6 DEF EchoInv
  <1>5. CASE Step("play_ack", "idle", "play", [stream["play"] EXCEPT !.irq = FALSE])
    <2> DEFINE u == [Play EXCEPT !.irq = FALSE]
    <2>1. pc = "play_ack" /\ pc' = "idle" /\ stream' = [stream EXCEPT !["play"] = u]
      BY <1>5 DEF Step, Goto, Play
    <2>2. u \in Stream /\ u.en = Play.en /\ u.irq = FALSE
      BY <1>2 DEF Stream
    <2> HIDE DEF u
    <2>3. stream' \in [Dirs -> Stream] /\ Play' = u /\ Rec' = Rec
      BY <2>1, <2>2, OneStream DEF Dirs
    <2>4. Typed'
      BY <1>1, <2>3 DEF Typed, audio
    <2>5. ~Rec.irq /\ ~Play.en
      BY <2>1 DEF EchoInv, Ending
    <2>6. Resting' /\ Beginning' /\ Ending' /\ Running'
      BY <1>2, <2>1, <2>2, <2>3, <2>5
      DEF Resting, Beginning, Ending, Running, Setting, Starting, Stopping, Off
    <2> QED BY <2>4, <2>6 DEF EchoInv
  <1> QED BY <1>3, <1>4, <1>5 DEF EchoStopped, Ack

LEMMA HeardPlay ==
  ASSUME Typed, EchoInv, Transfer("play")
  PROVE  /\ Play.en /\ Playing /\ pc \in {"idle", "record_ack", "play_stop"}
         /\ heard' = content[At(Play, 0)] /\ Follows(heard, heard')
  <1>1. /\ Play.en /\ Play.dma # None /\ pc \in {"idle", "record_ack", "play_stop", "play_ack"}
        /\ heard' = content[Play.dma]
    BY DEF Transfer, Play
  <1>2. pc \in {"idle", "record_ack", "play_stop"} /\ Playing
    BY <1>1 DEF EchoInv, Ending, Running
  <1>3. Play.dma = At(Play, 0) /\ ~Play.irq /\ Play.level > 0
    BY <1>1, <1>2, TypedStreams, HeadAt DEF Playing, HeadOf
  <1> QED BY <1>1, <1>2, <1>3 DEF Playing, Chain

LEMMA NextTransferPlay == Typed /\ EchoInv /\ Transfer("play") => Typed' /\ EchoInv'
  <1> SUFFICES ASSUME Typed, EchoInv, Transfer("play") PROVE Typed' /\ EchoInv'
    OBVIOUS
  <1> DEFINE u == [Play EXCEPT !.dma = None, !.irq = TRUE]
  <1>1. /\ Play.en /\ Playing /\ pc \in {"idle", "record_ack", "play_stop"}
        /\ heard' = content[At(Play, 0)]
    BY HeardPlay
  <1>2. /\ UNCHANGED <<pc, content, stamp>> /\ Play.dma # None
        /\ stream' = [stream EXCEPT !["play"].dma = None, !["play"].irq = TRUE]
    BY DEF Transfer, Play
  <1>3. Play \in Stream /\ Rec \in Stream
    BY TypedStreams
  <1>4. u \in Stream
    BY <1>3 DEF Stream
  <1>5. stream' = [stream EXCEPT !["play"] = u]
    BY <1>2 DEF Typed, Play, Dirs
  <1>6. /\ Alike(Play, u) /\ Alike(Rec, Rec) /\ u.irq = TRUE /\ u.dma = None /\ u.en = Play.en
        /\ u.dry = Play.dry
    BY <1>3, <1>4 DEF Stream, Alike
  <1> HIDE DEF u
  <1>7. stream' \in [Dirs -> Stream] /\ Play' = u /\ Rec' = Rec
    BY <1>4, <1>5, OneStream DEF Dirs
  <1>8. /\ u.level = Play.level /\ Play.level \in 1..4 /\ Listed(u) = Listed(Play)
        /\ At(u, 0) = At(Play, 0) /\ \A i \in Listed(Play) : At(u, i) = At(Play, i)
    BY <1>1, <1>2, <1>3, <1>6, AlikeQueue DEF Playing, HeadOf, Alike, Stream, Shared, Queue
  <1>9. \A i \in Listed(Play) : i + 1 < Play.level => i + 1 \in Listed(Play)
    BY <1>8 DEF Listed
  <1>10. /\ 0 \in Listed(Play) /\ Play.level - 1 \in Listed(Play) /\ At(Play, 0) \in Buffers
    BY <1>1, <1>8 DEF Listed, Playing, Shared, Queue
  <1>11. Typed'
    BY <1>1, <1>2, <1>7, <1>10 DEF Typed
  <1>12. Shared(u, Rec)
    BY <1>1, <1>6, SharedAlike DEF Playing
  <1>13. HeadOf(u)
    BY <1>1, <1>6, <1>8 DEF HeadOf, Playing
  <1>14. Chain(Play)'
    BY <1>1, <1>2, <1>6, <1>7, <1>8, <1>9 DEF Chain, Playing
  <1>15. ASSUME pc = "idle" PROVE Recording'
    <2>1. Recording
      BY <1>1, <1>15 DEF EchoInv, Running
    <2>2. Last(Play)' = Last(Play)
      BY <1>2, <1>7, <1>8, <1>10 DEF Last
    <2> QED BY <1>2, <1>7, <2>1, <2>2 DEF Recording, Newest
  <1>16. Playing'
    BY <1>7, <1>12, <1>13, <1>14 DEF Playing
  <1>17. Ending
    BY DEF EchoInv
  <1>18. Resting' /\ Beginning' /\ Ending' /\ Running'
    BY <1>1, <1>2, <1>6, <1>7, <1>15, <1>16, <1>17
    DEF Resting, Beginning, Ending, Running, Setting, Starting, Stopping
  <1> QED BY <1>11, <1>18 DEF EchoInv

LEMMA NextTransferRecord == Typed /\ EchoInv /\ Transfer("record") => Typed' /\ EchoInv'
  <1> SUFFICES ASSUME Typed, EchoInv, Transfer("record") PROVE Typed' /\ EchoInv'
    OBVIOUS
  <1> DEFINE u == [Rec EXCEPT !.dma = None, !.irq = TRUE]
             b == At(Rec, 0)
  <1>1. /\ Rec.en /\ Rec.dma # None /\ UNCHANGED <<pc, heard>>
        /\ pc \in {"idle"} \cup Stopping
        /\ content' = [content EXCEPT ![Rec.dma] = stamp] /\ stamp' = (stamp + 1) % Stamps
        /\ stream' = [stream EXCEPT !["record"].dma = None, !["record"].irq = TRUE]
    BY DEF Transfer, Rec, Stopping
  <1>2. pc = "idle" /\ Play.en
    BY <1>1 DEF EchoInv, Ending, Resting, Off
  <1>3. Playing /\ Recording
    BY <1>2 DEF EchoInv, Running
  <1>4. Play \in Stream /\ Rec \in Stream
    BY TypedStreams
  <1>5. u \in Stream
    BY <1>4 DEF Stream
  <1>6. stream' = [stream EXCEPT !["record"] = u]
    BY <1>1 DEF Typed, Rec, Dirs
  <1>7. /\ Alike(Rec, u) /\ Alike(Play, Play) /\ u.irq = TRUE /\ u.dma = None /\ u.en = Rec.en
        /\ u.dry = Rec.dry
    BY <1>4, <1>5 DEF Stream, Alike
  <1> HIDE DEF u
  <1>8. stream' \in [Dirs -> Stream] /\ Play' = Play /\ Rec' = u
    BY <1>5, <1>6, OneStream DEF Dirs
  <1>9. Rec.dma = b /\ ~Rec.irq /\ Rec.level > 0
    BY <1>1, <1>3, <1>4, HeadAt DEF Recording, HeadOf
  <1>10. At(u, 0) = b /\ u.level = Rec.level /\ Rec.level \in 1..4 /\ Play.level \in 0..4
    BY <1>3, <1>4, <1>7, <1>9, AlikeQueue DEF Alike, Playing, Shared, Queue, Stream
  <1>11. 0 \in Listed(Rec) /\ b \in Buffers
    BY <1>3, <1>10 DEF Listed, Playing, Shared, Queue
  <1>12. \A i \in Listed(Play) : At(Play, i) \in Buffers /\ At(Play, i) # b
    BY <1>3, <1>11 DEF Playing, Shared, Queue
  <1> HIDE DEF b
  <1>13. content' = [content EXCEPT ![b] = stamp]
    BY <1>1, <1>9
  <1>14. content'[b] = stamp /\ \A i \in Listed(Play) : content'[At(Play, i)] = content[At(Play, i)]
    BY <1>11, <1>12, <1>13 DEF Typed
  <1>15. stamp \in 0..Stamps /\ stamp' \in 0..(Stamps - 1) /\ Next1(stamp) = stamp'
    BY <1>1, StampsAssumption DEF Typed, Next1, Silence
  <1>16. content' \in [Buffers -> 0..Stamps]
    BY <1>11, <1>13, <1>15 DEF Typed
  <1>17. Typed'
    BY <1>1, <1>8, <1>15, <1>16 DEF Typed
  <1>18. Shared(Play, u)
    BY <1>3, <1>7, SharedAlike DEF Playing
  <1>19. /\ \A i \in Listed(Play) : i + 1 < Play.level => i + 1 \in Listed(Play)
         /\ Play.level > 0 => 0 \in Listed(Play) /\ Play.level - 1 \in Listed(Play)
    BY <1>10 DEF Listed
  <1>20. HeadOf(Play) /\ Chain(Play)
    BY <1>3 DEF Playing
  <1>21. Chain(Play)'
    <2>1. IF Play.irq THEN heard' = content'[At(Play, 0)]
          ELSE Play.level > 0 => Follows(heard', content'[At(Play, 0)])
      BY <1>1, <1>14, <1>19, <1>20 DEF Chain, HeadOf
    <2>2. \A i \in Listed(Play) :
            i + 1 < Play.level => Follows(content'[At(Play, i)], content'[At(Play, i + 1)])
      BY <1>14, <1>19, <1>20 DEF Chain
    <2> QED BY <1>8, <2>1, <2>2 DEF Chain
  <1>22. Last(Play)' = Last(Play)
    BY <1>1, <1>8, <1>10, <1>14, <1>19 DEF Last
  <1>23. Next1(Last(Play)) = stamp
    BY <1>3, <1>9 DEF Recording, Newest
  <1>24. Newest(Play, Rec)'
    BY <1>7, <1>8, <1>10, <1>14, <1>15, <1>22, <1>23 DEF Newest, Follows
  <1>25. HeadOf(u)
    BY <1>3, <1>7, <1>10 DEF HeadOf, Recording
  <1>26. Playing' /\ Recording'
    BY <1>1, <1>7, <1>8, <1>18, <1>20, <1>21, <1>24, <1>25 DEF Playing, Recording
  <1>27. Resting' /\ Beginning' /\ Ending' /\ Running'
    BY <1>1, <1>2, <1>8, <1>26
    DEF Resting, Beginning, Ending, Running, Setting, Starting, Stopping
  <1> QED BY <1>17, <1>27 DEF EchoInv

\* The two streams after a handler
LEMMA TwoStreams ==
  ASSUME Typed, NEW d \in Dirs, NEW s \in Stream, NEW t \in Stream,
         stream' = [stream EXCEPT ![d] = s, ![Other(d)] = t]
  PROVE  /\ stream' \in [Dirs -> Stream]
         /\ d = "play" => Play' = s /\ Rec' = t
         /\ d = "record" => Rec' = s /\ Play' = t
  BY DEF Typed, Play, Rec, Dirs, Other

LEMMA NextIsrPlay == Codec /\ Typed /\ EchoInv /\ Isr("play") => Typed' /\ EchoInv'
  <1> SUFFICES ASSUME Codec, Typed, EchoInv, Isr("play") PROVE Typed' /\ EchoInv'
    OBVIOUS
  <1> DEFINE b == At(Play, 0)
             h == HandBack(Play)
             f == Refill(Rec, b)
  <1>1. /\ Play.irq /\ pc # "play_ack" /\ UNCHANGED <<pc, audio>>
        /\ stream' = [stream EXCEPT !["play"] = HandBack(Play),
                                    ![Other("play")] = Refill(@, Play.queue[Play.consume])]
    BY DEF Isr, Masked, Play
  <1>2. Play \in Stream /\ Rec \in Stream
    BY TypedStreams
  <1>3. pc \in {"idle", "record_ack", "play_stop"} /\ Play.en
    BY <1>1 DEF Codec, EchoInv, Resting, Beginning, Ending, Off, Started, Setting, Starting, Stopping,
                Idle
  <1>4. Playing
    BY <1>3 DEF EchoInv, Running
  <1>5. Play.level > 0 /\ Queue(Play) /\ Queue(Rec) /\ Play.dma = None /\ ~Play.dry
    BY <1>1, <1>4 DEF Playing, HeadOf, Shared
  <1>6. /\ b \in Buffers /\ Play.queue[Play.consume] = b /\ Rec.level < 4 /\ Shared(h, f)
        /\ \A i \in Listed(Rec) : At(Rec, i) # b
    BY <1>2, <1>4, <1>5, Exchange DEF Playing
  <1>7. /\ h \in Stream /\ h.level = Play.level - 1 /\ ~h.irq
    BY <1>2, <1>5, HandBackFields
  <1>8. \A i \in Listed(h) : At(h, i) = At(Play, i + 1)
    BY <1>2, <1>5, HandBackQueue
  <1>9. HeadOf(h) /\ h.en
    BY <1>1, <1>2, <1>3, <1>4, <1>5, HandBackHead DEF Playing
  <1>10. Rec.level < QSize
    BY <1>2, <1>6, QSizeAssumption DEF Stream
  <1>11. /\ f \in Stream /\ f.irq = Rec.irq /\ f.dry = FALSE
         /\ Rec.dry => f.en
         /\ ~Rec.dry => f.en = Rec.en
    BY <1>2, <1>6, <1>10, RefillFields DEF Refilled
  <1>12. \A i \in Listed(Rec) : At(f, i) = At(Rec, i)
    BY <1>2, <1>5, <1>6, RefillQueue
  <1>13. HeadOf(Rec) => HeadOf(f)
    BY <1>2, <1>5, <1>6, RefillHead
  <1>14. stream' = [stream EXCEPT !["play"] = h, ![Other("play")] = f]
    BY <1>1, <1>6 DEF Typed, Dirs, Other, Rec
  <1> HIDE DEF h, f, b
  <1>15. stream' \in [Dirs -> Stream] /\ Play' = h /\ Rec' = f
    BY <1>7, <1>11, <1>14, TwoStreams DEF Dirs
  <1>16. Typed'
    BY <1>1, <1>15 DEF Typed, audio
  <1>17. content' = content /\ heard' = heard /\ stamp' = stamp /\ pc' = pc
    BY <1>1 DEF audio
  <1>18. Play.level \in 1..4 /\ Rec.level \in Nat
    BY <1>2, <1>5 DEF Queue, Stream
  <1>19. heard = content[b] /\ Chain(Play)
    BY <1>1, <1>4 DEF Playing, Chain, b
  <1>20. Chain(Play)'
    <2>1. h.level > 0 => 0 \in Listed(Play) /\ 0 + 1 < Play.level /\ 0 \in Listed(h)
      BY <1>7, <1>18 DEF Listed
    <2>2. h.level > 0 => Follows(content[At(Play, 0)], content[At(Play, 0 + 1)])
      BY <1>19, <2>1 DEF Chain
    <2>3. h.level > 0 => Follows(heard, content[At(h, 0)])
      BY <1>8, <1>19, <2>1, <2>2 DEF b
    <2>4. \A i \in Listed(h) : i + 1 < h.level
            => i + 1 \in Listed(h) /\ i + 1 \in Listed(Play) /\ (i + 1) + 1 < Play.level
      BY <1>7, <1>18 DEF Listed
    <2>5. \A i \in Listed(h) : i + 1 < h.level => Follows(content[At(h, i)], content[At(h, i + 1)])
      BY <1>8, <1>19, <2>4 DEF Chain
    <2> QED BY <1>7, <1>15, <1>17, <2>3, <2>5 DEF Chain
  <1>21. Last(h) = Last(Play)
    <2>1. CASE Play.level = 1
      BY <1>7, <1>19, <2>1 DEF Last, b
    <2>2. CASE Play.level > 1
      <3>1. h.level - 1 \in Listed(h) /\ (h.level - 1) + 1 = Play.level - 1 /\ h.level # 0
        BY <1>7, <1>18, <2>2 DEF Listed
      <3> QED BY <1>8, <1>18, <3>1 DEF Last
    <2> QED BY <1>18, <2>1, <2>2
  <1>22. Last(Play)' = Last(Play)
    BY <1>15, <1>17, <1>21 DEF Last
  <1>23. ASSUME pc = "idle" PROVE Recording'
    <2>1. Rec.en /\ HeadOf(Rec) /\ Newest(Play, Rec)
      BY <1>3, <1>23 DEF EchoInv, Running, Recording
    <2>2. Rec.irq => At(f, 0) = At(Rec, 0)
      BY <1>12, <1>18, <2>1 DEF HeadOf, Listed
    <2>3. Newest(Play, Rec)'
      BY <1>11, <1>15, <1>17, <1>22, <2>1, <2>2 DEF Newest
    <2> QED BY <1>11, <1>13, <1>15, <2>1, <2>3 DEF Recording
  <1>24. Playing'
    BY <1>6, <1>9, <1>15, <1>20 DEF Playing
  <1>25. Ending
    BY DEF EchoInv
  <1>26. Resting' /\ Beginning' /\ Running'
    BY <1>3, <1>9, <1>15, <1>17, <1>23, <1>24
    DEF Resting, Beginning, Running, Setting, Starting
  <1>27. Ending'
    BY <1>3, <1>9, <1>11, <1>15, <1>17, <1>25 DEF Ending, Stopping
  <1> QED BY <1>16, <1>26, <1>27 DEF EchoInv

LEMMA NextIsrRecord == Codec /\ Typed /\ EchoInv /\ Isr("record") => Typed' /\ EchoInv'
  <1> SUFFICES ASSUME Codec, Typed, EchoInv, Isr("record") PROVE Typed' /\ EchoInv'
    OBVIOUS
  <1> DEFINE b == At(Rec, 0)
             h == HandBack(Rec)
             f == Refill(Play, b)
  <1>1. /\ Rec.irq /\ pc # "record_ack" /\ UNCHANGED <<pc, audio>>
        /\ stream' = [stream EXCEPT !["record"] = HandBack(Rec),
                                    ![Other("record")] = Refill(@, Rec.queue[Rec.consume])]
    BY DEF Isr, Masked, Rec
  <1>2. Play \in Stream /\ Rec \in Stream
    BY TypedStreams
  <1>3. pc = "idle" /\ Play.en
    BY <1>1 DEF Codec, EchoInv, Resting, Beginning, Ending, Off, Setting, Starting, Stopping, Idle
  <1>4. Playing /\ Recording
    BY <1>3 DEF EchoInv, Running
  <1>5. /\ Rec.level > 0 /\ Queue(Rec) /\ Queue(Play) /\ Shared(Rec, Play) /\ Rec.en
    BY <1>1, <1>2, <1>4, SharedSwap DEF Playing, Recording, HeadOf, Shared
  <1>6. /\ b \in Buffers /\ Rec.queue[Rec.consume] = b /\ Play.level < 4 /\ Shared(h, f)
        /\ \A i \in Listed(Play) : At(Play, i) # b
    BY <1>2, <1>5, Exchange
  <1>7. h \in Stream /\ ~h.irq
    BY <1>2, <1>5, HandBackFields
  <1>8. HeadOf(h) /\ h.en
    BY <1>1, <1>2, <1>4, <1>5, HandBackHead DEF Recording
  <1>9. Play.level < QSize /\ Play.level \in 0..3
    BY <1>2, <1>6, QSizeAssumption DEF Stream
  <1>10. /\ f \in Stream /\ f.irq = Play.irq /\ f.level = Play.level + 1
         /\ Play.dry => f.en
         /\ ~Play.dry => f.en = Play.en
    BY <1>2, <1>6, <1>9, RefillFields DEF Refilled
  <1>11. At(f, Play.level) = b /\ \A i \in Listed(Play) : At(f, i) = At(Play, i)
    BY <1>2, <1>5, <1>6, RefillQueue
  <1>12. HeadOf(f)
    BY <1>2, <1>4, <1>5, <1>6, RefillHead DEF Playing
  <1>13. stream' = [stream EXCEPT !["record"] = h, ![Other("record")] = f]
    BY <1>1, <1>6 DEF Typed, Dirs, Other, Play
  <1>14. Shared(f, h)
    BY <1>6, <1>7, <1>10, SharedSwap
  <1> HIDE DEF h, f
  <1>15. stream' \in [Dirs -> Stream] /\ Play' = f /\ Rec' = h
    BY <1>7, <1>10, <1>13, TwoStreams DEF Dirs
  <1>16. Typed'
    BY <1>1, <1>15 DEF Typed, audio
  <1>17. content' = content /\ heard' = heard /\ stamp' = stamp /\ pc' = pc
    BY <1>1 DEF audio
  <1>18. Follows(Last(Play), content[b]) /\ Next1(content[b]) = stamp /\ Chain(Play) /\ HeadOf(Play)
    BY <1>1, <1>4 DEF Playing, Recording, Newest
  <1> HIDE DEF b
  <1>19. Last(Play)' = content[b]
    BY <1>9, <1>10, <1>11, <1>15, <1>17 DEF Last
  <1>20. Newest(Play, Rec)'
    BY <1>7, <1>15, <1>17, <1>18, <1>19 DEF Newest
  <1>21. Chain(Play)'
    <2>1. CASE Play.level = 0
      <3>1. ~f.irq /\ At(f, 0) = b /\ f.level = 1 /\ Follows(heard, content[b])
        BY <1>9, <1>10, <1>11, <1>18, <2>1 DEF HeadOf, Last
      <3>2. \A i \in Listed(f) : ~(i + 1 < f.level)
        BY <3>1 DEF Listed
      <3> QED BY <1>15, <1>17, <3>1, <3>2 DEF Chain
    <2>2. CASE Play.level > 0
      <3>1. 0 \in Listed(Play) /\ At(f, 0) = At(Play, 0)
        BY <1>9, <1>11, <2>2 DEF Listed
      <3>2. \A i \in Listed(f) : i + 1 < f.level
              => /\ i \in Listed(Play)
                 /\ (i + 1 < Play.level /\ i + 1 \in Listed(Play)) \/ (i = Play.level - 1 /\ i + 1 = Play.level)
        BY <1>9, <1>10 DEF Listed
      <3>3. Follows(content[At(Play, Play.level - 1)], content[b])
        BY <1>18, <2>2, <1>9 DEF Last
      <3>4. \A i \in Listed(f) : i + 1 < f.level
              => Follows(content[At(f, i)], content[At(f, i + 1)])
        BY <1>11, <1>18, <3>2, <3>3 DEF Chain
      <3> QED BY <1>10, <1>15, <1>17, <1>18, <2>2, <3>1, <3>4 DEF Chain
    <2> QED BY <1>9, <2>1, <2>2
  <1>22. Playing' /\ Recording'
    BY <1>8, <1>12, <1>14, <1>15, <1>20, <1>21 DEF Playing, Recording
  <1>23. f.en
    BY <1>3, <1>10
  <1>24. Resting' /\ Beginning' /\ Ending' /\ Running'
    BY <1>3, <1>15, <1>17, <1>22, <1>23
    DEF Resting, Beginning, Ending, Running, Setting, Starting, Stopping
  <1> QED BY <1>16, <1>24 DEF EchoInv

-----------------------------------------------------------------------------
(* The theorems *)

LEMMA InitInv == Init => IInv
  <1> SUFFICES ASSUME Init PROVE IInv
    OBVIOUS
  <1> USE DEF Init
  <1>1. Codec
    <2>1. Silent /\ Under(0) /\ Reading /\ todo \in 0..Volumes
      BY VolumesAssumption DEF Silent, Under, Reading
    <2>2. pc = "set" /\ ~(todo > 0) /\ cr_irqs = {} /\ asked = "none"
      OBVIOUS
    <2> QED BY <2>1, <2>2 DEF Codec, Setting, Starting, Stopping
  <1>2. stream \in [Dirs -> Stream] /\ Play = Idle /\ Rec = Idle
    BY IdleStream DEF Dirs, Play, Rec
  <1>3. Silence \in 0..Stamps /\ 0 \in 0..(Stamps - 1)
    BY StampsAssumption DEF Silence
  <1>4. Typed
    BY <1>2, <1>3 DEF Typed
  <1>5. EchoInv
    BY <1>2 DEF EchoInv, Resting, Beginning, Ending, Running, Setting, Starting, Stopping
  <1> QED BY <1>1, <1>4, <1>5 DEF IInv

LEMMA NextInv == IInv /\ [Next]_vars => IInv'
  <1> SUFFICES ASSUME IInv, [Next]_vars PROVE IInv'
    OBVIOUS
  <1>1. Codec /\ Codec'
    BY NextCodec DEF IInv
  <1>2. ASSUME ~StopWhenDry PROVE Typed' /\ EchoInv'
    <2>1. Typed /\ EchoInv
      BY <1>2 DEF IInv
    <2> QED BY <1>1, <1>2, <2>1, StreamSteps, NextQuiet, NextCleared, NextStart, NextPlay, NextRecord,
               NextStop, NextStopped, NextTransferPlay, NextTransferRecord, NextIsrPlay,
               NextIsrRecord
  <1> QED BY <1>1, <1>2 DEF IInv

LEMMA Invariant == Spec => []IInv
  BY InitInv, NextInv, PTL DEF Spec

\* Whenever the frames come and the handlers run, snd_init leaves every volume set in the
\* codec and has read the codec's own answer: each of its requests is taken before the
\* flag it waits for is set.
THEOREM CodecIsSetUp == Spec => []CodecSetUp
  <1>1. IInv => CodecSetUp
    BY DEF IInv, Codec, CodecSetUp, Setting, Under
  <1> QED BY <1>1, Invariant, PTL

\* While the echo runs, each DMA channel transfers the head of its queue, and one that
\* does not knows that the next refill has to start it; for queues of every size, as long
\* as the echo is not stopped while its recorder is out of buffers.
THEOREM HeadsAreTransferred == ~StopWhenDry => (Spec => []HeadTransferred)
  <1> SUFFICES ASSUME ~StopWhenDry PROVE Spec => []HeadTransferred
    OBVIOUS
  <1>1. IInv => HeadTransferred
    <2> SUFFICES ASSUME IInv, Echoing PROVE HeadOf(Play) /\ HeadOf(Rec)
      BY DEF HeadTransferred, HeadOf, Dirs, Play, Rec
    <2> QED BY DEF IInv, EchoInv, Running, Playing, Recording, Echoing, Play
  <1> QED BY <1>1, Invariant, PTL

\* A DMA address that is set is cleared by the end of the transfer only.
LEMMA DmaKept ==
  ASSUME Codec, Typed, EchoInv, [Next]_vars, Play.dma # None, Play'.dma = None
  PROVE  Transfer("play")
  <1>1. Play \in Stream /\ Rec \in Stream
    BY TypedStreams
  <1>2. CASE Quiet
    BY <1>2 DEF Quiet, Play
  <1>3. CASE Cleared
    BY <1>3 DEF EchoInv, Resting, Setting, Cleared, Idle
  <1>4. CASE EchoStart
    <2>1. stream' = [stream EXCEPT !["play"] = Empty(Play)]
      BY <1>4 DEF EchoStart, Step, Play
    <2>2. Play' = Empty(Play)
      BY <1>1, <2>1, OneStream, EmptyFields DEF Dirs
    <2> QED BY <1>1, <2>2, EmptyFields
  <1>5. CASE EchoPlay
    <2>1. CASE Step("play_refill", "play_start", "play", Refill(Refill(stream["play"], 1), 2))
      <3> DEFINE u == Refill(Refill(Play, 1), 2)
      <3>1. pc = "play_refill" /\ stream' = [stream EXCEPT !["play"] = u]
        BY <2>1 DEF Step, Goto, Play
      <3>2. Emptied(Play)
        BY <3>1 DEF EchoInv, Beginning
      <3>3. u \in Stream /\ u.dma = Play.dma
        BY <1>1, <3>2, RefillTwice DEF Buffers
      <3> HIDE DEF u
      <3>4. Play' = u
        BY <3>1, <3>3, OneStream DEF Dirs
      <3> QED BY <3>3, <3>4
    <2>2. CASE Step("play_start", "record_empty", "play", StartStream(stream["play"]))
      <3> DEFINE u == StartStream(Play)
      <3>1. pc = "play_start" /\ stream' = [stream EXCEPT !["play"] = u]
        BY <2>2 DEF Step, Goto, Play
      <3>2. Off(Play) /\ Loaded(Play, 1, 2)
        BY <3>1 DEF EchoInv, Beginning
      <3>3. u \in Stream /\ u.dma = 1
        BY <1>1, <3>2, StartLoaded DEF Buffers
      <3> HIDE DEF u
      <3>4. Play' = u
        BY <3>1, <3>3, OneStream DEF Dirs
      <3> QED BY <3>3, <3>4 DEF None
    <2> QED BY <1>5, <2>1, <2>2 DEF EchoPlay
  <1>6. ASSUME NEW s, stream' = [stream EXCEPT !["record"] = s] PROVE Play' = Play
    BY <1>6 DEF Typed, Play, Dirs
  <1>7. CASE EchoRecord \/ EchoStop
    BY <1>6, <1>7 DEF EchoRecord, EchoStop, Step
  <1>8. CASE EchoStopped
    <2>1. ASSUME stream' = [stream EXCEPT !["play"] = [stream["play"] EXCEPT !.en = FALSE]]
          PROVE  Play'.dma = Play.dma
      BY <1>1, <2>1 DEF Typed, Play, Dirs, Stream
    <2>2. ASSUME stream' = [stream EXCEPT !["play"] = [stream["play"] EXCEPT !.irq = FALSE]]
          PROVE  Play'.dma = Play.dma
      BY <1>1, <2>2 DEF Typed, Play, Dirs, Stream
    <2> QED BY <1>6, <1>8, <2>1, <2>2 DEF EchoStopped, Ack, Step
  <1>9. CASE Transfer("record")
    BY <1>9 DEF Transfer, Typed, Play, Dirs
  <1>10. CASE Isr("play")
    <2>1. Play.irq /\ pc # "play_ack"
      BY <1>10 DEF Isr, Masked, Play
    <2>2. pc \in {"idle", "record_ack", "play_stop"} /\ Play.en
      BY <2>1 DEF Codec, EchoInv, Resting, Beginning, Ending, Off, Started, Setting, Starting,
                  Stopping, Idle
    <2> QED BY <2>1, <2>2 DEF EchoInv, Running, Playing, HeadOf
  <1>11. CASE Isr("record")
    <2> DEFINE b == Rec.queue[Rec.consume]
               f == Refill(Play, b)
    <2>1. /\ Rec.irq /\ pc # "record_ack"
          /\ stream' = [stream EXCEPT !["record"] = HandBack(Rec), ![Other("record")] = f]
      BY <1>11 DEF Isr, Masked, Rec, Typed, Dirs, Other, Play
    <2>2. pc = "idle" /\ Play.en
      BY <2>1 DEF Codec, EchoInv, Resting, Beginning, Ending, Off, Setting, Starting, Stopping, Idle
    <2>3. Shared(Rec, Play) /\ Rec.level > 0 /\ Queue(Rec)
      BY <1>1, <2>1, <2>2, SharedSwap DEF EchoInv, Running, Playing, Recording, HeadOf, Shared
    <2>4. b \in Buffers /\ Play.level < QSize
      BY <1>1, <2>3, Exchange, QSizeAssumption DEF Stream
    <2>5. f \in Stream /\ (f.dma = b \/ f.dma = Play.dma)
      BY <1>1, <2>4, RefillFields DEF Refilled
    <2>6. HandBack(Rec) \in Stream
      BY <1>1, <2>3, HandBackFields
    <2> HIDE DEF f, b
    <2>7. Play' = f
      BY <2>1, <2>5, <2>6, TwoStreams DEF Dirs
    <2> QED BY <2>4, <2>5, <2>7 DEF Buffers, None
  <1> QED BY <1>2, <1>3, <1>4, <1>5, <1>7, <1>8, <1>9, <1>10, <1>11, StreamSteps

\* What is heard are the recordings in the order in which they were made, each once, after
\* the two silent buffers, however the two handlers interleave.
THEOREM EchoIsInOrder == ~StopWhenDry => (Spec => EchoInOrder)
  <1> SUFFICES ASSUME ~StopWhenDry PROVE Spec => EchoInOrder
    OBVIOUS
  <1> DEFINE Heard == Play.dma # None /\ Play'.dma = None
                      => heard' = Next1(heard) \/ (heard = Silence /\ heard' = Silence)
  <1>1. IInv /\ [Next]_vars => Heard
    <2> SUFFICES ASSUME IInv, [Next]_vars, Play.dma # None, Play'.dma = None
                 PROVE  Follows(heard, heard')
      BY DEF Follows
    <2>1. Codec /\ Typed /\ EchoInv
      BY DEF IInv
    <2> QED BY <2>1, DmaKept, HeardPlay
  <1>2. IInv /\ [Next]_vars
        => [stream["play"].dma # None /\ stream'["play"].dma = None
            => heard' = Next1(heard) \/ (heard = Silence /\ heard' = Silence)]_vars
    BY <1>1 DEF Play
  <1> QED BY <1>2, Invariant, PTL DEF Spec, EchoInOrder
=============================================================================
