------------------------------ MODULE BiosProofs ------------------------------
(***************************************************************************)
(* Proofs about the boot loader, for every size of files and memory, every *)
(* number of faults and every set of cards.                                *)
(*                                                                         *)
(* Only one of the three ways to load runs at a time (Stages), so that     *)
(* what each has put into memory so far stays there: the frames confirmed  *)
(* (Serial), the sectors read (Card), the blocks acknowledged (Net).       *)
(***************************************************************************)
EXTENDS Bios, TLAPS, SequenceTheorems

-----------------------------------------------------------------------------
(* The inductive invariant *)

\* Each of the three works in its own stage; an image was started in the last one.
Stages ==
  /\ stage \in {"abort", "prompt", "serial", "card", "net", "booted"}
  /\ dev.does # "gone" => stage = "serial"
  /\ card = [does |-> card.does, file |-> card.file, cluster |-> card.cluster,
             n |-> card.n, size |-> card.size]
  /\ card.does # "away" => stage = "card" /\ card.file \in Regions
  /\ loop # "off" => stage = "net"
  /\ NetState \in {"continue", "restart", "success"}
  /\ (stage = "booted") <=> (started.from # "none")

\* Memory stays in one piece, whatever is written where.
Shape == mem = [r \in Regions |-> [i \in 1..Size |-> mem[r][i]]]

-----------------------------------------------------------------------------
(* The network *)

PacketKinds == {"arp_request", "arp_reply", "rrq", "data", "error", "ack"}
Packets == [kind : PacketKinds, client : Nat, server : Nat, block : Nat]

NetTyped ==
  /\ loop \in {"off", "receive", "timeout", "switch"}
  /\ tftp \in [state : {"off", "rrq", "data"}, server : Nat, ours : Nat, block : Nat,
               last : Nat, timeouts : Nat]
  /\ NetBootFileXferSize \in 0..Blocks
  /\ wire \in SUBSET Packets
  /\ session \in Seq([client : Nat, block : Nat])

\* Before a download and after it nothing is in flight.
Idle ==
  loop = "off" =>
    /\ wire = {} /\ session = <<>> /\ NetState = "continue"
    /\ packetHandler = "none" /\ timeHandler = "none"

\* The timeout is that of the protocol at work; ARP begins each attempt.
Handlers ==
  /\ loop # "off" => packetHandler \in {"arp", "tftp"}
  /\ timeHandler \in {packetHandler, "none"}
  /\ packetHandler = "arp" => NetBootFileXferSize = 0 /\ NetState = "continue"

\* No packet and no session is of a client that is still to come, and what is sent to and by
\* a session is its client's.
Sessions ==
  /\ \A i \in 1..Len(session) : session[i].client <= tftp.ours /\ session[i].block \in 1..Closed
  /\ \A p \in wire : p.client <= tftp.ours
  /\ \A p \in wire : p.kind \in {"data", "ack"} =>
       /\ p.server \in 1..Len(session)
       /\ p.client = session[p.server].client
  /\ \A p \in wire : p.kind = "data" => p.block \in 1..Blocks

\* The sessions for the request that is being repeated are at their first block.
Asking ==
  packetHandler = "tftp" /\ tftp.state = "rrq" =>
    /\ NetBootFileXferSize = 0
    /\ \A i \in 1..Len(session) :
         session[i].client = tftp.ours => session[i].block \in {1, Closed}
    /\ \A p \in wire : p.client = tftp.ours =>
         /\ p.kind # "ack"
         /\ p.kind = "data" => p.block = 1 /\ session[p.server].block = 1

\* The session answered to is no more than a block ahead of what has been stored.
Transferring ==
  packetHandler = "tftp" /\ tftp.state = "data" =>
    /\ tftp.server \in 1..Len(session)
    /\ session[tftp.server].client = tftp.ours
    /\ session[tftp.server].block <= NetBootFileXferSize + 1
    /\ \A p \in wire : p.client = tftp.ours /\ p.server = tftp.server =>
         /\ p.kind = "data" => p.block <= NetBootFileXferSize + 1
         /\ p.kind = "ack" => p.block <= NetBootFileXferSize
    /\ tftp.block \in 1..NetBootFileXferSize
    /\ tftp.last \in 1..NetBootFileXferSize

\* What has been counted is in memory.
Stored ==
  packetHandler = "tftp" =>
    /\ tftp.state # "off"
    /\ \A i \in 1..NetBootFileXferSize : mem["kernel"][i] = Unit("net", "kernel", i)

Succeeded == NetState = "success" => packetHandler = "tftp" /\ NetBootFileXferSize = Blocks

NetInv ==
  /\ NetTyped /\ Idle /\ Handlers /\ Sessions /\ Asking /\ Transferring /\ Stored /\ Succeeded

-----------------------------------------------------------------------------
(* The serial line *)

Frames ==
  {f \in [cmd : {"LOAD", "CMDLINE", "INITRDSTART", "INITRDEND", "JUMP", "ACK"},
          region : Regions \cup {"none"}, at : Nat, good : BOOLEAN] :
     f.cmd = "LOAD" => f.region \in Regions /\ f.at \in 1..Size}

AtFrame(h) == h.section \in {"kernel", "cmdline", "initrd", "jump"} /\ h.pos \in 1..Len(Script[h.section])

Hosts == [does : {"terminal", "send", "reply"},
          section : {"none", "kernel", "cmdline", "initrd", "jump"}, pos : Nat]
Devs == [does : {"gone", "magic", "frame"}, failed : Nat, cmdline : BOOLEAN, start : BOOLEAN,
         end : Nat]
Words == {"request", "text", "K", "C"}

\* flterm is at a frame of a file it was given.
HostTyped ==
  /\ host \in Hosts
  /\ host.does # "terminal" =>
       AtFrame(host) /\ "kernel" \in files /\ host.section \in files \cup {"jump"}

SflTyped ==
  /\ files \in SUBSET Regions
  /\ HostTyped
  /\ dev \in Devs
  /\ toDevice \in Seq(Frames)
  /\ toHost \in Seq(Words)

Same(f, g) == f = [g EXCEPT !.good = f.good]

\* What the loader has done when flterm is about to send the pos-th frame of a section.
Bare == dev.cmdline = FALSE /\ dev.start = FALSE /\ dev.end = None
InKernel(pos) == Bare /\ Holds("kernel", "serial", pos - 1)
InCmdline(pos) ==
  /\ Holds("kernel", "serial", KernelFrames)
  /\ pos # 3 => Bare
  /\ pos = 3 => dev.cmdline = TRUE /\ dev.start = FALSE /\ dev.end = None
  /\ pos # 1 => Holds("cmdline", "serial", 1)
Given ==
  /\ Holds("kernel", "serial", KernelFrames)
  /\ "cmdline" \in files => dev.cmdline = TRUE /\ Holds("cmdline", "serial", 1)
  /\ "cmdline" \notin files => dev.cmdline = FALSE
InInitrd(pos) ==
  /\ Given
  /\ pos <= InitrdFrames + 1 => dev.start = FALSE /\ Holds("initrd", "serial", pos - 1)
  /\ pos > InitrdFrames + 1 => dev.start = TRUE /\ Holds("initrd", "serial", InitrdFrames)
  /\ pos <= InitrdFrames + 2 => dev.end = None
  /\ pos > InitrdFrames + 2 => dev.end = InitrdFrames
AtJump ==
  /\ Given
  /\ "initrd" \in files =>
       dev.start = TRUE /\ dev.end = InitrdFrames /\ Holds("initrd", "serial", InitrdFrames)
  /\ "initrd" \notin files => dev.start = FALSE /\ dev.end = None
Progress(sec, pos) ==
  /\ sec = "kernel" => InKernel(pos)
  /\ sec = "cmdline" => InCmdline(pos)
  /\ sec = "initrd" => InInitrd(pos)
  /\ sec = "jump" => AtJump

\* One frame, or its answer, is on the line; a confirmed frame has been carried out.
Framing ==
  dev.does = "frame" =>
    \/ /\ host.does = "send" /\ toDevice = <<>> /\ toHost = <<>>
       /\ Progress(host.section, host.pos)
    \/ /\ host.does = "reply" /\ Len(toDevice) = 1 /\ toHost = <<>>
       /\ Same(toDevice[1], Script[host.section][host.pos])
       /\ Progress(host.section, host.pos)
    \/ /\ host.does = "reply" /\ toDevice = <<>> /\ toHost = <<"C">>
       /\ Progress(host.section, host.pos)
    \/ /\ host.does = "reply" /\ toDevice = <<>> /\ toHost = <<"K">>
       /\ host.section # "jump" /\ Progress(host.section, host.pos + 1)

\* The loader has asked; flterm has answered or not, and may have sent its first frame.
AtFirst == host.section = "kernel" /\ host.pos = 1
Requested ==
  dev.does = "magic" =>
    /\ dev.failed = 0 /\ dev.cmdline = FALSE /\ dev.start = FALSE /\ dev.end = None
    /\ \/ host.does = "terminal" /\ toDevice = <<>> /\ toHost \in {<<>>, <<"request">>}
       \/ /\ host.does = "send" /\ AtFirst /\ toHost = <<>>
          /\ toDevice # <<>> => Len(toDevice) = 1 /\ Same(toDevice[1], MagicAck)
       \/ /\ host.does = "reply" /\ AtFirst /\ toHost = <<>>
          /\ \/ toDevice = <<>>
             \/ Len(toDevice) = 1 /\ Same(toDevice[1], Script["kernel"][1])
             \/ Len(toDevice) = 2 /\ Same(toDevice[1], MagicAck)
                                  /\ Same(toDevice[2], Script["kernel"][1])

\* A download ends with flterm at its terminal before another begins; after the start of the
\* image nothing is left but to confirm it.
Left ==
  dev.does = "gone" =>
    /\ dev = Gone /\ toDevice = <<>>
    /\ stage \in {"abort", "serial"} => host.does = "terminal" /\ toHost = <<>>
    /\ started.from = "serial" => toHost \in {<<>>, <<"K">>}
    /\ SerialWhole

SerialInv == SflTyped /\ Framing /\ Requested /\ Left

-----------------------------------------------------------------------------
(* The card *)

\* What has been put into memory from the card is whole.
Loaded == \A f \in Regions : sizes[f] \in 0..Size /\ Holds(f, "card", sizes[f])

\* The kernel is loaded first; the file being loaded has no size yet.
Order ==
  /\ card.does = "away" /\ stage # "booted" => sizes = Nothing
  /\ card.does # "away" =>
       /\ sizes[card.file] = 0
       /\ card.file = "kernel" => sizes = Nothing
       /\ card.file = "cmdline" => sizes["initrd"] = 0
       /\ card.file # "kernel" => sizes["kernel"] > 0

\* The clusters before the n-th have been read, unless the file is empty.
Following ==
  /\ card.does = "find" => card.n = 0
  /\ card.does = "load" =>
       /\ card.n * ClusterSectors < Size
       /\ card.size = 0 \/
            /\ card.n + 1 <= Len(chain[card.file]) /\ card.cluster = chain[card.file][card.n + 1]
            /\ \A i \in 1..(card.n * ClusterSectors) : mem[card.file][i] = Unit("card", card.file, i)

Cards == [does : {"away", "find", "load"}, file : Regions \cup {"none"}, cluster : Nat,
          n : Nat, size : Nat]
CardInv ==
  /\ card \in Cards
  /\ sizes = [f \in Regions |-> sizes[f]]
  /\ fatMixed = FALSE
  /\ card.does # "away" => chain \in Chains
  /\ stage = "card" \/ started.from = "card" => Loaded
  /\ Order /\ Following /\ CardWhole

IInv ==
  /\ Stages /\ Shape
  /\ ~PortsReused => NetInv
  /\ ~NoisyReplies => SerialInv
  /\ ~NoisyReplies /\ ~PartialReads => CardInv

-----------------------------------------------------------------------------
(* What every step keeps: one way to load at a time, and memory in one piece *)

LEMMA PokeKeepsShape ==
  ASSUME Shape, NEW r, NEW i, NEW v, Poke(r, i, v)
  PROVE  Shape'
BY DEF Shape, Poke

LEMMA PokeFacts ==
  ASSUME Shape, NEW r \in Regions, NEW i \in 1..Size, NEW v, Poke(r, i, v)
  PROVE  \A q \in Regions, j \in 1..Size :
           mem'[q][j] = IF q = r /\ j = i THEN v ELSE mem[q][j]
BY DEF Shape, Poke

LEMMA StagesInit == Init => Stages /\ Shape
BY DEF Init, MemoryInit, SflInit, CardInit, TftpInit, Stages, Shape, NoMemory, NotStarted, Gone, Away

LEMMA SerialStages ==
  ASSUME Stages, Serial
  PROVE  Stages' /\ (mem' = mem \/ stage = "serial") /\ UNCHANGED <<cardVars, netVars>>
<1>1. UNCHANGED <<cardVars, netVars>> /\ card' = card /\ loop' = loop /\ NetState' = NetState /\ SflStep(AfterSerial)
  BY DEF Serial, cardVars, netVars
<1>2. AfterSerial \in {"card", "prompt"}
  BY DEF AfterSerial
<1>3. CASE SerialStart
  BY <1>1, <1>3 DEF SerialStart, Stages
<1>4. CASE CheckAck
  BY <1>1, <1>4 DEF CheckAck, Stages
<1>5. CASE Grab(AfterSerial)
  <2>1. dev.does = "frame" /\ stage = "serial"
    BY <1>5 DEF Grab, Stages
  <2>2. CASE Head(toDevice).good
    BY <1>1, <1>5, <2>1, <2>2 DEF Grab, Accept, Boot, Stages, Gone
  <2>3. CASE ~Head(toDevice).good
    BY <1>1, <1>2, <1>5, <2>1, <2>3 DEF Grab, Refuse, Leave, Stages, Gone
  <2> QED  BY <2>2, <2>3
<1>6. CASE AckTimeout(AfterSerial)
  BY <1>1, <1>2, <1>6 DEF AckTimeout, Leave, Stages, Gone
<1>7. CASE Show \/ Answer \/ SendFrame \/ Reply \/ RestartFlterm \/ Disturb
  BY <1>1, <1>7 DEF Show, Answer, SendFrame, Reply, RestartFlterm, Disturb, Stages
<1> QED  BY <1>1, <1>3, <1>4, <1>5, <1>6, <1>7 DEF SflStep, Device, Flterm

LEMMA CardStages ==
  ASSUME Stages, FromCard
  PROVE  Stages' /\ stage = "card" /\ UNCHANGED <<sflVars, netVars>>
<1>1. UNCHANGED <<sflVars, netVars>> /\ dev' = dev /\ loop' = loop /\ NetState' = NetState /\ CardStep("prompt")
  BY DEF FromCard, sflVars, netVars
<1>2. ASSUME card.does # "away", NEW size, GoOn(size, "prompt")  PROVE Stages'
  <2>1. stage = "card" /\ card.file \in {"kernel", "cmdline", "initrd"}
    BY <1>2 DEF Stages, Regions
  <2>2. CASE card.file = "kernel"
    <3>1. CASE Find("cmdline") /\ UNCHANGED <<stage, started>>
      BY <1>1, <2>1, <3>1 DEF Stages, Find, Away, Regions
    <3>2. CASE LeaveCard("prompt") /\ UNCHANGED started
      BY <1>1, <2>1, <3>2 DEF Stages, LeaveCard, Away
    <3> QED  BY <1>2, <2>2, <3>1, <3>2 DEF GoOn
  <2>3. CASE card.file = "cmdline"
    <3>1. Find("initrd") /\ UNCHANGED <<stage, started>>
      BY <1>2, <2>3 DEF GoOn
    <3> QED  BY <1>1, <2>1, <3>1 DEF Stages, Find, Away, Regions
  <2>4. CASE card.file = "initrd"
    <3>1. card' = Away /\ Boot("card", sizes["cmdline"] > 0, size > 0, size)
      BY <1>2, <2>4 DEF GoOn
    <3> QED  BY <1>1, <2>1, <3>1 DEF Stages, Boot, Away
  <2> QED  BY <2>1, <2>2, <2>3, <2>4
<1>3. CASE CardOpen("prompt")
  <2>1. CASE LeaveCard("prompt") /\ UNCHANGED started
    BY <1>1, <1>3, <2>1 DEF CardOpen, LeaveCard, Stages, Away
  <2>2. CASE Find("kernel") /\ UNCHANGED <<stage, started>>
    <3>1. stage = "card" /\ dev.does = "gone" /\ loop = "off"
      BY <1>3 DEF CardOpen, Stages
    <3>2. card'.file = "kernel" /\ card' = [does |-> card'.does, file |-> card'.file,
            cluster |-> card'.cluster, n |-> card'.n, size |-> card'.size]
      BY <2>2 DEF Find, Away
    <3> QED  BY <1>1, <2>2, <3>1, <3>2 DEF Stages, Regions
  <2> QED  BY <1>3, <2>1, <2>2 DEF CardOpen
<1>4. CASE FindFile("prompt")
  <2>1. stage = "card" /\ card.does # "away"
    BY <1>4 DEF FindFile, Stages
  <2>2. CASE TryLoad(0, "prompt")
    BY <1>1, <1>2, <2>1, <2>2 DEF TryLoad
  <2>3. ASSUME NEW c, NEW n, UNCHANGED <<stage, started>>,
               card' = [card EXCEPT !.does = "load", !.cluster = c, !.size = n]
        PROVE  Stages'
    BY <1>1, <2>1, <2>3 DEF Stages
  <2> QED  BY <1>1, <1>4, <2>1, <2>2, <2>3 DEF FindFile
<1>5. CASE LoadLoop("prompt")
  <2>1. stage = "card" /\ card.does # "away"
    BY <1>5 DEF LoadLoop, Stages
  <2>2. ASSUME NEW n, TryLoad(n, "prompt")  PROVE Stages'
    BY <1>1, <1>2, <2>1, <2>2 DEF TryLoad
  <2>3. ASSUME NEW c, UNCHANGED <<stage, started>>,
               card' = [card EXCEPT !.cluster = c, !.n = @ + 1]
        PROVE  Stages'
    BY <1>1, <2>1, <2>3 DEF Stages
  <2> QED  BY <1>1, <1>5, <2>1, <2>2, <2>3 DEF LoadLoop
<1>6. stage = "card"
  BY <1>1 DEF CardStep, CardOpen, FindFile, LoadLoop, Stages
<1>7. Stages'
  <2>1. CardStep("prompt")
    BY <1>1
  <2> QED  BY <2>1, <1>3, <1>4, <1>5 DEF CardStep
<1> QED  BY <1>1, <1>6, <1>7

LEMMA NetStages ==
  ASSUME Stages, Net
  PROVE  /\ Stages' /\ UNCHANGED <<sflVars, cardVars, started>>
         /\ (stage = "net" /\ stage' \in {"net", "prompt"}) \/ UNCHANGED <<stage, mem>>
<1>1. UNCHANGED <<sflVars, cardVars>> /\ dev' = dev /\ card' = card /\ NetStep
  BY DEF Net, sflVars, cardVars
<1>2. CASE NetStart
  BY <1>1, <1>2 DEF NetStart, Stages, netVars
<1>3. CASE ReceivedAll
  BY <1>1, <1>3 DEF ReceivedAll, Stages
<1>4. CASE CheckTimeout
  BY <1>1, <1>4 DEF CheckTimeout, ArpTimeout, TftpTimeout, Stages
<1>5. CASE SwitchState
  BY <1>1, <1>5 DEF SwitchState, Halt, Stages
<1>6. CASE Arrive
  <2>1. PICK p, rest : Receive(p, rest)
    BY <1>6 DEF Arrive
  <2>2. NetState' = NetState \/ NetState' \in {"success", "restart"}
    BY <2>1 DEF Receive, TftpStart, Ignore, TftpHandler, TftpData
  <2> QED  BY <1>1, <1>6, <2>2 DEF Arrive, Stages
<1>7. CASE UserAbort
  BY <1>1, <1>7 DEF UserAbort, Halt, Stages
<1>8. CASE Server \/ Trouble
  BY <1>1, <1>8 DEF Server, Trouble, Stages
<1> QED  BY <1>1, <1>2, <1>3, <1>4, <1>5, <1>6, <1>7, <1>8 DEF NetStep, NetLoopStep
-----------------------------------------------------------------------------
(* The network *)

LEMMA NetAssumptions ==
  /\ Size \in Nat /\ Size > 0 /\ Blocks \in Nat /\ Blocks >= 1 /\ Blocks <= Size
  /\ TIMEOUT_COUNT \in Nat /\ HashEvery \in Nat /\ Closed = Blocks + 1
BY SizeAssumption, TftpAssumption DEF Closed

LEMMA PacketFacts ==
  ASSUME NEW kind \in PacketKinds, NEW client \in Nat, NEW server \in Nat, NEW block \in Nat
  PROVE  /\ Packet(kind, client, server, block) \in Packets
         /\ Packet(kind, client, server, block).kind = kind
         /\ Packet(kind, client, server, block).client = client
         /\ Packet(kind, client, server, block).server = server
         /\ Packet(kind, client, server, block).block = block
BY DEF Packet, Packets

\* The network's part of the state is as it was.
LEMMA NetUnchanged ==
  ASSUME NetInv, UNCHANGED netVars, mem' = mem \/ loop = "off"
  PROVE  NetInv'
<1>1. UNCHANGED <<loop, NetState, packetHandler, timeHandler, tftp, NetBootFileXferSize, wire,
                  session>>
  BY DEF netVars, handlers
<1>2. NetTyped' /\ Idle' /\ Handlers' /\ Sessions' /\ Asking' /\ Transferring' /\ Succeeded'
  BY <1>1 DEF NetInv, NetTyped, Idle, Handlers, Sessions, Asking, Transferring, Succeeded
<1>3. Stored'
  BY <1>1 DEF NetInv, Stored, Idle
<1> QED  BY <1>2, <1>3 DEF NetInv

LEMMA NetInit == Init => NetInv
<1> SUFFICES ASSUME Init  PROVE NetInv
  OBVIOUS
<1>1. /\ loop = "off" /\ NetState = "continue" /\ packetHandler = "none" /\ timeHandler = "none"
      /\ tftp = TftpOff /\ NetBootFileXferSize = 0 /\ wire = {} /\ session = <<>>
  BY DEF Init, TftpInit
<1>2. NetTyped
  BY <1>1, NetAssumptions DEF NetTyped, TftpOff, WELL_KNOWN_PORT
<1>3. Idle /\ Handlers /\ Asking /\ Transferring /\ Stored /\ Succeeded
  BY <1>1 DEF Idle, Handlers, Asking, Transferring, Stored, Succeeded
<1>4. Sessions
  BY <1>1 DEF Sessions
<1> QED  BY <1>2, <1>3, <1>4 DEF NetInv

LEMMA NetHalt ==
  ASSUME NetInv, Halt
  PROVE  NetInv'
<1>1. /\ loop' = "off" /\ NetState' = "continue" /\ packetHandler' = "none"
      /\ timeHandler' = "none" /\ tftp' = TftpOff /\ NetBootFileXferSize' = 0 /\ wire' = {}
      /\ session' = <<>>
  BY DEF Halt
<1>2. NetTyped'
  BY <1>1, NetAssumptions DEF NetTyped, TftpOff, WELL_KNOWN_PORT
<1>3. Idle' /\ Handlers' /\ Asking' /\ Transferring' /\ Stored' /\ Succeeded'
  BY <1>1 DEF Idle, Handlers, Asking, Transferring, Stored, Succeeded
<1>4. Sessions'
  BY <1>1 DEF Sessions
<1> QED  BY <1>2, <1>3, <1>4 DEF NetInv

\* An attempt begins: of the packets of the one before some may still be in flight.
LEMMA ArpBegins ==
  ASSUME NetInv, NEW rest, rest \subseteq wire, ArpRequest(rest), loop' \in {"receive", "switch"},
         NetState' = "continue", NetBootFileXferSize' = 0, UNCHANGED <<tftp, session>>
  PROVE  NetInv'
<1>1. /\ wire' = rest \cup {ArpQuery} /\ packetHandler' = "arp" /\ timeHandler' = "arp"
      /\ tftp' = tftp /\ session' = session /\ loop' # "off"
  BY DEF ArpRequest, NetSetTimeout
<1>2. ArpQuery \in Packets /\ ArpQuery.kind = "arp_request" /\ ArpQuery.client = 0
  BY PacketFacts DEF ArpQuery, PacketKinds
<1>3. NetTyped'
  BY <1>1, <1>2, NetAssumptions DEF NetInv, NetTyped
<1>4. Idle' /\ Handlers' /\ Asking' /\ Transferring' /\ Stored' /\ Succeeded'
  BY <1>1 DEF Idle, Handlers, Asking, Transferring, Stored, Succeeded
<1>5. tftp.ours \in Nat
  BY DEF NetInv, NetTyped
<1>6. Sessions'
  BY <1>1, <1>2, <1>5 DEF NetInv, Sessions
<1> QED  BY <1>3, <1>4, <1>6 DEF NetInv

LEMMA NextNetStart ==
  ASSUME NetInv, NetStart
  PROVE  NetInv'
<1>1. CASE UNCHANGED netVars
  BY <1>1, NetUnchanged DEF NetStart
<1>2. CASE loop' = "receive" /\ NetState' = "continue" /\ ArpRequest({}) /\ NetBootFileXferSize' = 0
           /\ UNCHANGED <<tftp, session>>
  BY <1>2, ArpBegins
<1> QED  BY <1>1, <1>2 DEF NetStart

LEMMA NextReceivedAll ==
  ASSUME NetInv, ReceivedAll
  PROVE  NetInv'
<1>1. /\ loop' = "timeout" /\ mem' = mem
      /\ UNCHANGED <<NetState, packetHandler, timeHandler, tftp, NetBootFileXferSize, wire, session>>
  BY DEF ReceivedAll, handlers
<1>2. loop # "off"
  BY DEF ReceivedAll
<1> QED
  BY <1>1, <1>2 DEF NetInv, NetTyped, Idle, Handlers, Sessions, Asking, Transferring, Stored, Succeeded

\* Ignoring a packet, or giving up: fewer packets, and perhaps another state of the loop.
LEMMA NetIgnores ==
  ASSUME NetInv, loop # "off", loop' \in {"receive", "timeout", "switch"}, wire' \subseteq wire,
         mem' = mem, tftp' = tftp, packetHandler' = packetHandler, session' = session,
         NetBootFileXferSize' = NetBootFileXferSize,
         timeHandler' = timeHandler \/ timeHandler' = "none",
         NetState' = NetState \/ (NetState' = "restart" /\ packetHandler = "tftp")
  PROVE  NetInv'
<1>1. NetTyped'
  BY DEF NetInv, NetTyped
<1>2. Idle' /\ Stored'
  BY DEF NetInv, Idle, Stored
<1>3. Handlers' /\ Succeeded'
  BY DEF NetInv, Handlers, Succeeded
<1>4. Sessions'
  BY DEF NetInv, Sessions
<1>5. Asking'
  BY DEF NetInv, Asking
<1>6. Transferring'
  BY DEF NetInv, Transferring
<1> QED  BY <1>1, <1>2, <1>3, <1>4, <1>5, <1>6 DEF NetInv
\* A new request: its port is of no client before it.
LEMMA NextTftpStart ==
  ASSUME NetInv, ~PortsReused, loop = "receive", loop' = loop, packetHandler = "arp",
         NEW rest, rest \subseteq wire, TftpStart(rest), session' = session
  PROVE  NetInv'
<1>1. /\ packetHandler' = "tftp" /\ timeHandler' = "tftp" /\ NetState' = NetState
      /\ NetBootFileXferSize' = 0 /\ NetBootFileXferSize = 0 /\ NetState = "continue"
  BY DEF TftpStart, NetSetTimeout, NetInv, Handlers
<1>2. tftp' = [tftp EXCEPT !.server = WELL_KNOWN_PORT, !.timeouts = 0, !.state = "rrq",
                           !.ours = tftp.ours + 1]
  BY DEF TftpStart
<1>3. tftp.ours \in Nat /\ tftp \in [state : {"off", "rrq", "data"}, server : Nat, ours : Nat,
                                     block : Nat, last : Nat, timeouts : Nat]
  BY DEF NetInv, NetTyped
<1>4. /\ tftp'.state = "rrq" /\ tftp'.ours = tftp.ours + 1 /\ tftp'.server = 0
      /\ tftp' \in [state : {"off", "rrq", "data"}, server : Nat, ours : Nat,
                    block : Nat, last : Nat, timeouts : Nat]
  <2>1. WELL_KNOWN_PORT = 0 /\ 0 \in Nat /\ tftp.ours + 1 \in Nat
    BY <1>3 DEF WELL_KNOWN_PORT
  <2>2. tftp'.state = "rrq" /\ tftp'.ours = tftp.ours + 1 /\ tftp'.server = 0
    BY <1>2, <1>3, <2>1
  <2>3. tftp' \in [state : {"off", "rrq", "data"}, server : Nat, ours : Nat,
                    block : Nat, last : Nat, timeouts : Nat]
    BY ONLY <1>2, <1>3, <2>1
  <2> QED  BY <2>2, <2>3
<1> DEFINE q == Packet("rrq", tftp.ours + 1, 0, 0)
<1>5. wire' \subseteq rest \cup {q}
  BY <1>4 DEF TftpStart, TftpSent
<1>6. q \in Packets /\ q.kind = "rrq" /\ q.client = tftp.ours + 1
  <2>1. "rrq" \in PacketKinds /\ 0 \in Nat /\ tftp.ours + 1 \in Nat
    BY <1>3 DEF PacketKinds
  <2> QED  BY ONLY <2>1, PacketFacts
<1> HIDE DEF q
<1>7. NetTyped'
  BY <1>1, <1>4, <1>5, <1>6, NetAssumptions DEF NetInv, NetTyped
<1>8. Idle' /\ Handlers' /\ Transferring' /\ Stored' /\ Succeeded'
  BY <1>1, <1>4 DEF Idle, Handlers, Transferring, Stored, Succeeded
<1>9. /\ \A i \in 1..Len(session) : session[i].client \in Nat /\ session[i].client <= tftp.ours
      /\ \A p \in wire : p.client \in Nat /\ p.client <= tftp.ours
  <2>1. \A i \in 1..Len(session) : session[i] \in [client : Nat, block : Nat]
    <3>1. session \in Seq([client : Nat, block : Nat])
      BY DEF NetInv, NetTyped
    <3> QED  BY ONLY <3>1, ElementOfSeq
  <2>2. \A p \in wire : p.client \in Nat
    BY DEF NetInv, NetTyped, Packets
  <2> QED  BY <2>1, <2>2 DEF NetInv, Sessions
<1>10. Sessions'
  <2>1. \A i \in 1..Len(session') :
          session'[i].client <= tftp'.ours /\ session'[i].block \in 1..Closed
    <3>1. \A i \in 1..Len(session) : session[i].block \in 1..Closed
      BY DEF NetInv, Sessions
    <3>2. ASSUME NEW i \in 1..Len(session)  PROVE session[i].client <= tftp.ours + 1
      BY <1>3, <1>9
    <3>3. session' = session
      OBVIOUS
    <3>4. \A i \in 1..Len(session') : session'[i].block \in 1..Closed
      BY ONLY <3>1, <3>3
    <3>5. ASSUME NEW i \in 1..Len(session')  PROVE session'[i].client <= tftp'.ours
      BY ONLY <1>4, <3>2, <3>3
    <3> QED  BY ONLY <3>4, <3>5
  <2>2. \A p \in wire' : p.client <= tftp'.ours
    BY <1>3, <1>4, <1>5, <1>6, <1>9
  <2>3. \A p \in wire' : p.kind \in {"data", "ack"} =>
          p.server \in 1..Len(session') /\ p.client = session'[p.server].client
    BY <1>5, <1>6 DEF NetInv, Sessions
  <2>4. \A p \in wire' : p.kind = "data" => p.block \in 1..Blocks
    BY <1>5, <1>6 DEF NetInv, Sessions
  <2> QED  BY <2>1, <2>2, <2>3, <2>4 DEF Sessions, Closed
<1>11. Asking'
  <2>1. \A i \in 1..Len(session') : session'[i].client # tftp'.ours
    BY <1>3, <1>4, <1>9
  <2>2. \A p \in wire' : p.client = tftp'.ours => p = q
    BY <1>3, <1>4, <1>5, <1>9
  <2> QED  BY <1>1, <1>6, <2>1, <2>2 DEF Asking
<1> QED  BY <1>7, <1>8, <1>10, <1>11 DEF NetInv

\* Block b of this transfer may be stored: the server and the packets from and to it are
\* not ahead of what is stored.
MayStore(b, server) ==
  /\ b \in 1..Blocks /\ b <= NetBootFileXferSize + 1
  /\ server \in 1..Len(session) /\ session[server].client = tftp.ours
  /\ session[server].block <= NetBootFileXferSize + 1 \/ session[server].block <= b + 1
  /\ \A p \in wire : p.client = tftp.ours /\ p.server = server =>
       /\ p.kind = "data" => p.block <= NetBootFileXferSize + 1
       /\ p.kind = "ack" => p.block <= NetBootFileXferSize

\* The step that stores it.
Stores(b, server, rest) ==
  /\ tftp' \in [state : {"off", "rrq", "data"}, server : Nat, ours : Nat,
                block : Nat, last : Nat, timeouts : Nat]
  /\ tftp'.state = "data" /\ tftp'.server = server /\ tftp'.ours = tftp.ours
  /\ tftp'.block = b /\ tftp'.last = b
  /\ packetHandler' = "tftp" /\ timeHandler' = "tftp" /\ StoreBlock(b) /\ session' = session
  /\ rest \subseteq wire /\ wire' \subseteq rest \cup {Packet("ack", tftp.ours, server, b)}
  /\ NetState' = IF b = Blocks THEN "success" ELSE NetState

\* A block is stored and acknowledged.
LEMMA BlockStored ==
  ASSUME NetInv, Shape, loop = "receive", loop' = loop, packetHandler = "tftp",
         NEW b, NEW server, NEW rest, MayStore(b, server), Stores(b, server, rest)
  PROVE  NetInv'
<1> DEFINE q == Packet("ack", tftp.ours, server, b)
           m == NetBootFileXferSize
<1> USE DEF MayStore, Stores
<1>1. m \in 0..Blocks /\ tftp.ours \in Nat /\ server \in Nat /\ b \in Nat /\ Blocks \in Nat
      /\ Blocks >= 1 /\ Blocks <= Size /\ Size \in Nat
  BY NetAssumptions DEF NetInv, NetTyped
<1>2. /\ q \in Packets /\ q.kind = "ack" /\ q.client = tftp.ours /\ q.server = server /\ q.block = b
      /\ wire' \subseteq wire \cup {q}
  <2>1. "ack" \in PacketKinds
    BY DEF PacketKinds
  <2>2. /\ q \in Packets /\ q.kind = "ack" /\ q.client = tftp.ours /\ q.server = server
        /\ q.block = b
    BY ONLY <1>1, <2>1, PacketFacts
  <2> QED  BY <2>2
<1> HIDE DEF q
<1>3. /\ NetBootFileXferSize' \in 0..Blocks /\ m <= NetBootFileXferSize'
      /\ b <= NetBootFileXferSize' /\ (m = Blocks => NetBootFileXferSize' = Blocks)
      /\ (b = Blocks => NetBootFileXferSize' = Blocks)
      /\ NetBootFileXferSize' = m \/ NetBootFileXferSize' = b
  BY <1>1 DEF StoreBlock
<1>4. NetTyped'
  BY <1>2, <1>3 DEF NetInv, NetTyped
<1>5. Idle' /\ Handlers' /\ Asking'
  BY DEF Idle, Handlers, Asking
<1>6. Sessions'
  BY <1>2 DEF NetInv, Sessions
<1>7. session[server].block \in Nat
  <2>1. session[server].block \in 1..Closed
    BY DEF NetInv, Sessions
  <2> QED  BY <2>1, NetAssumptions
<1>8. \A p \in wire : p.block \in Nat
  BY DEF NetInv, NetTyped, Packets
<1>9. Transferring'
  <2>1. session'[server].block <= NetBootFileXferSize' + 1
    BY <1>1, <1>3, <1>7
  <2>2. \A p \in wire' : p.client = tftp.ours /\ p.server = server =>
          /\ p.kind = "data" => p.block <= NetBootFileXferSize' + 1
          /\ p.kind = "ack" => p.block <= NetBootFileXferSize'
    BY <1>1, <1>2, <1>3, <1>8
  <2>3. b \in 1..NetBootFileXferSize'
    BY <1>1, <1>3
  <2> QED  BY <2>1, <2>2, <2>3 DEF Transferring
<1>10. Stored'
  <2>1. \A i \in 1..m : mem["kernel"][i] = Unit("net", "kernel", i)
    BY DEF NetInv, Stored
  <2>2. \A j \in 1..Size : mem'["kernel"][j] = IF j = b THEN Unit("net", "kernel", b) ELSE mem["kernel"][j]
    <3>1. b \in 1..Size /\ "kernel" \in Regions
      BY <1>1 DEF Regions
    <3>2. Poke("kernel", b, Unit("net", "kernel", b))
      BY DEF StoreBlock
    <3> QED  BY <3>1, <3>2, PokeFacts
  <2>3. ASSUME NEW i \in 1..NetBootFileXferSize'
        PROVE  mem'["kernel"][i] = Unit("net", "kernel", i)
    <3>1. i \in 1..Size /\ (i = b \/ i \in 1..m)
      BY <1>1, <1>3
    <3> QED  BY <2>1, <2>2, <3>1
  <2> QED  BY <2>3 DEF Stored
<1>11. Succeeded'
  BY <1>3 DEF NetInv, Succeeded
<1> QED  BY <1>4, <1>5, <1>6, <1>9, <1>10, <1>11 DEF NetInv

LEMMA NextTftpData ==
  ASSUME NetInv, Shape, loop = "receive", loop' = loop, packetHandler = "tftp",
         NEW p \in wire, p.kind = "data", p.client = tftp.ours,
         tftp.state # "rrq" => p.server = tftp.server,
         NEW rest, rest \subseteq wire, TftpData(p, rest), session' = session
  PROVE  NetInv'
<1> DEFINE first == tftp.state = "rrq"
           m == NetBootFileXferSize
           t == [tftp EXCEPT !.block = p.block, !.state = "data",
                        !.timeouts = IF (p.block - 1) % HashEvery = 0 THEN 0 ELSE @,
                        !.server = IF first THEN p.server ELSE @,
                        !.last = IF first THEN 0 ELSE @]
<1>1. /\ p.server \in 1..Len(session) /\ session[p.server].client = tftp.ours
      /\ p.block \in 1..Blocks /\ tftp.state \in {"rrq", "data"}
  BY DEF NetInv, NetTyped, Sessions, Stored
<1>2. tftp \in [state : {"off", "rrq", "data"}, server : Nat, ours : Nat,
                block : Nat, last : Nat, timeouts : Nat] /\ m \in Nat
  BY NetAssumptions DEF NetInv, NetTyped
<1>3. /\ t \in [state : {"off", "rrq", "data"}, server : Nat, ours : Nat,
                block : Nat, last : Nat, timeouts : Nat]
      /\ t.state = "data" /\ t.server = p.server /\ t.ours = tftp.ours /\ t.block = p.block
      /\ t.last = IF first THEN 0 ELSE tftp.last
  <2>1. p.server \in Nat /\ p.block \in Nat
    BY <1>1, NetAssumptions
  <2>2. (IF (p.block - 1) % HashEvery = 0 THEN 0 ELSE tftp.timeouts) \in Nat
    BY <1>2
  <2>3. (IF first THEN p.server ELSE tftp.server) = p.server /\ (IF first THEN 0 ELSE tftp.last) \in Nat
    BY <1>2
  <2> QED  BY <1>2, <2>1, <2>2, <2>3
<1>4. CASE first
  <2>1. p.block = 1 /\ session[p.server].block = 1 /\ m = 0
    BY <1>1, <1>4 DEF NetInv, Asking
  <2>2. /\ tftp' = [t EXCEPT !.last = p.block]
        /\ NetSetTimeout("tftp") /\ UNCHANGED packetHandler
        /\ StoreBlock(p.block)
        /\ wire' = rest \cup TftpSent(t)
        /\ NetState' = IF p.block = Blocks THEN "success" ELSE NetState
    BY <1>3, <1>4, <2>1 DEF TftpData
  <2>3. TftpSent(t) \subseteq {Packet("ack", tftp.ours, p.server, p.block)}
    BY <1>3 DEF TftpSent
  <2>4. \A q \in wire : q.client = tftp.ours /\ q.server = p.server =>
           /\ q.kind = "data" => q.block <= m + 1
           /\ q.kind = "ack" => q.block <= m
    BY <1>4, <2>1 DEF NetInv, Asking
  <2>5. /\ tftp' \in [state : {"off", "rrq", "data"}, server : Nat, ours : Nat,
                      block : Nat, last : Nat, timeouts : Nat]
        /\ tftp'.state = "data" /\ tftp'.server = p.server /\ tftp'.ours = tftp.ours
        /\ tftp'.block = p.block /\ tftp'.last = p.block
    <3>1. p.block \in Nat
      BY <1>1, NetAssumptions
    <3>2. tftp' = [t EXCEPT !.last = p.block]
      BY <2>2
    <3> HIDE DEF t
    <3>3. tftp' \in [state : {"off", "rrq", "data"}, server : Nat, ours : Nat,
                       block : Nat, last : Nat, timeouts : Nat]
      BY ONLY <1>3, <3>1, <3>2
    <3>4. /\ tftp'.state = "data" /\ tftp'.server = p.server /\ tftp'.ours = tftp.ours
          /\ tftp'.block = p.block /\ tftp'.last = p.block
      BY <1>3, <3>2
    <3> QED  BY <3>3, <3>4
  <2>6. p.block <= m + 1 /\ session[p.server].block <= m + 1
    BY <2>1
  <2>7. packetHandler' = "tftp" /\ timeHandler' = "tftp"
        /\ wire' \subseteq rest \cup {Packet("ack", tftp.ours, p.server, p.block)}
    BY <2>2, <2>3 DEF NetSetTimeout
  <2>8. StoreBlock(p.block) /\ NetState' = IF p.block = Blocks THEN "success" ELSE NetState
    BY <2>2
  <2> HIDE DEF t, first
  <2> QED
    <3>1. MayStore(p.block, p.server)
      BY <1>1, <2>4, <2>6 DEF MayStore
    <3>2. Stores(p.block, p.server, rest)
      BY <2>5, <2>7, <2>8 DEF Stores
    <3> QED  BY <3>1, <3>2, BlockStored
<1>5. CASE ~first
  <2>1. /\ tftp.server = p.server /\ session[p.server].block <= m + 1 /\ p.block <= m + 1
        /\ tftp.last \in 1..m /\ t.last = tftp.last
        /\ \A q \in wire : q.client = tftp.ours /\ q.server = p.server =>
             /\ q.kind = "data" => q.block <= m + 1
             /\ q.kind = "ack" => q.block <= m
    BY <1>1, <1>3, <1>5 DEF NetInv, Transferring
  <2>2. CASE p.block = t.last
    <3>1. tftp' = t /\ wire' = rest
          /\ UNCHANGED <<NetState, packetHandler, timeHandler, NetBootFileXferSize, mem>>
      BY <1>5, <2>2 DEF TftpData, handlers
    <3>2. tftp'.block \in 1..NetBootFileXferSize'
      BY <1>3, <2>1, <2>2, <3>1
    <3>3. NetTyped'
      BY <1>3, <3>1 DEF NetInv, NetTyped
    <3>4. Idle' /\ Handlers' /\ Asking' /\ Stored' /\ Succeeded'
      BY <1>3, <3>1 DEF NetInv, Idle, Handlers, Asking, Stored, Succeeded
    <3>5. Sessions'
      BY <1>3, <3>1 DEF NetInv, Sessions
    <3>6. Transferring'
      BY <1>1, <1>3, <2>1, <3>1, <3>2 DEF Transferring
    <3> QED  BY <3>3, <3>4, <3>5, <3>6 DEF NetInv
  <2>3. CASE p.block # t.last
    <3>2. /\ tftp' = [t EXCEPT !.last = p.block]
          /\ NetSetTimeout("tftp") /\ UNCHANGED packetHandler
          /\ StoreBlock(p.block)
          /\ wire' = rest \cup TftpSent(t)
          /\ NetState' = IF p.block = Blocks THEN "success" ELSE NetState
      BY <1>5, <2>3 DEF TftpData
    <3>3. TftpSent(t) \subseteq {Packet("ack", tftp.ours, p.server, p.block)}
      BY <1>3 DEF TftpSent
    <3>5. /\ tftp' \in [state : {"off", "rrq", "data"}, server : Nat, ours : Nat,
                        block : Nat, last : Nat, timeouts : Nat]
          /\ tftp'.state = "data" /\ tftp'.server = p.server /\ tftp'.ours = tftp.ours
          /\ tftp'.block = p.block /\ tftp'.last = p.block
      <4>1. p.block \in Nat
        BY <1>1, NetAssumptions
      <4>2. tftp' = [t EXCEPT !.last = p.block]
        BY <3>2
      <4> HIDE DEF t
      <4>3. tftp' \in [state : {"off", "rrq", "data"}, server : Nat, ours : Nat,
                         block : Nat, last : Nat, timeouts : Nat]
        BY ONLY <1>3, <4>1, <4>2
      <4>4. /\ tftp'.state = "data" /\ tftp'.server = p.server /\ tftp'.ours = tftp.ours
            /\ tftp'.block = p.block /\ tftp'.last = p.block
        BY <1>3, <4>2
      <4> QED  BY <4>3, <4>4
    <3>7. packetHandler' = "tftp" /\ timeHandler' = "tftp"
          /\ wire' \subseteq rest \cup {Packet("ack", tftp.ours, p.server, p.block)}
      BY <3>2, <3>3 DEF NetSetTimeout
    <3> QED
      <4>1. MayStore(p.block, p.server)
        BY <1>1, <2>1 DEF MayStore
      <4>2. Stores(p.block, p.server, rest)
        BY <3>2, <3>5, <3>7 DEF Stores
      <4> QED  BY <4>1, <4>2, BlockStored
  <2> QED  BY <2>2, <2>3
<1> QED  BY <1>4, <1>5

LEMMA NextArrive ==
  ASSUME NetInv, Shape, ~PortsReused, Arrive
  PROVE  NetInv'
<1>1. PICK p \in Inbound, rest \in SUBSET wire : Receive(p, rest)
  BY DEF Arrive
<1>2. loop = "receive" /\ loop' = loop /\ session' = session /\ p \in wire
  BY <1>1 DEF Arrive, Inbound
<1>3. packetHandler \in {"arp", "tftp"}
  BY <1>2 DEF NetInv, Handlers
<1>4. CASE packetHandler = "arp"
  BY <1>1, <1>2, <1>4, NextTftpStart DEF Receive
<1>5. CASE packetHandler = "tftp" /\ Ignore(rest)
  BY <1>1, <1>2, <1>5, NetIgnores DEF Ignore, handlers
<1>6. CASE packetHandler = "tftp" /\ TftpHandler(p, rest) /\ ~Ignore(rest)
  <2>1. p.client = tftp.ours /\ (tftp.state # "rrq" => p.server = tftp.server)
    BY <1>6 DEF TftpHandler
  <2>2. CASE p.kind = "data"
    BY <1>1, <1>2, <1>6, <2>1, <2>2, NextTftpData DEF TftpHandler
  <2>3. CASE p.kind # "data"
    <3>1. NetState' = "restart" /\ wire' = rest /\ UNCHANGED <<handlers, tftp, NetBootFileXferSize, mem>>
      BY <1>6, <2>1, <2>3 DEF TftpHandler
    <3> QED  BY <1>1, <1>2, <1>6, <3>1, NetIgnores DEF handlers
  <2> QED  BY <2>2, <2>3
<1> QED  BY <1>1, <1>3, <1>4, <1>5, <1>6 DEF Receive
\* The request or the last acknowledgement is sent again.
LEMMA NextTftpTimeout ==
  ASSUME NetInv, loop = "timeout", loop' = "switch", packetHandler = "tftp", TftpTimeout,
         UNCHANGED <<mem, session>>
  PROVE  NetInv'
<1> DEFINE t == [tftp EXCEPT !.timeouts = @ + 1]
<1>1. /\ tftp' = t /\ packetHandler' = "tftp" /\ NetBootFileXferSize' = NetBootFileXferSize
      /\ timeHandler' \in {"tftp", "none"} /\ mem' = mem /\ session' = session
      /\ wire' \subseteq wire \cup TftpSent(t)
      /\ NetState' \in {NetState, "restart"}
  BY DEF TftpTimeout, NetSetTimeout
<1>2. /\ tftp.ours \in Nat /\ tftp.server \in Nat /\ tftp.block \in Nat /\ tftp.timeouts \in Nat
      /\ tftp \in [state : {"off", "rrq", "data"}, server : Nat, ours : Nat,
                   block : Nat, last : Nat, timeouts : Nat]
  BY DEF NetInv, NetTyped
<1>3. t \in [state : {"off", "rrq", "data"}, server : Nat, ours : Nat,
             block : Nat, last : Nat, timeouts : Nat]
  <2>1. tftp.timeouts + 1 \in Nat
    BY <1>2
  <2> QED  BY ONLY <1>2, <2>1
<1>4. /\ t.state = tftp.state /\ t.server = tftp.server /\ t.ours = tftp.ours
      /\ t.block = tftp.block /\ t.last = tftp.last
  BY ONLY <1>2
<1> HIDE DEF t
<1> DEFINE q == Packet(IF tftp.state = "rrq" THEN "rrq" ELSE "ack", tftp.ours, tftp.server,
                       IF tftp.state = "rrq" THEN 0 ELSE tftp.block)
<1>5. wire' \subseteq wire \cup {q}
  BY <1>1, <1>4 DEF TftpSent
<1>6. /\ q \in Packets /\ q.client = tftp.ours /\ q.server = tftp.server
      /\ q.kind = IF tftp.state = "rrq" THEN "rrq" ELSE "ack"
      /\ q.block = IF tftp.state = "rrq" THEN 0 ELSE tftp.block
  <2>1. (IF tftp.state = "rrq" THEN "rrq" ELSE "ack") \in PacketKinds
        /\ (IF tftp.state = "rrq" THEN 0 ELSE tftp.block) \in Nat
    BY <1>2 DEF PacketKinds
  <2> QED  BY ONLY <1>2, <2>1, PacketFacts
<1> HIDE DEF q
<1>7. tftp.state \in {"rrq", "data"}
  BY <1>2 DEF NetInv, Stored
<1>8. NetTyped'
  BY <1>1, <1>3, <1>5, <1>6 DEF NetInv, NetTyped
<1>9. Idle' /\ Handlers' /\ Succeeded' /\ Stored'
  BY <1>1, <1>4 DEF NetInv, Idle, Handlers, Succeeded, Stored
<1>10. Asking'
  BY <1>1, <1>4, <1>5, <1>6 DEF NetInv, Asking
<1>11. tftp.state = "data" =>
         /\ tftp.server \in 1..Len(session) /\ session[tftp.server].client = tftp.ours
         /\ tftp.block \in 1..NetBootFileXferSize
  BY DEF NetInv, Transferring
<1>12. Transferring'
  <2>1. NetBootFileXferSize \in Nat
    BY NetAssumptions DEF NetInv, NetTyped
  <2>2. tftp.state = "data" => \A p \in wire' : p.client = tftp.ours /\ p.server = tftp.server =>
          /\ p.kind = "data" => p.block <= NetBootFileXferSize + 1
          /\ p.kind = "ack" => p.block <= NetBootFileXferSize
    BY <1>5, <1>6, <1>11, <2>1 DEF NetInv, Transferring
  <2> QED  BY <1>1, <1>4, <2>2 DEF NetInv, Transferring
<1>13. Sessions'
  <2>1. \A p \in wire' : p.client <= tftp.ours
    BY <1>2, <1>5, <1>6 DEF NetInv, Sessions
  <2>2. \A p \in wire' : p.kind \in {"data", "ack"} =>
          p.server \in 1..Len(session) /\ p.client = session[p.server].client
    BY <1>5, <1>6, <1>7, <1>11 DEF NetInv, Sessions
  <2>3. \A p \in wire' : p.kind = "data" => p.block \in 1..Blocks
    BY <1>5, <1>6 DEF NetInv, Sessions
  <2> QED  BY <1>1, <1>4, <2>1, <2>2, <2>3 DEF NetInv, Sessions
<1> QED  BY <1>8, <1>9, <1>10, <1>12, <1>13 DEF NetInv

LEMMA NextCheckTimeout ==
  ASSUME NetInv, CheckTimeout
  PROVE  NetInv'
<1>1. loop = "timeout" /\ loop' = "switch" /\ mem' = mem /\ session' = session
  BY DEF CheckTimeout
<1>2. CASE timeHandler = "arp" /\ ArpTimeout
  <2>1. packetHandler = "arp"
    BY <1>2 DEF NetInv, Handlers
  <2>2. NetState = "continue" /\ NetBootFileXferSize = 0
    BY <2>1 DEF NetInv, Handlers
  <2> QED  BY <1>1, <1>2, <2>2, ArpBegins DEF ArpTimeout
<1>3. CASE timeHandler \notin {"arp", "none"} /\ TftpTimeout
  <2>1. packetHandler = "tftp"
    BY <1>1, <1>3 DEF NetInv, Handlers
  <2> QED  BY <1>1, <1>3, <2>1, NextTftpTimeout
<1>4. CASE UNCHANGED <<NetState, packetHandler, timeHandler, NetServerEther, tftp, wire,
                       NetBootFileXferSize>>
  BY <1>1, <1>4, NetIgnores
<1> QED  BY <1>2, <1>3, <1>4 DEF CheckTimeout

LEMMA NextSwitchState ==
  ASSUME NetInv, NetState \in {"continue", "restart", "success"}, SwitchState
  PROVE  NetInv'
<1>1. loop = "switch" /\ mem' = mem
  BY DEF SwitchState
<1>2. CASE NetState = "continue"
  <2>1. loop' = "receive" /\ UNCHANGED <<NetState, handlers, tftp, wire, session, NetBootFileXferSize>>
    BY <1>2 DEF SwitchState
  <2> QED  BY <1>1, <2>1, NetIgnores DEF handlers
<1>3. CASE NetState = "restart"
  <2>1. loop' = "receive" /\ NetState' = "continue" /\ ArpRequest(wire) /\ NetBootFileXferSize' = 0
        /\ UNCHANGED <<tftp, session>>
    BY <1>3 DEF SwitchState
  <2> QED  BY <2>1, ArpBegins
<1>4. CASE NetState = "success"
  <2>1. Halt
    BY <1>4 DEF SwitchState
  <2> QED  BY <2>1, NetHalt
<1> QED  BY <1>2, <1>3, <1>4

\* A session is opened: for a client that is known, at its first block or refused.
LEMMA SessionOpened ==
  ASSUME NetInv, loop # "off", UNCHANGED <<mem, loop, NetState, handlers, tftp, NetBootFileXferSize>>,
         NEW p \in wire, p.kind = "rrq", NEW b \in {1, Closed}, NEW q,
         session' = Append(session, [client |-> p.client, block |-> b]),
         wire' = (wire \ {p}) \cup {q},
         \/ b = 1 /\ q = Packet("data", p.client, Len(session) + 1, 1)
         \/ b = Closed /\ q = Packet("error", p.client, Len(session) + 1, 0)
  PROVE  NetInv'
<1> DEFINE port == Len(session) + 1
           s == [client |-> p.client, block |-> b]
<1>1. session \in Seq([client : Nat, block : Nat]) /\ p.client \in Nat /\ b \in Nat /\ Blocks \in Nat
      /\ Blocks >= 1 /\ Closed = Blocks + 1 /\ p.client <= tftp.ours /\ port \in Nat
  BY NetAssumptions DEF NetInv, NetTyped, Packets, Sessions
<1>2. /\ Len(session') = port /\ session' \in Seq([client : Nat, block : Nat])
      /\ \A i \in 1..Len(session) : session'[i] = session[i]
      /\ session'[port] = s
  <2>1. s \in [client : Nat, block : Nat]
    BY <1>1
  <2> QED  BY <1>1, <2>1, AppendProperties
<1>3. /\ q \in Packets /\ q.client = p.client /\ q.server = port /\ q.block \in {0, 1}
      /\ q.kind \in {"data", "error"} /\ (q.kind = "data" => q.block = 1 /\ b = 1)
  <2>1. "data" \in PacketKinds /\ "error" \in PacketKinds /\ 0 \in Nat /\ 1 \in Nat
    BY DEF PacketKinds
  <2>2. p.client \in Nat /\ port \in Nat
    BY <1>1
  <2> HIDE DEF port, s
  <2>3. CASE b = 1 /\ q = Packet("data", p.client, port, 1)
    <3>1. /\ Packet("data", p.client, port, 1) \in Packets
          /\ Packet("data", p.client, port, 1).kind = "data"
          /\ Packet("data", p.client, port, 1).client = p.client
          /\ Packet("data", p.client, port, 1).server = port
          /\ Packet("data", p.client, port, 1).block = 1
      BY ONLY <2>1, <2>2, PacketFacts
    <3> QED  BY ONLY <2>3, <3>1
  <2>4. CASE b = Closed /\ q = Packet("error", p.client, port, 0)
    <3>1. /\ Packet("error", p.client, port, 0) \in Packets
          /\ Packet("error", p.client, port, 0).kind = "error"
          /\ Packet("error", p.client, port, 0).client = p.client
          /\ Packet("error", p.client, port, 0).server = port
          /\ Packet("error", p.client, port, 0).block = 0
      BY ONLY <2>1, <2>2, PacketFacts
    <3> QED  BY ONLY <2>4, <3>1
  <2>5. \/ b = 1 /\ q = Packet("data", p.client, port, 1)
        \/ b = Closed /\ q = Packet("error", p.client, port, 0)
    BY DEF port
  <2> QED  BY ONLY <2>3, <2>4, <2>5
<1> HIDE DEF s
<1>4. /\ UNCHANGED <<mem, loop, NetState, packetHandler, timeHandler, tftp, NetBootFileXferSize>>
      /\ s.client = p.client /\ s.block = b
  BY DEF handlers, s
<1>5. \A i \in 1..Len(session') : i \in 1..Len(session) \/ i = port
  BY <1>1, <1>2
<1>6. 1..Len(session) \subseteq 1..port /\ port \in 1..port /\ port \notin 1..Len(session)
  BY <1>1
<1> HIDE DEF port
<1>7. NetTyped'
  BY <1>2, <1>3, <1>4 DEF NetInv, NetTyped
<1>8. Idle' /\ Handlers' /\ Succeeded' /\ Stored'
  BY <1>4 DEF NetInv, Idle, Handlers, Succeeded, Stored
<1>9. Sessions'
  <2>1. b \in 1..Closed /\ (1 \in 1..Blocks)
    BY <1>1
  <2>2. \A i \in 1..Len(session') : session'[i].client <= tftp.ours /\ session'[i].block \in 1..Closed
    BY <1>1, <1>2, <1>4, <1>5, <2>1 DEF NetInv, Sessions
  <2>3. \A r \in wire' : r.client <= tftp.ours
    BY <1>1, <1>3 DEF NetInv, Sessions
  <2>4. \A r \in wire' : r.kind \in {"data", "ack"} =>
          r.server \in 1..Len(session') /\ r.client = session'[r.server].client
    BY <1>2, <1>3, <1>4, <1>6 DEF NetInv, Sessions
  <2>5. \A r \in wire' : r.kind = "data" => r.block \in 1..Blocks
    BY <1>3, <2>1 DEF NetInv, Sessions
  <2> QED  BY <1>4, <2>2, <2>3, <2>4, <2>5 DEF Sessions, Closed
<1>10. Asking'
  <2>1. SUFFICES ASSUME packetHandler = "tftp", tftp.state = "rrq"  PROVE Asking'
    BY <1>4 DEF Asking
  <2>2. \A i \in 1..Len(session') : session'[i].client = tftp.ours => session'[i].block \in {1, Closed}
    BY <1>2, <1>4, <1>5, <2>1 DEF NetInv, Asking
  <2>3. \A r \in wire' : r.client = tftp.ours =>
          /\ r.kind # "ack"
          /\ r.kind = "data" => r.block = 1 /\ session'[r.server].block = 1
    BY <1>2, <1>3, <1>4, <2>1, SMTT(30) DEF NetInv, Asking, Sessions
  <2>4. NetBootFileXferSize = 0
    BY <2>1 DEF NetInv, Asking
  <2> QED  BY <1>4, <2>2, <2>3, <2>4 DEF Asking, Closed
<1>11. Transferring'
  <2>1. SUFFICES ASSUME packetHandler = "tftp", tftp.state = "data"  PROVE Transferring'
    BY <1>4 DEF Transferring
  <2>2. tftp.server \in 1..Len(session) /\ session'[tftp.server] = session[tftp.server]
    BY <1>2, <2>1 DEF NetInv, Transferring
  <2>3. tftp.server # port /\ tftp.server \in 1..Len(session')
    BY <1>2, <1>6, <2>2
  <2> QED  BY <1>3, <1>4, <2>1, <2>2, <2>3 DEF NetInv, Transferring
<1> QED  BY <1>7, <1>8, <1>9, <1>10, <1>11 DEF NetInv

\* A session goes on to its next block, for an acknowledgement of the one it is at.
LEMMA NextServed ==
  ASSUME NetInv, loop # "off", UNCHANGED <<mem, loop, NetState, handlers, tftp, NetBootFileXferSize>>,
         NEW p \in wire, p.kind = "ack", Served(p)
  PROVE  NetInv'
<1> DEFINE s == session[p.server]
           next == p.block + 1
           q == Packet("data", s.client, p.server, next)
<1>1. UNCHANGED <<mem, loop, NetState, packetHandler, timeHandler, tftp, NetBootFileXferSize>>
  BY DEF handlers
<1>2. CASE wire' = wire \ {p} /\ session' = session
  <2>1. loop' \in {"receive", "timeout", "switch"} /\ wire' \subseteq wire
    BY <1>1, <1>2 DEF NetInv, NetTyped
  <2>2. /\ mem' = mem /\ tftp' = tftp /\ packetHandler' = packetHandler /\ session' = session
        /\ NetBootFileXferSize' = NetBootFileXferSize /\ timeHandler' = timeHandler
        /\ NetState' = NetState
    BY <1>1, <1>2
  <2> QED  BY ONLY NetInv, loop # "off", <2>1, <2>2, NetIgnores
<1>3. CASE ~(wire' = wire \ {p} /\ session' = session)
  <2>1. /\ s.block # Closed /\ p.block \in {s.block, s.block - 1}
        /\ session' = [session EXCEPT ![p.server].block = next]
        /\ wire' \subseteq (wire \ {p}) \cup (IF next = Closed THEN {} ELSE {q})
    BY <1>3 DEF Served
  <2>2. /\ p.server \in 1..Len(session) /\ p.client = s.client /\ s.client <= tftp.ours
        /\ s.block \in 1..Closed /\ p.block \in Nat /\ p.server \in Nat
        /\ session \in Seq([client : Nat, block : Nat])
        /\ Closed = Blocks + 1 /\ Blocks \in Nat
    BY NetAssumptions DEF NetInv, NetTyped, Sessions, Packets
  <2>3. s \in [client : Nat, block : Nat]
    BY <2>2, ElementOfSeq
  <2>4. next \in 1..Closed /\ next \in Nat /\ (next # Closed => next \in 1..Blocks)
    <3>1. p.block <= s.block /\ s.block <= Blocks
      <4>1. s.block # Closed /\ (p.block = s.block \/ p.block = s.block - 1)
        BY <2>1
      <4> HIDE DEF s
      <4> QED  BY ONLY <2>2, <4>1
    <3> QED  BY ONLY <2>2, <3>1, SMTT(30)
  <2>5. /\ session' \in Seq([client : Nat, block : Nat]) /\ Len(session') = Len(session)
        /\ \A i \in 1..Len(session) : i # p.server => session'[i] = session[i]
        /\ session'[p.server].client = s.client /\ session'[p.server].block = next
    <3>1. [s EXCEPT !.block = next] \in [client : Nat, block : Nat]
          /\ [s EXCEPT !.block = next].client = s.client /\ [s EXCEPT !.block = next].block = next
      BY <2>3, <2>4
    <3>2. session' = [session EXCEPT ![p.server] = [s EXCEPT !.block = next]]
      BY <2>1
    <3> QED  BY <2>2, <3>1, <3>2, ExceptSeq
  <2>6. /\ q \in Packets /\ q.kind = "data" /\ q.client = s.client /\ q.server = p.server
        /\ q.block = next
    <3>1. "data" \in PacketKinds /\ s.client \in Nat
      BY <2>3 DEF PacketKinds
    <3> HIDE DEF next, s
    <3>2. next \in Nat /\ p.server \in Nat
      BY <2>2, <2>4
    <3> QED  BY ONLY <3>1, <3>2, PacketFacts
  <2> HIDE DEF q, next, s
  <2>7. NetTyped'
    BY <1>1, <2>1, <2>5, <2>6 DEF NetInv, NetTyped
  <2>8. Idle' /\ Handlers' /\ Succeeded' /\ Stored'
    BY <1>1 DEF NetInv, Idle, Handlers, Succeeded, Stored
  <2>9. \A i \in 1..Len(session) : session'[i].client = session[i].client
    BY <2>5 DEF s
  <2>10. Sessions'
    <3>1. \A i \in 1..Len(session') : session'[i].client <= tftp.ours /\ session'[i].block \in 1..Closed
      <4>1. \A i \in 1..Len(session) : session[i].client <= tftp.ours /\ session[i].block \in 1..Closed
        BY DEF NetInv, Sessions
      <4> QED  BY <2>2, <2>4, <2>5, <4>1
    <3>2. \A r \in wire' : r.client <= tftp.ours
      BY <2>1, <2>2, <2>6 DEF NetInv, Sessions
    <3>3. \A r \in wire' : r.kind \in {"data", "ack"} =>
            r.server \in 1..Len(session') /\ r.client = session'[r.server].client
      BY <2>1, <2>2, <2>5, <2>6, <2>9 DEF NetInv, Sessions
    <3>4. \A r \in wire' : r.kind = "data" => r.block \in 1..Blocks
      BY <2>1, <2>4, <2>6 DEF NetInv, Sessions
    <3> QED  BY <1>1, <3>1, <3>2, <3>3, <3>4 DEF Sessions, Closed
  <2>11. Asking'
    <3>1. SUFFICES ASSUME packetHandler = "tftp", tftp.state = "rrq"  PROVE Asking'
      BY <1>1 DEF Asking
    <3>2. s.client # tftp.ours /\ NetBootFileXferSize = 0
      BY <2>2, <3>1 DEF NetInv, Asking
    <3>3. \A i \in 1..Len(session') : session'[i].client = tftp.ours => session'[i].block \in {1, Closed}
      BY <2>5, <3>1, <3>2 DEF NetInv, Asking
    <3>4. \A r \in wire' : r.client = tftp.ours => r \in wire
      BY <2>1, <2>6, <3>2
    <3>5. \A r \in wire : r.kind = "data" =>
            r.server \in 1..Len(session) /\ r.client = session[r.server].client
      BY DEF NetInv, Sessions
    <3>6. \A r \in wire' : r.client = tftp.ours =>
            /\ r.kind # "ack"
            /\ r.kind = "data" => r.block = 1 /\ session'[r.server].block = 1
      BY <2>5, <3>1, <3>2, <3>4, <3>5 DEF NetInv, Asking, s
    <3> QED  BY <1>1, <3>2, <3>3, <3>6 DEF Asking, Closed
  <2>12. Transferring'
    <3>1. SUFFICES ASSUME packetHandler = "tftp", tftp.state = "data"  PROVE Transferring'
      BY <1>1 DEF Transferring
    <3>2. /\ tftp.server \in 1..Len(session) /\ session[tftp.server].client = tftp.ours
          /\ session[tftp.server].block <= NetBootFileXferSize + 1
          /\ tftp.block \in 1..NetBootFileXferSize /\ tftp.last \in 1..NetBootFileXferSize
          /\ NetBootFileXferSize \in Nat
      BY <3>1, NetAssumptions DEF NetInv, NetTyped, Transferring
    <3>3. p.server = tftp.server => next <= NetBootFileXferSize + 1
      <4>1. p.server = tftp.server => p.block <= NetBootFileXferSize
        BY <2>2, <3>1, <3>2 DEF NetInv, Transferring, s
      <4> QED  BY <2>2, <3>2, <4>1 DEF next
    <3>4. session'[tftp.server].block <= NetBootFileXferSize + 1
      BY <2>5, <3>2, <3>3
    <3>5. \A r \in wire' : r.client = tftp.ours /\ r.server = tftp.server =>
            /\ r.kind = "data" => r.block <= NetBootFileXferSize + 1
            /\ r.kind = "ack" => r.block <= NetBootFileXferSize
      BY <2>1, <2>6, <3>1, <3>3 DEF NetInv, Transferring
    <3> QED  BY <1>1, <2>5, <2>9, <3>2, <3>4, <3>5 DEF Transferring
  <2> QED  BY <2>7, <2>8, <2>10, <2>11, <2>12 DEF NetInv
<1> QED  BY <1>2, <1>3

\* A packet appears that changes nothing: an ARP reply, or a session's block again.
LEMMA PacketAppears ==
  ASSUME NetInv, loop # "off", NEW rest, rest \subseteq wire, NEW q \in Packets, wire' = rest \cup {q},
         UNCHANGED <<mem, loop, NetState, handlers, tftp, NetBootFileXferSize, session>>,
         \/ q.kind = "arp_reply" /\ q.client = 0
         \/ /\ q.kind = "data" /\ q.server \in 1..Len(session) /\ q.client = session[q.server].client
            /\ q.block = session[q.server].block /\ q.block # Closed
  PROVE  NetInv'
<1>1. UNCHANGED <<mem, loop, NetState, packetHandler, timeHandler, tftp, NetBootFileXferSize, session>>
  BY DEF handlers
<1>2. NetTyped'
  BY <1>1 DEF NetInv, NetTyped
<1>3. Idle' /\ Handlers' /\ Succeeded' /\ Stored'
  BY <1>1 DEF NetInv, Idle, Handlers, Succeeded, Stored
<1>4. Sessions'
  <2>1. tftp.ours \in Nat /\ Closed = Blocks + 1 /\ Blocks \in Nat
    BY NetAssumptions DEF NetInv, NetTyped
  <2>2. q.client <= tftp.ours /\ (q.kind = "data" => q.block \in 1..Blocks)
    BY <2>1 DEF NetInv, Sessions
  <2> QED  BY <1>1, <2>2 DEF NetInv, Sessions
<1>5. Asking'
  BY <1>1 DEF NetInv, Asking
<1>6. Transferring'
  BY <1>1 DEF NetInv, Transferring
<1> QED  BY <1>2, <1>3, <1>4, <1>5, <1>6 DEF NetInv

LEMMA NextServerOrTrouble ==
  ASSUME NetInv, Server \/ Trouble
  PROVE  NetInv'
<1>1. UNCHANGED <<mem, loop, NetState, handlers, tftp, NetBootFileXferSize>>
  BY DEF Server, Trouble
<1>2. loop # "off"
  <2>1. SUFFICES ASSUME loop = "off"  PROVE FALSE
    OBVIOUS
  <2>2. wire = {} /\ session = <<>>
    BY <2>1 DEF NetInv, Idle
  <2>3. Len(session) = 0
    BY <2>2
  <2> QED  BY <2>2, <2>3 DEF Server, Trouble, Inbound
<1>3. CASE Server
  <2>1. PICK p \in wire \ Inbound :
       CASE p.kind = "arp_request" ->
              wire' = (wire \ {p}) \cup {ArpReply} /\ UNCHANGED <<session, faults>>
         [] p.kind = "rrq" ->
              LET port == Len(session) + 1 IN
              \/ /\ session' = Append(session, [client |-> p.client, block |-> 1])
                 /\ wire' = (wire \ {p}) \cup {Packet("data", p.client, port, 1)}
                 /\ UNCHANGED faults
              \/ /\ session' = Append(session, [client |-> p.client, block |-> Closed])
                 /\ wire' = (wire \ {p}) \cup {Packet("error", p.client, port, 0)}
                 /\ Upset
         [] p.kind = "ack" -> Served(p) /\ UNCHANGED faults
    BY <1>3 DEF Server
  <2>2. p.kind \in {"arp_request", "rrq", "ack"}
    BY <2>1 DEF NetInv, NetTyped, Packets, PacketKinds, Inbound
  <2>3. CASE p.kind = "arp_request"
    <3>1. wire' = (wire \ {p}) \cup {ArpReply} /\ session' = session
      BY <2>1, <2>3
    <3>2. ArpReply \in Packets /\ ArpReply.kind = "arp_reply" /\ ArpReply.client = 0
      BY PacketFacts DEF ArpReply, PacketKinds
    <3> QED  BY <1>1, <1>2, <3>1, <3>2, PacketAppears
  <2>4. CASE p.kind = "rrq"
    <3>1. \/ /\ session' = Append(session, [client |-> p.client, block |-> 1])
             /\ wire' = (wire \ {p}) \cup {Packet("data", p.client, Len(session) + 1, 1)}
          \/ /\ session' = Append(session, [client |-> p.client, block |-> Closed])
             /\ wire' = (wire \ {p}) \cup {Packet("error", p.client, Len(session) + 1, 0)}
      BY <2>1, <2>4
    <3>2. CASE /\ session' = Append(session, [client |-> p.client, block |-> 1])
               /\ wire' = (wire \ {p}) \cup {Packet("data", p.client, Len(session) + 1, 1)}
      <4> DEFINE q == Packet("data", p.client, Len(session) + 1, 1)
      <4>1. q = Packet("data", p.client, Len(session) + 1, 1) /\ wire' = (wire \ {p}) \cup {q}
        BY <3>2
      <4> HIDE DEF q
      <4> QED  BY <1>1, <1>2, <2>1, <2>4, <3>2, <4>1, SessionOpened
    <3>3. CASE /\ session' = Append(session, [client |-> p.client, block |-> Closed])
               /\ wire' = (wire \ {p}) \cup {Packet("error", p.client, Len(session) + 1, 0)}
      <4> DEFINE q == Packet("error", p.client, Len(session) + 1, 0)
      <4>1. q = Packet("error", p.client, Len(session) + 1, 0) /\ wire' = (wire \ {p}) \cup {q}
        BY <3>3
      <4> HIDE DEF q
      <4> QED  BY <1>1, <1>2, <2>1, <2>4, <3>3, <4>1, SessionOpened
    <3> QED  BY <3>1, <3>2, <3>3
  <2>5. CASE p.kind = "ack"
    BY <1>1, <1>2, <2>1, <2>5, NextServed
  <2> QED  BY <2>2, <2>3, <2>4, <2>5
<1>4. CASE Trouble
  <2>1. CASE \E p \in wire : wire' = wire \ {p}
    <3>1. session' = session /\ wire' \subseteq wire
      BY <1>4, <2>1 DEF Trouble
    <3>2. loop \in {"receive", "timeout", "switch"}
      BY <1>2 DEF NetInv, NetTyped
    <3> QED  BY <1>1, <1>2, <3>1, <3>2, NetIgnores DEF handlers
  <2>2. CASE \E i \in 1..Len(session) :
               /\ session[i].block # Closed
               /\ wire' = wire \cup {Packet("data", session[i].client, i, session[i].block)}
    <3>1. PICK i \in 1..Len(session) :
               /\ session[i].block # Closed
               /\ wire' = wire \cup {Packet("data", session[i].client, i, session[i].block)}
      BY <2>2
    <3>2. session \in Seq([client : Nat, block : Nat]) /\ session' = session
      BY <1>4 DEF NetInv, NetTyped, Trouble
    <3>3. session[i] \in [client : Nat, block : Nat] /\ i \in Nat /\ "data" \in PacketKinds
      <4>1. session[i] \in [client : Nat, block : Nat]
        BY ONLY <3>2, ElementOfSeq
      <4> QED  BY <4>1 DEF PacketKinds
    <3> DEFINE q == Packet("data", session[i].client, i, session[i].block)
    <3>4. /\ q \in Packets /\ q.kind = "data" /\ q.server = i /\ q.client = session[i].client
          /\ q.block = session[i].block
      BY <3>3, PacketFacts
    <3> HIDE DEF q
    <3>5. wire' = wire \cup {q}
      BY <3>1 DEF q
    <3> QED  BY <1>1, <1>2, <3>1, <3>2, <3>4, <3>5, PacketAppears
  <2> QED  BY <1>4, <2>1, <2>2 DEF Trouble
<1> QED  BY <1>3, <1>4

LEMMA NextNet ==
  ASSUME NetInv, Stages, Shape, ~PortsReused, Net
  PROVE  NetInv'
<1>1. CASE NetStart
  BY <1>1, NextNetStart
<1>2. CASE ReceivedAll
  BY <1>2, NextReceivedAll
<1>3. CASE CheckTimeout
  BY <1>3, NextCheckTimeout
<1>4. CASE SwitchState
  BY <1>4, NextSwitchState DEF Stages
<1>5. CASE Arrive
  BY <1>5, NextArrive
<1>6. CASE UserAbort
  BY <1>6, NetHalt DEF UserAbort
<1>7. CASE Server \/ Trouble
  BY <1>7, NextServerOrTrouble
<1> QED  BY <1>1, <1>2, <1>3, <1>4, <1>5, <1>6, <1>7 DEF Net, NetStep, NetLoopStep
-----------------------------------------------------------------------------
(* The serial line: the script of an upload *)

SectionNames == {"kernel", "cmdline", "initrd", "jump"}

LEMMA FrameCounts ==
  /\ Size \in Nat /\ KernelFrames \in 1..Size /\ InitrdFrames \in 1..Size
  /\ KernelFrames \in Nat /\ InitrdFrames \in Nat /\ 1 \in 1..Size
BY SizeAssumption, FramesAssumption

LEMMA LoadFacts ==
  ASSUME NEW region, NEW n \in Nat
  PROVE  /\ Len(Load(region, n)) = n
         /\ \A i \in 1..n : Load(region, n)[i] = Frame("LOAD", region, i)
         /\ \A S : (\A i \in 1..n : Frame("LOAD", region, i) \in S) => Load(region, n) \in Seq(S)
<1>1. DOMAIN Load(region, n) = 1..n /\ \A i \in 1..n : Load(region, n)[i] = Frame("LOAD", region, i)
  BY DEF Load
<1>2. ASSUME NEW S, \A i \in 1..n : Frame("LOAD", region, i) \in S
      PROVE  Load(region, n) \in Seq(S) /\ Len(Load(region, n)) = n
  <2>1. Load(region, n) \in [1..n -> S]
    BY <1>2 DEF Load
  <2> QED  BY <2>1
<1>3. Len(Load(region, n)) = n
  <2> DEFINE T == {Frame("LOAD", region, i) : i \in 1..n}
  <2>1. \A i \in 1..n : Frame("LOAD", region, i) \in T
    OBVIOUS
  <2> HIDE DEF T
  <2> QED  BY <1>2, <2>1
<1> QED  BY <1>1, <1>2, <1>3

LEMMA ScriptFacts ==
  /\ Len(Script["kernel"]) = KernelFrames
  /\ \A i \in 1..KernelFrames : Script["kernel"][i] = Frame("LOAD", "kernel", i)
  /\ Len(Script["cmdline"]) = 2
  /\ Script["cmdline"][1] = Frame("LOAD", "cmdline", 1)
  /\ Script["cmdline"][2] = Frame("CMDLINE", "cmdline", 1)
  /\ Len(Script["initrd"]) = InitrdFrames + 2
  /\ \A i \in 1..InitrdFrames : Script["initrd"][i] = Frame("LOAD", "initrd", i)
  /\ Script["initrd"][InitrdFrames + 1] = Frame("INITRDSTART", "initrd", 1)
  /\ Script["initrd"][InitrdFrames + 2] = Frame("INITRDEND", "initrd", InitrdFrames)
  /\ Len(Script["jump"]) = 1
  /\ Script["jump"][1] = Frame("JUMP", "kernel", 1)
<1> DEFINE S == {Frame(c, r, i) : c \in {"LOAD", "CMDLINE", "INITRDSTART", "INITRDEND", "JUMP"},
                                  r \in Regions, i \in Nat}
<1>1. \A c \in {"LOAD", "CMDLINE", "INITRDSTART", "INITRDEND", "JUMP"}, r \in Regions, i \in Nat :
        Frame(c, r, i) \in S
  OBVIOUS
<1> HIDE DEF S
<1>2. Script["kernel"] = Load("kernel", KernelFrames)
  BY DEF Script
<1>3. Script["cmdline"] = Load("cmdline", 1) \o <<Frame("CMDLINE", "cmdline", 1)>>
  BY DEF Script
<1>4. Script["initrd"] = Load("initrd", InitrdFrames) \o
                         <<Frame("INITRDSTART", "initrd", 1), Frame("INITRDEND", "initrd", InitrdFrames)>>
  BY DEF Script
<1>5. Script["jump"] = <<Frame("JUMP", "kernel", 1)>>
  BY DEF Script
<1>6. /\ Len(Script["kernel"]) = KernelFrames
      /\ \A i \in 1..KernelFrames : Script["kernel"][i] = Frame("LOAD", "kernel", i)
  BY <1>2, FrameCounts, LoadFacts
<1>7. /\ Len(Script["cmdline"]) = 2
      /\ Script["cmdline"][1] = Frame("LOAD", "cmdline", 1)
      /\ Script["cmdline"][2] = Frame("CMDLINE", "cmdline", 1)
  <2>1. /\ Load("cmdline", 1) \in Seq(S) /\ Len(Load("cmdline", 1)) = 1
        /\ Load("cmdline", 1)[1] = Frame("LOAD", "cmdline", 1)
    <3>1. 1 \in Nat /\ 1 \in 1..1 /\ \A i \in 1..1 : Frame("LOAD", "cmdline", i) \in S
      BY <1>1 DEF Regions
    <3> QED  BY ONLY <3>1, LoadFacts
  <2> DEFINE b == <<Frame("CMDLINE", "cmdline", 1)>>
  <2>2. b \in Seq(S) /\ Len(b) = 1 /\ b[1] = Frame("CMDLINE", "cmdline", 1)
    BY <1>1 DEF Regions
  <2> HIDE DEF b
  <2>3. Script["cmdline"] = Load("cmdline", 1) \o b
    BY <1>3 DEF b
  <2> QED  BY <2>1, <2>2, <2>3, ConcatProperties
<1>8. /\ Len(Script["initrd"]) = InitrdFrames + 2
      /\ \A i \in 1..InitrdFrames : Script["initrd"][i] = Frame("LOAD", "initrd", i)
      /\ Script["initrd"][InitrdFrames + 1] = Frame("INITRDSTART", "initrd", 1)
      /\ Script["initrd"][InitrdFrames + 2] = Frame("INITRDEND", "initrd", InitrdFrames)
  <2> DEFINE a == Load("initrd", InitrdFrames)
             b == <<Frame("INITRDSTART", "initrd", 1), Frame("INITRDEND", "initrd", InitrdFrames)>>
  <2>1. /\ a \in Seq(S) /\ Len(a) = InitrdFrames
        /\ \A i \in 1..InitrdFrames : a[i] = Frame("LOAD", "initrd", i)
    BY <1>1, FrameCounts, LoadFacts DEF Regions
  <2>2. /\ b \in Seq(S) /\ Len(b) = 2 /\ b[1] = Frame("INITRDSTART", "initrd", 1)
        /\ b[2] = Frame("INITRDEND", "initrd", InitrdFrames)
    BY <1>1, FrameCounts DEF Regions
  <2> HIDE DEF a, b
  <2>3. Script["initrd"] = a \o b
    BY <1>4 DEF a, b
  <2>4. /\ Len(a \o b) = InitrdFrames + 2
        /\ \A i \in 1..(InitrdFrames + 2) :
             (a \o b)[i] = IF i <= InitrdFrames THEN a[i] ELSE b[i - InitrdFrames]
    <3>1. Len(a \o b) = Len(a) + Len(b)
          /\ \A i \in 1..(Len(a) + Len(b)) : (a \o b)[i] = IF i <= Len(a) THEN a[i] ELSE b[i - Len(a)]
      BY ONLY <2>1, <2>2, ConcatProperties
    <3> QED  BY ONLY <2>1, <2>2, <3>1
  <2>5. \A i \in 1..InitrdFrames : (a \o b)[i] = a[i]
    BY <2>4, FrameCounts
  <2>6. (a \o b)[InitrdFrames + 1] = b[1] /\ (a \o b)[InitrdFrames + 2] = b[2]
    <3>1. /\ InitrdFrames + 1 \in 1..(InitrdFrames + 2) /\ InitrdFrames + 2 \in 1..(InitrdFrames + 2)
          /\ ~(InitrdFrames + 1 <= InitrdFrames) /\ ~(InitrdFrames + 2 <= InitrdFrames)
          /\ (InitrdFrames + 1) - InitrdFrames = 1 /\ (InitrdFrames + 2) - InitrdFrames = 2
      BY FrameCounts
    <3>2. (a \o b)[InitrdFrames + 1] = b[(InitrdFrames + 1) - InitrdFrames]
          /\ (a \o b)[InitrdFrames + 2] = b[(InitrdFrames + 2) - InitrdFrames]
      BY ONLY <2>4, <3>1
    <3> QED  BY ONLY <3>1, <3>2
  <2> QED  BY <2>1, <2>2, <2>3, <2>4, <2>5, <2>6
<1>9. Len(Script["jump"]) = 1 /\ Script["jump"][1] = Frame("JUMP", "kernel", 1)
  BY <1>5
<1> QED  BY <1>6, <1>7, <1>8, <1>9

\* What flterm sends is a frame, and stays one when it is damaged.
LEMMA ScriptFrames ==
  ASSUME NEW h, AtFrame(h)
  PROVE  /\ Script[h.section][h.pos] \in Frames /\ h.pos \in Nat /\ h.section \in SectionNames
         /\ Script[h.section][h.pos].good = TRUE /\ Script[h.section][h.pos].cmd # "ACK"
<1> DEFINE Sent == {f \in Frames : f.good = TRUE /\ f.cmd # "ACK"}
           f == Script[h.section][h.pos]
<1>1. h.section \in SectionNames /\ h.pos \in 1..Len(Script[h.section])
  BY DEF AtFrame, SectionNames
<1>2. \A c \in {"LOAD", "CMDLINE", "INITRDSTART", "INITRDEND", "JUMP"}, r \in Regions, i \in 1..Size :
        Frame(c, r, i) \in Sent
  BY FrameCounts DEF Frame, Frames
<1> SUFFICES f \in Sent /\ h.pos \in Nat
  BY <1>1
<1> HIDE DEF Sent, f
<1>3. /\ \A i \in 1..Size : Frame("LOAD", "kernel", i) \in Sent /\ Frame("LOAD", "initrd", i) \in Sent
      /\ Frame("LOAD", "cmdline", 1) \in Sent /\ Frame("CMDLINE", "cmdline", 1) \in Sent
      /\ Frame("INITRDSTART", "initrd", 1) \in Sent
      /\ Frame("INITRDEND", "initrd", InitrdFrames) \in Sent /\ Frame("JUMP", "kernel", 1) \in Sent
  BY <1>2, FrameCounts DEF Regions
<1>4. CASE h.section = "kernel"
  <2>1. h.pos \in 1..KernelFrames /\ h.pos \in 1..Size /\ h.pos \in Nat
    BY <1>1, <1>4, ScriptFacts, FrameCounts
  <2>2. f = Frame("LOAD", "kernel", h.pos)
    BY <1>4, <2>1, ScriptFacts DEF f
  <2> QED  BY ONLY <1>3, <2>1, <2>2
<1>5. CASE h.section = "cmdline"
  <2>1. h.pos \in Nat /\ (h.pos = 1 \/ h.pos = 2)
    BY <1>1, <1>5, ScriptFacts
  <2>2. f = Frame("LOAD", "cmdline", 1) \/ f = Frame("CMDLINE", "cmdline", 1)
    BY <1>5, <2>1, ScriptFacts DEF f
  <2> QED  BY ONLY <1>3, <2>1, <2>2
<1>6. CASE h.section = "initrd"
  <2>1. h.pos \in Nat
    BY <1>1, <1>6, ScriptFacts, FrameCounts
  <2>2. h.pos \in 1..InitrdFrames \/ h.pos = InitrdFrames + 1 \/ h.pos = InitrdFrames + 2
    BY <1>1, <1>6, ScriptFacts, FrameCounts
  <2>3. CASE h.pos \in 1..InitrdFrames
    <3>1. f = Frame("LOAD", "initrd", h.pos) /\ h.pos \in 1..Size
      BY <1>6, <2>3, ScriptFacts, FrameCounts DEF f
    <3> QED  BY ONLY <1>3, <2>1, <3>1
  <2>4. CASE h.pos = InitrdFrames + 1 \/ h.pos = InitrdFrames + 2
    <3>1. f = Frame("INITRDSTART", "initrd", 1) \/ f = Frame("INITRDEND", "initrd", InitrdFrames)
      BY <1>6, <2>4, ScriptFacts DEF f
    <3> QED  BY ONLY <1>3, <2>1, <3>1
  <2> QED  BY <2>2, <2>3, <2>4
<1>7. CASE h.section = "jump"
  <2>1. h.pos = 1
    BY <1>1, <1>7, ScriptFacts
  <2>2. f = Frame("JUMP", "kernel", 1)
    BY <1>7, <2>1, ScriptFacts DEF f
  <2> QED  BY ONLY <1>3, <2>1, <2>2
<1> QED  BY <1>1, <1>4, <1>5, <1>6, <1>7 DEF SectionNames

LEMMA FirstOf ==
  ASSUME NEW S \in SUBSET Nat, NEW k \in S, \A j \in S : k <= j
  PROVE  (CHOOSE i \in S : \A j \in S : i <= j) = k
<1>1. \A i \in S : (\A j \in S : i <= j) => i = k
  <2>1. SUFFICES ASSUME NEW i \in S, \A j \in S : i <= j  PROVE i = k
    OBVIOUS
  <2>2. i <= k /\ k <= i /\ i \in Nat /\ k \in Nat
    BY <2>1
  <2> QED  BY <2>2
<1> QED  BY <1>1

\* The section that is sent next.
NextOf(sec) ==
  IF sec = "kernel" /\ "cmdline" \in files THEN "cmdline"
  ELSE IF sec \in {"kernel", "cmdline"} /\ "initrd" \in files THEN "initrd" ELSE "jump"

LEMMA NextSectionFacts ==
  ASSUME host.section \in SectionNames, files \in SUBSET Regions
  PROVE  NextSection = IF host.section = "jump" THEN Terminal
                       ELSE [does |-> "send", section |-> NextOf(host.section), pos |-> 1]
<1> DEFINE here == CHOOSE j \in 1..4 : Sections[j] = host.section
           later == {i \in 1..4 : i > here /\ Sections[i] \in files \cup {"jump"}}
<1>1. /\ Sections[1] = "kernel" /\ Sections[2] = "cmdline" /\ Sections[3] = "initrd"
      /\ Sections[4] = "jump" /\ \A j \in 1..4 : j = 1 \/ j = 2 \/ j = 3 \/ j = 4
  BY DEF Sections
<1>2. /\ host.section = "kernel" => here = 1
      /\ host.section = "cmdline" => here = 2
      /\ host.section = "initrd" => here = 3
      /\ host.section = "jump" => here = 4
  <2>1. here \in 1..4 /\ Sections[here] = host.section
    <3>1. \E j \in 1..4 : Sections[j] = host.section
      BY <1>1 DEF SectionNames
    <3> QED  BY <3>1
  <2> HIDE DEF here
  <2> QED  BY <1>1, <2>1
<1>3. NextSection = IF later = {} THEN Terminal
                    ELSE [does |-> "send",
                          section |-> Sections[CHOOSE i \in later : \A j \in later : i <= j], pos |-> 1]
  BY DEF NextSection
<1> HIDE DEF here
<1>4. later \in SUBSET Nat /\ \A j \in later : j = 1 \/ j = 2 \/ j = 3 \/ j = 4
  BY <1>1
<1>5. ASSUME NEW k \in later, \A j \in later : k <= j, Sections[k] = NextOf(host.section), host.section # "jump"
      PROVE  NextSection = [does |-> "send", section |-> NextOf(host.section), pos |-> 1]
  <2>1. later # {}
    BY <1>5
  <2> HIDE DEF later
  <2>2. (CHOOSE i \in later : \A j \in later : i <= j) = k
    BY ONLY <1>4, <1>5, FirstOf
  <2> QED  BY <1>3, <1>5, <2>1, <2>2
<1>6. CASE host.section = "jump"
  <2>1. later = {}
    BY <1>1, <1>2, <1>6
  <2> QED  BY <1>3, <1>6, <2>1
<1>7. CASE NextOf(host.section) = "cmdline"
  <2>1. host.section = "kernel" /\ "cmdline" \in files
    BY <1>7 DEF NextOf
  <2>2. 2 \in later /\ \A j \in later : 2 <= j
    BY <1>1, <1>2, <2>1
  <2> QED  BY <1>1, <1>5, <1>7, <2>1, <2>2
<1>8. CASE host.section # "jump" /\ NextOf(host.section) = "initrd"
  <2>1. "initrd" \in files /\ (host.section = "cmdline" \/ (host.section = "kernel" /\ "cmdline" \notin files))
    BY <1>8 DEF NextOf
  <2>2. 3 \in later /\ \A j \in later : 3 <= j
    BY <1>1, <1>2, <2>1
  <2> QED  BY <1>1, <1>5, <1>8, <2>2
<1>9. CASE host.section # "jump" /\ NextOf(host.section) = "jump"
  <2>1. \/ host.section = "initrd"
        \/ host.section = "cmdline" /\ "initrd" \notin files
        \/ host.section = "kernel" /\ "cmdline" \notin files /\ "initrd" \notin files
    BY <1>9 DEF NextOf, SectionNames
  <2>2. 4 \in later /\ \A j \in later : 4 <= j
    BY <1>1, <1>2, <2>1
  <2> QED  BY <1>1, <1>5, <1>9, <2>2
<1> QED  BY <1>6, <1>7, <1>8, <1>9 DEF NextOf
-----------------------------------------------------------------------------
(* The serial line: what is on it has its type *)

LEMMA Lines ==
  ASSUME NEW S, NEW s \in Seq(S)
  PROVE  /\ Len(s) \in Nat /\ (s = <<>> <=> Len(s) = 0)
         /\ s # <<>> => Head(s) = s[1] /\ Head(s) \in S /\ Tail(s) \in Seq(S)
                        /\ Len(Tail(s)) = Len(s) - 1
                        /\ \A i \in 1..(Len(s) - 1) : Tail(s)[i] = s[i + 1]
         /\ \A e \in S : /\ Append(s, e) \in Seq(S) /\ Len(Append(s, e)) = Len(s) + 1
                         /\ Append(s, e)[Len(s) + 1] = e
                         /\ \A i \in 1..Len(s) : Append(s, e)[i] = s[i]
<1>1. Len(s) \in Nat /\ (s = <<>> <=> Len(s) = 0)
  BY EmptySeq
<1>2. s # <<>> => Head(s) = s[1] /\ Head(s) \in S /\ Tail(s) \in Seq(S)
                        /\ Len(Tail(s)) = Len(s) - 1
                        /\ \A i \in 1..(Len(s) - 1) : Tail(s)[i] = s[i + 1]
  BY HeadTailProperties
<1>3. \A e \in S : /\ Append(s, e) \in Seq(S) /\ Len(Append(s, e)) = Len(s) + 1
                   /\ Append(s, e)[Len(s) + 1] = e
                   /\ \A i \in 1..Len(s) : Append(s, e)[i] = s[i]
  BY AppendProperties
<1> QED  BY <1>1, <1>2, <1>3

LEMMA DamagedFrame ==
  ASSUME NEW f \in Frames
  PROVE  LET g == [f EXCEPT !.good = FALSE] IN g \in Frames /\ \A h : Same(f, h) => Same(g, h)
BY DEF Frames, Same

LEMMA ReplyTyped ==
  ASSUME SflTyped, host.does = "reply", host' \in {Confirmed, Aborted, [host EXCEPT !.does = "send"]},
         files' = files
  PROVE  HostTyped'
<1>1. /\ host \in Hosts /\ AtFrame(host) /\ "kernel" \in files /\ host.section \in files \cup {"jump"}
      /\ files \in SUBSET Regions
  BY DEF SflTyped, HostTyped
<1>2. host.pos \in Nat /\ host.section \in SectionNames
  BY <1>1, ScriptFrames
<1>3. Terminal \in Hosts /\ Terminal.does = "terminal"
  BY DEF Terminal, Hosts, None
<1>4. host' = Terminal => HostTyped'
  BY <1>3 DEF HostTyped
<1>5. host' = NextSection => HostTyped'
  <2>1. CASE host.section = "jump"
    BY <1>1, <1>2, <1>4, <2>1, NextSectionFacts
  <2>2. CASE host.section # "jump" /\ host' = NextSection
    <3>1. host' = [does |-> "send", section |-> NextOf(host.section), pos |-> 1]
      BY <1>1, <1>2, <2>2, NextSectionFacts
    <3>2. NextOf(host.section) \in SectionNames /\ NextOf(host.section) \in files \cup {"jump"}
      BY DEF NextOf, SectionNames
    <3>3. host' \in Hosts /\ host'.does = "send" /\ host'.section = NextOf(host.section) /\ host'.pos = 1
      BY <3>1, <3>2 DEF Hosts, SectionNames
    <3>4. 1 \in 1..Len(Script[NextOf(host.section)])
      BY <3>2, ScriptFacts, FrameCounts DEF SectionNames
    <3>5. AtFrame(host')
      BY <3>2, <3>3, <3>4 DEF AtFrame, SectionNames
    <3>6. AtFrame(host)'
      BY <3>5 DEF AtFrame
    <3> QED  BY <1>1, <3>2, <3>3, <3>6 DEF HostTyped
  <2> QED  BY <2>1, <2>2
<1>6. host' = [host EXCEPT !.does = "send"] => HostTyped'
  BY <1>1 DEF HostTyped, AtFrame, Hosts
<1>7. host' = Confirmed => HostTyped'
  <2>1. SUFFICES ASSUME host' = [host EXCEPT !.does = "send", !.pos = @ + 1],
                        host.pos < Len(Script[host.section])
                 PROVE  HostTyped'
    BY <1>5 DEF Confirmed
  <2>2. host' \in Hosts /\ host'.section = host.section /\ host'.pos = host.pos + 1
    <3>1. host.pos + 1 \in Nat /\ "send" \in {"terminal", "send", "reply"}
      BY <1>2
    <3>2. [host EXCEPT !.does = "send", !.pos = host.pos + 1] \in Hosts
      BY ONLY <1>1, <3>1 DEF Hosts
    <3>3. host' = [host EXCEPT !.does = "send", !.pos = host.pos + 1]
      BY <2>1
    <3>4. host'.section = host.section /\ host'.pos = host.pos + 1
      BY ONLY <1>1, <3>3 DEF Hosts
    <3> QED  BY ONLY <3>2, <3>3, <3>4
  <2>3. host.pos + 1 \in 1..Len(Script[host.section])
    <3>1. Len(Script[host.section]) \in Nat
      BY <1>2, ScriptFacts, FrameCounts DEF SectionNames
    <3> QED  BY <1>2, <2>1, <3>1
  <2>4. AtFrame(host)'
    BY <1>2, <2>2, <2>3 DEF AtFrame, SectionNames
  <2> QED  BY <1>1, <2>2, <2>4 DEF HostTyped
<1> QED  BY <1>4, <1>5, <1>6, <1>7 DEF Aborted

LEMMA GrabTyped ==
  ASSUME SflTyped, Grab(AfterSerial)
  PROVE  SflTyped'
<1>1. /\ files' = files /\ host' = host /\ toDevice # <<>> /\ dev \in Devs /\ toDevice \in Seq(Frames)
      /\ toHost \in Seq(Words)
  BY DEF Grab, SflTyped
<1> DEFINE f == Head(toDevice)
<1>2. f \in Frames /\ Tail(toDevice) \in Seq(Frames)
  BY <1>1, Lines
<1>3. /\ f.at \in Nat /\ Gone \in Devs
      /\ [dev EXCEPT !.failed = @ + 1] \in Devs
  <2>1. f.at \in Nat
    BY <1>2 DEF Frames
  <2>2. Gone \in Devs
    BY DEF Devs, Gone, None
  <2>3. dev.failed \in Nat
    BY <1>1 DEF Devs
  <2>4. dev.failed + 1 \in Nat
    BY <2>3
  <2>5. [dev EXCEPT !.failed = dev.failed + 1] \in Devs
    BY ONLY <1>1, <2>4 DEF Devs
  <2> QED  BY <2>1, <2>2, <2>5
<1>4. /\ \A w \in Words : Append(toHost, w) \in Seq(Words)
      /\ "K" \in Words /\ "C" \in Words /\ "text" \in Words
  BY <1>1, Lines DEF Words
<1>5. CASE f.good
  <2>1. Accept(f)
    BY <1>5 DEF Grab
  <2>2. dev' \in {[dev EXCEPT !.failed = 0, !.cmdline = TRUE], [dev EXCEPT !.failed = 0, !.start = TRUE],
                  [dev EXCEPT !.failed = 0, !.end = f.at], Gone, [dev EXCEPT !.failed = 0]}
    BY <2>1 DEF Accept
  <2>3. dev' \in Devs
    <3>1. 0 \in Nat /\ TRUE \in BOOLEAN /\ dev \in Devs /\ f.at \in Nat
      BY <1>1, <1>3
    <3> HIDE DEF f
    <3>2. [dev EXCEPT !.failed = 0] \in Devs
      BY ONLY <3>1 DEF Devs
    <3>3. [dev EXCEPT !.failed = 0, !.cmdline = TRUE] \in Devs
      BY ONLY <3>1 DEF Devs
    <3>4. [dev EXCEPT !.failed = 0, !.start = TRUE] \in Devs
      BY ONLY <3>1 DEF Devs
    <3>5. [dev EXCEPT !.failed = 0, !.end = f.at] \in Devs
      BY ONLY <3>1 DEF Devs
    <3> QED  BY ONLY <1>3, <2>2, <3>2, <3>3, <3>4, <3>5
  <2>4. toDevice' = Tail(toDevice) /\ toHost' = Append(toHost, "K")
    BY <2>1 DEF Accept, Say
  <2>5. HostTyped' /\ files' \in SUBSET Regions
    BY <1>1 DEF SflTyped, HostTyped, AtFrame
  <2> QED  BY <1>2, <1>4, <2>3, <2>4, <2>5 DEF SflTyped
<1>6. CASE ~f.good
  <2>1. Refuse(AfterSerial)
    BY <1>6 DEF Grab
  <2>2. dev' \in Devs
    BY <1>3, <2>1 DEF Refuse, Leave
  <2>3. toDevice' \in Seq(Frames)
    <3>1. <<>> \in Seq(Frames)
      OBVIOUS
    <3> QED  BY <1>2, <2>1, <3>1 DEF Refuse, Leave
  <2>4. toHost' \in Seq(Words)
    BY <1>4, <2>1 DEF Refuse, Leave, Say
  <2>5. HostTyped' /\ files' \in SUBSET Regions
    BY <1>1 DEF SflTyped, HostTyped, AtFrame
  <2> QED  BY <2>2, <2>3, <2>4, <2>5 DEF SflTyped
<1> QED  BY <1>5, <1>6

LEMMA SflStepTyped ==
  ASSUME SflTyped, ~NoisyReplies, SflStep(AfterSerial)
  PROVE  SflTyped'
<1>1. /\ files \in SUBSET Regions /\ dev \in Devs /\ toDevice \in Seq(Frames) /\ toHost \in Seq(Words)
      /\ HostTyped
  BY DEF SflTyped
<1>2. host' = host /\ files' = files => HostTyped'
  BY <1>1 DEF HostTyped, AtFrame
<1>3. \A w \in Words : Append(toHost, w) \in Seq(Words)
  BY <1>1, Lines
<1>4. toHost # <<>> => Tail(toHost) \in Seq(Words)
  BY <1>1, Lines
<1>5. Gone \in Devs /\ [Gone EXCEPT !.does = "magic"] \in Devs /\ [dev EXCEPT !.does = "frame"] \in Devs
  BY <1>1 DEF Devs, Gone, None
<1>6. MagicAck \in Frames
  BY DEF MagicAck, Frame, Frames, None
<1>7. CASE SerialStart
  BY <1>1, <1>2, <1>3, <1>5, <1>7 DEF SerialStart, Say, SflTyped, Words
<1>8. CASE CheckAck
  <2>1. Tail(toDevice) \in Seq(Frames)
    BY <1>1, <1>8, Lines DEF CheckAck
  <2> QED  BY <1>1, <1>2, <1>5, <1>8, <2>1 DEF CheckAck, SflTyped
<1>9. CASE Grab(AfterSerial)
  BY <1>9, GrabTyped
<1>10. CASE AckTimeout(AfterSerial)
  <2>1. <<>> \in Seq(Frames)
    OBVIOUS
  <2> QED  BY <1>1, <1>2, <1>3, <1>5, <1>10, <2>1 DEF AckTimeout, Leave, Say, SflTyped, Words
<1>11. CASE Show
  BY <1>1, <1>2, <1>4, <1>11 DEF Show, SflTyped
<1>12. CASE Answer
  <2>1. /\ files' \in SUBSET Regions /\ "kernel" \in files' /\ dev' = dev /\ toHost' = Tail(toHost)
        /\ host' = [does |-> "send", section |-> "kernel", pos |-> 1] /\ toHost # <<>>
    BY <1>12 DEF Answer
  <2>2. toDevice' \in Seq(Frames)
    <3>1. Append(toDevice, MagicAck) \in Seq(Frames)
      BY <1>1, <1>6, Lines
    <3> QED  BY <1>1, <1>12, <3>1 DEF Answer, Put
  <2>3. AtFrame(host)'
    BY <2>1, ScriptFacts, FrameCounts DEF AtFrame
  <2>4. host' \in Hosts /\ host'.section = "kernel"
    BY <2>1 DEF Hosts
  <2> QED  BY <1>1, <1>4, <2>1, <2>2, <2>3, <2>4 DEF SflTyped, HostTyped
<1>13. CASE SendFrame
  <2>1. AtFrame(host) /\ host \in Hosts
    BY <1>1, <1>13 DEF SendFrame, HostTyped
  <2>2. Script[host.section][host.pos] \in Frames
    BY <2>1, ScriptFrames
  <2>3. toDevice' \in Seq(Frames)
    <3>1. Append(toDevice, Script[host.section][host.pos]) \in Seq(Frames)
      BY <1>1, <2>2, Lines
    <3> QED  BY <1>1, <1>13, <3>1 DEF SendFrame, Put
  <2>4. host' \in Hosts /\ host'.section = host.section /\ host'.pos = host.pos
    BY <1>13, <2>1 DEF SendFrame, Hosts
  <2>5. AtFrame(host)'
    BY <2>1, <2>4 DEF AtFrame
  <2>6. HostTyped'
    BY <1>1, <1>13, <2>4, <2>5 DEF SendFrame, HostTyped
  <2> QED  BY <1>1, <1>13, <2>3, <2>6 DEF SendFrame, SflTyped
<1>14. CASE Reply
  <2>1. host.does = "reply" /\ toHost # <<>> /\ files' = files /\ dev' = dev /\ toDevice' = toDevice
    BY <1>14 DEF Reply
  <2>2. host' \in {Confirmed, Aborted, [host EXCEPT !.does = "send"]}
    BY <1>14 DEF Reply
  <2>3. toHost' \in Seq(Words)
    BY <1>1, <1>4, <1>14 DEF Reply
  <2> QED  BY <1>1, <2>1, <2>2, <2>3, ReplyTyped DEF SflTyped
<1>15. CASE RestartFlterm
  <2>1. Terminal \in Hosts /\ Terminal.does = "terminal" /\ <<>> \in Seq(Words)
    BY DEF Terminal, Hosts, None
  <2> QED  BY <1>1, <1>15, <2>1 DEF RestartFlterm, SflTyped, HostTyped
<1>16. CASE Disturb
  <2>1. PICK i \in 1..Len(toDevice) : toDevice' = [toDevice EXCEPT ![i].good = FALSE]
    BY <1>16 DEF Disturb
  <2>2. toDevice[i] \in Frames
    BY <1>1, ElementOfSeq
  <2>3. [toDevice[i] EXCEPT !.good = FALSE] \in Frames
    BY <2>2, DamagedFrame
  <2>4. toDevice' = [toDevice EXCEPT ![i] = [toDevice[i] EXCEPT !.good = FALSE]]
    BY <2>1
  <2>5. toDevice' \in Seq(Frames)
    BY <1>1, <2>3, <2>4, ExceptSeq
  <2> QED  BY <1>1, <1>2, <1>16, <2>5 DEF Disturb, SflTyped
<1> QED
  BY <1>7, <1>8, <1>9, <1>10, <1>11, <1>12, <1>13, <1>14, <1>15, <1>16 DEF SflStep, Device, Flterm
-----------------------------------------------------------------------------
(* The serial line: what the loader has put into memory *)

LEMMA HoldsKept ==
  ASSUME NEW r, NEW m, NEW n, Holds(r, m, n), mem' = mem
  PROVE  Holds(r, m, n)'
BY DEF Holds

LEMMA HoldsPoked ==
  ASSUME Shape, NEW r \in Regions, NEW i \in 1..Size, NEW v, Poke(r, i, v),
         NEW q \in Regions, NEW m, NEW n \in Nat, Holds(q, m, n), q # r \/ i > n
  PROVE  Holds(q, m, n)'
<1>1. \A j \in 1..n : j \in 1..Size /\ ~(q = r /\ j = i)
  BY SizeAssumption DEF Holds
<1>2. \A j \in 1..n : mem'[q][j] = mem[q][j]
  BY <1>1, PokeFacts
<1> QED  BY <1>2 DEF Holds

LEMMA HoldsMore ==
  ASSUME Shape, NEW r \in Regions, NEW i \in 1..Size, NEW m, Poke(r, i, Unit(m, r, i)),
         Holds(r, m, i - 1)
  PROVE  Holds(r, m, i)'
<1>1. i \in Nat /\ i <= Size /\ \A j \in 1..i : j \in 1..Size /\ (j = i \/ j \in 1..(i - 1))
  BY SizeAssumption
<1>2. \A j \in 1..i : mem'[r][j] = IF j = i THEN Unit(m, r, i) ELSE mem[r][j]
  BY <1>1, PokeFacts
<1>3. \A j \in 1..i : mem'[r][j] = Unit(m, r, j)
  BY <1>1, <1>2 DEF Holds
<1> QED  BY <1>1, <1>3 DEF Holds

LEMMA HoldsNothing == \A r, m : Holds(r, m, 0)
<1>1. 0 <= Size /\ 1..0 = {}
  BY SizeAssumption
<1> QED  BY <1>1 DEF Holds

LEMMA ProgressKept ==
  ASSUME files' = files, mem' = mem, dev'.cmdline = dev.cmdline, dev'.start = dev.start,
         dev'.end = dev.end
  PROVE  \A sec, pos : Progress(sec, pos) => Progress(sec, pos)'
BY DEF Progress, Bare, InKernel, InCmdline, Given, InInitrd, AtJump, Holds

\* A section that was given is sent whole before the next one.
LEMMA ProgressNext ==
  ASSUME NEW sec \in SectionNames, sec # "jump", sec \in files,
         Progress(sec, Len(Script[sec]) + 1)
  PROVE  Progress(NextOf(sec), 1)
<1>1. InitrdFrames \in Nat /\ KernelFrames \in Nat /\ InitrdFrames > 0
  BY FrameCounts
<1>2. Holds("initrd", "serial", 0)
  BY HoldsNothing
<1>3. CASE sec = "kernel"
  <2>1. Len(Script[sec]) + 1 = KernelFrames + 1 /\ (KernelFrames + 1) - 1 = KernelFrames
    BY <1>1, <1>3, ScriptFacts
  <2>2. Bare /\ Holds("kernel", "serial", KernelFrames)
    BY <1>3, <2>1 DEF Progress, InKernel
  <2>3. CASE "cmdline" \in files
    BY <1>3, <2>2, <2>3 DEF NextOf, Progress, InCmdline
  <2>4. CASE "cmdline" \notin files
    <3>1. Given
      BY <2>2, <2>4 DEF Given, Bare
    <3>2. CASE "initrd" \in files
      <4>1. InInitrd(1)
        BY <1>1, <1>2, <2>2, <3>1 DEF InInitrd, Bare
      <4> QED  BY <1>3, <2>4, <3>2, <4>1 DEF NextOf, Progress
    <3>3. CASE "initrd" \notin files
      BY <1>3, <2>2, <2>4, <3>1, <3>3 DEF NextOf, Progress, AtJump, Bare
    <3> QED  BY <3>2, <3>3
  <2> QED  BY <2>3, <2>4
<1>4. CASE sec = "cmdline"
  <2>1. Len(Script[sec]) + 1 = 3
    BY <1>4, ScriptFacts
  <2>2. InCmdline(3)
    BY <1>4, <2>1 DEF Progress
  <2>3. /\ Given
        /\ dev.start = FALSE /\ dev.end = None
    BY <1>4, <2>2 DEF InCmdline, Given
  <2>4. CASE "initrd" \in files
    <4>1. InInitrd(1)
      BY <1>1, <1>2, <2>3 DEF InInitrd
    <4> QED  BY <1>4, <2>4, <4>1 DEF NextOf, Progress
  <2>5. CASE "initrd" \notin files
    BY <1>4, <2>3, <2>5 DEF NextOf, Progress, AtJump
  <2> QED  BY <2>4, <2>5
<1>5. CASE sec = "initrd"
  <2>1. Len(Script[sec]) + 1 = InitrdFrames + 3
    BY <1>1, <1>5, ScriptFacts
  <2>2. InInitrd(InitrdFrames + 3)
    BY <1>5, <2>1 DEF Progress
  <2>3. AtJump
    BY <1>1, <1>5, <2>2 DEF InInitrd, AtJump
  <2> QED  BY <1>5, <2>3 DEF NextOf, Progress
<1> QED  BY <1>3, <1>4, <1>5 DEF SectionNames

LEMMA ProgressMade ==
  ASSUME Shape, HostTyped, AtFrame(host), dev \in Devs, host.section # "jump",
         files' = files, Progress(host.section, host.pos),
         Accept(Script[host.section][host.pos])
  PROVE  \A sec, pos : sec = host.section /\ pos = host.pos => Progress(sec, pos + 1)'
<1> TAKE sec, pos
<1> HAVE sec = host.section /\ pos = host.pos
<1> DEFINE f == Script[sec][pos]
<1>1. /\ sec \in {"kernel", "cmdline", "initrd"} /\ pos \in 1..Len(Script[sec]) /\ Progress(sec, pos)
      /\ Accept(f)
  BY DEF AtFrame
<1> HIDE DEF f
<1>2. /\ InitrdFrames \in 1..Size /\ KernelFrames \in 1..Size /\ Size \in Nat
      /\ InitrdFrames \in Nat /\ KernelFrames \in Nat /\ 1 \in 1..Size
  BY FrameCounts
<1>3. CASE sec = "kernel"
  <2>1. f = Frame("LOAD", "kernel", pos) /\ pos \in 1..Size /\ (pos + 1) - 1 = pos
    BY <1>1, <1>2, <1>3, ScriptFacts DEF f
  <2>2. f.cmd = "LOAD" /\ f.region = "kernel" /\ f.at = pos
    BY <2>1 DEF Frame
  <2>3. dev' = [dev EXCEPT !.failed = 0] /\ Poke("kernel", pos, Unit("serial", "kernel", pos))
    BY <1>1, <2>2 DEF Accept
  <2>4. Bare /\ Holds("kernel", "serial", pos - 1)
    BY <1>1, <1>3 DEF Progress, InKernel
  <2>5. Holds("kernel", "serial", pos)'
    <3>1. "kernel" \in Regions
      BY DEF Regions
    <3> QED  BY <2>1, <2>3, <2>4, <3>1, HoldsMore
  <2>6. Bare'
    BY <2>3, <2>4 DEF Bare, Devs
  <2>7. InKernel(pos + 1)'
    BY <2>1, <2>5, <2>6 DEF InKernel
  <2> QED  BY <1>3, <2>7 DEF Progress
<1>4. CASE sec = "cmdline"
  <2>1. pos = 1 \/ pos = 2
    BY <1>1, <1>4, ScriptFacts
  <2>2. InCmdline(pos)
    BY <1>1, <1>4 DEF Progress
  <2>3. CASE pos = 1
    <3>1. f = Frame("LOAD", "cmdline", 1)
      BY <1>4, <2>3, ScriptFacts DEF f
    <3>2. f.cmd = "LOAD" /\ f.region = "cmdline" /\ f.at = 1
      BY <3>1 DEF Frame
    <3>3. dev' = [dev EXCEPT !.failed = 0] /\ Poke("cmdline", 1, Unit("serial", "cmdline", 1))
      BY <1>1, <3>2 DEF Accept
    <3>4. Bare'
      BY <2>2, <2>3, <3>3 DEF InCmdline, Bare, Devs
    <3>5. Holds("cmdline", "serial", 1 - 1)
      BY HoldsNothing
    <3>6. Holds("cmdline", "serial", 1)' /\ Holds("kernel", "serial", KernelFrames)'
      <4>1. "cmdline" \in Regions /\ "kernel" \in Regions /\ "kernel" # "cmdline"
        BY DEF Regions
      <4>2. Holds("cmdline", "serial", 1)'
        BY <1>2, <3>3, <3>5, <4>1, HoldsMore
      <4>3. Holds("kernel", "serial", KernelFrames)
        BY <2>2 DEF InCmdline
      <4>4. Holds("kernel", "serial", KernelFrames)'
        BY <1>2, <3>3, <4>1, <4>3, HoldsPoked
      <4> QED  BY <4>2, <4>4
    <3>7. InCmdline(2)'
      BY <3>4, <3>6 DEF InCmdline
    <3> QED  BY <1>4, <2>3, <3>7 DEF Progress
  <2>4. CASE pos = 2
    <3>1. f = Frame("CMDLINE", "cmdline", 1)
      BY <1>4, <2>4, ScriptFacts DEF f
    <3>2. f.cmd = "CMDLINE"
      BY <3>1 DEF Frame
    <3>3. dev' = [dev EXCEPT !.failed = 0, !.cmdline = TRUE] /\ mem' = mem
      BY <1>1, <3>2 DEF Accept
    <3>4. dev'.cmdline = TRUE /\ dev'.start = FALSE /\ dev'.end = None
      BY <2>2, <2>4, <3>3 DEF InCmdline, Bare, Devs
    <3>5. Holds("cmdline", "serial", 1)' /\ Holds("kernel", "serial", KernelFrames)'
      BY <2>2, <2>4, <3>3, HoldsKept DEF InCmdline
    <3>6. InCmdline(3)'
      BY <3>4, <3>5 DEF InCmdline
    <3> QED  BY <1>4, <2>4, <3>6 DEF Progress
  <2> QED  BY <2>1, <2>3, <2>4
<1>5. CASE sec = "initrd"
  <2>1. pos \in Nat /\ (pos \in 1..InitrdFrames \/ pos = InitrdFrames + 1 \/ pos = InitrdFrames + 2)
    BY <1>1, <1>2, <1>5, ScriptFacts
  <2>2. InInitrd(pos)
    BY <1>1, <1>5 DEF Progress
  <2>3. CASE pos \in 1..InitrdFrames
    <3>1. f = Frame("LOAD", "initrd", pos) /\ pos \in 1..Size
      BY <1>2, <1>5, <2>3, ScriptFacts DEF f
    <3>2. f.cmd = "LOAD" /\ f.region = "initrd" /\ f.at = pos
      BY <3>1 DEF Frame
    <3>3. dev' = [dev EXCEPT !.failed = 0] /\ Poke("initrd", pos, Unit("serial", "initrd", pos))
      BY <1>1, <3>2 DEF Accept
    <3>4. dev.start = FALSE /\ dev.end = None /\ Holds("initrd", "serial", pos - 1) /\ Given
      BY <1>2, <2>2, <2>3 DEF InInitrd
    <3>5. dev'.start = FALSE /\ dev'.end = None /\ dev'.cmdline = dev.cmdline
      BY <3>3, <3>4 DEF Devs
    <3>6. Holds("initrd", "serial", pos)'
      <4>1. "initrd" \in Regions
        BY DEF Regions
      <4> QED  BY <3>1, <3>3, <3>4, <4>1, HoldsMore
    <3>7. Given'
      <4>1. /\ "initrd" \in Regions /\ "kernel" \in Regions /\ "cmdline" \in Regions
            /\ "kernel" # "initrd" /\ "cmdline" # "initrd"
        BY DEF Regions
      <4>2. Holds("kernel", "serial", KernelFrames)'
        <5>1. Holds("kernel", "serial", KernelFrames)
          BY <3>4 DEF Given
        <5> QED  BY <1>2, <3>1, <3>3, <4>1, <5>1, HoldsPoked
      <4>3. "cmdline" \in files => Holds("cmdline", "serial", 1)'
        <5>1. "cmdline" \in files => Holds("cmdline", "serial", 1)
          BY <3>4 DEF Given
        <5> QED  BY <3>1, <3>3, <4>1, <5>1, HoldsPoked
      <4> QED  BY <3>4, <3>5, <4>2, <4>3 DEF Given
    <3>8. InInitrd(pos + 1)'
      <4>1. /\ pos + 1 <= InitrdFrames + 1 /\ ~(pos + 1 > InitrdFrames + 1)
            /\ pos + 1 <= InitrdFrames + 2 /\ ~(pos + 1 > InitrdFrames + 2) /\ (pos + 1) - 1 = pos
        BY <1>2, <2>3
      <4> QED  BY <3>5, <3>6, <3>7, <4>1 DEF InInitrd
    <3> QED  BY <1>5, <3>8 DEF Progress
  <2>4. CASE pos = InitrdFrames + 1
    <3>1. f = Frame("INITRDSTART", "initrd", 1)
      BY <1>5, <2>4, ScriptFacts DEF f
    <3>2. f.cmd = "INITRDSTART"
      BY <3>1 DEF Frame
    <3>3. dev' = [dev EXCEPT !.failed = 0, !.start = TRUE] /\ mem' = mem
      BY <1>1, <3>2 DEF Accept
    <3>4. dev.end = None /\ Holds("initrd", "serial", InitrdFrames) /\ Given
      BY <1>2, <2>2, <2>4 DEF InInitrd
    <3>5. dev'.start = TRUE /\ dev'.end = None /\ dev'.cmdline = dev.cmdline
      BY <3>3, <3>4 DEF Devs
    <3>6. Given' /\ Holds("initrd", "serial", InitrdFrames)'
      BY <3>3, <3>4, <3>5 DEF Given, Holds
    <3>7. InInitrd(pos + 1)'
      <4>1. /\ ~(pos + 1 <= InitrdFrames + 1) /\ ~(pos + 1 > InitrdFrames + 2)
        BY <1>2, <2>4
      <4> QED  BY <3>5, <3>6, <4>1 DEF InInitrd
    <3> QED  BY <1>5, <3>7 DEF Progress
  <2>5. CASE pos = InitrdFrames + 2
    <3>1. f = Frame("INITRDEND", "initrd", InitrdFrames)
      BY <1>5, <2>5, ScriptFacts DEF f
    <3>2. f.cmd = "INITRDEND" /\ f.at = InitrdFrames
      BY <3>1 DEF Frame
    <3>3. dev' = [dev EXCEPT !.failed = 0, !.end = InitrdFrames] /\ mem' = mem
      BY <1>1, <3>2 DEF Accept
    <3>4. dev.start = TRUE /\ Holds("initrd", "serial", InitrdFrames) /\ Given
      BY <1>2, <2>2, <2>5 DEF InInitrd
    <3>5. dev'.start = TRUE /\ dev'.end = InitrdFrames /\ dev'.cmdline = dev.cmdline
      BY <3>3, <3>4 DEF Devs
    <3>6. Given' /\ Holds("initrd", "serial", InitrdFrames)'
      BY <3>3, <3>4, <3>5 DEF Given, Holds
    <3>7. InInitrd(pos + 1)'
      <4>1. /\ ~(pos + 1 <= InitrdFrames + 1) /\ ~(pos + 1 <= InitrdFrames + 2)
        BY <1>2, <2>5
      <4> QED  BY <3>5, <3>6, <4>1 DEF InInitrd
    <3> QED  BY <1>5, <3>7 DEF Progress
  <2> QED  BY <2>1, <2>3, <2>4, <2>5
<1> QED  BY <1>1, <1>3, <1>4, <1>5

LEMMA SerialWholeKept ==
  ASSUME SerialWhole, mem' = mem, files' = files, started' = started
  PROVE  SerialWhole'
BY DEF SerialWhole, Holds

LEMMA ProgressFirst ==
  ASSUME dev'.cmdline = FALSE, dev'.start = FALSE, dev'.end = None,
         host'.section = "kernel", host'.pos = 1
  PROVE  Progress(host.section, host.pos)'
<1>1. Holds("kernel", "serial", 0)' /\ 1 - 1 = 0
  <2>1. 0 <= Size /\ 1..0 = {}
    BY SizeAssumption
  <2> QED  BY <2>1 DEF Holds
<1>2. InKernel(host.pos)'
  BY <1>1 DEF InKernel, Bare
<1> QED  BY <1>2 DEF Progress

-----------------------------------------------------------------------------
(* The serial line: every step of the loader and of flterm *)

\* The loader is not in a download.
LEMMA NextSerialGone ==
  ASSUME Stages, SflTyped, Left, dev.does = "gone", ~NoisyReplies, SflStep(AfterSerial)
  PROVE  Framing' /\ Requested' /\ Left'
<1>1. /\ dev = Gone /\ toDevice = <<>> /\ SerialWhole
      /\ stage \in {"abort", "serial"} => host.does = "terminal" /\ toHost = <<>>
      /\ started.from = "serial" => toHost \in {<<>>, <<"K">>}
  BY DEF Left
<1>2. CASE SerialStart
  <2>1. host.does = "terminal" /\ toHost = <<>> /\ host' = host /\ toDevice' = toDevice
    BY <1>1, <1>2 DEF SerialStart
  <2>2. toHost' = <<"request">>
    BY <1>2, <2>1 DEF SerialStart, Say
  <2>3. /\ dev'.does = "magic" /\ dev'.failed = 0 /\ dev'.cmdline = FALSE /\ dev'.start = FALSE
        /\ dev'.end = None
    BY <1>2 DEF SerialStart, Gone
  <2> QED  BY <1>1, <2>1, <2>2, <2>3 DEF Framing, Requested, Left
<1>3. ~CheckAck /\ ~Grab(AfterSerial) /\ ~AckTimeout(AfterSerial)
  BY DEF CheckAck, Grab, AckTimeout
<1>4. ~Disturb
  <2>1. 1..Len(toDevice) = {}
    BY <1>1
  <2> QED  BY <2>1 DEF Disturb
<1>5. CASE Show \/ Answer \/ SendFrame \/ Reply \/ RestartFlterm
  <2>1. dev' = dev /\ stage' = stage /\ mem' = mem /\ started' = started /\ toDevice' = toDevice
    BY <1>5 DEF Show, Answer, SendFrame, Reply, RestartFlterm, Put
  <2>3. stage \notin {"abort", "serial"}
    BY <1>1, <1>5 DEF Show, Answer, SendFrame, Reply, RestartFlterm
  <2>4. started.from = "serial" => toHost' \in {<<>>, <<"K">>} /\ ~Answer
    <3>1. CASE toHost = <<>>
      BY <1>5, <3>1 DEF Show, Answer, SendFrame, Reply, RestartFlterm
    <3>2. CASE toHost = <<"K">>
      <4>1. Head(toHost) = "K" /\ Tail(toHost) = <<>>
        BY <3>2
      <4> QED  BY <1>5, <3>2, <4>1 DEF Show, Answer, SendFrame, Reply, RestartFlterm
    <3> QED  BY <1>1, <3>1, <3>2
  <2>5. SerialWhole'
    <3>1. CASE started.from = "serial"
      <4>1. files' = files
        BY <1>5, <2>4, <3>1 DEF Show, SendFrame, Reply, RestartFlterm
      <4> QED  BY <1>1, <2>1, <4>1, SerialWholeKept
    <3>2. CASE started.from # "serial"
      BY <2>1, <3>2 DEF SerialWhole
    <3> QED  BY <3>1, <3>2
  <2> QED  BY <1>1, <2>1, <2>3, <2>4, <2>5 DEF Framing, Requested, Left
<1> QED  BY <1>2, <1>3, <1>4, <1>5 DEF SflStep, Device, Flterm

\* A download that is given up.
LEMMA LeaveKept ==
  ASSUME Stages, dev.does # "gone", Leave(AfterSerial), started' = started
  PROVE  Framing' /\ Requested' /\ Left'
<1>1. started.from = "none" /\ stage' \in {"card", "prompt"} /\ dev' = Gone /\ toDevice' = <<>>
  BY DEF Stages, Leave, AfterSerial
<1>2. SerialWhole' /\ dev'.does = "gone"
  BY <1>1 DEF SerialWhole, Gone
<1> QED  BY <1>1, <1>2 DEF Framing, Requested, Left

LEMMA Disturbed ==
  ASSUME toDevice \in Seq(Frames), ~NoisyReplies, Disturb
  PROVE  /\ toDevice # <<>> /\ toDevice' # <<>> /\ Len(toDevice') = Len(toDevice) /\ toHost' = toHost
         /\ \A h : \A i \in 1..Len(toDevice) : Same(toDevice[i], h) => Same(toDevice'[i], h)
<1>1. PICK k \in 1..Len(toDevice) :
        toDevice' = [toDevice EXCEPT ![k] = [toDevice[k] EXCEPT !.good = FALSE]] /\ toHost' = toHost
  BY DEF Disturb
<1>2. toDevice[k] \in Frames
  BY <1>1, ElementOfSeq
<1> DEFINE g == [toDevice[k] EXCEPT !.good = FALSE]
<1>3. g \in Frames /\ \A h : Same(toDevice[k], h) => Same(g, h)
  BY <1>2, DamagedFrame
<1> HIDE DEF g
<1>4. toDevice' = [toDevice EXCEPT ![k] = g] /\ k \in 1..Len(toDevice)
  BY <1>1 DEF g
<1>5. toDevice' \in Seq(Frames) /\ Len(toDevice') = Len(toDevice)
      /\ \A i \in 1..Len(toDevice) : toDevice'[i] = IF i = k THEN g ELSE toDevice[i]
  <2>1. DOMAIN toDevice = 1..Len(toDevice)
    OBVIOUS
  <2> QED  BY <1>3, <1>4, <2>1, ExceptSeq
<1>6. toDevice # <<>> /\ toDevice' # <<>>
  BY <1>4, <1>5
<1> QED  BY <1>1, <1>3, <1>5, <1>6

\* The loader has asked and waits for the answer.
LEMMA NextSerialMagic ==
  ASSUME Stages, SflTyped, Requested, dev.does = "magic", ~NoisyReplies, SflStep(AfterSerial)
  PROVE  Framing' /\ Requested' /\ Left'
<1>1. dev \in Devs /\ toDevice \in Seq(Frames) /\ toHost \in Seq(Words)
  BY DEF SflTyped
<1>2. /\ dev.failed = 0 /\ dev.cmdline = FALSE /\ dev.start = FALSE /\ dev.end = None
  BY DEF Requested
<1> DEFINE First == Script["kernel"][1]
<1>3. /\ First \in Frames /\ First.good = TRUE /\ First.cmd = "LOAD"
      /\ MagicAck \in Frames /\ MagicAck.cmd = "ACK" /\ MagicAck.good = TRUE
  <2>1. First = Frame("LOAD", "kernel", 1)
    BY ScriptFacts, FrameCounts
  <2> QED  BY <2>1, FrameCounts DEF Frame, Frames, MagicAck, None, Regions
<1>4. \A g \in Frames : /\ Same(g, First) => g # MagicAck
                        /\ Same(g, MagicAck) /\ g.good => g = MagicAck
  BY <1>3 DEF Frames, Same
<1> HIDE DEF First
<1>5. \/ host.does = "terminal" /\ toDevice = <<>> /\ toHost \in {<<>>, <<"request">>}
      \/ /\ host.does = "send" /\ AtFirst /\ toHost = <<>>
         /\ toDevice # <<>> => Len(toDevice) = 1 /\ Same(toDevice[1], MagicAck)
      \/ /\ host.does = "reply" /\ AtFirst /\ toHost = <<>>
         /\ \/ toDevice = <<>>
            \/ Len(toDevice) = 1 /\ Same(toDevice[1], First)
            \/ Len(toDevice) = 2 /\ Same(toDevice[1], MagicAck) /\ Same(toDevice[2], First)
  BY DEF Requested, First
<1>6. ~SerialStart /\ ~Grab(AfterSerial) /\ ~RestartFlterm /\ ~Reply
  BY <1>5 DEF SerialStart, Grab, RestartFlterm, Reply
<1>7. CASE CheckAck
  <2>1. /\ toDevice # <<>> /\ host' = host /\ toHost' = toHost /\ toDevice' = Tail(toDevice)
        /\ dev' = IF Head(toDevice) = MagicAck THEN [dev EXCEPT !.does = "frame"] ELSE dev
    BY <1>7 DEF CheckAck
  <2>2. /\ toDevice[1] \in Frames /\ Head(toDevice) = toDevice[1] /\ Len(toDevice') = Len(toDevice) - 1
        /\ toDevice' \in Seq(Frames) /\ Len(toDevice) \in Nat
        /\ \A i \in 1..(Len(toDevice) - 1) : toDevice'[i] = toDevice[i + 1]
    BY <1>1, <2>1, Lines
  <2>3. toDevice' = <<>> <=> Len(toDevice) = 1
    BY <2>2, Lines
  <2>4. CASE toDevice[1] = MagicAck
    <3>1. /\ dev'.does = "frame" /\ dev'.cmdline = FALSE /\ dev'.start = FALSE /\ dev'.end = None
      BY <1>1, <1>2, <2>1, <2>2, <2>4 DEF Devs
    <3>2. /\ host'.section = "kernel" /\ host'.pos = 1 /\ toHost' = <<>>
      BY <1>5, <2>1 DEF AtFirst
    <3>3. Progress(host.section, host.pos)'
      BY <3>1, <3>2, ProgressFirst
    <3>4. \/ host.does = "send" /\ Len(toDevice) = 1
          \/ host.does = "reply" /\ Len(toDevice) = 2 /\ Same(toDevice[2], First)
      BY <1>4, <1>5, <2>1, <2>2, <2>4
    <3>5. \/ host'.does = "send" /\ toDevice' = <<>>
          \/ host'.does = "reply" /\ Len(toDevice') = 1 /\ Same(toDevice'[1], First)
      <4>1. CASE Len(toDevice) = 1
        BY <2>1, <2>3, <3>4, <4>1
      <4>2. CASE Len(toDevice) = 2
        <5>1. toDevice'[1] = toDevice[2] /\ Len(toDevice') = 1 /\ Len(toDevice) # 1
          BY <2>2, <4>2
        <5>2. host.does = "reply" /\ Same(toDevice[2], First)
          BY ONLY <3>4, <5>1
        <5> QED  BY <2>1, <5>1, <5>2
      <4> QED  BY <3>4, <4>1, <4>2
    <3>6. Framing'
      <4>1. Same(toDevice'[1], First) => Same(toDevice[1], Script[host.section][host.pos])'
        BY <3>2 DEF First, Same
      <4> QED  BY <3>2, <3>3, <3>5, <4>1 DEF Framing
    <3> QED  BY <3>1, <3>6 DEF Requested, Left
  <2>5. CASE toDevice[1] # MagicAck
    <3>1. dev' = dev
      BY <2>1, <2>2, <2>5
    <3>2. \/ host.does = "send" /\ AtFirst /\ toHost = <<>> /\ Len(toDevice) = 1
          \/ host.does = "reply" /\ AtFirst /\ toHost = <<>> /\ Len(toDevice) = 1
          \/ host.does = "reply" /\ AtFirst /\ toHost = <<>> /\ Len(toDevice) = 2 /\ Same(toDevice[2], First)
      BY <1>5, <2>1
    <3>3. AtFirst' = AtFirst
      BY <2>1 DEF AtFirst
    <3>4. Len(toDevice) = 2 => Len(toDevice') = 1 /\ toDevice'[1] = toDevice[2]
      BY <2>2
    <3>5. \/ host'.does = "send" /\ AtFirst' /\ toHost' = <<>> /\ toDevice' = <<>>
          \/ /\ host'.does = "reply" /\ AtFirst' /\ toHost' = <<>>
             /\ toDevice' = <<>> \/ (Len(toDevice') = 1 /\ Same(toDevice'[1], First))
      BY <2>1, <2>3, <3>2, <3>3, <3>4
    <3>6. Same(toDevice'[1], First) => Same(toDevice[1], Script["kernel"][1])'
      BY DEF First, Same
    <3>7. Requested'
      BY <1>2, <3>1, <3>5, <3>6 DEF Requested
    <3> QED  BY <3>1, <3>7 DEF Framing, Left
  <2> QED  BY <2>4, <2>5
<1>8. CASE AckTimeout(AfterSerial)
  BY <1>8, LeaveKept DEF AckTimeout
<1>9. CASE Show
  <2>1. toHost = <<"request">> /\ toHost' = Tail(toHost) /\ host' = host /\ dev' = dev /\ toDevice' = toDevice
    BY <1>5, <1>9 DEF Show
  <2>2. toHost' = <<>>
    BY <2>1
  <2> QED  BY <1>2, <1>5, <1>9, <2>1, <2>2 DEF Show, Framing, Requested, Left
<1>10. CASE Answer
  <2>1. /\ toHost = <<"request">> /\ toHost' = Tail(toHost) /\ dev' = dev /\ toDevice = <<>>
        /\ host' = [does |-> "send", section |-> "kernel", pos |-> 1]
        /\ toDevice' = Append(toDevice, MagicAck)
    BY <1>5, <1>10 DEF Answer, Put
  <2>2. toHost' = <<>> /\ Len(toDevice') = 1 /\ toDevice'[1] = MagicAck
    BY <2>1
  <2>3. Same(toDevice'[1], MagicAck)
    BY <1>3, <2>2 DEF Same, Frames
  <2>4. host'.does = "send" /\ AtFirst'
    BY <2>1 DEF AtFirst
  <2>5. Same(toDevice[1], MagicAck)'
    BY <2>3 DEF Same, MagicAck, Frame
  <2> QED  BY <1>2, <2>1, <2>2, <2>4, <2>5 DEF Framing, Requested, Left
<1>11. CASE SendFrame
  <2>1. /\ host.does = "send" /\ AtFirst /\ toHost = <<>>
        /\ toDevice # <<>> => Len(toDevice) = 1 /\ Same(toDevice[1], MagicAck)
    BY <1>5, <1>11 DEF SendFrame
  <2>2. /\ host' = [host EXCEPT !.does = "reply"] /\ dev' = dev /\ toHost' = toHost
        /\ toDevice' = Append(toDevice, First)
    BY <1>11, <2>1 DEF SendFrame, Put, AtFirst, First
  <2>3. host \in Hosts
    BY DEF SflTyped, HostTyped
  <2>4. host'.does = "reply" /\ AtFirst'
    BY <2>1, <2>2, <2>3 DEF AtFirst, Hosts
  <2>5. /\ Len(toDevice') = Len(toDevice) + 1 /\ toDevice'[Len(toDevice) + 1] = First /\ Len(toDevice) \in Nat
        /\ toDevice = <<>> <=> Len(toDevice) = 0
        /\ \A i \in 1..Len(toDevice) : toDevice'[i] = toDevice[i]
    BY <1>1, <1>3, <2>2, Lines
  <2>6. Same(First, First)
    BY <1>3 DEF Same, Frames
  <2>7. \/ Len(toDevice') = 1 /\ Same(toDevice'[1], First)
        \/ Len(toDevice') = 2 /\ Same(toDevice'[1], MagicAck) /\ Same(toDevice'[2], First)
    <3>1. CASE toDevice = <<>>
      BY <2>5, <2>6, <3>1
    <3>2. CASE toDevice # <<>>
      <4>1. Len(toDevice) = 1 /\ toDevice'[1] = toDevice[1] /\ toDevice'[2] = First /\ Len(toDevice') = 2
        <5>1. Len(toDevice) = 1
          BY <2>1, <3>2
        <5>2. Len(toDevice) + 1 = 2 /\ 1 \in 1..Len(toDevice)
          BY <5>1
        <5> QED  BY <2>5, <5>1, <5>2
      <4> QED  BY <2>1, <2>6, <3>2, <4>1
    <3> QED  BY <3>1, <3>2
  <2>8. /\ Same(toDevice'[1], First) => Same(toDevice[1], Script["kernel"][1])'
        /\ Same(toDevice'[2], First) => Same(toDevice[2], Script["kernel"][1])'
        /\ Same(toDevice'[1], MagicAck) => Same(toDevice[1], MagicAck)'
    BY DEF First, Same, MagicAck, Frame
  <2>9. Requested'
    BY <1>2, <2>1, <2>2, <2>4, <2>7, <2>8 DEF Requested
  <2> QED  BY <2>2, <2>9 DEF Framing, Left
<1>12. CASE Disturb
  <2>1. /\ toDevice # <<>> /\ toDevice' # <<>> /\ Len(toDevice') = Len(toDevice) /\ toHost' = toHost
        /\ \A h : \A i \in 1..Len(toDevice) : Same(toDevice[i], h) => Same(toDevice'[i], h)
    BY <1>1, <1>12, Disturbed
  <2>2. host' = host /\ dev' = dev
    BY <1>12 DEF Disturb
  <2>3. AtFirst' = AtFirst
    BY <2>2 DEF AtFirst
  <2>4. \/ /\ host.does = "send" /\ AtFirst /\ toHost = <<>>
           /\ Len(toDevice) = 1 /\ Same(toDevice'[1], MagicAck)
        \/ /\ host.does = "reply" /\ AtFirst /\ toHost = <<>>
           /\ \/ Len(toDevice) = 1 /\ Same(toDevice'[1], First)
              \/ Len(toDevice) = 2 /\ Same(toDevice'[1], MagicAck) /\ Same(toDevice'[2], First)
    <3>1. /\ Len(toDevice) = 1 => 1 \in 1..Len(toDevice)
          /\ Len(toDevice) = 2 => 1 \in 1..Len(toDevice) /\ 2 \in 1..Len(toDevice)
      OBVIOUS
    <3> QED  BY <1>5, <2>1, <3>1
  <2>5. /\ Same(toDevice'[1], First) => Same(toDevice[1], Script["kernel"][1])'
        /\ Same(toDevice'[2], First) => Same(toDevice[2], Script["kernel"][1])'
        /\ Same(toDevice'[1], MagicAck) => Same(toDevice[1], MagicAck)'
    BY DEF First, Same, MagicAck, Frame
  <2>6. Requested'
    BY <1>2, <2>1, <2>2, <2>3, <2>4, <2>5 DEF Requested
  <2> QED  BY <2>2, <2>6 DEF Framing, Left
<1> QED  BY <1>6, <1>7, <1>8, <1>9, <1>10, <1>11, <1>12 DEF SflStep, Device, Flterm

\* A frame that arrived whole is carried out and confirmed; the last one starts the image.
LEMMA FrameAccepted ==
  ASSUME Stages, Shape, SflTyped, dev.does = "frame", Grab(AfterSerial), toHost = <<>>,
         Len(toDevice) = 1, Same(toDevice[1], Script[host.section][host.pos]),
         Head(toDevice).good, host.does = "reply", Progress(host.section, host.pos)
  PROVE  Framing' /\ Requested' /\ Left'
<1>1. /\ toDevice # <<>> /\ Accept(Head(toDevice)) /\ files' = files /\ host' = host
  BY DEF Grab
<1>2. /\ dev \in Devs /\ toDevice \in Seq(Frames) /\ HostTyped /\ AtFrame(host)
      /\ host.section \in files \cup {"jump"} /\ files \in SUBSET Regions
  BY DEF SflTyped, HostTyped
<1>3. Head(toDevice) = toDevice[1] /\ toDevice[1] \in Frames /\ Tail(toDevice) = <<>>
  <2>1. Head(toDevice) = toDevice[1] /\ toDevice[1] \in Frames /\ Tail(toDevice) \in Seq(Frames)
        /\ Len(Tail(toDevice)) = 1 - 1
    BY <1>1, <1>2, Lines
  <2>2. Len(Tail(toDevice)) = 0
    BY <2>1
  <2> QED  BY <2>1, <2>2, Lines
<1> DEFINE f == Script[host.section][host.pos]
<1>4. f \in Frames /\ f.good = TRUE /\ host.pos \in Nat /\ host.section \in SectionNames
  BY <1>2, ScriptFrames
<1>5. Head(toDevice) = f
  <2>1. toDevice[1] = [f EXCEPT !.good = TRUE]
    <3>1. toDevice[1] = [f EXCEPT !.good = toDevice[1].good] /\ toDevice[1].good \in BOOLEAN
      BY <1>3 DEF Same, Frames
    <3> QED  BY <1>3, <3>1
  <2> HIDE DEF f
  <2>2. [f EXCEPT !.good = TRUE] = f
    BY <1>4 DEF Frames
  <2> QED  BY <1>3, <2>1, <2>2
<1>6. Accept(f)
  BY <1>1, <1>5
<1>7. toHost' = <<"K">> /\ toDevice' = <<>>
  BY <1>3, <1>6 DEF Accept, Say
<1>8. CASE host.section = "jump"
  <2>1. host.pos = 1 /\ f = Frame("JUMP", "kernel", 1)
    BY <1>2, <1>8, ScriptFacts DEF AtFrame
  <2>2. f.cmd = "JUMP"
    BY <2>1 DEF Frame
  <2>3. /\ dev' = Gone /\ mem' = mem /\ Boot("serial", dev.cmdline, dev.start, dev.end)
    BY <1>6, <2>2 DEF Accept
  <2>4. AtJump
    BY <1>8 DEF Progress
  <2>5. /\ started'.from = "serial" /\ started'.cmdline = dev.cmdline /\ started'.start = dev.start
        /\ started'.end = dev.end /\ stage' = "booted"
    BY <2>3 DEF Boot
  <2>6. SerialWhole'
    <3>1. \A r, m, n : Holds(r, m, n) => Holds(r, m, n)'
      BY <2>3, HoldsKept
    <3>2. Holds("kernel", "serial", KernelFrames)'
      BY <2>4, <3>1 DEF AtJump, Given
    <3>3. started'.cmdline = ("cmdline" \in files') /\ (started'.cmdline => Holds("cmdline", "serial", 1)')
      <4>1. CASE "cmdline" \in files
        <5>1. started'.cmdline = TRUE /\ Holds("cmdline", "serial", 1)'
          BY <2>4, <2>5, <3>1, <4>1 DEF AtJump, Given
        <5>2. ("cmdline" \in files') = TRUE
          BY <1>1, <4>1
        <5> QED  BY <5>1, <5>2
      <4>2. CASE "cmdline" \notin files
        <5>1. started'.cmdline = FALSE
          BY <2>4, <2>5, <4>2 DEF AtJump, Given
        <5>2. ("cmdline" \in files') = FALSE
          BY <1>1, <4>2
        <5> QED  BY <5>1, <5>2
      <4> QED  BY <4>1, <4>2
    <3>4. /\ started'.start = ("initrd" \in files')
          /\ started'.end = IF "initrd" \in files' THEN InitrdFrames ELSE None
          /\ started'.start => Holds("initrd", "serial", InitrdFrames)'
      <4>1. CASE "initrd" \in files
        <5>1. /\ started'.start = TRUE /\ started'.end = InitrdFrames
              /\ Holds("initrd", "serial", InitrdFrames)'
          BY <2>4, <2>5, <3>1, <4>1 DEF AtJump
        <5>2. ("initrd" \in files') = TRUE
          BY <1>1, <4>1
        <5> QED  BY <5>1, <5>2
      <4>2. CASE "initrd" \notin files
        <5>1. started'.start = FALSE /\ started'.end = None
          BY <2>4, <2>5, <4>2 DEF AtJump
        <5>2. ("initrd" \in files') = FALSE
          BY <1>1, <4>2
        <5> QED  BY <5>1, <5>2
      <4> QED  BY <4>1, <4>2
    <3> QED  BY <3>2, <3>3, <3>4 DEF SerialWhole
  <2>7. dev'.does = "gone"
    BY <2>3 DEF Gone
  <2> QED  BY <1>7, <2>3, <2>5, <2>6, <2>7 DEF Framing, Requested, Left
<1>9. CASE host.section # "jump"
  <2>1. \A sec, pos : sec = host.section /\ pos = host.pos => Progress(sec, pos + 1)'
    BY <1>1, <1>2, <1>6, <1>9, ProgressMade
  <2>2. Progress(host.section, host.pos + 1)'
    BY <1>1, <2>1
  <2>3. dev'.does = "frame"
    <3>1. f.cmd # "JUMP"
      <4>1. CASE host.section = "kernel"
        <5>1. host.pos \in 1..KernelFrames
          BY <1>2, <4>1, ScriptFacts DEF AtFrame
        <5>2. f = Frame("LOAD", "kernel", host.pos)
          BY <4>1, <5>1, ScriptFacts
        <5> QED  BY <5>2 DEF Frame
      <4>2. CASE host.section = "cmdline"
        <5>1. host.pos = 1 \/ host.pos = 2
          BY <1>2, <4>2, ScriptFacts DEF AtFrame
        <5>2. f = Frame("LOAD", "cmdline", 1) \/ f = Frame("CMDLINE", "cmdline", 1)
          BY <4>2, <5>1, ScriptFacts
        <5> QED  BY <5>2 DEF Frame
      <4>3. CASE host.section = "initrd"
        <5>1. host.pos \in 1..InitrdFrames \/ host.pos = InitrdFrames + 1 \/ host.pos = InitrdFrames + 2
          BY <1>2, <4>3, ScriptFacts, FrameCounts DEF AtFrame
        <5>2. \/ f = Frame("LOAD", "initrd", host.pos) \/ f = Frame("INITRDSTART", "initrd", 1)
              \/ f = Frame("INITRDEND", "initrd", InitrdFrames)
          BY <4>3, <5>1, ScriptFacts
        <5> QED  BY <5>2 DEF Frame
      <4> QED  BY <1>4, <1>9, <4>1, <4>2, <4>3 DEF SectionNames
    <3> HIDE DEF f
    <3> QED  BY <1>2, <1>6, <3>1 DEF Accept, Devs
  <2>4. host'.does = "reply" /\ host'.section # "jump"
    BY <1>1, <1>9
  <2>5. Framing'
    BY <1>7, <2>2, <2>4 DEF Framing
  <2> QED  BY <2>3, <2>5 DEF Requested, Left
<1> QED  BY <1>8, <1>9

\* The loader takes frames.
LEMMA NextSerialFrame ==
  ASSUME Stages, Shape, SflTyped, Framing, dev.does = "frame", ~NoisyReplies, SflStep(AfterSerial)
  PROVE  Framing' /\ Requested' /\ Left'
<1>1. /\ dev \in Devs /\ toDevice \in Seq(Frames) /\ toHost \in Seq(Words) /\ host \in Hosts
      /\ files \in SUBSET Regions /\ HostTyped
  BY DEF SflTyped, HostTyped
<1>2. host.does \in {"send", "reply"}
  BY DEF Framing
<1>3. AtFrame(host) /\ "kernel" \in files /\ host.section \in files \cup {"jump"}
  BY <1>1, <1>2 DEF HostTyped
<1>4. /\ Script[host.section][host.pos] \in Frames /\ host.pos \in Nat /\ host.section \in SectionNames
  BY <1>3, ScriptFrames
<1> DEFINE f == Script[host.section][host.pos]
<1> HIDE DEF f
<1>5. \/ /\ host.does = "send" /\ toDevice = <<>> /\ toHost = <<>>
         /\ Progress(host.section, host.pos)
      \/ /\ host.does = "reply" /\ Len(toDevice) = 1 /\ toHost = <<>> /\ Same(toDevice[1], f)
         /\ Progress(host.section, host.pos)
      \/ /\ host.does = "reply" /\ toDevice = <<>> /\ toHost = <<"C">>
         /\ Progress(host.section, host.pos)
      \/ /\ host.does = "reply" /\ toDevice = <<>> /\ toHost = <<"K">>
         /\ host.section # "jump" /\ Progress(host.section, host.pos + 1)
  BY DEF Framing, f
<1>6. ~SerialStart /\ ~CheckAck /\ ~AckTimeout(AfterSerial) /\ ~RestartFlterm /\ ~Show /\ ~Answer
  BY <1>2 DEF SerialStart, CheckAck, AckTimeout, RestartFlterm, Show, Answer
<1>7. CASE Grab(AfterSerial)
  <2>1. /\ host.does = "reply" /\ Len(toDevice) = 1 /\ toHost = <<>> /\ Same(toDevice[1], f)
        /\ Progress(host.section, host.pos) /\ toDevice # <<>>
    BY <1>5, <1>7 DEF Grab
  <2>2. CASE Head(toDevice).good
    BY <1>7, <2>1, <2>2, FrameAccepted DEF f
  <2>3. CASE ~Head(toDevice).good
    <3>1. Refuse(AfterSerial) /\ files' = files /\ host' = host
      BY <1>7, <2>3 DEF Grab
    <3>2. CASE dev.failed + 1 = MAX_FAILED
      <4>1. Leave(AfterSerial) /\ started' = started
        BY <3>1, <3>2 DEF Refuse
      <4> QED  BY <4>1, LeaveKept
    <3>3. CASE dev.failed + 1 # MAX_FAILED
      <4>1. /\ dev' = [dev EXCEPT !.failed = @ + 1] /\ toHost' = <<"C">> /\ toDevice' = Tail(toDevice)
            /\ mem' = mem
        BY <2>1, <3>1, <3>3 DEF Refuse, Say
      <4>2. toDevice' = <<>>
        <5>1. Tail(toDevice) \in Seq(Frames) /\ Len(Tail(toDevice)) = 1 - 1
          BY <1>1, <2>1, Lines
        <5>2. Len(Tail(toDevice)) = 0
          BY <5>1
        <5> QED  BY <4>1, <5>1, <5>2, Lines
      <4>3. /\ dev'.does = "frame" /\ dev'.cmdline = dev.cmdline /\ dev'.start = dev.start
            /\ dev'.end = dev.end
        BY <1>1, <4>1 DEF Devs
      <4>4. Progress(host.section, host.pos)'
        BY <2>1, <3>1, <4>1, <4>3, ProgressKept
      <4>5. Framing'
        BY <2>1, <3>1, <4>1, <4>2, <4>4 DEF Framing
      <4> QED  BY <4>3, <4>5 DEF Requested, Left
    <3> QED  BY <3>2, <3>3
  <2> QED  BY <2>2, <2>3
<1>8. CASE SendFrame
  <2>1. host.does = "send" /\ toDevice = <<>> /\ toHost = <<>> /\ Progress(host.section, host.pos)
    BY <1>5, <1>8 DEF SendFrame
  <2>2. /\ host' = [host EXCEPT !.does = "reply"] /\ toDevice' = Append(toDevice, f)
        /\ mem' = mem /\ files' = files /\ dev' = dev /\ toHost' = toHost
    BY <1>8 DEF SendFrame, Put, f
  <2>3. host'.does = "reply" /\ host'.section = host.section /\ host'.pos = host.pos
    BY <1>1, <2>2 DEF Hosts
  <2>4. Len(toDevice') = 1 /\ toDevice'[1] = f
    BY <2>1, <2>2
  <2>5. Same(f, f)
    <3>1. f \in Frames
      BY <1>4 DEF f
    <3> QED  BY <3>1 DEF Same, Frames
  <2>6. Same(toDevice[1], Script[host.section][host.pos])'
    BY <2>3, <2>4, <2>5 DEF Same, f
  <2>7. Progress(host.section, host.pos)'
    BY <2>1, <2>2, <2>3, ProgressKept
  <2>8. Framing'
    BY <2>1, <2>2, <2>3, <2>4, <2>6, <2>7 DEF Framing
  <2> QED  BY <2>2, <2>8 DEF Requested, Left
<1>9. CASE Reply
  <2>1. /\ host.does = "reply" /\ toHost # <<>> /\ mem' = mem /\ files' = files /\ dev' = dev
        /\ toDevice' = toDevice
    BY <1>9 DEF Reply
  <2>2. CASE /\ toDevice = <<>> /\ toHost = <<"C">> /\ Progress(host.section, host.pos)
    <3>1. Head(toHost) = "C" /\ Tail(toHost) = <<>>
      BY <2>2
    <3>2. host' = [host EXCEPT !.does = "send"] /\ toHost' = <<>>
      BY <1>9, <3>1 DEF Reply
    <3>3. host'.does = "send" /\ host'.section = host.section /\ host'.pos = host.pos
      BY <1>1, <3>2 DEF Hosts
    <3>4. Progress(host.section, host.pos)'
      BY <2>1, <2>2, <3>3, ProgressKept
    <3>5. Framing'
      BY <2>1, <2>2, <3>2, <3>3, <3>4 DEF Framing
    <3> QED  BY <2>1, <3>5 DEF Requested, Left
  <2>3. CASE /\ toDevice = <<>> /\ toHost = <<"K">> /\ host.section # "jump"
             /\ Progress(host.section, host.pos + 1)
    <3>1. Head(toHost) = "K" /\ Tail(toHost) = <<>>
      BY <2>3
    <3>2. host' = Confirmed /\ toHost' = <<>>
      BY <1>9, <3>1 DEF Reply
    <3>3. host'.does = "send" /\ Progress(host.section, host.pos)'
      <4>1. CASE host.pos < Len(Script[host.section])
        <5>1. host' = [host EXCEPT !.does = "send", !.pos = @ + 1]
          BY <3>2, <4>1 DEF Confirmed
        <5>2. host'.does = "send" /\ host'.section = host.section /\ host'.pos = host.pos + 1
          BY <1>1, <5>1 DEF Hosts
        <5> QED  BY <2>1, <2>3, <5>2, ProgressKept
      <4>2. CASE ~(host.pos < Len(Script[host.section]))
        <5>1. host.pos = Len(Script[host.section])
          <6>1. Len(Script[host.section]) \in Nat /\ host.pos <= Len(Script[host.section])
            BY <1>3, <1>4, ScriptFacts, FrameCounts DEF SectionNames, AtFrame
          <6> QED  BY <1>4, <4>2, <6>1
        <5>2. host' = NextSection
          BY <3>2, <4>2 DEF Confirmed
        <5>3. host' = [does |-> "send", section |-> NextOf(host.section), pos |-> 1]
          BY <1>1, <1>4, <2>3, <5>2, NextSectionFacts
        <5>4. host'.does = "send" /\ host'.section = NextOf(host.section) /\ host'.pos = 1
          BY <5>3
        <5>5. Progress(NextOf(host.section), 1)
          <6>1. Progress(host.section, Len(Script[host.section]) + 1) /\ host.section \in files
            BY <1>3, <2>3, <5>1
          <6> QED  BY <1>4, <2>3, <6>1, ProgressNext
        <5> QED  BY <2>1, <5>4, <5>5, ProgressKept
      <4> QED  BY <4>1, <4>2
    <3>4. Framing'
      BY <2>1, <2>3, <3>2, <3>3 DEF Framing
    <3> QED  BY <2>1, <3>4 DEF Requested, Left
  <2> QED  BY <1>5, <2>1, <2>2, <2>3
<1>10. CASE Disturb
  <2>1. /\ toDevice # <<>> /\ toDevice' # <<>> /\ Len(toDevice') = Len(toDevice) /\ toHost' = toHost
        /\ \A h : \A i \in 1..Len(toDevice) : Same(toDevice[i], h) => Same(toDevice'[i], h)
    BY <1>1, <1>10, Disturbed
  <2>2. host' = host /\ dev' = dev /\ mem' = mem /\ files' = files
    BY <1>10 DEF Disturb
  <2>3. /\ host.does = "reply" /\ Len(toDevice) = 1 /\ toHost = <<>> /\ Same(toDevice[1], f)
        /\ Progress(host.section, host.pos)
    BY <1>5, <2>1
  <2>4. Same(toDevice'[1], f)
    <3>1. 1 \in 1..Len(toDevice)
      BY <2>3
    <3> QED  BY <2>1, <2>3, <3>1
  <2>5. Same(toDevice[1], Script[host.section][host.pos])'
    BY <2>2, <2>4 DEF Same, f
  <2>6. Progress(host.section, host.pos)'
    BY <2>2, <2>3, ProgressKept
  <2>7. Framing'
    BY <2>1, <2>2, <2>3, <2>5, <2>6 DEF Framing
  <2> QED  BY <2>2, <2>7 DEF Requested, Left
<1> QED  BY <1>6, <1>7, <1>8, <1>9, <1>10 DEF SflStep, Device, Flterm

LEMMA NextSerial ==
  ASSUME Stages, Shape, SerialInv, ~NoisyReplies, Serial
  PROVE  SerialInv'
<1>1. SflStep(AfterSerial) /\ SflTyped /\ Framing /\ Requested /\ Left
  BY DEF Serial, SerialInv
<1>2. SflTyped'
  BY <1>1, SflStepTyped
<1>3. dev.does \in {"gone", "magic", "frame"}
  BY <1>1 DEF SflTyped, Devs
<1>4. Framing' /\ Requested' /\ Left'
  BY <1>1, <1>3, NextSerialGone, NextSerialMagic, NextSerialFrame
<1> QED  BY <1>2, <1>4 DEF SerialInv

LEMMA SerialInit == Init => SerialInv
<1> SUFFICES ASSUME Init  PROVE SerialInv
  OBVIOUS
<1>1. /\ files = {} /\ host = Terminal /\ dev = Gone /\ toDevice = <<>> /\ toHost = <<>>
      /\ started.from = "none"
  BY DEF Init, SflInit, MemoryInit, NotStarted
<1>2. Gone \in Devs /\ Gone.does = "gone"
  BY DEF Devs, Gone, None
<1>3. Terminal \in Hosts /\ Terminal.does = "terminal"
  BY DEF Terminal, Hosts, None
<1>4. <<>> \in Seq(Frames) /\ <<>> \in Seq(Words)
  OBVIOUS
<1>5. SflTyped
  BY <1>1, <1>2, <1>3, <1>4 DEF SflTyped, HostTyped
<1>6. SerialWhole
  BY <1>1 DEF SerialWhole
<1> QED  BY <1>1, <1>2, <1>3, <1>5, <1>6 DEF SerialInv, Framing, Requested, Left

\* The other ways to load leave what was started from the line alone.
LEMMA SerialKept ==
  ASSUME SerialInv, UNCHANGED <<host, dev, toDevice, toHost>>,
         dev.does = "gone" \/ UNCHANGED <<mem, files>>,
         files' = files \/ (files' = {} /\ host.does = "terminal"),
         dev.does = "gone" /\ stage' \in {"abort", "serial"} =>
           stage \in {"abort", "serial"} \/ (host.does = "terminal" /\ toHost = <<>>),
         started'.from = "serial" => started' = started /\ mem' = mem /\ files' = files
  PROVE  SerialInv'
<1>1. SflTyped /\ Framing /\ Requested /\ Left
  BY DEF SerialInv
<1>2. SflTyped'
  <2>1. HostTyped'
    BY <1>1 DEF SflTyped, HostTyped, AtFrame
  <2> QED  BY <1>1, <2>1 DEF SflTyped
<1>3. Framing'
  <2>1. SUFFICES ASSUME dev.does = "frame"  PROVE Framing'
    BY DEF Framing
  <2>2. mem' = mem /\ files' = files
    BY <2>1
  <2>3. /\ Progress(host.section, host.pos) => Progress(host.section, host.pos)'
        /\ Progress(host.section, host.pos + 1) => Progress(host.section, host.pos + 1)'
    BY <2>2, ProgressKept
  <2>4. Same(toDevice[1], Script[host.section][host.pos])' = Same(toDevice[1], Script[host.section][host.pos])
    BY DEF Same
  <2> QED  BY <1>1, <2>3, <2>4 DEF Framing
<1>4. Requested'
  <2>1. AtFirst' = AtFirst
    BY DEF AtFirst
  <2>2. /\ Same(toDevice[1], Script["kernel"][1])' = Same(toDevice[1], Script["kernel"][1])
        /\ Same(toDevice[2], Script["kernel"][1])' = Same(toDevice[2], Script["kernel"][1])
        /\ Same(toDevice[1], MagicAck)' = Same(toDevice[1], MagicAck)
    BY DEF Same, MagicAck, Frame
  <2> QED  BY <1>1, <2>1, <2>2 DEF Requested
<1>5. Left'
  <2>1. SUFFICES ASSUME dev.does = "gone"  PROVE Left'
    BY DEF Left
  <2>2. SerialWhole'
    <3>1. CASE started'.from = "serial"
      BY <1>1, <2>1, <3>1, SerialWholeKept DEF Left
    <3>2. CASE started'.from # "serial"
      BY <3>2 DEF SerialWhole
    <3> QED  BY <3>1, <3>2
  <2> QED  BY <1>1, <2>1, <2>2 DEF Left
<1> QED  BY <1>2, <1>3, <1>4, <1>5 DEF SerialInv
-----------------------------------------------------------------------------
(* The card: what is on it *)

\* The region that is loaded into is a whole number of clusters long.
LEMMA ClusterFacts ==
  ASSUME NEW n \in Nat
  PROVE  /\ n * ClusterSectors \in Nat /\ (n + 1) * ClusterSectors = n * ClusterSectors + ClusterSectors
         /\ n * ClusterSectors < Size => (n + 1) * ClusterSectors <= Size /\ n + 1 <= Size
         /\ 0 * ClusterSectors = 0
<1>1. ClusterSectors \in Nat \ {0} /\ Size \in Nat \ {0} /\ Size % ClusterSectors = 0
  BY CardAssumption, SizeAssumption
<1>2. Size = (Size \div ClusterSectors) * ClusterSectors /\ Size \div ClusterSectors \in Nat
  BY <1>1
<1>3. PICK k \in Nat : Size = k * ClusterSectors
  BY <1>2
<1>4. n * ClusterSectors \in Nat /\ (n + 1) * ClusterSectors = n * ClusterSectors + ClusterSectors
      /\ n + 1 <= (n + 1) * ClusterSectors
  BY <1>1
<1>5. n < k => (n + 1) * ClusterSectors <= k * ClusterSectors
  BY <1>1
<1>6. n >= k => n * ClusterSectors >= k * ClusterSectors
  BY <1>1
<1>7. k * ClusterSectors \in Nat /\ (n + 1) * ClusterSectors \in Nat
  BY <1>1, <1>3, <1>4
<1> QED  BY <1>1, <1>3, <1>4, <1>5, <1>6, <1>7

\* The n-th cluster of a file on the card has no other place.
LEMMA OnePlace ==
  ASSUME chain \in Chains, NEW f \in Regions, NEW n \in 1..Size, n <= Len(chain[f])
  PROVE  Places(chain[f][n]) = {<<f, n>>}
<1>1. /\ chain \in [Regions -> Seq(Nat) \ {<<>>}]
      /\ \A g, h \in Regions : \A i \in 1..Len(chain[g]), j \in 1..Len(chain[h]) :
           chain[g][i] = chain[h][j] => g = h /\ i = j
  BY ChainsAssumption
<1>2. Size \in Nat /\ \A g \in Regions : Len(chain[g]) \in Nat
  BY <1>1, SizeAssumption
<1>3. <<f, n>> \in Places(chain[f][n])
  BY DEF Places
<1>4. ASSUME NEW p \in Places(chain[f][n])  PROVE p = <<f, n>>
  <2>1. /\ p \in Regions \X (1..Size) /\ p[2] <= Len(chain[p[1]]) /\ chain[p[1]][p[2]] = chain[f][n]
    BY <1>4 DEF Places
  <2>2. p = <<p[1], p[2]>> /\ p[1] \in Regions /\ p[2] \in 1..Size
    BY <2>1
  <2>3. p[2] \in 1..Len(chain[p[1]]) /\ n \in 1..Len(chain[f])
    BY <1>2, <2>1, <2>2
  <2>4. p[1] = f /\ p[2] = n
    BY ONLY <1>1, <2>1, <2>2, <2>3, f \in Regions
  <2> QED  BY <2>2, <2>4
<1> QED  BY <1>3, <1>4

\* The FAT leads from a cluster to the next one of its file, and a cluster has its sectors.
LEMMA ChainFacts ==
  ASSUME chain \in Chains, NEW f \in Regions, NEW n \in 1..Size, n <= Len(chain[f])
  PROVE  /\ chain[f][n] \in Nat
         /\ Fat(chain[f][n]) = EndOfChain \/
              (n + 1 <= Len(chain[f]) /\ Fat(chain[f][n]) = chain[f][n + 1])
         /\ \A i : Sector(chain[f][n], i) = Unit("card", f, (n - 1) * ClusterSectors + i)
<1>1. Places(chain[f][n]) = {<<f, n>>}
  BY OnePlace
<1> DEFINE c == chain[f][n]
           p == CHOOSE q \in Places(c) : TRUE
<1>2. p = <<f, n>> /\ Places(c) # {}
  BY <1>1
<1>3. p[1] = f /\ p[2] = n
  <2> HIDE DEF p
  <2> QED  BY <1>2
<1>4. \A i : Sector(c, i) = Unit("card", f, (n - 1) * ClusterSectors + i)
  <2>1. \A i : Sector(c, i) = Unit("card", p[1], (p[2] - 1) * ClusterSectors + i)
    BY <1>2 DEF Sector
  <2> HIDE DEF p
  <2> QED  BY <1>3, <2>1
<1>5. chain \in [Regions -> Seq(Nat) \ {<<>>}] /\ n \in Nat
  BY ChainsAssumption
<1>6. c \in Nat /\ Len(chain[f]) \in Nat
  <2>1. chain[f] \in Seq(Nat) /\ n \in 1..Len(chain[f])
    BY <1>5
  <2> QED  BY <2>1, ElementOfSeq
<1>7. Fat(c) = EndOfChain \/ (n # Len(chain[f]) /\ Fat(c) = chain[f][n + 1])
  <2>1. Fat(c) = EndOfChain \/ (p[2] # Len(chain[p[1]]) /\ Fat(c) = chain[p[1]][p[2] + 1])
    BY <1>2 DEF Fat
  <2> HIDE DEF p
  <2> QED  BY <1>3, <2>1
<1>8. n # Len(chain[f]) => n + 1 <= Len(chain[f])
  BY <1>5, <1>6
<1> QED  BY <1>4, <1>6, <1>7, <1>8

LEMMA AwayFacts == Away \in Cards /\ Away.does = "away" /\ Away.n = 0
BY DEF Away, Cards, None

LEMMA FindFacts ==
  ASSUME NEW f \in Regions, Find(f)
  PROVE  card' \in Cards /\ card'.does = "find" /\ card'.file = f /\ card'.n = 0
<1>1. "find" \in {"away", "find", "load"} /\ f \in Regions \cup {"none"}
  OBVIOUS
<1> QED  BY <1>1, AwayFacts DEF Find, Cards

LEMMA RegionFacts ==
  /\ "kernel" \in Regions /\ "cmdline" \in Regions /\ "initrd" \in Regions
  /\ \A f \in Regions : f = "kernel" \/ f = "cmdline" \/ f = "initrd"
BY DEF Regions

-----------------------------------------------------------------------------
(* The card: every step of the loader *)

LEMMA NothingLoaded ==
  ASSUME sizes' = Nothing
  PROVE  Loaded' /\ sizes' = [f \in Regions |-> sizes'[f]]
<1>1. \A f \in Regions : sizes'[f] = 0
  BY DEF Nothing
<1>2. 0 \in 0..Size /\ 1..0 = {} /\ 0 <= Size
  BY SizeAssumption
<1>3. sizes' = [f \in Regions |-> sizes'[f]]
  BY DEF Nothing
<1>4. Loaded'
  BY <1>1, <1>2 DEF Loaded, Holds
<1> QED  BY <1>3, <1>4

\* A file of the size given is in memory.
LEMMA NextGoOn ==
  ASSUME Stages, CardInv, card.does # "away", NEW size \in Nat, size <= Size,
         GoOn(size, "prompt"), fatMixed' = FALSE,
         \A f \in Regions : f # card.file => mem'[f] = mem[f],
         \A i \in 1..size : mem'[card.file][i] = Unit("card", card.file, i)
  PROVE  CardInv'
<1>1. /\ stage = "card" /\ card.file \in Regions /\ started.from = "none"
  BY DEF Stages
<1>2. /\ card \in Cards /\ sizes = [f \in Regions |-> sizes[f]] /\ chain \in Chains
      /\ \A f \in Regions : sizes[f] \in 0..Size /\ Holds(f, "card", sizes[f])
      /\ sizes[card.file] = 0
      /\ card.file = "kernel" => sizes = Nothing
      /\ card.file = "cmdline" => sizes["initrd"] = 0
      /\ card.file # "kernel" => sizes["kernel"] > 0
  BY <1>1 DEF CardInv, Order, Loaded
<1>3. size \in 0..Size
  BY SizeAssumption
<1>4. ASSUME sizes' = [sizes EXCEPT ![card.file] = size]
      PROVE  /\ Loaded' /\ sizes' = [f \in Regions |-> sizes'[f]]
             /\ \A f \in Regions : sizes'[f] = IF f = card.file THEN size ELSE sizes[f]
  <2>1. sizes' = [f \in Regions |-> sizes'[f]]
        /\ \A f \in Regions : sizes'[f] = IF f = card.file THEN size ELSE sizes[f]
    BY ONLY <1>1, <1>2, <1>4
  <2>2. ASSUME NEW f \in Regions  PROVE sizes'[f] \in 0..Size /\ Holds(f, "card", sizes[f])'
    <3>1. CASE f = card.file
      <4>1. sizes'[f] = size /\ mem'[f] = mem'[card.file]
        BY <2>1, <3>1
      <4> QED  BY <1>3, <3>1, <4>1 DEF Holds
    <3>2. CASE f # card.file
      <4>1. sizes'[f] = sizes[f] /\ mem'[f] = mem[f]
        BY <2>1, <3>2
      <4> QED  BY <1>2, <4>1 DEF Holds
    <3> QED  BY <3>1, <3>2
  <2> QED  BY <2>1, <2>2 DEF Loaded
<1>5. ASSUME LeaveCard("prompt"), UNCHANGED started  PROVE CardInv'
  <2>1. /\ stage' = "prompt" /\ card' = Away /\ sizes' = Nothing /\ started'.from = "none"
    BY <1>1, <1>5 DEF LeaveCard
  <2>2. Loaded' /\ sizes' = [f \in Regions |-> sizes'[f]] /\ card' \in Cards /\ card'.does = "away"
    BY <2>1, NothingLoaded, AwayFacts
  <2> QED  BY <2>1, <2>2 DEF CardInv, Order, Following, CardWhole
<1>6. CASE card.file = "kernel"
  <2>1. CASE size > 0
    <3>1. /\ Find("cmdline") /\ sizes' = [sizes EXCEPT ![card.file] = size]
          /\ stage' = stage /\ chain' = chain /\ started' = started
      BY <1>6, <2>1 DEF GoOn
    <3>2. card' \in Cards /\ card'.does = "find" /\ card'.file = "cmdline" /\ card'.n = 0
      BY <3>1, FindFacts, RegionFacts
    <3>3. /\ Loaded' /\ sizes' = [f \in Regions |-> sizes'[f]]
          /\ sizes'["kernel"] = size /\ sizes'["cmdline"] = 0 /\ sizes'["initrd"] = 0
      <4>1. sizes["cmdline"] = 0 /\ sizes["initrd"] = 0
        BY <1>2, <1>6 DEF Nothing, Regions
      <4> QED  BY <1>4, <1>6, <3>1, <4>1, RegionFacts
    <3> QED  BY <1>1, <1>2, <2>1, <3>1, <3>2, <3>3 DEF CardInv, Order, Following, CardWhole
  <2>2. CASE ~(size > 0)
    BY <1>5, <1>6, <2>2 DEF GoOn
  <2> QED  BY <2>1, <2>2
<1>7. CASE card.file = "cmdline"
  <2>1. /\ Find("initrd") /\ sizes' = [sizes EXCEPT ![card.file] = size]
        /\ stage' = stage /\ chain' = chain /\ started' = started
    BY <1>7 DEF GoOn
  <2>2. card' \in Cards /\ card'.does = "find" /\ card'.file = "initrd" /\ card'.n = 0
    BY <2>1, FindFacts, RegionFacts
  <2>3. /\ Loaded' /\ sizes' = [f \in Regions |-> sizes'[f]]
        /\ sizes'["kernel"] > 0 /\ sizes'["initrd"] = 0
    BY <1>2, <1>4, <1>7, <2>1, RegionFacts
  <2> QED  BY <1>1, <1>2, <2>1, <2>2, <2>3 DEF CardInv, Order, Following, CardWhole
<1>8. CASE card.file = "initrd"
  <2>1. /\ card' = Away /\ sizes' = [sizes EXCEPT ![card.file] = size] /\ chain' = chain
        /\ Boot("card", sizes["cmdline"] > 0, size > 0, size)
    BY <1>8 DEF GoOn
  <2>2. card' \in Cards /\ card'.does = "away" /\ stage' = "booted" /\ started'.from = "card"
        /\ started'.end = size
    BY <2>1, AwayFacts DEF Boot
  <2>3. /\ Loaded' /\ sizes' = [f \in Regions |-> sizes'[f]]
        /\ sizes'["kernel"] > 0 /\ sizes'["initrd"] = size
    BY <1>2, <1>4, <1>8, <2>1, RegionFacts
  <2> QED  BY <2>2, <2>3 DEF CardInv, Order, Following, CardWhole, Loaded
<1> QED  BY <1>1, <1>6, <1>7, <1>8, RegionFacts

LEMMA NextTryLoad ==
  ASSUME Stages, CardInv, card.does # "away", NEW n \in Nat, n <= Size, TryLoad(n, "prompt"),
         fatMixed' = FALSE,
         \A f \in Regions : f # card.file => mem'[f] = mem[f],
         card.size = 0 \/ \A i \in 1..n : mem'[card.file][i] = Unit("card", card.file, i)
  PROVE  CardInv'
<1> DEFINE size == IF n > 0 /\ ~(n > 0 /\ card.size > n) THEN card.size ELSE 0
<1>1. card.size \in Nat
  BY DEF CardInv, Cards
<1>2. size \in Nat /\ size <= n /\ size <= Size /\ (size = 0 \/ card.size # 0)
  BY <1>1, SizeAssumption
<1>3. GoOn(size, "prompt")
  BY DEF TryLoad
<1> HIDE DEF size
<1>4. \A i \in 1..size : mem'[card.file][i] = Unit("card", card.file, i)
  <2>1. CASE size = 0
    BY <2>1
  <2>2. CASE card.size # 0
    <3>1. \A i \in 1..size : i \in 1..n
      BY <1>2
    <3> QED  BY <2>2, <3>1
  <2> QED  BY <1>2, <2>1, <2>2
<1> QED  BY <1>2, <1>3, <1>4, NextGoOn

LEMMA EntryFacts ==
  ASSUME chain \in Chains, NEW f \in Regions, NEW e \in Entries
  PROVE  /\ FirstCluster(e, f) \in Nat /\ EntrySize(e, f) \in Nat /\ 1 <= Len(chain[f])
         /\ EntrySize(e, f) = 0 \/ FirstCluster(e, f) = chain[f][1]
<1>1. chain[f] \in Seq(Nat) /\ chain[f] # <<>>
  BY ChainsAssumption
<1>2. Len(chain[f]) \in Nat /\ 1 <= Len(chain[f])
  BY <1>1, EmptySeq
<1>3. chain[f][1] \in Nat
  <2>1. 1 \in 1..Len(chain[f])
    BY <1>2
  <2> QED  BY <1>1, <2>1, ElementOfSeq
<1>4. ClusterSectors \in Nat /\ ClusterSectors >= 1
  BY CardAssumption
<1> DEFINE all == Len(chain[f]) * ClusterSectors
<1>5. all \in Nat /\ all >= 1
  BY <1>2, <1>4
<1> HIDE DEF all
<1>6. all - 1 \in Nat /\ all + 1 \in Nat
  BY <1>5
<1>7. EntrySize(e, f) \in {all, all - 1, all + 1, 0} /\ (e = "empty" => EntrySize(e, f) = 0)
  BY DEF EntrySize, all
<1>8. EntrySize(e, f) \in Nat
  BY <1>5, <1>6, <1>7
<1>9. FirstCluster(e, f) \in Nat /\ (e = "empty" \/ FirstCluster(e, f) = chain[f][1])
  BY <1>3 DEF FirstCluster
<1> QED  BY <1>2, <1>7, <1>8, <1>9

LEMMA NextCardOpen ==
  ASSUME Stages, CardInv, CardOpen("prompt")
  PROVE  CardInv'
<1>1. /\ stage = "card" /\ card.does = "away" /\ mem' = mem /\ started' = started
      /\ started.from = "none"
  BY DEF CardOpen, Stages
<1>2. /\ fatMixed = FALSE /\ sizes = Nothing
  BY <1>1 DEF CardInv, Order
<1>3. CASE LeaveCard("prompt") /\ fatMixed' = fatMixed
  <2>1. /\ stage' = "prompt" /\ card' = Away /\ sizes' = Nothing
    BY <1>3 DEF LeaveCard
  <2>2. Loaded' /\ sizes' = [f \in Regions |-> sizes'[f]] /\ card' \in Cards /\ card'.does = "away"
    BY <2>1, NothingLoaded, AwayFacts
  <2> QED  BY <1>1, <1>2, <1>3, <2>1, <2>2 DEF CardInv, Order, Following, CardWhole
<1>4. CASE /\ chain' \in Chains /\ Find("kernel") /\ UNCHANGED <<stage, sizes>> /\ fatMixed' = FALSE
  <2>1. card' \in Cards /\ card'.does = "find" /\ card'.file = "kernel" /\ card'.n = 0
    BY <1>4, FindFacts, RegionFacts
  <2>2. sizes' = Nothing /\ sizes'["kernel"] = 0
    BY <1>2, <1>4, RegionFacts DEF Nothing
  <2>3. Nothing' = Nothing
    BY DEF Nothing
  <2>4. Loaded' /\ sizes' = [f \in Regions |-> sizes'[f]]
    BY <2>2, NothingLoaded
  <2> QED  BY <1>1, <1>4, <2>1, <2>2, <2>3, <2>4 DEF CardInv, Order, Following, CardWhole
<1> QED  BY <1>3, <1>4 DEF CardOpen, caches

LEMMA NextFindFile ==
  ASSUME Stages, CardInv, FindFile("prompt")
  PROVE  CardInv'
<1>0. \/ TryLoad(0, "prompt")
      \/ \E e \in Entries :
           /\ card' = [card EXCEPT !.does = "load", !.cluster = FirstCluster(e, card.file),
                                   !.size = EntrySize(e, card.file)]
           /\ UNCHANGED <<stage, started, locked, sizes, chain>>
  BY DEF FindFile
<1>1. card.does = "find" /\ mem' = mem /\ fatMixed' = fatMixed
  BY Zenon DEF FindFile
<1>2. /\ stage = "card" /\ card.file \in Regions /\ started.from = "none"
  BY <1>1 DEF Stages
<1>3. /\ card \in Cards /\ chain \in Chains /\ fatMixed = FALSE /\ card.n = 0
  BY <1>1 DEF CardInv, Following
<1>4. CASE TryLoad(0, "prompt")
  <2>1. /\ 0 \in Nat /\ 0 <= Size /\ card.does # "away" /\ fatMixed' = FALSE
        /\ \A f \in Regions : f # card.file => mem'[f] = mem[f]
        /\ \A i \in 1..0 : mem'[card.file][i] = Unit("card", card.file, i)
    BY <1>1, <1>3, SizeAssumption
  <2> QED  BY <1>4, <2>1, NextTryLoad
<1>5. ASSUME NEW e \in Entries,
             card' = [card EXCEPT !.does = "load", !.cluster = FirstCluster(e, card.file),
                                  !.size = EntrySize(e, card.file)],
             UNCHANGED <<stage, started, locked, sizes, chain>>
      PROVE  CardInv'
  <2> DEFINE c == FirstCluster(e, card.file)
             n == EntrySize(e, card.file)
  <2>1. c \in Nat /\ n \in Nat /\ 1 <= Len(chain[card.file]) /\ (n = 0 \/ c = chain[card.file][1])
    BY <1>2, <1>3, EntryFacts
  <2>2. card' = [card EXCEPT !.does = "load", !.cluster = c, !.size = n]
    BY <1>5
  <2> HIDE DEF c, n
  <2>3. "load" \in {"away", "find", "load"}
    OBVIOUS
  <2>4. card' \in Cards
    BY ONLY <1>3, <2>1, <2>2, <2>3 DEF Cards
  <2>5. card'.does = "load" /\ card'.file = card.file /\ card'.cluster = c /\ card'.n = 0 /\ card'.size = n
    BY ONLY <1>3, <2>2 DEF Cards
  <2>6. 0 * ClusterSectors = 0 /\ 0 < Size
    BY ClusterFacts, SizeAssumption
  <2>7. Following'
    <3>1. card'.n * ClusterSectors < Size
      BY <2>5, <2>6
    <3>2. n # 0 => card'.n + 1 <= Len(chain'[card'.file]) /\ card'.cluster = chain'[card'.file][card'.n + 1]
      BY <1>5, <2>1, <2>5
    <3>3. \A i \in 1..(card'.n * ClusterSectors) : mem'[card'.file][i] = Unit("card", card'.file, i)
      BY <2>5, <2>6
    <3> QED  BY <2>5, <3>1, <3>2, <3>3 DEF Following
  <2>8. Order' /\ Loaded'
    <3>1. Order /\ Loaded
      BY <1>2 DEF CardInv
    <3>2. Nothing' = Nothing /\ \A r, m, k : Holds(r, m, k)' = Holds(r, m, k)
      BY <1>1 DEF Nothing, Holds
    <3>3. Loaded'
      BY <1>1, <1>5, <3>1 DEF Loaded, Holds
    <3>4. Order'
      BY <1>1, <1>5, <2>5, <3>1, <3>2 DEF Order
    <3> QED  BY <3>3, <3>4
  <2> QED  BY <1>1, <1>2, <1>3, <1>5, <2>4, <2>7, <2>8 DEF CardInv, CardWhole
<1> QED  BY <1>0, <1>4, <1>5

\* The clusters up to the one that is loaded are in memory.
LEMMA ClusterLoaded ==
  ASSUME Stages, Shape, CardInv, card.does = "load", card.size # 0,
         LoadCluster(card.cluster, card.n)
  PROVE  \A i \in 1..((card.n + 1) * ClusterSectors) :
           mem'[card.file][i] = Unit("card", card.file, i)
<1> DEFINE n == card.n
           f == card.file
           here == n * ClusterSectors
           next == (n + 1) * ClusterSectors
<1>1. f \in Regions /\ n \in Nat /\ chain \in Chains /\ here < Size
  BY DEF Stages, CardInv, Cards, Following
<1>2. /\ n + 1 <= Len(chain[f]) /\ card.cluster = chain[f][n + 1]
      /\ \A i \in 1..here : mem[f][i] = Unit("card", f, i)
  BY DEF CardInv, Following
<1>3. here \in Nat /\ next \in Nat /\ next <= Size /\ n + 1 <= Size /\ Size \in Nat
      /\ next = here + ClusterSectors /\ ClusterSectors \in Nat
  <2>1. ClusterSectors \in Nat /\ Size \in Nat
    BY SizeAssumption, CardAssumption
  <2>2. /\ here \in Nat /\ next = here + ClusterSectors /\ next <= Size /\ n + 1 <= Size
    BY ONLY <1>1, ClusterFacts
  <2> HIDE DEF here, next
  <2> QED  BY ONLY <2>1, <2>2
<1>4. n + 1 \in 1..Size /\ (n + 1) - 1 = n
  BY <1>1, <1>3
<1>5. \A k : Sector(card.cluster, k) = Unit("card", f, here + k)
  <2>1. \A k : Sector(chain[f][n + 1], k) = Unit("card", f, ((n + 1) - 1) * ClusterSectors + k)
    <3> HIDE DEF n, f
    <3> QED  BY ONLY <1>1, <1>2, <1>4, ChainFacts
  <2> QED  BY <1>2, <1>4, <2>1
<1>6. mem'[f] = [i \in 1..Size |-> IF i \in (here + 1)..next THEN Sector(card.cluster, i - here)
                                   ELSE mem[f][i]]
  <2>1. f \in DOMAIN mem
    BY <1>1 DEF Shape
  <2> QED  BY <2>1 DEF LoadCluster
<1> HIDE DEF n, f, here, next
<1>7. ASSUME NEW i \in 1..next  PROVE mem'[f][i] = Unit("card", f, i)
  <2>1. i \in 1..Size /\ i \in Nat
    BY <1>3
  <2>2. mem'[f][i] = IF i \in (here + 1)..next THEN Sector(card.cluster, i - here) ELSE mem[f][i]
    BY <1>6, <2>1
  <2>3. CASE i \in (here + 1)..next
    <3>1. here + (i - here) = i
      BY <1>3, <2>1
    <3> QED  BY <1>5, <2>2, <2>3, <3>1
  <2>4. CASE i \notin (here + 1)..next
    <3>1. i \in 1..here
      BY <1>3, <2>1, <2>4
    <3> QED  BY <1>2, <2>2, <2>4, <3>1
  <2> QED  BY <2>3, <2>4
<1> QED  BY <1>7 DEF n, f, next

LEMMA NextLoadLoop ==
  ASSUME Stages, Shape, CardInv, ~PartialReads, LoadLoop("prompt")
  PROVE  CardInv'
<1>0. /\ card.does = "load"
      /\ \/ /\ LoadCluster(card.cluster, card.n)
            /\ \E c \in 0..Failed :
                 /\ ReadFat(card.cluster, c)
                 /\ IF c = Failed THEN TryLoad(0, "prompt")
                    ELSE IF c = EndOfChain \/ (card.n + 1) * ClusterSectors = Size
                    THEN TryLoad((card.n + 1) * ClusterSectors, "prompt")
                    ELSE /\ card' = [card EXCEPT !.cluster = c, !.n = @ + 1]
                         /\ UNCHANGED <<stage, started, locked, sizes, chain>>
         \/ TryLoad(0, "prompt") /\ UNCHANGED <<mem, caches>>
  <2>1. card.does = "load"
    BY DEF LoadLoop
  <2>2. \/ /\ LoadCluster(card.cluster, card.n)
            /\ \E c \in 0..Failed :
                 /\ ReadFat(card.cluster, c)
                 /\ IF c = Failed THEN TryLoad(0, "prompt")
                    ELSE IF c = EndOfChain \/ (card.n + 1) * ClusterSectors = Size
                    THEN TryLoad((card.n + 1) * ClusterSectors, "prompt")
                    ELSE /\ card' = [card EXCEPT !.cluster = c, !.n = @ + 1]
                         /\ UNCHANGED <<stage, started, locked, sizes, chain>>
        \/ TryLoad(0, "prompt") /\ UNCHANGED <<mem, caches>>
    BY DEF LoadLoop
  <2> QED  BY <2>1, <2>2
<1>1. /\ card.does = "load" /\ card.file \in Regions /\ stage = "card" /\ started.from = "none"
  BY <1>0 DEF Stages
<1>2. /\ card \in Cards /\ chain \in Chains /\ fatMixed = FALSE /\ card.n \in Nat
      /\ card.n * ClusterSectors < Size
      /\ card.size # 0 =>
           card.n + 1 <= Len(chain[card.file]) /\ card.cluster = chain[card.file][card.n + 1]
  BY <1>1 DEF CardInv, Cards, Following
<1>3. CASE TryLoad(0, "prompt") /\ UNCHANGED <<mem, caches>>
  <2>1. /\ 0 \in Nat /\ 0 <= Size /\ card.does # "away" /\ fatMixed' = FALSE
        /\ \A f \in Regions : f # card.file => mem'[f] = mem[f]
        /\ \A i \in 1..0 : mem'[card.file][i] = Unit("card", card.file, i)
    BY <1>1, <1>2, <1>3, SizeAssumption DEF caches
  <2> QED  BY <1>3, <2>1, NextTryLoad
<1>4. ASSUME LoadCluster(card.cluster, card.n), NEW c \in 0..Failed, ReadFat(card.cluster, c),
             IF c = Failed THEN TryLoad(0, "prompt")
             ELSE IF c = EndOfChain \/ (card.n + 1) * ClusterSectors = Size
             THEN TryLoad((card.n + 1) * ClusterSectors, "prompt")
             ELSE /\ card' = [card EXCEPT !.cluster = c, !.n = @ + 1]
                  /\ UNCHANGED <<stage, started, locked, sizes, chain>>
      PROVE  CardInv'
  <2>1. fatMixed' = FALSE /\ (c = Failed \/ c = Fat(card.cluster))
    <3>1. (PartialReads \/ fatMixed) = FALSE
      BY <1>2, CardAssumption
    <3> QED  BY <1>2, <1>4, <3>1 DEF ReadFat
  <2>2. \A f \in Regions : f # card.file => mem'[f] = mem[f]
    BY <1>4 DEF LoadCluster, Shape
  <2>3. card.size = 0 \/ \A i \in 1..((card.n + 1) * ClusterSectors) :
                           mem'[card.file][i] = Unit("card", card.file, i)
    BY <1>1, <1>4, ClusterLoaded
  <2> DEFINE next == (card.n + 1) * ClusterSectors
  <2>4. /\ next \in Nat /\ next <= Size /\ card.n + 1 <= Size /\ card.n + 1 \in Nat
    <3>1. ClusterSectors \in Nat /\ Size \in Nat
      BY SizeAssumption, CardAssumption
    <3>2. /\ card.n * ClusterSectors \in Nat /\ next = card.n * ClusterSectors + ClusterSectors
          /\ next <= Size /\ card.n + 1 <= Size
      BY ONLY <1>2, ClusterFacts
    <3> HIDE DEF next
    <3> QED  BY ONLY <1>2, <3>1, <3>2
  <2>5. CASE c = Failed
    <3>1. /\ 0 \in Nat /\ 0 <= Size /\ card.does # "away"
          /\ \A i \in 1..0 : mem'[card.file][i] = Unit("card", card.file, i)
      BY <1>1, SizeAssumption
    <3> QED  BY <1>4, <2>1, <2>2, <2>5, <3>1, NextTryLoad
  <2>6. CASE c # Failed /\ (c = EndOfChain \/ next = Size)
    <3>1. TryLoad(next, "prompt") /\ card.does # "away"
      BY <1>1, <1>4, <2>6
    <3>2. card.size = 0 \/ \A i \in 1..next : mem'[card.file][i] = Unit("card", card.file, i)
      BY <2>3
    <3> HIDE DEF next
    <3> QED  BY <2>1, <2>2, <2>4, <3>1, <3>2, NextTryLoad
  <2>7. CASE c # Failed /\ c # EndOfChain /\ next # Size
    <3>1. /\ card' = [card EXCEPT !.cluster = c, !.n = card.n + 1]
          /\ stage' = stage /\ started' = started /\ sizes' = sizes /\ chain' = chain
      BY <1>4, <2>7
    <3>2. c \in Nat
      BY <1>4
    <3>3. card' \in Cards /\ card'.does = "load" /\ card'.file = card.file /\ card'.cluster = c
          /\ card'.n = card.n + 1 /\ card'.size = card.size
      <4>1. card' \in Cards
        BY ONLY <1>2, <2>4, <3>1, <3>2 DEF Cards
      <4> QED  BY ONLY <1>1, <1>2, <3>1, <4>1 DEF Cards
    <3>4. card'.n * ClusterSectors < Size
      BY <2>4, <2>7, <3>3, SizeAssumption
    <3>5. card.size # 0 =>
            /\ card'.n + 1 <= Len(chain'[card'.file]) /\ card'.cluster = chain'[card'.file][card'.n + 1]
      <4> SUFFICES ASSUME card.size # 0
                   PROVE  /\ (card.n + 1) + 1 <= Len(chain[card.file])
                          /\ c = chain[card.file][(card.n + 1) + 1]
        BY <3>1, <3>3
      <4>1. card.n + 1 \in 1..Size
        BY <1>2, <2>4, SizeAssumption
      <4>2. Fat(chain[card.file][card.n + 1]) = EndOfChain \/
              ((card.n + 1) + 1 <= Len(chain[card.file])
               /\ Fat(chain[card.file][card.n + 1]) = chain[card.file][(card.n + 1) + 1])
        <5> DEFINE m == card.n + 1
        <5>1. m \in 1..Size /\ m <= Len(chain[card.file]) /\ card.file \in Regions /\ chain \in Chains
          BY <1>1, <1>2, <4>1
        <5> HIDE DEF m
        <5>2. Fat(chain[card.file][m]) = EndOfChain \/
                (m + 1 <= Len(chain[card.file]) /\ Fat(chain[card.file][m]) = chain[card.file][m + 1])
          BY ONLY <5>1, ChainFacts
        <5> QED  BY <5>2 DEF m
      <4> QED  BY <1>2, <2>1, <2>7, <4>2
    <3>6. Following'
      <4>1. card.size = 0 \/ \A i \in 1..(card'.n * ClusterSectors) :
                               mem'[card'.file][i] = Unit("card", card'.file, i)
        BY <2>3, <3>3
      <4> QED  BY <3>3, <3>4, <3>5, <4>1 DEF Following
    <3>7. Order'
      <4>1. Order /\ Nothing' = Nothing
        BY DEF CardInv, Nothing
      <4> QED  BY <1>1, <3>1, <3>3, <4>1 DEF Order
    <3>8. Loaded'
      <4>1. \A f \in Regions : sizes[f] \in 0..Size /\ Holds(f, "card", sizes[f])
        BY <1>1 DEF CardInv, Loaded
      <4>2. sizes[card.file] = 0
        BY <1>1 DEF CardInv, Order
      <4>3. ASSUME NEW f \in Regions  PROVE sizes'[f] \in 0..Size /\ Holds(f, "card", sizes[f])'
        <5>1. CASE f = card.file
          <6>1. sizes'[f] = 0 /\ 0 \in 0..Size /\ 0 <= Size /\ 1..0 = {}
            BY <3>1, <4>2, <5>1, SizeAssumption
          <6> QED  BY <6>1 DEF Holds
        <5>2. CASE f # card.file
          <6>1. sizes'[f] = sizes[f] /\ mem'[f] = mem[f]
            BY <2>2, <3>1, <5>2
          <6> QED  BY <4>1, <6>1 DEF Holds
        <5> QED  BY <5>1, <5>2
      <4> QED  BY <4>3 DEF Loaded
    <3>9. /\ sizes' = [f \in Regions |-> sizes'[f]] /\ CardWhole'
      <4>1. sizes = [f \in Regions |-> sizes[f]]
        BY DEF CardInv
      <4> QED  BY <1>1, <3>1, <4>1 DEF CardWhole
    <3> QED  BY <1>1, <1>2, <2>1, <3>1, <3>3, <3>6, <3>7, <3>8, <3>9 DEF CardInv
  <2> QED  BY <2>5, <2>6, <2>7
<1> QED  BY <1>0, <1>3, <1>4

LEMMA NextCard ==
  ASSUME Stages, Shape, CardInv, ~PartialReads, FromCard
  PROVE  CardInv'
BY NextCardOpen, NextFindFile, NextLoadLoop DEF FromCard, CardStep

LEMMA CardInit0 == Init => CardInv
<1> SUFFICES ASSUME Init  PROVE CardInv
  OBVIOUS
<1>1. /\ card = Away /\ fatMixed = FALSE /\ sizes = Nothing /\ started.from = "none"
      /\ stage \in {"abort", "prompt"}
  BY DEF Init, CardInit, MemoryInit, NotStarted
<1>2. sizes = [f \in Regions |-> sizes[f]]
  BY <1>1 DEF Nothing
<1> QED  BY <1>1, <1>2, AwayFacts DEF CardInv, Order, Following, CardWhole

\* The other ways to load leave what was started from the card alone.
LEMMA CardKept ==
  ASSUME CardInv, Stages, UNCHANGED <<chain, card, fatMixed, sizes>>,
         card.does # "away" \/ started.from = "card" => UNCHANGED <<stage, mem, started>>,
         stage' = "booted" => stage = "booted" \/ started'.from # "card",
         stage' # "booted" => stage # "booted",
         stage = "card" \/ started.from = "card" => UNCHANGED <<stage, mem, started>>,
         started'.from = "card" => started.from = "card"
  PROVE  CardInv'
<1>1. CardInv /\ Order /\ Following /\ CardWhole /\ Nothing' = Nothing
  BY DEF CardInv, Nothing
<1>2. Following'
  BY <1>1 DEF Following
<1>3. CASE stage = "card" \/ started.from = "card"
  <2>1. stage' = stage /\ mem' = mem /\ started' = started
    BY <1>3
  <2>2. Order' /\ CardWhole'
    BY <1>1, <2>1 DEF Order, CardWhole, Holds
  <2>3. Loaded'
    BY <1>3, <2>1 DEF CardInv, Loaded, Holds
  <2> QED  BY <1>1, <1>2, <2>2, <2>3 DEF CardInv
<1>4. CASE stage # "card" /\ started.from # "card"
  <2>1. card.does = "away" /\ started'.from # "card"
    BY <1>4 DEF Stages
  <2>2. Order'
    BY <1>1, <2>1 DEF Order
  <2>3. stage' = "card" => Loaded'
    <3>1. SUFFICES ASSUME stage' = "card"  PROVE Loaded'
      OBVIOUS
    <3>2. sizes' = Nothing
      BY <1>1, <2>1, <3>1 DEF Order
    <3> QED  BY <3>2, NothingLoaded
  <2> QED  BY <1>1, <1>2, <2>1, <2>2, <2>3 DEF CardInv, CardWhole
<1> QED  BY <1>3, <1>4
-----------------------------------------------------------------------------
(* The boot loader *)

LEMMA SerialShape ==
  ASSUME Shape, Serial
  PROVE  Shape'
<1>1. CASE Grab(AfterSerial)
  <2>1. CASE Head(toDevice).good
    <3>1. Accept(Head(toDevice))
      BY <1>1, <2>1 DEF Grab
    <3>2. mem' = mem \/ \E r, i, v : Poke(r, i, v)
      BY <3>1 DEF Accept
    <3> QED  BY <3>2, PokeKeepsShape DEF Shape
  <2>2. CASE ~Head(toDevice).good
    BY <1>1, <2>2 DEF Grab, Refuse, Shape
  <2> QED  BY <2>1, <2>2
<1>2. CASE ~Grab(AfterSerial)
  <2>1. mem' = mem
    BY <1>2 DEF Serial, SflStep, Device, Flterm, SerialStart, CheckAck, AckTimeout, Show, Answer,
                SendFrame, Reply, RestartFlterm, Disturb
  <2> QED  BY <2>1 DEF Shape
<1> QED  BY <1>1, <1>2

LEMMA CardShape ==
  ASSUME Shape, FromCard
  PROVE  Shape'
<1>1. mem' = mem \/ LoadCluster(card.cluster, card.n)
  <2>1. CASE CardOpen("prompt")
    BY <2>1 DEF CardOpen
  <2>2. CASE FindFile("prompt")
    BY <2>2, Zenon DEF FindFile
  <2>3. CASE LoadLoop("prompt")
    BY <2>3, Zenon DEF LoadLoop
  <2> QED  BY <2>1, <2>2, <2>3 DEF FromCard, CardStep
<1>2. CASE mem' = mem
  BY <1>2 DEF Shape
<1>3. CASE LoadCluster(card.cluster, card.n)
  <2> DEFINE new == [i \in 1..Size |->
                       IF i \in (card.n * ClusterSectors + 1)..((card.n + 1) * ClusterSectors)
                       THEN Sector(card.cluster, i - card.n * ClusterSectors) ELSE mem[card.file][i]]
  <2>1. mem' = [mem EXCEPT ![card.file] = new] /\ new = [i \in 1..Size |-> new[i]]
    BY <1>3 DEF LoadCluster
  <2> HIDE DEF new
  <2>2. DOMAIN mem' = Regions /\ \A r \in Regions : mem'[r] = IF r = card.file THEN new ELSE mem[r]
    BY <2>1 DEF Shape
  <2>3. mem' = [r \in Regions |-> mem'[r]]
    BY <2>1, <2>2
  <2>4. \A r \in Regions : mem'[r] = [i \in 1..Size |-> mem'[r][i]]
    <3>1. \A r \in Regions : mem[r] = [i \in 1..Size |-> mem[r][i]]
      BY DEF Shape
    <3> QED  BY <2>1, <2>2, <3>1
  <2> QED  BY <2>3, <2>4 DEF Shape
<1> QED  BY <1>1, <1>2, <1>3

LEMMA NetShape ==
  ASSUME Shape, Net
  PROVE  Shape'
<1>1. mem' = mem \/ \E r, i, v : Poke(r, i, v)
  <2>1. CASE NetStart \/ ReceivedAll \/ CheckTimeout \/ SwitchState \/ UserAbort \/ Server \/ Trouble
    BY <2>1 DEF NetStart, ReceivedAll, CheckTimeout, SwitchState, UserAbort, Server, Trouble
  <2>2. CASE Arrive
    <3>1. PICK p, rest : Receive(p, rest)
      BY <2>2 DEF Arrive
    <3>2. CASE TftpStart(rest) \/ Ignore(rest)
      BY <3>2 DEF TftpStart, Ignore
    <3>3. CASE TftpHandler(p, rest)
      <4>1. CASE TftpData(p, rest)
        BY <4>1 DEF TftpData, StoreBlock
      <4>2. CASE ~TftpData(p, rest)
        BY <3>3, <4>2 DEF TftpHandler, Ignore
      <4> QED  BY <4>1, <4>2
    <3> QED  BY <3>1, <3>2, <3>3 DEF Receive
  <2> QED  BY <2>1, <2>2 DEF Net, NetStep, NetLoopStep
<1> QED  BY <1>1, PokeKeepsShape DEF Shape

\* How the serial download begins and ends.
LEMMA SerialMoves ==
  ASSUME Stages, Serial
  PROVE  \/ mem' = mem /\ stage' = stage /\ started' = started
         \/ stage = "serial" /\ stage' \in {"serial", "card", "prompt"} /\ started' = started
         \/ stage = "serial" /\ stage' = "booted" /\ started'.from = "serial"
<1>1. AfterSerial \in {"card", "prompt"}
  BY DEF AfterSerial
<1>2. CASE Grab(AfterSerial)
  <2>1. stage = "serial"
    BY <1>2 DEF Grab, Stages
  <2>2. CASE Head(toDevice).good
    BY <1>2, <2>1, <2>2 DEF Grab, Accept, Boot
  <2>3. CASE ~Head(toDevice).good
    BY <1>1, <1>2, <2>1, <2>3 DEF Grab, Refuse, Leave
  <2> QED  BY <2>2, <2>3
<1>3. CASE AckTimeout(AfterSerial)
  BY <1>1, <1>3 DEF AckTimeout, Leave, Stages
<1>4. CASE SerialStart \/ CheckAck \/ Flterm \/ RestartFlterm \/ Disturb
  BY <1>4 DEF SerialStart, CheckAck, Flterm, Show, Answer, SendFrame, Reply, RestartFlterm, Disturb
<1> QED  BY <1>2, <1>3, <1>4 DEF Serial, SflStep, Device

LEMMA CardMoves ==
  ASSUME Stages, FromCard
  PROVE  stage' \in {"card", "prompt", "booted"} /\ started'.from # "serial"
<1>1. stage = "card" /\ started.from = "none" /\ Stages'
  BY CardStages DEF Stages
<1>2. ASSUME NEW n, TryLoad(n, "prompt"), card.file \in Regions
      PROVE  stage' \in {"card", "prompt", "booted"} /\ started'.from # "serial"
  <2>1. PICK size : GoOn(size, "prompt")
    BY <1>2 DEF TryLoad
  <2>2. \/ UNCHANGED <<stage, started>>
        \/ stage' = "prompt" /\ UNCHANGED started
        \/ stage' = "booted" /\ started'.from = "card"
    <3>1. CASE card.file = "kernel"
      BY <2>1, <3>1 DEF GoOn, LeaveCard
    <3>2. CASE card.file = "cmdline"
      BY <2>1, <3>2 DEF GoOn
    <3>3. CASE card.file = "initrd"
      BY <2>1, <3>3 DEF GoOn, Boot
    <3> QED  BY <1>2, <3>1, <3>2, <3>3, RegionFacts
  <2> QED  BY <1>1, <2>2
<1>3. CASE CardOpen("prompt")
  BY <1>1, <1>3 DEF CardOpen, LeaveCard
<1>4. CASE FindFile("prompt")
  <2>1. card.file \in Regions
    <3>1. card.does # "away"
      BY <1>4, Zenon DEF FindFile
    <3> QED  BY <3>1 DEF Stages
  <2>2. TryLoad(0, "prompt") \/ UNCHANGED <<stage, started>>
    BY <1>4, Zenon DEF FindFile
  <2> QED  BY <1>1, <1>2, <2>1, <2>2
<1>5. CASE LoadLoop("prompt")
  <2>1. card.file \in Regions
    <3>1. card.does # "away"
      BY <1>5, Zenon DEF LoadLoop
    <3> QED  BY <3>1 DEF Stages
  <2>2. (\E n : TryLoad(n, "prompt")) \/ UNCHANGED <<stage, started>>
    BY <1>5, Zenon DEF LoadLoop
  <2> QED  BY <1>1, <1>2, <2>1, <2>2
<1> QED  BY <1>3, <1>4, <1>5 DEF FromCard, CardStep

LEMMA InitInv == Init => IInv
BY StagesInit, NetInit, SerialInit, CardInit0 DEF IInv

LEMMA NextInv == IInv /\ [Next]_vars => IInv'
<1> SUFFICES ASSUME IInv, [Next]_vars  PROVE IInv'
  OBVIOUS
<1>1. Stages /\ Shape
  BY DEF IInv
<1>2. CASE Serial
  <2>1. Stages' /\ (mem' = mem \/ stage = "serial") /\ UNCHANGED <<cardVars, netVars>>
    BY <1>1, <1>2, SerialStages
  <2>2. Shape'
    BY <1>1, <1>2, SerialShape
  <2>3. NetInv => NetInv'
    <3>1. mem' = mem \/ loop = "off"
      BY <1>1, <2>1 DEF Stages
    <3> QED  BY <2>1, <3>1, NetUnchanged
  <2>4. ~NoisyReplies /\ SerialInv => SerialInv'
    BY <1>1, <1>2, NextSerial
  <2>5. SerialInv /\ CardInv => CardInv'
    <3>1. SUFFICES ASSUME SerialInv, CardInv  PROVE CardInv'
      OBVIOUS
    <3>2. UNCHANGED <<chain, card, fatMixed, sizes>>
      BY <2>1 DEF cardVars
    <3>3. \/ mem' = mem /\ stage' = stage /\ started' = started
          \/ stage = "serial" /\ stage' \in {"serial", "card", "prompt"} /\ started' = started
          \/ stage = "serial" /\ stage' = "booted" /\ started'.from = "serial"
      BY <1>1, <1>2, SerialMoves
    <3>4. stage = "serial" => card.does = "away" /\ started.from = "none"
      BY <1>1 DEF Stages
    <3>5. started.from = "card" => stage = "booted"
      BY <1>1 DEF Stages
    <3> QED  BY ONLY <1>1, <3>1, <3>2, <3>3, <3>4, <3>5, CardKept
  <2> QED  BY <2>1, <2>2, <2>3, <2>4, <2>5 DEF IInv
<1>3. CASE FromCard
  <2>1. Stages' /\ stage = "card" /\ UNCHANGED <<sflVars, netVars>>
    BY <1>1, <1>3, CardStages
  <2>2. Shape'
    BY <1>1, <1>3, CardShape
  <2>3. NetInv => NetInv'
    <3>1. mem' = mem \/ loop = "off"
      BY <1>1, <2>1 DEF Stages
    <3> QED  BY <2>1, <3>1, NetUnchanged
  <2>4. SerialInv => SerialInv'
    <3>1. SUFFICES ASSUME SerialInv  PROVE SerialInv'
      OBVIOUS
    <3>2. UNCHANGED <<host, dev, toDevice, toHost>> /\ files' = files /\ dev.does = "gone"
      BY <1>1, <2>1 DEF sflVars, Stages
    <3>3. stage' \in {"card", "prompt", "booted"} /\ started'.from # "serial"
      BY <1>1, <1>3, CardMoves
    <3> QED  BY <3>1, <3>2, <3>3, SerialKept
  <2>5. ~PartialReads /\ CardInv => CardInv'
    BY <1>1, <1>3, NextCard
  <2> QED  BY <2>1, <2>2, <2>3, <2>4, <2>5 DEF IInv
<1>4. CASE Net
  <2>1. /\ Stages' /\ UNCHANGED <<sflVars, cardVars, started>>
        /\ (stage = "net" /\ stage' \in {"net", "prompt"}) \/ UNCHANGED <<stage, mem>>
    BY <1>1, <1>4, NetStages
  <2>2. Shape'
    BY <1>1, <1>4, NetShape
  <2>3. ~PortsReused /\ NetInv => NetInv'
    BY <1>1, <1>4, NextNet
  <2>4. stage = "net" => card.does = "away" /\ dev.does = "gone" /\ started.from = "none"
    BY <1>1 DEF Stages
  <2>5. SerialInv => SerialInv'
    <3>1. SUFFICES ASSUME SerialInv  PROVE SerialInv'
      OBVIOUS
    <3>2. UNCHANGED <<host, dev, toDevice, toHost>> /\ files' = files /\ started' = started
      BY <2>1 DEF sflVars
    <3>3. dev.does = "gone" /\ stage' \in {"abort", "serial"} => 
            stage \in {"abort", "serial"} \/ (host.does = "terminal" /\ toHost = <<>>)
      BY <2>1
    <3>4. started'.from = "serial" => mem' = mem
      BY <2>1, <2>4, <3>2
    <3>5. dev.does = "gone" \/ UNCHANGED <<mem, files>>
      BY <2>1, <2>4, <3>2
    <3> QED  BY <3>1, <3>2, <3>3, <3>4, <3>5, SerialKept
  <2>6. CardInv => CardInv'
    <3>1. SUFFICES ASSUME CardInv  PROVE CardInv'
      OBVIOUS
    <3>2. UNCHANGED <<chain, card, fatMixed, sizes>> /\ started' = started
      BY <2>1 DEF cardVars
    <3>3. started.from = "card" => stage = "booted"
      BY <1>1 DEF Stages
    <3> QED  BY ONLY <1>1, <2>1, <2>4, <3>1, <3>2, <3>3, CardKept
  <2> QED  BY <2>1, <2>2, <2>3, <2>5, <2>6 DEF IInv
<1>5. CASE TestUserAbort
  <2>1. /\ stage = "abort" /\ stage' \in {"serial", "prompt"}
        /\ UNCHANGED <<mem, started, faults, sflVars, cardVars, netVars>>
    BY <1>5 DEF TestUserAbort
  <2>2. UNCHANGED <<files, host, dev, toDevice, toHost>> /\ UNCHANGED <<chain, card, fatMixed, sizes>>
        /\ UNCHANGED <<loop, NetState>>
    BY <2>1 DEF sflVars, cardVars, netVars
  <2>3. Stages' /\ Shape'
    BY <1>1, <2>1, <2>2 DEF Stages, Shape
  <2>4. NetInv => NetInv'
    BY <2>1, NetUnchanged
  <2>5. SerialInv => SerialInv'
    BY <2>1, <2>2, SerialKept
  <2>6. CardInv => CardInv'
    <3>1. card.does = "away" /\ started.from = "none"
      BY <1>1, <2>1 DEF Stages
    <3> QED  BY <1>1, <2>1, <2>2, <3>1, CardKept
  <2> QED  BY <2>3, <2>4, <2>5, <2>6 DEF IInv
<1>6. CASE DoCommand
  <2>1. /\ stage = "prompt" /\ stage' \in {"serial", "net", "card"} /\ mem' = NoMemory /\ files' = {}
        /\ UNCHANGED <<started, host, dev, toDevice, toHost, cardVars, netVars>>
        /\ host.does = "terminal" /\ toHost = <<>>
    BY <1>6 DEF DoCommand, TerminalQuiet
  <2>2. UNCHANGED <<chain, card, fatMixed, sizes>> /\ UNCHANGED <<loop, NetState>>
    BY <2>1 DEF cardVars, netVars
  <2>3. dev.does = "gone" /\ card.does = "away" /\ loop = "off" /\ started.from = "none"
    BY <1>1, <2>1 DEF Stages
  <2>4. Stages'
    BY <1>1, <2>1, <2>2, <2>3 DEF Stages
  <2>5. Shape'
    BY <2>1 DEF Shape, NoMemory
  <2>6. NetInv => NetInv'
    BY <2>1, <2>3, NetUnchanged
  <2>7. SerialInv => SerialInv'
    BY <2>1, <2>3, SerialKept
  <2>8. CardInv => CardInv'
    BY <1>1, <2>1, <2>2, <2>3, CardKept
  <2> QED  BY <2>4, <2>5, <2>6, <2>7, <2>8 DEF IInv
<1>7. CASE UNCHANGED vars
  <2>1. /\ UNCHANGED <<stage, mem, started, files, host, dev, toDevice, toHost>>
        /\ UNCHANGED <<chain, card, fatMixed, sizes, loop, NetState, netVars>>
    BY <1>7 DEF vars, bootVars, sflVars, cardVars, netVars
  <2>2. Stages' /\ Shape'
    BY <1>1, <2>1 DEF Stages, Shape
  <2>3. NetInv => NetInv'
    BY <2>1, NetUnchanged
  <2>4. SerialInv => SerialInv'
    BY <2>1, SerialKept
  <2>5. CardInv => CardInv'
    BY <1>1, <2>1, CardKept
  <2> QED  BY <2>2, <2>3, <2>4, <2>5 DEF IInv
<1> QED  BY <1>2, <1>3, <1>4, <1>5, <1>6, <1>7 DEF Next

\* IInv holds in every reachable state.
LEMMA Invariant == Spec => []IInv
BY InitInv, NextInv, PTL DEF Spec

LEMMA WholeInv ==
  ASSUME IInv
  PROVE  /\ ~PortsReused => TransferWhole
         /\ ~NoisyReplies /\ ~PartialReads => StartedWhole
<1>1. NetInv => TransferWhole
  <2>1. SUFFICES ASSUME NetInv, NetState = "success"
                 PROVE  Holds("kernel", "net", Blocks) /\ NetBootFileXferSize = Blocks
    BY DEF TransferWhole
  <2>2. packetHandler = "tftp" /\ NetBootFileXferSize = Blocks
    BY <2>1 DEF NetInv, Succeeded
  <2>3. \A i \in 1..Blocks : mem["kernel"][i] = Unit("net", "kernel", i)
    BY <2>1, <2>2 DEF NetInv, Stored
  <2>4. Blocks <= Size
    BY NetAssumptions
  <2> QED  BY <2>2, <2>3, <2>4 DEF Holds
<1>2. SerialInv => SerialWhole
  <2>1. SUFFICES ASSUME SerialInv, started.from = "serial"  PROVE SerialWhole
    BY DEF SerialWhole
  <2>2. dev.does = "gone"
    BY <2>1 DEF IInv, Stages
  <2> QED  BY <2>1, <2>2 DEF SerialInv, Left
<1>3. CardInv => CardWhole
  BY DEF CardInv
<1> QED  BY <1>1, <1>2, <1>3 DEF IInv, StartedWhole

\* When the client draws a port of its own for each attempt, a download that reports success
\* has put the whole file into memory and knows its size (NetLoop, TftpHandler, store_block),
\* whatever the network loses, repeats and delays, and however many sessions the server has.
THEOREM TransfersAreWhole == ~PortsReused => (Spec => []TransferWhole)
<1> SUFFICES ASSUME ~PortsReused  PROVE Spec => []TransferWhole
  OBVIOUS
<1>1. IInv => TransferWhole
  BY WholeInv
<1> QED  BY <1>1, Invariant, PTL

\* While replies arrive as they were sent and a sector is read whole or not at all, an image
\* that is started from the serial line or the card is whole in memory, with its command line
\* and ramdisk, and boot() is told of exactly those (serialboot, flterm, cardboot).
THEOREM ImagesAreWhole == ~NoisyReplies /\ ~PartialReads => (Spec => []StartedWhole)
<1> SUFFICES ASSUME ~NoisyReplies, ~PartialReads  PROVE Spec => []StartedWhole
  OBVIOUS
<1>1. IInv => StartedWhole
  BY WholeInv
<1> QED  BY <1>1, Invariant, PTL
=============================================================================
