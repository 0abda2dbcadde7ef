-------------------------------- MODULE Tftp --------------------------------
(***************************************************************************)
(* Loading a file over the network: NetLoop() (libnet/net.c) with ARP       *)
(* (libnet/arp.c), TFTP (libnet/tftp.c) and the polled driver of the        *)
(* Ethernet controller (libbase/eth.c), against a network that loses,       *)
(* repeats and reorders packets and a server that keeps a session, with a   *)
(* port of its own, for every request it gets.                              *)
(*                                                                         *)
(* A block is a unit of memory, the last one is short.  Equal packets in    *)
(* flight count as one.  The controller sends a packet before its eight     *)
(* descriptors are used up.                                                 *)
(***************************************************************************)
EXTENDS BootMemory

CONSTANTS Blocks,           \* of the file
          TIMEOUT_COUNT,    \* timeouts before TFTP gives up (tftp.c)
          HashEvery,        \* blocks for a sign of life on the screen
          PortsReused       \* whether the port drawn from the clock may be an old one

ASSUME TftpAssumption ==
  /\ Blocks \in 1..Size /\ {TIMEOUT_COUNT, HashEvery} \subseteq Nat \ {0}
  /\ PortsReused \in BOOLEAN

VARIABLES
  loop,                     \* where NetLoop is
  NetState,
  packetHandler, timeHandler,
  waited,                   \* the timeout was set in an earlier turn of the loop
  NetServerEther,           \* whether the server's address is in it
  tftp,                     \* the variables of tftp.c
  NetBootFileXferSize,
  wire,                     \* the packets in flight
  session                   \* the server's: the client's port and the block it is at

handlers == <<packetHandler, timeHandler, waited>>
netVars == <<loop, NetState, handlers, NetServerEther, tftp, NetBootFileXferSize, wire,
             session>>

WELL_KNOWN_PORT == 0
Closed == Blocks + 1
Packet(kind, client, server, block) ==
  [kind |-> kind, client |-> client, server |-> server, block |-> block]
ArpQuery == Packet("arp_request", 0, 0, 0)
ArpReply == Packet("arp_reply", 0, 0, 0)
Inbound == {p \in wire : p.kind \in {"arp_reply", "data", "error"}}

TftpOff == [state |-> "off", server |-> WELL_KNOWN_PORT, ours |-> 0, block |-> 0, last |-> 0,
            timeouts |-> 0]

TftpInit ==
  /\ loop = "off" /\ NetState = "continue"
  /\ packetHandler = "none" /\ timeHandler = "none" /\ waited = FALSE
  /\ NetServerEther = FALSE /\ tftp = TftpOff /\ NetBootFileXferSize = 0
  /\ wire = {} /\ session = <<>>

\* A packet is lost, repeated or late, or a request refused.
Upset == Fault

-----------------------------------------------------------------------------
(* Each handler is given what is in flight without the packet it handles, and *)
(* says what is in flight after it.                                           *)

NetSetTimeout(h) == timeHandler' = h /\ waited' = FALSE

\* TftpSend: the request, or the acknowledgement of the last block.  Sent to the address
\* the server is believed to have.
TftpSent(t) ==
  IF ~NetServerEther' THEN {}
  ELSE IF t.state = "rrq" THEN {Packet("rrq", t.ours, t.server, 0)}
  ELSE {Packet("ack", t.ours, t.server, t.block)}

TftpStart(rest) ==
  /\ NetSetTimeout("tftp") /\ packetHandler' = "tftp"
  /\ \E port \in {tftp.ours + 1} \cup (IF PortsReused THEN 1..tftp.ours ELSE {}) :
       tftp' = [tftp EXCEPT !.server = WELL_KNOWN_PORT, !.timeouts = 0, !.state = "rrq",
                            !.ours = port]
  /\ wire' = rest \cup TftpSent(tftp')
  /\ UNCHANGED <<NetState, NetBootFileXferSize, mem>>

ArpRequest(rest) ==
  /\ wire' = rest \cup {ArpQuery}
  /\ NetSetTimeout("arp") /\ packetHandler' = "arp"

Ignore(rest) ==
  wire' = rest /\ UNCHANGED <<NetState, handlers, tftp, NetBootFileXferSize, mem>>

\* Mutant: a block is acknowledged and counted but a repeated one is stored in its place.
StoreBlockLast(block) ==
  /\ Poke("kernel", (block % Blocks) + 1, Unit("net", "kernel", block))
  /\ NetBootFileXferSize' = IF NetBootFileXferSize < block THEN block ELSE NetBootFileXferSize

\* store_block
StoreBlock(block) ==
  /\ Poke("kernel", block, Unit("net", "kernel", block))
  /\ NetBootFileXferSize' = IF NetBootFileXferSize < block THEN block ELSE NetBootFileXferSize

\* TFTP_DATA in TftpHandler
TftpData(p, rest) ==
  LET first == tftp.state = "rrq"
      t == [tftp EXCEPT !.block = p.block, !.state = "data",
                        !.timeouts = IF (p.block - 1) % HashEvery = 0 THEN 0 ELSE @,
                        !.server = IF first THEN p.server ELSE @,
                        !.last = IF first THEN 0 ELSE @]
  IN
  IF first /\ p.block # 1
  THEN /\ tftp' = t /\ NetState' = "restart" /\ wire' = rest
       /\ UNCHANGED <<handlers, NetBootFileXferSize, mem>>
  ELSE IF p.block = t.last
  THEN /\ tftp' = t /\ wire' = rest
       /\ UNCHANGED <<NetState, handlers, NetBootFileXferSize, mem>>
  ELSE /\ tftp' = [t EXCEPT !.last = p.block]
       /\ NetSetTimeout("tftp") /\ UNCHANGED packetHandler
       /\ StoreBlock(p.block)
       /\ wire' = rest \cup TftpSent(t)
       /\ NetState' = IF p.block = Blocks THEN "success" ELSE NetState

TftpHandler(p, rest) ==
  IF p.client # tftp.ours \/ (tftp.state # "rrq" /\ p.server # tftp.server)
  THEN Ignore(rest)
  ELSE IF p.kind = "data" THEN TftpData(p, rest)
  ELSE /\ NetState' = "restart" /\ wire' = rest
       /\ UNCHANGED <<handlers, tftp, NetBootFileXferSize, mem>>

\* NetReceive: an ARP reply names the server's address.  ArpHandler takes whatever comes
\* for the reply it waits for; TftpHandler knows that an ARP reply is not for it.
Receive(p, rest) ==
  /\ NetServerEther' = (NetServerEther \/ p.kind = "arp_reply")
  /\ IF packetHandler = "arp" THEN TftpStart(rest)
     ELSE IF p.kind = "arp_reply" THEN Ignore(rest)
     ELSE TftpHandler(p, rest)

\* Mutant: the timeout is not set again.
TftpTimeoutOnce ==
  LET t == [tftp EXCEPT !.timeouts = @ + 1] IN
  /\ tftp' = t
  /\ UNCHANGED <<packetHandler, NetServerEther, NetBootFileXferSize>>
  /\ timeHandler' = "none" /\ waited' = FALSE
  /\ IF t.timeouts >= TIMEOUT_COUNT THEN NetState' = "restart" /\ UNCHANGED wire
                                    ELSE wire' = wire \cup TftpSent(t) /\ UNCHANGED NetState

TftpTimeout ==
  LET t == [tftp EXCEPT !.timeouts = @ + 1] IN
  /\ tftp' = t
  /\ UNCHANGED <<packetHandler, NetServerEther, NetBootFileXferSize>>
  /\ IF t.timeouts >= TIMEOUT_COUNT
     THEN /\ NetState' = "restart" /\ timeHandler' = "none" /\ waited' = FALSE
          /\ UNCHANGED wire
     ELSE NetSetTimeout("tftp") /\ wire' = wire \cup TftpSent(t) /\ UNCHANGED NetState

\* ArpTry is only counted in a debugging build: the request is repeated for ever.
ArpTimeout ==
  ArpRequest(wire) /\ UNCHANGED <<NetState, NetServerEther, tftp, NetBootFileXferSize>>

-----------------------------------------------------------------------------
(* NetLoop() *)

\* A file is wanted; without addresses configured nothing is done.
NetStart ==
  /\ stage = "net" /\ loop = "off"
  /\ \/ /\ stage' = "prompt" /\ UNCHANGED <<faults, netVars>>
     \/ /\ loop' = "receive" /\ NetState' = "continue"
        /\ ArpRequest({}) /\ NetBootFileXferSize' = 0
        /\ UNCHANGED <<stage, NetServerEther, tftp, session, faults>>
  /\ UNCHANGED <<mem, started>>

\* eth_rx passes on what has arrived, packet after packet ...
Arrive ==
  /\ loop = "receive"
  /\ \E p \in Inbound :
       \/ Receive(p, wire \ {p}) /\ UNCHANGED faults
       \/ Receive(p, wire) /\ Upset
  /\ UNCHANGED <<stage, started, loop, session>>

\* ... until nothing more has.
ReceivedAll ==
  /\ loop = "receive" /\ loop' = "timeout"
  /\ UNCHANGED <<stage, mem, started, NetState, handlers, NetServerEther, tftp, wire, session, faults>>
  /\ UNCHANGED NetBootFileXferSize

\* The time is up when nothing is in flight any more; it may be up early.
CheckTimeout ==
  /\ loop = "timeout" /\ loop' = "switch"
  /\ \/ /\ timeHandler # "none" /\ waited
        /\ IF wire = {} THEN UNCHANGED faults ELSE Upset
        /\ IF timeHandler = "arp" THEN ArpTimeout ELSE TftpTimeout
     \/ /\ timeHandler = "none" \/ ~waited \/ wire # {}
        /\ waited' = TRUE
        /\ UNCHANGED <<NetState, packetHandler, timeHandler, NetServerEther, tftp, wire>>
        /\ UNCHANGED <<NetBootFileXferSize, faults>>
  /\ UNCHANGED <<stage, mem, started, session>>

\* NetLoop returns: the controller is halted.
Halt ==
  /\ stage' = "prompt" /\ loop' = "off"
  /\ NetState' = "continue" /\ packetHandler' = "none" /\ timeHandler' = "none"
  /\ waited' = FALSE /\ wire' = {} /\ session' = <<>>
  /\ tftp' = TftpOff /\ NetBootFileXferSize' = 0 /\ UNCHANGED NetServerEther

SwitchState ==
  /\ loop = "switch"
  /\ CASE NetState = "continue" ->
            /\ loop' = "receive"
            /\ UNCHANGED <<stage, NetState, handlers, NetServerEther, tftp, wire, session>>
            /\ UNCHANGED NetBootFileXferSize
       [] NetState = "restart" ->
            /\ loop' = "receive" /\ NetState' = "continue"
            /\ ArpRequest(wire) /\ NetBootFileXferSize' = 0
            /\ UNCHANGED <<stage, NetServerEther, tftp, session>>
       [] NetState = "success" -> Halt
  /\ UNCHANGED <<mem, started, faults>>

\* Control-C
UserAbort ==
  /\ loop = "timeout"
  /\ Halt /\ UNCHANGED <<mem, started, faults>>

-----------------------------------------------------------------------------
(* The network and the server *)

\* An acknowledgement brings the next block, the one before it the same block again.
Served(p) ==
  LET s == session[p.server] IN
  /\ IF s.block = Closed \/ p.block \notin {s.block, s.block - 1} THEN
          wire' = wire \ {p} /\ UNCHANGED session
     ELSE LET next == p.block + 1 IN
          /\ session' = [session EXCEPT ![p.server].block = next]
          /\ wire' = (wire \ {p}) \cup
               (IF next = Closed THEN {} ELSE {Packet("data", s.client, p.server, next)})

Server ==
  /\ \E p \in wire \ Inbound :
       CASE p.kind = "arp_request" ->
              wire' = (wire \ {p}) \cup {ArpReply} /\ UNCHANGED <<session, faults>>
         [] p.kind = "rrq" ->
              LET port == Len(session) + 1 IN
              \/ /\ session' = Append(session, [client |-> p.client, block |-> 1])
                 /\ wire' = (wire \ {p}) \cup {Packet("data", p.client, port, 1)}
                 /\ UNCHANGED faults
              \/ /\ session' = Append(session, [client |-> p.client, block |-> Closed])
                 /\ wire' = (wire \ {p}) \cup {Packet("error", p.client, port, 0)}
                 /\ Upset
         [] p.kind = "ack" -> Served(p) /\ UNCHANGED faults
  /\ UNCHANGED <<stage, mem, started, loop, NetState, handlers, NetServerEther, tftp>>
  /\ UNCHANGED NetBootFileXferSize

Trouble ==
  /\ \/ \E p \in wire : wire' = wire \ {p}
     \/ \E i \in 1..Len(session) :
          /\ session[i].block # Closed
          /\ wire' = wire \cup {Packet("data", session[i].client, i, session[i].block)}
  /\ Upset
  /\ UNCHANGED <<stage, mem, started, loop, NetState, handlers, NetServerEther, tftp>>
  /\ UNCHANGED <<NetBootFileXferSize, session>>

NetLoopStep == NetStart \/ ReceivedAll \/ CheckTimeout \/ SwitchState
NetStep == NetLoopStep \/ Arrive \/ UserAbort \/ Server \/ Trouble
=============================================================================
