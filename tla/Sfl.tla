-------------------------------- MODULE Sfl --------------------------------
(***************************************************************************)
(* The serial download: the boot loader's serialboot() (bios/boot.c) and   *)
(* the program at the other end of the line (tools/flterm.c).              *)
(*                                                                         *)
(* A frame is one element of a line, and so is each magic string, each     *)
(* reply and each message the loader prints.  Noise damages the bytes of a *)
(* frame that its CRC covers, or a magic string; a reply only where        *)
(* NoisyReplies says so, the length of a frame never.  Nothing protects    *)
(* those two.  What reaches the device while it does not read is lost.     *)
(***************************************************************************)
EXTENDS BootMemory

CONSTANTS KernelFrames,     \* frames of the kernel and of the ramdisk
          InitrdFrames,
          MAX_FAILED,       \* errors in a row that end the download
          NoisyReplies      \* whether replies are disturbed too

ASSUME FramesAssumption == {KernelFrames, InitrdFrames} \subseteq 1..Size
ASSUME MaxFailedAssumption == MAX_FAILED \in Nat \ {0}

VARIABLES
  files,                    \* the files and options flterm was started with
  host,                     \* flterm: what it does and the frame it is at
  dev,                      \* serialboot's locals
  toDevice, toHost          \* the serial line

sflVars == <<files, host, dev, toDevice, toHost>>

Frame(cmd, region, i) == [cmd |-> cmd, region |-> region, at |-> i, good |-> TRUE]
Load(region, n) == [i \in 1..n |-> Frame("LOAD", region, i)]
MagicAck == Frame("ACK", "none", None)

Sections == <<"kernel", "cmdline", "initrd", "jump">>
Script == [kernel  |-> Load("kernel", KernelFrames),
           cmdline |-> Load("cmdline", 1) \o <<Frame("CMDLINE", "cmdline", 1)>>,
           initrd  |-> Load("initrd", InitrdFrames) \o
                       <<Frame("INITRDSTART", "initrd", 1),
                         Frame("INITRDEND", "initrd", InitrdFrames)>>,
           jump    |-> <<Frame("JUMP", "kernel", 1)>>]

Terminal == [does |-> "terminal", section |-> "none", pos |-> None]
Gone == [does |-> "gone", failed |-> 0, cmdline |-> FALSE, start |-> FALSE, end |-> None]

SflInit ==
  /\ files = {}
  /\ host = Terminal /\ dev = Gone
  /\ toDevice = <<>> /\ toHost = <<>>

-----------------------------------------------------------------------------
(* serialboot() *)

Say(s) == toHost' = Append(toHost, s)

\* The loader asks for a download ...
SerialStart ==
  /\ stage = "serial" /\ dev.does = "gone"
  /\ dev' = [Gone EXCEPT !.does = "magic"]
  /\ Say("request")
  /\ UNCHANGED <<stage, mem, started, files, host, toDevice, faults>>

\* ... and looks for the answer among whatever arrives (check_ack) ...
CheckAck ==
  /\ dev.does = "magic" /\ toDevice # <<>>
  /\ dev' = IF Head(toDevice) = MagicAck THEN [dev EXCEPT !.does = "frame"] ELSE dev
  /\ toDevice' = Tail(toDevice)
  /\ UNCHANGED <<stage, mem, started, files, host, toHost, faults>>

Leave(next) == stage' = next /\ dev' = Gone /\ Say("text") /\ toDevice' = <<>>

\* ... for as long as its patience lasts.
AckTimeout(next) ==
  /\ dev.does = "magic"
  /\ Leave(next)
  /\ UNCHANGED <<mem, started, files, host, faults>>

\* A damaged frame is refused, until there were too many.
Refuse(next) ==
  /\ IF dev.failed + 1 = MAX_FAILED
     THEN Leave(next)
     ELSE /\ dev' = [dev EXCEPT !.failed = @ + 1]
          /\ Say("C")
          /\ toDevice' = Tail(toDevice)
          /\ UNCHANGED stage
  /\ UNCHANGED <<mem, started>>

\* The frame's command is carried out, then confirmed.
Accept(f) ==
  /\ dev' = CASE f.cmd = "CMDLINE"     -> [dev EXCEPT !.failed = 0, !.cmdline = TRUE]
              [] f.cmd = "INITRDSTART" -> [dev EXCEPT !.failed = 0, !.start = TRUE]
              [] f.cmd = "INITRDEND"   -> [dev EXCEPT !.failed = 0, !.end = f.at]
              [] f.cmd = "JUMP"        -> Gone
              [] OTHER                 -> [dev EXCEPT !.failed = 0]
  /\ IF f.cmd = "JUMP" THEN Boot("serial", dev.cmdline, dev.start, dev.end)
                       ELSE UNCHANGED <<stage, started>>
  /\ IF f.cmd = "LOAD" THEN Poke(f.region, f.at, Unit("serial", f.region, f.at))
                       ELSE UNCHANGED mem
  /\ Say("K")
  /\ toDevice' = Tail(toDevice)

\* Mutant: the CRC is not looked at.
GrabUnchecked(next) ==
  /\ dev.does = "frame" /\ toDevice # <<>>
  /\ LET f == Head(toDevice)
     IN  Accept(IF f.good THEN f ELSE [f EXCEPT !.at = (@ % KernelFrames) + 1])
  /\ UNCHANGED <<files, host, faults>>

\* One frame is read and answered.
Grab(next) ==
  /\ dev.does = "frame" /\ toDevice # <<>>
  /\ IF Head(toDevice).good THEN Accept(Head(toDevice)) ELSE Refuse(next)
  /\ UNCHANGED <<files, host, faults>>

-----------------------------------------------------------------------------
(* flterm *)

\* Out of serialboot the loader does not look at the line, or takes what comes for keys,
\* which it may print.
Put(f) ==
  IF dev.does = "gone" THEN UNCHANGED toDevice ELSE toDevice' = Append(toDevice, f)

\* The terminal shows what it reads ...
Show ==
  /\ host.does = "terminal" /\ toHost # <<>>
  /\ toHost' = Tail(toHost)
  /\ UNCHANGED <<stage, mem, started, files, host, dev, toDevice, faults>>

\* ... and answers a request, with the options the user has given it by then; it shows
\* the request if it cannot open the files.
Answer ==
  /\ host.does = "terminal" /\ toHost # <<>> /\ Head(toHost) = "request"
  /\ files' \in {f \in SUBSET Regions : "kernel" \in f}
  /\ toHost' = Tail(toHost)
  /\ Put(MagicAck)
  /\ host' = [does |-> "send", section |-> "kernel", pos |-> 1]
  /\ UNCHANGED <<stage, mem, started, dev, faults>>

SendFrame ==
  /\ host.does = "send"
  /\ Put(Script[host.section][host.pos])
  /\ host' = [host EXCEPT !.does = "reply"]
  /\ UNCHANGED <<stage, mem, started, files, dev, toHost, faults>>

\* The section of answer_magic after this one, if its file or option was given.
NextSection ==
  LET later == {i \in 1..4 : /\ i > CHOOSE j \in 1..4 : Sections[j] = host.section
                             /\ Sections[i] \in files \cup {"jump"}}
      first == CHOOSE i \in later : \A j \in later : i <= j
  IN  IF later = {} THEN Terminal
      ELSE [does |-> "send", section |-> Sections[first], pos |-> 1]

Confirmed ==
  IF host.pos < Len(Script[host.section])
  THEN [host EXCEPT !.does = "send", !.pos = @ + 1] ELSE NextSection

\* send_frame failed.  The kernel's upload ends there, the ramdisk's ends the download;
\* for the frames that set an address, and the command line, nobody looks.
Aborted ==
  CASE host.section = "kernel" -> NextSection
    [] host.section = "initrd" /\ host.pos <= InitrdFrames -> Terminal
    [] OTHER -> Confirmed

\* Mutant: a frame is not sent again.
ReplyNoRetry ==
  /\ host.does = "reply" /\ toHost # <<>>
  /\ host' = IF Head(toHost) \in {"K", "C"} THEN Confirmed ELSE Aborted
  /\ toHost' \in {Tail(toHost)} \cup (IF Head(toHost) = "text" THEN {toHost} ELSE {})
  /\ UNCHANGED <<stage, mem, started, files, dev, toDevice, faults>>

\* One character is read for a reply; a text has more than one.
Reply ==
  /\ host.does = "reply" /\ toHost # <<>>
  /\ host' = CASE Head(toHost) = "K" -> Confirmed
               [] Head(toHost) = "C" -> [host EXCEPT !.does = "send"]
               [] OTHER              -> Aborted
  /\ toHost' \in {Tail(toHost)} \cup (IF Head(toHost) = "text" THEN {toHost} ELSE {})
  /\ UNCHANGED <<stage, mem, started, files, dev, toDevice, faults>>

\* The user starts flterm anew: what it has not read is flushed.
RestartFlterm ==
  /\ host.does = "reply" /\ dev.does = "gone"
  /\ host' = Terminal /\ toHost' = <<>>
  /\ UNCHANGED <<stage, mem, started, files, dev, toDevice, faults>>

Disturb ==
  /\ Fault
  /\ \/ \E i \in 1..Len(toDevice) :
          toDevice' = [toDevice EXCEPT ![i].good = FALSE]
          /\ UNCHANGED toHost
     \/ /\ NoisyReplies /\ UNCHANGED toDevice
        /\ \E i \in 1..Len(toHost) : toHost' = [toHost EXCEPT ![i] = "noise"]
  /\ UNCHANGED <<stage, mem, started, files, host, dev>>

\* The user at the terminal, where nothing more appears.
TerminalQuiet == host.does = "terminal" /\ toHost = <<>>

Device(next) == SerialStart \/ CheckAck \/ Grab(next)
Flterm == Show \/ Answer \/ SendFrame \/ Reply
SflStep(next) == Device(next) \/ AckTimeout(next) \/ Flterm \/ RestartFlterm \/ Disturb
=============================================================================
