-------------------------------- MODULE Bios --------------------------------
(***************************************************************************)
(* The boot loader's main program (software/bios/main.c): the order in     *)
(* which it tries to boot, and the commands of its prompt, composed of the *)
(* serial download, the memory card and the network.                       *)
(***************************************************************************)
EXTENDS Sfl, Card, Tftp

CONSTANTS Commands,         \* bound: how many commands the user gives
          HasCard           \* board_desc->memory_card

ASSUME BiosAssumption == Commands \in Nat /\ HasCard \in BOOLEAN

VARIABLES sequence,         \* boot_sequence() runs, and not the prompt
          commands

bootVars == <<stage, mem, started, faults>>
vars == <<bootVars, sflVars, cardVars, netVars, sequence, commands>>

\* main(): with the memory at fault the loader goes straight to its prompt.
Init ==
  /\ MemoryInit /\ SflInit /\ CardInit /\ TftpInit
  /\ stage \in {"abort", "prompt"} /\ sequence = (stage = "abort") /\ commands = 0

\* Where boot_sequence or do_command goes on when serialboot or cardboot returns.
AfterSerial == IF sequence /\ HasCard THEN "card" ELSE "prompt"

\* test_user_abort: Q in the first seconds leads to the prompt.
TestUserAbort ==
  /\ stage = "abort"
  /\ \/ stage' = "serial" /\ UNCHANGED sequence
     \/ stage' = "prompt" /\ sequence' = FALSE
  /\ UNCHANGED <<mem, started, faults, sflVars, cardVars, netVars, commands>>

\* do_command: the user types at flterm's terminal.  What an attempt before it left in
\* memory counts as old, so that it cannot pass for what this one should have loaded.
DoCommand ==
  /\ stage = "prompt" /\ commands < Commands /\ TerminalQuiet
  /\ stage' \in {"serial", "net"} \cup (IF HasCard THEN {"card"} ELSE {})
  /\ sequence' = FALSE /\ commands' = commands + 1
  /\ mem' = NoMemory /\ files' = {}
  /\ UNCHANGED <<started, faults, host, dev, toDevice, toHost, cardVars, netVars>>

Serial == SflStep(AfterSerial) /\ UNCHANGED <<cardVars, netVars, sequence, commands>>
FromCard == CardStep("prompt") /\ UNCHANGED <<sflVars, netVars, sequence, commands>>
Net == NetStep /\ UNCHANGED <<sflVars, cardVars, sequence, commands>>

Next == TestUserAbort \/ DoCommand \/ Serial \/ FromCard \/ Net

\* The loader's code goes on, the patience of check_ack ends, flterm, the network and
\* the server do their part; the user need not do anything, and nothing need go wrong.
Spec ==
  /\ Init /\ [][Next]_vars
  /\ WF_vars(TestUserAbort)
  /\ WF_vars(Device(AfterSerial) /\ UNCHANGED <<cardVars, netVars, sequence, commands>>)
  /\ WF_vars(AckTimeout(AfterSerial) /\ UNCHANGED <<cardVars, netVars, sequence, commands>>)
  /\ WF_vars(Flterm /\ UNCHANGED <<cardVars, netVars, sequence, commands>>)
  /\ WF_vars(FromCard)
  /\ WF_vars(NetLoopStep /\ UNCHANGED <<sflVars, cardVars, sequence, commands>>)
  /\ SF_vars(Arrive /\ UNCHANGED <<sflVars, cardVars, sequence, commands>>)
  /\ WF_vars(Server /\ UNCHANGED <<sflVars, cardVars, sequence, commands>>)

-----------------------------------------------------------------------------
(* Properties *)

\* An image started from the serial line is whole in memory, and so are the command line and
\* the ramdisk; it was given the addresses of those that flterm was told to send, and of no
\* others, however often a frame was damaged and sent again.
SerialWhole ==
  started.from = "serial" =>
    /\ Holds("kernel", "serial", KernelFrames)
    /\ started.cmdline = ("cmdline" \in files)
    /\ started.start = ("initrd" \in files)
    /\ started.end = IF "initrd" \in files THEN InitrdFrames ELSE None
    /\ started.cmdline => Holds("cmdline", "serial", 1)
    /\ started.start => Holds("initrd", "serial", InitrdFrames)

\* An image started from the card is whole in memory, and so are the command line and the
\* ramdisk if it was told of them, wherever their clusters lie and whichever reads failed.
CardWhole ==
  started.from = "card" =>
    /\ sizes["kernel"] > 0 /\ started.end = sizes["initrd"]
    /\ \A f \in Regions : Holds(f, "card", sizes[f])

\* Whatever medium an image is started from, it is whole and was told the truth.
StartedWhole == SerialWhole /\ CardWhole

\* When a download over the network reports success the file is whole in memory and its
\* size is right, whatever was lost, repeated or late and however many sessions the server has,
\* if no attempt draws the port of an earlier one (PortsReused).
TransferWhole ==
  NetState = "success" => Holds("kernel", "net", Blocks) /\ NetBootFileXferSize = Blocks

\* Loading ends, with the image started or back at the prompt: nobody waits for ever for
\* an answer, and every attempt that is given up is followed by one that is not.
Loading == stage \in {"serial", "card", "net"}
LoadingEnds == Loading ~> ~Loading
=============================================================================
