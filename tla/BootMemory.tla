---------------------------- MODULE BootMemory ----------------------------
(***************************************************************************)
(* What the boot loader's three ways to load an image share: the memory    *)
(* they load into, the function of the loader that runs, and the arguments *)
(* with which boot() (software/bios/boot.c) starts the image.              *)
(***************************************************************************)
EXTENDS Naturals, Sequences, FiniteSets

CONSTANTS Size,     \* units of memory in each region
          Faults    \* bound: how much goes wrong, on the line, the card and the network

ASSUME SizeAssumption == Size \in Nat \ {0} /\ Faults \in Nat

VARIABLES
  stage,            \* the function that runs; "booted" once the image does
  mem,              \* per region, what each unit of memory holds
  started,          \* the arguments of boot()
  faults            \* what went wrong so far

\* Where the kernel, its command line and its initial ramdisk are loaded.
Regions == {"kernel", "cmdline", "initrd"}
None == 0

\* The i-th unit of a file, as read from a medium.
Unit(medium, file, i) == <<medium, file, i>>
Old == Unit("none", "none", None)

Poke(region, i, v) == mem' = [mem EXCEPT ![region][i] = v]

\* Something goes wrong.
Fault == faults < Faults /\ faults' = faults + 1

NotStarted == [from |-> "none", cmdline |-> FALSE, start |-> FALSE, end |-> None]

\* boot(): r1 to r3 hold the addresses of the command line and of the ramdisk.
Boot(from, cmdline, start, end) ==
  /\ stage' = "booted"
  /\ started' = [from |-> from, cmdline |-> cmdline, start |-> start, end |-> end]

NoMemory == [r \in Regions |-> [i \in 1..Size |-> Old]]

MemoryInit == mem = NoMemory /\ started = NotStarted /\ faults = 0

Holds(region, medium, n) ==
  n <= Size /\ \A i \in 1..n : mem[region][i] = Unit(medium, region, i)
=============================================================================
