------------------------------- MODULE BiosMC -------------------------------
EXTENDS Bios

\* Files in order, scattered and interleaved over the card, across two sectors of the FAT,
\* and one whose chain leads past the end of the FAT.
ChainsMC ==
  {[kernel |-> <<2, 3>>, cmdline |-> <<4>>, initrd |-> <<5, 6>>],
   [kernel |-> <<6, 2>>, cmdline |-> <<3>>, initrd |-> <<5, 4>>],
   [kernel |-> <<2, 9>>, cmdline |-> <<3>>, initrd |-> <<4>>]}
EntriesMC == {"empty", "whole", "short", "long"}
=============================================================================
