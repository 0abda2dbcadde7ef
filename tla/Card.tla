-------------------------------- MODULE Card --------------------------------
(***************************************************************************)
(* Booting from the memory card: cardboot() (bios/boot.c), the FAT16 reader *)
(* (libbase/cffat.c) and the card driver (libbase/cfcard.c).  A sector is   *)
(* the unit of memory and of length.  Any read of a sector may run into the *)
(* driver's timeout, before or after part of the sector was read.  The root *)
(* directory fits in a sector.                                              *)
(***************************************************************************)
EXTENDS BootMemory

CONSTANTS Chains,           \* cards to try: per file its clusters, in order
          Entries,          \* directory entries to try
          ClusterSectors,   \* cffat_sectors_per_cluster
          FatSectorEntries, \* entries of the FAT in a sector: CF_BLOCK_SIZE/2
          FatEntries,       \* cffat_fat_entries
          PartialReads      \* whether they may do so in the middle of the sector

ASSUME CardAssumption ==
  /\ {ClusterSectors, FatSectorEntries, FatEntries} \subseteq Nat \ {0}
  /\ Size % ClusterSectors = 0
  /\ PartialReads \in BOOLEAN
  /\ Entries \subseteq {"empty", "whole", "short", "long"}

\* A file has a cluster, and no cluster belongs to two files or twice to one.
ASSUME ChainsAssumption ==
  \A c \in Chains :
    /\ c \in [Regions -> Seq(Nat) \ {<<>>}]
    /\ \A f, g \in Regions : \A i \in 1..Len(c[f]), j \in 1..Len(c[g]) :
         c[f][i] = c[g][j] => f = g /\ i = j

VARIABLES
  chain,                    \* the card that is in its slot while it is read
  card,                     \* the file being loaded and the locals of cffat_load
  locked,                   \* the card's controller is reserved for the loader
  fatCached, fatMixed,      \* cffat_fat_cached_sector; another sector's entries are in it
  dirCached,
  sizes                     \* per region, the length of the file cardboot has put there

cardVars == <<chain, card, locked, fatCached, fatMixed, dirCached, sizes>>
caches == <<fatCached, fatMixed, dirCached>>

Away == [does |-> "away", file |-> "none", cluster |-> None, n |-> 0, size |-> 0]
NoCard == [f \in Regions |-> <<>>]
Nothing == [f \in Regions |-> 0]
NoSector == FatEntries                     \* -1
EndOfChain == 2 * FatEntries               \* from 0xFFF8
Failed == 2 * FatEntries + 1               \* -1

CardInit ==
  /\ chain = NoCard /\ card = Away /\ locked = FALSE
  /\ fatCached = NoSector /\ fatMixed = FALSE /\ dirCached = FALSE
  /\ sizes = Nothing

-----------------------------------------------------------------------------
(* What is on the card.  A broken entry says that its file is longer than its *)
(* clusters; an empty file has cluster 0 for its first.                       *)

EntrySize(e, f) ==
  LET all == Len(chain[f]) * ClusterSectors
  IN  CASE e = "whole" -> all
        [] e = "short" -> all - 1
        [] e = "long"  -> all + 1
        [] OTHER       -> 0

FirstCluster(e, f) == IF e = "empty" THEN 0 ELSE chain[f][1]

\* The places a cluster has in the chains of the files: at most one.
Places(c) ==
  {p \in Regions \X (1..Size) : p[2] <= Len(chain[p[1]]) /\ chain[p[1]][p[2]] = c}

Fat(c) ==
  IF c = 0 THEN EndOfChain
  ELSE IF Places(c) = {} THEN 0
  ELSE LET p == CHOOSE p \in Places(c) : TRUE IN
       IF p[2] = Len(chain[p[1]]) THEN EndOfChain ELSE chain[p[1]][p[2] + 1]

\* The i-th sector of a cluster.
Sector(c, i) ==
  IF Places(c) = {} THEN Unit("card", "other", None)
  ELSE LET p == CHOOSE p \in Places(c) : TRUE
       IN  Unit("card", p[1], (p[2] - 1) * ClusterSectors + i)

-----------------------------------------------------------------------------
(* The reader *)

\* cf_readblock fails; the loader goes on.
BadRead == Fault
GoodRead == UNCHANGED faults

\* Mutant: the cached sector's name is set before it is known whether it could be read.
ReadFatNamed(c, value) ==
  LET sector == c \div FatSectorEntries
      alike == {d \in 0..(FatEntries - 1) : d % FatSectorEntries = c % FatSectorEntries}
  IN
  /\ UNCHANGED dirCached /\ fatCached' = sector
  /\ \/ /\ c < FatEntries /\ sector = fatCached
        /\ value \in IF fatMixed THEN {Fat(d) : d \in alike} ELSE {Fat(c)}
        /\ GoodRead /\ UNCHANGED fatMixed
     \/ /\ c < FatEntries /\ sector # fatCached
        /\ \/ value = Fat(c) /\ GoodRead /\ fatMixed' = FALSE
           \/ value = Failed /\ BadRead /\ fatMixed' = TRUE

\* cffat_read_fat: an entry past the end, from the cache, or from its sector, which is
\* cached if it could be read.  A read that fails leaves the name of the sector before.
ReadFat(c, value) ==
  LET sector == c \div FatSectorEntries
      alike == {d \in 0..(FatEntries - 1) : d % FatSectorEntries = c % FatSectorEntries}
  IN
  /\ UNCHANGED dirCached
  /\ \/ /\ c >= FatEntries
        /\ value = Failed /\ GoodRead /\ UNCHANGED <<fatCached, fatMixed>>
     \/ /\ c < FatEntries /\ sector = fatCached
        /\ value \in IF fatMixed THEN {Fat(d) : d \in alike} ELSE {Fat(c)}
        /\ GoodRead /\ UNCHANGED <<fatCached, fatMixed>>
     \/ /\ c < FatEntries /\ sector # fatCached
        /\ \/ /\ value = Fat(c) /\ GoodRead
              /\ fatCached' = sector /\ fatMixed' = FALSE
           \/ /\ value = Failed /\ BadRead /\ UNCHANGED fatCached
              /\ fatMixed' \in {fatMixed, PartialReads \/ fatMixed}

\* cffat_load_cluster: as many sectors as are left to read.
LoadCluster(c, n) ==
  mem' = [mem EXCEPT ![card.file] =
            [i \in 1..Size |->
               IF i \in (n * ClusterSectors + 1)..((n + 1) * ClusterSectors)
               THEN Sector(c, i - n * ClusterSectors) ELSE @[i]]]

-----------------------------------------------------------------------------
(* cardboot() *)

LeaveCard(next) == stage' = next /\ card' = Away /\ sizes' = Nothing /\ chain' = NoCard
Find(file) == card' = [Away EXCEPT !.does = "find", !.file = file]

\* cffat_init: the card and its file system are looked at.
CardOpen(next) ==
  /\ stage = "card" /\ card.does = "away"
  /\ \/ LeaveCard(next) /\ UNCHANGED <<locked, caches, faults>>
     \/ LeaveCard(next) /\ locked' = TRUE /\ BadRead /\ UNCHANGED caches
     \/ /\ chain' \in Chains
        /\ Find("kernel") /\ UNCHANGED <<stage, sizes, faults>>
        /\ locked' = TRUE
        /\ fatCached' = NoSector /\ fatMixed' = FALSE /\ dirCached' = FALSE
  /\ UNCHANGED <<mem, started>>

\* What cardboot does of tryload's result, the length of the file or 0: the kernel must
\* be there, the others need not.
GoOn(size, next) ==
  CASE card.file = "kernel" ->
         /\ IF size > 0 THEN Find("cmdline") /\ sizes' = [sizes EXCEPT !["kernel"] = size]
                             /\ UNCHANGED <<stage, chain>>
                        ELSE LeaveCard(next)
         /\ UNCHANGED started
    [] card.file = "cmdline" ->
         /\ Find("initrd") /\ sizes' = [sizes EXCEPT !["cmdline"] = size]
         /\ UNCHANGED <<stage, started, chain>>
    [] card.file = "initrd" ->
         /\ card' = Away /\ sizes' = [sizes EXCEPT !["initrd"] = size] /\ UNCHANGED chain
         /\ Boot("card", sizes["cmdline"] > 0, size > 0, size)

\* tryload: a file that is longer than what was read of it is refused, and the card
\* given up; cardboot gives it up before it starts the image.
TryLoad(devsize, next) ==
  LET broken == devsize > 0 /\ card.size > devsize
  IN  /\ GoOn(IF devsize > 0 /\ ~broken THEN card.size ELSE 0, next)
      /\ locked' = (locked /\ card.file # "initrd" /\ ~broken)

\* cffat_find_file_by_name
FindFile(next) ==
  /\ card.does = "find"
  /\ \/ /\ dirCached' = TRUE /\ UNCHANGED faults
        /\ \/ TryLoad(0, next)
           \/ \E e \in Entries :
                /\ card' = [card EXCEPT !.does = "load", !.cluster = FirstCluster(e, card.file),
                                        !.size = EntrySize(e, card.file)]
                /\ UNCHANGED <<stage, started, locked, sizes, chain>>
     \/ ~dirCached /\ BadRead /\ TryLoad(0, next) /\ UNCHANGED dirCached
  /\ UNCHANGED <<mem, fatCached, fatMixed>>

\* One turn of cffat_load's loop.
LoadLoop(next) ==
  /\ card.does = "load"
  /\ \/ /\ LoadCluster(card.cluster, card.n)
        /\ \E c \in 0..Failed :
             /\ ReadFat(card.cluster, c)
             /\ IF c = Failed THEN TryLoad(0, next)
                ELSE IF c = EndOfChain \/ (card.n + 1) * ClusterSectors = Size
                THEN TryLoad((card.n + 1) * ClusterSectors, next)
                ELSE /\ card' = [card EXCEPT !.cluster = c, !.n = @ + 1]
                     /\ UNCHANGED <<stage, started, locked, sizes, chain>>
     \/ BadRead /\ TryLoad(0, next) /\ UNCHANGED <<mem, caches>>

CardStep(next) == CardOpen(next) \/ FindFile(next) \/ LoadLoop(next)
=============================================================================
