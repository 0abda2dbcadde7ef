-------------------------------- MODULE Heap --------------------------------
(***************************************************************************)
(* The memory allocator (libbase/malloc.c) over the banks of libhal/mem.c. *)
(*                                                                         *)
(* A bank is divided in elements of the size of a bookkeeping record, in   *)
(* which its addresses are counted.  A chunk is its record and the elements *)
(* behind it.  The chunks are a list in the order of their addresses.      *)
(***************************************************************************)
EXTENDS Integers, FiniteSets

CONSTANTS banks,          \* per bank its first address and the one behind its last
          RecordSize,     \* sizeof(struct m_bk), in bytes
          Sizes,          \* sizes asked for, in bytes
          Alignments      \* alignments asked for, in bytes

\* The banks do not overlap.
ASSUME BanksAssumption ==
  /\ \A b \in DOMAIN banks : banks[b].start \in Nat /\ banks[b].end \in Nat
  /\ \A b, c \in DOMAIN banks :
       b # c => banks[b].end <= banks[c].start \/ banks[c].end <= banks[b].start
ASSUME RequestsAssumption ==
  Sizes \subseteq Nat /\ Alignments \cup {RecordSize} \subseteq Nat \ {0}

VARIABLES
  first_allocated, last_allocated,    \* per bank, None if it has no chunk
  bk,                                 \* per bank, the records
  live                                \* what callers hold: bank, index of the record, request

heapVars == <<first_allocated, last_allocated, bk, live>>

None == -1
getnbk(b) == banks[b].end - banks[b].start
\* What is in an element that is no record, or in the part of it that nobody relies on.
Scribbled == [next |-> None, size |-> None]

HeapInit ==
  /\ first_allocated = [b \in DOMAIN banks |-> None]
  /\ last_allocated = [b \in DOMAIN banks |-> None]
  /\ bk = [b \in DOMAIN banks |-> [i \in 0..(getnbk(b) - 1) |-> Scribbled]]
  /\ live = {}

-----------------------------------------------------------------------------
(* Euclid's algorithm in its binary form *)

gcd[uv \in Nat \X Nat] ==
  LET u == uv[1]
      v == uv[2]
  IN  IF u = 0 \/ v = 0 THEN u + v
      ELSE IF u % 2 = 0 /\ v % 2 = 0 THEN 2 * gcd[<<u \div 2, v \div 2>>]
      ELSE IF u % 2 = 0 THEN gcd[<<u \div 2, v>>]
      ELSE IF v % 2 = 0 THEN gcd[<<u, v \div 2>>]
      ELSE IF u < v THEN gcd[<<u, (v - u) \div 2>>] ELSE gcd[<<v, (u - v) \div 2>>]

lcm(u, v) == (u * v) \div gcd[<<u, v>>]

-----------------------------------------------------------------------------
(* mallocex() *)

\* What is left free in front of a chunk whose record could be at index i at the earliest.
Extra(b, i, alignment) == (-(banks[b].start + i + 1)) % alignment

Behind(b, i) == i + bk[b][i].size
Fits(b, i, end, size, alignment) == end - i >= size + Extra(b, i, alignment) + 1

\* The chunk at index i becomes one that callers hold.
Hand(b, i, size, alignment) ==
  live' = live \cup {[bank |-> b, at |-> i, size |-> size, alignment |-> alignment]}

AtBeginning(b, size, alignment) ==
  LET i == Extra(b, 0, alignment)
      empty == first_allocated[b] = None
  IN
  /\ bk' = [bk EXCEPT ![b][i] = [next |-> first_allocated[b], size |-> size + 1]]
  /\ first_allocated' = [first_allocated EXCEPT ![b] = i]
  /\ last_allocated' = IF empty THEN [last_allocated EXCEPT ![b] = i] ELSE last_allocated
  /\ Hand(b, i, size, alignment)

AfterLast(b, size, alignment) ==
  LET last == last_allocated[b]
      i == Behind(b, last) + Extra(b, Behind(b, last), alignment)
  IN
  /\ bk' = [bk EXCEPT ![b][last].next = i, ![b][i] = [next |-> None, size |-> size + 1]]
  /\ last_allocated' = [last_allocated EXCEPT ![b] = i]
  /\ Hand(b, i, size, alignment) /\ UNCHANGED first_allocated

\* The chunks as the list has them.
Chunks(b) ==
  IF first_allocated[b] = None THEN {}
  ELSE LET reach[n \in 0..getnbk(b)] ==
             IF n = 0 THEN {first_allocated[b]}
             ELSE reach[n - 1] \cup
                    {bk[b][i].next : i \in reach[n - 1] \ {last_allocated[b], None}}
       IN  reach[getnbk(b)]

\* The chunks that have room enough between them and the next one.
Gaps(b, size, alignment) ==
  {i \in Chunks(b) \ {last_allocated[b]} :
     Fits(b, Behind(b, i), bk[b][i].next, size, alignment)}

\* The first gap is taken.
Between(b, size, alignment) ==
  LET gaps == Gaps(b, size, alignment)
      before == CHOOSE i \in gaps : \A j \in gaps : i <= j
      i == Behind(b, before) + Extra(b, Behind(b, before), alignment)
  IN
  /\ bk' = [bk EXCEPT ![b][before].next = i,
                      ![b][i] = [next |-> bk[b][before].next, size |-> size + 1]]
  /\ Hand(b, i, size, alignment) /\ UNCHANGED <<first_allocated, last_allocated>>

HasChunks(b) == first_allocated[b] # None
CanBegin(b, size, alignment) ==
  Fits(b, 0, IF HasChunks(b) THEN first_allocated[b] ELSE getnbk(b), size, alignment)
CanAppend(b, size, alignment) ==
  HasChunks(b) /\ Fits(b, Behind(b, last_allocated[b]), getnbk(b), size, alignment)
CanInsert(b, size, alignment) == HasChunks(b) /\ Gaps(b, size, alignment) # {}

\* The size and the alignment are rounded up to whole elements.
InElements(bytes) == (bytes + RecordSize - 1) \div RecordSize
Alignment(bytes) == lcm(bytes, RecordSize) \div RecordSize

\* Where nothing was asked for, or there is no room, NULL is returned.
Refuses(bytes, b, alignbytes) ==
  \/ bytes = 0
  \/ LET size == InElements(bytes)
         alignment == Alignment(alignbytes)
     IN  ~(CanBegin(b, size, alignment) \/ CanAppend(b, size, alignment)
           \/ CanInsert(b, size, alignment))

mallocex(bytes, b, alignbytes) ==
  LET size == InElements(bytes)
      alignment == Alignment(alignbytes)
  IN
  /\ ~Refuses(bytes, b, alignbytes)
  /\ IF CanBegin(b, size, alignment) THEN AtBeginning(b, size, alignment)
     ELSE IF CanAppend(b, size, alignment) THEN AfterLast(b, size, alignment)
     ELSE Between(b, size, alignment)

-----------------------------------------------------------------------------
(* free() *)

\* Mutant: the last chunk is not forgotten.
FreeKeepsLast(p) ==
  LET b == p.bank
      pbki == p.at
      before == CHOOSE i \in Chunks(b) : bk[b][i].next = pbki
  IN
  /\ live' = live \ {p}
  /\ IF pbki = first_allocated[b]
     THEN /\ first_allocated' = [first_allocated EXCEPT ![b] = bk[b][pbki].next]
          /\ UNCHANGED <<last_allocated, bk>>
     ELSE /\ bk' = [bk EXCEPT ![b][before].next = bk[b][pbki].next]
          /\ UNCHANGED <<first_allocated, last_allocated>>

free(p) ==
  LET address == banks[p.bank].start + p.at + 1
      b == CHOOSE b \in DOMAIN banks : banks[b].start <= address /\ address < banks[b].end
      pbki == address - banks[b].start - 1
      before == CHOOSE i \in Chunks(b) : bk[b][i].next = pbki
  IN
  /\ live' = live \ {p}
  /\ IF first_allocated[b] = last_allocated[b]
     THEN /\ first_allocated' = [first_allocated EXCEPT ![b] = None]
          /\ last_allocated' = [last_allocated EXCEPT ![b] = None]
          /\ bk' = [bk EXCEPT ![b][pbki] = Scribbled]
     ELSE IF pbki = first_allocated[b]
     THEN /\ first_allocated' = [first_allocated EXCEPT ![b] = bk[b][pbki].next]
          /\ UNCHANGED last_allocated
          /\ bk' = [bk EXCEPT ![b][pbki] = Scribbled]
     ELSE IF pbki = last_allocated[b]
     THEN /\ last_allocated' = [last_allocated EXCEPT ![b] = before]
          /\ UNCHANGED first_allocated
          /\ bk' = [bk EXCEPT ![b][pbki] = Scribbled, ![b][before].next = None]
     ELSE /\ UNCHANGED <<first_allocated, last_allocated>>
          /\ bk' = [bk EXCEPT ![b][pbki] = Scribbled, ![b][before].next = bk[b][pbki].next]

Allocate ==
  \E bytes \in Sizes, b \in DOMAIN banks, alignment \in Alignments :
    mallocex(bytes, b, alignment)
Free == \E p \in live : free(p)
HeapNext == Allocate \/ Free

-----------------------------------------------------------------------------
(* Properties *)

Elements(b, i, size) == {[bank |-> b, at |-> e] : e \in i..(i + size)}
Held(p) == Elements(p.bank, p.at, p.size)

\* The chunks that callers hold lie in their bank and do not overlap, the data of each is
\* aligned as it was asked for, and the list has just these, with their sizes, from the first
\* to the last, however they were allocated and freed.
ListSound ==
  /\ \A p \in live :
       /\ p.at + p.size < getnbk(p.bank) /\ bk[p.bank][p.at].size = p.size + 1
       /\ (banks[p.bank].start + p.at + 1) % p.alignment = 0
       /\ first_allocated[p.bank] <= p.at /\ p.at <= last_allocated[p.bank]
  /\ \A p, q \in live : p # q => Held(p) \cap Held(q) = {}
  /\ \A b \in DOMAIN banks : Chunks(b) = {p.at : p \in {q \in live : q.bank = b}}

\* Memory is refused only where no place is left that has the size and the alignment.
RefusedWhenFull ==
  \A bytes \in Sizes \ {0}, b \in DOMAIN banks, alignbytes \in Alignments :
    LET size == InElements(bytes) IN
    Refuses(bytes, b, alignbytes)
    => ~\E i \in 0..(getnbk(b) - size - 1) :
          /\ ((banks[b].start + i + 1) * RecordSize) % alignbytes = 0
          /\ \A p \in live : Held(p) \cap Elements(b, i, size) = {}

\* The allocator hands out memory that is the caller's alone, as long as there is any.
HeapSound == ListSound /\ RefusedWhenFull
=============================================================================
