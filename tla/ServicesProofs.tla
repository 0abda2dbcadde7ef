--------------------------- MODULE ServicesProofs ---------------------------
(***************************************************************************)
(* What every program calls, for all sizes: the allocator and the software *)
(* of the two timers.                                                      *)
(*                                                                         *)
(* The allocator, for all banks that do not overlap, sizes and alignments: *)
(* what it hands out is the caller's alone, in its bank and aligned, the   *)
(* list has just these chunks, and only where no place is left it refuses. *)
(* What a recursive function computes is shown by the least number for     *)
(* which it would be wrong.                                                *)
(*                                                                         *)
(* The timers, for every frequency and every queue: time_get returns the   *)
(* time at which it read the counter, cpustats.c reports the time that was *)
(* busy and, until the handler sends inside slowout_queue, the outputs     *)
(* come in their order, however the main program, the interrupts and the   *)
(* timers interleave.                                                      *)
(***************************************************************************)
EXTENDS Heap, Timers, WellFoundedInduction, SequenceTheorems, TLAPS

-----------------------------------------------------------------------------
(* Recursion *)

\* The least-number principle, for a set.
LEMMA Least ==
  ASSUME NEW T \in SUBSET Nat, T # {}
  PROVE  \E x \in T : \A y \in T : x <= y
  <1> DEFINE R == OpToRel(<, Nat)
  <1>1. IsWellFoundedOn(R, Nat)
    BY NatLessThanWellFounded
  <1>2. \A x, y \in Nat : x < y => <<x, y>> \in R
    BY DEF OpToRel
  <1> HIDE DEF R
  <1>3. PICK x \in T : \A y \in T : ~(<<y, x>> \in R)
    BY <1>1, WFMin, Zenon
  <1>4. \A y \in T : ~(y < x)
    BY <1>2, <1>3
  <1> QED BY <1>3, <1>4

\* One step along the list from the chunks in X.
Along(b, X) == X \cup {bk[b][i].next : i \in X \ {last_allocated[b], None}}

\* The walk of Chunks is well defined.
LEMMA Walk ==
  ASSUME NEW b, getnbk(b) \in Nat, first_allocated[b] # None
  PROVE  \E r : /\ Chunks(b) = r[getnbk(b)] /\ r[0] = {first_allocated[b]}
                /\ \A n \in 1..getnbk(b) : r[n] = Along(b, r[n - 1])
  <1> DEFINE N == getnbk(b)
             Begin == {first_allocated[b]}
             F(g, m) == [n \in 0..m |-> IF n = 0 THEN Begin ELSE Along(b, g[n - 1])]
             Walks(m) == \E g : g = F(g, m)
             T == {m \in Nat : ~Walks(m)}
  <1>1. T = {}
    <2> SUFFICES ASSUME T # {} PROVE FALSE
      OBVIOUS
    <2>1. PICK m \in T : \A k \in T : m <= k
      BY Least
    <2>2. m \in Nat /\ ~Walks(m)
      BY <2>1
    <2>3. CASE m = 0
      <3> DEFINE g == [n \in 0..m |-> Begin]
      <3>1. g = F(g, m)
        BY <2>3
      <3> QED BY <2>2, <3>1
    <2>4. CASE m > 0
      <3>1. m - 1 \in Nat /\ Walks(m - 1)
        <4>1. m - 1 \in Nat /\ ~(m <= m - 1)
          BY <2>2, <2>4
        <4> HIDE DEF Walks
        <4>2. m - 1 \notin T
          BY <2>1, <4>1
        <4> QED BY <4>1, <4>2
      <3>2. PICK g : g = F(g, m - 1)
        BY <3>1
      <3>3. \A n \in 0..(m - 1) : g[n] = IF n = 0 THEN Begin ELSE Along(b, g[n - 1])
        <4>1. ASSUME NEW n \in 0..(m - 1)
              PROVE  F(g, m - 1)[n] = IF n = 0 THEN Begin ELSE Along(b, g[n - 1])
          OBVIOUS
        <4> HIDE DEF F
        <4> QED BY <3>2, <4>1
      <3> DEFINE h == [n \in 0..m |-> IF n = 0 THEN Begin ELSE Along(b, g[n - 1])]
      <3>4. \A n \in 0..(m - 1) : h[n] = g[n]
        <4>1. \A n \in 0..(m - 1) : h[n] = IF n = 0 THEN Begin ELSE Along(b, g[n - 1])
          BY <2>2
        <4> HIDE DEF h
        <4> QED BY <3>3, <4>1
      <3>5. \A n \in 1..m : Along(b, g[n - 1]) = Along(b, h[n - 1])
        <4>1. \A n \in 1..m : n - 1 \in 0..(m - 1)
          BY <2>2
        <4> HIDE DEF h
        <4> QED BY <3>4, <4>1
      <3>6. h = F(h, m)
        <4>1. \A n \in 0..m : n = 0 \/ n \in 1..m
          BY <2>2
        <4>2. \A n \in 0..m : (IF n = 0 THEN Begin ELSE Along(b, g[n - 1]))
                               = (IF n = 0 THEN Begin ELSE Along(b, h[n - 1]))
          BY <3>5, <4>1
        <4> QED BY <4>2, Zenon
      <3> HIDE DEF h
      <3> QED BY <2>2, <3>6
    <2> QED BY <2>2, <2>3, <2>4
  <1>2. PICK f : f = F(f, N)
    BY <1>1
  <1> DEFINE r == CHOOSE g : g = F(g, N)
  <1>3. r = F(r, N)
    BY <1>2, Zenon
  <1>4. Chunks(b) = r[N]
    BY Zenon DEF Chunks, Along
  <1> HIDE DEF r
  <1>5. r[0] = Begin /\ \A n \in 1..N : r[n] = Along(b, r[n - 1])
    <2>1. \A n \in 0..N : F(r, N)[n] = IF n = 0 THEN Begin ELSE Along(b, r[n - 1])
      OBVIOUS
    <2> HIDE DEF F
    <2>2. \A n \in 0..N : r[n] = IF n = 0 THEN Begin ELSE Along(b, r[n - 1])
      BY <1>3, <2>1
    <2>3. 0 \in 0..N /\ \A n \in 1..N : n \in 0..N /\ n # 0
      OBVIOUS
    <2> QED BY <2>2, <2>3
  <1> QED BY <1>4, <1>5

-----------------------------------------------------------------------------
(* The inductive invariant *)

HeapSpec == HeapInit /\ [][HeapNext]_heapVars

Records == [next : Int, size : Int]
Requests == [bank : DOMAIN banks, at : Nat, size : Nat \ {0}, alignment : Nat \ {0}]

HeapTyped ==
  /\ first_allocated \in [DOMAIN banks -> Nat \cup {None}]
  /\ last_allocated \in [DOMAIN banks -> Nat \cup {None}]
  /\ bk = [b \in DOMAIN banks |-> bk[b]]
  /\ \A b \in DOMAIN banks : bk[b] \in [0..(getnbk(b) - 1) -> Records]
  /\ live \subseteq Requests

\* Where the chunks are that callers hold.
At(b) == {p.at : p \in {q \in live : q.bank = b}}

Placed(p) ==
  /\ p.at + p.size < getnbk(p.bank)
  /\ bk[p.bank][p.at].size = p.size + 1
  /\ (banks[p.bank].start + p.at + 1) % p.alignment = 0

Apart(p, q) == p.at + p.size < q.at \/ q.at + q.size < p.at

\* The records r link the places A in their order, from f to l.
Linked(f, l, r, A) ==
  IF f = None THEN A = {} /\ l = None
  ELSE /\ f \in A /\ l \in A /\ \A i \in A : f <= i /\ i <= l
       /\ r[l].next = None
       /\ \A i \in A \ {l} : /\ r[i].next \in A /\ i < r[i].next
                             /\ \A j \in A : j <= i \/ r[i].next <= j
       /\ \A i \in A \ {f} : \E j \in A \ {l} : r[j].next = i

HeapInv ==
  /\ HeapTyped
  /\ \A p \in live : Placed(p)
  /\ \A p, q \in live : p # q /\ p.bank = q.bank => Apart(p, q)
  /\ \A b \in DOMAIN banks : Linked(first_allocated[b], last_allocated[b], bk[b], At(b))

-----------------------------------------------------------------------------
(* Lists *)

\* The records rr link the places X to the same ones as the records r.
Keeps(rr, r, X) == \A j \in X : rr[j].next = r[j].next

\* A chunk in front of all others.
LEMMA LinkFirst ==
  ASSUME NEW r, NEW rr, NEW A \in SUBSET Nat,
         NEW f \in Nat \cup {None}, NEW l \in Nat \cup {None}, Linked(f, l, r, A),
         NEW i \in Nat, f # None => i < f, rr[i].next = f, Keeps(rr, r, A)
  PROVE  Linked(i, IF f = None THEN i ELSE l, rr, A \cup {i})
  <1>1. rr[i].next = f /\ \A j \in A : rr[j].next = r[j].next
    BY DEF Keeps
  <1>2. CASE f = None
    <2>1. A \cup {i} = {i}
      BY <1>2 DEF Linked
    <2> QED BY <1>1, <1>2, <2>1 DEF Linked, None
  <1>3. CASE f # None
    <2>1. /\ f \in A /\ l \in A /\ \A j \in A : f <= j /\ j <= l
          /\ r[l].next = None
          /\ \A j \in A \ {l} : /\ r[j].next \in A /\ j < r[j].next
                                /\ \A k \in A : k <= j \/ r[j].next <= k
          /\ \A j \in A \ {f} : \E k \in A \ {l} : r[k].next = j
      BY <1>3 DEF Linked
    <2>2. i < f /\ f \in Nat /\ i \notin A /\ i # None
      BY <1>3, <2>1 DEF None
    <2>3. \A j \in A : rr[j].next = r[j].next
      BY <1>1
    <2>4. \A j \in A \cup {i} : i <= j /\ j <= l
      BY <2>1, <2>2
    <2>5. ASSUME NEW j \in (A \cup {i}) \ {l}
          PROVE  /\ rr[j].next \in A \cup {i} /\ j < rr[j].next
                 /\ \A k \in A \cup {i} : k <= j \/ rr[j].next <= k
      <3>1. CASE j = i
        BY <1>1, <2>1, <2>2, <3>1
      <3>2. CASE j # i
        <4>1. j \in A \ {l}
          BY <3>2
        <4>2. rr[j].next = r[j].next /\ r[j].next \in A /\ j < r[j].next
          BY <2>1, <2>3, <4>1
        <4>3. \A k \in A : k <= j \/ r[j].next <= k
          BY <2>1, <4>1
        <4>4. i <= j
          BY <2>4, <4>1
        <4> QED BY <4>2, <4>3, <4>4
      <3> QED BY <3>1, <3>2
    <2>6. ASSUME NEW j \in (A \cup {i}) \ {i}
          PROVE  \E k \in (A \cup {i}) \ {l} : rr[k].next = j
      <3>1. CASE j = f
        <4>1. i \in (A \cup {i}) \ {l}
          BY <2>1, <2>2
        <4> QED BY <1>1, <3>1, <4>1
      <3>2. CASE j # f
        <4>1. PICK k \in A \ {l} : r[k].next = j
          BY <2>1, <3>2
        <4> QED BY <2>3, <4>1
      <3> QED BY <3>1, <3>2
    <2>7. rr[l].next = None
      BY <2>1, <2>3
    <2> QED BY <1>3, <2>1, <2>2, <2>4, <2>5, <2>6, <2>7 DEF Linked
  <1> QED BY <1>2, <1>3

\* A chunk behind all others.
LEMMA LinkLast ==
  ASSUME NEW r, NEW rr, NEW A \in SUBSET Nat,
         NEW f \in Nat, NEW l \in Nat, Linked(f, l, r, A),
         NEW i \in Nat, l < i, rr[l].next = i, rr[i].next = None, Keeps(rr, r, A \ {l})
  PROVE  Linked(f, i, rr, A \cup {i})
  <1>1. /\ f \in A /\ l \in A /\ \A j \in A : f <= j /\ j <= l
        /\ r[l].next = None
        /\ \A j \in A \ {l} : /\ r[j].next \in A /\ j < r[j].next
                              /\ \A k \in A : k <= j \/ r[j].next <= k
        /\ \A j \in A \ {f} : \E k \in A \ {l} : r[k].next = j
    <2>1. f # None
      BY DEF None
    <2> QED BY <2>1 DEF Linked
  <1>2. f # None /\ i # None /\ i \notin A
    BY <1>1 DEF None
  <1>3. /\ rr[l].next = i /\ rr[i].next = None
        /\ \A j \in A \ {l} : rr[j].next = r[j].next
    BY DEF Keeps
  <1>4. \A j \in A \cup {i} : f <= j /\ j <= i
    BY <1>1
  <1>5. ASSUME NEW j \in (A \cup {i}) \ {i}
        PROVE  /\ rr[j].next \in A \cup {i} /\ j < rr[j].next
               /\ \A k \in A \cup {i} : k <= j \/ rr[j].next <= k
    <2>1. CASE j = l
      <3>1. rr[j].next = i /\ j < i /\ i \in A \cup {i}
        BY <1>3, <2>1
      <3>2. \A k \in A \cup {i} : k <= j \/ i <= k
        BY <1>1, <2>1
      <3> QED BY <3>1, <3>2
    <2>2. CASE j # l
      <3>1. j \in A \ {l}
        BY <2>2
      <3>2. rr[j].next \in A /\ j < rr[j].next /\ \A k \in A : k <= j \/ rr[j].next <= k
        BY <1>1, <1>3, <3>1
      <3>3. rr[j].next <= i
        <4>1. \A k \in A : k <= i
          BY <1>1
        <4> QED BY <3>2, <4>1
      <3> QED BY <3>2, <3>3
    <2> QED BY <2>1, <2>2
  <1>6. ASSUME NEW j \in (A \cup {i}) \ {f}
        PROVE  \E k \in (A \cup {i}) \ {i} : rr[k].next = j
    <2>1. CASE j = i
      BY <1>1, <1>2, <1>3, <2>1
    <2>2. CASE j # i
      <3>1. PICK k \in A \ {l} : r[k].next = j
        BY <1>1, <2>2
      <3> QED BY <1>2, <1>3, <3>1
    <2> QED BY <2>1, <2>2
  <1> QED BY <1>1, <1>2, <1>3, <1>4, <1>5, <1>6 DEF Linked

\* A chunk between b and the next one.
LEMMA LinkBetween ==
  ASSUME NEW r, NEW rr, NEW A \in SUBSET Nat,
         NEW f \in Nat, NEW l \in Nat, Linked(f, l, r, A),
         NEW b \in A \ {l}, NEW i \in Nat, b < i, i < r[b].next,
         rr[b].next = i, rr[i].next = r[b].next, Keeps(rr, r, A \ {b})
  PROVE  Linked(f, l, rr, A \cup {i})
  <1>1. /\ f \in A /\ l \in A /\ \A j \in A : f <= j /\ j <= l
        /\ r[l].next = None
        /\ \A j \in A \ {l} : /\ r[j].next \in A /\ j < r[j].next
                              /\ \A k \in A : k <= j \/ r[j].next <= k
        /\ \A j \in A \ {f} : \E k \in A \ {l} : r[k].next = j
    BY DEF Linked, None
  <1>2. /\ f # None /\ i # None /\ i \notin A /\ r[b].next \in A /\ i # l
        /\ r[b].next \in Nat /\ b \in Nat
    <2>1. r[b].next \in A /\ \A k \in A : k <= b \/ r[b].next <= k
      BY <1>1
    <2> DEFINE n == r[b].next
    <2>2. n \in Nat /\ b \in Nat
      BY <2>1
    <2>3. b < i /\ i < n
      OBVIOUS
    <2>4. n <= l /\ \A k \in A : k <= b \/ n <= k
      BY <1>1, <2>1
    <2> HIDE DEF n
    <2>5. i \notin A
      BY <2>2, <2>3, <2>4
    <2>6. i < l
      BY <2>2, <2>3, <2>4
    <2>7. f # None /\ i # None /\ i # l
      BY <2>6 DEF None
    <2> QED BY <2>1, <2>2, <2>5, <2>7 DEF n
  <1>3. /\ rr[b].next = i /\ rr[i].next = r[b].next
        /\ \A j \in A \ {b} : rr[j].next = r[j].next
    BY DEF Keeps
  <1>4. \A j \in A \cup {i} : f <= j /\ j <= l
    BY <1>1, <1>2
  <1>5. ASSUME NEW j \in (A \cup {i}) \ {l}
        PROVE  /\ rr[j].next \in A \cup {i} /\ j < rr[j].next
               /\ \A k \in A \cup {i} : k <= j \/ rr[j].next <= k
    <2>1. \A k \in A : k <= b \/ r[b].next <= k
      BY <1>1
    <2>2. CASE j = b
      <3>1. rr[j].next = i /\ j < i /\ i \in A \cup {i}
        BY <1>3, <2>2
      <3>2. \A k \in A \cup {i} : k \in Nat /\ (k <= j \/ i <= k)
        BY <1>2, <2>1, <2>2
      <3> QED BY <3>1, <3>2
    <2>3. CASE j = i
      BY <1>2, <1>3, <2>1, <2>3
    <2>4. CASE j \in A /\ j # b
      <3>1. j \in A \ {l} /\ b \in A
        BY <2>4
      <3>2. rr[j].next = r[j].next
        BY <1>3, <2>4
      <3>3. r[j].next \in A /\ j < r[j].next /\ \A k \in A : k <= j \/ r[j].next <= k
        BY <1>1, <3>1
      <3>4. b <= j \/ r[j].next <= b
        BY <3>3
      <3>5. j <= b \/ r[b].next <= j
        BY <2>1, <2>4
      <3>6. i <= j \/ r[j].next <= i
        <4>1. r[j].next \in Nat /\ j \in Nat
          BY <3>1, <3>3
        <4> QED BY <1>2, <2>4, <3>4, <3>5, <4>1
      <3> QED BY <3>2, <3>3, <3>6
    <2> QED BY <2>2, <2>3, <2>4
  <1>6. ASSUME NEW j \in (A \cup {i}) \ {f}
        PROVE  \E k \in (A \cup {i}) \ {l} : rr[k].next = j
    <2>1. CASE j = i
      BY <1>3, <2>1
    <2>2. CASE j # i
      <3>1. PICK k \in A \ {l} : r[k].next = j
        BY <1>1, <2>2
      <3>2. CASE k = b
        BY <1>2, <1>3, <3>1, <3>2
      <3>3. CASE k # b
        BY <1>3, <3>1, <3>3
      <3> QED BY <3>2, <3>3
    <2> QED BY <2>1, <2>2
  <1>7. rr[l].next = None
    BY <1>1, <1>3
  <1> QED BY <1>1, <1>2, <1>4, <1>5, <1>6, <1>7 DEF Linked

\* The first of several is taken out.
LEMMA UnlinkFirst ==
  ASSUME NEW r, NEW rr, NEW A \in SUBSET Nat,
         NEW f \in Nat, NEW l \in Nat, Linked(f, l, r, A), f # l,
         Keeps(rr, r, A \ {f})
  PROVE  r[f].next \in Nat /\ Linked(r[f].next, l, rr, A \ {f})
  <1>1. /\ f \in A /\ l \in A /\ \A j \in A : f <= j /\ j <= l
        /\ r[l].next = None
        /\ \A j \in A \ {l} : /\ r[j].next \in A /\ j < r[j].next
                              /\ \A k \in A : k <= j \/ r[j].next <= k
        /\ \A j \in A \ {f} : \E k \in A \ {l} : r[k].next = j
    BY DEF Linked, None
  <1>2. \A j \in A \ {f} : rr[j].next = r[j].next
    BY DEF Keeps
  <1>3. r[f].next \in A \ {f} /\ r[f].next \in Nat /\ r[f].next # None
    <2>1. r[f].next \in A /\ f < r[f].next
      BY <1>1
    <2>2. r[f].next \in Nat
      <3>1. \A j \in A : j \in Nat
        OBVIOUS
      <3> QED BY <2>1, <3>1
    <2> QED BY <2>1, <2>2 DEF None
  <1>4. \A j \in A \ {f} : r[f].next <= j /\ j <= l
    BY <1>1
  <1>5. ASSUME NEW j \in (A \ {f}) \ {l}
        PROVE  /\ rr[j].next \in A \ {f} /\ j < rr[j].next
               /\ \A k \in A \ {f} : k <= j \/ rr[j].next <= k
    BY <1>1, <1>2
  <1>6. ASSUME NEW j \in (A \ {f}) \ {r[f].next}
        PROVE  \E k \in (A \ {f}) \ {l} : rr[k].next = j
    <2>1. PICK k \in A \ {l} : r[k].next = j
      BY <1>1
    <2>2. k # f
      BY <2>1
    <2> QED BY <1>2, <2>1, <2>2
  <1>7. rr[l].next = None /\ l \in A \ {f}
    BY <1>1, <1>2
  <1> QED BY <1>3, <1>4, <1>5, <1>6, <1>7 DEF Linked

\* The last of several is taken out.
LEMMA UnlinkLast ==
  ASSUME NEW r, NEW rr, NEW A \in SUBSET Nat,
         NEW f \in Nat, NEW l \in Nat, Linked(f, l, r, A), f # l,
         NEW b \in A, r[b].next = l, rr[b].next = None, Keeps(rr, r, A \ {b, l})
  PROVE  Linked(f, b, rr, A \ {l})
  <1>1. /\ f \in A /\ l \in A /\ \A j \in A : f <= j /\ j <= l
        /\ r[l].next = None
        /\ \A j \in A \ {l} : /\ r[j].next \in A /\ j < r[j].next
                              /\ \A k \in A : k <= j \/ r[j].next <= k
        /\ \A j \in A \ {f} : \E k \in A \ {l} : r[k].next = j
    BY DEF Linked, None
  <1>2. b # l /\ f # None
    BY <1>1 DEF None
  <1>3. rr[b].next = None /\ \A j \in A \ {b, l} : rr[j].next = r[j].next
    BY DEF Keeps
  <1>4. \A j \in A \ {l} : f <= j /\ j <= b
    <2> SUFFICES ASSUME NEW j \in A \ {l} PROVE f <= j /\ j <= b
      OBVIOUS
    <2>1. j \in Nat /\ f <= j /\ j <= l /\ j # l
      BY <1>1
    <2>2. b \in A \ {l} /\ \A k \in A : k <= b \/ l <= k
      BY <1>1, <1>2
    <2> QED BY <2>1, <2>2
  <1>5. ASSUME NEW j \in (A \ {l}) \ {b}
        PROVE  /\ rr[j].next \in A \ {l} /\ j < rr[j].next
               /\ \A k \in A \ {l} : k <= j \/ rr[j].next <= k
    <2>1. rr[j].next = r[j].next /\ j \in A \ {l}
      BY <1>3
    <2>2. r[j].next \in A /\ j < r[j].next /\ \A k \in A : k <= j \/ r[j].next <= k
      BY <1>1, <2>1
    <2>3. j < b
      BY <1>4
    <2>4. b < l /\ r[j].next <= b
      <3>1. b < l
        BY <1>1, <1>2
      <3>2. b <= j \/ r[j].next <= b
        BY <2>2
      <3> QED BY <2>3, <3>1, <3>2
    <2>5. r[j].next # l
      BY <1>1, <2>2, <2>4
    <2> QED BY <2>1, <2>2, <2>5
  <1>6. ASSUME NEW j \in (A \ {l}) \ {f}
        PROVE  \E k \in (A \ {l}) \ {b} : rr[k].next = j
    <2>1. PICK k \in A \ {l} : r[k].next = j
      BY <1>1
    <2>2. k # b
      BY <2>1
    <2> QED BY <1>3, <2>1, <2>2
  <1>7. b \in A \ {l} /\ f \in A \ {l}
    BY <1>1, <1>2
  <1> QED BY <1>2, <1>3, <1>4, <1>5, <1>6, <1>7 DEF Linked

\* One that has others on both sides is taken out.
LEMMA UnlinkMiddle ==
  ASSUME NEW r, NEW rr, NEW A \in SUBSET Nat,
         NEW f \in Nat, NEW l \in Nat, Linked(f, l, r, A),
         NEW i \in A, i # f, i # l, NEW b \in A, r[b].next = i,
         rr[b].next = r[i].next, Keeps(rr, r, A \ {b, i})
  PROVE  Linked(f, l, rr, A \ {i})
  <1>1. /\ f \in A /\ l \in A /\ \A j \in A : f <= j /\ j <= l
        /\ r[l].next = None
        /\ \A j \in A \ {l} : /\ r[j].next \in A /\ j < r[j].next
                              /\ \A k \in A : k <= j \/ r[j].next <= k
        /\ \A j \in A \ {f} : \E k \in A \ {l} : r[k].next = j
    BY DEF Linked, None
  <1>2. b # l /\ f # None /\ b < i /\ i < r[i].next /\ r[i].next \in A
    BY <1>1 DEF None
  <1>3. rr[b].next = r[i].next /\ \A j \in A \ {b, i} : rr[j].next = r[j].next
    BY DEF Keeps
  <1>4. \A j \in A \ {i} : f <= j /\ j <= l
    BY <1>1
  <1>5. ASSUME NEW j \in (A \ {i}) \ {l}
        PROVE  /\ rr[j].next \in A \ {i} /\ j < rr[j].next
               /\ \A k \in A \ {i} : k <= j \/ rr[j].next <= k
    <2>1. CASE j = b
      <3>1. \A k \in A : k <= b \/ i <= k
        BY <1>1, <1>2
      <3>2. \A k \in A : k <= i \/ r[i].next <= k
        BY <1>1
      <3> DEFINE n == r[i].next
      <3>3. n \in A /\ b < i /\ i < n
        BY <1>2
      <3>4. \A k \in A : k <= i \/ n <= k
        BY <3>2
      <3> HIDE DEF n
      <3>9. n \in Nat /\ b \in Nat /\ i \in Nat
        BY <3>3
      <3>5. n \in Nat /\ b < n /\ n # i
        BY <3>3, <3>9
      <3>6. \A k \in A \ {i} : k <= b \/ n <= k
        BY <3>1, <3>3, <3>4, <3>5
      <3>7. r[i].next \in Nat /\ b < r[i].next /\ r[i].next # i
        BY <3>5 DEF n
      <3>8. \A k \in A \ {i} : k <= b \/ r[i].next <= k
        BY <3>6 DEF n
      <3> QED BY <1>2, <1>3, <2>1, <3>7, <3>8
    <2>2. CASE j # b
      <3>1. rr[j].next = r[j].next /\ j \in A \ {l}
        BY <1>3, <2>2
      <3>2. r[j].next \in A /\ j < r[j].next /\ \A k \in A : k <= j \/ r[j].next <= k
        BY <1>1, <3>1
      <3>3. b <= j \/ r[j].next <= b
        BY <3>2
      <3>4. j <= b \/ i <= j
        BY <1>1, <1>2
      <3>5. r[j].next # i
        <4> DEFINE n == r[j].next
        <4>1. n \in Nat /\ j \in Nat /\ b \in Nat /\ i \in Nat /\ j < n /\ b < i
          BY <1>2, <3>2
        <4>2. b <= j \/ n <= b
          BY <3>3
        <4> HIDE DEF n
        <4>3. n # i
          BY <4>1, <4>2, <2>2, <3>4
        <4> QED BY <4>3 DEF n
      <3> QED BY <3>1, <3>2, <3>5
    <2> QED BY <2>1, <2>2
  <1>6. ASSUME NEW j \in (A \ {i}) \ {f}
        PROVE  \E k \in (A \ {i}) \ {l} : rr[k].next = j
    <2>1. PICK k \in A \ {l} : r[k].next = j
      BY <1>1
    <2>2. CASE k = i
      BY <1>2, <1>3, <2>1, <2>2
    <2>3. CASE k # i
      <3>1. k # b
        BY <2>1
      <3> QED BY <1>3, <2>1, <2>3, <3>1
    <2> QED BY <2>2, <2>3
  <1>7. rr[l].next = None /\ l \in A \ {i} /\ f \in A \ {i}
    BY <1>1, <1>2, <1>3
  <1> QED BY <1>2, <1>4, <1>5, <1>6, <1>7 DEF Linked

\* The walk meets what is linked.
LEMMA WalkedIsLinked ==
  ASSUME NEW b \in DOMAIN banks, HeapInv
  PROVE  Chunks(b) = At(b)
  <1> DEFINE f == first_allocated[b]
             l == last_allocated[b]
             N == getnbk(b)
             A == At(b)
  <1>1. Linked(f, l, bk[b], A)
    BY DEF HeapInv
  <1>2. CASE f = None
    BY <1>1, <1>2 DEF Linked, Chunks
  <1>3. CASE f # None
    <2>1. \A i \in A : i \in 0..(N - 1)
      <3>1. ASSUME NEW p \in live, p.bank = b PROVE p.at \in 0..(N - 1)
        <4>1. p.at \in Nat /\ p.size \in Nat /\ p.at + p.size < N
          BY <3>1 DEF HeapInv, HeapTyped, Requests, Placed
        <4>2. N \in Int
          BY BanksAssumption DEF getnbk
        <4> HIDE DEF N
        <4> QED BY <4>1, <4>2
      <3> QED BY <3>1 DEF At
    <2>2. /\ f \in A /\ l \in A /\ \A i \in A : f <= i /\ i <= l
          /\ \A i \in A \ {l} : bk[b][i].next \in A /\ i < bk[b][i].next
          /\ \A i \in A \ {f} : \E j \in A \ {l} : bk[b][j].next = i
      BY <1>1, <1>3 DEF Linked
    <2>3. N \in Nat /\ f \in Nat
      <3>1. N \in Int
        BY BanksAssumption DEF getnbk
      <3> HIDE DEF N
      <3> QED BY <2>1, <2>2, <3>1
    <2> HIDE DEF N
    <2>4. PICK r : /\ Chunks(b) = r[N] /\ r[0] = {f}
                   /\ \A n \in 1..N : r[n] = Along(b, r[n - 1])
      BY <1>3, <2>3, Walk DEF N
    <2> HIDE DEF f, A
    <2>5. \A n \in 1..N : r[n - 1] \subseteq r[n]
      BY <2>4 DEF Along
    <2>6. ASSUME NEW n \in 0..N PROVE r[n] \subseteq A
      <3> DEFINE T == {k \in 0..N : ~(r[k] \subseteq A)}
      <3>1. T = {}
        <4> SUFFICES ASSUME T # {} PROVE FALSE
          OBVIOUS
        <4>1. PICK k \in T : \A j \in T : k <= j
          <5>1. T \in SUBSET Nat
            BY <2>3
          <5> HIDE DEF T
          <5> QED BY <5>1, Least
        <4>2. k # 0
          BY <2>2, <2>4
        <4>3. k \in 1..N /\ k - 1 \in 0..N /\ ~(k <= k - 1)
          BY <2>3, <4>2
        <4>4. r[k - 1] \subseteq A
          BY <4>1, <4>3
        <4>5. r[k] \subseteq A
          BY <2>2, <2>4, <4>3, <4>4 DEF Along, l
        <4> QED BY <4>5
      <3> QED BY <3>1
    <2>7. \A m \in 0..N : \A n \in m..N : r[m] \subseteq r[n]
      <3> SUFFICES ASSUME NEW m \in 0..N PROVE \A n \in m..N : r[m] \subseteq r[n]
        OBVIOUS
      <3> DEFINE T == {k \in m..N : ~(r[m] \subseteq r[k])}
      <3>1. T = {}
        <4> SUFFICES ASSUME T # {} PROVE FALSE
          OBVIOUS
        <4>1. PICK k \in T : \A j \in T : k <= j
          <5>1. T \in SUBSET Nat
            BY <2>3
          <5> HIDE DEF T
          <5> QED BY <5>1, Least
        <4>2. k # m
          OBVIOUS
        <4>3. k \in 1..N /\ k - 1 \in m..N /\ ~(k <= k - 1)
          BY <2>3, <4>2
        <4>4. r[m] \subseteq r[k - 1]
          BY <4>1, <4>3
        <4> QED BY <2>5, <4>3, <4>4
      <3> QED BY <3>1
    <2>8. ASSUME NEW i \in A PROVE i \in r[i]
      <3> DEFINE T == {k \in A : ~(k \in r[k])}
      <3>1. T = {}
        <4> SUFFICES ASSUME T # {} PROVE FALSE
          OBVIOUS
        <4>1. PICK k \in T : \A j \in T : k <= j
          <5>1. T \in SUBSET Nat
            BY <2>1, <2>3 DEF A
          <5> HIDE DEF T
          <5> QED BY <5>1, Least
        <4>2. k \in A /\ k \in 0..(N - 1) /\ k \notin r[k]
          BY <2>1 DEF A
        <4>3. CASE k = f
          <5>1. f \in r[0] /\ 0 \in 0..N /\ f \in 0..N
            BY <2>3, <2>4, <4>2, <4>3
          <5> QED BY <2>7, <4>2, <4>3, <5>1
        <4>4. CASE k # f
          <5>1. PICK j \in A \ {l} : bk[b][j].next = k
            BY <2>2, <4>2, <4>4
          <5>2. j < k /\ j \in 0..(N - 1)
            BY <2>1, <2>2, <5>1 DEF A
          <5>3. j \in r[j]
            BY <4>1, <4>2, <5>1, <5>2
          <5>4. k \in r[j + 1]
            <6>1. j + 1 \in 1..N /\ (j + 1) - 1 = j /\ j # None
              BY <2>3, <5>2 DEF None
            <6>2. r[j + 1] = Along(b, r[j])
              BY <2>4, <6>1
            <6> QED BY <5>1, <5>3, <6>1, <6>2 DEF Along, l
          <5>5. j + 1 \in 0..N /\ k \in (j + 1)..N
            BY <2>3, <4>2, <5>2
          <5> QED BY <2>7, <4>2, <5>4, <5>5
        <4> QED BY <4>3, <4>4
      <3> QED BY <3>1
    <2>9. A \subseteq r[N]
      <3>1. \A i \in A : i \in 0..N /\ N \in i..N
        BY <2>1, <2>3 DEF A
      <3> QED BY <2>7, <2>8, <3>1
    <2>10. r[N] \subseteq A
      BY <2>3, <2>6
    <2> QED BY <2>4, <2>9, <2>10 DEF A
  <1> QED BY <1>2, <1>3

\* A multiple leaves no remainder.
LEMMA MultipleRemainder ==
  ASSUME NEW al \in Nat \ {0}, NEW q \in Int, NEW y \in Int, y = q * al
  PROVE  y % al = 0
  <1> DEFINE d == y \div al
             m == y % al
  <1>1. d \in Int /\ m \in 0..(al - 1) /\ y = al * d + m
    OBVIOUS
  <1> HIDE DEF d, m
  <1>2. m = al * (q - d)
    BY <1>1
  <1> DEFINE t == q - d
  <1>3. t \in Int /\ m = al * t
    BY <1>1, <1>2
  <1> HIDE DEF t
  <1>4. CASE t > 0
    <2>1. al * t >= al
      BY <1>3, <1>4
    <2> QED BY <1>1, <1>3, <2>1
  <1>5. CASE t < 0
    <2>1. al * t < 0
      BY <1>3, <1>5
    <2> QED BY <1>1, <1>3, <2>1
  <1>6. CASE t = 0
    BY <1>3, <1>6 DEF m
  <1> QED BY <1>3, <1>4, <1>5, <1>6

\* A product divided by one of its factors is the other.
LEMMA ExactQuotient ==
  ASSUME NEW g \in Nat \ {0}, NEW k \in Nat, NEW y \in Nat, y = g * k
  PROVE  y \div g = k
  <1> DEFINE d == y \div g
             m == y % g
  <1>1. m = 0
    BY MultipleRemainder
  <1>2. d \in Int /\ y = g * d + m
    OBVIOUS
  <1> HIDE DEF d, m
  <1>3. g * (d - k) = 0
    BY <1>1, <1>2
  <1>4. d - k = 0
    BY <1>2, <1>3
  <1>5. d = k
    BY <1>2, <1>4
  <1> QED BY <1>5 DEF d

\* What multiples are: what is left free aligns the data behind the record.
LEMMA ExtraAligns ==
  ASSUME NEW b \in DOMAIN banks, NEW i \in Nat, NEW al \in Nat \ {0}
  PROVE  /\ Extra(b, i, al) \in Nat
         /\ (banks[b].start + (i + Extra(b, i, al)) + 1) % al = 0
  <1> DEFINE x == banks[b].start + i + 1
             q == (-x) \div al
             e == (-x) % al
             y == x + e
  <1>1. x \in Nat
    BY BanksAssumption
  <1> HIDE DEF x
  <1>2. q \in Int /\ e \in Nat /\ -x = al * q + e
    BY <1>1
  <1> HIDE DEF q, e
  <1>3. y = al * (-q)
    BY <1>1, <1>2
  <1>4. y % al = 0
    <2>1. y \in Int /\ -q \in Int /\ y = (-q) * al
      BY <1>1, <1>2, <1>3
    <2> HIDE DEF y
    <2> QED BY <2>1, MultipleRemainder
  <1>5. Extra(b, i, al) = e
    BY DEF Extra, e, x
  <1>6. banks[b].start + (i + e) + 1 = y
    BY <1>1, <1>2, BanksAssumption DEF x
  <1> QED BY <1>2, <1>4, <1>5, <1>6


\* Quotient and remainder.
LEMMA Divides ==
  ASSUME NEW n \in Int, NEW a \in Nat \ {0}
  PROVE  n = a * (n \div a) + (n % a) /\ n \div a \in Int
  BY SMTT(30)

\* No element further in front could have its data aligned.
LEMMA ExtraLeast ==
  ASSUME NEW b \in DOMAIN banks, NEW begin \in Nat, NEW al \in Nat \ {0},
         NEW i \in Nat, begin <= i, (banks[b].start + i + 1) % al = 0
  PROVE  begin + Extra(b, begin, al) <= i
  <1> DEFINE x == banks[b].start + begin + 1
             y == banks[b].start + i + 1
             q == (-x) \div al
             e == (-x) % al
             d == y \div al
  <1>1. x \in Nat /\ y \in Nat /\ y - x = i - begin /\ y % al = 0
    BY BanksAssumption
  <1> HIDE DEF x, y
  <1>2. q \in Int /\ e \in 0..(al - 1) /\ -x = al * q + e
    BY <1>1
  <1>3. d \in Int /\ y = al * d
    <2>1. y = al * (y \div al) + (y % al) /\ y \div al \in Int
      BY <1>1, Divides
    <2> QED BY <1>1, <2>1
  <1> HIDE DEF q, e, d
  <1>4. e <= y - x
    <2> SUFFICES ASSUME y - x < e PROVE FALSE
      BY <1>1, <1>2
    <2>1. y - x >= 0
      BY <1>1
    <2>2. y - x = al * (d + q) + e
      BY <1>1, <1>2, <1>3
    <2> DEFINE n == d + q
    <2>3. n \in Int /\ al * n + e < e /\ al * n + e >= 0
      BY <1>1, <1>2, <1>3, <2>1, <2>2
    <2> HIDE DEF n
    <2>4. n < 0
      BY <1>2, <2>3
    <2>5. al * n <= -al
      BY <2>3, <2>4
    <2> QED BY <1>2, <2>3, <2>5
  <1>5. Extra(b, begin, al) = e
    BY DEF Extra, e, x
  <1> QED BY <1>1, <1>2, <1>4, <1>5
-----------------------------------------------------------------------------
(* Allocating and freeing *)

\* What a step that changes one bank has to show of the others.
Only(b) ==
  /\ first_allocated' \in [DOMAIN banks -> Nat \cup {None}]
  /\ last_allocated' \in [DOMAIN banks -> Nat \cup {None}]
  /\ bk' = [c \in DOMAIN banks |-> bk'[c]]
  /\ bk'[b] \in [0..(getnbk(b) - 1) -> Records]
  /\ \A c \in DOMAIN banks \ {b} :
       /\ first_allocated'[c] = first_allocated[c] /\ last_allocated'[c] = last_allocated[c]
       /\ bk'[c] = bk[c]

\* The place of a new chunk is free, and the records of the others keep their sizes.
Clear(b, i, size) == \A p \in live : p.bank = b => p.at + p.size < i \/ i + size < p.at
SizesKept(b, X) == \A p \in X : p.bank = b => bk'[b][p.at].size = bk[b][p.at].size
LinkedAfter(b, A) == Linked(first_allocated'[b], last_allocated'[b], bk'[b], A)

\* A new chunk among the others keeps the invariant if the list goes through it.
LEMMA NewChunk ==
  ASSUME HeapInv, NEW b \in DOMAIN banks, NEW size \in Nat \ {0}, NEW al \in Nat \ {0},
         NEW i \in Nat, Hand(b, i, size, al), i + size < getnbk(b),
         (banks[b].start + i + 1) % al = 0,
         Clear(b, i, size), Only(b), bk'[b][i].size = size + 1, SizesKept(b, live),
         LinkedAfter(b, At(b) \cup {i})
  PROVE  HeapInv'
  <1> DEFINE new == [bank |-> b, at |-> i, size |-> size, alignment |-> al]
  <1>1. live' = live \cup {new}
    BY DEF Hand
  <1>2. new \in Requests /\ new.bank = b /\ new.at = i /\ new.size = size /\ new.alignment = al
    BY DEF Requests
  <1> HIDE DEF new
  <1>3. \A p \in live : p \in Requests
    BY DEF HeapInv, HeapTyped
  <1>4. HeapTyped'
    <2>1. live' \subseteq Requests
      BY <1>1, <1>2, <1>3
    <2>2. \A c \in DOMAIN banks : bk'[c] \in [0..(getnbk(c) - 1) -> Records]
      BY DEF Only, HeapInv, HeapTyped
    <2> QED BY <2>1, <2>2 DEF Only, HeapTyped, getnbk
  <1>5. ASSUME NEW p \in live' PROVE Placed(p)'
    <2>1. CASE p = new
      BY <1>2, <2>1 DEF Placed, getnbk
    <2>2. CASE p \in live
      <3>1. Placed(p) /\ p.bank \in DOMAIN banks
        BY <1>3, <2>2 DEF HeapInv, Requests
      <3>2. bk'[p.bank][p.at].size = bk[p.bank][p.at].size
        BY <2>2, <3>1 DEF Only, SizesKept
      <3> QED BY <3>1, <3>2 DEF Placed, getnbk
    <2> QED BY <1>1, <2>1, <2>2
  <1>6. ASSUME NEW p \in live', NEW q \in live', p # q, p.bank = q.bank PROVE Apart(p, q)
    <2>1. CASE p \in live /\ q \in live
      BY <1>6, <2>1 DEF HeapInv
    <2>2. CASE p = new /\ q \in live
      BY <1>2, <1>6, <2>2 DEF Apart, Clear
    <2>3. CASE q = new /\ p \in live
      BY <1>2, <1>6, <2>3 DEF Apart, Clear
    <2> QED BY <1>1, <1>6, <2>1, <2>2, <2>3
  <1>7. At(b)' = At(b) \cup {i} /\ \A c \in DOMAIN banks \ {b} : At(c)' = At(c)
    BY <1>1, <1>2 DEF At
  <1>8. ASSUME NEW c \in DOMAIN banks
        PROVE  Linked(first_allocated'[c], last_allocated'[c], bk'[c], At(c)')
    <2>1. CASE c = b
      BY <1>7, <2>1 DEF LinkedAfter
    <2>2. CASE c # b
      <3>1. /\ first_allocated'[c] = first_allocated[c] /\ last_allocated'[c] = last_allocated[c]
            /\ bk'[c] = bk[c] /\ At(c)' = At(c)
        BY <1>7, <2>2 DEF Only
      <3> QED BY <3>1 DEF HeapInv
    <2> QED BY <2>1, <2>2
  <1>9. \A p, q \in live' : p # q /\ p.bank = q.bank => Apart(p, q)
    BY <1>6
  <1> QED BY <1>4, <1>5, <1>8, <1>9 DEF HeapInv, Apart

\* So does a chunk that is gone, if the list leaves it out.
LEMMA GoneChunk ==
  ASSUME HeapInv, NEW p \in live, live' = live \ {p}, Only(p.bank),
         SizesKept(p.bank, live \ {p}), LinkedAfter(p.bank, At(p.bank) \ {p.at})
  PROVE  HeapInv'
  <1>1. \A q \in live : q \in Requests
    BY DEF HeapInv, HeapTyped
  <1>2. HeapTyped'
    <2>1. \A c \in DOMAIN banks : bk'[c] \in [0..(getnbk(c) - 1) -> Records]
      BY DEF Only, HeapInv, HeapTyped
    <2> QED BY <1>1, <2>1 DEF Only, HeapTyped, getnbk
  <1>3. ASSUME NEW q \in live' PROVE Placed(q)'
    <2>1. Placed(q) /\ q.bank \in DOMAIN banks /\ q \in live \ {p}
      BY <1>1 DEF HeapInv, Requests
    <2>2. bk'[q.bank][q.at].size = bk[q.bank][q.at].size
      BY <2>1 DEF Only, SizesKept
    <2> QED BY <2>1, <2>2 DEF Placed, getnbk
  <1>4. \A q, s \in live' : q # s /\ q.bank = s.bank => Apart(q, s)
    BY DEF HeapInv
  <1>5. /\ At(p.bank)' = At(p.bank) \ {p.at}
        /\ \A c \in DOMAIN banks \ {p.bank} : At(c)' = At(c)
    <2>1. ASSUME NEW q \in live, q # p, q.bank = p.bank PROVE q.at # p.at
      <3>1. Apart(q, p) /\ q \in Requests /\ p \in Requests
        BY <1>1, <2>1 DEF HeapInv
      <3> QED BY <3>1 DEF Apart, Requests
    <2> QED BY <2>1 DEF At
  <1>6. ASSUME NEW c \in DOMAIN banks
        PROVE  Linked(first_allocated'[c], last_allocated'[c], bk'[c], At(c)')
    <2>1. CASE c = p.bank
      BY <1>5, <2>1 DEF LinkedAfter
    <2>2. CASE c # p.bank
      <3>1. /\ first_allocated'[c] = first_allocated[c] /\ last_allocated'[c] = last_allocated[c]
            /\ bk'[c] = bk[c] /\ At(c)' = At(c)
        BY <1>5, <2>2 DEF Only
      <3> QED BY <3>1 DEF HeapInv
    <2> QED BY <2>1, <2>2
  <1> QED BY <1>2, <1>3, <1>4, <1>6 DEF HeapInv, Apart

\* What the invariant says of one bank.
LEMMA BankFacts ==
  ASSUME HeapInv, NEW b \in DOMAIN banks
  PROVE  /\ getnbk(b) \in Int /\ banks[b].start \in Nat
         /\ first_allocated[b] \in Nat \cup {None} /\ last_allocated[b] \in Nat \cup {None}
         /\ bk[b] \in [0..(getnbk(b) - 1) -> Records]
         /\ At(b) \in SUBSET (0..(getnbk(b) - 1))
         /\ Linked(first_allocated[b], last_allocated[b], bk[b], At(b))
         /\ \A p \in live : p.bank = b => /\ p.at \in At(b) /\ p.at \in Nat /\ p.size \in Nat
                                          /\ p.at + p.size < getnbk(b)
                                          /\ bk[b][p.at].size = p.size + 1
         /\ \A i \in At(b) : \E p \in live : p.bank = b /\ p.at = i
  <1>1. getnbk(b) \in Int /\ banks[b].start \in Nat
    BY BanksAssumption DEF getnbk
  <1>2. \A p \in live : p.bank = b => /\ p.at \in At(b) /\ p.at \in Nat /\ p.size \in Nat
                                      /\ p.at + p.size < getnbk(b)
                                      /\ bk[b][p.at].size = p.size + 1
    BY DEF HeapInv, HeapTyped, Requests, Placed, At
  <1>3. \A i \in At(b) : \E p \in live : p.bank = b /\ p.at = i
    BY DEF At
  <1>4. At(b) \in SUBSET (0..(getnbk(b) - 1))
    <2> DEFINE N == getnbk(b)
    <2>1. N \in Int
      BY <1>1
    <2>2. \A p \in live : p.bank = b => p.at \in Nat /\ p.size \in Nat /\ p.at + p.size < N
      BY <1>2
    <2> HIDE DEF N
    <2>3. \A i \in At(b) : i \in 0..(N - 1)
      BY <1>3, <2>1, <2>2
    <2> QED BY <2>3 DEF N
  <1> QED BY <1>1, <1>2, <1>3, <1>4 DEF HeapInv, HeapTyped

\* A chunk in front of all others keeps the invariant.
LEMMA BeginStep ==
  ASSUME HeapInv, NEW b \in DOMAIN banks, NEW size \in Nat \ {0}, NEW al \in Nat \ {0},
         CanBegin(b, size, al), AtBeginning(b, size, al)
  PROVE  HeapInv'
  <1> DEFINE N == getnbk(b)
             f == first_allocated[b]
             l == last_allocated[b]
             i == Extra(b, 0, al)
             rec == [next |-> f, size |-> size + 1]
             end == IF f = None THEN N ELSE f
  <1>1. /\ N \in Int /\ f \in Nat \cup {None} /\ l \in Nat \cup {None}
        /\ bk[b] \in [0..(N - 1) -> Records] /\ At(b) \in SUBSET (0..(N - 1))
        /\ Linked(f, l, bk[b], At(b))
        /\ \A p \in live : p.bank = b => /\ p.at \in At(b) /\ p.at \in Nat /\ p.size \in Nat
                                         /\ p.at + p.size < N
    BY BankFacts
  <1>2. i \in Nat /\ (banks[b].start + i + 1) % al = 0
    <2>1. i \in Nat /\ (banks[b].start + (0 + i) + 1) % al = 0
      BY ExtraAligns
    <2> HIDE DEF i
    <2>2. 0 + i = i
      BY <2>1
    <2> QED BY <2>1, <2>2
  <1>3. /\ Fits(b, 0, end, size, al)
        /\ bk' = [bk EXCEPT ![b][i] = rec]
        /\ first_allocated' = [first_allocated EXCEPT ![b] = i]
        /\ last_allocated' = IF f = None THEN [last_allocated EXCEPT ![b] = i] ELSE last_allocated
        /\ Hand(b, i, size, al)
    BY DEF AtBeginning, CanBegin, HasChunks
  <1>4. i + size < end /\ end <= N
    <2>1. end - 0 >= size + i + 1
      BY <1>3 DEF Fits
    <2>2. f # None => f \in 0..(N - 1)
      BY <1>1 DEF Linked
    <2> HIDE DEF i, N, f
    <2> QED BY <1>1, <1>2, <2>1, <2>2
  <1>5. HeapTyped
    BY DEF HeapInv
  <1> HIDE DEF N, i
  <1>6. i \in 0..(N - 1) /\ N \in Nat /\ i + size < N
    BY <1>1, <1>2, <1>4 DEF f
  <1>7. rec \in Records
    BY <1>1 DEF Records, None
  <1> HIDE DEF rec
  <1>8. bk'[b] = [bk[b] EXCEPT ![i] = rec] /\ \A c \in DOMAIN banks \ {b} : bk'[c] = bk[c]
    BY <1>3, <1>5 DEF HeapTyped
  <1>9. Only(b)
    <2>1. bk' = [c \in DOMAIN banks |-> bk'[c]]
      BY <1>3, <1>5 DEF HeapTyped
    <2>2. bk'[b] \in [0..(N - 1) -> Records]
      BY <1>1, <1>7, <1>8
    <2>3. /\ first_allocated' \in [DOMAIN banks -> Nat \cup {None}]
          /\ last_allocated' \in [DOMAIN banks -> Nat \cup {None}]
      BY <1>2, <1>3, <1>5 DEF HeapTyped
    <2>4. \A c \in DOMAIN banks \ {b} :
            /\ first_allocated'[c] = first_allocated[c] /\ last_allocated'[c] = last_allocated[c]
      BY <1>3, <1>5 DEF HeapTyped
    <2> QED BY <1>8, <2>1, <2>2, <2>3, <2>4 DEF Only, N
  <1>10. Clear(b, i, size)
    <2>1. ASSUME NEW p \in live, p.bank = b PROVE i + size < p.at
      <3>1. f # None /\ f <= p.at /\ f \in Nat
        BY <1>1, <2>1 DEF Linked, None
      <3> QED BY <1>1, <1>2, <1>4, <2>1, <3>1
    <2> QED BY <2>1 DEF Clear
  <1>11. LinkedAfter(b, At(b) \cup {i})
    <2>1. first_allocated'[b] = i /\ last_allocated'[b] = (IF f = None THEN i ELSE l)
      BY <1>3, <1>5 DEF HeapTyped
    <2>2. f # None => i < f
      BY <1>1, <1>2, <1>4
    <2>3. At(b) \in SUBSET Nat /\ \A j \in At(b) : j \in 0..(N - 1) /\ j # i
      <3>1. \A j \in At(b) : j # i
        BY <1>1, <1>2, <2>2 DEF Linked, None
      <3> QED BY <1>1, <3>1
    <2>4. bk'[b][i].next = f /\ Keeps(bk'[b], bk[b], At(b))
      BY <1>1, <1>6, <1>8, <2>3 DEF Keeps, rec
    <2> HIDE DEF f, l
    <2>5. Linked(i, IF f = None THEN i ELSE l, bk'[b], At(b) \cup {i})
      BY ONLY <1>1, <1>2, <2>2, <2>3, <2>4, LinkFirst, Zenon
    <2> QED BY <2>1, <2>5 DEF LinkedAfter
  <1>12. bk'[b][i].size = size + 1
    BY <1>1, <1>6, <1>8 DEF rec
  <1>13. SizesKept(b, live)
    <2>1. ASSUME NEW p \in live, p.bank = b PROVE bk'[b][p.at].size = bk[b][p.at].size
      <3>1. p.at # i /\ p.at \in 0..(N - 1)
        BY <1>1, <1>2, <1>10, <2>1 DEF Clear
      <3> QED BY <1>1, <1>8, <3>1
    <2> QED BY <2>1 DEF SizesKept
  <1>14. i \in Nat /\ i + size < getnbk(b) /\ Hand(b, i, size, al)
    BY <1>2, <1>3, <1>6 DEF N
  <1> QED BY <1>2, <1>9, <1>10, <1>11, <1>12, <1>13, <1>14, NewChunk, Zenon


\* A chunk behind all others keeps it.
LEMMA AppendStep ==
  ASSUME HeapInv, NEW b \in DOMAIN banks, NEW size \in Nat \ {0}, NEW al \in Nat \ {0},
         CanAppend(b, size, al), AfterLast(b, size, al)
  PROVE  HeapInv'
  <1> DEFINE N == getnbk(b)
             f == first_allocated[b]
             l == last_allocated[b]
             begin == Behind(b, l)
             i == begin + Extra(b, begin, al)
             rec == [next |-> None, size |-> size + 1]
  <1>1. /\ N \in Int /\ f \in Nat \cup {None} /\ l \in Nat \cup {None}
        /\ bk[b] \in [0..(N - 1) -> Records] /\ At(b) \in SUBSET (0..(N - 1))
        /\ Linked(f, l, bk[b], At(b))
        /\ \A p \in live : p.bank = b => /\ p.at \in At(b) /\ p.at \in Nat /\ p.size \in Nat
                                         /\ p.at + p.size < N
                                         /\ bk[b][p.at].size = p.size + 1
        /\ \A j \in At(b) : \E p \in live : p.bank = b /\ p.at = j
    BY BankFacts
  <1>2. /\ Fits(b, begin, N, size, al)
        /\ bk' = [bk EXCEPT ![b][l].next = i, ![b][i] = rec]
        /\ last_allocated' = [last_allocated EXCEPT ![b] = i]
        /\ Hand(b, i, size, al)
        /\ first_allocated' = first_allocated
    BY DEF AfterLast, CanAppend
  <1>3. HeapTyped
    BY DEF HeapInv
  <1>4. f # None /\ f \in At(b) /\ l \in At(b) /\ \A j \in At(b) : j <= l
    BY <1>1 DEF Linked, HasChunks, CanAppend
  <1>5. PICK p \in live : p.bank = b /\ p.at = l
    BY <1>1, <1>4
  <1>6. begin = l + (p.size + 1) /\ l \in Nat /\ p.size \in Nat /\ begin \in Nat
    <2>1. bk[b][l].size = p.size + 1 /\ p.size \in Nat /\ l \in Nat
      BY <1>1, <1>5
    <2> HIDE DEF l
    <2> QED BY <2>1 DEF Behind
  <1> HIDE DEF begin
  <1>7. /\ Extra(b, begin, al) \in Nat
        /\ (banks[b].start + i + 1) % al = 0
    BY <1>6, ExtraAligns
  <1>8. i \in 0..(N - 1) /\ N \in Nat /\ i + size < N /\ l < i /\ i \in Nat /\ begin <= i
    <2> DEFINE e == Extra(b, begin, al)
    <2>1. N - begin >= size + e + 1
      BY <1>2 DEF Fits
    <2>2. e \in Nat
      BY <1>7
    <2>3. i = begin + e /\ N \in Int /\ size \in Nat \ {0}
      BY <1>1 DEF e
    <2> HIDE DEF e, N, l, i
    <2> QED BY <1>6, <2>1, <2>2, <2>3
  <1> HIDE DEF N, i
  <1>9. rec \in Records
    BY <1>1 DEF Records, None
  <1>10. /\ bk'[b] = [bk[b] EXCEPT ![l].next = i, ![i] = rec]
         /\ \A c \in DOMAIN banks \ {b} : bk'[c] = bk[c]
         /\ bk' = [c \in DOMAIN banks |-> bk'[c]]
    BY <1>2, <1>3 DEF HeapTyped
  <1> HIDE DEF rec
  <1>11. /\ l \in 0..(N - 1) /\ l # i
         /\ [bk[b][l] EXCEPT !.next = i] \in Records
         /\ [bk[b][l] EXCEPT !.next = i].size = bk[b][l].size
         /\ [bk[b][l] EXCEPT !.next = i].next = i
    <2>1. l \in 0..(N - 1) /\ l # i
      BY <1>1, <1>4, <1>8
    <2>2. bk[b][l] \in Records
      BY <1>1, <2>1
    <2> QED BY <1>8, <2>1, <2>2 DEF Records
  <1>12. bk'[b] = [[bk[b] EXCEPT ![l] = [bk[b][l] EXCEPT !.next = i]] EXCEPT ![i] = rec]
    BY <1>1, <1>10, <1>11
  <1>13. Only(b)
    <2>1. bk'[b] \in [0..(N - 1) -> Records]
      <3> DEFINE r1 == [bk[b] EXCEPT ![l] = [bk[b][l] EXCEPT !.next = i]]
      <3>1. r1 \in [0..(N - 1) -> Records]
        BY <1>1, <1>11
      <3>2. bk'[b] = [r1 EXCEPT ![i] = rec]
        BY <1>12
      <3> HIDE DEF r1
      <3> QED BY <1>8, <1>9, <3>1, <3>2
    <2>2. /\ first_allocated' \in [DOMAIN banks -> Nat \cup {None}]
          /\ last_allocated' \in [DOMAIN banks -> Nat \cup {None}]
      BY <1>2, <1>3, <1>8 DEF HeapTyped
    <2>3. \A c \in DOMAIN banks \ {b} :
            /\ first_allocated'[c] = first_allocated[c] /\ last_allocated'[c] = last_allocated[c]
      BY <1>2, <1>3 DEF HeapTyped
    <2> QED BY <1>10, <2>1, <2>2, <2>3 DEF Only, N
  <1>14. Clear(b, i, size)
    <2>1. ASSUME NEW q \in live, q.bank = b PROVE q.at + q.size < i
      <3>1. CASE q = p
        BY <1>5, <1>6, <1>8, <3>1
      <3>2. CASE q # p
        <4>1. Apart(p, q)
          BY <1>5, <2>1, <3>2 DEF HeapInv
        <4>2. q.at <= l /\ q.at \in Nat /\ q.size \in Nat
          BY <1>1, <1>4, <2>1
        <4> QED BY <1>5, <1>6, <1>8, <4>1, <4>2 DEF Apart
      <3> QED BY <3>1, <3>2
    <2> QED BY <2>1 DEF Clear
  <1>15. LinkedAfter(b, At(b) \cup {i})
    <2>1. first_allocated'[b] = f /\ last_allocated'[b] = i
      BY <1>2, <1>3 DEF HeapTyped
    <2>2. bk'[b][l].next = i /\ bk'[b][i].next = None
      <3>1. bk'[b][l] = [bk[b][l] EXCEPT !.next = i] /\ bk'[b][i] = rec
        BY <1>1, <1>8, <1>11, <1>12
      <3> QED BY <1>11, <3>1 DEF rec
    <2>3. At(b) \in SUBSET Nat /\ \A j \in At(b) : j \in 0..(N - 1) /\ j # i
      BY <1>1, <1>4, <1>8
    <2>4. Keeps(bk'[b], bk[b], At(b) \ {l})
      BY <1>1, <1>8, <1>11, <1>12, <2>3 DEF Keeps
    <2>5. f \in Nat /\ l \in Nat /\ l < i /\ i \in Nat
      BY <1>1, <1>4, <1>6, <1>8
    <2> HIDE DEF f, l
    <2>6. Linked(f, i, bk'[b], At(b) \cup {i})
      BY ONLY <1>1, <2>2, <2>3, <2>4, <2>5, LinkLast, Zenon
    <2> QED BY <2>1, <2>6 DEF LinkedAfter
  <1>16. bk'[b][i].size = size + 1
    BY <1>1, <1>8, <1>12 DEF rec
  <1>17. SizesKept(b, live)
    <2>1. ASSUME NEW q \in live, q.bank = b PROVE bk'[b][q.at].size = bk[b][q.at].size
      <3>1. q.at # i /\ q.at \in 0..(N - 1)
        BY <1>1, <1>8, <1>14, <2>1 DEF Clear
      <3>2. CASE q.at = l
        BY <1>1, <1>11, <1>12, <3>1, <3>2
      <3>3. CASE q.at # l
        BY <1>1, <1>11, <1>12, <3>1, <3>3
      <3> QED BY <3>2, <3>3
    <2> QED BY <2>1 DEF SizesKept
  <1>18. /\ i \in Nat /\ i + size < getnbk(b) /\ Hand(b, i, size, al)
         /\ (banks[b].start + i + 1) % al = 0
    BY <1>2, <1>7, <1>8 DEF N
  <1> QED BY <1>13, <1>14, <1>15, <1>16, <1>17, <1>18, NewChunk, Zenon

\* So does one in the first gap that is large enough.
LEMMA BetweenStep ==
  ASSUME HeapInv, NEW b \in DOMAIN banks, NEW size \in Nat \ {0}, NEW al \in Nat \ {0},
         CanInsert(b, size, al), Between(b, size, al)
  PROVE  HeapInv'
  <1> DEFINE N == getnbk(b)
             f == first_allocated[b]
             l == last_allocated[b]
             gaps == Gaps(b, size, al)
             g == CHOOSE j \in gaps : \A k \in gaps : j <= k
             next == bk[b][g].next
             begin == Behind(b, g)
             i == begin + Extra(b, begin, al)
             rec == [next |-> next, size |-> size + 1]
  <1>1. /\ N \in Int /\ f \in Nat \cup {None} /\ l \in Nat \cup {None}
        /\ bk[b] \in [0..(N - 1) -> Records] /\ At(b) \in SUBSET (0..(N - 1))
        /\ Linked(f, l, bk[b], At(b))
        /\ \A p \in live : p.bank = b => /\ p.at \in At(b) /\ p.at \in Nat /\ p.size \in Nat
                                         /\ p.at + p.size < N
                                         /\ bk[b][p.at].size = p.size + 1
        /\ \A j \in At(b) : \E p \in live : p.bank = b /\ p.at = j
    BY BankFacts
  <1>2. /\ gaps # {}
        /\ bk' = [bk EXCEPT ![b][g].next = i, ![b][i] = rec]
        /\ Hand(b, i, size, al)
        /\ first_allocated' = first_allocated /\ last_allocated' = last_allocated
    BY DEF Between, CanInsert
  <1>3. HeapTyped
    BY DEF HeapInv
  <1>4. /\ f # None /\ f \in Nat /\ l \in Nat /\ l \in At(b) /\ N \in Nat
        /\ \A j \in At(b) \ {l} : /\ bk[b][j].next \in At(b) /\ j < bk[b][j].next
                                  /\ \A k \in At(b) : k <= j \/ bk[b][j].next <= k
    BY <1>1 DEF Linked, HasChunks, CanInsert
  <1>5. g \in At(b) \ {l} /\ Fits(b, begin, next, size, al)
    <2>1. gaps \in SUBSET Nat /\ gaps \subseteq At(b)
      BY <1>1, WalkedIsLinked DEF Gaps
    <2> HIDE DEF gaps
    <2>2. g \in gaps
      BY <1>2, <2>1, Least
    <2> HIDE DEF g
    <2> QED BY <2>1, <2>2 DEF gaps, Gaps
  <1> HIDE DEF gaps, g
  <1>6. next \in At(b) /\ g < next /\ \A j \in At(b) : j <= g \/ next <= j
    BY <1>4, <1>5
  <1> HIDE DEF next
  <1>7. PICK p \in live : p.bank = b /\ p.at = g
    BY <1>1, <1>5
  <1>8. begin = g + (p.size + 1) /\ g \in Nat /\ p.size \in Nat /\ begin \in Nat
    <2>1. bk[b][g].size = p.size + 1 /\ p.size \in Nat /\ g \in Nat
      BY <1>1, <1>7
    <2> QED BY <2>1 DEF Behind
  <1> HIDE DEF begin
  <1>9. /\ Extra(b, begin, al) \in Nat
        /\ (banks[b].start + i + 1) % al = 0
    BY <1>8, ExtraAligns
  <1>10. /\ i \in 0..(N - 1) /\ i + size < N /\ g < i /\ i \in Nat /\ begin <= i
         /\ next \in Nat /\ i + size < next /\ i < next
    <2> DEFINE e == Extra(b, begin, al)
    <2>1. next - begin >= size + e + 1
      BY <1>5 DEF Fits
    <2>2. i = begin + e /\ N \in Int /\ size \in Nat \ {0} /\ e \in Nat
      BY <1>1, <1>9 DEF e
    <2>3. next \in 0..(N - 1)
      BY <1>1, <1>6
    <2> HIDE DEF e, N, i
    <2> QED BY <1>8, <2>1, <2>2, <2>3
  <1> HIDE DEF N, i
  <1>11. rec \in Records
    BY <1>10 DEF Records
  <1>12. /\ bk'[b] = [bk[b] EXCEPT ![g].next = i, ![i] = rec]
         /\ \A c \in DOMAIN banks \ {b} : bk'[c] = bk[c]
         /\ bk' = [c \in DOMAIN banks |-> bk'[c]]
    BY <1>2, <1>3 DEF HeapTyped
  <1> HIDE DEF rec
  <1>13. /\ g \in 0..(N - 1) /\ g # i
         /\ [bk[b][g] EXCEPT !.next = i] \in Records
         /\ [bk[b][g] EXCEPT !.next = i].size = bk[b][g].size
         /\ [bk[b][g] EXCEPT !.next = i].next = i
    <2>1. g \in 0..(N - 1) /\ g # i
      BY <1>1, <1>5, <1>8, <1>10
    <2>2. bk[b][g] \in Records
      BY <1>1, <2>1
    <2> QED BY <1>10, <2>1, <2>2 DEF Records
  <1>14. bk'[b] = [[bk[b] EXCEPT ![g] = [bk[b][g] EXCEPT !.next = i]] EXCEPT ![i] = rec]
    BY <1>1, <1>12, <1>13
  <1>15. Only(b)
    <2>1. bk'[b] \in [0..(N - 1) -> Records]
      <3> DEFINE r1 == [bk[b] EXCEPT ![g] = [bk[b][g] EXCEPT !.next = i]]
      <3>1. r1 \in [0..(N - 1) -> Records]
        BY <1>1, <1>13
      <3>2. bk'[b] = [r1 EXCEPT ![i] = rec]
        BY <1>14
      <3> HIDE DEF r1
      <3> QED BY <1>10, <1>11, <3>1, <3>2
    <2> QED BY <1>2, <1>3, <1>12, <2>1 DEF Only, N, HeapTyped
  <1>16. Clear(b, i, size)
    <2>1. ASSUME NEW q \in live, q.bank = b PROVE q.at + q.size < i \/ i + size < q.at
      <3>1. q.at \in At(b) /\ q.at \in Nat /\ q.size \in Nat
        BY <1>1, <2>1
      <3>2. CASE q = p
        BY <1>7, <1>8, <1>10, <3>2
      <3>3. CASE q # p /\ q.at <= g
        <4>1. Apart(p, q)
          BY <1>7, <2>1, <3>3 DEF HeapInv
        <4> QED BY <1>7, <1>8, <1>10, <3>1, <3>3, <4>1 DEF Apart
      <3>4. CASE next <= q.at
        BY <1>10, <3>1, <3>4
      <3> QED BY <1>6, <3>1, <3>2, <3>3, <3>4
    <2> QED BY <2>1 DEF Clear
  <1>17. LinkedAfter(b, At(b) \cup {i})
    <2>1. bk'[b][g].next = i /\ bk'[b][i].next = bk[b][g].next
      <3>1. bk'[b][g] = [bk[b][g] EXCEPT !.next = i] /\ bk'[b][i] = rec
        BY <1>1, <1>10, <1>13, <1>14
      <3> QED BY <1>13, <3>1 DEF rec, next
    <2>2. At(b) \in SUBSET Nat /\ \A j \in At(b) : j \in 0..(N - 1) /\ j # i
      <3>1. \A j \in At(b) : j \in 0..(N - 1) /\ j \in Nat
        BY <1>1
      <3>2. \A j \in At(b) : j # i
        BY <1>6, <1>8, <1>10, <3>1
      <3> QED BY <3>1, <3>2
    <2>3. Keeps(bk'[b], bk[b], At(b) \ {g})
      BY <1>1, <1>10, <1>13, <1>14, <2>2 DEF Keeps
    <2>4. i < bk[b][g].next /\ g < i /\ i \in Nat
      BY <1>10 DEF next
    <2> HIDE DEF f, l
    <2>5. Linked(f, l, bk'[b], At(b) \cup {i})
      BY ONLY <1>1, <1>4, <1>5, <2>1, <2>2, <2>3, <2>4, LinkBetween, Zenon
    <2> QED BY <1>2, <2>5 DEF LinkedAfter, f, l
  <1>18. bk'[b][i].size = size + 1
    BY <1>1, <1>10, <1>14 DEF rec
  <1>19. SizesKept(b, live)
    <2>1. ASSUME NEW q \in live, q.bank = b PROVE bk'[b][q.at].size = bk[b][q.at].size
      <3>1. q.at # i /\ q.at \in 0..(N - 1)
        BY <1>1, <1>10, <1>16, <2>1 DEF Clear
      <3>2. CASE q.at = g
        BY <1>1, <1>13, <1>14, <3>1, <3>2
      <3>3. CASE q.at # g
        BY <1>1, <1>13, <1>14, <3>1, <3>3
      <3> QED BY <3>2, <3>3
    <2> QED BY <2>1 DEF SizesKept
  <1>20. /\ i \in Nat /\ i + size < getnbk(b) /\ Hand(b, i, size, al)
         /\ (banks[b].start + i + 1) % al = 0
    BY <1>2, <1>9, <1>10 DEF N
  <1> QED BY <1>15, <1>16, <1>17, <1>18, <1>19, <1>20, NewChunk, Zenon

\* The bank that free() finds is the one that the chunk is in.
LEMMA OwnBank ==
  ASSUME HeapInv, NEW p \in live
  PROVE  LET address == banks[p.bank].start + p.at + 1
             b == CHOOSE b \in DOMAIN banks : banks[b].start <= address /\ address < banks[b].end
         IN  b = p.bank /\ address - banks[b].start - 1 = p.at
  <1> DEFINE address == banks[p.bank].start + p.at + 1
             Has(b) == banks[b].start <= address /\ address < banks[b].end
  <1>1. p.bank \in DOMAIN banks /\ p.at \in Nat /\ p.size \in Nat \ {0}
    BY DEF HeapInv, HeapTyped, Requests
  <1>2. \A b \in DOMAIN banks : banks[b].start \in Nat /\ banks[b].end \in Nat
    BY BanksAssumption
  <1>3. address \in Nat /\ address - banks[p.bank].start - 1 = p.at
    BY <1>1, <1>2
  <1>4. Has(p.bank)
    <2>1. p.at + p.size < banks[p.bank].end - banks[p.bank].start
      BY DEF HeapInv, Placed, getnbk
    <2> QED BY <1>1, <1>2, <2>1
  <1>5. ASSUME NEW c \in DOMAIN banks, Has(c) PROVE c = p.bank
    <2>1. c # p.bank => banks[c].end <= banks[p.bank].start \/ banks[p.bank].end <= banks[c].start
      BY <1>1, BanksAssumption
    <2> QED BY <1>1, <1>2, <1>3, <1>4, <1>5, <2>1
  <1> HIDE DEF Has
  <1>6. (CHOOSE b \in DOMAIN banks : Has(b)) = p.bank
    BY <1>1, <1>4, <1>5
  <1>7. (CHOOSE b \in DOMAIN banks : banks[b].start <= address /\ address < banks[b].end) = p.bank
    BY <1>6 DEF Has
  <1> HIDE DEF address
  <1> QED BY <1>3, <1>7, Zenon DEF address

\* The record of a chunk that is freed alone in its bank or as the first is scribbled over.
LEMMA Scribble ==
  ASSUME HeapInv, NEW b \in DOMAIN banks, NEW i \in At(b),
         bk' = [bk EXCEPT ![b][i] = Scribbled]
  PROVE  /\ bk'[b] \in [0..(getnbk(b) - 1) -> Records]
         /\ bk' = [c \in DOMAIN banks |-> bk'[c]]
         /\ \A c \in DOMAIN banks \ {b} : bk'[c] = bk[c]
         /\ \A j \in At(b) \ {i} : bk'[b][j] = bk[b][j]
  <1> DEFINE N == getnbk(b)
  <1>1. bk[b] \in [0..(N - 1) -> Records] /\ \A j \in At(b) : j \in 0..(N - 1)
    BY BankFacts
  <1>2. /\ bk'[b] = [bk[b] EXCEPT ![i] = Scribbled]
        /\ bk' = [c \in DOMAIN banks |-> bk'[c]]
        /\ \A c \in DOMAIN banks \ {b} : bk'[c] = bk[c]
    BY DEF HeapInv, HeapTyped
  <1>3. Scribbled \in Records
    BY DEF Scribbled, Records, None
  <1> HIDE DEF N
  <1>4. bk'[b] \in [0..(N - 1) -> Records] /\ \A j \in At(b) \ {i} : bk'[b][j] = bk[b][j]
    BY <1>1, <1>2, <1>3
  <1> QED BY <1>2, <1>4 DEF N

\* The record at i is scribbled over and the one at g is linked to n.
Bypassed(b, i, g, n) ==
  /\ bk'[b] \in [0..(getnbk(b) - 1) -> Records]
  /\ bk' = [c \in DOMAIN banks |-> bk'[c]]
  /\ \A c \in DOMAIN banks \ {b} : bk'[c] = bk[c]
  /\ \A j \in At(b) \ {i, g} : bk'[b][j] = bk[b][j]
  /\ bk'[b][g].next = n /\ bk'[b][g].size = bk[b][g].size

\* The record in front of it is linked to the one behind it.
LEMMA Bypass ==
  ASSUME HeapInv, NEW b \in DOMAIN banks, NEW i \in At(b), NEW g \in At(b), g # i, NEW n \in Int,
         bk' = [bk EXCEPT ![b][i] = Scribbled, ![b][g].next = n]
  PROVE  Bypassed(b, i, g, n)
  <1> DEFINE N == getnbk(b)
             r1 == [bk[b] EXCEPT ![i] = Scribbled]
             rec == [bk[b][g] EXCEPT !.next = n]
  <1>1. bk[b] \in [0..(N - 1) -> Records] /\ \A j \in At(b) : j \in 0..(N - 1)
    BY BankFacts
  <1>2. /\ bk'[b] = [bk[b] EXCEPT ![i] = Scribbled, ![g].next = n]
        /\ bk' = [c \in DOMAIN banks |-> bk'[c]]
        /\ \A c \in DOMAIN banks \ {b} : bk'[c] = bk[c]
    BY DEF HeapInv, HeapTyped
  <1>3. Scribbled \in Records
    BY DEF Scribbled, Records, None
  <1> HIDE DEF N
  <1>4. rec \in Records /\ rec.next = n /\ rec.size = bk[b][g].size
    <2>1. bk[b][g] \in Records
      BY <1>1
    <2> QED BY <2>1 DEF Records
  <1>5. /\ r1 \in [0..(N - 1) -> Records] /\ r1[g] = bk[b][g]
        /\ \A j \in At(b) \ {i} : r1[j] = bk[b][j]
    BY <1>1, <1>3
  <1>6. bk'[b] = [r1 EXCEPT ![g] = rec]
    BY <1>1, <1>2, <1>5
  <1> HIDE DEF r1, rec
  <1>7. /\ bk'[b] \in [0..(N - 1) -> Records] /\ bk'[b][g] = rec
        /\ \A j \in At(b) \ {i, g} : bk'[b][j] = bk[b][j]
    <2>1. bk'[b] \in [0..(N - 1) -> Records]
      BY <1>4, <1>5, <1>6
    <2>2. DOMAIN r1 = 0..(N - 1) /\ \A j \in At(b) : j \in DOMAIN r1
      BY <1>1, <1>5
    <2>3. bk'[b][g] = rec
      BY <1>6, <2>2
    <2>4. \A j \in At(b) \ {i, g} : bk'[b][j] = r1[j]
      BY <1>6, <2>2
    <2> QED BY <1>5, <2>1, <2>3, <2>4
  <1> QED BY <1>2, <1>4, <1>7 DEF N, Bypassed

\* A chunk that is freed leaves the others linked.
LEMMA FreeStep ==
  ASSUME HeapInv, NEW p \in live, free(p)
  PROVE  HeapInv'
  <1> DEFINE b == p.bank
             i == p.at
             f == first_allocated[b]
             l == last_allocated[b]
             g == CHOOSE j \in Chunks(b) : bk[b][j].next = i
  <1>1. b \in DOMAIN banks
    BY DEF HeapInv, HeapTyped, Requests
  <1>2. /\ At(b) \in SUBSET Nat /\ f \in Nat /\ l \in Nat /\ Linked(f, l, bk[b], At(b))
        /\ i \in At(b) /\ f # None /\ f \in At(b) /\ l \in At(b)
        /\ \A j \in At(b) : f <= j /\ j <= l
        /\ \A j \in At(b) \ {l} : bk[b][j].next \in At(b)
        /\ \A j \in At(b) \ {f} : \E k \in At(b) \ {l} : bk[b][k].next = j
    <2>1. i \in At(b)
      BY DEF At
    <2>2. At(b) \in SUBSET Nat /\ Linked(f, l, bk[b], At(b)) /\ f \in Nat \cup {None}
      BY <1>1, BankFacts
    <2>3. f # None
      BY <2>1, <2>2 DEF Linked
    <2> QED BY <2>1, <2>2, <2>3 DEF Linked
  <1>3. \A q \in live \ {p} : q.bank = b => q.at \in At(b) \ {i}
    <2>1. ASSUME NEW q \in live \ {p}, q.bank = b PROVE q.at # i
      <3>1. Apart(p, q) /\ p \in Requests /\ q \in Requests
        BY <2>1 DEF HeapInv, HeapTyped
      <3> QED BY <3>1 DEF Apart, Requests
    <2> QED BY <2>1 DEF At
  <1>4. /\ live' = live \ {p}
        /\ IF f = l
           THEN /\ first_allocated' = [first_allocated EXCEPT ![b] = None]
                /\ last_allocated' = [last_allocated EXCEPT ![b] = None]
                /\ bk' = [bk EXCEPT ![b][i] = Scribbled]
           ELSE IF i = f
           THEN /\ first_allocated' = [first_allocated EXCEPT ![b] = bk[b][i].next]
                /\ last_allocated' = last_allocated
                /\ bk' = [bk EXCEPT ![b][i] = Scribbled]
           ELSE IF i = l
           THEN /\ last_allocated' = [last_allocated EXCEPT ![b] = g]
                /\ first_allocated' = first_allocated
                /\ bk' = [bk EXCEPT ![b][i] = Scribbled, ![b][g].next = None]
           ELSE /\ first_allocated' = first_allocated /\ last_allocated' = last_allocated
                /\ bk' = [bk EXCEPT ![b][i] = Scribbled, ![b][g].next = bk[b][i].next]
    <2> DEFINE address == banks[p.bank].start + p.at + 1
               c == CHOOSE k \in DOMAIN banks : banks[k].start <= address /\ address < banks[k].end
               e == address - banks[c].start - 1
               before == CHOOSE j \in Chunks(c) : bk[c][j].next = e
    <2>1. c = p.bank /\ e = p.at
      BY OwnBank
    <2>2. /\ live' = live \ {p}
          /\ IF first_allocated[c] = last_allocated[c]
             THEN /\ first_allocated' = [first_allocated EXCEPT ![c] = None]
                  /\ last_allocated' = [last_allocated EXCEPT ![c] = None]
                  /\ bk' = [bk EXCEPT ![c][e] = Scribbled]
             ELSE IF e = first_allocated[c]
             THEN /\ first_allocated' = [first_allocated EXCEPT ![c] = bk[c][e].next]
                  /\ last_allocated' = last_allocated
                  /\ bk' = [bk EXCEPT ![c][e] = Scribbled]
             ELSE IF e = last_allocated[c]
             THEN /\ last_allocated' = [last_allocated EXCEPT ![c] = before]
                  /\ first_allocated' = first_allocated
                  /\ bk' = [bk EXCEPT ![c][e] = Scribbled, ![c][before].next = None]
             ELSE /\ first_allocated' = first_allocated /\ last_allocated' = last_allocated
                  /\ bk' = [bk EXCEPT ![c][e] = Scribbled, ![c][before].next = bk[c][e].next]
      BY DEF free
    <2> HIDE DEF address, c, e
    <2> QED BY <2>1, <2>2
  <1>5. HeapTyped
    BY DEF HeapInv
  <1> HIDE DEF b, i, f, l
  <1>6. CASE f = l
    <2>1. At(b) \ {i} = {}
      BY <1>2, <1>6
    <2>2. /\ first_allocated' = [first_allocated EXCEPT ![b] = None]
          /\ last_allocated' = [last_allocated EXCEPT ![b] = None]
          /\ bk' = [bk EXCEPT ![b][i] = Scribbled]
      BY <1>4, <1>6
    <2>3. LinkedAfter(b, At(b) \ {i})
      BY <1>1, <1>5, <2>1, <2>2 DEF LinkedAfter, Linked, HeapTyped
    <2>4. Only(b)
      BY <1>1, <1>2, <1>5, <2>2, Scribble DEF Only, HeapTyped
    <2>5. SizesKept(b, live \ {p})
      BY <1>3, <2>1 DEF SizesKept
    <2> QED BY <1>4, <2>3, <2>4, <2>5, GoneChunk DEF b, i
  <1>7. CASE f # l /\ i = f
    <2>1. /\ first_allocated' = [first_allocated EXCEPT ![b] = bk[b][i].next]
          /\ last_allocated' = last_allocated
          /\ bk' = [bk EXCEPT ![b][i] = Scribbled]
      BY <1>4, <1>7
    <2>2. /\ bk'[b] \in [0..(getnbk(b) - 1) -> Records]
          /\ bk' = [c \in DOMAIN banks |-> bk'[c]]
          /\ \A c \in DOMAIN banks \ {b} : bk'[c] = bk[c]
          /\ \A j \in At(b) \ {i} : bk'[b][j] = bk[b][j]
      BY <1>1, <1>2, <2>1, Scribble
    <2>3. bk[b][i].next \in Nat /\ Linked(bk[b][i].next, l, bk'[b], At(b) \ {i})
      <3>1. Keeps(bk'[b], bk[b], At(b) \ {i})
        BY <2>2 DEF Keeps
      <3> QED BY <1>2, <1>7, <3>1, UnlinkFirst
    <2>4. LinkedAfter(b, At(b) \ {i})
      BY <1>1, <1>5, <2>1, <2>3 DEF LinkedAfter, HeapTyped, l
    <2>5. Only(b)
      BY <1>1, <1>5, <2>1, <2>2, <2>3 DEF Only, HeapTyped
    <2>6. SizesKept(b, live \ {p})
      BY <1>3, <2>2 DEF SizesKept
    <2> QED BY <1>4, <2>4, <2>5, <2>6, GoneChunk DEF b, i
  <1>8. ASSUME i # f PROVE g \in At(b) /\ bk[b][g].next = i /\ g # i
    <2>1. \E j \in Chunks(b) : bk[b][j].next = i
      BY <1>1, <1>2, <1>8, WalkedIsLinked
    <2>2. g \in Chunks(b) /\ bk[b][g].next = i
      BY <2>1
    <2> HIDE DEF g
    <2>3. g \in At(b)
      BY <1>1, <2>2, WalkedIsLinked
    <2>4. g # i
      BY <1>2, <2>2, <2>3 DEF Linked, None
    <2> QED BY <2>2, <2>3, <2>4
  <1> HIDE DEF g
  <1>9. CASE f # l /\ i # f /\ i = l
    <2>1. /\ last_allocated' = [last_allocated EXCEPT ![b] = g]
          /\ first_allocated' = first_allocated
          /\ bk' = [bk EXCEPT ![b][i] = Scribbled, ![b][g].next = None]
      BY <1>4, <1>9
    <2>2. /\ bk'[b] \in [0..(getnbk(b) - 1) -> Records]
          /\ bk' = [c \in DOMAIN banks |-> bk'[c]]
          /\ \A c \in DOMAIN banks \ {b} : bk'[c] = bk[c]
          /\ \A j \in At(b) \ {i, g} : bk'[b][j] = bk[b][j]
          /\ bk'[b][g].next = None /\ bk'[b][g].size = bk[b][g].size
      <3>1. None \in Int /\ i \in At(b) /\ g \in At(b) /\ g # i
        BY <1>2, <1>8, <1>9 DEF None
      <3>2. HeapInv /\ b \in DOMAIN banks
        BY <1>1
      <3>3. bk' = [bk EXCEPT ![b][i] = Scribbled, ![b][g].next = None]
        BY <2>1
      <3>4. Bypassed(b, i, g, None)
        BY <3>1, <3>2, <3>3, Bypass
      <3> QED BY <3>4 DEF Bypassed
    <2>3. Linked(f, g, bk'[b], At(b) \ {i})
      <3>1. Keeps(bk'[b], bk[b], At(b) \ {g, i})
        BY <2>2 DEF Keeps
      <3> QED BY <1>2, <1>8, <1>9, <2>2, <3>1, UnlinkLast
    <2>4. LinkedAfter(b, At(b) \ {i})
      BY <1>1, <1>5, <2>1, <2>3 DEF LinkedAfter, HeapTyped, f
    <2>5. Only(b)
      BY <1>1, <1>2, <1>5, <1>8, <1>9, <2>1, <2>2 DEF Only, HeapTyped
    <2>6. SizesKept(b, live \ {p})
      BY <1>3, <2>2 DEF SizesKept
    <2> QED BY <1>4, <2>4, <2>5, <2>6, GoneChunk DEF b, i
  <1>10. CASE f # l /\ i # f /\ i # l
    <2>1. /\ last_allocated' = last_allocated
          /\ first_allocated' = first_allocated
          /\ bk' = [bk EXCEPT ![b][i] = Scribbled, ![b][g].next = bk[b][i].next]
      BY <1>4, <1>10
    <2>2. /\ bk'[b] \in [0..(getnbk(b) - 1) -> Records]
          /\ bk' = [c \in DOMAIN banks |-> bk'[c]]
          /\ \A c \in DOMAIN banks \ {b} : bk'[c] = bk[c]
          /\ \A j \in At(b) \ {i, g} : bk'[b][j] = bk[b][j]
          /\ bk'[b][g].next = bk[b][i].next /\ bk'[b][g].size = bk[b][g].size
      <3>1. bk[b][i].next \in Int /\ i \in At(b) /\ g \in At(b) /\ g # i
        BY <1>2, <1>8, <1>10
      <3> DEFINE n == bk[b][i].next
      <3>2. n \in Int /\ bk' = [bk EXCEPT ![b][i] = Scribbled, ![b][g].next = n]
        BY <2>1, <3>1
      <3> HIDE DEF n
      <3>3. Bypassed(b, i, g, n)
        <4>1. HeapInv /\ b \in DOMAIN banks
          BY <1>1
        <4> QED BY <4>1, <3>1, <3>2, Bypass
      <3> QED BY <3>3 DEF n, Bypassed
    <2>3. Linked(f, l, bk'[b], At(b) \ {i})
      <3>1. Keeps(bk'[b], bk[b], At(b) \ {g, i})
        BY <2>2 DEF Keeps
      <3> QED BY <1>2, <1>8, <1>10, <2>2, <3>1, UnlinkMiddle
    <2>4. LinkedAfter(b, At(b) \ {i})
      BY <2>1, <2>3 DEF LinkedAfter, f, l
    <2>5. Only(b)
      BY <1>5, <2>1, <2>2 DEF Only, HeapTyped
    <2>6. SizesKept(b, live \ {p})
      BY <1>3, <2>2 DEF SizesKept
    <2> QED BY <1>4, <2>4, <2>5, <2>6, GoneChunk DEF b, i
  <1> QED BY <1>6, <1>7, <1>9, <1>10

-----------------------------------------------------------------------------
(* Sizes and alignments in elements *)

\* What gcd does for u and v, with g for its own results.
Reduce(g, uv) ==
  LET u == uv[1]
      v == uv[2]
  IN  IF u = 0 \/ v = 0 THEN u + v
      ELSE IF u % 2 = 0 /\ v % 2 = 0 THEN 2 * g[<<u \div 2, v \div 2>>]
      ELSE IF u % 2 = 0 THEN g[<<u \div 2, v>>]
      ELSE IF v % 2 = 0 THEN g[<<u, v \div 2>>]
      ELSE IF u < v THEN g[<<u, (v - u) \div 2>>] ELSE g[<<v, (u - v) \div 2>>]

Pairs == Nat \X Nat
Total(uv) == uv[1] + uv[2]
Upto(m) == {uv \in Pairs : Total(uv) <= m}
Reduces(g, S) == g = [uv \in S |-> Reduce(g, uv)]

\* It uses the results of smaller pairs only.
LEMMA ReduceLocal ==
  ASSUME NEW g, NEW h, NEW uv \in Pairs,
         \A xy \in Pairs : Total(xy) < Total(uv) => g[xy] = h[xy]
  PROVE  Reduce(g, uv) = Reduce(h, uv)
  <1> DEFINE u == uv[1]
             v == uv[2]
  <1>1. u \in Nat /\ v \in Nat
    BY DEF Pairs
  <1>2. ASSUME NEW x \in Nat, NEW y \in Nat, x + y < u + v PROVE g[<<x, y>>] = h[<<x, y>>]
    <2>1. <<x, y>> \in Pairs /\ Total(<<x, y>>) < Total(uv)
      BY <1>2 DEF Pairs, Total
    <2> QED BY <2>1
  <1> HIDE DEF u, v
  <1>3. CASE u = 0 \/ v = 0
    BY <1>3 DEF Reduce, u, v
  <1>4. CASE u # 0 /\ v # 0
    <2>1. /\ u \div 2 \in Nat /\ v \div 2 \in Nat /\ u \div 2 < u /\ v \div 2 < v
          /\ u < v => (v - u) \div 2 \in Nat /\ (v - u) \div 2 < v
          /\ ~(u < v) => (u - v) \div 2 \in Nat /\ (u - v) \div 2 < u
      BY <1>1, <1>4
    <2>2. g[<<u \div 2, v \div 2>>] = h[<<u \div 2, v \div 2>>]
      BY <1>1, <1>2, <2>1
    <2>3. g[<<u \div 2, v>>] = h[<<u \div 2, v>>]
      BY <1>1, <1>2, <2>1
    <2>4. g[<<u, v \div 2>>] = h[<<u, v \div 2>>]
      BY <1>1, <1>2, <2>1
    <2>5. u < v => g[<<u, (v - u) \div 2>>] = h[<<u, (v - u) \div 2>>]
      BY <1>1, <1>2, <2>1
    <2>6. ~(u < v) => g[<<v, (u - v) \div 2>>] = h[<<v, (u - v) \div 2>>]
      BY <1>1, <1>2, <2>1
    <2> QED BY <2>2, <2>3, <2>4, <2>5, <2>6, Zenon DEF Reduce, u, v
  <1> QED BY <1>3, <1>4

\* What two of its beginnings have in common they agree on.
LEMMA ReducesAgree ==
  ASSUME NEW S, NEW g, Reduces(g, S), NEW R, NEW h, Reduces(h, R),
         NEW m \in Nat, Upto(m) \subseteq S, Upto(m) \subseteq R
  PROVE  \A uv \in Upto(m) : g[uv] = h[uv]
  <1> DEFINE T == {Total(uv) : uv \in {xy \in Upto(m) : g[xy] # h[xy]}}
  <1>1. \A uv \in Pairs : Total(uv) \in Nat
    BY DEF Pairs, Total
  <1>2. T = {}
    <2> SUFFICES ASSUME T # {} PROVE FALSE
      OBVIOUS
    <2>1. T \in SUBSET Nat
      BY <1>1 DEF Upto
    <2>2. PICK k \in T : \A j \in T : k <= j
      <3> HIDE DEF T
      <3> QED BY <2>1, Least
    <2>3. PICK uv \in Upto(m) : g[uv] # h[uv] /\ Total(uv) = k
      BY <2>2
    <2>4. ASSUME NEW xy \in Pairs, Total(xy) < Total(uv) PROVE g[xy] = h[xy]
      <3>1. xy \in Upto(m)
        BY <1>1, <2>3, <2>4 DEF Upto
      <3>2. Total(xy) \notin T
        <4> HIDE DEF T
        <4> QED BY <1>1, <2>1, <2>2, <2>3, <2>4
      <3> QED BY <3>1, <3>2
    <2>5. Reduce(g, uv) = Reduce(h, uv)
      BY <2>3, <2>4, ReduceLocal DEF Upto
    <2>6. g[uv] = Reduce(g, uv) /\ h[uv] = Reduce(h, uv)
      BY <2>3, Zenon DEF Reduces
    <2> QED BY <2>3, <2>5, <2>6
  <1> QED BY <1>2

\* Every beginning exists.
LEMMA ReducesUpto ==
  ASSUME NEW m \in Nat
  PROVE  \E g : Reduces(g, Upto(m))
  <1> DEFINE T == {k \in Nat : ~\E g : Reduces(g, Upto(k))}
  <1>1. T = {}
    <2> SUFFICES ASSUME T # {} PROVE FALSE
      OBVIOUS
    <2>1. PICK k \in T : \A j \in T : k <= j
      <3>1. T \in SUBSET Nat
        OBVIOUS
      <3> HIDE DEF T
      <3> QED BY <3>1, Least
    <2>2. k \in Nat /\ ~\E g : Reduces(g, Upto(k))
      BY <2>1
    <2>3. PICK g : \A uv \in Upto(k) : \A xy \in Pairs :
                     Total(xy) < Total(uv) => g[xy] = Reduce(g, xy)
      <3>1. CASE k = 0
        <4>1. \A xy \in Pairs : Total(xy) \in Nat
          BY DEF Pairs, Total
        <4>2. \A uv \in Upto(k) : \A xy \in Pairs : ~(Total(xy) < Total(uv))
          BY <3>1, <4>1 DEF Upto
        <4> QED BY <4>2
      <3>2. CASE k > 0
        <4>1. k - 1 \in Nat /\ ~(k <= k - 1)
          BY <2>2, <3>2
        <4>2. k - 1 \notin T
          <5> HIDE DEF T
          <5> QED BY <2>1, <4>1
        <4>3. PICK g : Reduces(g, Upto(k - 1))
          BY <4>1, <4>2
        <4>4. \A uv \in Upto(k) : \A xy \in Pairs : Total(xy) < Total(uv) => xy \in Upto(k - 1)
          <5>1. \A xy \in Pairs : Total(xy) \in Nat
            BY DEF Pairs, Total
          <5> QED BY <2>2, <5>1 DEF Upto
        <4>5. \A xy \in Upto(k - 1) : g[xy] = Reduce(g, xy)
          BY <4>3, Zenon DEF Reduces
        <4> QED BY <4>4, <4>5
      <3> QED BY <2>2, <3>1, <3>2
    <2> DEFINE h == [uv \in Upto(k) |-> Reduce(g, uv)]
    <2>4. \A uv \in Upto(k) : Reduce(h, uv) = Reduce(g, uv)
      <3>1. ASSUME NEW uv \in Upto(k), NEW xy \in Pairs, Total(xy) < Total(uv)
            PROVE  g[xy] = h[xy]
        <4>1. xy \in Upto(k)
          <5>1. Total(xy) \in Nat /\ Total(uv) \in Nat
            BY DEF Upto, Pairs, Total
          <5> QED BY <2>2, <3>1, <5>1 DEF Upto
        <4>2. h[xy] = Reduce(g, xy)
          BY <4>1, Zenon
        <4> QED BY <2>3, <3>1, <4>2
      <3> HIDE DEF h
      <3>2. \A uv \in Upto(k) : uv \in Pairs
        BY DEF Upto
      <3> QED BY <3>1, <3>2, ReduceLocal
    <2>5. Reduces(h, Upto(k))
      <3>1. h = [uv \in Upto(k) |-> Reduce(h, uv)]
        BY <2>4, Zenon
      <3> QED BY <3>1, Zenon DEF Reduces
    <2> QED BY <2>2, <2>5, Zenon
  <1> QED BY <1>1

\* The beginnings together are gcd.
LEMMA GcdReduces ==
  \A uv \in Pairs : gcd[uv] = Reduce(gcd, uv)
  <1> DEFINE s(m) == CHOOSE g : Reduces(g, Upto(m))
             r == [uv \in Pairs |-> s(Total(uv))[uv]]
  <1>1. \A m \in Nat : Reduces(s(m), Upto(m))
    BY ReducesUpto
  <1> HIDE DEF s
  <1>2. \A uv \in Pairs : Total(uv) \in Nat /\ uv \in Upto(Total(uv))
    BY DEF Pairs, Total, Upto
  <1>3. ASSUME NEW uv \in Pairs PROVE Reduce(r, uv) = r[uv]
    <2> DEFINE m == Total(uv)
               g == s(m)
    <2>1. m \in Nat /\ Reduces(g, Upto(m)) /\ uv \in Upto(m)
      BY <1>1, <1>2
    <2>2. ASSUME NEW xy \in Pairs, Total(xy) < m PROVE g[xy] = r[xy]
      <3> DEFINE k == Total(xy)
      <3>1. k \in Nat /\ Reduces(s(k), Upto(k)) /\ xy \in Upto(k)
        BY <1>1, <1>2
      <3>2. Upto(k) \subseteq Upto(m)
        BY <1>2, <2>1, <2>2 DEF Upto
      <3>3. r[xy] = s(k)[xy]
        OBVIOUS
      <3> HIDE DEF k, g, r, m
      <3>4. g[xy] = s(k)[xy]
        BY <2>1, <3>1, <3>2, ReducesAgree
      <3> QED BY <3>3, <3>4
    <2>3. Reduce(r, uv) = Reduce(g, uv)
      <3> HIDE DEF g, r
      <3> QED BY <2>2, ReduceLocal
    <2>4. g[uv] = Reduce(g, uv)
      <3> HIDE DEF g, m
      <3> QED BY <2>1, Zenon DEF Reduces
    <2>5. r[uv] = g[uv]
      OBVIOUS
    <2> HIDE DEF r, g
    <2> QED BY <2>3, <2>4, <2>5
  <1>4. Reduces(r, Pairs)
    <2>1. r = [uv \in Pairs |-> r[uv]]
      OBVIOUS
    <2> HIDE DEF r
    <2>2. r = [uv \in Pairs |-> Reduce(r, uv)]
      BY <1>3, <2>1, Zenon
    <2> QED BY <2>2, Zenon DEF Reduces
  <1>5. gcd = CHOOSE g : Reduces(g, Pairs)
    BY Zenon DEF gcd, Reduces, Reduce, Pairs
  <1>6. Reduces(gcd, Pairs)
    <2> HIDE DEF r
    <2> QED BY <1>4, <1>5, Zenon
  <1> QED BY <1>6, Zenon DEF Reduces

\* What a greatest common divisor is: it divides both numbers, and is a sum of multiples of
\* them, so that what divides both divides it.
IsSum(g, u, v) == \E s, t \in Int : g = s * u + t * v

IsGcd(g, u, v) ==
  /\ g \in Nat \ {0}
  /\ \E c \in Int : u = c * g
  /\ \E d \in Int : v = d * g
  /\ IsSum(g, u, v)

\* A sum of multiples of an odd number and another is one of it and twice the other.
LEMMA TwiceTheOther ==
  ASSUME NEW g, NEW p \in Int, p % 2 = 1, NEW w \in Int, IsSum(g, p, w)
  PROVE  IsSum(g, p, 2 * w)
  <1> SUFFICES ASSUME NEW s \in Int, NEW t \in Int, g = s * p + t * w
               PROVE  \E x, y \in Int : g = x * p + y * (2 * w)
    BY Zenon DEF IsSum
  <1>1. CASE t % 2 = 0
    <2> DEFINE y == t \div 2
    <2>1. y \in Int /\ t = 2 * y
      BY <1>1
    <2> HIDE DEF y
    <2>2. t * w = y * (2 * w)
      BY <2>1
    <2> QED BY <2>1, <2>2
  <1>2. CASE t % 2 = 1
    <2> DEFINE y == (t + p) \div 2
               x == s - w
    <2>1. y \in Int /\ t = 2 * y - p
      BY <1>2
    <2> HIDE DEF y
    <2>2. t * w = y * (2 * w) - p * w
      BY <2>1
    <2>3. x * p = s * p - p * w
      OBVIOUS
    <2>4. x \in Int
      OBVIOUS
    <2> HIDE DEF x
    <2>5. s * p + t * w = x * p + y * (2 * w)
      <3> DEFINE a == s * p
                 b == t * w
                 c == p * w
                 d == y * (2 * w)
                 e == x * p
      <3>1. a \in Int /\ b \in Int /\ c \in Int /\ d \in Int /\ e \in Int
        BY <2>1, <2>4
      <3>2. b = d - c /\ e = a - c
        BY <2>2, <2>3
      <3> HIDE DEF a, b, c, d, e
      <3>3. a + b = e + d
        BY <3>1, <3>2
      <3> QED BY <3>3 DEF a, b, d, e
    <2> QED BY <2>1, <2>4, <2>5
  <1> QED BY <1>1, <1>2

\* The order of the two numbers does not matter.
LEMMA GcdSwap ==
  ASSUME NEW g, NEW u \in Int, NEW v \in Int, IsGcd(g, u, v)
  PROVE  IsGcd(g, v, u)
  <1>1. PICK s \in Int, t \in Int : g = s * u + t * v
    BY DEF IsGcd, IsSum
  <1>2. g = t * v + s * u
    BY <1>1
  <1> QED BY <1>2 DEF IsGcd, IsSum

\* A factor of two that only one of them has may be left out.
LEMMA GcdOfTwice ==
  ASSUME NEW g, NEW p \in Int, p % 2 = 1, NEW w \in Int, IsGcd(g, p, w)
  PROVE  IsGcd(g, p, 2 * w)
  <1>1. IsSum(g, p, 2 * w)
    BY TwiceTheOther DEF IsGcd
  <1>2. PICK d \in Int : w = d * g
    BY DEF IsGcd, IsSum
  <1>3. g \in Nat
    BY DEF IsGcd, IsSum
  <1>4. 2 * w = (2 * d) * g /\ 2 * d \in Int
    BY <1>2, <1>3
  <1> QED BY <1>1, <1>4 DEF IsGcd, IsSum

\* One may be added to the other.
LEMMA GcdOfSum ==
  ASSUME NEW g, NEW p \in Int, NEW w \in Int, IsGcd(g, p, w)
  PROVE  IsGcd(g, p, p + w)
  <1>1. PICK s \in Int, t \in Int : g = s * p + t * w
    BY DEF IsGcd, IsSum
  <1>2. g = (s - t) * p + t * (p + w)
    BY <1>1
  <1>3. PICK c \in Int, d \in Int : p = c * g /\ w = d * g
    BY DEF IsGcd, IsSum
  <1>4. g \in Nat
    BY DEF IsGcd, IsSum
  <1>5. p + w = (c + d) * g
    BY <1>3, <1>4
  <1>6. s - t \in Int /\ c + d \in Int
    OBVIOUS
  <1> QED BY <1>2, <1>5, <1>6 DEF IsGcd, IsSum

\* A factor of two that both have is one of it.
LEMMA GcdOfBothTwice ==
  ASSUME NEW g, NEW p \in Int, NEW w \in Int, IsGcd(g, p, w)
  PROVE  IsGcd(2 * g, 2 * p, 2 * w)
  <1>1. PICK s \in Int, t \in Int : g = s * p + t * w
    BY DEF IsGcd, IsSum
  <1>2. PICK c \in Int, d \in Int : p = c * g /\ w = d * g
    BY DEF IsGcd, IsSum
  <1>3. g \in Nat \ {0}
    BY DEF IsGcd, IsSum
  <1>4. 2 * g = s * (2 * p) + t * (2 * w)
    BY <1>1
  <1>5. 2 * p = c * (2 * g) /\ 2 * w = d * (2 * g)
    BY <1>2, <1>3
  <1>6. IsSum(2 * g, 2 * p, 2 * w)
    BY <1>4 DEF IsSum
  <1>7. 2 * g \in Nat \ {0}
    BY <1>3
  <1> QED BY <1>5, <1>6, <1>7, Zenon DEF IsGcd

\* The binary algorithm computes the greatest common divisor.
LEMMA GcdRight ==
  ASSUME NEW u \in Nat, NEW v \in Nat, u + v > 0
  PROVE  IsGcd(gcd[<<u, v>>], u, v)
  <1> DEFINE Right(x, y) == x + y > 0 => IsGcd(gcd[<<x, y>>], x, y)
             T == {n \in Nat : \E x, y \in Nat : x + y = n /\ ~Right(x, y)}
  <1>1. T = {}
    <2> SUFFICES ASSUME T # {} PROVE FALSE
      OBVIOUS
    <2>1. PICK n \in T : \A j \in T : n <= j
      <3>1. T \in SUBSET Nat
        OBVIOUS
      <3> HIDE DEF T
      <3> QED BY <3>1, Least
    <2>2. PICK x \in Nat, y \in Nat : x + y = n /\ ~Right(x, y)
      BY <2>1
    <2>3. ASSUME NEW a \in Nat, NEW b \in Nat, a + b < n, a + b > 0
          PROVE  IsGcd(gcd[<<a, b>>], a, b)
      <3> DEFINE k == a + b
      <3>1. k \in Nat /\ n \in Nat /\ ~(n <= k)
        BY <2>1, <2>3
      <3>2. k \notin T
        <4> HIDE DEF T, k
        <4> QED BY <2>1, <3>1
      <3> QED BY <2>3, <3>1, <3>2
    <2>4. x + y > 0 /\ ~IsGcd(gcd[<<x, y>>], x, y)
      BY <2>2
    <2>5. gcd[<<x, y>>] = Reduce(gcd, <<x, y>>)
      BY <2>2, GcdReduces DEF Pairs
    <2> DEFINE g == gcd[<<x, y>>]
    <2>6. CASE x = 0 \/ y = 0
      <3>1. g = x + y
        BY <2>5, <2>6 DEF Reduce
      <3> HIDE DEF g
      <3>2. g \in Nat \ {0} /\ (x = 0 => y = g) /\ (y = 0 => x = g)
        <4>1. x + y > 0 /\ x \in Nat /\ y \in Nat
          BY <2>4
        <4> QED BY <3>1, <4>1
      <3>3. x = 0 => x = 0 * g /\ y = 1 * g /\ g = 0 * x + 1 * y
        BY <3>2
      <3>4. y = 0 => y = 0 * g /\ x = 1 * g /\ g = 1 * x + 0 * y
        BY <3>2
      <3>5. IsGcd(g, x, y)
        <4>1. 0 \in Int /\ 1 \in Int
          OBVIOUS
        <4>2. CASE x = 0
          <5>1. x = 0 * g /\ y = 1 * g /\ g = 0 * x + 1 * y
            BY <3>3, <4>2
          <5> QED BY <3>2, <4>1, <5>1, Zenon DEF IsGcd, IsSum
        <4>3. CASE y = 0
          <5>1. y = 0 * g /\ x = 1 * g /\ g = 1 * x + 0 * y
            BY <3>4, <4>3
          <5> QED BY <3>2, <4>1, <5>1, Zenon DEF IsGcd, IsSum
        <4> QED BY <2>6, <4>2, <4>3
      <3> QED BY <2>4, <3>5 DEF g
    <2>7. CASE x # 0 /\ y # 0
      <3>1. /\ x \div 2 \in Nat /\ y \div 2 \in Nat /\ x \div 2 < x /\ y \div 2 < y
            /\ x < y => (y - x) \div 2 \in Nat /\ (y - x) \div 2 < y
            /\ ~(x < y) => (x - y) \div 2 \in Nat /\ (x - y) \div 2 < x
        BY <2>7
      <3>2. CASE x % 2 = 0 /\ y % 2 = 0
        <4> DEFINE e == x \div 2
                   f == y \div 2
                   h == gcd[<<e, f>>]
        <4>1. e \in Nat /\ f \in Nat /\ x = 2 * e /\ y = 2 * f /\ e + f < n /\ e + f > 0
          BY <2>2, <2>7, <3>1, <3>2
        <4>2. g = 2 * h
          BY <2>5, <2>7, <3>2 DEF Reduce
        <4> HIDE DEF e, f, g
        <4>3. IsGcd(2 * h, 2 * e, 2 * f)
          BY <2>3, <4>1, GcdOfBothTwice
        <4> QED BY <2>4, <4>1, <4>2, <4>3 DEF g
      <3>3. CASE x % 2 = 0 /\ y % 2 # 0
        <4> DEFINE e == x \div 2
        <4>1. e \in Nat /\ x = 2 * e /\ e + y < n /\ e + y > 0 /\ y % 2 = 1
          BY <2>2, <2>7, <3>1, <3>3
        <4>2. g = gcd[<<e, y>>]
          BY <2>5, <2>7, <3>3 DEF Reduce
        <4> HIDE DEF e, g
        <4>3. IsGcd(g, y, e)
          BY <2>3, <4>1, <4>2, GcdSwap
        <4>4. IsGcd(g, y, 2 * e)
          BY <4>1, <4>3, GcdOfTwice
        <4>5. IsGcd(g, x, y)
          BY <4>1, <4>4, GcdSwap
        <4> QED BY <2>4, <4>5 DEF g
      <3>4. CASE x % 2 # 0 /\ y % 2 = 0
        <4> DEFINE e == y \div 2
        <4>1. e \in Nat /\ y = 2 * e /\ x + e < n /\ x + e > 0 /\ x % 2 = 1
          BY <2>2, <2>7, <3>1, <3>4
        <4>2. g = gcd[<<x, e>>]
          BY <2>5, <2>7, <3>4 DEF Reduce
        <4> HIDE DEF e, g
        <4>3. IsGcd(g, x, 2 * e)
          BY <2>3, <4>1, <4>2, GcdOfTwice
        <4> QED BY <2>4, <4>1, <4>3 DEF g
      <3>5. CASE x % 2 # 0 /\ y % 2 # 0 /\ x < y
        <4> DEFINE e == (y - x) \div 2
        <4>1. e \in Nat /\ y = x + 2 * e /\ x + e < n /\ x + e > 0 /\ x % 2 = 1
          BY <2>2, <2>7, <3>1, <3>5
        <4>2. g = gcd[<<x, e>>]
          BY <2>5, <2>7, <3>5 DEF Reduce
        <4> HIDE DEF e, g
        <4>3. IsGcd(g, x, 2 * e)
          BY <2>3, <4>1, <4>2, GcdOfTwice
        <4>4. IsGcd(g, x, x + 2 * e)
          BY <4>1, <4>3, GcdOfSum
        <4> QED BY <2>4, <4>1, <4>4 DEF g
      <3>6. CASE x % 2 # 0 /\ y % 2 # 0 /\ ~(x < y)
        <4> DEFINE e == (x - y) \div 2
        <4>1. e \in Nat /\ x = y + 2 * e /\ y + e < n /\ y + e > 0 /\ y % 2 = 1
          BY <2>2, <2>7, <3>1, <3>6
        <4>2. g = gcd[<<y, e>>]
          BY <2>5, <2>7, <3>6 DEF Reduce
        <4> HIDE DEF e, g
        <4>3. IsGcd(g, y, 2 * e)
          BY <2>3, <4>1, <4>2, GcdOfTwice
        <4>4. IsGcd(g, y, y + 2 * e)
          BY <4>1, <4>3, GcdOfSum
        <4>5. IsGcd(g, x, y)
          BY <4>1, <4>4, GcdSwap
        <4> QED BY <2>4, <4>5 DEF g
      <3> QED BY <3>2, <3>3, <3>4, <3>5, <3>6
    <2> QED BY <2>6, <2>7
  <1>2. ASSUME ~Right(u, v) PROVE FALSE
    <2>1. u + v \in T
      BY <1>2
    <2> QED BY <1>1, <2>1
  <1> QED BY <1>2

\* The alignment in elements is the number asked for without what it has in common with the
\* size of a record.
LEMMA AlignmentIs ==
  ASSUME NEW bytes \in Nat \ {0}
  PROVE  LET g == gcd[<<bytes, RecordSize>>] IN
         /\ g \in Nat \ {0} /\ Alignment(bytes) \in Nat \ {0} /\ bytes = Alignment(bytes) * g
         /\ \E s, t \in Int : g = s * bytes + t * RecordSize
  <1> DEFINE R == RecordSize
             g == gcd[<<bytes, R>>]
  <1>1. R \in Nat \ {0}
    BY RequestsAssumption
  <1> HIDE DEF R
  <1>2. IsGcd(g, bytes, R)
    BY <1>1, GcdRight
  <1> HIDE DEF g
  <1>3. PICK a \in Int : bytes = a * g
    BY <1>2 DEF IsGcd, IsSum
  <1>4. g \in Nat \ {0}
    BY <1>2 DEF IsGcd, IsSum
  <1>5. a \in Nat \ {0}
    BY <1>3, <1>4
  <1>6. (bytes * R) \div g = a * R
    <2> DEFINE k == a * R
               y == bytes * R
    <2>1. k \in Nat /\ y = g * k /\ y \in Nat
      BY <1>1, <1>3, <1>4, <1>5
    <2> HIDE DEF k, y
    <2>2. y \div g = k
      BY <1>4, <2>1, ExactQuotient
    <2> QED BY <2>2 DEF k, y
  <1>7. (a * R) \div R = a
    <2> DEFINE y == a * R
    <2>1. y \in Nat /\ y = R * a
      BY <1>1, <1>5
    <2> HIDE DEF y
    <2>2. y \div R = a
      BY <1>1, <1>5, <2>1, ExactQuotient
    <2> QED BY <2>2 DEF y
  <1>8. Alignment(bytes) = a
    BY <1>6, <1>7 DEF Alignment, lcm, g, R
  <1>9. \E s, t \in Int : g = s * bytes + t * R
    BY <1>2 DEF IsGcd, IsSum
  <1> QED BY <1>3, <1>4, <1>5, <1>8, <1>9 DEF g, R

\* What is asked for is rounded to whole elements, and never to none.
LEMMA WholeElements ==
  ASSUME NEW bytes \in Nat \ {0}
  PROVE  InElements(bytes) \in Nat \ {0} /\ Alignment(bytes) \in Nat \ {0}
  <1> DEFINE R == RecordSize
             a == bytes
  <1>1. R \in Nat \ {0}
    BY RequestsAssumption
  <1> HIDE DEF R
  <1> USE <1>1
  <1>2. InElements(bytes) \in Nat \ {0}
    <2> DEFINE x == a + R - 1
               q == x \div R
               m == x % R
    <2>1. x \in Nat /\ x >= R
      OBVIOUS
    <2> HIDE DEF x
    <2>2. q \in Int /\ m \in 0..(R - 1) /\ x = R * q + m
      BY <2>1
    <2> HIDE DEF q, m
    <2>3. R * q > 0
      BY <2>1, <2>2
    <2>4. q > 0
      BY <2>2, <2>3
    <2> QED BY <2>2, <2>4 DEF InElements, q, x, R
  <1>3. Alignment(bytes) \in Nat \ {0}
    BY AlignmentIs
  <1> QED BY <1>2, <1>3

\* Where the bytes are aligned, the elements are.
LEMMA AlignedElements ==
  ASSUME NEW bytes \in Nat \ {0}, NEW x \in Nat, (x * RecordSize) % bytes = 0
  PROVE  x % Alignment(bytes) = 0
  <1> DEFINE R == RecordSize
             g == gcd[<<bytes, R>>]
             a == Alignment(bytes)
  <1>1. R \in Nat \ {0}
    BY RequestsAssumption
  <1>2. g \in Nat \ {0} /\ a \in Nat \ {0} /\ bytes = a * g
    BY AlignmentIs
  <1>3. PICK s \in Int, t \in Int : g = s * bytes + t * R
    BY AlignmentIs
  <1> HIDE DEF R, g, a
  <1> DEFINE k == (x * R) \div bytes
  <1>4. k \in Int /\ x * R = bytes * k
    <2> DEFINE y == x * R
    <2>1. y \in Nat /\ y % bytes = 0
      BY <1>1 DEF R
    <2> HIDE DEF y
    <2>2. y \div bytes \in Int /\ y = bytes * (y \div bytes)
      BY <2>1
    <2> QED BY <2>2 DEF y
  <1> HIDE DEF k
  <1> DEFINE m == x * s + t * k
  <1>5. m \in Int
    BY <1>3, <1>4
  <1>6. x * g = m * bytes
    <2>1. x * g = x * (s * bytes) + t * (x * R)
      BY <1>1, <1>3
    <2>2. t * (x * R) = (t * k) * bytes
      BY <1>3, <1>4
    <2>3. x * (s * bytes) = (x * s) * bytes
      BY <1>3
    <2> DEFINE p == x * s
               q == t * k
    <2>4. p \in Int /\ q \in Int /\ x * g = p * bytes + q * bytes
      BY <1>3, <1>4, <2>1, <2>2, <2>3
    <2> HIDE DEF p, q
    <2>5. p * bytes + q * bytes = (p + q) * bytes
      BY <2>4
    <2> QED BY <2>4, <2>5 DEF p, q
  <1> HIDE DEF m
  <1>7. x * g = (m * a) * g
    BY <1>2, <1>5, <1>6
  <1>8. x = m * a
    <2> DEFINE z == m * a
    <2>1. z \in Int /\ x * g = z * g
      BY <1>2, <1>5, <1>7
    <2> HIDE DEF z
    <2>2. (x - z) * g = 0
      BY <1>2, <2>1
    <2>3. x - z = 0
      BY <1>2, <2>1, <2>2
    <2>4. x = z
      BY <2>1, <2>3
    <2> QED BY <2>4 DEF z
  <1>9. x % a = 0
    BY <1>2, <1>5, <1>8, MultipleRemainder
  <1> QED BY <1>9 DEF a

-----------------------------------------------------------------------------
(* The theorem *)

\* Empty banks satisfy the invariant.
LEMMA HeapInitial ==
  HeapInit => HeapInv
  <1> SUFFICES ASSUME HeapInit PROVE HeapInv
    OBVIOUS
  <1>1. Scribbled \in Records
    BY DEF Scribbled, Records, None
  <1>2. \A b \in DOMAIN banks : At(b) = {}
    BY DEF HeapInit, At
  <1>3. HeapTyped
    BY <1>1 DEF HeapInit, HeapTyped
  <1>4. \A b \in DOMAIN banks : Linked(first_allocated[b], last_allocated[b], bk[b], At(b))
    BY <1>2 DEF HeapInit, Linked
  <1> QED BY <1>3, <1>4 DEF HeapInv, HeapInit

\* Every step keeps it.
LEMMA HeapStep ==
  HeapInv /\ [HeapNext]_heapVars => HeapInv'
  <1> SUFFICES ASSUME HeapInv, [HeapNext]_heapVars PROVE HeapInv'
    OBVIOUS
  <1>1. CASE Allocate
    <2>1. PICK bytes \in Sizes, b \in DOMAIN banks, alignment \in Alignments :
            mallocex(bytes, b, alignment)
      BY <1>1 DEF Allocate
    <2> DEFINE size == InElements(bytes)
               al == Alignment(alignment)
    <2>2. bytes \in Nat \ {0} /\ alignment \in Nat \ {0}
      BY <2>1, RequestsAssumption DEF mallocex, Refuses
    <2>3. size \in Nat \ {0} /\ al \in Nat \ {0}
      BY <2>2, WholeElements
    <2>4. \/ CanBegin(b, size, al) /\ AtBeginning(b, size, al)
          \/ CanAppend(b, size, al) /\ AfterLast(b, size, al)
          \/ CanInsert(b, size, al) /\ Between(b, size, al)
      BY <2>1 DEF mallocex, Refuses
    <2> HIDE DEF size, al
    <2>5. CASE CanBegin(b, size, al) /\ AtBeginning(b, size, al)
      BY <2>3, <2>5, BeginStep
    <2>6. CASE CanAppend(b, size, al) /\ AfterLast(b, size, al)
      BY <2>3, <2>6, AppendStep
    <2>7. CASE CanInsert(b, size, al) /\ Between(b, size, al)
      BY <2>3, <2>7, BetweenStep
    <2> QED BY <2>4, <2>5, <2>6, <2>7
  <1>2. CASE Free
    BY <1>2, FreeStep DEF Free
  <1>3. CASE UNCHANGED heapVars
    <2>1. /\ first_allocated' = first_allocated /\ last_allocated' = last_allocated
          /\ bk' = bk /\ live' = live
      BY <1>3 DEF heapVars
    <2>2. HeapTyped'
      BY <2>1 DEF HeapInv, HeapTyped, getnbk
    <2>3. \A p \in live' : Placed(p)'
      BY <2>1 DEF HeapInv, Placed, getnbk
    <2>4. \A p, q \in live' : p # q /\ p.bank = q.bank => Apart(p, q)
      BY <2>1 DEF HeapInv
    <2>5. \A b \in DOMAIN banks :
            Linked(first_allocated'[b], last_allocated'[b], bk'[b], At(b)')
      BY <2>1 DEF HeapInv, At
    <2> QED BY <2>2, <2>3, <2>4, <2>5 DEF HeapInv, Apart
  <1> QED BY <1>1, <1>2, <1>3 DEF HeapNext

\* It implies what the callers rely on.
LEMMA HeapInvSound ==
  HeapInv => ListSound
  <1> SUFFICES ASSUME HeapInv PROVE ListSound
    OBVIOUS
  <1>1. ASSUME NEW p \in live
        PROVE  /\ p.at + p.size < getnbk(p.bank) /\ bk[p.bank][p.at].size = p.size + 1
               /\ (banks[p.bank].start + p.at + 1) % p.alignment = 0
               /\ first_allocated[p.bank] <= p.at /\ p.at <= last_allocated[p.bank]
    <2>1. p.bank \in DOMAIN banks /\ p.at \in At(p.bank)
      BY DEF HeapInv, HeapTyped, Requests, At
    <2>2. Linked(first_allocated[p.bank], last_allocated[p.bank], bk[p.bank], At(p.bank))
      BY <2>1 DEF HeapInv
    <2>3. first_allocated[p.bank] <= p.at /\ p.at <= last_allocated[p.bank]
      BY <2>1, <2>2 DEF Linked
    <2> QED BY <2>3 DEF HeapInv, Placed
  <1>2. ASSUME NEW p \in live, NEW q \in live, p # q PROVE Held(p) \cap Held(q) = {}
    <2>1. p \in Requests /\ q \in Requests
      BY DEF HeapInv, HeapTyped
    <2>2. CASE p.bank # q.bank
      BY <2>2 DEF Held, Elements
    <2>3. CASE p.bank = q.bank
      <3>1. Apart(p, q)
        BY <1>2, <2>3 DEF HeapInv
      <3> QED BY <2>1, <3>1 DEF Apart, Held, Elements, Requests
    <2> QED BY <2>2, <2>3
  <1>3. \A b \in DOMAIN banks : Chunks(b) = {p.at : p \in {q \in live : q.bank = b}}
    BY WalkedIsLinked DEF At
  <1> QED BY <1>1, <1>2, <1>3 DEF ListSound

\* Of chunks that reach up to i there is a last one.
LEMMA LastUpto ==
  ASSUME NEW A \in SUBSET Nat, NEW i \in Nat, NEW f \in A, f <= i
  PROVE  \E c \in A : c <= i /\ \A j \in A : j <= i => j <= c
  <1> DEFINE T == {i - j : j \in {k \in A : k <= i}}
  <1>1. T \in SUBSET Nat /\ i - f \in T
    <2>1. \A j \in {k \in A : k <= i} : i - j \in Nat
      OBVIOUS
    <2>2. f \in {k \in A : k <= i}
      OBVIOUS
    <2> QED BY <2>1, <2>2
  <1>2. PICK n \in T : \A m \in T : n <= m
    <2> HIDE DEF T
    <2> QED BY <1>1, Least
  <1>3. PICK c \in A : c <= i /\ n = i - c
    BY <1>2
  <1>4. \A j \in A : j <= i => j <= c
    <2>1. ASSUME NEW j \in A, j <= i PROVE j <= c
      <3>1. n <= i - j
        BY <1>2, <2>1
      <3> QED BY <1>3, <3>1
    <2> QED BY <2>1
  <1> QED BY <1>3, <1>4

\* A free and aligned place is in front of the chunks, between two of them or behind them, and
\* large enough there.
LEMMA HeapInvServes ==
  HeapInv => RefusedWhenFull
  <1> SUFFICES ASSUME HeapInv, NEW bytes \in Sizes \ {0}, NEW b \in DOMAIN banks,
                      NEW alignbytes \in Alignments,
                      NEW i \in 0..(getnbk(b) - InElements(bytes) - 1),
                      ((banks[b].start + i + 1) * RecordSize) % alignbytes = 0,
                      \A p \in live : Held(p) \cap Elements(b, i, InElements(bytes)) = {}
               PROVE  ~Refuses(bytes, b, alignbytes)
    BY DEF RefusedWhenFull
  <1> DEFINE N == getnbk(b)
             f == first_allocated[b]
             l == last_allocated[b]
             size == InElements(bytes)
             al == Alignment(alignbytes)
  <1>1. bytes \in Nat \ {0} /\ alignbytes \in Nat \ {0}
    BY RequestsAssumption
  <1>2. size \in Nat \ {0} /\ al \in Nat \ {0}
    BY <1>1, WholeElements
  <1>3. /\ N \in Int /\ f \in Nat \cup {None} /\ At(b) \in SUBSET (0..(N - 1))
        /\ Linked(f, l, bk[b], At(b))
        /\ \A p \in live : p.bank = b => /\ p.at \in Nat /\ p.size \in Nat
                                         /\ bk[b][p.at].size = p.size + 1
        /\ \A j \in At(b) : \E p \in live : p.bank = b /\ p.at = j
    BY BankFacts
  <1>4. i \in Nat /\ i + size < N
    <2>1. i \in 0..(N - size - 1)
      OBVIOUS
    <2> HIDE DEF N, size
    <2> QED BY <1>2, <1>3, <2>1
  <1>5. (banks[b].start + i + 1) % al = 0
    <2>1. banks[b].start + i + 1 \in Nat
      BY <1>4, BanksAssumption
    <2> QED BY <1>1, <2>1, AlignedElements
  <1>6. ASSUME NEW begin \in Nat, begin <= i
        PROVE  Extra(b, begin, al) \in Nat /\ begin + Extra(b, begin, al) <= i
    BY <1>2, <1>4, <1>5, <1>6, ExtraLeast, ExtraAligns
  <1>7. \A p \in live : p.bank = b => p.at + p.size < i \/ i + size < p.at
    <2>1. ASSUME NEW p \in live, p.bank = b, ~(p.at + p.size < i), ~(i + size < p.at)
          PROVE  FALSE
      <3>1. Held(p) \cap Elements(b, i, size) = {} /\ p.at \in Nat /\ p.size \in Nat
        BY <1>3, <2>1
      <3> HIDE DEF size
      <3> DEFINE e == IF p.at <= i THEN i ELSE p.at
      <3>2. e \in i..(i + size) /\ e \in (p.at)..(p.at + p.size)
        BY <1>2, <1>4, <2>1, <3>1
      <3> HIDE DEF e
      <3>3. [bank |-> b, at |-> e] \in Held(p) /\ [bank |-> b, at |-> e] \in Elements(b, i, size)
        BY <2>1, <3>2 DEF Held, Elements
      <3> QED BY <3>1, <3>3
    <2> HIDE DEF size
    <2> QED BY <2>1
  <1> HIDE DEF size, al, N
  <1>8. ASSUME NEW begin \in Nat, NEW end \in Int, begin <= i, i + size < end
        PROVE  Fits(b, begin, end, size, al)
    <2> DEFINE e == Extra(b, begin, al)
    <2>1. e \in Nat /\ begin + e <= i
      BY <1>6, <1>8
    <2> HIDE DEF e
    <2>2. end - begin >= size + e + 1
      BY <1>2, <1>4, <1>8, <2>1
    <2> QED BY <2>2 DEF Fits, e
  <1>9. CASE f = None \/ (f # None /\ i < f)
    <2>1. CASE f = None
      <3>1. Fits(b, 0, N, size, al)
        BY <1>3, <1>4, <1>8
      <3> QED BY <1>1, <2>1, <3>1 DEF Refuses, CanBegin, HasChunks, N, size, al
    <2>2. CASE f # None /\ i < f
      <3>1. f \in At(b) /\ f \in Nat
        BY <1>3, <2>2 DEF Linked
      <3>2. PICK p \in live : p.bank = b /\ p.at = f
        BY <1>3, <3>1
      <3>3. i + size < f
        BY <1>3, <1>4, <1>7, <2>2, <3>2
      <3>4. Fits(b, 0, f, size, al)
        BY <1>4, <1>8, <3>1, <3>3
      <3> QED BY <1>1, <2>2, <3>4 DEF Refuses, CanBegin, HasChunks, size, al
    <2> QED BY <1>9, <2>1, <2>2
  <1>10. CASE f # None /\ ~(i < f)
    <2>1. /\ At(b) \in SUBSET Nat /\ f \in At(b) /\ f <= i /\ l \in At(b)
          /\ \A j \in At(b) \ {l} : bk[b][j].next \in At(b) /\ j < bk[b][j].next
      BY <1>3, <1>4, <1>10 DEF Linked
    <2> HIDE DEF f
    <2>2. PICK c \in At(b) : c <= i /\ \A j \in At(b) : j <= i => j <= c
      <3> DEFINE A == At(b)
      <3>1. A \in SUBSET Nat /\ f \in A /\ f <= i /\ i \in Nat
        BY <1>4, <2>1
      <3> HIDE DEF A
      <3>2. \E c \in A : c <= i /\ \A j \in A : j <= i => j <= c
        BY ONLY <3>1, LastUpto, Zenon
      <3> QED BY <3>2 DEF A
    <2>3. PICK p \in live : p.bank = b /\ p.at = c
      BY <1>3, <2>2
    <2>4. Behind(b, c) = c + (p.size + 1) /\ p.size \in Nat /\ c \in Nat
      BY <1>3, <2>1, <2>3 DEF Behind
    <2>5. Behind(b, c) \in Nat /\ Behind(b, c) <= i
      BY <1>2, <1>4, <1>7, <2>2, <2>3, <2>4
    <2>6. HasChunks(b)
      BY <1>10 DEF HasChunks, f
    <2>7. CASE c = l
      <3>1. Fits(b, Behind(b, c), N, size, al)
        BY <1>3, <1>4, <1>8, <2>5
      <3> QED BY <2>6, <2>7, <3>1, <1>1 DEF Refuses, CanAppend, N, size, al
    <2>8. CASE c # l
      <3> DEFINE n == bk[b][c].next
      <3>1. n \in At(b) /\ n \in Nat /\ ~(n <= i)
        <4>1. n \in At(b) /\ c < n
          BY <2>1, <2>8
        <4>2. n \in Nat /\ ~(n <= c)
          BY <2>1, <2>4, <4>1
        <4> QED BY <2>2, <4>1, <4>2
      <3> HIDE DEF n
      <3>2. PICK q \in live : q.bank = b /\ q.at = n
        BY <1>3, <3>1
      <3>3. i + size < n
        BY <1>3, <1>4, <1>7, <3>1, <3>2
      <3>4. Fits(b, Behind(b, c), n, size, al)
        BY <1>8, <2>5, <3>1, <3>3
      <3>5. c \in Gaps(b, size, al)
        BY <2>8, <3>4, WalkedIsLinked DEF Gaps, n, l
      <3> QED BY <1>1, <2>6, <3>5 DEF Refuses, CanInsert, size, al
    <2> QED BY <2>7, <2>8
  <1> QED BY <1>9, <1>10

\* The allocator hands out memory that is the caller's alone, in its bank and aligned as asked
\* for, and refuses it only where no such place is left, in every history of mallocex() and
\* free(), with any banks that do not overlap, any size of its records, sizes and alignments.
THEOREM HeapIsSound ==
  HeapSpec => []HeapSound
  <1>1. HeapInit => HeapInv
    BY HeapInitial
  <1>2. HeapInv /\ [HeapNext]_heapVars => HeapInv'
    BY HeapStep
  <1>3. HeapInv => HeapSound
    BY HeapInvSound, HeapInvServes DEF HeapSound
  <1> QED BY <1>1, <1>2, <1>3, PTL DEF HeapSpec


ClockSpec == ClockInit /\ [][ClockNext]_clockVars

-----------------------------------------------------------------------------
(* The inductive invariant of the clock *)

Half == Frequency \div 2
Base == sec * Frequency
Micros(t) == t.sec * Frequency + t.usec

Contexts ==
  [does : {"nothing", "time", "enter", "leave", "tick", "serve"},
   at : {"none", "mask", "counter", "pending"},
   counter : 0..Frequency, asked : Nat, oldmask : SUBSET All, saved : SUBSET All]
Stamps == [sec : Int, usec : Int]

ClockTyped ==
  /\ counter \in 0..Frequency /\ pending \in BOOLEAN /\ sec \in Nat
  /\ mask \in SUBSET All
  /\ main \in Contexts /\ isr \in Contexts
  /\ inside \in BOOLEAN /\ enter_count \in Nat
  /\ acc \in Stamps /\ first_enter \in Stamps
  /\ load \in Int /\ busy \in Int /\ measured \in Int /\ counting \in BOOLEAN

\* The handler gets to a second that has passed within half of the next one.
Soon == pending => counter < Half

\* Where the two are, and the interrupts they hold off: in cpustats_enter and cpustats_leave
\* all, between the two readings of time_get that of the timer.
Reading(f) == f.at \in {"counter", "pending"}
InStats(f) == f.does \in {"enter", "leave"}
Control ==
  /\ main.does \in {"nothing", "time", "enter", "leave"}
  /\ isr.does \in {"nothing", "serve", "enter", "leave", "tick"}
  /\ main.at = "none" <=> main.does = "nothing"
  /\ isr.at = "none" <=> isr.does \in {"nothing", "serve"}
  /\ InStats(main) => mask = {} /\ isr.does = "nothing"
  /\ InStats(isr) => mask = {}
  /\ Reading(isr) => "timer" \notin mask
  /\ Reading(main) =>
       /\ "timer" \notin mask /\ isr.does # "tick"
       /\ InStats(isr) => "timer" \notin isr.saved

\* enter_count counts the main program's part and the handler.
Nested ==
  /\ enter_count = (IF inside THEN 1 ELSE 0)
                    + (IF isr.does \in {"enter", "serve", "tick"} THEN 1 ELSE 0)
  /\ main.does = "enter" => inside
  /\ main.does = "leave" => ~inside
  /\ InStats(isr) => ~inside

\* Between the two readings less than half a second passes, and the second that is pending,
\* if any, was so at the first reading or the counter was past its half then.
Asked(f) ==
  f.at = "pending" =>
    /\ f.asked <= Now /\ Now < f.asked + Half
    /\ \/ f.asked = Base + f.counter
       \/ f.asked = Base + Frequency + f.counter /\ pending /\ f.counter < Half

\* The one that is in cpustats.c, and what has been counted when it is there.
Stats == IF InStats(main) THEN main ELSE isr
Counted ==
  LET f == Stats IN
  /\ f.at = "pending" /\ f.does = "enter" => counting /\ busy = Micros(acc) + Now - f.asked
  /\ f.at = "pending" /\ f.does = "leave" =>
       ~counting /\ busy = Micros(acc) + f.asked - Micros(first_enter)
  /\ f.at = "pending" /\ f.does = "tick" =>
       counting /\ busy = Now - f.asked /\ measured = Micros(acc) + f.asked - Micros(first_enter)
  /\ f.at # "pending" =>
       IF f.does = "enter" \/ (f.does = "nothing" /\ ~inside)
       THEN ~counting /\ busy = Micros(acc)
       ELSE counting /\ busy = Micros(acc) + Now - Micros(first_enter)

ClockInv ==
  /\ ClockTyped /\ Soon /\ Control /\ Nested /\ Asked(main) /\ Asked(isr) /\ Counted /\ LoadRight

-----------------------------------------------------------------------------
(* Arithmetic *)

LEMMA HalfFacts == Half \in Nat /\ Half >= 2 /\ Half + Half <= Frequency /\ Frequency \in Nat
  BY FrequencyAssumption DEF Half

LEMMA BaseFacts ==
  ASSUME sec \in Nat
  PROVE  Base \in Nat /\ (sec + 1) * Frequency = Base + Frequency
  BY FrequencyAssumption DEF Base

\* Now is the time since the last second that was counted, and that.
LEMMA NowFacts ==
  ASSUME sec \in Nat, counter \in 0..Frequency, pending \in BOOLEAN
  PROVE  /\ Now \in Nat
         /\ pending => Now = Base + Frequency + counter
         /\ ~pending => Now = Base + counter
  BY BaseFacts, FrequencyAssumption DEF Now, Seconds, Base

\* time_diff and time_add subtract and add microseconds.
LEMMA Difference ==
  ASSUME NEW a \in Stamps, NEW b \in Stamps
  PROVE  time_diff(a, b) \in Stamps /\ Micros(time_diff(a, b)) = Micros(a) - Micros(b)
  BY FrequencyAssumption DEF time_diff, Stamps, Micros

LEMMA Sum ==
  ASSUME NEW a \in Stamps, NEW b \in Stamps
  PROVE  time_add(a, b) \in Stamps /\ Micros(time_add(a, b)) = Micros(a) + Micros(b)
  BY FrequencyAssumption DEF time_add, Stamps, Micros, Stamp

LEMMA AccumulatedFacts ==
  ASSUME ClockTyped, NEW t \in Stamps
  PROVE  /\ Accumulated(t) \in Stamps
         /\ Micros(Accumulated(t)) = Micros(acc) + Micros(t) - Micros(first_enter)
  <1>1. acc \in Stamps /\ first_enter \in Stamps
    BY DEF ClockTyped
  <1> DEFINE d == time_diff(t, first_enter)
  <1>2. d \in Stamps /\ Micros(d) = Micros(t) - Micros(first_enter)
    BY <1>1, Difference
  <1>3. Micros(acc) \in Int /\ Micros(t) \in Int /\ Micros(first_enter) \in Int
    BY <1>1, FrequencyAssumption DEF Stamps, Micros
  <1> HIDE DEF d
  <1>4. time_add(acc, d) \in Stamps /\ Micros(time_add(acc, d)) = Micros(acc) + Micros(d)
    BY <1>1, <1>2, Sum
  <1> QED BY <1>2, <1>3, <1>4 DEF Accumulated, d

\* A timestamp is the time at which the counter was read.
LEMMA TimestampFacts ==
  ASSUME ClockTyped, Soon, NEW f \in Contexts, f.at = "pending", Asked(f)
  PROVE  Timestamp(f) \in Stamps /\ Micros(Timestamp(f)) = f.asked
  <1>1. f.counter \in 0..Frequency /\ f.asked \in Nat
    BY DEF Contexts
  <1>2. sec \in Nat /\ counter \in 0..Frequency /\ pending \in BOOLEAN
    BY DEF ClockTyped
  <1>3. Timestamp(f) = Stamp(IF pending /\ f.counter < Half THEN sec + 1 ELSE sec, f.counter)
    BY DEF Timestamp, Half
  <1>4. Timestamp(f) \in Stamps
    BY <1>1, <1>2, <1>3, FrequencyAssumption DEF Stamps, Stamp
  <1>5. CASE pending /\ f.counter < Half
    <2>1. Micros(Timestamp(f)) = Base + Frequency + f.counter
      BY <1>1, <1>2, <1>3, <1>5, BaseFacts DEF Stamp, Micros
    <2>2. Now = Base + Frequency + counter /\ f.asked <= Now /\ Now < f.asked + Half
      BY <1>2, <1>5, NowFacts DEF Asked
    <2>3. f.asked # Base + f.counter
      BY <1>1, <1>2, <1>5, <2>2, HalfFacts, BaseFacts
    <2> QED BY <1>4, <2>1, <2>3 DEF Asked
  <1>6. CASE ~(pending /\ f.counter < Half)
    <2>1. Micros(Timestamp(f)) = Base + f.counter
      BY <1>1, <1>2, <1>3, <1>6 DEF Stamp, Micros, Base
    <2> QED BY <1>4, <1>6, <2>1 DEF Asked
  <1> QED BY <1>5, <1>6

-----------------------------------------------------------------------------
(* Every step keeps the invariant *)

LEMMA QuiescentFacts ==
  /\ Quiescent \in Contexts /\ Quiescent.does = "nothing" /\ Quiescent.at = "none"
  <1>1. 0 \in 0..Frequency /\ {} \in SUBSET All
    BY FrequencyAssumption
  <1> QED BY <1>1 DEF Quiescent, Contexts

LEMMA ClockInitInv == ClockInit => ClockInv
  <1> SUFFICES ASSUME ClockInit PROVE ClockInv
    OBVIOUS
  <1>1. Quiescent \in Contexts
    BY QuiescentFacts
  <1>2. Stamp(0, 0) \in Stamps /\ 0 \in 0..Frequency /\ 0 \in Nat /\ 0 \in Int
    BY FrequencyAssumption DEF Stamp, Stamps
  <1>3. All \in SUBSET All /\ TRUE \in BOOLEAN /\ FALSE \in BOOLEAN
    OBVIOUS
  <1>4. ClockTyped
    BY <1>1, <1>2, <1>3 DEF ClockInit, ClockTyped
  <1> USE DEF ClockInit, Quiescent, Stamp, All
  <1>5. Soon /\ Control /\ Nested /\ Asked(main) /\ Asked(isr) /\ LoadRight
    BY DEF Soon, Control, Reading, InStats, Nested, Asked, LoadRight
  <1>6. Counted
    BY FrequencyAssumption DEF Counted, Stats, InStats, Micros
  <1> QED BY <1>4, <1>5, <1>6 DEF ClockInv

\* The timer counts on.
LEMMA TickStep == ClockInv /\ Tick => ClockInv'
  <1> SUFFICES ASSUME ClockInv, Tick PROVE ClockInv'
    OBVIOUS
  <1> USE DEF ClockInv
  <1>1. /\ sec' = sec /\ main' = main /\ isr' = isr /\ mask' = mask /\ inside' = inside
        /\ enter_count' = enter_count /\ acc' = acc /\ first_enter' = first_enter
        /\ load' = load /\ counting' = counting /\ measured' = measured
        /\ busy' = IF counting THEN busy + 1 ELSE busy
    BY DEF Tick, stats
  <1>2. counter' \in 0..Frequency /\ pending' \in BOOLEAN /\ (pending => pending')
    <2>1. counter \in 0..Frequency /\ pending \in BOOLEAN
      BY DEF ClockTyped
    <2>2. (counter' = 1 /\ pending' = TRUE) \/ (counter' = counter + 1 /\ counter # Frequency /\ pending' = pending)
      BY DEF Tick
    <2>3. counter' \in 0..Frequency
      BY <2>1, <2>2, FrequencyAssumption
    <2> QED BY <2>1, <2>2, <2>3
  <1>3. ClockTyped'
    <2>1. busy' \in Int
      BY <1>1 DEF ClockTyped
    <2> QED BY <1>1, <1>2, <2>1 DEF ClockTyped
  <1>4. Soon'
    <2>1. counter' = 1 \/ (counter' = counter + 1 /\ pending' = pending)
      BY DEF Tick
    <2>2. pending => counter + 1 < Half
      BY DEF Tick, Half
    <2>3. ASSUME pending' PROVE counter' < Half
      <3>1. counter' = 1 \/ (counter' = counter + 1 /\ pending)
        BY <2>1, <2>3
      <3> QED BY <2>2, <3>1, HalfFacts
    <2> QED BY <2>3 DEF Soon
  <1>5. Now' = Now + 1 /\ Now \in Nat
    <2>1. Base \in Nat /\ Base' = Base
      BY <1>1, BaseFacts DEF ClockTyped, Base
    <2>2. /\ Now \in Nat
          /\ pending => Now = Base + Frequency + counter
          /\ ~pending => Now = Base + counter
      BY NowFacts DEF ClockTyped
    <2>3. /\ pending' => Now' = Base + Frequency + counter'
          /\ ~pending' => Now' = Base + counter'
      BY <1>1, <1>2, <2>1, BaseFacts, FrequencyAssumption DEF ClockTyped, Now, Seconds, Base
    <2>4. CASE counter = Frequency
      <3>1. ~pending
        BY <2>4, HalfFacts DEF Tick, Half
      <3> QED BY <2>1, <2>2, <2>3, <2>4, <3>1, FrequencyAssumption DEF Tick
    <2>5. CASE counter # Frequency
      BY <2>1, <2>2, <2>3, <2>5, FrequencyAssumption DEF Tick, ClockTyped
    <2> QED BY <2>4, <2>5
  <1>6. ASSUME NEW f \in {main, isr}, f' = f, Asked(f) PROVE Asked(f)'
    <2> SUFFICES ASSUME f.at = "pending" PROVE Asked(f)'
      BY <1>6 DEF Asked
    <2>1. Now - f.asked + 1 < Half
      BY DEF Tick, Half
    <2>2. f.asked \in Nat
      BY DEF ClockTyped, Contexts
    <2>3. f.asked <= Now' /\ Now' < f.asked + Half
      BY <1>5, <2>1, <2>2, HalfFacts DEF Asked
    <2> QED BY <1>1, <1>2, <1>6, <2>3 DEF Asked, Base
  <1>7. Control' /\ Nested' /\ LoadRight'
    BY <1>1 DEF Control, Reading, InStats, Nested, LoadRight
  <1>8. Asked(main)' /\ Asked(isr)'
    BY <1>1, <1>6
  <1>9. Counted'
    <2>1. Stats' = Stats /\ Micros(acc)' = Micros(acc) /\ Micros(first_enter)' = Micros(first_enter)
      BY <1>1 DEF Stats, InStats, Micros
    <2>2. Micros(acc) \in Int /\ Micros(first_enter) \in Int /\ Stats.asked \in Nat /\ busy \in Int
      BY FrequencyAssumption DEF ClockTyped, Stats, Contexts, Stamps, Micros
    <2> QED BY <1>1, <1>5, <2>1, <2>2 DEF Counted
  <1> QED BY <1>3, <1>4, <1>7, <1>8, <1>9

\* What a step keeps of the time that has been asked for while the timer stands.
LEMMA Standing ==
  ASSUME ClockTyped, counter' = counter, pending' = pending, sec' = sec
  PROVE  /\ Now' = Now /\ Base' = Base /\ (Soon => Soon')
         /\ main' = main /\ Asked(main) => Asked(main)'
         /\ isr' = isr /\ Asked(isr) => Asked(isr)'
  <1>1. Now' = Now /\ Base' = Base
    BY DEF Now, Seconds, Base
  <1> QED BY <1>1 DEF Soon, Asked

LEMMA MainCallStep == ClockInv /\ (MainTime \/ MainEnter \/ MainLeave) => ClockInv'
  <1> SUFFICES ASSUME ClockInv, MainTime \/ MainEnter \/ MainLeave PROVE ClockInv'
    OBVIOUS
  <1>1. ClockTyped /\ Soon /\ Control /\ Nested /\ Asked(main) /\ Asked(isr) /\ Counted /\ LoadRight
    BY DEF ClockInv
  <1>2. /\ sec' = sec /\ isr' = isr /\ counter' = counter /\ pending' = pending
        /\ acc' = acc /\ first_enter' = first_enter
        /\ load' = load /\ counting' = counting /\ measured' = measured /\ busy' = busy
    BY DEF MainTime, MainEnter, MainLeave, hardware, stats, truth
  <1>3. main.does = "nothing" /\ isr.does = "nothing" /\ isr.at = "none"
    BY <1>1 DEF MainTime, MainEnter, MainLeave, Running, Control
  <1>4. PICK d \in {"time", "enter", "leave"}, s \in {{}, mask} :
          main' = [Quiescent EXCEPT !.does = d, !.at = "mask", !.saved = s]
    <2>1. CASE MainTime
      BY <2>1 DEF MainTime, Call
    <2>2. CASE MainEnter
      BY <2>2 DEF MainEnter, Call
    <2>3. CASE MainLeave
      BY <2>3 DEF MainLeave, Call
    <2> QED BY <2>1, <2>2, <2>3
  <1>5. main' \in Contexts /\ main'.does = d /\ main'.at = "mask"
    <2>1. s \in SUBSET All
      BY <1>1 DEF ClockTyped
    <2>2. d \in {"time", "enter", "leave", "tick"}
      OBVIOUS
    <2>3. 0 \in 0..Frequency /\ {} \in SUBSET All
      BY FrequencyAssumption
    <2> QED BY <1>4, <2>1, <2>2, <2>3 DEF Quiescent, Contexts
  <1>6. \/ /\ d = "time" /\ mask' = mask /\ inside' = inside /\ enter_count' = enter_count
        \/ /\ d = "enter" /\ mask' = {} /\ ~inside /\ inside' = TRUE /\ enter_count' = enter_count + 1
        \/ /\ d = "leave" /\ mask' = {} /\ inside /\ inside' = FALSE /\ enter_count' = enter_count - 1
    <2>1. CASE MainTime
      <3>1. main'.does = "time"
        BY <2>1 DEF MainTime, Call, Quiescent
      <3> QED BY <1>5, <2>1, <3>1 DEF MainTime, stats
    <2>2. CASE MainEnter
      <3>1. main'.does = "enter"
        BY <2>2 DEF MainEnter, Call, Quiescent
      <3> QED BY <1>5, <2>2, <3>1 DEF MainEnter
    <2>3. CASE MainLeave
      <3>1. main'.does = "leave"
        BY <2>3 DEF MainLeave, Call, Quiescent
      <3> QED BY <1>5, <2>3, <3>1 DEF MainLeave
    <2> QED BY <2>1, <2>2, <2>3
  <1>7. enter_count = IF inside THEN 1 ELSE 0
    BY <1>1, <1>3 DEF Nested
  <1>8. ClockTyped'
    <2>1. mask' \in SUBSET All /\ inside' \in BOOLEAN
      BY <1>1, <1>6 DEF ClockTyped
    <2>2. enter_count' \in Nat
      BY <1>1, <1>6, <1>7 DEF ClockTyped
    <2> QED BY <1>1, <1>2, <1>5, <2>1, <2>2 DEF ClockTyped
  <1>9. Soon' /\ Asked(isr)' /\ Now' = Now
    BY <1>1, <1>2, Standing
  <1>10. Asked(main)'
    BY <1>5 DEF Asked
  <1>11. Control'
    BY <1>1, <1>2, <1>3, <1>5, <1>6 DEF Control, Reading, InStats
  <1>12. Nested'
    BY <1>1, <1>2, <1>3, <1>5, <1>6, <1>7 DEF Nested, InStats
  <1>13. LoadRight'
    BY <1>1, <1>2 DEF LoadRight
  <1>14. Micros(acc)' = Micros(acc) /\ Micros(first_enter)' = Micros(first_enter)
    BY <1>2 DEF Micros
  <1>15. Stats = isr
    BY <1>3 DEF Stats, InStats
  <1>16. IF ~inside THEN ~counting /\ busy = Micros(acc)
                    ELSE counting /\ busy = Micros(acc) + Now - Micros(first_enter)
    BY <1>1, <1>3, <1>15 DEF Counted
  <1>17. Counted'
    <2>1. CASE d = "time"
      <3>1. Stats' = isr' /\ inside' = inside
        BY <1>5, <1>6, <2>1 DEF Stats, InStats
      <3> QED BY <1>2, <1>3, <1>9, <1>14, <1>16, <3>1 DEF Counted
    <2>2. CASE d # "time"
      <3>1. Stats' = main'
        BY <1>5, <2>2 DEF Stats, InStats
      <3> QED BY <1>2, <1>5, <1>6, <1>9, <1>14, <1>16, <2>2, <3>1 DEF Counted
    <2> QED BY <2>1, <2>2
  <1> QED BY <1>8, <1>9, <1>10, <1>11, <1>12, <1>13, <1>17 DEF ClockInv

\* The first step of time_get, in the main program and in the handler.
LEMMA MainMaskedStep == ClockInv /\ isr.does = "nothing" /\ isr' = isr /\ Masked(main) => ClockInv'
  <1> SUFFICES ASSUME ClockInv, isr.does = "nothing", isr' = isr, Masked(main) PROVE ClockInv'
    OBVIOUS
  <1>1. ClockTyped /\ Soon /\ Control /\ Nested /\ Asked(main) /\ Asked(isr) /\ Counted /\ LoadRight
    BY DEF ClockInv
  <1>2. /\ counter' = counter /\ pending' = pending /\ sec' = sec /\ inside' = inside
        /\ enter_count' = enter_count /\ acc' = acc /\ first_enter' = first_enter /\ load' = load
        /\ counting' = counting /\ busy' = busy /\ measured' = measured
        /\ mask' = mask \ {"timer"} /\ main.at = "mask"
    BY DEF Masked, hardware, stats, truth
  <1>3. main' \in Contexts /\ main'.does = main.does /\ main'.at = "counter"
    BY <1>1 DEF Masked, ClockTyped, Contexts
  <1>4. ClockTyped'
    <2>1. mask' \in SUBSET All
      BY <1>1, <1>2 DEF ClockTyped
    <2> QED BY <1>1, <1>2, <1>3, <2>1 DEF ClockTyped
  <1>5. Soon' /\ Asked(isr)' /\ Now' = Now
    BY <1>1, <1>2, Standing
  <1>6. Asked(main)'
    BY <1>3 DEF Asked
  <1>7. Control'
    BY <1>1, <1>2, <1>3 DEF Control, Reading, InStats
  <1>8. Nested' /\ LoadRight'
    BY <1>1, <1>2, <1>3 DEF Nested, InStats, LoadRight
  <1>9. Counted'
    <2>1. Micros(acc)' = Micros(acc) /\ Micros(first_enter)' = Micros(first_enter)
      BY <1>2 DEF Micros
    <2>2. Stats'.does = Stats.does /\ (Stats'.at = "pending" <=> Stats.at = "pending")
      BY <1>2, <1>3 DEF Stats, InStats
    <2>3. Stats.at # "pending"
      BY <1>1, <1>2 DEF Stats, InStats, Control
    <2> QED BY <1>1, <1>2, <1>5, <2>1, <2>2, <2>3 DEF Counted
  <1> QED BY <1>4, <1>5, <1>6, <1>7, <1>8, <1>9 DEF ClockInv

LEMMA IsrMaskedStep == ClockInv /\ main' = main /\ Masked(isr) => ClockInv'
  <1> SUFFICES ASSUME ClockInv, main' = main, Masked(isr) PROVE ClockInv'
    OBVIOUS
  <1>1. ClockTyped /\ Soon /\ Control /\ Nested /\ Asked(main) /\ Asked(isr) /\ Counted /\ LoadRight
    BY DEF ClockInv
  <1>2. /\ counter' = counter /\ pending' = pending /\ sec' = sec /\ inside' = inside
        /\ enter_count' = enter_count /\ acc' = acc /\ first_enter' = first_enter /\ load' = load
        /\ counting' = counting /\ busy' = busy /\ measured' = measured
        /\ mask' = mask \ {"timer"} /\ isr.at = "mask"
    BY DEF Masked, hardware, stats, truth
  <1>3. isr' \in Contexts /\ isr'.does = isr.does /\ isr'.at = "counter" /\ isr'.saved = isr.saved
    BY <1>1 DEF Masked, ClockTyped, Contexts
  <1>4. ClockTyped'
    <2>1. mask' \in SUBSET All
      BY <1>1, <1>2 DEF ClockTyped
    <2> QED BY <1>1, <1>2, <1>3, <2>1 DEF ClockTyped
  <1>5. Soon' /\ Asked(main)' /\ Now' = Now
    BY <1>1, <1>2, Standing
  <1>6. Asked(isr)'
    BY <1>3 DEF Asked
  <1>7. Control'
    BY <1>1, <1>2, <1>3 DEF Control, Reading, InStats
  <1>8. Nested' /\ LoadRight'
    BY <1>1, <1>2, <1>3 DEF Nested, InStats, LoadRight
  <1>9. Counted'
    <2>1. Micros(acc)' = Micros(acc) /\ Micros(first_enter)' = Micros(first_enter)
      BY <1>2 DEF Micros
    <2>2. Stats = isr /\ Stats' = isr'
      BY <1>1, <1>2 DEF Stats, InStats, Control
    <2> QED BY <1>1, <1>2, <1>3, <1>5, <2>1, <2>2 DEF Counted
  <1> QED BY <1>4, <1>5, <1>6, <1>7, <1>8, <1>9 DEF ClockInv

\* The reading of the counter: what is asked for is what the time is now.
LEMMA AskedNow ==
  ASSUME ClockTyped, Soon, counter' = counter, pending' = pending, sec' = sec, NEW f,
         f.asked = Now, f.counter = counter
  PROVE  /\ f.asked <= Now' /\ Now' < f.asked + Half
         /\ \/ f.asked = Base' + f.counter
            \/ f.asked = Base' + Frequency + f.counter /\ pending' /\ f.counter < Half
  <1>1. Now' = Now /\ Base' = Base
    BY Standing
  <1>2. /\ Now \in Nat
        /\ pending => Now = Base + Frequency + counter
        /\ ~pending => Now = Base + counter
    BY NowFacts DEF ClockTyped
  <1>3. f.asked <= Now' /\ Now' < f.asked + Half
    BY <1>1, <1>2, HalfFacts
  <1> QED BY <1>1, <1>2, <1>3 DEF Soon

LEMMA MainReadStep == ClockInv /\ isr.does = "nothing" /\ isr' = isr /\ ReadCounter(main) => ClockInv'
  <1> SUFFICES ASSUME ClockInv, isr.does = "nothing", isr' = isr, ReadCounter(main) PROVE ClockInv'
    OBVIOUS
  <1>1. ClockTyped /\ Soon /\ Control /\ Nested /\ Asked(main) /\ Asked(isr) /\ Counted /\ LoadRight
    BY DEF ClockInv
  <1>2. /\ counter' = counter /\ pending' = pending /\ sec' = sec /\ inside' = inside
        /\ enter_count' = enter_count /\ acc' = acc /\ first_enter' = first_enter /\ load' = load
        /\ mask' = mask /\ main.at = "counter"
    BY DEF ReadCounter, hardware, stats
  <1>3. main.does \in {"time", "enter", "leave"} /\ busy' = busy /\ measured' = measured
    BY <1>1, <1>2 DEF ReadCounter, Control
  <1>4. Now \in Nat
    BY <1>1, NowFacts DEF ClockTyped
  <1>5. /\ main' \in Contexts /\ main'.does = main.does /\ main'.at = "pending"
        /\ main'.asked = Now /\ main'.counter = counter
    BY <1>1, <1>4 DEF ReadCounter, ClockTyped, Contexts
  <1>6. /\ main.does = "time" => counting' = counting
        /\ main.does = "enter" => counting' = TRUE
        /\ main.does = "leave" => counting' = FALSE
    BY DEF ReadCounter
  <1>7. ClockTyped'
    <2>1. counting' \in BOOLEAN
      BY <1>1, <1>3, <1>6 DEF ClockTyped
    <2> QED BY <1>1, <1>2, <1>3, <1>5, <2>1 DEF ClockTyped
  <1>8. Soon' /\ Asked(isr)' /\ Now' = Now
    BY <1>1, <1>2, Standing
  <1>9. Asked(main)'
    BY <1>1, <1>2, <1>5, AskedNow DEF Asked
  <1>10. Control'
    BY <1>1, <1>2, <1>5 DEF Control, Reading, InStats
  <1>11. Nested' /\ LoadRight'
    BY <1>1, <1>2, <1>3, <1>5 DEF Nested, InStats, LoadRight
  <1>12. Counted'
    <2>1. Micros(acc)' = Micros(acc) /\ Micros(first_enter)' = Micros(first_enter)
      BY <1>2 DEF Micros
    <2>2. CASE main.does = "time"
      <3>1. Stats = isr /\ Stats' = isr
        BY <1>5, <2>2 DEF Stats, InStats
      <3> QED BY <1>1, <1>2, <1>3, <1>6, <1>8, <2>1, <2>2, <3>1 DEF Counted
    <2>3. CASE main.does # "time"
      <3>1. Stats = main /\ Stats' = main'
        BY <1>3, <1>5, <2>3 DEF Stats, InStats
      <3>2. Micros(acc) \in Int /\ Micros(first_enter) \in Int
        BY <1>1, FrequencyAssumption DEF ClockTyped, Stamps, Micros
      <3> QED BY <1>1, <1>2, <1>3, <1>4, <1>5, <1>6, <1>8, <2>1, <2>3, <3>1, <3>2 DEF Counted
    <2> QED BY <2>2, <2>3
  <1> QED BY <1>7, <1>8, <1>9, <1>10, <1>11, <1>12 DEF ClockInv

LEMMA IsrReadStep == ClockInv /\ main' = main /\ ReadCounter(isr) => ClockInv'
  <1> SUFFICES ASSUME ClockInv, main' = main, ReadCounter(isr) PROVE ClockInv'
    OBVIOUS
  <1>1. ClockTyped /\ Soon /\ Control /\ Nested /\ Asked(main) /\ Asked(isr) /\ Counted /\ LoadRight
    BY DEF ClockInv
  <1>2. /\ counter' = counter /\ pending' = pending /\ sec' = sec /\ inside' = inside
        /\ enter_count' = enter_count /\ acc' = acc /\ first_enter' = first_enter /\ load' = load
        /\ mask' = mask /\ isr.at = "counter"
    BY DEF ReadCounter, hardware, stats
  <1>3. isr.does \in {"tick", "enter", "leave"}
    BY <1>1, <1>2 DEF Control
  <1>4. Now \in Nat
    BY <1>1, NowFacts DEF ClockTyped
  <1>5. /\ isr' \in Contexts /\ isr'.does = isr.does /\ isr'.at = "pending"
        /\ isr'.asked = Now /\ isr'.counter = counter /\ isr'.saved = isr.saved
    BY <1>1, <1>4 DEF ReadCounter, ClockTyped, Contexts
  <1>6. /\ isr.does = "tick" => counting' = counting /\ measured' = busy /\ busy' = 0
        /\ isr.does = "enter" => counting' = TRUE /\ measured' = measured /\ busy' = busy
        /\ isr.does = "leave" => counting' = FALSE /\ measured' = measured /\ busy' = busy
    BY DEF ReadCounter
  <1>7. ClockTyped'
    <2>1. counting' \in BOOLEAN
      BY <1>1, <1>3, <1>6 DEF ClockTyped
    <2>2. busy' \in Int /\ measured' \in Int
      BY <1>1, <1>3, <1>6 DEF ClockTyped
    <2> QED BY <1>1, <1>2, <1>5, <2>1, <2>2 DEF ClockTyped
  <1>8. Soon' /\ Asked(main)' /\ Now' = Now
    BY <1>1, <1>2, Standing
  <1>9. Asked(isr)'
    BY <1>1, <1>2, <1>5, AskedNow DEF Asked
  <1>10. Control'
    BY <1>1, <1>2, <1>5 DEF Control, Reading, InStats
  <1>11. Nested' /\ LoadRight'
    BY <1>1, <1>2, <1>3, <1>5, <1>6 DEF Nested, InStats, LoadRight
  <1>12. Counted'
    <2>1. Micros(acc)' = Micros(acc) /\ Micros(first_enter)' = Micros(first_enter)
      BY <1>2 DEF Micros
    <2>2. Stats = isr /\ Stats' = isr'
      BY <1>1, <1>3 DEF Stats, InStats, Control
    <2>3. Micros(acc) \in Int /\ Micros(first_enter) \in Int
      BY <1>1, FrequencyAssumption DEF ClockTyped, Stamps, Micros
    <2> QED BY <1>1, <1>2, <1>3, <1>4, <1>5, <1>6, <1>8, <2>1, <2>2, <2>3 DEF Counted
  <1> QED BY <1>7, <1>8, <1>9, <1>10, <1>11, <1>12 DEF ClockInv

\* The last step, with the time that was asked for.
LEMMA MainDoneStep ==
  ASSUME ClockInv, isr.does = "nothing", isr' = isr, main' = Quiescent,
         counter' = counter, pending' = pending, sec' = sec, inside' = inside,
         counting' = counting, busy' = busy, measured' = measured,
         \/ GetTime(main) /\ mask' = main.oldmask
         \/ (EnterDone(main) \/ LeaveDone(main)) /\ mask' = main.saved
  PROVE  ClockInv'
  <1>1. ClockTyped /\ Soon /\ Control /\ Nested /\ Asked(main) /\ Asked(isr) /\ Counted /\ LoadRight
    BY DEF ClockInv
  <1>2. main.at = "pending" /\ enter_count' = enter_count /\ load' = load
    BY DEF GetTime, EnterDone, LeaveDone, stats
  <1>3. \/ main.does = "time" /\ acc' = acc /\ first_enter' = first_enter
        \/ main.does = "enter" /\ acc' = acc /\ first_enter' = Timestamp(main)
        \/ main.does = "leave" /\ acc' = Accumulated(Timestamp(main)) /\ first_enter' = first_enter
    BY DEF GetTime, EnterDone, LeaveDone, stats
  <1>4. main' \in Contexts /\ main'.does = "nothing" /\ main'.at = "none"
    BY QuiescentFacts
  <1>5. Timestamp(main) \in Stamps /\ Micros(Timestamp(main)) = main.asked /\ main.asked \in Nat
    <2>1. main \in Contexts /\ main.asked \in Nat
      BY <1>1 DEF ClockTyped, Contexts
    <2> QED BY <1>1, <1>2, <2>1, TimestampFacts
  <1>6. /\ Accumulated(Timestamp(main)) \in Stamps
        /\ Micros(Accumulated(Timestamp(main))) = Micros(acc) + main.asked - Micros(first_enter)
    BY <1>1, <1>5, AccumulatedFacts
  <1>7. ClockTyped'
    <2>1. acc' \in Stamps /\ first_enter' \in Stamps
      BY <1>1, <1>3, <1>5, <1>6 DEF ClockTyped
    <2>2. mask' \in SUBSET All
      BY <1>1 DEF ClockTyped, Contexts
    <2> QED BY <1>1, <1>2, <1>4, <2>1, <2>2 DEF ClockTyped
  <1>8. Soon' /\ Asked(isr)' /\ Now' = Now
    BY <1>1, Standing
  <1>9. Asked(main)'
    BY <1>4 DEF Asked
  <1>10. Control'
    BY <1>1, <1>4 DEF Control, Reading, InStats
  <1>11. Nested' /\ LoadRight'
    BY <1>1, <1>2, <1>4 DEF Nested, InStats, LoadRight
  <1>12. Counted'
    <2>1. Stats' = isr' /\ isr'.at = "none" /\ isr'.does = "nothing"
      BY <1>1, <1>4 DEF Stats, InStats, Control
    <2>2. SUFFICES IF inside THEN counting /\ busy = Micros(acc') + Now - Micros(first_enter')
                             ELSE ~counting /\ busy = Micros(acc')
      BY <1>8, <2>1 DEF Counted, Micros
    <2>3. Micros(acc) \in Int /\ Micros(first_enter) \in Int /\ Now \in Nat
      BY <1>1, NowFacts, FrequencyAssumption DEF ClockTyped, Stamps, Micros
    <2>4. CASE main.does = "time"
      <3>1. Stats = isr /\ acc' = acc /\ first_enter' = first_enter
        BY <1>3, <2>4 DEF Stats, InStats
      <3> QED BY <1>1, <2>1, <3>1 DEF Counted
    <2>5. CASE main.does = "enter"
      <3>1. Stats = main /\ inside /\ acc' = acc /\ Micros(first_enter') = main.asked
        BY <1>1, <1>3, <1>5, <2>5 DEF Stats, InStats, Nested
      <3> QED BY <1>1, <1>2, <2>3, <2>5, <3>1 DEF Counted
    <2>6. CASE main.does = "leave"
      <3>1. /\ Stats = main /\ ~inside
            /\ Micros(acc') = Micros(acc) + main.asked - Micros(first_enter)
        BY <1>1, <1>3, <1>6, <2>6 DEF Stats, InStats, Nested
      <3> QED BY <1>1, <1>2, <2>3, <2>6, <3>1 DEF Counted
    <2> QED BY <1>3, <2>4, <2>5, <2>6
  <1> QED BY <1>7, <1>8, <1>9, <1>10, <1>11, <1>12 DEF ClockInv

LEMMA MainSteps == ClockInv /\ MainStep => ClockInv'
  <1> SUFFICES ASSUME ClockInv, MainStep PROVE ClockInv'
    OBVIOUS
  <1>1. isr.does = "nothing" /\ isr' = isr
    BY DEF MainStep
  <1>2. CASE Masked(main)
    BY <1>1, <1>2, MainMaskedStep
  <1>3. CASE ReadCounter(main)
    BY <1>1, <1>3, MainReadStep
  <1>4. CASE GetTime(main) /\ mask' = main.oldmask /\ UNCHANGED <<hardware, sec, inside, truth>>
    BY <1>1, <1>4, MainDoneStep DEF GetTime, hardware, truth
  <1>5. CASE /\ EnterDone(main) \/ LeaveDone(main)
             /\ main' = Quiescent /\ mask' = main.saved
             /\ UNCHANGED <<hardware, sec, inside, truth>>
    BY <1>1, <1>5, MainDoneStep DEF hardware, truth
  <1> QED BY <1>2, <1>3, <1>4, <1>5 DEF MainStep

\* The handler begins; it is busy time, if the main program's part was not already.
LEMMA InterruptStep == ClockInv /\ Interrupt => ClockInv'
  <1> SUFFICES ASSUME ClockInv, Interrupt PROVE ClockInv'
    OBVIOUS
  <1>1. ClockTyped /\ Soon /\ Control /\ Nested /\ Asked(main) /\ Asked(isr) /\ Counted /\ LoadRight
    BY DEF ClockInv
  <1>2. /\ counter' = counter /\ pending' = pending /\ sec' = sec /\ inside' = inside
        /\ enter_count' = enter_count + 1 /\ acc' = acc /\ first_enter' = first_enter /\ load' = load
        /\ counting' = counting /\ busy' = busy /\ measured' = measured
        /\ main' = main /\ isr.does = "nothing" /\ mask # {}
    BY DEF Interrupt, hardware, truth
  <1>3. ~InStats(main) /\ isr.at = "none"
    BY <1>1, <1>2 DEF Control
  <1>4. enter_count = IF inside THEN 1 ELSE 0
    BY <1>1, <1>2 DEF Nested
  <1>5. \/ ~inside /\ isr'.does = "enter" /\ isr'.at = "mask" /\ isr'.saved = mask /\ mask' = {}
        \/ inside /\ isr'.does = "serve" /\ isr'.at = "none" /\ mask' = mask
    BY <1>1, <1>4 DEF Interrupt, Quiescent, ClockTyped
  <1>6. isr' \in Contexts
    <2>1. 0 \in 0..Frequency /\ {} \in SUBSET All /\ mask \in SUBSET All
      BY <1>1, FrequencyAssumption DEF ClockTyped
    <2> QED BY <2>1 DEF Interrupt, Quiescent, Contexts
  <1>7. ClockTyped'
    <2>1. mask' \in SUBSET All /\ enter_count' \in Nat
      BY <1>1, <1>2, <1>5 DEF ClockTyped
    <2> QED BY <1>1, <1>2, <1>6, <2>1 DEF ClockTyped
  <1>8. Soon' /\ Asked(main)' /\ Now' = Now
    BY <1>1, <1>2, Standing
  <1>9. Asked(isr)'
    BY <1>5 DEF Asked
  <1>10. Control'
    BY <1>1, <1>2, <1>3, <1>5 DEF Control, Reading, InStats
  <1>11. Nested'
    BY <1>1, <1>2, <1>3, <1>4, <1>5 DEF Nested, InStats
  <1>12. LoadRight'
    BY <1>1, <1>2 DEF LoadRight
  <1>13. Counted'
    <2>1. Micros(acc)' = Micros(acc) /\ Micros(first_enter)' = Micros(first_enter)
      BY <1>2 DEF Micros
    <2>2. Stats = isr /\ Stats' = isr'
      BY <1>2, <1>3 DEF Stats, InStats
    <2> QED BY <1>1, <1>2, <1>3, <1>5, <1>8, <2>1, <2>2 DEF Counted
  <1> QED BY <1>7, <1>8, <1>9, <1>10, <1>11, <1>12, <1>13 DEF ClockInv

\* time_isr: the second is counted when nobody is reading the time.
LEMMA SecondStep ==
  ClockInv /\ Serve /\ pending /\ "timer" \in mask => ClockInv'
  <1> SUFFICES ASSUME ClockInv, Serve, pending, "timer" \in mask PROVE ClockInv'
    OBVIOUS
  <1>1. ClockTyped /\ Soon /\ Control /\ Nested /\ Asked(main) /\ Asked(isr) /\ Counted /\ LoadRight
    BY DEF ClockInv
  <1>2. /\ counter' = counter /\ pending' = FALSE /\ sec' = sec + 1 /\ inside' = inside
        /\ enter_count' = enter_count /\ acc' = acc /\ first_enter' = first_enter /\ load' = load
        /\ counting' = counting /\ busy' = busy /\ measured' = measured
        /\ main' = main /\ mask' = mask /\ isr.does = "serve"
        /\ isr' = [isr EXCEPT !.does = "tick", !.at = "mask"]
    BY DEF Serve, stats, truth
  <1>3. isr' \in Contexts /\ isr'.does = "tick" /\ isr'.at = "mask"
    BY <1>1, <1>2 DEF ClockTyped, Contexts
  <1>4. ClockTyped'
    <2>1. sec' \in Nat
      BY <1>1, <1>2 DEF ClockTyped
    <2>2. pending' \in BOOLEAN
      BY <1>2
    <2> QED BY <1>1, <1>2, <1>3, <2>1, <2>2 DEF ClockTyped
  <1>5. Now' = Now /\ Soon'
    <2>1. sec' \in Nat /\ counter' \in 0..Frequency /\ pending' = FALSE
      BY <1>2, <1>4 DEF ClockTyped
    <2>2. Now = Base + Frequency + counter
      BY <1>1, NowFacts DEF ClockTyped
    <2>3. Now' = (sec + 1) * Frequency + counter
      BY <1>1, <1>2, FrequencyAssumption DEF ClockTyped, Now, Seconds
    <2> QED BY <1>1, <1>2, <2>2, <2>3, BaseFacts DEF ClockTyped, Soon
  <1>6. ~Reading(main) /\ ~InStats(main)
    BY <1>1, <1>2 DEF Control
  <1>7. Asked(main)' /\ Asked(isr)'
    BY <1>2, <1>3, <1>6 DEF Asked, Reading
  <1>8. Control'
    BY <1>1, <1>2, <1>3, <1>6 DEF Control, Reading, InStats
  <1>9. Nested' /\ LoadRight'
    BY <1>1, <1>2, <1>3 DEF Nested, InStats, LoadRight
  <1>10. Counted'
    <2>1. Micros(acc)' = Micros(acc) /\ Micros(first_enter)' = Micros(first_enter)
      BY <1>2 DEF Micros
    <2>2. Stats = isr /\ Stats' = isr' /\ isr.at = "none"
      BY <1>1, <1>2, <1>6 DEF Stats, InStats, Control
    <2> QED BY <1>1, <1>2, <1>3, <1>5, <2>1, <2>2 DEF Counted
  <1> QED BY <1>4, <1>5, <1>7, <1>8, <1>9, <1>10 DEF ClockInv

\* The handler ends.
LEMMA ServedStep ==
  ClockInv /\ Serve /\ ~(pending /\ "timer" \in mask) => ClockInv'
  <1> SUFFICES ASSUME ClockInv, Serve, ~(pending /\ "timer" \in mask) PROVE ClockInv'
    OBVIOUS
  <1>1. ClockTyped /\ Soon /\ Control /\ Nested /\ Asked(main) /\ Asked(isr) /\ Counted /\ LoadRight
    BY DEF ClockInv
  <1>2. /\ counter' = counter /\ pending' = pending /\ sec' = sec /\ inside' = inside
        /\ enter_count' = enter_count - 1 /\ acc' = acc /\ first_enter' = first_enter /\ load' = load
        /\ counting' = counting /\ busy' = busy /\ measured' = measured
        /\ main' = main /\ isr.does = "serve"
    BY DEF Serve, truth
  <1>3. isr.at = "none" /\ ~InStats(main) /\ enter_count = (IF inside THEN 1 ELSE 0) + 1
    BY <1>1, <1>2 DEF Control, Nested
  <1>4. \/ /\ ~inside /\ mask' = {} /\ isr'.does = "leave" /\ isr'.at = "mask" /\ isr'.saved = mask
           /\ isr' \in Contexts
        \/ /\ inside /\ mask' = mask /\ isr'.does = "nothing" /\ isr'.at = "none"
           /\ isr' \in Contexts
    <2>1. CASE inside
      BY <1>3, <2>1, QuiescentFacts DEF Serve
    <2>2. CASE ~inside
      <3>1. isr' = [isr EXCEPT !.does = "leave", !.at = "mask", !.saved = mask] /\ mask' = {}
        BY <1>3, <2>2 DEF Serve
      <3> QED BY <1>1, <2>2, <3>1 DEF ClockTyped, Contexts
    <2> QED BY <2>1, <2>2
  <1>5. ClockTyped'
    <2>1. mask' \in SUBSET All
      BY <1>1, <1>4 DEF ClockTyped
    <2>2. enter_count' \in Nat
      BY <1>2, <1>3
    <2> QED BY <1>1, <1>2, <1>4, <2>1, <2>2 DEF ClockTyped
  <1>6. Soon' /\ Asked(main)' /\ Now' = Now
    BY <1>1, <1>2, Standing
  <1>7. Asked(isr)'
    BY <1>4 DEF Asked
  <1>8. Control'
    BY <1>1, <1>2, <1>3, <1>4 DEF Control, Reading, InStats
  <1>9. Nested'
    BY <1>1, <1>2, <1>3, <1>4 DEF Nested, InStats
  <1>10. LoadRight'
    BY <1>1, <1>2 DEF LoadRight
  <1>11. Counted'
    <2>1. Micros(acc)' = Micros(acc) /\ Micros(first_enter)' = Micros(first_enter)
      BY <1>2 DEF Micros
    <2>2. Stats = isr /\ Stats' = isr'
      BY <1>2, <1>3 DEF Stats, InStats
    <2> QED BY <1>1, <1>2, <1>3, <1>4, <1>6, <2>1, <2>2 DEF Counted
  <1> QED BY <1>5, <1>6, <1>7, <1>8, <1>9, <1>10, <1>11 DEF ClockInv

LEMMA IsrDoneStep ==
  ASSUME ClockInv, main' = main, counter' = counter, pending' = pending, sec' = sec,
         inside' = inside, counting' = counting, busy' = busy, measured' = measured,
         \/ EnterDone(isr) /\ mask' = isr.saved /\ isr' = [Quiescent EXCEPT !.does = "serve"]
         \/ TickDone(isr) /\ mask' = isr.oldmask /\ isr' = [Quiescent EXCEPT !.does = "serve"]
         \/ LeaveDone(isr) /\ mask' = isr.saved /\ isr' = Quiescent
  PROVE  ClockInv'
  <1>1. ClockTyped /\ Soon /\ Control /\ Nested /\ Asked(main) /\ Asked(isr) /\ Counted /\ LoadRight
    BY DEF ClockInv
  <1>2. isr.at = "pending" /\ enter_count' = enter_count
    BY DEF TickDone, EnterDone, LeaveDone
  <1> DEFINE now == Timestamp(isr)
  <1>3. now \in Stamps /\ Micros(now) = isr.asked /\ isr.asked \in Nat
    <2>1. isr \in Contexts /\ isr.asked \in Nat
      BY <1>1 DEF ClockTyped, Contexts
    <2> QED BY <1>1, <1>2, <2>1, TimestampFacts
  <1>4. /\ Accumulated(now) \in Stamps
        /\ Micros(Accumulated(now)) = Micros(acc) + isr.asked - Micros(first_enter)
    BY <1>1, <1>3, AccumulatedFacts
  <1>5. \/ /\ isr.does = "enter" /\ acc' = acc /\ first_enter' = now /\ load' = load
           /\ mask' = isr.saved /\ isr'.does = "serve"
        \/ /\ isr.does = "tick" /\ acc' = Stamp(0, 0) /\ first_enter' = now
           /\ load' = Micros(Accumulated(now)) /\ mask' = isr.oldmask /\ isr'.does = "serve"
        \/ /\ isr.does = "leave" /\ acc' = Accumulated(now) /\ first_enter' = first_enter
           /\ load' = load /\ mask' = isr.saved /\ isr'.does = "nothing"
    BY QuiescentFacts DEF TickDone, EnterDone, LeaveDone, Quiescent, Micros
  <1>6. isr' \in Contexts /\ isr'.at = "none"
    <2>1. 0 \in 0..Frequency /\ {} \in SUBSET All
      BY FrequencyAssumption
    <2> QED BY <2>1, QuiescentFacts DEF Quiescent, Contexts
  <1>7. Stamp(0, 0) \in Stamps /\ Micros(Stamp(0, 0)) = 0
    BY FrequencyAssumption DEF Stamp, Stamps, Micros
  <1>8. Micros(acc) \in Int /\ Micros(first_enter) \in Int /\ Now \in Nat
    BY <1>1, NowFacts, FrequencyAssumption DEF ClockTyped, Stamps, Micros
  <1> HIDE DEF now
  <1>9. ClockTyped'
    <2>1. acc' \in Stamps /\ first_enter' \in Stamps
      BY <1>1, <1>3, <1>4, <1>5, <1>7 DEF ClockTyped
    <2>2. mask' \in SUBSET All
      BY <1>1, <1>5 DEF ClockTyped, Contexts
    <2>3. load' \in Int
      BY <1>1, <1>3, <1>4, <1>5, <1>8 DEF ClockTyped
    <2> QED BY <1>1, <1>2, <1>6, <2>1, <2>2, <2>3 DEF ClockTyped
  <1>10. Soon' /\ Asked(main)' /\ Now' = Now
    BY <1>1, Standing
  <1>11. Asked(isr)'
    BY <1>6 DEF Asked
  <1>12. ~InStats(main) /\ (Reading(main) => isr.does # "tick" /\ "timer" \notin isr.saved)
    BY <1>1, <1>2, <1>5 DEF Control, InStats
  <1>13. Control'
    BY <1>1, <1>5, <1>6, <1>12 DEF Control, Reading, InStats
  <1>14. Nested'
    BY <1>1, <1>2, <1>5 DEF Nested, InStats
  <1>15. Stats = isr
    BY <1>12 DEF Stats
  <1>16. LoadRight'
    <2>1. CASE isr.does = "tick"
      <3>1. measured = Micros(acc) + isr.asked - Micros(first_enter)
        BY <1>1, <1>2, <1>15, <2>1 DEF Counted
      <3> QED BY <1>4, <1>5, <2>1, <3>1 DEF LoadRight
    <2>2. CASE isr.does # "tick"
      BY <1>1, <1>5, <2>2 DEF LoadRight
    <2> QED BY <2>1, <2>2
  <1>17. Counted'
    <2>1. Stats' = isr'
      BY <1>12 DEF Stats, InStats
    <2>2. SUFFICES IF isr'.does = "nothing" /\ ~inside
                   THEN ~counting /\ busy = Micros(acc')
                   ELSE counting /\ busy = Micros(acc') + Now - Micros(first_enter')
      BY <1>5, <1>6, <1>10, <2>1 DEF Counted, Micros
    <2>3. CASE isr.does = "enter"
      BY <1>1, <1>2, <1>3, <1>5, <1>8, <1>15, <2>3 DEF Counted
    <2>4. CASE isr.does = "tick"
      BY <1>1, <1>2, <1>3, <1>5, <1>7, <1>8, <1>15, <2>4 DEF Counted
    <2>5. CASE isr.does = "leave"
      <3>1. ~inside
        BY <1>1, <2>5 DEF Nested, InStats
      <3> QED BY <1>1, <1>2, <1>3, <1>4, <1>5, <1>8, <1>15, <2>5, <3>1 DEF Counted
    <2> QED BY <1>5, <2>3, <2>4, <2>5
  <1> QED BY <1>9, <1>10, <1>11, <1>13, <1>14, <1>16, <1>17 DEF ClockInv

LEMMA IsrSteps == ClockInv /\ IsrStep => ClockInv'
  <1> SUFFICES ASSUME ClockInv, IsrStep PROVE ClockInv'
    OBVIOUS
  <1>1. main' = main
    BY DEF IsrStep
  <1>2. CASE Masked(isr)
    BY <1>1, <1>2, IsrMaskedStep
  <1>3. CASE ReadCounter(isr)
    BY <1>1, <1>3, IsrReadStep
  <1>4. CASE ~Masked(isr) /\ ~ReadCounter(isr)
    BY <1>1, <1>4, IsrDoneStep DEF IsrStep, hardware, truth
  <1> QED BY <1>2, <1>3, <1>4

LEMMA ClockStep == ClockInv /\ [ClockNext]_clockVars => ClockInv'
  <1> SUFFICES ASSUME ClockInv, [ClockNext]_clockVars PROVE ClockInv'
    OBVIOUS
  <1>1. CASE UNCHANGED clockVars
    BY <1>1 DEF clockVars, ClockInv, ClockTyped, Soon, Control, Reading, InStats, Nested, Asked,
                Now, Seconds, Base, Counted, Stats, Micros, LoadRight
  <1>2. CASE Serve
    BY <1>2, SecondStep, ServedStep
  <1> QED BY <1>1, <1>2, TickStep, MainCallStep, MainSteps, InterruptStep, IsrSteps
          DEF ClockNext

LEMMA ClockInvariant == ClockSpec => []ClockInv
  BY ClockInitInv, ClockStep, PTL DEF ClockSpec

LEMMA ClockEnough == ClockInv => TimeRight /\ LoadRight
  <1> SUFFICES ASSUME ClockInv PROVE TimeRight
    BY DEF ClockInv
  <1> SUFFICES ASSUME NEW f \in {main, isr}, f.at = "pending"
               PROVE  Timestamp(f).sec * Frequency + Timestamp(f).usec = f.asked
    BY DEF TimeRight
  <1>1. ClockTyped /\ Soon /\ f \in Contexts /\ Asked(f)
    BY DEF ClockInv, ClockTyped
  <1> QED BY <1>1, TimestampFacts DEF Micros

-----------------------------------------------------------------------------
(* Theorems *)

\* TimeRight always holds, for every frequency of the timer: time_get returns the time at
\* which it read the counter, wherever the overflow and the interrupts come in between.
THEOREM TimeIsRight == ClockSpec => []TimeRight
  BY ClockInvariant, ClockEnough, PTL

\* LoadRight always holds: what cpustats_tick reports for a second is the time in it in which
\* the main program was between cpustats_enter and cpustats_leave or the handler ran.
THEOREM LoadIsRight == ClockSpec => []LoadRight
  BY ClockInvariant, ClockEnough, PTL

-----------------------------------------------------------------------------
(* The slow outputs *)

SlowSpec == SlowInit /\ [][SlowNext]_slowVars

Nibbles == Nat \X {"none", "select", "high", "low"}
Ops == [enable : BOOLEAN, nibble : Nibbles]
Places == 0..(OPQ_SIZE - 1)
Displays == [bits : {4, 8}, held : Nibbles, took : Nat, confused : BOOLEAN]

Senders == {"main", "isr"}

SlowTyped ==
  /\ opq \in [Places -> Ops] /\ produce \in Places /\ consume \in Places
  /\ level \in 0..OPQ_SIZE /\ pins \in Ops /\ display \in Displays
  /\ todo \in [Senders -> Seq(Ops)] /\ sent \in Nat /\ due \in Seq(Ops)

\* The place of the ring that is n behind c.
Place(c, n) == IF c + n < OPQ_SIZE THEN c + n ELSE c + n - OPQ_SIZE

\* How many operations the main program has accepted and not counted yet, and how many it has
\* gone past.
Uncounted == IF queueing \in {"produce", "level"} THEN 1 ELSE 0
Passed == IF queueing = "level" THEN 1 ELSE 0

\* The ring holds what is due, and the first of it is under way.
Due ==
  /\ Len(due) = level + Uncounted
  /\ produce = Place(consume, level + Passed)
  /\ \A i \in 1..Len(due) : due[i] = opq[Place(consume, i - 1)]
  /\ queueing \in {"cts", "start"} => opq[produce] = Head(todo["main"])
  /\ queueing \in {"cts", "start", "produce", "level"} => level < OPQ_SIZE
  /\ due # <<>> => pins = due[1]

\* Who is where: slowout_isr does not come inside slowout_queue.
SlowCalls ==
  /\ im1 <=> queueing = "no"
  /\ queueing # "no" => handler # "serve" /\ ~(handler = "tick" /\ irq1)
  /\ queueing \in {"test", "cts", "start"} => todo["main"] # <<>>
  /\ todo["isr"] # <<>> => handler \in {"tick", "key"} /\ queueing = "no"

\* What is due is under way, has ended or is being ended.
SlowTimer ==
  /\ queueing = "start" => ~cts /\ due = <<>>
  /\ queueing # "start" => (cts <=> due = <<>>)
  /\ due # <<>> => timer1 = "on" \/ ip1 \/ handler = "serve"
  /\ due = <<>> => timer1 = "off" /\ ~ip1 /\ handler # "serve"
  /\ ip1 => timer1 = "off"
  /\ handler = "serve" => timer1 = "off" /\ ~ip1
  /\ handler = "tick" /\ irq1 => ip1

\* One of the two sends at a time, and these are the operations left of its byte.
OneSends == todo["main"] = <<>> \/ todo["isr"] = <<>>
Left == IF todo["main"] = <<>> THEN todo["isr"] ELSE todo["main"]

\* The operations of all bytes are numbered from 1; the selection of 4 bits are the three in
\* front of them, of which the last one has number 0.
Operation(k) ==
  IF k <= 0 THEN Op(k = -1, Select)
  ELSE Op(k % 3 = 2, <<(k + 5) \div 6, IF (k + 5) % 6 < 3 THEN "high" ELSE "low">>)

\* The number of the one on the pins.
OnPins == 6 * sent - Len(Left) - Len(due) + (IF due = <<>> THEN 0 ELSE 1)

\* What a display d has taken after k operations.
Shown(d, k) ==
  /\ d.bits = IF k < 0 THEN 8 ELSE 4
  /\ d.held = IF k > 0 /\ k % 6 >= 3 THEN <<(k + 5) \div 6, "high">> ELSE NoNibble
  /\ d.took = IF k < 0 THEN 0 ELSE k \div 6
  /\ ~d.confused

\* As long as none was refused, the operations follow one another.
Follow ==
  /\ OnPins >= -3
  /\ \A i \in 1..Len(Left) : Left[i] = Operation(6 * sent - Len(Left) + i)
  /\ \A i \in 1..Len(due) : due[i] = Operation(6 * sent - Len(Left) - Len(due) + i)
  /\ pins.enable <=> Operation(OnPins).enable
  /\ pins.enable => pins.nibble = Operation(OnPins).nibble
  /\ Shown(display, OnPins)

\* All of it until the handler has sent inside slowout_queue, and the bytes as long as none was
\* split.
SlowGood ==
  /\ SlowTyped /\ Due /\ SlowCalls /\ SlowTimer
  /\ ~split => OneSends
  /\ ~split /\ ~refused => Follow
SlowInv == (entered => split) /\ (~entered => SlowGood)

\* Going round the ring.
LEMMA RoundPlace ==
  ASSUME NEW c \in Places
  PROVE  (c + 1) % OPQ_SIZE \in Places /\ (c + 1) % OPQ_SIZE = Place(c, 1)
  <1> DEFINE N == OPQ_SIZE
  <1>1. N \in Nat \ {0} /\ c \in 0..(N - 1)
    BY SlowoutAssumption DEF Places
  <1> HIDE DEF N
  <1>2. CASE c + 1 < N
    <2>1. (c + 1) % N = c + 1
      BY <1>1, <1>2
    <2> QED BY <1>1, <1>2, <2>1 DEF Places, Place, N
  <1>3. CASE c + 1 = N
    <2>1. N % N = 0
      BY <1>1
    <2> QED BY <1>1, <1>3, <2>1 DEF Places, Place, N
  <1> QED BY <1>1, <1>2, <1>3

LEMMA PlaceFacts ==
  ASSUME NEW c \in Places, NEW n \in 0..OPQ_SIZE
  PROVE  /\ Place(c, n) \in Places
         /\ n < OPQ_SIZE => Place(Place(c, 1), n) = Place(c, n + 1)
         /\ n < OPQ_SIZE => Place(Place(c, n), 1) = Place(c, n + 1)
         /\ \A m \in 0..(n - 1) : n < OPQ_SIZE => Place(c, m) # Place(c, n)
  BY SlowoutAssumption DEF Places, Place

LEMMA OperationTypes == \A k \in Int : Operation(k) \in Ops
  <1> SUFFICES ASSUME NEW k \in Int PROVE Operation(k) \in Ops
    OBVIOUS
  <1>1. CASE k <= 0
    BY <1>1 DEF Operation, Op, Select, Ops, Nibbles
  <1>2. CASE k > 0
    <2>1. (k + 5) \div 6 \in Nat
      BY <1>2
    <2> QED BY <1>2, <2>1 DEF Operation, Op, Ops, Nibbles
  <1> QED BY <1>1, <1>2

\* A byte is six operations, the selection three.
LEMMA PulseFacts ==
  ASSUME NEW b \in Nibbles
  PROVE  /\ Pulse(b) \in Seq(Ops) /\ Len(Pulse(b)) = 3
         /\ \A i \in 1..3 : Pulse(b)[i] = Op(i = 2, b)
  <1>1. Op(TRUE, b) \in Ops /\ Op(FALSE, b) \in Ops
    BY DEF Op, Ops
  <1> DEFINE up == Op(TRUE, b)
             down == Op(FALSE, b)
  <1>2. Pulse(b) = <<down, up, down>>
    BY DEF Pulse
  <1>3. Op(1 = 2, b) = down /\ Op(2 = 2, b) = up /\ Op(3 = 2, b) = down
    <2>1. (1 = 2) = FALSE /\ (2 = 2) = TRUE /\ (3 = 2) = FALSE
      OBVIOUS
    <2> QED BY ONLY <2>1 DEF up, down
  <1>4. up \in Ops /\ down \in Ops
    BY <1>1
  <1> HIDE DEF up, down
  <1>5. Pulse(b) \in Seq(Ops) /\ Len(Pulse(b)) = 3
    BY <1>2, <1>4
  <1>6. Pulse(b)[1] = down /\ Pulse(b)[2] = up /\ Pulse(b)[3] = down
    BY <1>2
  <1>7. ASSUME NEW i \in 1..3 PROVE Pulse(b)[i] = Op(i = 2, b)
    <2>1. i = 1 \/ i = 2 \/ i = 3
      OBVIOUS
    <2> QED BY <2>1, <1>3, <1>6
  <1> QED BY <1>5, <1>7

LEMMA SelectOperation ==
  ASSUME NEW k \in Int, k <= 0
  PROVE  (Operation(k).enable <=> k = -1) /\ Operation(k).nibble = Select
  <1>1. Operation(k) = Op(k = -1, Select)
    BY DEF Operation
  <1>2. Op(k = -1, Select).enable <=> k = -1
    BY Zenon DEF Op
  <1>3. Op(k = -1, Select).nibble = Select
    BY Zenon DEF Op
  <1> QED BY <1>1, <1>2, <1>3

LEMMA ByteOperation ==
  ASSUME NEW k \in Int, k > 0
  PROVE  /\ Operation(k).enable <=> k % 3 = 2
         /\ (k + 5) % 6 < 3 => Operation(k).nibble = <<(k + 5) \div 6, "high">>
         /\ ~((k + 5) % 6 < 3) => Operation(k).nibble = <<(k + 5) \div 6, "low">>
  <1> DEFINE half == <<(k + 5) \div 6, IF (k + 5) % 6 < 3 THEN "high" ELSE "low">>
  <1>1. Operation(k) = Op(k % 3 = 2, half)
    BY DEF Operation
  <1>2. Op(k % 3 = 2, half).enable <=> k % 3 = 2
    BY Zenon DEF Op
  <1>3. Op(k % 3 = 2, half).nibble = half
    BY Zenon DEF Op
  <1>4. (k + 5) % 6 < 3 => half = <<(k + 5) \div 6, "high">>
    BY Zenon
  <1>5. ~((k + 5) % 6 < 3) => half = <<(k + 5) \div 6, "low">>
    BY Zenon
  <1> HIDE DEF half
  <1> QED BY <1>1, <1>2, <1>3, <1>4, <1>5

LEMMA SelectFacts ==
  /\ Pulse(Select) \in Seq(Ops) /\ Len(Pulse(Select)) = 3
  /\ \A i \in 1..3 : Pulse(Select)[i] = Operation(i - 3)
  <1>1. Select \in Nibbles
    BY DEF Select, Nibbles
  <1>2. ASSUME NEW i \in 1..3 PROVE Operation(i - 3) = Op(i = 2, Select)
    <2>1. i - 3 <= 0
      OBVIOUS
    <2>2. Operation(i - 3) = Op(i - 3 = -1, Select)
      BY <2>1 DEF Operation
    <2>3. (i - 3 = -1) = (i = 2)
      OBVIOUS
    <2> QED BY ONLY <2>2, <2>3
  <1> QED BY <1>1, <1>2, PulseFacts

LEMMA ByteFacts ==
  ASSUME NEW n \in Nat
  PROVE  /\ SendByte(n + 1) \in Seq(Ops) /\ Len(SendByte(n + 1)) = 6
         /\ \A i \in 1..6 : SendByte(n + 1)[i] = Operation(6 * n + i)
  <1> DEFINE h == Pulse(<<n + 1, "high">>)
             l == Pulse(<<n + 1, "low">>)
  <1>1. <<n + 1, "high">> \in Nibbles /\ <<n + 1, "low">> \in Nibbles
    BY DEF Nibbles
  <1>2. /\ h \in Seq(Ops) /\ Len(h) = 3 /\ \A i \in 1..3 : h[i] = Op(i = 2, <<n + 1, "high">>)
        /\ l \in Seq(Ops) /\ Len(l) = 3 /\ \A i \in 1..3 : l[i] = Op(i = 2, <<n + 1, "low">>)
    BY <1>1, PulseFacts
  <1> HIDE DEF h, l
  <1>3. SendByte(n + 1) = h \o l
    BY DEF SendByte, h, l
  <1>4. /\ h \o l \in Seq(Ops) /\ Len(h \o l) = 6
        /\ \A i \in 1..3 : (h \o l)[i] = h[i]
        /\ \A i \in 4..6 : (h \o l)[i] = l[i - 3]
    <2>1. /\ h \o l \in Seq(Ops) /\ Len(h \o l) = Len(h) + Len(l)
          /\ \A i \in 1..(Len(h) + Len(l)) :
               (h \o l)[i] = IF i <= Len(h) THEN h[i] ELSE l[i - Len(h)]
      <3>1. h \in Seq(Ops) /\ l \in Seq(Ops)
        BY <1>2
      <3> QED BY ONLY <3>1, ConcatProperties, Zenon
    <2>2. Len(h) + Len(l) = 6 /\ Len(h) = 3
      BY <1>2
    <2> QED BY <2>1, <2>2
  <1>5. ASSUME NEW i \in 1..6, i <= 3
        PROVE  Operation(6 * n + i) = Op(i = 2, <<n + 1, "high">>)
    <2> DEFINE k == 6 * n + i
    <2>1. k > 0 /\ (k + 5) \div 6 = n + 1 /\ (k + 5) % 6 < 3
      BY <1>5
    <2>2. (k % 3 = 2) = (i = 2)
      BY <1>5
    <2>3. Operation(k) = Op(k % 3 = 2, <<n + 1, "high">>)
      BY <2>1 DEF Operation
    <2> HIDE DEF k
    <2>4. Operation(k) = Op(i = 2, <<n + 1, "high">>)
      BY ONLY <2>2, <2>3
    <2> QED BY <2>4 DEF k
  <1>6. ASSUME NEW i \in 1..6, i > 3
        PROVE  Operation(6 * n + i) = Op(i - 3 = 2, <<n + 1, "low">>)
    <2> DEFINE k == 6 * n + i
    <2>1. k > 0 /\ (k + 5) \div 6 = n + 1 /\ ~((k + 5) % 6 < 3)
      BY <1>6
    <2>2. (k % 3 = 2) = (i - 3 = 2)
      BY <1>6
    <2>3. Operation(k) = Op(k % 3 = 2, <<n + 1, "low">>)
      BY <2>1 DEF Operation
    <2> HIDE DEF k
    <2>4. Operation(k) = Op(i - 3 = 2, <<n + 1, "low">>)
      BY ONLY <2>2, <2>3
    <2> QED BY <2>4 DEF k
  <1>7. ASSUME NEW i \in 1..6 PROVE SendByte(n + 1)[i] = Operation(6 * n + i)
    <2>1. CASE i <= 3
      <3>1. i \in 1..3
        BY <2>1
      <3>2. (h \o l)[i] = h[i] /\ h[i] = Op(i = 2, <<n + 1, "high">>)
        BY <1>2, <1>4, <3>1, Zenon
      <3>3. Operation(6 * n + i) = Op(i = 2, <<n + 1, "high">>)
        BY <1>5, <2>1
      <3> QED BY ONLY <1>3, <3>2, <3>3
    <2>2. CASE i > 3
      <3>1. i \in 4..6 /\ i - 3 \in 1..3
        BY <2>2
      <3>2. (h \o l)[i] = l[i - 3] /\ l[i - 3] = Op(i - 3 = 2, <<n + 1, "low">>)
        BY <1>2, <1>4, <3>1, Zenon
      <3>3. Operation(6 * n + i) = Op(i - 3 = 2, <<n + 1, "low">>)
        BY <1>6, <2>2
      <3> QED BY ONLY <1>3, <3>2, <3>3
    <2> QED BY <2>1, <2>2
  <1> QED BY <1>3, <1>4, <1>7

\* What taking a nibble does to the display.
LEMMA TakenFacts ==
  ASSUME display \in Displays, NEW n \in Nibbles
  PROVE  /\ Taken(n) \in Displays
         /\ n = Select /\ display.bits = 8 =>
              /\ Taken(n).bits = 4 /\ (Taken(n).confused => display.confused)
              /\ Taken(n).held = display.held /\ Taken(n).took = display.took
         /\ n # Select /\ display.held = NoNibble =>
              /\ Taken(n).bits = display.bits /\ (Taken(n).confused => display.confused)
              /\ Taken(n).held = n /\ Taken(n).took = display.took
         /\ /\ n # Select /\ display.held # NoNibble
            /\ display.held = <<display.took + 1, "high">> /\ n = <<display.took + 1, "low">>
            => /\ Taken(n).bits = display.bits /\ (Taken(n).confused => display.confused)
               /\ Taken(n).held = NoNibble /\ Taken(n).took = display.took + 1
  <1> DEFINE Wrong == \/ display.held # <<display.took + 1, "high">>
                      \/ n # <<display.took + 1, "low">>
  <1>0. NoNibble \in Nibbles /\ display.took + 1 \in Nat
    BY DEF NoNibble, Nibbles, Displays
  <1>1. CASE n = Select
    <2>1. Taken(n) = [display EXCEPT !.bits = 4, !.confused = @ \/ display.bits # 8]
      BY <1>1 DEF Taken
    <2>2. (display.confused \/ display.bits # 8) \in BOOLEAN
      OBVIOUS
    <2> DEFINE c == display.confused \/ display.bits # 8
    <2>3. display.bits = 8 => (c => display.confused)
      OBVIOUS
    <2> HIDE DEF c
    <2>4. Taken(n) = [display EXCEPT !.bits = 4, !.confused = c]
      BY <2>1 DEF c
    <2>5. c \in BOOLEAN
      BY <2>2 DEF c
    <2> QED BY <1>1, <2>3, <2>4, <2>5 DEF Displays
  <1>2. CASE n # Select /\ display.held = NoNibble
    <2>1. Taken(n) = [display EXCEPT !.held = n]
      BY <1>2 DEF Taken
    <2> QED BY <1>2, <2>1 DEF Displays
  <1>3. CASE n # Select /\ display.held # NoNibble
    <2> DEFINE c == display.confused \/ Wrong
    <2>1. Taken(n) = [display EXCEPT !.held = NoNibble, !.took = @ + 1, !.confused = c]
      BY <1>3 DEF Taken
    <2>2. c \in BOOLEAN /\ (~Wrong => (c => display.confused))
      OBVIOUS
    <2> HIDE DEF c, Wrong
    <2>3. Taken(n) \in Displays /\ Taken(n).bits = display.bits /\ Taken(n).confused = c
          /\ Taken(n).held = NoNibble /\ Taken(n).took = display.took + 1
      BY <1>0, <2>1, <2>2 DEF Displays
    <2> QED BY <1>3, <2>2, <2>3 DEF Wrong
  <1> QED BY <1>1, <1>2, <1>3

\* The enable input falls from one operation to the next one, and what the display does then.
LEMMA DisplayStep ==
  ASSUME display \in Displays, NEW k \in Int, k >= -3, NEW n \in Nibbles, Shown(display, k),
         Operation(k).enable => n = Operation(k).nibble
  PROVE  IF Operation(k).enable /\ ~Operation(k + 1).enable THEN Shown(Taken(n), k + 1)
                                                             ELSE Shown(display, k + 1)
  <1>0. ~display.confused
    BY DEF Shown
  <1>1. CASE k < -1
    <2>1. Shown(display, k + 1)
      BY <1>1 DEF Shown
    <2>2. ~Operation(k).enable
      BY <1>1, SelectOperation
    <2> QED BY <2>1, <2>2
  <1>2. CASE k = -1
    <2>1. Operation(k).enable /\ Operation(k).nibble = Select /\ ~Operation(k + 1).enable
      BY <1>2, SelectOperation
    <2>2. display.bits = 8 /\ display.held = NoNibble /\ display.took = 0
      BY <1>2 DEF Shown
    <2>3. /\ Taken(n).bits = 4 /\ ~Taken(n).confused
          /\ Taken(n).held = NoNibble /\ Taken(n).took = 0
      BY <1>0, <2>1, <2>2, TakenFacts
    <2>4. Shown(Taken(n), k + 1)
      BY <1>2, <2>3 DEF Shown
    <2> QED BY <2>1, <2>4
  <1>3. CASE k = 0
    <2>1. ~Operation(k).enable
      BY <1>3, SelectOperation
    <2>2. Shown(display, k + 1)
      BY <1>3 DEF Shown
    <2> QED BY <2>1, <2>2
  <1>4. CASE k > 0
    <2> DEFINE b == (k + 5) \div 6
    <2>1. b \in Nat /\ b > 0
      BY <1>4
    <2>2. /\ Operation(k).enable <=> k % 3 = 2
          /\ (k + 5) % 6 < 3 => Operation(k).nibble = <<b, "high">>
          /\ ~((k + 5) % 6 < 3) => Operation(k).nibble = <<b, "low">>
          /\ Operation(k + 1).enable <=> (k + 1) % 3 = 2
      <3>1. k + 1 \in Int /\ k + 1 > 0
        BY <1>4
      <3>2. Operation(k + 1).enable <=> (k + 1) % 3 = 2
        BY <3>1, ByteOperation
      <3>3. /\ Operation(k).enable <=> k % 3 = 2
            /\ (k + 5) % 6 < 3 => Operation(k).nibble = <<b, "high">>
            /\ ~((k + 5) % 6 < 3) => Operation(k).nibble = <<b, "low">>
    BY <1>4, ByteOperation
      <3> QED BY <3>2, <3>3
    <2>3. /\ display.bits = 4 /\ display.took = k \div 6
          /\ k % 6 >= 3 => display.held = <<b, "high">>
          /\ k % 6 < 3 => display.held = NoNibble
      BY <1>4 DEF Shown
    <2>4. CASE k % 3 # 2
      <3>1. (k + 1) \div 6 = k \div 6 /\ ((k + 1) % 6 >= 3 <=> k % 6 >= 3)
        BY <1>4, <2>4
      <3>2. k % 6 >= 3 => (k + 6) \div 6 = b
        BY <1>4, <2>4
      <3>3. Shown(display, k + 1)
        <4>1. k + 1 > 0 /\ (k + 1) + 5 = k + 6
          BY <1>4
        <4>2. k % 6 >= 3 \/ k % 6 < 3
          BY <1>4
        <4> HIDE DEF b
        <4>3. k % 6 >= 3 => <<(k + 6) \div 6, "high">> = <<b, "high">>
          BY <3>2
        <4> QED BY <1>0, <1>4, <2>3, <3>1, <4>1, <4>2, <4>3 DEF Shown
      <3> QED BY <2>2, <2>4, <3>3
    <2>5. CASE k % 3 = 2 /\ (k + 5) % 6 < 3
      <3>1. /\ k % 6 = 2 /\ (k + 1) % 6 = 3 /\ (k + 1) % 3 # 2
        BY <1>4, <2>5
      <3>2. (k + 1) \div 6 = k \div 6 /\ (k + 6) \div 6 = b
        BY <1>4, <3>1
      <3>3. n = <<b, "high">>
        BY <2>2, <2>5
      <3> HIDE DEF b
      <3>4. n # Select
        BY <2>1, <3>3 DEF Select
      <3>5. /\ Taken(n).bits = 4 /\ ~Taken(n).confused
            /\ Taken(n).held = <<b, "high">> /\ Taken(n).took = k \div 6
        BY <1>0, <2>3, <3>1, <3>3, <3>4, TakenFacts
      <3>6. Shown(Taken(n), k + 1)
        <4>1. k + 1 > 0 /\ (k + 1) + 5 = k + 6
          BY <1>4
        <4>2. <<((k + 1) + 5) \div 6, "high">> = <<b, "high">>
          BY <3>2, <4>1
        <4> QED BY <3>1, <3>2, <3>5, <4>1, <4>2 DEF Shown
      <3> QED BY <2>2, <2>5, <3>1, <3>6
    <2>6. CASE k % 3 = 2 /\ ~((k + 5) % 6 < 3)
      <3>1. k % 6 = 5 /\ (k + 1) % 6 = 0 /\ (k + 1) % 3 # 2
        BY <1>4, <2>6
      <3>2. (k + 1) \div 6 = k \div 6 + 1 /\ b = k \div 6 + 1
        BY <1>4, <3>1
      <3>3. n = <<b, "low">>
        BY <2>2, <2>6
      <3> HIDE DEF b
      <3>4. n # Select /\ <<b, "high">> # NoNibble
        BY <2>1, <3>3 DEF Select, NoNibble
      <3>5. /\ display.held = <<display.took + 1, "high">> /\ n = <<display.took + 1, "low">>
            /\ display.held # NoNibble
        BY <2>3, <3>1, <3>2, <3>3, <3>4
      <3>6. /\ Taken(n).bits = 4 /\ ~Taken(n).confused
            /\ Taken(n).held = NoNibble /\ Taken(n).took = display.took + 1
        BY <1>0, <2>3, <3>4, <3>5, TakenFacts
      <3>7. Shown(Taken(n), k + 1)
        <4>1. k + 1 > 0 /\ display.took + 1 = (k + 1) \div 6
          BY <1>4, <2>3, <3>2
        <4> QED BY <3>1, <3>6, <4>1 DEF Shown
      <3> QED BY <2>2, <2>6, <3>1, <3>7
    <2> QED BY <1>4, <2>4, <2>5, <2>6
  <1> QED BY <1>1, <1>2, <1>3, <1>4

\* slowout_start, with and without the number of the operation that it ends.
LEMMA StartFacts ==
  ASSUME SlowTyped, NEW op \in Ops, SlowStart(op)
  PROVE  /\ pins' = op /\ timer1' = "on" /\ display' \in Displays
         /\ \A k \in Int :
              /\ k >= -3 /\ Shown(display, k) /\ op = Operation(k + 1)
              /\ pins.enable <=> Operation(k).enable
              /\ pins.enable => pins.nibble = Operation(k).nibble
              => Shown(display', k + 1)
  <1> DEFINE n == pins.nibble
  <1>1. display \in Displays /\ n \in Nibbles
    BY DEF SlowTyped, Ops
  <1>2. /\ pins' = op /\ timer1' = "on"
        /\ display' = IF pins.enable /\ ~op.enable THEN Taken(n) ELSE display
    BY DEF SlowStart
  <1> HIDE DEF n
  <1>3. Taken(n) \in Displays
    BY <1>1, TakenFacts
  <1>4. display' \in Displays
    BY <1>1, <1>2, <1>3
  <1>5. ASSUME NEW k \in Int, k >= -3, Shown(display, k), op = Operation(k + 1),
               pins.enable <=> Operation(k).enable,
               pins.enable => pins.nibble = Operation(k).nibble
        PROVE  Shown(display', k + 1)
    <2>1. Operation(k).enable => n = Operation(k).nibble
      BY <1>5 DEF n
    <2>2. IF Operation(k).enable /\ ~Operation(k + 1).enable THEN Shown(Taken(n), k + 1)
                                                             ELSE Shown(display, k + 1)
      BY <1>1, <1>5, <2>1, DisplayStep
    <2>3. CASE Operation(k).enable /\ ~Operation(k + 1).enable
      <3>1. Shown(Taken(n), k + 1)
        BY <2>2, <2>3, Zenon
      <3>2. pins.enable /\ ~op.enable
        BY <1>5, <2>3, Zenon
      <3>3. display' = Taken(n)
        BY <1>2, <3>2, Zenon
      <3> QED BY <3>1, <3>3, Zenon
    <2>4. CASE ~(Operation(k).enable /\ ~Operation(k + 1).enable)
      <3>1. Shown(display, k + 1)
        BY <2>2, <2>4, Zenon
      <3>2. ~(pins.enable /\ ~op.enable)
        BY <1>5, <2>4, Zenon
      <3>3. display' = display
        BY <1>2, <3>2, Zenon
      <3> QED BY <3>1, <3>3, Zenon
    <2> QED BY <2>3, <2>4
  <1> QED BY <1>2, <1>4, <1>5, Zenon

LEMMA SlowInitStep == SlowInit => SlowInv
  <1> SUFFICES ASSUME SlowInit PROVE SlowGood
    BY DEF SlowInv, SlowInit
  <1>0. OPQ_SIZE \in Nat \ {0} /\ 0 \in Places
    BY SlowoutAssumption DEF Places
  <1>1. NoNibble \in Nibbles /\ Op(FALSE, NoNibble) \in Ops
    BY DEF NoNibble, Nibbles, Op, Ops
  <1> DEFINE first == todo["main"]
  <1>2. PICK dip3 \in BOOLEAN :
          /\ todo = [main |-> IF dip3 THEN <<>> ELSE Pulse(Select), isr |-> <<>>]
          /\ display = [bits |-> IF dip3 THEN 4 ELSE 8, held |-> NoNibble, took |-> 0,
                        confused |-> FALSE]
    BY DEF SlowInit
  <1>3. /\ display.bits = (IF dip3 THEN 4 ELSE 8) /\ display.held = NoNibble
        /\ display.took = 0 /\ ~display.confused /\ display \in Displays
    BY <1>1, <1>2 DEF Displays
  <1>4. <<>> \in Seq(Ops) /\ Len(<<>>) = 0
    BY EmptySeq
  <1>5. /\ first \in Seq(Ops) /\ Len(first) = (IF dip3 THEN 0 ELSE 3)
        /\ \A i \in 1..Len(first) : first[i] = Operation(0 - Len(first) + i)
    <2>1. CASE dip3
      BY <1>2, <1>4, <2>1
    <2>2. CASE ~dip3
      <3>1. first = Pulse(Select)
        BY <1>2, <2>2
      <3>2. /\ first \in Seq(Ops) /\ Len(first) = 3
            /\ \A i \in 1..3 : first[i] = Operation(i - 3)
        BY <3>1, SelectFacts, Zenon
      <3>3. \A i \in 1..3 : i - 3 = 0 - 3 + i
        OBVIOUS
      <3> QED BY <2>2, <3>2, <3>3
    <2> QED BY <2>1, <2>2
  <1>6. /\ opq = [i \in 0..(OPQ_SIZE - 1) |-> Op(FALSE, NoNibble)]
        /\ produce = 0 /\ consume = 0 /\ level = 0 /\ cts = TRUE
        /\ pins = Op(FALSE, NoNibble) /\ timer1 = "off" /\ ip1 = FALSE /\ im1 = TRUE
        /\ queueing = "no" /\ handler = "idle" /\ sent = 0 /\ due = <<>>
    BY DEF SlowInit
  <1>7. opq \in [Places -> Ops]
    BY <1>1, <1>6 DEF Places
  <1>8. todo \in [Senders -> Seq(Ops)] /\ todo["isr"] = <<>>
    <2> DEFINE m == IF dip3 THEN <<>> ELSE Pulse(Select)
    <2>1. todo = [main |-> m, isr |-> <<>>]
      BY <1>2
    <2> HIDE DEF m
    <2>2. todo["main"] = m /\ todo["isr"] = <<>>
      BY <2>1
    <2>3. m \in Seq(Ops)
      BY <1>5, <2>2
    <2> QED BY <1>4, <2>1, <2>2, <2>3 DEF Senders
  <1>9. Left = first
    BY <1>8 DEF Left
  <1> HIDE DEF first
  <1>10. SlowTyped
    <2>1. level \in 0..OPQ_SIZE
      BY <1>0, <1>6
    <2>2. pins \in Ops /\ due \in Seq(Ops) /\ produce \in Places /\ consume \in Places /\ sent \in Nat
      BY <1>0, <1>1, <1>4, <1>6
    <2> QED BY <1>3, <1>7, <1>8, <2>1, <2>2 DEF SlowTyped
  <1>11. Due
    BY <1>0, <1>4, <1>6 DEF Due, Place, Uncounted, Passed
  <1>12. SlowCalls /\ SlowTimer /\ OneSends
    BY <1>6, <1>8 DEF SlowCalls, SlowTimer, OneSends
  <1>13. Follow
    <2>1. OnPins = (IF dip3 THEN 0 ELSE -3)
      <3>1. 6 * sent = 0 /\ Len(due) = 0 /\ Len(Left) = (IF dip3 THEN 0 ELSE 3)
        BY <1>4, <1>5, <1>6, <1>9
      <3>2. OnPins = 6 * sent - Len(Left) - Len(due)
        BY <1>5, <1>6, <3>1 DEF OnPins
      <3> QED BY <3>1, <3>2
    <2>2. ~pins.enable
      BY <1>6 DEF Op
    <2>3. OnPins \in Int /\ OnPins <= 0 /\ OnPins >= -3 /\ OnPins # -1
      BY <2>1
    <2>4. ~Operation(OnPins).enable
      BY <2>3, SelectOperation
    <2>5. Shown(display, OnPins)
      BY <1>3, <2>1 DEF Shown
    <2>6. \A i \in 1..Len(Left) : Left[i] = Operation(6 * sent - Len(Left) + i)
      <3>1. 6 * sent - Len(Left) = 0 - Len(Left)
        BY <1>5, <1>6, <1>9
      <3> QED BY <1>5, <1>9, <3>1
    <2>7. \A i \in 1..Len(due) : due[i] = Operation(6 * sent - Len(Left) - Len(due) + i)
      BY <1>4, <1>6
    <2> QED BY <2>2, <2>3, <2>4, <2>5, <2>6, <2>7 DEF Follow
  <1> QED BY <1>10, <1>11, <1>12, <1>13 DEF SlowGood

\* What is left of the bytes is operations.
LEMMA LeftTypes ==
  ASSUME SlowTyped
  PROVE  /\ todo["main"] \in Seq(Ops) /\ todo["isr"] \in Seq(Ops) /\ Left \in Seq(Ops)
         /\ Len(Left) \in Nat /\ Len(due) \in Nat
         /\ (Len(Left) = 0 <=> Left = <<>>) /\ (Len(due) = 0 <=> due = <<>>)
  <1>1. todo["main"] \in Seq(Ops) /\ todo["isr"] \in Seq(Ops)
    BY DEF SlowTyped, Senders
  <1>2. Left \in Seq(Ops)
    BY <1>1 DEF Left
  <1> QED BY <1>1, <1>2, EmptySeq DEF SlowTyped

\* The next operation is accepted: it starts if nothing was due.
LEMMA FollowAccepted ==
  ASSUME SlowTyped, Follow, Left # <<>>, Left' = Tail(Left), due' = Append(due, Head(Left)),
         sent' = sent, due = <<>> => SlowStart(Head(Left)),
         due # <<>> => pins' = pins /\ display' = display
  PROVE  Follow'
  <1> DEFINE op == Head(Left)
             base == 6 * sent - Len(Left) - Len(due)
  <1>1. /\ due \in Seq(Ops) /\ sent \in Nat /\ Left \in Seq(Ops)
        /\ Len(Left) \in Nat /\ Len(Left) > 0 /\ Len(due) \in Nat /\ (Len(due) = 0 <=> due = <<>>)
    BY LeftTypes DEF SlowTyped
  <1>2. /\ op \in Ops /\ op = Left[1] /\ Left' \in Seq(Ops) /\ Len(Left') = Len(Left) - 1
        /\ \A i \in 1..Len(Left') : Left'[i] = Left[i + 1]
    BY <1>1, HeadTailProperties
  <1>3. /\ due' \in Seq(Ops) /\ Len(due') = Len(due) + 1 /\ due'[Len(due) + 1] = op
        /\ \A i \in 1..Len(due) : due'[i] = due[i]
    BY <1>1, <1>2, AppendProperties
  <1>4. due = <<>> => pins' = op /\ SlowStart(op)
    BY DEF SlowStart
  <1> HIDE DEF op
  <1>5. base \in Int /\ base' = base
    <2>1. Len(Left') = Len(Left) - 1 /\ Len(due') = Len(due) + 1
      BY <1>2, <1>3
    <2>2. base' = 6 * sent - (Len(Left) - 1) - (Len(due) + 1)
      BY <2>1
    <2> QED BY <1>1, <2>2
  <1>6. /\ \A i \in 1..Len(Left) : Left[i] = Operation(6 * sent - Len(Left) + i)
        /\ \A i \in 1..Len(due) : due[i] = Operation(base + i)
    BY DEF Follow
  <1>7. OnPins = base + (IF due = <<>> THEN 0 ELSE 1) /\ OnPins' = base + 1
    <2>1. due' # <<>>
      BY <1>1, <1>3, EmptySeq
    <2>2. OnPins' = base' + 1
      BY <2>1 DEF OnPins
    <2> QED BY <1>5, <2>2 DEF OnPins
  <1>8. op = Operation(base + Len(due) + 1)
    <2>1. 1 \in 1..Len(Left) /\ 6 * sent - Len(Left) + 1 = base + Len(due) + 1
      BY <1>1
    <2> QED BY <1>2, <1>6, <2>1
  <1>9. ASSUME NEW i \in 1..Len(Left') PROVE Left'[i] = Operation(6 * sent' - Len(Left') + i)
    <2>1. i + 1 \in 1..Len(Left) /\ 6 * sent - Len(Left) + (i + 1) = 6 * sent' - Len(Left') + i
      BY <1>1, <1>2
    <2>2. Left[i + 1] = Operation(6 * sent - Len(Left) + (i + 1))
      BY <1>6, <2>1
    <2> QED BY <1>2, <2>1, <2>2
  <1>10. ASSUME NEW i \in 1..Len(due') PROVE due'[i] = Operation(base' + i)
    <2>1. CASE i \in 1..Len(due)
      BY <1>3, <1>5, <1>6, <2>1
    <2>2. CASE i = Len(due) + 1
      <3>1. base + (Len(due) + 1) = base + Len(due) + 1
        BY <1>1, <1>5
      <3> QED BY <1>3, <1>5, <1>8, <2>2, <3>1
    <2>3. i \in 1..Len(due) \/ i = Len(due) + 1
      BY <1>1, <1>3
    <2> QED BY <2>1, <2>2, <2>3
  <1>11. /\ OnPins >= -3 /\ Shown(display, OnPins)
         /\ pins.enable <=> Operation(OnPins).enable
         /\ pins.enable => pins.nibble = Operation(OnPins).nibble
    BY DEF Follow
  <1> HIDE DEF base
  <1>12. CASE due = <<>>
    <2>1. OnPins = base /\ OnPins \in Int /\ op = Operation(OnPins + 1) /\ OnPins' = OnPins + 1
      BY <1>1, <1>5, <1>7, <1>8, <1>12
    <2>2. Shown(display', OnPins + 1)
      BY <1>2, <1>4, <1>11, <1>12, <2>1, StartFacts
    <2>3. pins' = Operation(OnPins')
      BY <1>4, <1>12, <2>1
    <2>4. OnPins' >= -3
      BY <1>11, <2>1
    <2>5. Shown(display', OnPins')
      BY <2>1, <2>2
    <2> QED BY <1>9, <1>10, <2>3, <2>4, <2>5 DEF Follow, base
  <1>13. CASE due # <<>>
    <2>1. OnPins' = OnPins /\ pins' = pins /\ display' = display
      BY <1>7, <1>13
    <2>2. /\ OnPins' >= -3 /\ Shown(display', OnPins')
          /\ pins'.enable <=> Operation(OnPins').enable
          /\ pins'.enable => pins'.nibble = Operation(OnPins').nibble
      BY <1>11, <2>1
    <2> QED BY <1>9, <1>10, <2>2 DEF Follow, base
  <1> QED BY <1>12, <1>13

\* The first operation ends and the one behind it starts.
LEMMA FollowEnded ==
  ASSUME SlowTyped, Follow, due # <<>>, due' = Tail(due), Left' = Left, sent' = sent,
         Len(due) > 1 => SlowStart(due[2]),
         Len(due) <= 1 => pins' = pins /\ display' = display
  PROVE  Follow'
  <1> DEFINE base == 6 * sent - Len(Left) - Len(due)
  <1>1. /\ due \in Seq(Ops) /\ sent \in Nat /\ Left \in Seq(Ops)
        /\ Len(Left) \in Nat /\ Len(due) \in Nat /\ Len(due) > 0
    BY LeftTypes DEF SlowTyped
  <1>2. /\ due' \in Seq(Ops) /\ Len(due') = Len(due) - 1
        /\ \A i \in 1..(Len(due) - 1) : due'[i] = due[i + 1]
    BY <1>1, HeadTailProperties
  <1>3. due' = <<>> <=> Len(due) = 1
    <2>1. due' = <<>> <=> Len(due') = 0
      BY <1>2, EmptySeq
    <2> QED BY <1>1, <1>2, <2>1
  <1>4. base \in Int /\ base' = base + 1
    <2>1. base' = 6 * sent - Len(Left) - (Len(due) - 1)
      BY <1>2
    <2> QED BY <1>1, <2>1
  <1>5. /\ \A i \in 1..Len(Left) : Left[i] = Operation(6 * sent - Len(Left) + i)
        /\ \A i \in 1..Len(due) : due[i] = Operation(base + i)
        /\ OnPins >= -3 /\ Shown(display, OnPins)
        /\ pins.enable <=> Operation(OnPins).enable
        /\ pins.enable => pins.nibble = Operation(OnPins).nibble
    BY DEF Follow
  <1>6. OnPins = base + 1 /\ OnPins' = base' + (IF due' = <<>> THEN 0 ELSE 1)
    BY DEF OnPins
  <1>7. \A i \in 1..Len(Left') : Left'[i] = Operation(6 * sent' - Len(Left') + i)
    BY <1>5
  <1>8. ASSUME NEW i \in 1..Len(due') PROVE due'[i] = Operation(base' + i)
    <2>1. i \in 1..(Len(due) - 1) /\ i + 1 \in 1..Len(due) /\ base' + i = base + (i + 1)
      BY <1>1, <1>2, <1>4
    <2> QED BY <1>2, <1>5, <2>1
  <1> HIDE DEF base
  <1>9. CASE Len(due) > 1
    <2>1. OnPins' = OnPins + 1 /\ OnPins \in Int
      BY <1>3, <1>4, <1>6, <1>9
    <2>2. due[2] = Operation(OnPins + 1) /\ due[2] \in Ops
      <3>1. 2 \in 1..Len(due) /\ base + 2 = OnPins + 1
        BY <1>1, <1>4, <1>6, <1>9
      <3> QED BY <1>1, <1>5, <3>1, ElementOfSeq
    <2>3. SlowStart(due[2])
      BY <1>9
    <2>4. Shown(display', OnPins + 1) /\ pins' = due[2]
      BY <1>5, <2>1, <2>2, <2>3, StartFacts
    <2>5. OnPins' >= -3
      BY <1>5, <2>1
    <2>6. pins' = Operation(OnPins') /\ Shown(display', OnPins')
      BY <2>1, <2>2, <2>4
    <2> QED BY <1>7, <1>8, <2>5, <2>6 DEF Follow, base
  <1>10. CASE Len(due) <= 1
    <2>1. OnPins' = OnPins
      BY <1>1, <1>3, <1>4, <1>6, <1>10
    <2>2. pins' = pins /\ display' = display
      BY <1>10
    <2>3. /\ OnPins' >= -3 /\ Shown(display', OnPins')
          /\ pins'.enable <=> Operation(OnPins').enable
          /\ pins'.enable => pins'.nibble = Operation(OnPins').nibble
      BY <1>5, <2>1, <2>2
    <2> QED BY <1>7, <1>8, <2>3 DEF Follow, base
  <1> QED BY <1>1, <1>9, <1>10

\* The next byte: its operations follow those of the bytes before.
LEMMA FollowByte ==
  ASSUME SlowTyped, Follow, Left = <<>>, Left' = SendByte(sent + 1), sent' = sent + 1,
         due' = due, pins' = pins, display' = display
  PROVE  Follow'
  <1>1. sent \in Nat /\ due \in Seq(Ops) /\ Len(due) \in Nat
    BY LeftTypes DEF SlowTyped
  <1>2. /\ Left' \in Seq(Ops) /\ Len(Left') = 6 /\ Len(Left) = 0
        /\ \A i \in 1..6 : Left'[i] = Operation(6 * sent + i)
    BY <1>1, ByteFacts, EmptySeq
  <1>3. 6 * sent' - Len(Left') = 6 * sent /\ 6 * sent - Len(Left) = 6 * sent
    <2>1. 6 * (sent + 1) - 6 = 6 * sent /\ 6 * sent - 0 = 6 * sent
      BY <1>1
    <2> QED BY <1>2, <2>1
  <1>4. OnPins' = OnPins
    BY <1>3 DEF OnPins
  <1>5. \A i \in 1..Len(Left') : Left'[i] = Operation(6 * sent' - Len(Left') + i)
    BY <1>2, <1>3
  <1>6. \A i \in 1..Len(due') : due'[i] = Operation(6 * sent' - Len(Left') - Len(due') + i)
    BY <1>3 DEF Follow
  <1>7. /\ OnPins' >= -3 /\ Shown(display', OnPins')
        /\ pins'.enable <=> Operation(OnPins').enable
        /\ pins'.enable => pins'.nibble = Operation(OnPins').nibble
    BY <1>4 DEF Follow
  <1> QED BY <1>5, <1>6, <1>7 DEF Follow

\* A step that leaves the ring, the pins and the bytes alone.
SlowQuiet ==
  /\ opq' = opq /\ produce' = produce /\ consume' = consume /\ level' = level
  /\ pins' = pins /\ display' = display /\ todo' = todo /\ sent' = sent /\ due' = due
  /\ refused' = refused /\ split' = split

LEMMA QuietStep ==
  ASSUME SlowGood, SlowQuiet
  PROVE  SlowTyped' /\ (~split' => OneSends') /\ (~split' /\ ~refused' => Follow')
  <1>1. SlowTyped'
    BY DEF SlowGood, SlowTyped, SlowQuiet
  <1>2. Left' = Left /\ (OneSends => OneSends')
    BY DEF Left, OneSends, SlowQuiet
  <1>3. Follow => Follow'
    BY <1>2 DEF Follow, OnPins, SlowQuiet
  <1> QED BY <1>1, <1>2, <1>3 DEF SlowGood, SlowQuiet

LEMMA QuietDue ==
  ASSUME SlowGood, SlowQuiet,
         \/ queueing' = queueing
         \/ {queueing, queueing'} \subseteq {"no", "test", "unmask"}
  PROVE  Due'
  <1>1. Due
    BY DEF SlowGood
  <1>2. Uncounted' = Uncounted /\ Passed' = Passed
    BY DEF Uncounted, Passed
  <1>3. queueing' \in {"cts", "start"} => queueing \in {"cts", "start"}
    OBVIOUS
  <1>4. queueing' \in {"cts", "start", "produce", "level"} =>
          queueing \in {"cts", "start", "produce", "level"}
    OBVIOUS
  <1> QED BY <1>1, <1>2, <1>3, <1>4 DEF Due, Place, SlowQuiet

LEMMA MaskStep == SlowGood /\ QueueMask => SlowGood'
  <1> SUFFICES ASSUME SlowGood, QueueMask PROVE SlowGood'
    OBVIOUS
  <1>1. /\ handler = "idle" /\ queueing = "no" /\ queueing' = "test" /\ todo["main"] # <<>>
        /\ im1' = FALSE /\ cts' = cts /\ timer1' = timer1 /\ ip1' = ip1
        /\ handler' = handler /\ irq1' = irq1
    BY DEF QueueMask, Main
  <1>2. SlowQuiet
    BY DEF QueueMask, SlowQuiet
  <1>3. SlowCalls' /\ SlowTimer'
    BY <1>1, <1>2 DEF SlowGood, SlowCalls, SlowTimer, SlowQuiet
  <1> QED BY <1>1, <1>2, <1>3, QuietStep, QuietDue DEF SlowGood

LEMMA UnmaskStep == SlowGood /\ QueueUnmask => SlowGood'
  <1> SUFFICES ASSUME SlowGood, QueueUnmask PROVE SlowGood'
    OBVIOUS
  <1>1. /\ handler = "idle" /\ queueing = "unmask" /\ queueing' = "no"
        /\ im1' = TRUE /\ cts' = cts /\ timer1' = timer1 /\ ip1' = ip1
        /\ handler' = handler /\ irq1' = irq1
    BY DEF QueueUnmask, Main
  <1>2. SlowQuiet
    BY DEF QueueUnmask, SlowQuiet
  <1>3. SlowCalls' /\ SlowTimer'
    BY <1>1, <1>2 DEF SlowGood, SlowCalls, SlowTimer, SlowQuiet
  <1> QED BY <1>1, <1>2, <1>3, QuietStep, QuietDue DEF SlowGood

LEMMA RefuseStep == SlowGood /\ QueueRefuse => SlowGood'
  <1> SUFFICES ASSUME SlowGood, QueueRefuse PROVE SlowGood'
    OBVIOUS
  <1>1. /\ handler = "idle" /\ queueing = "test" /\ queueing' = "unmask" /\ refused' = TRUE
        /\ todo' = [todo EXCEPT !["main"] = Tail(@)]
        /\ im1' = im1 /\ cts' = cts /\ timer1' = timer1 /\ ip1' = ip1
        /\ handler' = handler /\ irq1' = irq1 /\ split' = split
        /\ opq' = opq /\ produce' = produce /\ consume' = consume /\ level' = level
        /\ pins' = pins /\ display' = display /\ sent' = sent /\ due' = due
    BY DEF QueueRefuse, Main
  <1>2. todo["main"] # <<>> /\ todo["isr"] = <<>>
    BY <1>1 DEF SlowGood, SlowCalls
  <1>3. todo' \in [Senders -> Seq(Ops)] /\ todo'["isr"] = <<>>
    <2>1. todo["main"] \in Seq(Ops) /\ todo \in [Senders -> Seq(Ops)]
      BY LeftTypes DEF SlowGood, SlowTyped
    <2>2. Tail(todo["main"]) \in Seq(Ops)
      BY <1>2, <2>1, HeadTailProperties
    <2> QED BY <1>1, <1>2, <2>1, <2>2 DEF Senders
  <1>4. SlowTyped'
    BY <1>1, <1>3 DEF SlowGood, SlowTyped
  <1>5. Due'
    BY <1>1 DEF SlowGood, Due, Place, Uncounted, Passed
  <1>6. SlowCalls' /\ SlowTimer' /\ OneSends'
    BY <1>1, <1>3 DEF SlowGood, SlowCalls, SlowTimer, OneSends
  <1> QED BY <1>1, <1>4, <1>5, <1>6 DEF SlowGood

\* The place behind those of the ring is free.
LEMMA StoreStep == SlowGood /\ QueueStore => SlowGood'
  <1> SUFFICES ASSUME SlowGood, QueueStore PROVE SlowGood'
    OBVIOUS
  <1>1. /\ handler = "idle" /\ queueing = "test" /\ queueing' = "cts"
        /\ opq' = [opq EXCEPT ![produce] = Head(todo["main"])]
        /\ im1' = im1 /\ cts' = cts /\ timer1' = timer1 /\ ip1' = ip1
        /\ handler' = handler /\ irq1' = irq1 /\ split' = split /\ todo' = todo
        /\ produce' = produce /\ consume' = consume /\ level' = level
        /\ pins' = pins /\ display' = display /\ sent' = sent /\ due' = due
        /\ refused' = refused
    BY DEF QueueStore, Main
  <1>2. SlowTyped /\ Due /\ SlowCalls /\ SlowTimer
    BY DEF SlowGood
  <1>3. /\ opq \in [Places -> Ops] /\ produce \in Places /\ consume \in Places
        /\ level \in 0..OPQ_SIZE /\ OPQ_SIZE \in Nat \ {0} /\ todo["main"] \in Seq(Ops)
    BY <1>2, LeftTypes, SlowoutAssumption DEF SlowTyped
  <1>4. level < OPQ_SIZE
    BY <1>3 DEF QueueStore, QueueFull
  <1>5. todo["main"] # <<>> /\ Head(todo["main"]) \in Ops
    <2>1. todo["main"] # <<>>
      BY <1>1, <1>2 DEF SlowCalls
    <2> QED BY <1>3, <2>1, HeadTailProperties
  <1>6. /\ Len(due) = level /\ produce = Place(consume, level)
        /\ \A i \in 1..Len(due) : due[i] = opq[Place(consume, i - 1)]
        /\ due # <<>> => pins = due[1]
    <2>1. Uncounted = 0 /\ Passed = 0
      BY <1>1 DEF Uncounted, Passed
    <2> QED BY <1>2, <1>3, <2>1 DEF Due
  <1>7. SlowTyped'
    BY <1>1, <1>2, <1>3, <1>5 DEF SlowTyped
  <1>8. Due'
    <2>1. Uncounted' = 0 /\ Passed' = 0
      BY <1>1 DEF Uncounted, Passed
    <2>2. Len(due') = level' + Uncounted' /\ produce' = Place(consume, level' + Passed')
      BY <1>1, <1>3, <1>6, <2>1
    <2>3. ASSUME NEW i \in 1..Len(due') PROVE due'[i] = opq'[Place(consume', i - 1)]
      <3>1. i \in 1..level /\ i - 1 \in 0..OPQ_SIZE /\ i - 1 \in 0..(level - 1)
        BY <1>1, <1>3, <1>6
      <3>2. Place(consume, i - 1) # produce /\ Place(consume, i - 1) \in Places
        BY <1>3, <1>4, <1>6, <3>1, PlaceFacts
      <3> QED BY <1>1, <1>3, <1>6, <3>1, <3>2
    <2>4. opq'[produce'] = Head(todo'["main"]) /\ level' < OPQ_SIZE
      BY <1>1, <1>3, <1>4
    <2> QED BY <1>1, <1>6, <2>2, <2>3, <2>4 DEF Due, Place
  <1>9. SlowCalls' /\ SlowTimer'
    BY <1>1, <1>2, <1>5 DEF SlowCalls, SlowTimer
  <1>10. Left' = Left /\ (OneSends => OneSends')
    BY <1>1 DEF Left, OneSends
  <1>11. Follow => Follow'
    BY <1>1, <1>10 DEF Follow, OnPins
  <1> QED BY <1>1, <1>7, <1>8, <1>9, <1>10, <1>11 DEF SlowGood

LEMMA ClearStep == SlowGood /\ QueueClear => SlowGood'
  <1> SUFFICES ASSUME SlowGood, QueueClear PROVE SlowGood'
    OBVIOUS
  <1>1. /\ handler = "idle" /\ queueing = "cts" /\ queueing' = "start" /\ cts /\ cts' = FALSE
        /\ im1' = im1 /\ timer1' = timer1 /\ ip1' = ip1 /\ handler' = handler /\ irq1' = irq1
    BY DEF QueueClear, Main
  <1>2. SlowQuiet
    BY DEF QueueClear, SlowQuiet
  <1>3. SlowCalls' /\ SlowTimer'
    BY <1>1, <1>2 DEF SlowGood, SlowCalls, SlowTimer, SlowQuiet
  <1>4. Due'
    BY <1>1, <1>2 DEF SlowGood, Due, Place, Uncounted, Passed, SlowQuiet
  <1> QED BY <1>1, <1>2, <1>3, <1>4, QuietStep DEF SlowGood

\* What both contexts do to the operations: the next one of a byte becomes due.
LEMMA AcceptTypes ==
  ASSUME SlowTyped, NEW c \in Senders, todo[c] # <<>>, Accept(c)
  PROVE  /\ Head(todo[c]) \in Ops /\ Head(todo[c]) = todo[c][1]
         /\ todo' \in [Senders -> Seq(Ops)] /\ due' \in Seq(Ops)
         /\ todo'[c] = Tail(todo[c]) /\ \A d \in Senders \ {c} : todo'[d] = todo[d]
         /\ Len(due) \in Nat /\ Len(due') = Len(due) + 1 /\ due' # <<>>
         /\ due'[Len(due) + 1] = Head(todo[c]) /\ \A i \in 1..Len(due) : due'[i] = due[i]
  <1> DEFINE op == Head(todo[c])
  <1>1. todo \in [Senders -> Seq(Ops)] /\ due \in Seq(Ops) /\ todo[c] \in Seq(Ops)
    BY DEF SlowTyped
  <1>2. op \in Ops /\ op = todo[c][1] /\ Tail(todo[c]) \in Seq(Ops)
    BY <1>1, HeadTailProperties
  <1>3. todo' = [todo EXCEPT ![c] = Tail(@)] /\ due' = Append(due, op)
    BY DEF Accept
  <1> HIDE DEF op
  <1>4. /\ due' \in Seq(Ops) /\ Len(due) \in Nat /\ Len(due') = Len(due) + 1
        /\ due'[Len(due) + 1] = op /\ \A i \in 1..Len(due) : due'[i] = due[i]
    BY <1>1, <1>2, <1>3, AppendProperties
  <1>5. due' # <<>>
    BY <1>4, EmptySeq
  <1> QED BY <1>1, <1>2, <1>3, <1>4, <1>5 DEF op

LEMMA AcceptFollow ==
  ASSUME SlowTyped, Follow, OneSends, NEW c \in Senders, todo[c] # <<>>, Accept(c), sent' = sent,
         due = <<>> => SlowStart(Head(todo[c])),
         due # <<>> => pins' = pins /\ display' = display
  PROVE  Follow' /\ OneSends'
  <1>1. \A d \in Senders \ {c} : todo[d] = <<>> /\ todo'[d] = <<>>
    BY AcceptTypes DEF OneSends, Senders
  <1>2. todo'[c] = Tail(todo[c])
    BY AcceptTypes
  <1>3. Left = todo[c] /\ Left' = Tail(Left) /\ OneSends'
    BY <1>1, <1>2 DEF Left, OneSends, Senders
  <1>4. due' = Append(due, Head(Left))
    BY <1>3 DEF Accept
  <1> QED BY <1>3, <1>4, FollowAccepted

\* The main program's operation, stored behind those of the ring, becomes due.
LEMMA AcceptedDue ==
  ASSUME SlowGood, queueing \in {"cts", "start"}, queueing' = "produce", Accept("main"),
         opq' = opq, produce' = produce, consume' = consume, level' = level,
         due = <<>> => pins' = opq[produce], due # <<>> => pins' = pins
  PROVE  Due'
  <1> DEFINE op == Head(todo["main"])
  <1>1. SlowTyped /\ Due /\ SlowCalls
    BY DEF SlowGood
  <1>2. todo["main"] # <<>> /\ "main" \in Senders
    BY <1>1 DEF SlowCalls, Senders
  <1>3. /\ consume \in Places /\ level \in 0..OPQ_SIZE
    BY <1>1 DEF SlowTyped
  <1>4. /\ Len(due) \in Nat /\ Len(due') = Len(due) + 1 /\ due' # <<>>
        /\ due'[Len(due) + 1] = op /\ \A i \in 1..Len(due) : due'[i] = due[i]
    BY <1>1, <1>2, AcceptTypes
  <1> HIDE DEF op
  <1>5. /\ Len(due) = level /\ produce = Place(consume, level) /\ opq[produce] = op
        /\ \A i \in 1..Len(due) : due[i] = opq[Place(consume, i - 1)]
        /\ level < OPQ_SIZE /\ (due # <<>> => pins = due[1])
    <2>1. Uncounted = 0 /\ Passed = 0
      BY DEF Uncounted, Passed
    <2> QED BY <1>1, <1>3, <2>1 DEF Due, op
  <1>6. Uncounted' = 1 /\ Passed' = 0
    BY DEF Uncounted, Passed
  <1>7. Len(due') = level' + Uncounted' /\ produce' = Place(consume, level' + Passed')
    BY <1>3, <1>4, <1>5, <1>6
  <1>8. ASSUME NEW i \in 1..Len(due') PROVE due'[i] = opq'[Place(consume, i - 1)]
    <2>1. CASE i \in 1..Len(due)
      BY <1>4, <1>5, <2>1
    <2>2. CASE i = Len(due) + 1
      <3>1. i - 1 = level
        BY <1>3, <1>5, <2>2
      <3> QED BY <1>4, <1>5, <2>2, <3>1
    <2> QED BY <1>4, <2>1, <2>2
  <1>9. pins' = due'[1]
    <2>1. CASE due = <<>>
      <3>1. Len(due) = 0
        BY <2>1, EmptySeq
      <3> QED BY <1>4, <1>5, <2>1, <3>1
    <2>2. CASE due # <<>>
      <3>1. Len(due) # 0
        BY <1>1, <2>2, LeftTypes
      <3>2. 1 \in 1..Len(due)
        BY <1>4, <3>1
      <3> QED BY <1>4, <1>5, <2>2, <3>2
    <2> QED BY <2>1, <2>2
  <1> QED BY <1>5, <1>7, <1>8, <1>9 DEF Due, Place

LEMMA WaitStep == SlowGood /\ QueueWait => SlowGood'
  <1> SUFFICES ASSUME SlowGood, QueueWait PROVE SlowGood'
    OBVIOUS
  <1>1. /\ handler = "idle" /\ queueing = "cts" /\ queueing' = "produce" /\ ~cts
        /\ Accept("main")
        /\ im1' = im1 /\ cts' = cts /\ timer1' = timer1 /\ ip1' = ip1
        /\ handler' = handler /\ irq1' = irq1 /\ split' = split /\ refused' = refused
        /\ opq' = opq /\ produce' = produce /\ consume' = consume /\ level' = level
        /\ pins' = pins /\ display' = display /\ sent' = sent
    BY DEF QueueWait, Main
  <1>2. SlowTyped /\ SlowCalls /\ SlowTimer
    BY DEF SlowGood
  <1>3. due # <<>> /\ todo["main"] # <<>> /\ "main" \in Senders
    BY <1>1, <1>2 DEF SlowTimer, SlowCalls, Senders
  <1>4. /\ todo' \in [Senders -> Seq(Ops)] /\ due' \in Seq(Ops) /\ due' # <<>>
        /\ todo'["isr"] = todo["isr"]
    BY <1>1, <1>2, <1>3, AcceptTypes DEF Senders
  <1>5. SlowTyped'
    BY <1>1, <1>2, <1>4 DEF SlowTyped
  <1>6. Due'
    BY <1>1, <1>3, AcceptedDue
  <1>7. SlowCalls'
    BY <1>1, <1>2, <1>4 DEF SlowCalls
  <1>8. SlowTimer'
    BY <1>1, <1>2, <1>3, <1>4 DEF SlowTimer
  <1>9. OneSends => OneSends'
    <2>1. todo["isr"] = <<>>
      BY <1>1, <1>2 DEF SlowCalls
    <2> QED BY <1>4, <2>1 DEF OneSends
  <1>10. OneSends /\ Follow => Follow'
    BY <1>1, <1>2, <1>3, AcceptFollow
  <1> QED BY <1>1, <1>5, <1>6, <1>7, <1>8, <1>9, <1>10 DEF SlowGood

LEMMA StartStep == SlowGood /\ QueueStart => SlowGood'
  <1> SUFFICES ASSUME SlowGood, QueueStart PROVE SlowGood'
    OBVIOUS
  <1>1. /\ handler = "idle" /\ queueing = "start" /\ queueing' = "produce"
        /\ Accept("main") /\ SlowStart(opq[produce])
        /\ im1' = im1 /\ cts' = cts /\ ip1' = ip1
        /\ handler' = handler /\ irq1' = irq1 /\ split' = split /\ refused' = refused
        /\ opq' = opq /\ produce' = produce /\ consume' = consume /\ level' = level
        /\ sent' = sent
    BY DEF QueueStart, Main
  <1>2. SlowTyped /\ Due /\ SlowCalls /\ SlowTimer
    BY DEF SlowGood
  <1>3. /\ due = <<>> /\ ~cts /\ todo["main"] # <<>> /\ "main" \in Senders
        /\ opq[produce] = Head(todo["main"])
    BY <1>1, <1>2 DEF SlowTimer, SlowCalls, Senders, Due
  <1>4. /\ todo' \in [Senders -> Seq(Ops)] /\ due' \in Seq(Ops) /\ due' # <<>>
        /\ todo'["isr"] = todo["isr"]
    BY <1>1, <1>2, <1>3, AcceptTypes DEF Senders
  <1>5. opq[produce] \in Ops
    BY <1>2 DEF SlowTyped
  <1>6. pins' = opq[produce] /\ timer1' = "on" /\ display' \in Displays
    BY <1>1, <1>2, <1>5, StartFacts
  <1>7. SlowTyped'
    BY <1>1, <1>2, <1>4, <1>5, <1>6 DEF SlowTyped
  <1>8. Due'
    BY <1>1, <1>3, <1>6, AcceptedDue
  <1>9. SlowCalls'
    BY <1>1, <1>2, <1>4 DEF SlowCalls
  <1>10. SlowTimer'
    BY <1>1, <1>2, <1>3, <1>4, <1>6 DEF SlowTimer
  <1>11. OneSends => OneSends'
    <2>1. todo["isr"] = <<>>
      BY <1>1, <1>2 DEF SlowCalls
    <2> QED BY <1>4, <2>1 DEF OneSends
  <1>12. OneSends /\ Follow => Follow'
    BY <1>1, <1>2, <1>3, AcceptFollow
  <1> QED BY <1>1, <1>7, <1>8, <1>9, <1>10, <1>11, <1>12 DEF SlowGood

\* The ring is gone past, then counted.
LEMMA ProduceStep == SlowGood /\ QueueProduce => SlowGood'
  <1> SUFFICES ASSUME SlowGood, QueueProduce PROVE SlowGood'
    OBVIOUS
  <1>1. /\ handler = "idle" /\ queueing = "produce" /\ queueing' = "level"
        /\ produce' = NextPlace(produce)
        /\ im1' = im1 /\ cts' = cts /\ timer1' = timer1 /\ ip1' = ip1
        /\ handler' = handler /\ irq1' = irq1 /\ split' = split /\ refused' = refused
        /\ opq' = opq /\ consume' = consume /\ level' = level /\ todo' = todo
        /\ pins' = pins /\ display' = display /\ sent' = sent /\ due' = due
    BY DEF QueueProduce, Main
  <1>2. SlowTyped /\ Due /\ SlowCalls /\ SlowTimer
    BY DEF SlowGood
  <1>3. produce \in Places /\ consume \in Places /\ level \in 0..OPQ_SIZE
    BY <1>2 DEF SlowTyped
  <1>4. produce' \in Places /\ produce' = Place(produce, 1)
    BY <1>1, <1>3, RoundPlace DEF NextPlace
  <1>5. Uncounted = 1 /\ Passed = 0 /\ Uncounted' = 1 /\ Passed' = 1
    BY <1>1 DEF Uncounted, Passed
  <1>6. produce = Place(consume, level) /\ level < OPQ_SIZE /\ Len(due) = level + 1
    BY <1>1, <1>2, <1>3, <1>5 DEF Due
  <1>7. produce' = Place(consume, level + 1)
    BY <1>3, <1>4, <1>6, PlaceFacts
  <1>8. SlowTyped'
    BY <1>1, <1>2, <1>4 DEF SlowTyped
  <1>9. Due'
    BY <1>1, <1>2, <1>5, <1>6, <1>7 DEF Due, Place
  <1>10. SlowCalls' /\ SlowTimer'
    BY <1>1, <1>2 DEF SlowCalls, SlowTimer
  <1>11. Left' = Left /\ (OneSends => OneSends')
    BY <1>1 DEF Left, OneSends
  <1>12. Follow => Follow'
    BY <1>1, <1>11 DEF Follow, OnPins
  <1> QED BY <1>1, <1>8, <1>9, <1>10, <1>11, <1>12 DEF SlowGood

LEMMA LevelStep == SlowGood /\ QueueLevel => SlowGood'
  <1> SUFFICES ASSUME SlowGood, QueueLevel PROVE SlowGood'
    OBVIOUS
  <1>1. /\ handler = "idle" /\ queueing = "level" /\ queueing' = "unmask"
        /\ level' = level + 1
        /\ im1' = im1 /\ cts' = cts /\ timer1' = timer1 /\ ip1' = ip1
        /\ handler' = handler /\ irq1' = irq1 /\ split' = split /\ refused' = refused
        /\ opq' = opq /\ produce' = produce /\ consume' = consume /\ todo' = todo
        /\ pins' = pins /\ display' = display /\ sent' = sent /\ due' = due
    BY DEF QueueLevel, Main
  <1>2. SlowTyped /\ Due /\ SlowCalls /\ SlowTimer
    BY DEF SlowGood
  <1>3. level \in 0..OPQ_SIZE /\ OPQ_SIZE \in Nat
    BY <1>2, SlowoutAssumption DEF SlowTyped
  <1>4. Uncounted = 1 /\ Passed = 1 /\ Uncounted' = 0 /\ Passed' = 0
    BY <1>1 DEF Uncounted, Passed
  <1>5. level < OPQ_SIZE
    BY <1>1, <1>2 DEF Due
  <1>6. level' \in 0..OPQ_SIZE /\ level' + Uncounted' = level + Uncounted
        /\ level' + Passed' = level + Passed
    BY <1>1, <1>3, <1>4, <1>5
  <1>7. SlowTyped'
    BY <1>1, <1>2, <1>6 DEF SlowTyped
  <1>8. Due'
    BY <1>1, <1>2, <1>6 DEF Due, Place
  <1>9. SlowCalls' /\ SlowTimer'
    BY <1>1, <1>2 DEF SlowCalls, SlowTimer
  <1>10. Left' = Left /\ (OneSends => OneSends')
    BY <1>1 DEF Left, OneSends
  <1>11. Follow => Follow'
    BY <1>1, <1>10 DEF Follow, OnPins
  <1> QED BY <1>1, <1>7, <1>8, <1>9, <1>10, <1>11 DEF SlowGood

\* A byte is begun by the one of the two, while the other has none.
LEMMA ByteTypes ==
  ASSUME SlowTyped, NEW c \in Senders, sent' = sent + 1,
         todo' = [todo EXCEPT ![c] = SendByte(sent + 1)]
  PROVE  /\ todo' \in [Senders -> Seq(Ops)] /\ sent' \in Nat
         /\ todo'[c] = SendByte(sent + 1) /\ todo'[c] # <<>>
         /\ \A d \in Senders \ {c} : todo'[d] = todo[d]
  <1>1. todo \in [Senders -> Seq(Ops)] /\ sent \in Nat
    BY DEF SlowTyped
  <1> DEFINE byte == SendByte(sent + 1)
  <1>2. byte \in Seq(Ops) /\ Len(byte) = 6
    BY <1>1, ByteFacts
  <1> HIDE DEF byte
  <1>3. byte # <<>>
    <2>1. Len(byte) # Len(<<>>)
      BY <1>2, EmptySeq
    <2> QED BY ONLY <2>1, Zenon
  <1>4. todo' = [todo EXCEPT ![c] = byte]
    BY DEF byte
  <1> QED BY <1>1, <1>2, <1>3, <1>4 DEF byte

LEMMA ByteStep == SlowGood /\ NextByte => SlowGood'
  <1> SUFFICES ASSUME SlowGood, NextByte PROVE SlowGood'
    OBVIOUS
  <1>1. /\ handler = "idle" /\ queueing = "no" /\ todo["main"] = <<>>
        /\ sent' = sent + 1 /\ todo' = [todo EXCEPT !["main"] = SendByte(sent + 1)]
        /\ queueing' = queueing
        /\ im1' = im1 /\ cts' = cts /\ timer1' = timer1 /\ ip1' = ip1
        /\ handler' = handler /\ irq1' = irq1 /\ split' = split /\ refused' = refused
        /\ opq' = opq /\ produce' = produce /\ consume' = consume /\ level' = level
        /\ pins' = pins /\ display' = display /\ due' = due
    BY DEF NextByte
  <1>2. SlowTyped /\ SlowCalls /\ SlowTimer /\ Due
    BY DEF SlowGood
  <1>3. todo["isr"] = <<>> /\ Left = <<>>
    BY <1>1, <1>2 DEF SlowCalls, Left
  <1>4. /\ todo' \in [Senders -> Seq(Ops)] /\ sent' \in Nat
        /\ todo'["main"] = SendByte(sent + 1) /\ todo'["main"] # <<>> /\ todo'["isr"] = <<>>
    BY <1>1, <1>2, <1>3, ByteTypes DEF Senders
  <1>5. Left' = SendByte(sent + 1) /\ OneSends'
    BY <1>4 DEF Left, OneSends
  <1>6. SlowTyped'
    BY <1>1, <1>2, <1>4 DEF SlowTyped
  <1>7. Due'
    BY <1>1, <1>2 DEF Due, Place, Uncounted, Passed
  <1>8. SlowCalls' /\ SlowTimer'
    BY <1>1, <1>2, <1>4 DEF SlowCalls, SlowTimer
  <1>9. Follow => Follow'
    BY <1>1, <1>2, <1>3, <1>5, FollowByte
  <1> QED BY <1>1, <1>5, <1>6, <1>7, <1>8, <1>9 DEF SlowGood

\* Outside slowout_queue, the handler may send a byte; it splits none if the main program has
\* no byte.
LEMMA IsrByteStep == SlowGood /\ IsrByte /\ ~entered' => SlowGood'
  <1> SUFFICES ASSUME SlowGood, IsrByte, ~entered' PROVE SlowGood'
    OBVIOUS
  <1>1. /\ handler \in {"tick", "key"} /\ queueing = "no" /\ todo["isr"] = <<>>
        /\ sent' = sent + 1 /\ todo' = [todo EXCEPT !["isr"] = SendByte(sent + 1)]
        /\ queueing' = queueing
        /\ im1' = im1 /\ cts' = cts /\ timer1' = timer1 /\ ip1' = ip1
        /\ handler' = handler /\ irq1' = irq1 /\ refused' = refused
        /\ (~split' => ~split /\ todo["main"] = <<>>)
        /\ opq' = opq /\ produce' = produce /\ consume' = consume /\ level' = level
        /\ pins' = pins /\ display' = display /\ due' = due
    BY DEF IsrByte
  <1>2. SlowTyped /\ SlowCalls /\ SlowTimer /\ Due
    BY DEF SlowGood
  <1>3. /\ todo' \in [Senders -> Seq(Ops)] /\ sent' \in Nat
        /\ todo'["isr"] = SendByte(sent + 1) /\ todo'["isr"] # <<>>
        /\ todo'["main"] = todo["main"]
    BY <1>1, <1>2, ByteTypes DEF Senders
  <1>4. SlowTyped'
    BY <1>1, <1>2, <1>3 DEF SlowTyped
  <1>5. Due'
    BY <1>1, <1>2 DEF Due, Place, Uncounted, Passed
  <1>6. SlowCalls' /\ SlowTimer'
    BY <1>1, <1>2, <1>3 DEF SlowCalls, SlowTimer
  <1>7. ~split' => OneSends'
    BY <1>1, <1>3 DEF OneSends
  <1>8. ASSUME ~split', ~refused' PROVE Follow'
    <2>1. Follow /\ Left = <<>> /\ Left' = SendByte(sent + 1)
      BY <1>1, <1>3, <1>8 DEF SlowGood, Left
    <2> QED BY <1>1, <1>2, <2>1, FollowByte
  <1> QED BY <1>4, <1>5, <1>6, <1>7, <1>8 DEF SlowGood

LEMMA TimerStep == SlowGood /\ Timer1 => SlowGood'
  <1> SUFFICES ASSUME SlowGood, Timer1 PROVE SlowGood'
    OBVIOUS
  <1>1. /\ timer1 = "on" /\ timer1' = "off" /\ ip1' = TRUE /\ im1' = im1 /\ cts' = cts
        /\ queueing' = queueing /\ handler' = handler /\ irq1' = irq1
    BY DEF Timer1, calls
  <1>2. SlowQuiet
    BY DEF Timer1, calls, SlowQuiet
  <1>3. SlowCalls' /\ SlowTimer'
    BY <1>1, <1>2 DEF SlowGood, SlowCalls, SlowTimer, SlowQuiet
  <1> QED BY <1>1, <1>2, <1>3, QuietStep, QuietDue DEF SlowGood

LEMMA EnterStep == SlowGood /\ SlowEnter => SlowGood'
  <1> SUFFICES ASSUME SlowGood, SlowEnter PROVE SlowGood'
    OBVIOUS
  <1>1. /\ handler = "idle" /\ handler' = "tick" /\ im1' = im1 /\ cts' = cts
        /\ timer1' = timer1 /\ ip1' = ip1 /\ queueing' = queueing
    BY DEF SlowEnter, Isr
  <1>2. irq1' => ip1 /\ im1
    BY Zenon DEF SlowEnter
  <1>3. SlowQuiet
    BY DEF SlowEnter, SlowQuiet
  <1>4. SlowCalls' /\ SlowTimer'
    BY <1>1, <1>2, <1>3 DEF SlowGood, SlowCalls, SlowTimer, SlowQuiet
  <1> QED BY <1>1, <1>3, <1>4, QuietStep, QuietDue DEF SlowGood

LEMMA AckStep == SlowGood /\ SlowAck => SlowGood'
  <1> SUFFICES ASSUME SlowGood, SlowAck PROVE SlowGood'
    OBVIOUS
  <1>1. /\ handler = "tick" /\ todo["isr"] = <<>> /\ im1' = im1 /\ cts' = cts
        /\ timer1' = timer1 /\ queueing' = queueing /\ irq1' = irq1
    BY DEF SlowAck, Isr
  <1>2. /\ irq1 => handler' = "serve" /\ ip1' = FALSE
        /\ ~irq1 => handler' = "key" /\ ip1' = ip1
    BY DEF SlowAck, Isr
  <1>3. SlowQuiet
    BY DEF SlowAck, SlowQuiet
  <1>4. SlowCalls' /\ SlowTimer'
    BY <1>1, <1>2, <1>3 DEF SlowGood, SlowCalls, SlowTimer, SlowQuiet
  <1> QED BY <1>1, <1>3, <1>4, QuietStep, QuietDue DEF SlowGood

LEMMA ReturnStep == SlowGood /\ SlowReturn => SlowGood'
  <1> SUFFICES ASSUME SlowGood, SlowReturn PROVE SlowGood'
    OBVIOUS
  <1>1. /\ handler = "key" /\ handler' = "idle" /\ todo["isr"] = <<>> /\ im1' = im1
        /\ cts' = cts /\ timer1' = timer1 /\ ip1' = ip1 /\ queueing' = queueing /\ irq1' = irq1
    BY DEF SlowReturn, Isr
  <1>2. SlowQuiet
    BY DEF SlowReturn, SlowQuiet
  <1>3. SlowCalls' /\ SlowTimer'
    BY <1>1, <1>2 DEF SlowGood, SlowCalls, SlowTimer, SlowQuiet
  <1> QED BY <1>1, <1>2, <1>3, QuietStep, QuietDue DEF SlowGood

\* The handler's operation goes through slowout_queue at once.
LEMMA IsrQueueStep == SlowGood /\ IsrQueue => SlowGood'
  <1> SUFFICES ASSUME SlowGood, IsrQueue PROVE SlowGood'
    OBVIOUS
  <1> DEFINE op == Head(todo["isr"])
  <1>1. /\ handler \in {"tick", "key"} /\ todo["isr"] # <<>>
        /\ consume' = consume /\ ip1' = ip1 /\ im1' = im1 /\ queueing' = queueing
        /\ handler' = handler /\ irq1' = irq1 /\ sent' = sent /\ split' = split
    BY DEF IsrQueue
  <1>2. SlowTyped /\ SlowCalls /\ SlowTimer /\ Due
    BY DEF SlowGood
  <1>3. /\ opq \in [Places -> Ops] /\ produce \in Places /\ consume \in Places
        /\ level \in 0..OPQ_SIZE /\ OPQ_SIZE \in Nat \ {0} /\ "isr" \in Senders
        /\ pins \in Ops /\ display \in Displays
    BY <1>2, SlowoutAssumption DEF SlowTyped, Senders
  <1>4. queueing = "no" /\ (cts <=> due = <<>>)
    BY <1>1, <1>2 DEF SlowCalls, SlowTimer
  <1>5. /\ Len(due) = level /\ produce = Place(consume, level)
        /\ \A i \in 1..Len(due) : due[i] = opq[Place(consume, i - 1)]
        /\ due # <<>> => pins = due[1]
    <2>1. Uncounted = 0 /\ Passed = 0
      BY <1>4 DEF Uncounted, Passed
    <2> QED BY <1>2, <1>3, <2>1 DEF Due
  <1>6. Uncounted' = 0 /\ Passed' = 0
    BY <1>1, <1>4 DEF Uncounted, Passed
  <1>7. CASE QueueFull
    <2>1. /\ refused' = TRUE /\ todo' = [todo EXCEPT !["isr"] = Tail(@)]
          /\ opq' = opq /\ produce' = produce /\ level' = level /\ cts' = cts
          /\ pins' = pins /\ timer1' = timer1 /\ due' = due /\ display' = display
      BY <1>7 DEF IsrQueue
    <2>2. todo' \in [Senders -> Seq(Ops)] /\ todo'["main"] = todo["main"]
      <3>1. todo["isr"] \in Seq(Ops) /\ todo \in [Senders -> Seq(Ops)]
        BY <1>2, LeftTypes DEF SlowTyped
      <3>2. Tail(todo["isr"]) \in Seq(Ops)
        BY <1>1, <3>1, HeadTailProperties
      <3> QED BY <2>1, <3>1, <3>2 DEF Senders
    <2>3. SlowTyped'
      BY <1>1, <1>2, <2>1, <2>2 DEF SlowTyped
    <2>4. Due'
      BY <1>1, <1>2, <2>1, <1>4 DEF Due, Place, Uncounted, Passed
    <2>5. SlowCalls' /\ SlowTimer'
      BY <1>1, <1>2, <1>4, <2>1 DEF SlowCalls, SlowTimer
    <2>6. OneSends => OneSends'
      BY <1>1, <2>2 DEF OneSends
    <2> QED BY <1>1, <2>1, <2>3, <2>4, <2>5, <2>6 DEF SlowGood
  <1>8. CASE ~QueueFull
    <2>1. /\ opq' = [opq EXCEPT ![produce] = op] /\ produce' = NextPlace(produce)
          /\ level' = level + 1 /\ Accept("isr") /\ cts' = FALSE /\ refused' = refused
      BY <1>8 DEF IsrQueue
    <2>2. /\ cts => SlowStart(op)
          /\ ~cts => pins' = pins /\ timer1' = timer1 /\ display' = display
      BY <1>8 DEF IsrQueue
    <2>3. /\ op \in Ops /\ todo' \in [Senders -> Seq(Ops)] /\ due' \in Seq(Ops)
          /\ todo'["main"] = todo["main"]
          /\ Len(due) \in Nat /\ Len(due') = Len(due) + 1 /\ due' # <<>>
          /\ due'[Len(due) + 1] = op /\ \A i \in 1..Len(due) : due'[i] = due[i]
      BY <1>1, <1>2, <1>3, <2>1, AcceptTypes DEF Senders
    <2>4. due = <<>> => SlowStart(Head(todo["isr"]))
      BY <1>4, <2>2
    <2>5. due # <<>> => pins' = pins /\ timer1' = timer1 /\ display' = display
      BY <1>4, <2>2
    <2>6. OneSends /\ Follow => Follow' /\ OneSends'
      BY <1>1, <1>2, <1>3, <2>1, <2>4, <2>5, AcceptFollow
    <2>7. OneSends => OneSends'
      BY <1>1, <2>3 DEF OneSends
    <2> HIDE DEF op
    <2>8. due = <<>> => pins' = op /\ timer1' = "on" /\ display' \in Displays
      BY <1>2, <2>3, <2>4, StartFacts DEF op
    <2>9. level < OPQ_SIZE
      BY <1>3, <1>8 DEF QueueFull
    <2>10. produce' \in Places /\ produce' = Place(consume, level + 1)
      <3>1. produce' \in Places /\ produce' = Place(produce, 1)
        BY <1>3, <2>1, RoundPlace DEF NextPlace
      <3>2. Place(Place(consume, level), 1) = Place(consume, level + 1)
        BY <1>3, <2>9, PlaceFacts
      <3> QED BY <1>5, <3>1, <3>2
    <2>11. SlowTyped'
      <3>1. level' \in 0..OPQ_SIZE
        BY <1>3, <2>1, <2>9
      <3>2. pins' \in Ops /\ display' \in Displays
        BY <1>3, <2>3, <2>5, <2>8
      <3>3. opq' \in [Places -> Ops]
        BY <1>3, <2>1, <2>3
      <3> QED BY <1>1, <1>2, <2>3, <2>10, <3>1, <3>2, <3>3 DEF SlowTyped
    <2>12. Due'
      <3>1. Len(due') = level' + Uncounted' /\ produce' = Place(consume, level' + Passed')
        BY <1>3, <1>5, <1>6, <2>1, <2>3, <2>10
      <3>2. ASSUME NEW i \in 1..Len(due') PROVE due'[i] = opq'[Place(consume, i - 1)]
        <4>1. CASE i \in 1..Len(due)
          <5>1. i - 1 \in 0..OPQ_SIZE /\ i - 1 \in 0..(level - 1)
            BY <1>3, <1>5, <4>1
          <5>2. Place(consume, i - 1) # produce /\ Place(consume, i - 1) \in Places
            BY <1>3, <1>5, <2>9, <5>1, PlaceFacts
          <5> QED BY <1>3, <1>5, <2>1, <2>3, <4>1, <5>2
        <4>2. CASE i = Len(due) + 1
          <5>1. i - 1 = level
            BY <1>3, <1>5, <4>2
          <5>2. opq'[produce] = op
            BY <1>3, <2>1
          <5> QED BY <1>5, <2>3, <4>2, <5>1, <5>2
        <4> QED BY <2>3, <4>1, <4>2
      <3>3. pins' = due'[1]
        <4>1. CASE due = <<>>
          <5>1. Len(due) = 0
            BY <4>1, EmptySeq
          <5> QED BY <2>3, <2>8, <4>1, <5>1
        <4>2. CASE due # <<>>
          <5>1. Len(due) # 0
            BY <1>2, <4>2, LeftTypes
          <5>2. 1 \in 1..Len(due)
            BY <2>3, <5>1
          <5> QED BY <1>5, <2>3, <2>5, <4>2, <5>2
        <4> QED BY <4>1, <4>2
      <3> QED BY <1>1, <1>4, <3>1, <3>2, <3>3 DEF Due, Place
    <2>13. SlowCalls'
      BY <1>1, <1>2, <1>4 DEF SlowCalls
    <2>14. SlowTimer'
      BY <1>1, <1>2, <1>4, <2>1, <2>3, <2>5, <2>8 DEF SlowTimer
    <2> QED BY <1>1, <2>1, <2>6, <2>7, <2>11, <2>12, <2>13, <2>14 DEF SlowGood
  <1> QED BY <1>7, <1>8

\* The interrupt ends the first of the operations that are due and starts the one behind it.
LEMMA ServeStep == SlowGood /\ SlowIsr => SlowGood'
  <1> SUFFICES ASSUME SlowGood, SlowIsr PROVE SlowGood'
    OBVIOUS
  <1>1. /\ handler = "serve" /\ handler' = "key"
        /\ consume' = NextPlace(consume) /\ level' = level - 1
        /\ opq' = opq /\ produce' = produce /\ ip1' = ip1 /\ im1' = im1 /\ queueing' = queueing
        /\ irq1' = irq1 /\ todo' = todo /\ sent' = sent /\ refused' = refused /\ split' = split
    BY DEF SlowIsr, Isr
  <1>2. /\ level # 1 => SlowStart(opq[consume']) /\ cts' = cts
        /\ level = 1 => cts' = TRUE /\ pins' = pins /\ timer1' = timer1 /\ display' = display
    BY DEF SlowIsr
  <1>3. SlowTyped /\ SlowCalls /\ SlowTimer /\ Due
    BY DEF SlowGood
  <1>4. /\ opq \in [Places -> Ops] /\ produce \in Places /\ consume \in Places
        /\ level \in 0..OPQ_SIZE /\ OPQ_SIZE \in Nat \ {0} /\ due \in Seq(Ops)
        /\ pins \in Ops /\ display \in Displays
    BY <1>3, SlowoutAssumption DEF SlowTyped
  <1>5. queueing = "no" /\ due # <<>> /\ ~cts /\ timer1 = "off" /\ ~ip1 /\ todo["isr"] = <<>>
    BY <1>1, <1>3 DEF SlowCalls, SlowTimer
  <1>6. /\ Len(due) = level /\ produce = Place(consume, level)
        /\ \A i \in 1..Len(due) : due[i] = opq[Place(consume, i - 1)]
    <2>1. Uncounted = 0 /\ Passed = 0
      BY <1>5 DEF Uncounted, Passed
    <2> QED BY <1>3, <1>4, <2>1 DEF Due
  <1>7. level > 0 /\ pins = due[1]
    <2>1. Len(due) # 0
      BY <1>3, <1>5, LeftTypes
    <2>2. pins = due[1]
      BY <1>3, <1>5 DEF Due
    <2> QED BY <1>4, <1>6, <2>1, <2>2
  <1>8. /\ due' = Tail(due) /\ due' \in Seq(Ops) /\ Len(due') = level - 1
        /\ \A i \in 1..(level - 1) : due'[i] = due[i + 1]
    <2>1. due' = Tail(due)
      BY <1>5 DEF SlowIsr, Ended
    <2> QED BY <1>4, <1>5, <1>6, <2>1, HeadTailProperties
  <1>9. due' = <<>> <=> level = 1
    <2>1. due' = <<>> <=> Len(due') = 0
      BY <1>8, EmptySeq
    <2> QED BY <1>4, <1>8, <2>1
  <1>10. consume' \in Places /\ consume' = Place(consume, 1)
    BY <1>1, <1>4, RoundPlace DEF NextPlace
  <1>11. ASSUME NEW i \in 1..(level - 1)
         PROVE  due'[i] = opq[Place(consume', i - 1)] /\ due'[i] = due[i + 1]
    <2>1. i - 1 \in 0..OPQ_SIZE /\ i - 1 < OPQ_SIZE /\ (i - 1) + 1 = i
      BY <1>4
    <2>2. Place(consume', i - 1) = Place(consume, i)
      BY <1>4, <1>10, <2>1, PlaceFacts
    <2>3. i + 1 \in 1..Len(due) /\ (i + 1) - 1 = i
      BY <1>4, <1>6
    <2>4. due[i + 1] = opq[Place(consume, i)]
      BY <1>6, <2>3
    <2> QED BY <1>8, <2>2, <2>4
  <1>12. ASSUME level # 1
         PROVE  /\ opq[consume'] = due[2] /\ due[2] = due'[1] /\ SlowStart(due[2]) /\ cts' = cts
                /\ pins' = due'[1] /\ pins' \in Ops /\ timer1' = "on" /\ display' \in Displays
    <2>1. 1 \in 1..(level - 1) /\ 1 - 1 = 0 /\ 1 + 1 = 2
      BY <1>4, <1>7, <1>12
    <2>2. Place(consume', 0) = consume'
      BY <1>4, <1>10 DEF Place, Places
    <2>3. due'[1] = opq[consume'] /\ due'[1] = due[2]
      BY <1>11, <2>1, <2>2
    <2>4. opq[consume'] \in Ops
      BY <1>4, <1>10
    <2>5. SlowStart(opq[consume']) /\ cts' = cts
      BY <1>2, <1>12
    <2>6. pins' = opq[consume'] /\ timer1' = "on" /\ display' \in Displays
      BY <1>3, <2>4, <2>5, StartFacts
    <2> QED BY <2>3, <2>4, <2>5, <2>6
  <1>13. SlowTyped'
    <2>1. level' \in 0..OPQ_SIZE
      BY <1>1, <1>4, <1>7
    <2>2. pins' \in Ops /\ display' \in Displays
      BY <1>2, <1>4, <1>12
    <2> QED BY <1>1, <1>3, <1>8, <1>10, <2>1, <2>2 DEF SlowTyped
  <1>14. Due'
    <2>1. Uncounted' = 0 /\ Passed' = 0
      BY <1>1, <1>5 DEF Uncounted, Passed
    <2>2. Len(due') = level' + Uncounted'
      BY <1>1, <1>4, <1>8, <2>1
    <2>3. produce' = Place(consume', level' + Passed')
      <3>1. level - 1 \in 0..OPQ_SIZE /\ level - 1 < OPQ_SIZE /\ (level - 1) + 1 = level
            /\ level' + Passed' = level - 1
        BY <1>1, <1>4, <1>7, <2>1
      <3>2. Place(consume', level - 1) = Place(consume, level)
        BY <1>4, <1>10, <3>1, PlaceFacts
      <3> QED BY <1>1, <1>6, <3>1, <3>2
    <2>4. \A i \in 1..Len(due') : due'[i] = opq'[Place(consume', i - 1)]
      BY <1>1, <1>8, <1>11
    <2>5. due' # <<>> => pins' = due'[1]
      BY <1>9, <1>12
    <2> QED BY <1>1, <1>5, <2>2, <2>3, <2>4, <2>5 DEF Due, Place
  <1>15. SlowCalls'
    BY <1>1, <1>3, <1>5 DEF SlowCalls
  <1>16. SlowTimer'
    <2>1. CASE level = 1
      BY <1>1, <1>2, <1>5, <1>9, <2>1 DEF SlowTimer
    <2>2. CASE level # 1
      BY <1>1, <1>5, <1>9, <1>12, <2>2 DEF SlowTimer
    <2> QED BY <2>1, <2>2
  <1>17. Left' = Left /\ (OneSends => OneSends')
    BY <1>1 DEF Left, OneSends
  <1>18. Follow => Follow'
    <2>1. Len(due) > 1 => SlowStart(due[2])
      BY <1>6, <1>12
    <2>2. Len(due) <= 1 => pins' = pins /\ display' = display
      BY <1>2, <1>4, <1>6, <1>7
    <2> QED BY <1>1, <1>3, <1>5, <1>8, <1>17, <2>1, <2>2, FollowEnded
  <1> QED BY <1>1, <1>13, <1>14, <1>15, <1>16, <1>17, <1>18 DEF SlowGood

\* Once the handler has sent inside slowout_queue, this is not forgotten; it has split a byte.
LEMMA EnteredStays ==
  [SlowNext]_slowVars => (entered => entered') /\ ((entered => split) => (entered' => split'))
  <1> SUFFICES ASSUME [SlowNext]_slowVars
               PROVE  (entered => entered') /\ ((entered => split) => (entered' => split'))
    OBVIOUS
  <1>1. CASE IsrByte
    BY <1>1, Zenon DEF IsrByte
  <1>2. CASE ~IsrByte
    <2>1. entered' = entered /\ split' = split
      BY <1>2 DEF SlowNext, slowVars, calls, Timer1, NextByte, SlowQueue, QueueMask, QueueRefuse,
         QueueStore, QueueWait, QueueClear, QueueStart, QueueProduce, QueueLevel, QueueUnmask,
         SlowEnter, IsrQueue, SlowAck, SlowIsr, SlowReturn
    <2> QED BY <2>1
  <1> QED BY <1>1, <1>2

LEMMA SlowStep == SlowInv /\ [SlowNext]_slowVars => SlowInv'
  <1> SUFFICES ASSUME SlowInv, [SlowNext]_slowVars PROVE SlowInv'
    OBVIOUS
  <1>0. (entered => entered') /\ ((entered => split) => (entered' => split'))
    BY EnteredStays
  <1> SUFFICES ASSUME ~entered' PROVE SlowGood'
    BY <1>0 DEF SlowInv
  <1>1. SlowGood
    BY <1>0 DEF SlowInv
  <1>2. CASE UNCHANGED slowVars
    <2>1. SlowQuiet /\ queueing' = queueing
      BY <1>2 DEF slowVars, calls, SlowQuiet
    <2>2. SlowCalls' /\ SlowTimer'
      BY <1>1, <1>2 DEF slowVars, calls, SlowGood, SlowCalls, SlowTimer
    <2> QED BY <1>1, <2>1, <2>2, QuietStep, QuietDue DEF SlowGood
  <1>3. CASE SlowQueue
    BY <1>1, <1>3, MaskStep, RefuseStep, StoreStep, WaitStep, ClearStep, StartStep, ProduceStep,
       LevelStep, UnmaskStep DEF SlowQueue
  <1>4. CASE SlowEnter \/ IsrByte \/ IsrQueue \/ SlowAck \/ SlowIsr \/ SlowReturn
    BY <1>1, <1>4, EnterStep, IsrByteStep, IsrQueueStep, AckStep, ServeStep, ReturnStep
  <1> QED BY <1>1, <1>2, <1>3, <1>4, TimerStep, ByteStep DEF SlowNext

LEMMA SlowEnough == SlowInv => SlowRight
  <1> SUFFICES ASSUME SlowInv PROVE SlowRight
    OBVIOUS
  <1>1. ASSUME ~entered
        PROVE  /\ due # <<>> => pins = Head(due) /\ (timer1 = "on" \/ ip1 \/ handler = "serve")
               /\ due = <<>> => timer1 = "off" /\ ~ip1 /\ handler # "serve"
               /\ queueing # "start" => (cts <=> due = <<>>)
    <2>1. SlowTyped /\ Due /\ SlowTimer
      BY <1>1 DEF SlowInv, SlowGood
    <2>2. due # <<>> => pins = Head(due)
      BY <2>1, HeadTailProperties DEF Due, SlowTyped
    <2> QED BY <2>1, <2>2 DEF SlowTimer
  <1>2. ASSUME ~split, ~refused
        PROVE  /\ ~display.confused
               /\ due = <<>> /\ todo["main"] = <<>> /\ todo["isr"] = <<>> => display.took = sent
    <2>1. SlowTyped /\ Follow
      BY <1>2 DEF SlowInv, SlowGood
    <2>2. ~display.confused
      BY <2>1 DEF Follow, Shown
    <2>3. ASSUME due = <<>>, todo["main"] = <<>>, todo["isr"] = <<>> PROVE display.took = sent
      <3>1. Len(due) = 0 /\ Len(Left) = 0 /\ sent \in Nat
        BY <2>1, <2>3, EmptySeq DEF Left, SlowTyped
      <3>2. OnPins = 6 * sent
        BY <2>3, <3>1 DEF OnPins
      <3>3. (6 * sent) \div 6 = sent /\ ~(6 * sent < 0)
        BY <3>1
      <3>4. Shown(display, 6 * sent)
        BY <2>1, <3>2 DEF Follow
      <3> QED BY <3>3, <3>4 DEF Shown
    <2> QED BY <2>2, <2>3
  <1> QED BY <1>1, <1>2 DEF SlowRight

\* With the main program and the handler sending, for every size of the ring and every number of
\* bytes: the pins show the operations that were accepted in their order, each until timer 1 has
\* ended it, until the handler sends inside the main program's slowout_queue; and the display
\* takes the bytes that were sent, until the handler also sends inside one of the main program's
\* bytes or an operation is refused (slowout.c, hdlcd.c).
THEOREM OutputsAreRight == SlowSpec => []SlowRight
  BY SlowInitStep, SlowStep, SlowEnough, PTL DEF SlowSpec

-----------------------------------------------------------------------------
(* Both together *)

\* Neither timer disturbs the other's software: with a step of the one between any two of the
\* other, the time and the load are right, and the outputs until the handler's get between the
\* main program's, for every frequency, every size of the queue and every number of bytes
\* (time.c, cpustats.c, slowout.c, hdlcd.c).
THEOREM TimersAreRight == TimersSpec => []TimersRight
  <1>1. TimersInit => ClockInv /\ SlowInv
    BY ClockInitInv, SlowInitStep DEF TimersInit
  <1>2. ClockInv /\ SlowInv /\ [TimersNext]_timersVars => (ClockInv /\ SlowInv)'
    <2>1. [TimersNext]_timersVars => [ClockNext]_clockVars /\ [SlowNext]_slowVars
      BY DEF TimersNext, timersVars
    <2> QED BY <2>1, ClockStep, SlowStep
  <1>3. ClockInv /\ SlowInv => TimersRight
    BY ClockEnough, SlowEnough DEF TimersRight
  <1> QED BY <1>1, <1>2, <1>3, PTL DEF TimersSpec
=============================================================================
