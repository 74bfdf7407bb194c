---------------------------- MODULE MemoryProofs ----------------------------
(***************************************************************************)
(* What is proved of memory.                                               *)
(*                                                                         *)
(* Of the page allocator and of the heap of kmalloc, for every memory map, *)
(* every page size and every history of requests: each usable page is free *)
(* or belongs to one caller, and first fit neither misses a run of free    *)
(* pages that is long enough nor goes past the lowest one; the ring of     *)
(* free blocks of the heap is sorted and merged, and each unit is free or  *)
(* in one block in use.                                                    *)
(*                                                                         *)
(* Of the memory of processes, in the second half, for all numbers of      *)
(* processes, pages and page tables and all programs: each frame is free   *)
(* or has one use in one process, and what page tables make of the frames  *)
(* is an address space of its own for every process.                       *)
(***************************************************************************)
EXTENDS Slob, Vm, NatProofs, SequenceTheorems


\* The lengths in prop are those of the longest runs in the set of pages F.
Block(F, prop, h) == /\ Run(h, prop[h]) \subseteq F
                     /\ \A q \in Run(h, prop[h]) : q # h => prop[q] = 0

BlocksRight(F, prop) ==
    /\ \A h \in F : prop[h] # 0 => Block(F, prop, h) /\ h + prop[h] \notin F
    /\ \A q \in F : \E h \in F : prop[h] # 0 /\ q \in Run(h, prop[h])

Ascending(s) == \A i, j \in DOMAIN s : i < j => s[i] < s[j]

FreeArea(f) ==
    /\ f.list \in Seq(Page)
    /\ f.property \in [Page -> Nat]
    /\ f.nrFree = Len(f.list)
    /\ Ascending(f.list)
    /\ BlocksRight(ToSet(f.list), f.property)

\* The pages of the block b, and what is known of the blocks handed out: they
\* have the pages of U that are not free, are still reserved, and only their
\* first page may have a length left over.
Pages(b) == Run(b[1], b[2])
Taken(H) == UNION {Pages(b) : b \in H}

HandedOut(f, H, U) ==
    /\ \A b \in H : /\ b \in Page \X (Nat \ {0}) /\ b[1] \in f.reserved
                    /\ Pages(b) \subseteq Page
                    /\ Pages(b) \cap ToSet(f.list) = {}
                    /\ \A q \in Pages(b) : q # b[1] => f.property[q] = 0
    /\ \A a, b \in H : a # b => Pages(a) \cap Pages(b) = {}
    /\ U = Taken(H) \cup ToSet(f.list)

AreaInv(f, H, U) == FreeArea(f) /\ HandedOut(f, H, U)

\* What the invariant of kmalloc adds: its large objects are blocks it holds.
Booting == /\ zone \in 0 .. Len(Zones)
           /\ ~ Booted => held = {}

LargeHeld == /\ Large \subseteq held
             /\ \A f, g \in bigblocks : f # g => f.page # g.page

MemoryInv == AreaInv(Area, held, Usable) /\ Booting /\ LargeHeld

-----------------------------------------------------------------------------
(* Runs of pages, and the lengths of blocks when a zone is added, a block   *)
(* is cut or a run of pages comes back.                                     *)

LEMMA Runs ==
  ASSUME NEW b \in Int, NEW n \in Int
  PROVE  \A x : x \in Run(b, n) <=> x \in Int /\ b <= x /\ x < b + n
BY DEF Run

LEMMA PagesAre ==
  /\ NPage \in Nat
  /\ \A p : p \in Page <=> p \in Nat /\ p < NPage
BY ZonesAssumption DEF Page

\* A page in no block but the next one follows a block that ends there.
LEMMA BlocksDisjoint ==
  ASSUME NEW F \in SUBSET Nat, NEW prop, \A q \in F : prop[q] \in Nat,
         BlocksRight(F, prop),
         NEW g \in F, NEW h \in F, prop[g] # 0, prop[h] # 0, g < h
  PROVE  g + prop[g] < h
<1>1. h \notin Run(g, prop[g])
  BY DEF BlocksRight, Block
<1>2. g + prop[g] <= h
  BY <1>1, Runs
<1> QED BY <1>2 DEF BlocksRight

\* p2 are the lengths when a block above all others comes to F.
Adds(F, prop, b, n, p2) ==
    /\ F \in SUBSET Nat /\ (\A q \in F : prop[q] \in Nat) /\ BlocksRight(F, prop)
    /\ b \in Nat /\ n \in Nat \ {0} /\ \A q \in F : q + 1 < b
    /\ p2[b] = n /\ \A q \in Run(b, n) : q # b => p2[q] = 0
    /\ \A q \in F : p2[q] = prop[q]

LEMMA ZoneBlocks ==
  ASSUME NEW F, NEW prop, NEW b, NEW n, NEW p2, Adds(F, prop, b, n, p2)
  PROVE  BlocksRight(F \cup Run(b, n), p2)
<1>0. /\ F \in SUBSET Nat /\ (\A q \in F : prop[q] \in Nat) /\ BlocksRight(F, prop)
      /\ b \in Nat /\ n \in Nat \ {0} /\ \A q \in F : q + 1 < b
      /\ p2[b] = n /\ \A q \in Run(b, n) : q # b => p2[q] = 0
      /\ \A q \in F : p2[q] = prop[q]
  BY DEF Adds
<1> USE <1>0
<1> DEFINE G == F \cup Run(b, n)
<1>1. \A q \in Run(b, n) : q \in Nat /\ q >= b /\ q < b + n /\ q \notin F
  BY Runs
<1>2. b \in Run(b, n) /\ b + n \notin F /\ b + n \notin Run(b, n)
  BY Runs
<1>3. ASSUME NEW h \in G, p2[h] # 0
      PROVE  Block(G, p2, h) /\ h + p2[h] \notin G
  <2>1. CASE h \in F
    <3>1. p2[h] = prop[h] /\ Block(F, prop, h) /\ h + prop[h] \notin F
      BY <2>1, <1>3 DEF BlocksRight
    <3>2. h + prop[h] - 1 \in F
      <4>1. h + prop[h] - 1 \in Run(h, prop[h])
        BY <2>1, <1>3, <3>1, Runs
      <4> QED BY <4>1, <3>1 DEF Block
    <3>3. h + prop[h] < b
      BY <3>2, <2>1
    <3>4. Block(G, p2, h)
      BY <3>1, <2>1 DEF Block
    <3>5. h + prop[h] \notin Run(b, n)
      BY <3>3, <1>1
    <3> QED BY <3>1, <3>4, <3>5
  <2>2. CASE h \notin F
    <3>1. h = b
      BY <2>2, <1>3
    <3> QED BY <3>1, <1>2 DEF Block
  <2> QED BY <2>1, <2>2
<1>4. ASSUME NEW q \in G PROVE \E h \in G : p2[h] # 0 /\ q \in Run(h, p2[h])
  <2>1. CASE q \in F
    BY <2>1 DEF BlocksRight
  <2>2. CASE q \in Run(b, n)
    BY <2>2, <1>2
  <2> QED BY <2>1, <2>2
<1> QED BY <1>3, <1>4 DEF BlocksRight

Lengths(F, prop) == /\ F \in SUBSET Nat
                    /\ \A q \in F : prop[q] \in Nat
                    /\ BlocksRight(F, prop)

\* p2 are the lengths when the first n pages of the block at h are gone.
Cuts(F, prop, h, n, p2) ==
    /\ Lengths(F, prop) /\ h \in F /\ n \in Nat \ {0} /\ prop[h] >= n
    /\ prop[h] > n => p2[h + n] = prop[h] - n
    /\ \A q \in F : q # h + n => p2[q] = prop[q]

LEMMA CutBlocks ==
  ASSUME NEW F, NEW prop, NEW h, NEW n, NEW p2, Cuts(F, prop, h, n, p2)
  PROVE  BlocksRight(F \ Run(h, n), p2)
<1>0. /\ F \in SUBSET Nat /\ (\A q \in F : prop[q] \in Nat) /\ BlocksRight(F, prop)
      /\ h \in F /\ n \in Nat \ {0} /\ prop[h] >= n
      /\ prop[h] > n => p2[h + n] = prop[h] - n
      /\ \A q \in F : q # h + n => p2[q] = prop[q]
  BY DEF Cuts, Lengths
<1> USE <1>0
<1> DEFINE G == F \ Run(h, n)
           r == h + n
<1>1. Block(F, prop, h) /\ h + prop[h] \notin F
  BY DEF BlocksRight
<1>2. ASSUME prop[h] > n
      PROVE  /\ r \in G /\ p2[r] = prop[h] - n /\ prop[r] = 0
             /\ Run(r, p2[r]) \subseteq G /\ r + p2[r] = h + prop[h]
             /\ \A q \in Run(r, p2[r]) : q # r => p2[q] = 0
             /\ \A q \in Run(h, prop[h]) : q \in Run(h, n) \/ q \in Run(r, p2[r])
  <2>1. p2[r] = prop[h] - n /\ r \in Int /\ p2[r] \in Int
    BY <1>2
  <2>2. \A q \in Run(r, p2[r]) : q \in Run(h, prop[h]) /\ q \notin Run(h, n) /\ q # h
    BY <2>1, Runs
  <2>3. r \in Run(r, p2[r])
    BY <1>2, <2>1, Runs
  <2>4. \A q \in Run(h, prop[h]) : q \in Run(h, n) \/ q \in Run(r, p2[r])
    BY <2>1, Runs
  <2>5. \A q \in Run(r, p2[r]) : q \in G /\ prop[q] = 0
    BY <2>2, <1>1 DEF Block
  <2>6. r \in G /\ prop[r] = 0
    BY <2>3, <2>5
  <2>7. \A q \in Run(r, p2[r]) : q # r => p2[q] = 0
    BY <2>5
  <2>8. r + p2[r] = h + prop[h]
    BY <2>1
  <2> QED BY <2>1, <2>4, <2>5, <2>6, <2>7, <2>8
<1>3. prop[h] = n => r \notin F
  BY <1>1
<1>4. ASSUME NEW g \in G, prop[g] # 0
      PROVE  /\ g # r /\ p2[g] = prop[g] /\ Block(G, p2, g)
             /\ g + p2[g] \notin F
  <2>1. g # r /\ g # h /\ p2[g] = prop[g]
    <3>1. h \in Run(h, n)
      BY Runs
    <3> QED BY <3>1, <1>2, <1>3, <1>4
  <2>2. Block(F, prop, g) /\ g + prop[g] \notin F
    BY <1>4 DEF BlocksRight
  <2>3. h + prop[h] < g \/ g + prop[g] < h
    BY <1>4, <2>1, BlocksDisjoint
  <2>4. \A q \in Run(g, prop[g]) : q \notin Run(h, n) /\ q # r
    BY <2>3, <1>4, <1>2, <1>3, Runs
  <2> QED BY <2>1, <2>2, <2>4 DEF Block
<1>5. ASSUME NEW g \in G, p2[g] # 0
      PROVE  Block(G, p2, g) /\ g + p2[g] \notin G
  <2>1. CASE prop[g] # 0
    BY <2>1, <1>4
  <2>2. CASE prop[g] = 0
    <3>1. g = r /\ prop[h] > n
      BY <2>2, <1>5, <1>3
    <3> QED BY <3>1, <1>2, <1>1 DEF Block
  <2> QED BY <2>1, <2>2
<1>6. ASSUME NEW q \in G PROVE \E g \in G : p2[g] # 0 /\ q \in Run(g, p2[g])
  <2>1. PICK g \in F : prop[g] # 0 /\ q \in Run(g, prop[g])
    BY DEF BlocksRight
  <2>2. CASE g = h
    <3>1. q \notin Run(h, n) /\ q \in Run(h, prop[h])
      BY <2>1, <2>2
    <3>2. prop[h] > n
      BY <3>1, Runs
    <3> QED BY <3>1, <3>2, <1>2
  <2>3. CASE g # h
    <3>1. h + prop[h] < g \/ g + prop[g] < h
      BY <2>1, <2>3, BlocksDisjoint
    <3>2. g \in G
      BY <3>1, Runs
    <3> QED BY <3>2, <2>1, <1>4
  <2> QED BY <2>2, <2>3
<1> QED BY <1>5, <1>6 DEF BlocksRight

\* BlocksRight, but for a block that ends where the one at b begins.
AllButOne(F, prop, b) ==
    /\ \A h \in F : prop[h] # 0 =>
          Block(F, prop, h) /\ (h + prop[h] \notin F \/ h + prop[h] = b)
    /\ \A q \in F : \E h \in F : prop[h] # 0 /\ q \in Run(h, prop[h])

\* p2 are the lengths when the n pages at b have become a block, together
\* with the block right after them.
Links(F, prop, b, n, p2) ==
    /\ Lengths(F, prop) /\ b \in Nat /\ n \in Nat \ {0} /\ Run(b, n) \cap F = {}
    /\ \A q \in Run(b, n) : q # b => prop[q] = 0
    /\ b + n \in F => p2[b] = n + prop[b + n] /\ p2[b + n] = 0
    /\ b + n \notin F => p2[b] = n
    /\ \A q \in F \cup Run(b, n) : q # b /\ q # b + n => p2[q] = prop[q]

\* The block at b is right but for the one before it.
Linked(G, prop, b) == /\ AllButOne(G, prop, b) /\ b \in G /\ prop[b] # 0
                      /\ G \in SUBSET Nat /\ \A q \in G : prop[q] \in Nat

LEMMA LinkBlocks ==
  ASSUME NEW F, NEW prop, NEW b, NEW n, NEW p2, Links(F, prop, b, n, p2)
  PROVE  Linked(F \cup Run(b, n), p2, b)
<1>0. /\ F \in SUBSET Nat /\ (\A q \in F : prop[q] \in Nat) /\ BlocksRight(F, prop)
      /\ b \in Nat /\ n \in Nat \ {0} /\ Run(b, n) \cap F = {}
      /\ \A q \in Run(b, n) : q # b => prop[q] = 0
      /\ b + n \in F => p2[b] = n + prop[b + n] /\ p2[b + n] = 0
      /\ b + n \notin F => p2[b] = n
      /\ \A q \in F \cup Run(b, n) : q # b /\ q # b + n => p2[q] = prop[q]
  BY DEF Links, Lengths
<1> USE <1>0
<1> DEFINE G == F \cup Run(b, n)
           c == b + n
<1>1. /\ b \in Run(b, n) /\ c \in Nat /\ c \notin Run(b, n) /\ b \notin F
      /\ \A q \in Run(b, n) : q \in Nat /\ q >= b /\ q < c /\ q \notin F
  BY Runs
<1>2. ASSUME NEW h \in F, prop[h] # 0
      PROVE  /\ Block(F, prop, h) /\ h + prop[h] \notin F
             /\ h + prop[h] <= b \/ h >= c
  <2>1. Block(F, prop, h) /\ h + prop[h] \notin F
    BY <1>2 DEF BlocksRight
  <2>2. b \notin Run(h, prop[h])
    BY <2>1, <1>1 DEF Block
  <2>3. h \in Nat /\ prop[h] \in Nat
    OBVIOUS
  <2>4. h < b => h + prop[h] <= b
    BY <2>2, <2>3, Runs
  <2>5. h >= b => h >= c
    BY <1>1, <2>3, Runs
  <2> QED BY <2>1, <2>3, <2>4, <2>5
<1>3. c \in F => prop[c] # 0
  <2>1. SUFFICES ASSUME c \in F PROVE prop[c] # 0
    OBVIOUS
  <2>2. PICK h \in F : prop[h] # 0 /\ c \in Run(h, prop[h])
    BY <2>1 DEF BlocksRight
  <2>3. h >= c
    BY <1>2, <2>2, Runs
  <2>4. h <= c
    BY <2>2, Runs
  <2> QED BY <2>2, <2>3, <2>4, <1>1
<1>4. /\ p2[b] \in Nat \ {0}
      /\ \A q \in F : q # c => p2[q] = prop[q]
      /\ \A q \in Run(b, n) : q # b => p2[q] = 0
  BY <1>1
<1>5. ASSUME NEW h \in F, prop[h] # 0, h # c
      PROVE  /\ Block(G, p2, h) /\ p2[h] = prop[h]
             /\ h + p2[h] \notin G \/ h + p2[h] = b
  <2>1. p2[h] = prop[h]
    BY <1>4, <1>5
  <2>2. c \in F => c \notin Run(h, prop[h])
    BY <1>2, <1>3, <1>5 DEF Block
  <2>3. \A q \in Run(h, prop[h]) : q \in F /\ q # c /\ (q # h => prop[q] = 0)
    BY <1>2, <1>5, <2>2 DEF Block
  <2>4. Block(G, p2, h)
    BY <2>1, <2>3, <1>4 DEF Block
  <2>5. h + p2[h] \in Run(b, n) => h + p2[h] = b
    BY <2>1, <1>1, <1>2, <1>5
  <2> QED BY <2>1, <2>4, <2>5, <1>2, <1>5
<1>6. c \notin F => Block(G, p2, b) /\ b + p2[b] \notin G
  BY <1>1, <1>4 DEF Block
<1>7. ASSUME c \in F PROVE Block(G, p2, b) /\ b + p2[b] \notin G
  <2>1. Block(F, prop, c) /\ c + prop[c] \notin F /\ prop[c] \in Nat /\ prop[c] # 0
    BY <1>2, <1>3, <1>7
  <2>2. b + p2[b] = c + prop[c]
    BY <2>1, <1>7, <1>1
  <2>3. \A q \in Run(b, p2[b]) : q \in Run(b, n) \/ q \in Run(c, prop[c])
    BY <2>2, <2>1, <1>1, <1>4, Runs
  <2>4. \A q \in Run(c, prop[c]) : q \in F /\ p2[q] = 0
    BY <2>1, <1>4, <1>7 DEF Block
  <2>5. Block(G, p2, b)
    BY <2>3, <2>4, <1>4 DEF Block
  <2>6. c + prop[c] \notin Run(b, n)
    BY <1>1, <2>1
  <2> QED BY <2>1, <2>2, <2>5, <2>6
<1>8. ASSUME NEW h \in G, p2[h] # 0
      PROVE  Block(G, p2, h) /\ (h + p2[h] \notin G \/ h + p2[h] = b)
  <2>1. h = b \/ (h \in F /\ h # c /\ prop[h] # 0)
    BY <1>4, <1>8
  <2> QED BY <2>1, <1>5, <1>6, <1>7
<1>9. ASSUME NEW q \in G PROVE \E h \in G : p2[h] # 0 /\ q \in Run(h, p2[h])
  <2>1. CASE q \in Run(b, n)
    <3>1. p2[b] >= n
      BY <1>4, <1>7, <1>1
    <3> QED BY <3>1, <2>1, <1>1, <1>4, Runs
  <2>2. CASE q \in F
    <3>1. PICK h \in F : prop[h] # 0 /\ q \in Run(h, prop[h])
      BY <2>2 DEF BlocksRight
    <3>2. CASE h = c
      <4>1. p2[b] = n + prop[c]
        BY <3>2
      <4> QED BY <4>1, <3>1, <3>2, <1>1, <1>4, Runs
    <3>3. CASE h # c
      BY <3>1, <3>3, <1>5, <1>4
    <3> QED BY <3>2, <3>3
  <2> QED BY <2>1, <2>2
<1>10. ASSUME NEW q \in G PROVE p2[q] \in Nat
  <2>1. q = b \/ q = c \/ (q \in F /\ q # c) \/ (q \in Run(b, n) /\ q # b)
    OBVIOUS
  <2>2. q = c => p2[q] = 0
    BY <1>1
  <2> QED BY <2>1, <2>2, <1>4
<1>11. AllButOne(G, p2, b)
  BY <1>8, <1>9 DEF AllButOne
<1>12. G \subseteq Nat /\ b \in G
  BY <1>1
<1> QED BY <1>4, <1>10, <1>11, <1>12 DEF Linked

\* The block that ends at b begins at the last page below b with a length.
\* h is the last page below b with a length.
LastHead(G, prop, b, h) == /\ h < b /\ prop[h] # 0
                           /\ \A g \in G : g < b /\ prop[g] # 0 => g <= h

LEMMA HeadBefore ==
  ASSUME NEW G, NEW prop, NEW b, Linked(G, prop, b), b - 1 \in G
  PROVE  /\ \E h \in G : h < b /\ prop[h] # 0
         /\ \A h \in G : LastHead(G, prop, b, h) => h + prop[h] = b
<1>0. /\ G \in SUBSET Nat /\ (\A q \in G : prop[q] \in Nat)
      /\ b \in G /\ AllButOne(G, prop, b) /\ prop[b] # 0
  BY DEF Linked
<1> USE <1>0
<1>1. PICK g \in G : prop[g] # 0 /\ b - 1 \in Run(g, prop[g])
  BY DEF AllButOne
<1>2. b \notin Run(g, prop[g])
  <2>1. g < b
    BY <1>1, Runs
  <2> QED BY <1>1, <2>1 DEF AllButOne, Block
<1>3. g < b /\ g + prop[g] = b
  BY <1>1, <1>2, Runs
<1>4. ASSUME NEW h \in G, h < b, prop[h] # 0, g <= h PROVE h = g
  <2>1. h \in Run(g, prop[g])
    BY <1>3, <1>4, Runs
  <2> QED BY <2>1, <1>1, <1>4 DEF AllButOne, Block
<1> QED BY <1>1, <1>3, <1>4 DEF LastHead

\* p2 are the lengths when the block at b has become a part of the one at h.
Joins(G, prop, b, h, p2) ==
    /\ Linked(G, prop, b) /\ h \in G /\ prop[h] # 0 /\ h + prop[h] = b
    /\ p2[h] = prop[h] + prop[b] /\ p2[b] = 0
    /\ \A q \in G : q # b /\ q # h => p2[q] = prop[q]

LEMMA JoinBlocks ==
  ASSUME NEW G, NEW prop, NEW b, NEW h, NEW p2, Joins(G, prop, b, h, p2)
  PROVE  BlocksRight(G, p2)
<1>0. /\ G \in SUBSET Nat /\ (\A q \in G : prop[q] \in Nat)
      /\ b \in G /\ AllButOne(G, prop, b) /\ prop[b] # 0
      /\ h \in G /\ prop[h] # 0 /\ h + prop[h] = b
      /\ p2[h] = prop[h] + prop[b] /\ p2[b] = 0
      /\ \A q \in G : q # b /\ q # h => p2[q] = prop[q]
  BY DEF Joins, Linked
<1> USE <1>0
<1>1. /\ Block(G, prop, h) /\ Block(G, prop, b) /\ h < b
      /\ b + prop[b] \notin G /\ h + p2[h] = b + prop[b]
  BY DEF AllButOne
<1>2. \A q \in Run(h, p2[h]) : q \in Run(h, prop[h]) \/ q \in Run(b, prop[b])
  BY <1>1, Runs
<1>3. \A q : q \in Run(h, prop[h]) \/ q \in Run(b, prop[b]) => q \in Run(h, p2[h])
  BY <1>1, Runs
<1>4. ASSUME NEW q \in Run(h, p2[h]), q # h PROVE q \in G /\ p2[q] = 0
  <2>1. q \in G
    BY <1>1, <1>2 DEF Block
  <2>2. q # b => prop[q] = 0
    BY <1>1, <1>2, <1>4 DEF Block
  <2> QED BY <2>1, <2>2, <1>4
<1>5. Block(G, p2, h)
  BY <1>4 DEF Block
<1>6. ASSUME NEW g \in G, prop[g] # 0, g # h, g # b
      PROVE  /\ Block(G, p2, g) /\ p2[g] = prop[g]
             /\ g + p2[g] \notin G
  <2>1. Block(G, prop, g) /\ (g + prop[g] \notin G \/ g + prop[g] = b)
    BY <1>6 DEF AllButOne
  <2>2. h \notin Run(g, prop[g]) /\ b \notin Run(g, prop[g])
    BY <2>1, <1>6 DEF Block
  <2>3. Block(G, p2, g)
    BY <2>1, <2>2, <1>6 DEF Block
  <2>4. g \notin Run(h, prop[h]) /\ g \notin Run(b, prop[b])
    BY <1>1, <1>6 DEF Block
  <2>5. g + prop[g] # b
    BY <2>2, <2>4, <1>1, <1>6, Runs
  <2> QED BY <2>1, <2>3, <2>5, <1>6
<1>7. ASSUME NEW q \in G PROVE \E g \in G : p2[g] # 0 /\ q \in Run(g, p2[g])
  <2>1. PICK g \in G : prop[g] # 0 /\ q \in Run(g, prop[g])
    BY DEF AllButOne
  <2> QED BY <2>1, <1>3, <1>6
<1>8. ASSUME NEW g \in G, p2[g] # 0 PROVE g = h \/ (g # b /\ prop[g] # 0)
  BY <1>8
<1> QED BY <1>1, <1>5, <1>6, <1>7, <1>8 DEF BlocksRight

LEMMA NoneBefore ==
  ASSUME NEW G, NEW prop, NEW b, Linked(G, prop, b), b - 1 \notin G
  PROVE  BlocksRight(G, prop)
<1>1. ASSUME NEW h \in G, prop[h] # 0, h + prop[h] = b PROVE FALSE
  <2>1. b - 1 \in Run(h, prop[h])
    BY <1>1, Runs DEF Linked
  <2> QED BY <2>1, <1>1 DEF Linked, AllButOne, Block
<1> QED BY <1>1 DEF Linked, AllButOne, BlocksRight

-----------------------------------------------------------------------------
(* Lists in address order, and what first fit finds.                        *)

LEMMA Listed ==
  ASSUME NEW s \in Seq(Page)
  PROVE  /\ \A x : x \in ToSet(s) <=> \E i \in 1 .. Len(s) : s[i] = x
         /\ \A i \in 1 .. Len(s) : s[i] \in ToSet(s) /\ s[i] \in Page /\ s[i] \in Nat
         /\ ToSet(s) \subseteq Page /\ ToSet(s) \subseteq Nat
         /\ DOMAIN s = 1 .. Len(s) /\ Len(s) \in Nat
BY PagesAre DEF ToSet

LEMMA InOrder ==
  ASSUME NEW s \in Seq(Page), Ascending(s), NEW i \in DOMAIN s, NEW j \in DOMAIN s
  PROVE  i <= j <=> s[i] <= s[j]
<1>1. i \in Nat /\ j \in Nat /\ s[i] \in Nat /\ s[j] \in Nat
  BY Listed
<1>2. (i < j => s[i] < s[j]) /\ (j < i => s[j] < s[i])
  BY DEF Ascending
<1> QED BY <1>1, <1>2

\* The pages of a run stand one after the other.
LEMMA Contiguous ==
  ASSUME NEW s \in Seq(Page), Ascending(s), NEW at \in DOMAIN s, NEW n \in Nat,
         Run(s[at], n) \subseteq ToSet(s)
  PROVE  \A k \in 0 .. n - 1 : at + k \in DOMAIN s /\ s[at + k] = s[at] + k
<1> DEFINE S == {k \in Nat : k < n => at + k \in DOMAIN s /\ s[at + k] = s[at] + k}
<1>1. s[at] \in Nat /\ at \in Nat /\ DOMAIN s = 1 .. Len(s) /\ Len(s) \in Nat
  BY Listed
<1>2. 0 \in S
  BY <1>1
<1>3. ASSUME NEW k \in Nat, k \in S PROVE k + 1 \in S
  <2>1. SUFFICES ASSUME k + 1 < n
                 PROVE  at + (k + 1) \in DOMAIN s /\ s[at + (k + 1)] = s[at] + (k + 1)
    OBVIOUS
  <2>2. at + k \in DOMAIN s /\ s[at + k] = s[at] + k
    BY <1>3, <2>1
  <2>3. s[at] + (k + 1) \in ToSet(s)
    BY <2>1, <1>1, Runs
  <2>4. PICK j \in 1 .. Len(s) : s[j] = s[at] + (k + 1)
    BY <2>3, Listed
  <2>5. j > at + k
    <3>1. SUFFICES ASSUME j <= at + k PROVE FALSE
      BY <1>1
    <3>2. s[j] <= s[at + k]
      BY <3>1, <2>2, <2>4, <1>1, InOrder
    <3> QED BY <3>2, <2>2, <2>4, <1>1
  <2>6. at + (k + 1) \in DOMAIN s
    BY <2>5, <2>4, <1>1
  <2>7. s[at + (k + 1)] > s[at + k]
    BY <2>6, <2>2, <1>1 DEF Ascending
  <2>8. j = at + (k + 1)
    <3>1. SUFFICES ASSUME at + (k + 1) < j PROVE FALSE
      BY <2>5, <1>1
    <3>2. s[at + (k + 1)] < s[j]
      BY <3>1, <2>6, <2>4, <1>1 DEF Ascending
    <3>3. s[at + (k + 1)] \in Nat
      BY <2>6, <1>1, Listed
    <3> QED BY <3>2, <3>3, <2>7, <2>2, <2>4, <1>1
  <2> QED BY <2>4, <2>6, <2>8
<1> HIDE DEF S
<1>4. Nat \subseteq S
  BY <1>2, <1>3, Induct
<1> QED BY <1>4 DEF S

\* A run of free pages lies in one block.
LEMMA RunInBlock ==
  ASSUME NEW F \in SUBSET Nat, NEW prop, \A q \in F : prop[q] \in Nat,
         BlocksRight(F, prop),
         NEW p \in Nat, NEW n \in Nat \ {0}, Run(p, n) \subseteq F
  PROVE  \E h \in F : h <= p /\ prop[h] >= n
<1>1. p \in F
  BY Runs
<1>2. PICK h \in F : prop[h] # 0 /\ p \in Run(h, prop[h])
  BY <1>1 DEF BlocksRight
<1>3. h + prop[h] \notin Run(p, n)
  BY <1>2 DEF BlocksRight
<1>4. h <= p /\ p < h + prop[h] /\ h + prop[h] >= p + n
  BY <1>2, <1>3, Runs
<1> QED BY <1>4

LEMMA CountOfList ==
  ASSUME NEW s \in Seq(Page), NEW p \in Nat, NEW n \in Nat, Run(p, n) \subseteq ToSet(s)
  PROVE  n <= Len(s)
<1> DEFINE g == [i \in 1 .. Len(s) |-> s[i]]
<1>1. Len(s) \in Nat /\ g \in Surjection(1 .. Len(s), ToSet(s))
  BY Listed DEF Surjection
<1>2. ExistsSurjection(1 .. Len(s), ToSet(s))
  BY <1>1 DEF ExistsSurjection
<1>3. IsFiniteSet(ToSet(s)) /\ Cardinality(ToSet(s)) <= Len(s)
  <2>1. IsFiniteSet(1 .. Len(s))
    BY <1>1, FS_Interval
  <2> HIDE DEF g
  <2> QED BY <1>1, <1>2, <2>1, FS_Surjection, FS_SurjCardinalityBound
<1>4. Cardinality(Run(p, n)) = n /\ Cardinality(Run(p, n)) <= Cardinality(ToSet(s))
  BY <1>3, FS_Interval, FS_Subset DEF Run
<1>5. Cardinality(ToSet(s)) \in Nat
  BY <1>3, FS_CardinalityType
<1> QED BY <1>1, <1>3, <1>4, <1>5

LEMMA Searching ==
  ASSUME NEW f, FreeArea(f), NEW n \in Nat \ {0}
  PROVE  /\ Fits(f, n) # {} =>
               /\ Min(Fits(f, n)) \in DOMAIN f.list
               /\ Found(f, n) \in ToSet(f.list)
               /\ f.property[Found(f, n)] >= n
               /\ Run(Found(f, n), n) \subseteq ToSet(f.list)
         /\ \A p \in Page : Run(p, n) \subseteq ToSet(f.list) =>
               /\ Finds(f, n)
               /\ Found(f, n) <= p
<1> DEFINE F == ToSet(f.list)
           prop == f.property
<1>1. /\ f.list \in Seq(Page) /\ Ascending(f.list) /\ F \in SUBSET Nat
      /\ \A q \in F : prop[q] \in Nat
      /\ BlocksRight(F, prop) /\ f.nrFree = Len(f.list)
  BY Listed DEF FreeArea
<1>2. DOMAIN f.list = 1 .. Len(f.list) /\ Len(f.list) \in Nat
  BY <1>1, Listed
<1>3. Fits(f, n) \subseteq Nat /\ Fits(f, n) \subseteq DOMAIN f.list
  BY <1>2 DEF Fits
<1>4. Fits(f, n) # {} => /\ Min(Fits(f, n)) \in Fits(f, n)
                         /\ \A k \in Fits(f, n) : Min(Fits(f, n)) <= k
  BY <1>3, MinIs
<1>5. ASSUME Fits(f, n) # {}
      PROVE  /\ Min(Fits(f, n)) \in DOMAIN f.list /\ Found(f, n) \in F
             /\ prop[Found(f, n)] >= n /\ Run(Found(f, n), n) \subseteq F
  <2>1. Min(Fits(f, n)) \in DOMAIN f.list
    BY <1>3, <1>4, <1>5
  <2>2. Found(f, n) \in F /\ prop[Found(f, n)] >= n
    BY <2>1, <1>1, <1>2, <1>4, <1>5, Listed DEF Found, Fits
  <2>3. prop[Found(f, n)] # 0 /\ prop[Found(f, n)] \in Nat /\ Found(f, n) \in Nat
    BY <2>2, <1>1
  <2>4. Run(Found(f, n), prop[Found(f, n)]) \subseteq F
    BY <2>2, <2>3, <1>1 DEF BlocksRight, Block
  <2>5. \A q \in Run(Found(f, n), n) : q \in Run(Found(f, n), prop[Found(f, n)])
    BY <2>2, <2>3, Runs
  <2> QED BY <2>1, <2>2, <2>4, <2>5
<1>6. ASSUME NEW p \in Page, Run(p, n) \subseteq F
      PROVE  Finds(f, n) /\ Found(f, n) <= p
  <2>1. p \in Nat
    BY PagesAre
  <2>2. PICK h \in F : h <= p /\ prop[h] >= n
    BY <1>1, <1>6, <2>1, RunInBlock
  <2>3. PICK i \in 1 .. Len(f.list) : f.list[i] = h
    BY <2>2, <1>1, Listed
  <2>4. i \in Fits(f, n)
    BY <2>2, <2>3, <1>2 DEF Fits
  <2>5. n <= Len(f.list)
    BY <1>1, <1>6, <2>1, CountOfList
  <2>6. Min(Fits(f, n)) <= i /\ Min(Fits(f, n)) \in DOMAIN f.list
    BY <2>4, <1>3, <1>4
  <2>7. Found(f, n) <= h
    <3>1. Found(f, n) = f.list[Min(Fits(f, n))]
      BY DEF Found
    <3> QED BY <3>1, <2>3, <2>6, <1>1, <1>2, InOrder
  <2>8. Found(f, n) \in Nat /\ h \in Nat
    BY <1>1, <1>5, <2>2, <2>4
  <2> QED BY <2>1, <2>2, <2>4, <2>5, <2>7, <2>8, <1>1, <1>2 DEF Finds
<1> QED BY <1>5, <1>6

-----------------------------------------------------------------------------
(* The list without a run of its pages, and with a run more.                *)

\* What default_alloc_pages and default_free_pages make of the list.
Cut(s, at, n) == SubSeq(s, 1, at - 1) \o SubSeq(s, at + n, Len(s))
Slice(s, at, n) == {s[i] : i \in at .. at + n - 1}
Insert(s, at, b, n) == SubSeq(s, 1, at - 1) \o RunSeq(b, n) \o SubSeq(s, at, Len(s))

LEMMA Parts ==
  ASSUME NEW s \in Seq(Page), NEW i \in Nat \ {0}, NEW j \in Nat, j <= Len(s), i <= j + 1
  PROVE  /\ SubSeq(s, i, j) \in Seq(Page) /\ Len(SubSeq(s, i, j)) = j - i + 1
         /\ \A k \in 1 .. j - i + 1 : SubSeq(s, i, j)[k] = s[i + k - 1]
<1>1. \A k \in i .. j : s[k] \in Page
  BY Listed
<1>2. /\ SubSeq(s, i, j) \in Seq(Page)
      /\ Len(SubSeq(s, i, j)) = IF i <= j THEN j - i + 1 ELSE 0
      /\ \A k \in 1 .. j - i + 1 : SubSeq(s, i, j)[k] = s[i + k - 1]
  BY <1>1, SubSeqProperties
<1>3. j - i + 1 = IF i <= j THEN j - i + 1 ELSE 0
  OBVIOUS
<1> QED BY <1>2, <1>3

LEMMA Joined ==
  ASSUME NEW lo \in Seq(Page), NEW hi \in Seq(Page)
  PROVE  /\ lo \o hi \in Seq(Page) /\ Len(lo \o hi) = Len(lo) + Len(hi)
         /\ \A i \in 1 .. Len(lo) + Len(hi) :
               (lo \o hi)[i] = IF i <= Len(lo) THEN lo[i] ELSE hi[i - Len(lo)]
BY ConcatProperties

LEMMA CutIs ==
  ASSUME NEW s \in Seq(Page), NEW at \in 1 .. Len(s), NEW n \in Nat \ {0}, at + n - 1 <= Len(s)
  PROVE  /\ Cut(s, at, n) \in Seq(Page) /\ Len(Cut(s, at, n)) = Len(s) - n
         /\ \A i \in 1 .. Len(s) - n : Cut(s, at, n)[i] = IF i < at THEN s[i] ELSE s[i + n]
<1> DEFINE lo == SubSeq(s, 1, at - 1)
           hi == SubSeq(s, at + n, Len(s))
           t == lo \o hi
<1>1. Len(s) \in Nat /\ at \in Nat /\ at >= 1
  BY Listed
<1>2. lo \in Seq(Page) /\ Len(lo) = at - 1 /\ \A i \in 1 .. at - 1 : lo[i] = s[i]
  <2>1. at - 1 \in Nat /\ at - 1 <= Len(s) /\ 1 <= (at - 1) + 1 /\ (at - 1) - 1 + 1 = at - 1
    BY <1>1
  <2>2. \A i \in 1 .. at - 1 : 1 + i - 1 = i
    OBVIOUS
  <2> HIDE DEF lo
  <2>3. /\ lo \in Seq(Page) /\ Len(lo) = (at - 1) - 1 + 1
        /\ \A i \in 1 .. (at - 1) - 1 + 1 : lo[i] = s[1 + i - 1]
    BY <2>1, Parts DEF lo
  <2> QED BY <2>1, <2>2, <2>3
<1>3. hi \in Seq(Page) /\ Len(hi) = Len(s) - (at + n) + 1
      /\ \A i \in 1 .. Len(s) - (at + n) + 1 : hi[i] = s[(at + n) + i - 1]
  <2>1. at + n \in Nat \ {0} /\ Len(s) \in Nat /\ Len(s) <= Len(s) /\ at + n <= Len(s) + 1
    BY <1>1
  <2> HIDE DEF hi
  <2> QED BY <2>1, Parts DEF hi
<1> HIDE DEF lo, hi
<1>4. t \in Seq(Page) /\ Len(t) = Len(lo) + Len(hi)
      /\ \A i \in 1 .. Len(lo) + Len(hi) : t[i] = IF i <= Len(lo) THEN lo[i] ELSE hi[i - Len(lo)]
  BY <1>2, <1>3, Joined
<1> HIDE DEF t
<1>5. Len(lo) + Len(hi) = Len(s) - n
  BY <1>1, <1>2, <1>3
<1>6. ASSUME NEW i \in 1 .. Len(s) - n PROVE t[i] = IF i < at THEN s[i] ELSE s[i + n]
  <2>1. t[i] = IF i <= Len(lo) THEN lo[i] ELSE hi[i - Len(lo)]
    BY <1>4, <1>5
  <2>2. CASE i < at
    <3>1. i <= Len(lo) /\ lo[i] = s[i]
      BY <2>2, <1>1, <1>2
    <3> QED BY <2>1, <2>2, <3>1
  <2>3. CASE ~ (i < at)
    <3>1. /\ ~ (i <= Len(lo)) /\ i - Len(lo) \in 1 .. Len(s) - (at + n) + 1
          /\ (at + n) + (i - Len(lo)) - 1 = i + n
      BY <2>3, <1>1, <1>2
    <3> QED BY <2>1, <2>3, <3>1, <1>3
  <2> QED BY <2>2, <2>3
<1>7. Cut(s, at, n) = t
  BY DEF Cut, t, lo, hi
<1> QED BY <1>4, <1>5, <1>6, <1>7

LEMMA InsertIs ==
  ASSUME NEW s \in Seq(Page), NEW at \in 1 .. Len(s) + 1,
         NEW b \in Nat, NEW n \in Nat \ {0}, Run(b, n) \subseteq Page
  PROVE  /\ Insert(s, at, b, n) \in Seq(Page) /\ Len(Insert(s, at, b, n)) = Len(s) + n
         /\ \A i \in 1 .. Len(s) + n :
               Insert(s, at, b, n)[i] = IF i < at THEN s[i]
                                        ELSE IF i < at + n THEN b + (i - at) ELSE s[i - n]
<1> DEFINE lo == SubSeq(s, 1, at - 1)
           mid == RunSeq(b, n)
           hi == SubSeq(s, at, Len(s))
           u == lo \o mid
           t == u \o hi
<1>1. Len(s) \in Nat /\ at \in Nat /\ at >= 1 /\ at <= Len(s) + 1
  BY Listed
<1>2. lo \in Seq(Page) /\ Len(lo) = at - 1 /\ \A i \in 1 .. at - 1 : lo[i] = s[i]
  <2>1. at - 1 \in Nat /\ at - 1 <= Len(s) /\ 1 <= (at - 1) + 1 /\ (at - 1) - 1 + 1 = at - 1
    BY <1>1
  <2>2. \A i \in 1 .. at - 1 : 1 + i - 1 = i
    OBVIOUS
  <2> HIDE DEF lo
  <2>3. /\ lo \in Seq(Page) /\ Len(lo) = (at - 1) - 1 + 1
        /\ \A i \in 1 .. (at - 1) - 1 + 1 : lo[i] = s[1 + i - 1]
    BY <2>1, Parts DEF lo
  <2> QED BY <2>1, <2>2, <2>3
<1>3. hi \in Seq(Page) /\ Len(hi) = Len(s) - at + 1
      /\ \A i \in 1 .. Len(s) - at + 1 : hi[i] = s[at + i - 1]
  <2>1. at \in Nat \ {0} /\ Len(s) \in Nat /\ Len(s) <= Len(s) /\ at <= Len(s) + 1
    BY <1>1
  <2> HIDE DEF hi
  <2> QED BY <2>1, Parts DEF hi
<1>4. mid \in Seq(Page) /\ Len(mid) = n /\ \A i \in 1 .. n : mid[i] = b + i - 1
  <2>1. \A i \in 1 .. n : b + i - 1 \in Run(b, n)
    BY Runs
  <2>2. mid \in [1 .. n -> Page] /\ DOMAIN mid = 1 .. n
    BY <2>1 DEF RunSeq
  <2>3. \A i \in 1 .. n : mid[i] = b + i - 1
    BY DEF RunSeq
  <2> HIDE DEF mid
  <2>4. mid \in Seq(Page)
    BY <2>2, SeqDef
  <2> QED BY <2>2, <2>3, <2>4, LenProperties
<1> HIDE DEF lo, mid, hi
<1>5. u \in Seq(Page) /\ Len(u) = Len(lo) + Len(mid)
      /\ \A i \in 1 .. Len(lo) + Len(mid) : u[i] = IF i <= Len(lo) THEN lo[i] ELSE mid[i - Len(lo)]
  BY <1>2, <1>4, Joined
<1> HIDE DEF u
<1>6. t \in Seq(Page) /\ Len(t) = Len(u) + Len(hi)
      /\ \A i \in 1 .. Len(u) + Len(hi) : t[i] = IF i <= Len(u) THEN u[i] ELSE hi[i - Len(u)]
  BY <1>3, <1>5, Joined
<1> HIDE DEF t
<1>7. Len(u) = at - 1 + n /\ Len(u) + Len(hi) = Len(s) + n
  BY <1>1, <1>2, <1>3, <1>4, <1>5
<1>8. ASSUME NEW i \in 1 .. Len(s) + n
      PROVE  t[i] = IF i < at THEN s[i] ELSE IF i < at + n THEN b + (i - at) ELSE s[i - n]
  <2>1. t[i] = IF i <= Len(u) THEN u[i] ELSE hi[i - Len(u)]
    BY <1>6, <1>7
  <2>2. CASE i < at
    <3>1. i \in 1 .. at - 1
      BY <2>2, <1>1
    <3>2. i <= Len(u) /\ i \in 1 .. Len(lo) + Len(mid) /\ i <= Len(lo)
      BY <3>1, <1>1, <1>2, <1>4, <1>7
    <3>3. lo[i] = s[i]
      BY <3>1, <1>2
    <3> QED BY <2>1, <2>2, <3>2, <3>3, <1>5
  <2>3. CASE ~ (i < at) /\ i < at + n
    <3>1. /\ i <= Len(u) /\ i \in 1 .. Len(lo) + Len(mid) /\ ~ (i <= Len(lo))
          /\ i - Len(lo) \in 1 .. n /\ b + (i - Len(lo)) - 1 = b + (i - at)
      BY <2>3, <1>1, <1>2, <1>4, <1>7
    <3>2. t[i] = mid[i - Len(lo)]
      BY <2>1, <3>1, <1>5
    <3> QED BY <2>3, <3>1, <3>2, <1>4
  <2>4. CASE ~ (i < at) /\ ~ (i < at + n)
    <3>1. /\ ~ (i <= Len(u)) /\ i - Len(u) \in 1 .. Len(s) - at + 1
          /\ at + (i - Len(u)) - 1 = i - n
      BY <2>4, <1>1, <1>7
    <3> QED BY <2>1, <2>4, <3>1, <1>3
  <2> QED BY <2>2, <2>3, <2>4
<1>9. Insert(s, at, b, n) = t
  BY DEF Insert, t, u, lo, mid, hi
<1> QED BY <1>6, <1>7, <1>8, <1>9

\* t is s without the n pages from place at on, which are in a row.
Cutting(s, at, n, t) ==
    /\ s \in Seq(Page) /\ Ascending(s) /\ at \in DOMAIN s /\ n \in Nat \ {0}
    /\ Run(s[at], n) \subseteq ToSet(s)
    /\ t = Cut(s, at, n)

LEMMA CutList ==
  ASSUME NEW s, NEW at, NEW n, NEW t, Cutting(s, at, n, t)
  PROVE  /\ t \in Seq(Page) /\ Len(t) = Len(s) - n /\ Ascending(t)
         /\ ToSet(t) = ToSet(s) \ Run(s[at], n)
         /\ Slice(s, at, n) = Run(s[at], n)
         /\ at + n \notin DOMAIN s => s[at] + n \notin ToSet(s)
         /\ s[at] + n \in ToSet(s) => s[at + n] = s[at] + n
<1>0. /\ s \in Seq(Page) /\ Ascending(s) /\ at \in DOMAIN s /\ n \in Nat \ {0}
      /\ Run(s[at], n) \subseteq ToSet(s) /\ t = Cut(s, at, n)
  BY DEF Cutting
<1> USE <1>0
<1> DEFINE h == s[at]
           L == Len(s)
<1>1. /\ h \in Nat /\ at \in Nat /\ at >= 1 /\ at <= L /\ L \in Nat
      /\ DOMAIN s = 1 .. L
  BY Listed
<1>2. \A k \in 0 .. n - 1 : at + k \in DOMAIN s /\ s[at + k] = h + k
  BY Contiguous
<1>3. at + n - 1 <= L /\ s[at + n - 1] = h + (n - 1)
  <2>1. n - 1 \in 0 .. n - 1 /\ at + (n - 1) = at + n - 1
    BY <1>1
  <2> QED BY <2>1, <1>1, <1>2
<1>6. t \in Seq(Page) /\ Len(t) = L - n /\ DOMAIN t = 1 .. L - n
  <2>1. at \in 1 .. Len(s) /\ at + n - 1 <= Len(s)
    BY <1>1, <1>3
  <2>2. t \in Seq(Page) /\ Len(t) = L - n
    BY <2>1, CutIs
  <2> QED BY <2>2, LenProperties
<1>7. ASSUME NEW i \in 1 .. L - n
      PROVE  /\ i < at => t[i] = s[i] /\ i \in DOMAIN s
             /\ i >= at => t[i] = s[i + n] /\ i + n \in DOMAIN s
  <2>1. t[i] = IF i < at THEN s[i] ELSE s[i + n]
    <3>1. at \in 1 .. Len(s) /\ at + n - 1 <= Len(s)
      BY <1>1, <1>3
    <3> QED BY <3>1, CutIs
  <2> QED BY <2>1, <1>1
<1>8. Ascending(t)
  <2>1. SUFFICES ASSUME NEW i \in 1 .. L - n, NEW j \in 1 .. L - n, i < j
                 PROVE  t[i] < t[j]
    BY <1>6 DEF Ascending
  <2> DEFINE x == IF i < at THEN i ELSE i + n
             y == IF j < at THEN j ELSE j + n
  <2>2. t[i] = s[x] /\ x \in DOMAIN s /\ t[j] = s[y] /\ y \in DOMAIN s
    <3>1. ASSUME NEW k \in 1 .. L - n
          PROVE  LET z == IF k < at THEN k ELSE k + n IN t[k] = s[z] /\ z \in DOMAIN s
      BY <1>7, <1>1
    <3> QED BY <3>1
  <2>3. x < y
    BY <2>1, <1>1
  <2> HIDE DEF x, y
  <2> QED BY <2>2, <2>3 DEF Ascending
<1>9. ASSUME NEW i \in 1 .. L
      PROVE  s[i] \in Run(h, n) <=> i >= at /\ i < at + n
  <2>1. s[i] \in Nat /\ i \in DOMAIN s
    BY <1>1, Listed
  <2>2. i < at => s[i] < h
    BY <2>1 DEF Ascending
  <2>3. i >= at /\ i < at + n => s[i] = h + (i - at)
    <3>1. SUFFICES ASSUME i >= at, i < at + n PROVE s[i] = h + (i - at)
      OBVIOUS
    <3>2. i - at \in 0 .. n - 1 /\ at + (i - at) = i
      BY <3>1, <1>1
    <3> QED BY <3>2, <1>2
  <2>4. i >= at + n => s[i] > h + (n - 1)
    <3>1. SUFFICES ASSUME i >= at + n PROVE s[i] > h + (n - 1)
      OBVIOUS
    <3>2. at + n - 1 \in DOMAIN s /\ at + n - 1 < i
      BY <3>1, <1>1, <1>3
    <3>3. s[at + n - 1] < s[i]
      BY <3>2, <2>1 DEF Ascending
    <3> QED BY <3>3, <1>1, <1>3, <2>1
  <2> QED BY <2>1, <2>2, <2>3, <2>4, <1>1, Runs
<1>10. ToSet(t) = ToSet(s) \ Run(h, n)
  <2>1. ASSUME NEW x, x \in ToSet(t) PROVE x \in ToSet(s) /\ x \notin Run(h, n)
    <3>1. PICK i \in 1 .. L - n : t[i] = x
      BY <2>1, <1>6, Listed
    <3>2. CASE i < at
      BY <3>1, <3>2, <1>7, <1>9, <1>1, Listed
    <3>3. CASE i >= at
      <4>1. i + n \in 1 .. L /\ x = s[i + n] /\ i + n >= at + n
        BY <3>1, <3>3, <1>7, <1>1
      <4> QED BY <4>1, <1>9, <1>1, Listed
    <3> QED BY <3>2, <3>3, <1>1
  <2>2. ASSUME NEW x, x \in ToSet(s), x \notin Run(h, n) PROVE x \in ToSet(t)
    <3>1. PICK i \in 1 .. L : s[i] = x
      BY <2>2, Listed
    <3>2. i < at \/ i >= at + n
      BY <3>1, <2>2, <1>9, <1>1
    <3>3. CASE i < at
      <4>1. i \in 1 .. L - n
        BY <3>3, <1>1, <1>3
      <4>2. t[i] = x
        BY <4>1, <3>1, <3>3, <1>7
      <4> QED BY <4>1, <4>2, <1>6, Listed
    <3>4. CASE i >= at + n
      <4>1. i - n \in 1 .. L - n /\ i - n >= at /\ (i - n) + n = i
        BY <3>4, <1>1
      <4>2. t[i - n] = x
        BY <4>1, <3>1, <1>7
      <4> QED BY <4>1, <4>2, <1>6, Listed
    <3> QED BY <3>2, <3>3, <3>4
  <2> QED BY <2>1, <2>2
<1>11. Slice(s, at, n) = Run(h, n)
  <2>1. \A i \in at .. at + n - 1 : i \in 1 .. L /\ i >= at /\ i < at + n
    BY <1>1, <1>3
  <2>2. \A i \in at .. at + n - 1 : s[i] \in Run(h, n)
    BY <2>1, <1>9
  <2>3. ASSUME NEW q \in Run(h, n) PROVE \E i \in at .. at + n - 1 : s[i] = q
    <3>1. PICK i \in 1 .. L : s[i] = q
      BY Listed
    <3>2. i \in at .. at + n - 1
      BY <3>1, <1>1, <1>9
    <3> QED BY <3>1, <3>2
  <2> QED BY <2>2, <2>3 DEF Slice
<1>12. ASSUME h + n \in ToSet(s) PROVE at + n \in DOMAIN s /\ s[at + n] = h + n
  <2>1. \A q \in Run(h, n + 1) : q \in Run(h, n) \/ q = h + n
    BY <1>1, Runs
  <2>2. Run(h, n + 1) \subseteq ToSet(s)
    BY <2>1, <1>12
  <2>3. n \in 0 .. (n + 1) - 1 /\ n + 1 \in Nat
    OBVIOUS
  <2> QED BY <2>2, <2>3, Contiguous
<1> QED BY <1>6, <1>8, <1>10, <1>11, <1>12

\* t is s with the pages of a block linked in where they belong.
Inserts(s, at, b, n, t) ==
    /\ s \in Seq(Page) /\ Ascending(s) /\ at \in 1 .. Len(s) + 1
    /\ b \in Nat /\ n \in Nat \ {0} /\ Run(b, n) \subseteq Page
    /\ \A i \in 1 .. Len(s) : IF i < at THEN s[i] < b ELSE s[i] >= b + n
    /\ t = Insert(s, at, b, n)

LEMMA InsertList ==
  ASSUME NEW s, NEW at, NEW b, NEW n, NEW t, Inserts(s, at, b, n, t)
  PROVE  /\ t \in Seq(Page) /\ Len(t) = Len(s) + n /\ Ascending(t)
         /\ ToSet(t) = ToSet(s) \cup Run(b, n)
<1>0. /\ s \in Seq(Page) /\ Ascending(s) /\ at \in 1 .. Len(s) + 1
      /\ b \in Nat /\ n \in Nat \ {0} /\ Run(b, n) \subseteq Page
      /\ \A i \in 1 .. Len(s) : IF i < at THEN s[i] < b ELSE s[i] >= b + n
      /\ t = Insert(s, at, b, n)
  BY DEF Inserts
<1> USE <1>0
<1> DEFINE L == Len(s)
<1>1. /\ at \in Nat /\ at >= 1 /\ at <= L + 1 /\ L \in Nat /\ DOMAIN s = 1 .. L
  BY Listed
<1>7. t \in Seq(Page) /\ Len(t) = L + n /\ DOMAIN t = 1 .. L + n
  <2>1. t \in Seq(Page) /\ Len(t) = L + n
    BY InsertIs
  <2> QED BY <2>1, LenProperties
<1>8. ASSUME NEW i \in 1 .. L + n
      PROVE  /\ i < at => t[i] = s[i] /\ i \in DOMAIN s
             /\ i >= at /\ i < at + n => t[i] = b + (i - at)
             /\ i >= at + n => t[i] = s[i - n] /\ i - n \in DOMAIN s
  <2>1. t[i] = IF i < at THEN s[i] ELSE IF i < at + n THEN b + (i - at) ELSE s[i - n]
    <3>1. \A k \in 1 .. Len(s) + n :
             Insert(s, at, b, n)[k] = IF k < at THEN s[k]
                                      ELSE IF k < at + n THEN b + (k - at) ELSE s[k - n]
      BY <1>0, InsertIs
    <3> QED BY <3>1, <1>0
  <2> QED BY <2>1, <1>1
<1>9. \A i \in 1 .. L : s[i] \in Nat /\ (i < at => s[i] < b) /\ (i >= at => s[i] >= b + n)
  BY <1>1, Listed
<1>10. Ascending(t)
  <2>1. SUFFICES ASSUME NEW i \in 1 .. L + n, NEW j \in 1 .. L + n, i < j
                 PROVE  t[i] < t[j]
    BY <1>7 DEF Ascending
  <2>2. CASE j < at
    <3>1. t[i] = s[i] /\ t[j] = s[j] /\ i \in DOMAIN s /\ j \in DOMAIN s
      BY <2>1, <2>2, <1>1, <1>8
    <3> QED BY <2>1, <3>1 DEF Ascending
  <2>3. CASE i < at /\ j >= at /\ j < at + n
    BY <2>1, <2>3, <1>1, <1>8, <1>9
  <2>4. CASE i < at /\ j >= at + n
    <3>1. t[i] = s[i] /\ t[j] = s[j - n] /\ i \in DOMAIN s /\ j - n \in DOMAIN s /\ j - n >= at
      BY <2>1, <2>4, <1>1, <1>8
    <3>2. i < j - n
      BY <3>1, <2>4, <1>1
    <3> QED BY <3>1, <3>2 DEF Ascending
  <2>5. CASE i >= at /\ j < at + n
    BY <2>1, <2>5, <1>1, <1>8
  <2>6. CASE i >= at /\ i < at + n /\ j >= at + n
    <3>1. t[i] = b + (i - at) /\ t[j] = s[j - n] /\ j - n \in 1 .. L /\ j - n >= at
      BY <2>1, <2>6, <1>1, <1>8
    <3>2. s[j - n] >= b + n /\ s[j - n] \in Nat
      BY <3>1, <1>9
    <3> QED BY <3>1, <3>2, <2>6, <1>1
  <2>7. CASE i >= at + n
    <3>1. t[i] = s[i - n] /\ t[j] = s[j - n] /\ i - n \in DOMAIN s /\ j - n \in DOMAIN s /\ i - n < j - n
      BY <2>1, <2>7, <1>1, <1>8
    <3> QED BY <3>1 DEF Ascending
  <2> QED BY <2>1, <2>2, <2>3, <2>4, <2>5, <2>6, <2>7, <1>1
<1>11. ASSUME NEW x, x \in ToSet(t) PROVE x \in ToSet(s) \cup Run(b, n)
  <2>1. PICK i \in 1 .. L + n : t[i] = x
    BY <1>11, <1>7, Listed
  <2>2. i >= at /\ i < at + n => x \in Run(b, n)
    <3>1. ASSUME i >= at, i < at + n PROVE x = b + (i - at)
      BY <3>1, <2>1, <1>8
    <3>2. ASSUME i >= at, i < at + n PROVE b + (i - at) \in Run(b, n)
      BY <3>2, <1>1, Runs
    <3> QED BY <3>1, <3>2
  <2>3. i < at \/ i >= at + n => x \in ToSet(s)
    BY <2>1, <1>1, <1>8, Listed
  <2> QED BY <2>2, <2>3, <1>1
<1>12. ASSUME NEW x, x \in ToSet(s) PROVE x \in ToSet(t)
  <2>1. PICK i \in 1 .. L : s[i] = x
    BY <1>12, Listed
  <2>2. CASE i < at
    <3>1. i \in 1 .. L + n /\ t[i] = x
      BY <2>1, <2>2, <1>1, <1>8
    <3> QED BY <3>1, <1>7, Listed
  <2>3. CASE i >= at
    <3>1. i + n \in 1 .. L + n /\ i + n >= at + n /\ (i + n) - n = i
      BY <2>3, <1>1
    <3>2. t[i + n] = x
      BY <3>1, <2>1, <1>8
    <3> QED BY <3>1, <3>2, <1>7, Listed
  <2> QED BY <2>2, <2>3, <1>1
<1>13. ASSUME NEW x \in Run(b, n) PROVE x \in ToSet(t)
  <2>1. x \in Int /\ b <= x /\ x < b + n
    BY Runs
  <2> DEFINE i == at + (x - b)
  <2>2. i \in 1 .. L + n /\ i >= at /\ i < at + n /\ b + (i - at) = x
    BY <2>1, <1>1
  <2>3. t[i] = x
    <3> HIDE DEF i
    <3> QED BY <2>2, <1>8
  <2> QED BY <2>2, <2>3, <1>7, Listed
<1> QED BY <1>7, <1>10, <1>11, <1>12, <1>13

-----------------------------------------------------------------------------
(* What allocation, freeing and the setup of a zone do to the free area.    *)

LEMMA AreaFacts ==
  ASSUME NEW f, FreeArea(f)
  PROVE  /\ f.list \in Seq(Page) /\ Ascending(f.list)
         /\ ToSet(f.list) \in SUBSET Nat /\ ToSet(f.list) \subseteq Page
         /\ f.property \in [Page -> Nat]
         /\ \A q \in ToSet(f.list) : f.property[q] \in Nat
         /\ BlocksRight(ToSet(f.list), f.property)
         /\ f.nrFree = Len(f.list) /\ Len(f.list) \in Nat
         /\ DOMAIN f.list = 1 .. Len(f.list)
BY Listed DEF FreeArea

LEMMA TakenWith ==
  ASSUME NEW H, NEW b
  PROVE  /\ Taken(H \cup {b}) = Taken(H) \cup Pages(b)
         /\ Taken(H) = Taken(H \ {b}) \cup (IF b \in H THEN Pages(b) ELSE {})
<1>1. \A G, x : x \in Taken(G) <=> \E a \in G : x \in Pages(a)
  BY DEF Taken
<1>2. \A x : x \in Taken(H \cup {b}) <=> x \in Taken(H) \cup Pages(b)
  BY <1>1
<1>3. \A x : x \in Taken(H) <=> x \in Taken(H \ {b}) \cup (IF b \in H THEN Pages(b) ELSE {})
  BY <1>1
<1> QED BY <1>2, <1>3

\* Allocation keeps the invariant, and hands out a block that nobody has.
LEMMA AllocKeeps ==
  ASSUME NEW f, NEW H, NEW U, AreaInv(f, H, U), NEW n \in Nat \ {0}, Fits(f, n) # {},
         NEW h, h = Found(f, n), NEW b, b = <<h, n>>
  PROVE  /\ AreaInv(default_alloc_pages(f, n), H \cup {b}, U)
         /\ \A a \in H : a[1] # b[1]
<1>1. PICK s, prop, F, at, g, t, p2, r :
          /\ s = f.list /\ prop = f.property /\ F = ToSet(s) /\ at = Min(Fits(f, n))
          /\ g = default_alloc_pages(f, n) /\ t = g.list /\ p2 = g.property
          /\ r = g.reserved
  OBVIOUS
<1>2. /\ s \in Seq(Page) /\ Ascending(s) /\ F \in SUBSET Nat /\ F \subseteq Page
      /\ prop \in [Page -> Nat] /\ \A q \in F : prop[q] \in Nat
      /\ BlocksRight(F, prop) /\ f.nrFree = Len(s) /\ Len(s) \in Nat
  BY <1>1, AreaFacts DEF AreaInv
<1>3. /\ at \in DOMAIN s /\ h \in F /\ prop[h] >= n
      /\ Run(h, n) \subseteq F /\ h = s[at]
  BY <1>1, Searching DEF Found, AreaInv
<1>4. h \in Nat /\ h \in Page /\ prop[h] \in Nat
  BY <1>2, <1>3
<1>5. /\ t = Cut(s, at, n) /\ g.nrFree = Len(s) - n
      /\ r = f.reserved \cup Slice(s, at, n)
      /\ p2 = IF prop[h] > n THEN [prop EXCEPT ![s[at + n]] = prop[h] - n] ELSE prop
  BY <1>1, <1>2, <1>3 DEF default_alloc_pages, Cut, Slice
<1>6. /\ t \in Seq(Page) /\ Len(t) = Len(s) - n /\ Ascending(t)
      /\ ToSet(t) = F \ Run(h, n) /\ Slice(s, at, n) = Run(h, n)
      /\ h + n \in F => s[at + n] = h + n
  <2>1. s \in Seq(Page) /\ Ascending(s) /\ at \in DOMAIN s /\ Run(s[at], n) \subseteq ToSet(s)
    BY <1>1, <1>2, <1>3
  <2>2. /\ t \in Seq(Page) /\ Len(t) = Len(s) - n /\ Ascending(t)
        /\ ToSet(t) = ToSet(s) \ Run(s[at], n) /\ Slice(s, at, n) = Run(s[at], n)
        /\ s[at] + n \in ToSet(s) => s[at + n] = s[at] + n
    <3>1. Cutting(s, at, n, t)
      BY <2>1, <1>5 DEF Cutting
    <3> QED BY <3>1, CutList
  <2> QED BY <2>2, <1>1, <1>3
<1>7. prop[h] > n => h + n \in F
  <2>1. prop[h] > n => h + n \in Run(h, prop[h])
    BY <1>4, Runs
  <2> QED BY <2>1, <1>2, <1>3, <1>4 DEF BlocksRight, Block
<1>8. /\ p2 \in [Page -> Nat]
      /\ prop[h] > n => p2[h + n] = prop[h] - n
      /\ \A q \in Page : (q = h + n /\ prop[h] > n) \/ p2[q] = prop[q]
  <2>1. CASE prop[h] > n
    <3>1. p2 = [prop EXCEPT ![h + n] = prop[h] - n] /\ h + n \in Page
      BY <2>1, <1>2, <1>5, <1>6, <1>7
    <3>2. prop[h] - n \in Nat
      BY <2>1, <1>4
    <3> QED BY <3>1, <3>2, <2>1, <1>2
  <2>2. CASE ~ (prop[h] > n)
    BY <2>2, <1>2, <1>5
  <2> QED BY <2>1, <2>2
<1>9. FreeArea(g)
  <2>1. \A q \in F : q # h + n => p2[q] = prop[q]
    BY <1>2, <1>8
  <2>2. BlocksRight(F \ Run(h, n), p2)
    <3>1. F \in SUBSET Nat /\ (\A q \in F : prop[q] \in Nat) /\ BlocksRight(F, prop)
      BY <1>2
    <3>2. h \in F /\ prop[h] >= n /\ (prop[h] > n => p2[h + n] = prop[h] - n)
      BY <1>3, <1>8
    <3>3. Cuts(F, prop, h, n, p2)
      BY <2>1, <3>1, <3>2 DEF Cuts, Lengths
    <3> QED BY <3>3, CutBlocks
  <2>3. g.nrFree = Len(t)
    BY <1>5, <1>6
  <2> QED BY <1>1, <1>6, <1>8, <2>2, <2>3 DEF FreeArea
<1>10. b[1] = h /\ b[2] = n /\ Pages(b) = Run(h, n) /\ b \in Page \X (Nat \ {0})
  BY <1>4 DEF Pages
<1>11. /\ \A a \in H : /\ a \in Page \X (Nat \ {0}) /\ a[1] \in f.reserved
                        /\ Pages(a) \subseteq Page /\ Pages(a) \cap F = {}
                        /\ \A q \in Pages(a) : q # a[1] => prop[q] = 0
       /\ \A a, c \in H : a # c => Pages(a) \cap Pages(c) = {}
       /\ U = Taken(H) \cup F
  BY <1>1 DEF AreaInv, HandedOut
<1>12. ASSUME NEW a \in H
       PROVE  /\ a[1] \in r /\ Pages(a) \cap ToSet(t) = {}
              /\ Pages(a) \cap Pages(b) = {}
              /\ \A q \in Pages(a) : q # a[1] => p2[q] = 0
              /\ a[1] \in Pages(a)
  <2>1. a[1] \in Pages(a)
    <3>1. a[1] \in Nat /\ a[2] \in Nat \ {0}
      BY <1>11, PagesAre
    <3> QED BY <3>1, Runs DEF Pages
  <2>2. \A q \in Pages(a) : p2[q] = prop[q]
    BY <1>7, <1>8, <1>11
  <2>3. Pages(a) \cap F = {} /\ ToSet(t) \subseteq F /\ Pages(b) \subseteq F
    BY <1>3, <1>6, <1>10, <1>11
  <2>4. a[1] \in r
    BY <1>5, <1>11
  <2> QED BY <2>1, <2>2, <2>3, <2>4, <1>11
<1>13. /\ h \in Run(h, n) /\ b[1] \in r
       /\ Pages(b) \subseteq Page /\ Pages(b) \cap ToSet(t) = {}
       /\ \A q \in Pages(b) : q # b[1] => p2[q] = 0
  <2>1. h \in Run(h, n) /\ h + n \notin Run(h, n)
    BY <1>4, Runs
  <2>2. \A q \in Run(h, n) : q \in Run(h, prop[h])
    BY <1>3, <1>4, Runs
  <2>3. \A q \in Run(h, n) : q # h => prop[q] = 0
    BY <2>2, <1>2, <1>3 DEF BlocksRight, Block
  <2>4. \A q \in Run(h, n) : p2[q] = prop[q]
    BY <2>1, <1>2, <1>3, <1>8
  <2>5. Pages(b) \subseteq Page /\ Pages(b) \cap ToSet(t) = {} /\ b[1] \in r
    BY <2>1, <1>2, <1>3, <1>5, <1>6, <1>10
  <2>6. \A q \in Pages(b) : q # b[1] => p2[q] = 0
    BY <2>3, <2>4, <1>10
  <2> QED BY <2>1, <2>5, <2>6
<1>14. U = Taken(H \cup {b}) \cup ToSet(t)
  <2>1. Taken(H \cup {b}) = Taken(H) \cup Pages(b)
    BY TakenWith, ZenonT(20)
  <2>2. ToSet(t) = F \ Pages(b) /\ Pages(b) \subseteq F /\ U = Taken(H) \cup F
    BY <1>3, <1>6, <1>10, <1>11
  <2> QED BY <2>1, <2>2
<1>15. HandedOut(g, H \cup {b}, U)
  <2>1. \A a \in H \cup {b} :
           /\ a \in Page \X (Nat \ {0}) /\ a[1] \in r
           /\ Pages(a) \subseteq Page /\ Pages(a) \cap ToSet(t) = {}
           /\ \A q \in Pages(a) : q # a[1] => p2[q] = 0
    BY <1>10, <1>11, <1>12, <1>13
  <2>2. \A a, c \in H \cup {b} : a # c => Pages(a) \cap Pages(c) = {}
    BY <1>11, <1>12
  <2> QED BY <2>1, <2>2, <1>1, <1>14 DEF HandedOut
<1>16. \A a \in H : a[1] # b[1]
  BY <1>10, <1>12, <1>13
<1> QED BY <1>1, <1>9, <1>15, <1>16 DEF AreaInv

\* Where free_pages links a run of pages that is not on the list.
LEMMA PlaceIs ==
  ASSUME NEW f, NEW s \in Seq(Page), s = f.list, Ascending(s),
         NEW base \in Nat, NEW n \in Nat \ {0}, Run(base, n) \cap ToSet(s) = {}
  PROVE  /\ PlaceOf(f, base) \in 1 .. Len(s) + 1
         /\ \A i \in 1 .. Len(s) : IF i < PlaceOf(f, base) THEN s[i] < base
                                   ELSE s[i] >= base + n
<1>1. PICK above, at : at = PlaceOf(f, base) /\ above = {i \in DOMAIN s : s[i] > base}
  OBVIOUS
<1>2. at = IF above = {} THEN Len(s) + 1 ELSE Min(above)
  BY <1>1 DEF PlaceOf
<1>3. DOMAIN s = 1 .. Len(s) /\ Len(s) \in Nat /\ above \subseteq Nat
  BY <1>1, Listed
<1>4. \A i \in 1 .. Len(s) : /\ s[i] \in Nat /\ ~ (s[i] >= base /\ s[i] < base + n)
                             /\ i \in above <=> s[i] > base
  BY <1>1, <1>3, Listed, Runs
<1>5. CASE above = {}
  BY <1>1, <1>2, <1>3, <1>4, <1>5
<1>6. CASE above # {}
  <2>1. at \in above /\ \A k \in above : at <= k
    BY <1>2, <1>3, <1>6, MinIs
  <2>2. at \in 1 .. Len(s) /\ s[at] > base
    BY <2>1, <1>1, <1>3
  <2>3. ASSUME NEW i \in 1 .. Len(s) PROVE IF i < at THEN s[i] < base ELSE s[i] >= base + n
    <3>1. i < at => i \notin above
      BY <2>1, <2>2, <1>3
    <3>2. i >= at => s[i] >= s[at]
      BY <2>2, <1>3, InOrder
    <3>3. s[i] \in Nat /\ s[at] \in Nat
      BY <2>2, <1>4
    <3> QED BY <3>1, <3>2, <3>3, <2>2, <1>3, <1>4
  <2> QED BY <2>2, <2>3, <1>1, <1>3
<1> QED BY <1>5, <1>6

\* The lengths when the block is merged with the next one.
MergesNext(F, prop, base, n, nx, p1) ==
    /\ F \in SUBSET Page /\ prop \in [Page -> Nat] /\ Lengths(F, prop)
    /\ base \in Page /\ n \in Nat \ {0} /\ Run(base, n) \cap F = {}
    /\ Run(base, n) \subseteq Page /\ \A q \in Run(base, n) : q # base => prop[q] = 0
    /\ base + n = nx <=> base + n \in F
    /\ p1 = MergeNext(prop, base, n, nx)

Unchanged(F, prop, base, p1) == \A q \in Page : q \notin F /\ q # base => p1[q] = prop[q]

LEMMA MergedNext ==
  ASSUME NEW F, NEW prop, NEW base, NEW n, NEW nx, NEW p1,
         MergesNext(F, prop, base, n, nx, p1)
  PROVE  /\ p1 \in [Page -> Nat]
         /\ Unchanged(F, prop, base, p1)
         /\ Linked(F \cup Run(base, n), p1, base)
<1>0. /\ F \in SUBSET Page /\ prop \in [Page -> Nat] /\ Lengths(F, prop)
      /\ base \in Page /\ n \in Nat \ {0} /\ Run(base, n) \cap F = {}
      /\ Run(base, n) \subseteq Page /\ \A q \in Run(base, n) : q # base => prop[q] = 0
      /\ base + n = nx <=> base + n \in F
      /\ p1 = MergeNext(prop, base, n, nx)
  BY DEF MergesNext
<1> USE <1>0
<1>1. base \in Nat /\ F \subseteq Nat /\ base # base + n /\ base \notin F
  <2>1. base \in Nat
    BY PagesAre
  <2>2. base \in Run(base, n)
    BY <2>1, Runs
  <2> QED BY <2>1, <2>2, PagesAre
<1>2. /\ p1 \in [Page -> Nat]
      /\ base + n \in F => p1[base] = n + prop[base + n] /\ p1[base + n] = 0
      /\ base + n \notin F => p1[base] = n
      /\ \A q \in Page : q # base /\ (q # base + n \/ base + n \notin F) => p1[q] = prop[q]
  <2>1. CASE base + n \in F
    <3>1. p1 = [prop EXCEPT ![base] = n + prop[base + n], ![base + n] = 0]
      BY <2>1 DEF MergeNext
    <3>2. base + n \in Page /\ prop[base + n] \in Nat
      BY <2>1
    <3> QED BY <3>1, <3>2, <2>1, <1>1
  <2>2. CASE base + n \notin F
    <3>1. p1 = [prop EXCEPT ![base] = n]
      BY <2>2 DEF MergeNext
    <3> QED BY <3>1, <2>2, <1>1
  <2> QED BY <2>1, <2>2
<1>3. Links(F, prop, base, n, p1)
  BY <1>1, <1>2 DEF Links
<1>4. Unchanged(F, prop, base, p1)
  BY <1>1, <1>2 DEF Unchanged
<1> QED BY <1>2, <1>3, <1>4, LinkBlocks

\* The lengths when it is then merged with the one before.
MergesPrev(G, p1, base, below, p2) ==
    /\ G \in SUBSET Page /\ p1 \in [Page -> Nat] /\ Linked(G, p1, base)
    /\ below \in Seq(Page) /\ Ascending(below)
    /\ \A q : q \in ToSet(below) <=> q \in G /\ q < base
    /\ p2 = MergePrev(p1, below, base)

LEMMA MergedPrev ==
  ASSUME NEW G, NEW p1, NEW base, NEW below, NEW p2, MergesPrev(G, p1, base, below, p2)
  PROVE  /\ p2 \in [Page -> Nat]
         /\ \A q \in Page : q \notin G => p2[q] = p1[q]
         /\ BlocksRight(G, p2)
<1>a. /\ G \in SUBSET Page /\ p1 \in [Page -> Nat] /\ Linked(G, p1, base)
      /\ below \in Seq(Page) /\ Ascending(below)
      /\ \A q : q \in ToSet(below) <=> q \in G /\ q < base
      /\ p2 = MergePrev(p1, below, base)
  BY DEF MergesPrev
<1> USE <1>a
<1>0. /\ G \in SUBSET Nat /\ base \in G /\ base \in Nat /\ base \in Page
      /\ p1[base] # 0 /\ p1[base] \in Nat
  BY PagesAre DEF Linked
<1>1. PICK heads : heads = {i \in DOMAIN below : p1[below[i]] # 0}
  OBVIOUS
<1>2. PICK L : L = Len(below)
  OBVIOUS
<1>3. /\ L \in Nat /\ DOMAIN below = 1 .. L /\ heads \subseteq 1 .. L
      /\ \A i \in 1 .. L : below[i] \in G /\ below[i] < base /\ below[i] \in Nat
      /\ \A q \in G : q < base => \E i \in 1 .. L : below[i] = q
  BY <1>0, <1>1, <1>2, Listed
<1>4. below # <<>> <=> L # 0
  BY <1>2, EmptySeq
<1>5. p2 = IF below # <<>> /\ below[L] + 1 = base /\ heads # {}
           THEN [p1 EXCEPT ![below[Max(heads)]] = @ + p1[base], ![base] = 0] ELSE p1
  BY <1>1, <1>2 DEF MergePrev, Last
<1>6. CASE base - 1 \in G
  <2>1. PICK j \in 1 .. L : below[j] = base - 1
    BY <1>0, <1>3, <1>6
  <2>2. L # 0 /\ below[L] + 1 = base
    <3>1. below[j] <= below[L]
      <4>1. j \in DOMAIN below /\ L \in DOMAIN below /\ j <= L
        BY <2>1, <1>3
      <4> QED BY <4>1, InOrder
    <3>2. L \in 1 .. L
      BY <2>1, <1>3
    <3>3. below[L] \in Nat /\ below[L] < base
      BY <3>2, <1>3
    <3> QED BY <3>1, <3>2, <3>3, <2>1, <1>0
  <2>3. heads # {}
    <3>1. PICK g \in G : g < base /\ p1[g] # 0
      BY <1>6, HeadBefore
    <3>2. PICK i \in 1 .. L : below[i] = g
      BY <3>1, <1>3
    <3> QED BY <3>1, <3>2, <1>1, <1>3
  <2>4. PICK m, h : m = Max(heads) /\ h = below[m]
    OBVIOUS
  <2>5. m \in heads /\ \A k \in heads : m >= k
    BY <2>3, <2>4, <1>3, MaxIs
  <2>6. h \in G /\ h \in Nat /\ h < base /\ p1[h] # 0
    BY <2>4, <2>5, <1>1, <1>3
  <2>7. ASSUME NEW g \in G, g < base, p1[g] # 0 PROVE g <= h
    <3>1. PICK i \in 1 .. L : below[i] = g
      BY <2>7, <1>3
    <3>2. i \in heads
      BY <3>1, <2>7, <1>1, <1>3
    <3>3. m >= i /\ m \in DOMAIN below /\ i \in DOMAIN below
      BY <3>2, <2>5, <1>3
    <3>4. below[i] <= below[m]
      BY <3>3, <1>3, InOrder
    <3> QED BY <3>1, <3>4, <2>4
  <2>8. h + p1[h] = base
    <3>1. Linked(G, p1, base) /\ base - 1 \in G
      BY <1>a, <1>6
    <3>2. \A x \in G : LastHead(G, p1, base, x) => x + p1[x] = base
      BY <3>1, HeadBefore
    <3>3. LastHead(G, p1, base, h)
      BY <2>6, <2>7 DEF LastHead
    <3> QED BY <2>6, <3>2, <3>3
  <2>9. p2 = [p1 EXCEPT ![h] = @ + p1[base], ![base] = 0]
    BY <2>2, <2>3, <2>4, <1>4, <1>5
  <2>10. h # base /\ h \in Page /\ p1[h] \in Nat
    BY <2>6, <1>0
  <2>11. /\ p2 \in [Page -> Nat] /\ p2[h] = p1[h] + p1[base] /\ p2[base] = 0
         /\ \A q \in Page : q # h /\ q # base => p2[q] = p1[q]
    BY <2>9, <2>10, <1>0
  <2>12. Joins(G, p1, base, h, p2)
    BY <2>6, <2>8, <2>11 DEF Joins
  <2>13. BlocksRight(G, p2)
    BY <2>12, JoinBlocks
  <2> QED BY <2>6, <2>11, <2>13, <1>0
<1>7. CASE base - 1 \notin G
  <2>1. ~ (below # <<>> /\ below[L] + 1 = base)
    <3>1. SUFFICES ASSUME L # 0, below[L] + 1 = base PROVE FALSE
      BY <1>4
    <3>2. L \in 1 .. L
      BY <3>1, <1>3
    <3>3. below[L] \in G /\ below[L] = base - 1
      BY <3>1, <3>2, <1>3
    <3> QED BY <3>3, <1>7
  <2>2. p2 = p1
    BY <2>1, <1>5
  <2>3. BlocksRight(G, p1)
    BY <1>7, NoneBefore
  <2> QED BY <2>2, <2>3
<1> QED BY <1>6, <1>7

\* Freeing a block that was handed out keeps the invariant.
LEMMA FreeKeeps ==
  ASSUME NEW f, NEW H, NEW U, AreaInv(f, H, U), NEW b \in H,
         NEW base, base = b[1], NEW n, n = b[2]
  PROVE  AreaInv(default_free_pages(f, base, n), H \ {b}, U)
<1>1. PICK s, prop, F, at, below, nx, p1, g, t, p2, r, G :
          /\ s = f.list /\ prop = f.property /\ F = ToSet(s) /\ at = PlaceOf(f, base)
          /\ below = SubSeq(s, 1, at - 1)
          /\ nx = IF at <= Len(s) THEN s[at] ELSE NPage + 1
          /\ p1 = MergeNext(prop, base, n, nx)
          /\ g = default_free_pages(f, base, n) /\ t = g.list /\ p2 = g.property
          /\ r = g.reserved /\ G = F \cup Run(base, n)
  OBVIOUS
<1>2. /\ s \in Seq(Page) /\ Ascending(s) /\ F \subseteq Page /\ prop \in [Page -> Nat]
      /\ F \in SUBSET Nat /\ (\A q \in F : prop[q] \in Nat) /\ BlocksRight(F, prop)
      /\ f.nrFree = Len(s) /\ Len(s) \in Nat /\ DOMAIN s = 1 .. Len(s)
  BY <1>1, AreaFacts DEF AreaInv
<1>3. /\ \A a \in H : /\ a \in Page \X (Nat \ {0}) /\ a[1] \in f.reserved
                      /\ Pages(a) \subseteq Page /\ Pages(a) \cap F = {}
                      /\ \A q \in Pages(a) : q # a[1] => prop[q] = 0
      /\ \A a, c \in H : a # c => Pages(a) \cap Pages(c) = {}
      /\ U = Taken(H) \cup F
  BY <1>1 DEF AreaInv, HandedOut
<1>4. /\ base \in Page /\ base \in Nat /\ n \in Nat \ {0} /\ Pages(b) = Run(base, n)
      /\ Run(base, n) \subseteq Page /\ Run(base, n) \cap F = {}
      /\ \A q \in Run(base, n) : q # base => prop[q] = 0
  BY <1>3, PagesAre DEF Pages
<1>5. base \in Run(base, n)
  BY <1>4, Runs
<1>6. /\ at \in 1 .. Len(s) + 1
      /\ \A i \in 1 .. Len(s) : IF i < at THEN s[i] < base ELSE s[i] >= base + n
  BY <1>1, <1>2, <1>4, PlaceIs
<1>7. /\ t = Insert(s, at, base, n) /\ p2 = MergePrev(p1, below, base)
      /\ r = f.reserved \ {base} /\ g.nrFree = Len(s) + n
  BY <1>1, <1>2 DEF default_free_pages, Insert
<1>8. /\ t \in Seq(Page) /\ Len(t) = Len(s) + n /\ Ascending(t) /\ ToSet(t) = G
  <2>1. /\ t \in Seq(Page) /\ Len(t) = Len(s) + n /\ Ascending(t)
        /\ ToSet(t) = ToSet(s) \cup Run(base, n)
    <3>1. Inserts(s, at, base, n, t)
      BY <1>2, <1>4, <1>6, <1>7 DEF Inserts
    <3> QED BY <3>1, InsertList
  <2> QED BY <2>1, <1>1
<1>9. base + n = nx <=> base + n \in F
  <2>1. ASSUME base + n \in F PROVE base + n = nx
    <3>1. PICK j \in 1 .. Len(s) : s[j] = base + n
      BY <2>1, <1>1, <1>2, Listed
    <3>2. j >= at /\ at <= Len(s)
      BY <3>1, <1>2, <1>4, <1>6
    <3>3. at \in DOMAIN s /\ j \in DOMAIN s /\ s[at] \in Nat
      BY <3>1, <3>2, <1>2, <1>6, Listed
    <3>4. s[at] <= s[j]
      BY <3>2, <3>3, <1>2, InOrder
    <3>5. s[at] >= base + n
      BY <3>2, <3>3, <1>2, <1>6
    <3>6. nx = s[at]
      BY <3>2, <1>1
    <3>7. s[at] <= base + n /\ base + n \in Nat
      BY <3>1, <3>4, <1>4
    <3> QED BY <3>3, <3>5, <3>6, <3>7
  <2>2. ASSUME base + n = nx PROVE base + n \in F
    <3>1. at <= Len(s)
      <4>1. base + n # NPage + 1
        <5>1. base + n - 1 \in Run(base, n)
          BY <1>4, Runs
        <5>2. base + n - 1 < NPage
          BY <5>1, <1>4, PagesAre
        <5> QED BY <5>2, <1>4, PagesAre
      <4> QED BY <4>1, <2>2, <1>1
    <3>2. at \in 1 .. Len(s)
      BY <3>1, <1>2, <1>6
    <3> QED BY <3>1, <3>2, <2>2, <1>1, <1>2, Listed
  <2> QED BY <2>1, <2>2
<1>10. /\ p1 \in [Page -> Nat]
       /\ \A q \in Page : q \notin F /\ q # base => p1[q] = prop[q]
       /\ Linked(G, p1, base)
  <2>1. Lengths(F, prop)
    BY <1>2 DEF Lengths
  <2>2. /\ p1 \in [Page -> Nat]
        /\ \A q \in Page : q \notin F /\ q # base => p1[q] = prop[q]
        /\ Linked(F \cup Run(base, n), p1, base)
    <3>1. MergesNext(F, prop, base, n, nx, p1)
      BY <2>1, <1>1, <1>2, <1>4, <1>9 DEF MergesNext
    <3>2. /\ p1 \in [Page -> Nat] /\ Linked(F \cup Run(base, n), p1, base)
          /\ Unchanged(F, prop, base, p1)
      BY <3>1, MergedNext
    <3> QED BY <3>2 DEF Unchanged
  <2> QED BY <2>2, <1>1
<1>11. /\ below \in Seq(Page) /\ Ascending(below)
       /\ \A q : q \in ToSet(below) <=> q \in G /\ q < base
  <2>1. /\ below \in Seq(Page) /\ Len(below) = at - 1 /\ DOMAIN below = 1 .. at - 1
        /\ \A i \in 1 .. at - 1 : below[i] = s[i] /\ i \in DOMAIN s
    <3>1. /\ at - 1 \in Nat /\ at - 1 <= Len(s) /\ 1 <= (at - 1) + 1
          /\ (at - 1) - 1 + 1 = at - 1
      BY <1>2, <1>6
    <3>2. /\ below \in Seq(Page) /\ Len(below) = (at - 1) - 1 + 1
          /\ \A i \in 1 .. (at - 1) - 1 + 1 : below[i] = s[1 + i - 1]
      BY <3>1, <1>1, <1>2, Parts
    <3>3. \A i \in 1 .. at - 1 : 1 + i - 1 = i /\ i \in DOMAIN s
      BY <3>1, <1>2
    <3> QED BY <3>1, <3>2, <3>3, LenProperties
  <2>2. Ascending(below)
    BY <2>1, <1>2 DEF Ascending
  <2>3. ASSUME NEW q, q \in ToSet(below) PROVE q \in G /\ q < base
    <3>1. PICK i \in 1 .. at - 1 : below[i] = q
      BY <2>1, <2>3, Listed
    <3>2. i < at /\ i \in 1 .. Len(s) /\ q = s[i]
      BY <3>1, <2>1, <1>2, <1>6
    <3>3. s[i] \in F /\ s[i] < base
      BY <3>2, <1>1, <1>2, <1>6, Listed
    <3> QED BY <3>2, <3>3, <1>1
  <2>4. ASSUME NEW q, q \in G, q < base PROVE q \in ToSet(below)
    <3>1. q \in F
      BY <2>4, <1>1, <1>4, Runs
    <3>2. PICK i \in 1 .. Len(s) : s[i] = q
      BY <3>1, <1>1, <1>2, Listed
    <3>3. i \in 1 .. at - 1
      BY <3>1, <3>2, <2>4, <1>2, <1>4, <1>6
    <3> QED BY <3>2, <3>3, <2>1, Listed
  <2> QED BY <2>1, <2>2, <2>3, <2>4
<1>12. /\ p2 \in [Page -> Nat] /\ BlocksRight(G, p2)
       /\ \A q \in Page : q \notin G => p2[q] = prop[q]
  <2>1. G \in SUBSET Page
    BY <1>1, <1>2, <1>4
  <2>2. /\ p2 \in [Page -> Nat] /\ \A q \in Page : q \notin G => p2[q] = p1[q]
        /\ BlocksRight(G, p2)
    <3>1. MergesPrev(G, p1, base, below, p2)
      BY <2>1, <1>7, <1>10, <1>11 DEF MergesPrev
    <3> QED BY <3>1, MergedPrev
  <2> QED BY <2>2, <1>1, <1>5, <1>10
<1>13. FreeArea(g)
  BY <1>1, <1>7, <1>8, <1>12 DEF FreeArea
<1>14. ASSUME NEW a \in H \ {b}
       PROVE  /\ a[1] \in r /\ Pages(a) \cap G = {}
              /\ \A q \in Pages(a) : q # a[1] => p2[q] = 0
  <2>1. Pages(a) \cap Run(base, n) = {} /\ Pages(a) \cap F = {}
    BY <1>3, <1>4
  <2>2. Pages(a) \cap G = {}
    BY <2>1, <1>1
  <2>3. a[1] \in Pages(a)
    <3>1. a[1] \in Nat /\ a[2] \in Nat \ {0}
      BY <1>3, PagesAre
    <3> QED BY <3>1, Runs DEF Pages
  <2>4. a[1] \in r
    BY <2>1, <2>3, <1>3, <1>5, <1>7
  <2>5. \A q \in Pages(a) : p2[q] = prop[q]
    BY <2>2, <1>3, <1>12
  <2> QED BY <2>2, <2>4, <2>5, <1>3
<1>15. U = Taken(H \ {b}) \cup G
  <2>1. Taken(H) = Taken(H \ {b}) \cup Pages(b)
    BY TakenWith
  <2> QED BY <2>1, <1>1, <1>3, <1>4
<1>16. HandedOut(g, H \ {b}, U)
  BY <1>1, <1>3, <1>8, <1>14, <1>15 DEF HandedOut
<1> QED BY <1>1, <1>13, <1>16 DEF AreaInv

\* A zone above the others keeps it too, while nothing is handed out.
LEMMA ZoneKeeps ==
  ASSUME NEW f, NEW U, AreaInv(f, {}, U), NEW base \in Nat, NEW n \in Nat \ {0},
         Run(base, n) \subseteq Page, \A q \in U : q + 1 < base
  PROVE  AreaInv(default_init_memmap(f, base, n), {}, U \cup Run(base, n))
<1>1. PICK s, prop, F, g, t, p2 :
          /\ s = f.list /\ prop = f.property /\ F = ToSet(s)
          /\ g = default_init_memmap(f, base, n) /\ t = g.list /\ p2 = g.property
  OBVIOUS
<1>2. /\ s \in Seq(Page) /\ Ascending(s) /\ F \subseteq Page /\ prop \in [Page -> Nat]
      /\ F \in SUBSET Nat /\ (\A q \in F : prop[q] \in Nat) /\ BlocksRight(F, prop)
      /\ f.nrFree = Len(s) /\ Len(s) \in Nat /\ DOMAIN s = 1 .. Len(s)
  BY <1>1, AreaFacts DEF AreaInv
<1>3. U = F
  BY <1>1 DEF AreaInv, HandedOut, Taken
<1>4. /\ t = s \o RunSeq(base, n) /\ g.nrFree = Len(s) + n
      /\ p2 = [p \in Page |-> IF p = base THEN n
                              ELSE IF p \in Run(base, n) THEN 0 ELSE prop[p]]
  BY <1>1, <1>2 DEF default_init_memmap
<1>5. t = Insert(s, Len(s) + 1, base, n)
  <2>1. SubSeq(s, 1, Len(s) + 1 - 1) = s
    <3>1. Len(s) + 1 - 1 = Len(s)
      BY <1>2
    <3> QED BY <3>1, <1>2, SubSeqFull
  <2>2. SubSeq(s, Len(s) + 1, Len(s)) = <<>>
    BY <1>2, SubSeqEmpty
  <2>3. RunSeq(base, n) \in Seq(Page)
    <3>1. \A i \in 1 .. n : base + i - 1 \in Run(base, n)
      BY Runs
    <3>2. RunSeq(base, n) \in [1 .. n -> Page]
      BY <3>1 DEF RunSeq
    <3> QED BY <3>2, SeqDef
  <2>4. (s \o RunSeq(base, n)) \o <<>> = s \o RunSeq(base, n)
    BY <2>3, <1>2, ConcatProperties, ConcatEmptySeq
  <2>5. PICK lo, mid, hi : /\ lo = SubSeq(s, 1, Len(s) + 1 - 1) /\ mid = RunSeq(base, n)
                           /\ hi = SubSeq(s, Len(s) + 1, Len(s))
    OBVIOUS
  <2>6. Insert(s, Len(s) + 1, base, n) = (lo \o mid) \o hi
    BY <2>5 DEF Insert
  <2>7. lo = s /\ hi = <<>>
    BY <2>1, <2>2, <2>5
  <2>8. (s \o mid) \o <<>> = s \o mid
    BY <2>4, <2>5
  <2> QED BY <2>5, <2>6, <2>7, <2>8, <1>4
<1>6. \A i \in 1 .. Len(s) : s[i] \in Nat /\ s[i] + 1 < base
  BY <1>1, <1>2, <1>3, Listed
<1>7. /\ t \in Seq(Page) /\ Len(t) = Len(s) + n /\ Ascending(t) /\ ToSet(t) = F \cup Run(base, n)
  <2>1. Len(s) + 1 \in 1 .. Len(s) + 1
    BY <1>2
  <2>2. \A i \in 1 .. Len(s) : IF i < Len(s) + 1 THEN s[i] < base ELSE s[i] >= base + n
    BY <1>2, <1>6
  <2>3. /\ t \in Seq(Page) /\ Len(t) = Len(s) + n /\ Ascending(t)
        /\ ToSet(t) = ToSet(s) \cup Run(base, n)
    <3>1. Inserts(s, Len(s) + 1, base, n, t)
      BY <2>1, <2>2, <1>2, <1>5 DEF Inserts
    <3> QED BY <3>1, InsertList
  <2> QED BY <2>3, <1>1
<1>8. p2 \in [Page -> Nat]
  BY <1>2, <1>4
<1>9. BlocksRight(F \cup Run(base, n), p2)
  <2>1. base \in Run(base, n) /\ base \in Page
    BY Runs
  <2>2. p2[base] = n /\ \A q \in Run(base, n) : q # base => p2[q] = 0
    BY <2>1, <1>4
  <2>3. \A q \in F : q + 1 < base /\ q \notin Run(base, n) /\ q # base
    BY <1>2, <1>3, Runs
  <2>4. \A q \in F : p2[q] = prop[q]
    BY <2>3, <1>2, <1>4
  <2>5. Adds(F, prop, base, n, p2)
    BY <2>2, <2>3, <2>4, <1>2 DEF Adds
  <2> QED BY <2>5, ZoneBlocks
<1>10. FreeArea(g)
  BY <1>1, <1>4, <1>7, <1>8, <1>9 DEF FreeArea
<1>11. HandedOut(g, {}, U \cup Run(base, n))
  BY <1>1, <1>3, <1>7 DEF HandedOut, Taken
<1> QED BY <1>1, <1>10, <1>11 DEF AreaInv

-----------------------------------------------------------------------------
(* The invariant holds, and what follows from it.                           *)

LEMMA SetAreaIs ==
  ASSUME NEW g, g = [list |-> g.list, property |-> g.property,
                     reserved |-> g.reserved, nrFree |-> g.nrFree],
         SetArea(g)
  PROVE  Area' = g
BY DEF SetArea, Area

LEMMA AllocArea ==
  ASSUME NEW f, NEW n, SetArea(default_alloc_pages(f, n))
  PROVE  Area' = default_alloc_pages(f, n)
<1> DEFINE g == default_alloc_pages(f, n)
<1>1. g = [list |-> g.list, property |-> g.property,
           reserved |-> g.reserved, nrFree |-> g.nrFree]
  BY DEF default_alloc_pages
<1> QED BY <1>1, SetAreaIs

LEMMA FreedArea ==
  ASSUME NEW f, NEW base, NEW n, SetArea(default_free_pages(f, base, n))
  PROVE  Area' = default_free_pages(f, base, n)
<1> DEFINE g == default_free_pages(f, base, n)
<1>1. g = [list |-> g.list, property |-> g.property,
           reserved |-> g.reserved, nrFree |-> g.nrFree]
  BY DEF default_free_pages
<1> QED BY <1>1, SetAreaIs

\* A call leaves the zones alone.
LEMMA CallKeeps ==
  ASSUME MemoryInv, Booted, zone' = zone, AreaInv(Area', held', Usable), LargeHeld'
  PROVE  MemoryInv'
<1>1. Usable' = Usable
  BY DEF Usable
<1>2. Booting'
  BY DEF MemoryInv, Booting, Booted
<1> QED BY <1>1, <1>2 DEF MemoryInv

LEMMA InitHolds ==
  ASSUME SlobInit
  PROVE  MemoryInv
<1>1. Usable = {}
  <2>1. zone = 0
    BY DEF SlobInit, Init
  <2> QED BY <2>1 DEF Usable
<1>2. /\ Area.list = <<>> /\ Area.property = [p \in Page |-> 0] /\ Area.nrFree = 0
      /\ held = {} /\ bigblocks = {} /\ zone = 0
  BY DEF SlobInit, Init, Area
<1>3. ToSet(Area.list) = {} /\ Ascending(Area.list) /\ Area.list \in Seq(Page)
      /\ Len(Area.list) = 0
  <2>1. <<>> \in Seq(Page) /\ Len(<<>>) = 0 /\ DOMAIN <<>> = {}
    BY EmptySeq
  <2> QED BY <2>1, <1>2 DEF ToSet, Ascending
<1>4. FreeArea(Area)
  <2>1. BlocksRight({}, Area.property)
    BY DEF BlocksRight
  <2>2. Area.property \in [Page -> Nat]
    BY <1>2
  <2>3. BlocksRight(ToSet(Area.list), Area.property) /\ Area.nrFree = Len(Area.list)
    BY <2>1, <1>2, <1>3
  <2> QED BY <2>2, <2>3, <1>3 DEF FreeArea
<1>5. HandedOut(Area, {}, {})
  BY <1>3 DEF HandedOut, Taken
<1>6. Booting
  <2>1. Len(Zones) \in Nat
    BY ZonesAssumption
  <2> QED BY <2>1, <1>2 DEF Booting
<1>7. LargeHeld
  BY <1>2 DEF LargeHeld, Large
<1> QED BY <1>1, <1>2, <1>4, <1>5, <1>6, <1>7 DEF MemoryInv, AreaInv

\* page_init adds a zone above those it has done.
LEMMA BootKeeps ==
  ASSUME MemoryInv, Boot
  PROVE  MemoryInv'
<1>1. PICK z, base, n, g :
          /\ z = zone + 1 /\ base = Zones[z][1] /\ n = Zones[z][2]
          /\ g = default_init_memmap(Area, base, n)
  OBVIOUS
<1>2. zone \in Nat /\ z \in 1 .. Len(Zones) /\ Len(Zones) \in Nat /\ ~ Booted
  BY <1>1, ZonesAssumption DEF Boot, page_init, Booted, MemoryInv, Booting
<1>3. held = {} /\ held' = {} /\ zone' = z /\ SetArea(g) /\ bigblocks' = bigblocks
  BY <1>1, <1>2 DEF Boot, page_init, MemoryInv, Booting, heapVars
<1>4. \A i \in 1 .. Len(Zones) : /\ Zones[i] \in Page \X (1 .. NPage)
                                 /\ Run(Zones[i][1], Zones[i][2]) \subseteq Page
  BY ZonesAssumption
<1>5. base \in Nat /\ n \in Nat \ {0} /\ Run(base, n) \subseteq Page
  BY <1>1, <1>2, <1>4, PagesAre
<1>6. \A q : q \in Usable <=> \E i \in 1 .. zone : q \in Run(Zones[i][1], Zones[i][2])
  BY DEF Usable
<1>7. \A q \in Usable : q + 1 < base
  <2> SUFFICES ASSUME NEW q \in Usable PROVE q + 1 < base
    OBVIOUS
  <2>1. PICK i \in 1 .. zone : q \in Run(Zones[i][1], Zones[i][2])
    BY <1>6
  <2>2. PICK c, m : c = Zones[i][1] /\ m = Zones[i][2]
    OBVIOUS
  <2>3. i \in 1 .. Len(Zones) /\ i < z
    BY <1>1, <1>2
  <2>4. c \in Nat /\ m \in Nat
    BY <2>2, <2>3, <1>4, PagesAre
  <2>5. c + m < base
    <3>1. i \in DOMAIN Zones /\ z \in DOMAIN Zones
      BY <2>3, <1>2, ZonesAssumption
    <3>2. Zones[i][1] + Zones[i][2] < Zones[z][1]
      BY <3>1, <2>3, ZonesAssumption
    <3> QED BY <3>2, <2>2, <1>1
  <2>6. q \in Int /\ q < c + m
    BY <2>1, <2>2, <2>4, Runs
  <2> QED BY <2>4, <2>5, <2>6, <1>5
<1>8. Usable' = Usable \cup Run(base, n)
  <2>1. \A q : q \in Usable' <=> \E i \in 1 .. z : q \in Run(Zones[i][1], Zones[i][2])
    BY <1>3 DEF Usable
  <2>2. \A i : i \in 1 .. z <=> i \in 1 .. zone \/ i = z
    BY <1>1, <1>2
  <2> QED BY <2>1, <2>2, <1>1, <1>6
<1>9. AreaInv(g, {}, Usable \cup Run(base, n))
  <2>1. AreaInv(Area, {}, Usable)
    BY <1>3 DEF MemoryInv
  <2> QED BY <2>1, <1>1, <1>5, <1>7, ZoneKeeps
<1>10. Area' = g
  <2>1. g = [list |-> g.list, property |-> g.property,
             reserved |-> g.reserved, nrFree |-> g.nrFree]
    BY <1>1 DEF default_init_memmap
  <2> QED BY <2>1, <1>3, SetAreaIs
<1>11. Booting'
  BY <1>2, <1>3 DEF Booting
<1>12. LargeHeld'
  BY <1>3 DEF MemoryInv, LargeHeld, Large
<1> QED BY <1>3, <1>8, <1>9, <1>10, <1>11, <1>12 DEF MemoryInv

\* What slob_alloc does to the pages: nothing, or it takes one.
Ones(P) == {<<p, 1>> : p \in P}

LEMMA AllocsKeep ==
  ASSUME AreaInv(Area, held, Usable), NEW n, NEW a \in Allocs(n)
  PROVE  AreaInv(a.area, held \cup Ones(a.grown), Usable)
<1>1. CASE Fitting(Heap, n) # {}
  <2>1. a.area = Area /\ a.grown = {}
    BY <1>1 DEF Allocs
  <2>2. held \cup Ones(a.grown) = held
    BY <2>1 DEF Ones
  <2> QED BY <2>1, <2>2
<1>2. CASE Fitting(Heap, n) = {}
  <2>1. PICK p \in IF Finds(Area, 1) THEN {Found(Area, 1)} ELSE {} :
           a.area = default_alloc_pages(Area, 1) /\ a.grown = {p}
    BY <1>2 DEF Allocs
  <2>2. Finds(Area, 1) /\ p = Found(Area, 1)
    BY <2>1
  <2>3. Fits(Area, 1) # {}
    BY <2>2 DEF Finds
  <2>4. PICK b : b = <<p, 1>>
    OBVIOUS
  <2>5. AreaInv(default_alloc_pages(Area, 1), held \cup {b}, Usable)
    BY <2>2, <2>3, <2>4, AllocKeeps
  <2>6. held \cup Ones(a.grown) = held \cup {b}
    BY <2>1, <2>4 DEF Ones
  <2> QED BY <2>1, <2>5, <2>6
<1> QED BY <1>1, <1>2

LEMMA AreaOfAllocs ==
  ASSUME NEW n, NEW a \in Allocs(n), SetArea(a.area)
  PROVE  Area' = a.area
<1>1. a.area = Area \/ a.area = default_alloc_pages(Area, 1)
  BY DEF Allocs
<1>2. CASE a.area = Area
  <2>1. Area = [list |-> Area.list, property |-> Area.property,
                reserved |-> Area.reserved, nrFree |-> Area.nrFree]
    BY DEF Area
  <2>2. SetArea(Area)
    BY <1>2
  <2> QED BY <2>1, <2>2, <1>2, SetAreaIs
<1>3. CASE a.area = default_alloc_pages(Area, 1)
  <2>1. SetArea(default_alloc_pages(Area, 1))
    BY <1>3
  <2> QED BY <2>1, <1>3, AllocArea
<1> QED BY <1>1, <1>2, <1>3

\* Blocks that are handed out do not disturb the large objects.
LEMMA LargeStays ==
  ASSUME MemoryInv, held \subseteq held', bigblocks' = bigblocks
  PROVE  LargeHeld'
BY DEF MemoryInv, LargeHeld, Large

LEMMA SmallKeeps ==
  ASSUME MemoryInv, Booted, NEW u, kmalloc_small(u)
  PROVE  MemoryInv'
<1>1. PICK a \in Allocs(u + 1) : SetArea(a.area) /\ held' = held \cup Ones(a.grown)
  BY DEF kmalloc_small, Ones
<1>2. zone' = zone /\ bigblocks' = bigblocks
  BY DEF kmalloc_small
<1>3. Area' = a.area
  BY <1>1, AreaOfAllocs
<1>4. AreaInv(a.area, held \cup Ones(a.grown), Usable)
  <2>1. AreaInv(Area, held, Usable)
    BY DEF MemoryInv
  <2> QED BY <2>1, <1>1, AllocsKeep
<1>5. LargeHeld'
  BY <1>1, <1>2, LargeStays
<1> QED BY <1>1, <1>2, <1>3, <1>4, <1>5, CallKeeps

LEMMA LargeKeeps ==
  ASSUME MemoryInv, Booted, NEW u, kmalloc_large(u)
  PROVE  MemoryInv'
<1>1. PICK a, n, page, order :
          /\ a \in Allocs(BigUnits) /\ order = find_order(u) /\ n = 2^order /\ page = Found(a.area, n)
          /\ \/ /\ Finds(a.area, n) /\ SetArea(default_alloc_pages(a.area, n))
                /\ held' = held \cup Ones(a.grown) \cup {<<page, n>>}
                /\ bigblocks' = bigblocks \cup {[bb |-> a.block, page |-> page, order |-> order]}
             \/ /\ SetArea(a.area) /\ held' = held \cup Ones(a.grown)
                /\ bigblocks' = bigblocks
  BY DEF kmalloc_large, Ones
<1>2. zone' = zone
  BY DEF kmalloc_large
<1>3. AreaInv(a.area, held \cup Ones(a.grown), Usable)
  <2>1. AreaInv(Area, held, Usable)
    BY DEF MemoryInv
  <2> QED BY <2>1, <1>1, AllocsKeep
<1>4. CASE /\ Finds(a.area, n) /\ SetArea(default_alloc_pages(a.area, n))
           /\ held' = held \cup Ones(a.grown) \cup {<<page, n>>}
           /\ bigblocks' = bigblocks \cup {[bb |-> a.block, page |-> page, order |-> order]}
  <2>1. n \in Nat \ {0} /\ Fits(a.area, n) # {}
    <3>1. n \in 1 .. a.area.nrFree /\ Fits(a.area, n) # {}
      BY <1>4 DEF Finds
    <3> QED BY <3>1
  <2>2. PICK H, b : H = held \cup Ones(a.grown) /\ b = <<page, n>>
    OBVIOUS
  <2>3. /\ AreaInv(default_alloc_pages(a.area, n), H \cup {b}, Usable)
        /\ \A c \in H : c[1] # b[1]
    BY <2>1, <2>2, <1>1, <1>3, AllocKeeps
  <2>4. Area' = default_alloc_pages(a.area, n)
    BY <1>4, AllocArea
  <2>5. AreaInv(Area', held', Usable)
    BY <2>2, <2>3, <2>4, <1>4
  <2>6. LargeHeld'
    <3>1. \A g \in bigblocks : g.page # page
      <4>1. \A g \in bigblocks : <<g.page, 2^g.order>> \in H
        BY <2>2 DEF MemoryInv, LargeHeld, Large
      <4>2. \A g \in bigblocks : <<g.page, 2^g.order>>[1] # b[1]
        BY <4>1, <2>3
      <4> QED BY <4>2, <2>2
    <3>2. Large \subseteq held /\ \A f, g \in bigblocks : f # g => f.page # g.page
      BY DEF MemoryInv, LargeHeld
    <3>3. PICK new : new = [bb |-> a.block, page |-> page, order |-> order]
      OBVIOUS
    <3>4. new.page = page /\ <<new.page, 2^new.order>> = b
      BY <3>3, <2>2, <1>1
    <3>5. \A g \in bigblocks' : g \in bigblocks \/ g = new
      BY <3>3, <1>4
    <3>6. Large' \subseteq held'
      BY <3>2, <3>4, <3>5, <2>2, <1>4 DEF Large
    <3>7. \A f, g \in bigblocks' : f # g => f.page # g.page
      BY <3>1, <3>2, <3>4, <3>5
    <3> QED BY <3>6, <3>7 DEF LargeHeld
  <2> QED BY <2>5, <2>6, <1>2, CallKeeps
<1>5. CASE /\ SetArea(a.area) /\ held' = held \cup Ones(a.grown)
           /\ bigblocks' = bigblocks
  <2>1. Area' = a.area
    BY <1>1, <1>5, AreaOfAllocs
  <2>2. LargeHeld'
    BY <1>5, LargeStays
  <2>3. AreaInv(Area', held', Usable)
    BY <2>1, <1>3, <1>5
  <2> QED BY <2>2, <2>3, <1>2, CallKeeps
<1> QED BY <1>1, <1>4, <1>5

\* What touches neither pages nor bigblocks: a block of the heap given back,
\* the assertion of kmalloc, a stuttering step.
LEMMA HeapOnlyKeeps ==
  ASSUME MemoryInv, UNCHANGED areaVars, UNCHANGED bigblocks
  PROVE  MemoryInv'
<1>1. Area' = Area /\ held' = held /\ Usable' = Usable
  BY DEF areaVars, Area, Usable
<1>2. Booting'
  BY DEF MemoryInv, Booting, Booted, areaVars
<1>3. LargeHeld'
  BY DEF MemoryInv, LargeHeld, Large, areaVars
<1> QED BY <1>1, <1>2, <1>3 DEF MemoryInv

LEMMA FreesKeeps ==
  ASSUME MemoryInv, Booted, NEW b \in held, SetArea(default_free_pages(Area, b[1], b[2])),
         held' = held \ {b}, zone' = zone, LargeHeld'
  PROVE  MemoryInv'
<1>1. PICK base, n : base = b[1] /\ n = b[2]
  OBVIOUS
<1>2. AreaInv(Area, held, Usable)
  BY DEF MemoryInv
<1>3. AreaInv(default_free_pages(Area, base, n), held \ {b}, Usable)
  BY <1>1, <1>2, FreeKeeps
<1>4. SetArea(default_free_pages(Area, base, n))
  BY <1>1
<1>5. Area' = default_free_pages(Area, base, n)
  BY <1>4, FreedArea
<1>6. AreaInv(Area', held', Usable)
  BY <1>3, <1>5
<1> QED BY <1>6, CallKeeps

LEMMA KfreeLargeKeeps ==
  ASSUME MemoryInv, Booted, NEW g \in bigblocks, kfree_large(g)
  PROVE  MemoryInv'
<1>1. PICK b : b = <<g.page, 2^g.order>>
  OBVIOUS
<1>2. b[1] = g.page /\ b[2] = 2^g.order
  BY <1>1
<1>3. b \in held
  BY <1>1 DEF MemoryInv, LargeHeld, Large
<1>4. /\ SetArea(default_free_pages(Area, b[1], b[2]))
      /\ held' = held \ {b} /\ bigblocks' = bigblocks \ {g} /\ zone' = zone
  BY <1>1, <1>2 DEF kfree_large
<1>5. LargeHeld'
  <2>1. Large \subseteq held /\ \A f, h \in bigblocks : f # h => f.page # h.page
    BY DEF MemoryInv, LargeHeld
  <2>2. \A h \in bigblocks' : h \in bigblocks /\ h.page # g.page
    BY <2>1, <1>4
  <2>3. \A h \in bigblocks' : <<h.page, 2^h.order>> # b
    BY <2>2, <1>1
  <2>4. Large' \subseteq held'
    BY <2>1, <2>2, <2>3, <1>4 DEF Large
  <2>5. \A f, h \in bigblocks' : f # h => f.page # h.page
    BY <2>1, <2>2
  <2> QED BY <2>4, <2>5 DEF LargeHeld
<1> QED BY <1>3, <1>4, <1>5, FreesKeeps

LEMMA KfreeKeeps ==
  ASSUME MemoryInv, Booted, NEW a, kfree(a)
  PROVE  MemoryInv'
<1>1. CASE kfree_small(a - 1)
  BY <1>1, HeapOnlyKeeps DEF kfree_small
<1>2. CASE \E g \in bigblocks : kfree_large(g)
  BY <1>2, KfreeLargeKeeps
<1>3. kfree_small(a - 1) \/ \E g \in bigblocks : kfree_large(g)
  BY DEF kfree
<1> QED BY <1>1, <1>2, <1>3

LEMMA CallerAllocsKeeps ==
  ASSUME MemoryInv, Booted, NEW n, CallerAllocs(n)
  PROVE  MemoryInv'
<1>1. PICK h, b : h = Found(Area, n) /\ b = <<h, n>>
  OBVIOUS
<1>2. /\ Finds(Area, n) /\ SetArea(default_alloc_pages(Area, n))
      /\ held' = held \cup {b} /\ zone' = zone /\ bigblocks' = bigblocks
  BY <1>1 DEF CallerAllocs, heapVars
<1>3. n \in Nat \ {0} /\ Fits(Area, n) # {}
  <2>1. n \in 1 .. Area.nrFree /\ Fits(Area, n) # {}
    BY <1>2 DEF Finds
  <2> QED BY <2>1
<1>4. AreaInv(Area, held, Usable)
  BY DEF MemoryInv
<1>5. AreaInv(default_alloc_pages(Area, n), held \cup {b}, Usable)
  BY <1>1, <1>3, <1>4, AllocKeeps
<1>6. Area' = default_alloc_pages(Area, n)
  BY <1>2, AllocArea
<1>7. LargeHeld'
  BY <1>2, LargeStays
<1> QED BY <1>2, <1>5, <1>6, <1>7, CallKeeps

LEMMA CallerFreesKeeps ==
  ASSUME MemoryInv, Booted, NEW b, CallerFrees(b)
  PROVE  MemoryInv'
<1>1. /\ b \in held /\ b \notin Large /\ SetArea(default_free_pages(Area, b[1], b[2]))
      /\ held' = held \ {b} /\ zone' = zone /\ bigblocks' = bigblocks
  BY DEF CallerFrees, Others, heapVars
<1>2. LargeHeld'
  BY <1>1 DEF MemoryInv, LargeHeld, Large
<1> QED BY <1>1, <1>2, FreesKeeps

LEMMA MemoryInductive ==
  /\ SlobInit => MemoryInv
  /\ MemoryInv /\ [SlobNext]_vars => MemoryInv'
<1>1. SlobInit => MemoryInv
  BY InitHolds
<1>2. ASSUME MemoryInv, SlobNext PROVE MemoryInv'
  <2>1. CASE Boot
    BY <2>1, <1>2, BootKeeps
  <2>2. ASSUME Booted, NEW u \in Sizes, kmalloc_small(u) PROVE MemoryInv'
    BY <2>2, <1>2, SmallKeeps
  <2>3. ASSUME Booted, NEW u \in Sizes, kmalloc_asserts(u) PROVE MemoryInv'
    BY <2>3, <1>2, HeapOnlyKeeps DEF kmalloc_asserts, heapVars
  <2>4. ASSUME Booted, NEW u \in Sizes, kmalloc_large(u) PROVE MemoryInv'
    BY <2>4, <1>2, LargeKeeps
  <2>5. ASSUME Booted, NEW a \in Addr, kfree(a) PROVE MemoryInv'
    BY <2>5, <1>2, KfreeKeeps
  <2>6. ASSUME Booted, NEW n \in Blocks, CallerAllocs(n) PROVE MemoryInv'
    BY <2>6, <1>2, CallerAllocsKeeps
  <2>7. ASSUME Booted, NEW b \in held, CallerFrees(b) PROVE MemoryInv'
    BY <2>7, <1>2, CallerFreesKeeps
  <2> QED BY <2>1, <2>2, <2>3, <2>4, <2>5, <2>6, <2>7, <1>2 DEF SlobNext, Call
<1>3. ASSUME MemoryInv, UNCHANGED vars PROVE MemoryInv'
  BY <1>3, HeapOnlyKeeps DEF vars, heapVars
<1> QED BY <1>1, <1>2, <1>3

(* The inductive invariant: the lengths in property are those of the blocks  *)
(* of the free list, each block handed out has its own usable pages with no *)
(* length left over in its middle, and a large object of kmalloc has one.   *)
THEOREM MemoryInvariant == Spec => []MemoryInv
BY MemoryInductive, PTL DEF Spec

(* Whatever is allocated and freed, by kmalloc and by everybody else, every *)
(* usable page is free or in the block of one caller, whose first page is   *)
(* still reserved when free_pages asserts it; the free list stays in        *)
(* address order and nr_free is its length.                                 *)
THEOREM PagesHaveOneOwner == Spec => []PagesPartitioned
<1>1. MemoryInv => PagesPartitioned
  <2> SUFFICES ASSUME MemoryInv PROVE PagesPartitioned
    OBVIOUS
  <2>1. Area.list = list /\ Area.reserved = reserved /\ Area.nrFree = nrFree
    BY DEF Area
  <2>2. nrFree = Len(list) /\ Ascending(list)
    BY <2>1 DEF MemoryInv, AreaInv, FreeArea
  <2>3. /\ \A b \in held : b[1] \in reserved /\ Pages(b) \cap ToSet(list) = {}
        /\ \A a, b \in held : a # b => Pages(a) \cap Pages(b) = {}
        /\ Usable = Taken(held) \cup ToSet(list)
    BY <2>1 DEF MemoryInv, AreaInv, HandedOut
  <2>4. Taken(held) = UNION {Run(b[1], b[2]) : b \in held}
    BY DEF Taken, Pages
  <2>5. Taken(held) \cap ToSet(list) = {}
    <3>1. \A x \in Taken(held) : \E b \in held : x \in Pages(b)
      BY DEF Taken
    <3> QED BY <3>1, <2>3
  <2> QED BY <2>2, <2>3, <2>4, <2>5 DEF PagesPartitioned, Pages, Ascending
<1> QED BY <1>1, MemoryInvariant, PTL

(* alloc_pages(n) fails only when no n free pages are in a row, and returns *)
(* the lowest such run otherwise: no history of requests leaves neighbours  *)
(* unmerged or a stale length of a page that was handed out where the search *)
(* believes it.                                                             *)
THEOREM FirstFitExact == Spec => []FirstFit
<1>1. MemoryInv => FirstFit
  <2> SUFFICES ASSUME MemoryInv, NEW n \in 1 .. NPage
               PROVE  LET runs == {p \in Page : Run(p, n) \subseteq ToSet(list)}
                      IN  IF Finds(Area, n)
                          THEN Found(Area, n) \in runs /\ \A p \in runs : Found(Area, n) <= p
                          ELSE runs = {}
    BY DEF FirstFit
  <2>1. FreeArea(Area) /\ Area.list = list /\ n \in Nat \ {0}
    BY PagesAre DEF MemoryInv, AreaInv, Area
  <2>2. Finds(Area, n) => /\ Found(Area, n) \in ToSet(list)
                          /\ Run(Found(Area, n), n) \subseteq ToSet(list)
    BY <2>1, Searching DEF Finds
  <2>3. ToSet(list) \subseteq Page
    BY <2>1, Listed DEF FreeArea
  <2>4. \A p \in Page : Run(p, n) \subseteq ToSet(list) =>
           Finds(Area, n) /\ Found(Area, n) <= p
    BY <2>1, Searching
  <2> QED BY <2>2, <2>3, <2>4
<1> QED BY <1>1, MemoryInvariant, PTL

-----------------------------------------------------------------------------
(* The heap.                                                                *)

\* A heap with the free blocks D, linked by nx: in the order of addresses,
\* none touches the next, and the last leads back to arena.
Ordered(D, nx, un) ==
    /\ D \subseteq Addr /\ arena \in D
    /\ un \in [Addr -> Nat] /\ un[arena] = 1
    /\ nx \in [D -> D]
    /\ \A b \in D : un[b] > 0 /\ b + un[b] - 1 \in Addr
    /\ \A b, c \in D : b < c => b + un[b] < c
    /\ \A b \in D : \/ nx[b] > b /\ \A c \in D : c > b => c >= nx[b]
                    \/ nx[b] = arena /\ \A c \in D : c <= b

\* The units in free blocks.
Free(D, un) == {a \in Addr : \E b \in D : b <= a /\ a < b + un[b]}

\* Addresses are the first naturals, and arena is the least of them.
LEMMA AddrIs ==
  /\ Addr \subseteq Nat /\ arena = 0 /\ arena \in Addr /\ IsFiniteSet(Addr)
  /\ \A a \in Addr, b \in Nat : b <= a => b \in Addr
<1>1. PICK top : top = PageBase(NPage)
  OBVIOUS
<1>2. top \in Nat /\ top > 1
  <2>1. NPage \in Nat /\ PageUnits \in Nat
    BY ZonesAssumption, SlobAssumption
  <2>2. NPage * PageUnits \in Nat
    BY <2>1
  <2> QED BY <1>1, <2>2 DEF PageBase
<1>3. Addr = 0 .. top - 1
  BY <1>1 DEF Addr
<1> QED BY <1>2, <1>3, FS_Interval DEF arena

-----------------------------------------------------------------------------
(* The ring leads through all free blocks.                                  *)

\* Finite sets of addresses have a greatest element.
LEMMA Greatest ==
  ASSUME NEW S, S \subseteq Addr, S # {}
  PROVE  \E m \in S : \A a \in S : a <= m
<1>1. PICK top : top = PageBase(NPage) /\ Addr = 0 .. top - 1 /\ top \in Nat
  <2>1. NPage \in Nat /\ PageUnits \in Nat
    BY ZonesAssumption, SlobAssumption
  <2>2. NPage * PageUnits \in Nat
    BY <2>1
  <2>3. PageBase(NPage) \in Nat
    BY <2>2 DEF PageBase
  <2> QED BY <2>3 DEF Addr
<1> DEFINE T == {top - a : a \in S}
<1>2. T \subseteq Nat /\ T # {}
  <2>1. \A a \in S : top - a \in Nat
    BY <1>1
  <2> QED BY <2>1
<1> HIDE DEF T
<1>3. PICK k \in T : \A j \in T : k <= j
  BY <1>2, Least
<1>4. PICK m \in S : k = top - m
  BY DEF T
<1>5. ASSUME NEW a \in S PROVE a <= m
  <2>1. top - a \in T /\ a \in Nat /\ m \in Nat
    BY <1>1 DEF T
  <2>2. top - m <= top - a
    BY <2>1, <1>3, <1>4
  <2> QED BY <1>1, <2>1, <2>2
<1> QED BY <1>5

\* A set of free blocks that the links do not leave has all of them.
LEMMA Closed ==
  ASSUME NEW D, NEW nx, NEW un, Ordered(D, nx, un),
         NEW W, W \subseteq D, W # {}, \A b \in W : nx[b] \in W
  PROVE  W = D
<1>1. D \subseteq Nat /\ arena = 0 /\ arena \in D /\ nx \in [D -> D]
  BY AddrIs DEF Ordered
<1>2. \A b \in D : \/ nx[b] > b /\ \A c \in D : c > b => c >= nx[b]
                   \/ nx[b] = arena /\ \A c \in D : c <= b
  BY DEF Ordered
<1>3. arena \in W
  <2>1. PICK m \in W : \A a \in W : a <= m
    BY Greatest DEF Ordered
  <2>2. nx[m] \in W /\ nx[m] <= m
    BY <2>1
  <2>3. nx[m] \in Nat /\ m \in Nat
    BY <1>1, <2>2
  <2> QED BY <1>2, <2>2, <2>3
<1>4. SUFFICES ASSUME D \ W # {} PROVE FALSE
  OBVIOUS
<1>5. PICK c \in D \ W : \A a \in D \ W : c <= a
  <2>1. PICK S : S = D \ W
    OBVIOUS
  <2>2. S \subseteq Nat /\ S # {}
    BY <1>1, <1>4, <2>1
  <2>3. \E m \in S : \A k \in S : m <= k
    BY <2>2, Least
  <2> QED BY <2>1, <2>3
<1>6. PICK b \in {a \in D : a < c} : \A a \in {a \in D : a < c} : a <= b
  <2>1. PICK S : S = {a \in D : a < c}
    OBVIOUS
  <2>2. arena < c
    BY <1>1, <1>3
  <2>3. S \subseteq Addr /\ S # {}
    BY <1>1, <2>1, <2>2 DEF Ordered
  <2>4. \E m \in S : \A k \in S : k <= m
    BY <2>3, Greatest
  <2> QED BY <2>1, <2>4
<1>7. b \in D /\ b < c /\ b \in Nat /\ c \in Nat /\ b \in W
  <2>1. b \in D /\ b < c /\ b \in Nat /\ c \in Nat
    BY <1>1, <1>6
  <2> QED BY <2>1, <1>5
<1>8. nx[b] \in W /\ nx[b] \in Nat
  BY <1>1, <1>7
<1>9. nx[b] > b /\ c >= nx[b]
  BY <1>2, <1>7
<1>10. nx[b] # c
  BY <1>8
<1>11. nx[b] < c
  BY <1>7, <1>8, <1>9, <1>10
<1>12. nx[b] <= b
  BY <1>6, <1>8, <1>11
<1> QED BY <1>7, <1>8, <1>9, <1>12

Looped(r, nx, first, N) == r = [i \in 0 .. N |-> IF i = 0 THEN first ELSE nx[r[i - 1]]]

\* The function that Ring defines by recursion exists.
LEMMA RingExists ==
  ASSUME NEW D, NEW nx \in [D -> D], NEW first \in D, NEW N \in Nat
  PROVE  \E r : Looped(r, nx, first, N)
<1> DEFINE step == [a \in D \X (0 .. N - 1) |-> nx[a[1]]]
<1>1. PICK st : st = step
  OBVIOUS
<1>2. st \in [D \X (0 .. N - 1) -> D]
  BY <1>1
<1>3. PICK f \in [0 .. N -> D] : Recurses(f, first, N, st)
  BY <1>2, Recursion
<1>4. \A i \in 1 .. N : f[i] = nx[f[i - 1]]
  <2> TAKE i \in 1 .. N
  <2>1. f[i - 1] \in D /\ i - 1 \in 0 .. N - 1
    BY <1>3
  <2>2. f[i] = st[<<f[i - 1], i - 1>>]
    BY <1>3 DEF Recurses
  <2> QED BY <1>1, <2>1, <2>2
<1>5. f[0] = first
  BY <1>3 DEF Recurses
<1>6. f = [i \in 0 .. N |-> IF i = 0 THEN first ELSE nx[f[i - 1]]]
  BY <1>3, <1>4, <1>5
<1> QED BY <1>6 DEF Looped

\* A heap whose searches start at a free block.
HeapOk(h) == /\ Ordered(DOMAIN h.next, h.next, h.units)
             /\ h.slobfree \in DOMAIN h.next

Visits(r, N, D, nx) == /\ r \in [0 .. N -> D]
                       /\ \A i \in 1 .. N : r[i] = nx[r[i - 1]]
                       /\ \A b \in D : \E i \in 1 .. N : r[i] = b

\* From slobfree on, the ring leads through every free block.
LEMMA RingVisits ==
  ASSUME NEW h, HeapOk(h)
  PROVE  \E N \in Nat : Visits(Ring(h), N, DOMAIN h.next, h.next)
<1>0. PICK D, N, r : D = DOMAIN h.next /\ N = Cardinality(D) /\ r = Ring(h)
  OBVIOUS
<1>1. PICK nx, first : nx = h.next /\ first = h.slobfree
  OBVIOUS
<1>2. nx \in [D -> D] /\ first \in D /\ IsFiniteSet(D) /\ D # {}
  BY <1>0, <1>1, AddrIs, FS_Subset DEF HeapOk, Ordered
<1>3. N \in Nat /\ N > 0
  BY <1>0, <1>2, FS_CardinalityType, FS_EmptySet
<1>4. Looped(r, nx, first, N)
  <2> DEFINE Loop(w) == [i \in 0 .. N |-> IF i = 0 THEN first ELSE nx[w[i - 1]]]
  <2>1. PICK q : q = Loop(q)
    BY <1>2, <1>3, RingExists DEF Looped
  <2>2. r = CHOOSE w : w = Loop(w)
    BY <1>0, <1>1 DEF Ring
  <2>3. r = Loop(r)
    BY <2>1, <2>2
  <2> QED BY <2>3 DEF Looped
<1>5. r[0] = first /\ \A i \in 1 .. N : r[i] = nx[r[i - 1]]
  BY <1>3, <1>4 DEF Looped
<1>6. r \in [0 .. N -> D]
  <2> DEFINE T == {i \in Nat : i <= N => r[i] \in D}
  <2>1. 0 \in T
    BY <1>2, <1>5
  <2>2. ASSUME NEW i \in Nat, i \in T PROVE i + 1 \in T
    <3>1. SUFFICES ASSUME i + 1 <= N PROVE r[i + 1] \in D
      OBVIOUS
    <3>2. r[i] \in D /\ i + 1 \in 1 .. N /\ (i + 1) - 1 = i
      BY <1>3, <2>2, <3>1
    <3> QED BY <1>2, <1>5, <3>2
  <2> HIDE DEF T
  <2>3. Nat \subseteq T
    BY <2>1, <2>2, Induct
  <2>4. \A i \in 0 .. N : r[i] \in D
    BY <1>3, <2>3 DEF T
  <2>5. r = [i \in 0 .. N |-> r[i]]
    BY <1>4 DEF Looped
  <2> QED BY <2>4, <2>5
<1>7. PICK V : V = {r[i] : i \in 1 .. N}
  OBVIOUS
<1>8. ASSUME V # D PROVE FALSE
  <2>1. V \subseteq D
    BY <1>3, <1>6, <1>7
  <2>2. IsFiniteSet(V) /\ Cardinality(V) < N
    <3>1. IsFiniteSet(V) /\ Cardinality(V) <= N /\ Cardinality(V) # N
      BY <1>0, <1>2, <1>8, <2>1, FS_Subset
    <3>2. Cardinality(V) \in Nat
      BY <3>1, FS_CardinalityType
    <3> QED BY <1>3, <3>1, <3>2
  <2>3. PICK f : f = [i \in 1 .. N |-> r[i]]
    OBVIOUS
  <2>4. f \in [1 .. N -> V]
    BY <1>7, <2>3
  <2>5. IsFiniteSet(1 .. N) /\ Cardinality(1 .. N) = N
    BY <1>3, FS_Interval
  <2>6. PICK i, j \in 1 .. N : i # j /\ f[i] = f[j]
    <3>1. PICK I : I = 1 .. N
      OBVIOUS
    <3>2. IsFiniteSet(I) /\ Cardinality(V) < Cardinality(I) /\ f \in [I -> V]
      BY <2>2, <2>4, <2>5, <3>1
    <3>3. \E x, y \in I : x # y /\ f[x] = f[y]
      BY <2>2, <3>2, FS_PigeonHole
    <3> QED BY <3>1, <3>3
  <2>7. PICK a, z \in 1 .. N : a < z /\ r[a] = r[z]
    <3>1. r[i] = r[j] /\ i \in Nat /\ j \in Nat /\ (i < j \/ j < i)
      BY <1>3, <2>3, <2>6
    <3> QED BY <3>1
  <2>8. PICK W : W = {r[k] : k \in a .. z - 1}
    OBVIOUS
  <2>9. W \subseteq V /\ W # {}
    <3>1. a \in a .. z - 1 /\ a .. z - 1 \subseteq 1 .. N
      BY <1>3, <2>7
    <3> QED BY <1>7, <2>8, <3>1
  <2>10. ASSUME NEW b \in W PROVE nx[b] \in W
    <3>1. PICK k \in a .. z - 1 : b = r[k]
      BY <2>8
    <3>2. k + 1 \in 1 .. N /\ (k + 1) - 1 = k /\ k \in Nat
      BY <1>3, <2>7, <3>1
    <3>3. nx[b] = r[k + 1]
      BY <1>5, <3>1, <3>2
    <3>4. CASE k + 1 = z
      BY <2>7, <2>8, <2>9, <3>3, <3>4
    <3>5. CASE k + 1 # z
      <4>1. k + 1 \in a .. z - 1
        BY <2>7, <3>1, <3>2, <3>5
      <4> QED BY <2>8, <3>3, <4>1
    <3> QED BY <3>4, <3>5
  <2>11. W = D
    <3>1. PICK un : un = h.units /\ Ordered(D, nx, un)
      BY <1>0, <1>1 DEF HeapOk
    <3>2. W \subseteq D /\ W # {} /\ \A b \in W : nx[b] \in W
      BY <2>1, <2>9, <2>10
    <3> QED BY <3>1, <3>2, Closed
  <2> QED BY <1>8, <2>1, <2>9, <2>11
<1>9. \A b \in D : \E i \in 1 .. N : r[i] = b
  BY <1>7, <1>8
<1>10. Visits(r, N, D, nx)
  BY <1>5, <1>6, <1>9 DEF Visits
<1> QED BY <1>0, <1>1, <1>3, <1>10

-----------------------------------------------------------------------------
(* What the two searches find.                                              *)

\* slob_alloc finds a block with n units or more when there is one.
LEMMA FitIs ==
  ASSUME NEW h, HeapOk(h), NEW n
  PROVE  /\ Fitting(h, n) # {} =>
                Fit(h, n) \in DOMAIN h.next /\ h.units[Fit(h, n)] >= n
         /\ \A b \in DOMAIN h.next : h.units[b] >= n => Fitting(h, n) # {}
<1>1. PICK D, r : D = DOMAIN h.next /\ r = Ring(h)
  OBVIOUS
<1>2. PICK N \in Nat : /\ r \in [0 .. N -> D]
                       /\ \A b \in D : \E i \in 1 .. N : r[i] = b
  <2>1. \E N \in Nat : Visits(r, N, D, h.next)
    BY <1>1, RingVisits
  <2> QED BY <2>1 DEF Visits
<1>3. Fitting(h, n) = {i \in 1 .. N : h.units[r[i]] >= n}
  <2>1. DOMAIN r \ {0} = 1 .. N
    BY <1>2
  <2> QED BY <1>1, <2>1 DEF Fitting
<1>4. ASSUME Fitting(h, n) # {}
      PROVE  Fit(h, n) \in D /\ h.units[Fit(h, n)] >= n
  <2>1. Fitting(h, n) \subseteq Nat
    BY <1>2, <1>3
  <2>2. Min(Fitting(h, n)) \in Fitting(h, n)
    BY <1>4, <2>1, MinIs
  <2>3. PICK i \in 1 .. N : i = Min(Fitting(h, n)) /\ h.units[r[i]] >= n
    BY <1>3, <2>2
  <2> QED BY <1>1, <1>2, <2>3 DEF Fit
<1>5. ASSUME NEW b \in D, h.units[b] >= n PROVE Fitting(h, n) # {}
  <2>1. PICK i \in 1 .. N : r[i] = b
    BY <1>2
  <2> QED BY <1>3, <1>5, <2>1
<1> QED BY <1>1, <1>4, <1>5

\* slob_free finds the free block below b and above all others below b.
LEMMA PointIs ==
  ASSUME NEW h, HeapOk(h), NEW b \in Nat, b > arena, b \notin DOMAIN h.next,
         NEW c, c = Point(h, b)
  PROVE  /\ c \in DOMAIN h.next /\ c < b
         /\ h.next[c] > b \/ h.next[c] = arena
<1>1. PICK D, r, nx : D = DOMAIN h.next /\ r = Ring(h) /\ nx = h.next
  OBVIOUS
<1>2. PICK N \in Nat : /\ r \in [0 .. N -> D]
                       /\ \A x \in D : \E i \in 1 .. N : r[i] = x
  <2>1. \E N \in Nat : Visits(r, N, D, nx)
    BY <1>1, RingVisits
  <2> QED BY <2>1 DEF Visits
<1>3. /\ D \subseteq Nat /\ D \subseteq Addr /\ arena = 0 /\ arena \in D /\ nx \in [D -> D]
      /\ \A x \in D : \/ nx[x] > x /\ \A y \in D : y > x => y >= nx[x]
                      \/ nx[x] = arena /\ \A y \in D : y <= x
  BY <1>1, AddrIs DEF HeapOk, Ordered
<1> DEFINE ok(x) == \/ b > x /\ b < nx[x]
                    \/ x >= nx[x] /\ (b > x \/ b < nx[x])
           I == {i \in 0 .. N : ok(r[i])}
<1>4. c = r[Min(I)]
  <2>1. DOMAIN r = 0 .. N
    BY <1>2
  <2> QED BY <1>1, <2>1 DEF Point
<1>5. I # {}
  <2>1. PICK S : S = {x \in D : x < b}
    OBVIOUS
  <2>2. S \subseteq Addr /\ arena \in S
    BY <1>3, <2>1
  <2>3. PICK m \in S : \A x \in S : x <= m
    BY <2>2, Greatest
  <2>4. m \in D /\ m < b /\ m \in Nat /\ nx[m] \in D /\ nx[m] \in Nat
    BY <1>3, <2>1
  <2>5. nx[m] # b
    BY <1>1, <2>4
  <2>6. CASE nx[m] > m /\ \A y \in D : y > m => y >= nx[m]
    <3>1. nx[m] \notin S
      BY <2>3, <2>4, <2>6
    <3>2. b < nx[m]
      BY <2>1, <2>4, <2>5, <3>1
    <3>3. PICK i \in 1 .. N : r[i] = m
      BY <1>2, <2>4
    <3>4. i \in I
      BY <1>2, <2>4, <3>2, <3>3
    <3> QED BY <3>4
  <2>7. CASE nx[m] = arena /\ \A y \in D : y <= m
    <3>1. m >= nx[m]
      BY <1>3, <2>4, <2>7
    <3>2. PICK i \in 1 .. N : r[i] = m
      BY <1>2, <2>4
    <3>3. i \in I
      BY <1>2, <2>4, <3>1, <3>2
    <3> QED BY <3>3
  <2> QED BY <1>3, <2>4, <2>6, <2>7
<1>6. Min(I) \in I
  <2>1. I \subseteq Nat
    BY <1>2
  <2> QED BY <1>5, <2>1, MinIs
<1>7. c \in D /\ ok(c)
  <2>1. PICK i : i = Min(I)
    OBVIOUS
  <2>2. i \in 0 .. N /\ ok(r[i])
    BY <1>6, <2>1
  <2>3. c = r[i]
    BY <1>4, <2>1
  <2> QED BY <1>2, <2>2, <2>3
<1>8. c \in Nat /\ nx[c] \in Nat /\ nx[c] \in D
  BY <1>3, <1>7
<1>9. c < b /\ (nx[c] > b \/ nx[c] = arena)
  BY <1>3, <1>7, <1>8
<1> QED BY <1>1, <1>7, <1>9

\* Every free block has one that leads to it.
LEMMA BeforeIs ==
  ASSUME NEW h, HeapOk(h), NEW b \in DOMAIN h.next
  PROVE  Before(h, b) \in DOMAIN h.next /\ h.next[Before(h, b)] = b
<1>1. PICK D, r : D = DOMAIN h.next /\ r = Ring(h)
  OBVIOUS
<1>2. PICK N \in Nat : /\ r \in [0 .. N -> D]
                       /\ \A k \in 1 .. N : r[k] = h.next[r[k - 1]]
                       /\ \A x \in D : \E k \in 1 .. N : r[k] = x
  <2>1. \E N \in Nat : Visits(r, N, D, h.next)
    BY <1>1, RingVisits
  <2> QED BY <2>1 DEF Visits
<1>3. PICK k \in 1 .. N : r[k] = b
  BY <1>1, <1>2
<1>4. r[k - 1] \in D /\ h.next[r[k - 1]] = b
  <2>1. k - 1 \in 0 .. N
    BY <1>2
  <2> QED BY <1>2, <1>3, <2>1
<1> QED BY <1>1, <1>4 DEF Before

-----------------------------------------------------------------------------
(* slob_free: the gap that a block goes to, and what fills it.               *)

\* The n units at b fit between the free blocks cur and nxt of D and touch
\* none above them.
Gap(D, nx, un, cur, b, n, nxt) ==
    /\ D \subseteq Addr /\ arena \in D
    /\ un \in [Addr -> Nat] /\ un[arena] = 1
    /\ b \in Nat /\ b > 1 /\ n \in Nat /\ n > 0 /\ b + n - 1 \in Addr
    /\ cur \in D /\ cur + un[cur] <= b
    /\ \A c \in D : un[c] > 0 /\ c + un[c] - 1 \in Addr
    /\ \A c, d \in D : c < d => c + un[c] < d
    /\ \A c \in D : c > cur => c > b + n
    /\ \A c \in D \ {cur} : /\ nx[c] \in D
                            /\ \/ nx[c] > c /\ \A d \in D : d > c => d >= nx[c]
                               \/ nx[c] = arena /\ \A d \in D : d <= c
    /\ nxt \in D
    /\ \/ nxt > b /\ \A c \in D : c > cur => c >= nxt
       \/ nxt = arena /\ \A c \in D : c <= cur

FreeOf(h) == Free(DOMAIN h.next, h.units)

\* The n units at b, none of them free, nor the one of arena.
Loose(h, b, n) == /\ b \in Nat /\ b > 1 /\ n \in Nat /\ n > 0 /\ b + n - 1 \in Addr
                  /\ \A a \in FreeOf(h) : ~ (b <= a /\ a < b + n)

\* The merge of the n units at b with the block nxt of D, when they touch.
MergesUp(D, nx, un, b, n, nxt, n1, nx1, E) ==
    \/ b + n = nxt /\ n1 = n + un[nxt] /\ nx1 = nx[nxt] /\ E = D \ {nxt}
    \/ b + n # nxt /\ n1 = n /\ nx1 = nxt /\ E = D

\* The merge with the block above leaves a gap, with the same free units.
Opens(h, b, n, n1, nx1, E) ==
    /\ Gap(E, h.next, h.units, Point(h, b), b, n1, nx1)
    /\ FreeOf(h) \cup Units(b, n) = Free(E, h.units) \cup Units(b, n1)

\* Of units that may be freed, a merge opens such a gap.
LEMMA GapIs ==
  ASSUME NEW h, HeapOk(h), NEW b, NEW n, Loose(h, b, n), NEW n1, NEW nx1, NEW E,
         MergesUp(DOMAIN h.next, h.next, h.units, b, n, h.next[Point(h, b)], n1, nx1, E)
  PROVE  Opens(h, b, n, n1, nx1, E)
<1>. b \in Nat /\ b > 1 /\ n \in Nat /\ n > 0 /\ b + n - 1 \in Addr
  BY DEF Loose
<1>0. PICK D, cur, nxt : D = DOMAIN h.next /\ cur = Point(h, b) /\ nxt = h.next[cur]
  OBVIOUS
<1>1. PICK un, nx : un = h.units /\ nx = h.next
  OBVIOUS
<1>2. /\ D \subseteq Nat /\ D \subseteq Addr /\ arena = 0 /\ arena \in D
      /\ nx \in [D -> D] /\ un \in [Addr -> Nat] /\ un[arena] = 1
      /\ Addr \subseteq Nat /\ \A a \in Addr, x \in Nat : x <= a => x \in Addr
  BY <1>0, <1>1, AddrIs DEF HeapOk, Ordered
<1>3. /\ \A c \in D : un[c] \in Nat /\ un[c] > 0 /\ c + un[c] - 1 \in Addr
      /\ \A c, d \in D : c < d => c + un[c] < d
      /\ \A c \in D : \/ nx[c] > c /\ \A d \in D : d > c => d >= nx[c]
                      \/ nx[c] = arena /\ \A d \in D : d <= c
  BY <1>0, <1>1, <1>2 DEF HeapOk, Ordered
<1>4. \A c \in D, a \in Nat : c <= a /\ a < c + un[c] => a \in Free(D, un)
  <2> SUFFICES ASSUME NEW c \in D, NEW a \in Nat, c <= a, a < c + un[c]
               PROVE  a \in Free(D, un)
    OBVIOUS
  <2>1. c + un[c] - 1 \in Addr /\ c \in Nat /\ un[c] \in Nat
    BY <1>2, <1>3
  <2>2. a <= c + un[c] - 1
    BY <2>1
  <2> QED BY <1>2, <2>1, <2>2 DEF Free
<1>5. \A a \in Free(D, un) : ~ (b <= a /\ a < b + n)
  BY <1>0, <1>1 DEF Loose, FreeOf
<1>6. \A c \in D : ~ (b <= c /\ c < b + n)
  <2> TAKE c \in D
  <2>1. c \in Nat /\ un[c] \in Nat /\ un[c] > 0
    BY <1>2, <1>3
  <2>2. c < c + un[c]
    BY <2>1
  <2>3. c \in Free(D, un)
    BY <1>4, <2>1, <2>2
  <2> QED BY <1>5, <2>3
<1>7. b \in Addr /\ b \notin D /\ b > arena
  BY <1>2, <1>6
<1>8. cur \in D /\ cur < b /\ nxt \in D /\ (nxt > b \/ nxt = arena)
  <2>1. cur \in D /\ cur < b /\ (nxt > b \/ nxt = arena)
    BY <1>0, <1>1, <1>7, PointIs
  <2> QED BY <1>0, <1>1, <1>2, <2>1
<1>9. nxt = nx[cur] /\ cur \in Nat /\ nxt \in Nat /\ un[cur] \in Nat /\ un[nxt] \in Nat
  BY <1>0, <1>1, <1>2, <1>3, <1>8
<1>10. cur + un[cur] <= b
  <2>1. ~ (cur <= b /\ b < cur + un[cur])
    BY <1>4, <1>5, <1>8
  <2> QED BY <1>8, <1>9, <2>1
<1>11. \/ nxt > b /\ \A c \in D : c > cur => c >= nxt
       \/ nxt = arena /\ \A c \in D : c <= cur
  <2>1. \/ nxt > cur /\ \A c \in D : c > cur => c >= nxt
        \/ nxt = arena /\ \A c \in D : c <= cur
    BY <1>3, <1>8, <1>9
  <2> QED BY <1>2, <1>8, <1>9, <2>1
<1>12. \A c \in D : c > cur => c >= b + n
  BY <1>2, <1>6, <1>8, <1>9, <1>11
<1>13. CASE b + n # nxt
  <2>1. n1 = n /\ nx1 = nxt /\ E = D /\ b + n # nxt
    BY <1>0, <1>13 DEF MergesUp
  <2>2. \A c \in D : c > cur => c > b + n
    BY <1>2, <1>8, <1>9, <1>11, <1>12, <2>1
  <2>3. Gap(D, nx, un, cur, b, n, nxt)
    BY <1>2, <1>3, <1>8, <1>10, <1>11, <2>2 DEF Gap
  <2> QED BY <1>0, <1>1, <2>1, <2>3 DEF FreeOf, Opens
<1>14. CASE b + n = nxt
  <2>1. n1 = n + un[nxt] /\ nx1 = nx[nxt] /\ b + n = nxt
    BY <1>0, <1>1, <1>14 DEF MergesUp
  <2>2. E = D \ {nxt}
    BY <1>0, <1>14 DEF MergesUp
  <2>3. nxt > cur /\ nxt > b /\ \A c \in D : c > cur => c >= nxt
    BY <1>2, <1>8, <1>9, <1>11, <2>1
  <2>4. n1 \in Nat /\ n1 > 0 /\ b + n1 - 1 = nxt + un[nxt] - 1
    BY <1>9, <2>1
  <2>5. b + n1 - 1 \in Addr
    BY <1>3, <1>8, <2>4
  <2>6. \A c \in E : c > cur => c > b + n1
    <3> TAKE c \in E
    <3> HAVE c > cur
    <3>1. c \in D /\ c \in Nat /\ c > nxt
      BY <1>2, <1>9, <2>2, <2>3
    <3>2. nxt + un[nxt] < c
      BY <1>3, <1>8, <3>1
    <3> QED BY <1>9, <2>1, <3>1, <3>2
  <2>7. nx1 \in D /\ nx1 \in Nat
    BY <1>2, <1>8, <2>1
  <2>8. nx1 \in E /\ \/ nx1 > b /\ \A c \in E : c > cur => c >= nx1
                     \/ nx1 = arena /\ \A c \in E : c <= cur
    <3>1. CASE nx1 > nxt /\ \A d \in D : d > nxt => d >= nx1
      <4>1. nx1 \in E /\ nx1 > b
        BY <1>9, <2>2, <2>3, <2>7, <3>1
      <4>2. \A c \in E : c > cur => c >= nx1
        BY <1>2, <1>9, <2>2, <2>3, <3>1
      <4> QED BY <4>1, <4>2
    <3>2. CASE nx1 = arena /\ \A d \in D : d <= nxt
      <4>1. nx1 \in E
        BY <1>2, <1>9, <2>2, <2>3, <2>7, <3>2
      <4>2. \A c \in E : c <= cur
        BY <1>2, <1>8, <1>9, <2>2, <2>3, <3>2
      <4> QED BY <3>2, <4>1, <4>2
    <3> QED BY <1>3, <1>8, <2>1, <3>1, <3>2
  <2>9. \A c \in E \ {cur} : nx[c] \in E
    <3> TAKE c \in E \ {cur}
    <3>1. c \in D /\ c \in Nat /\ c # cur /\ c # nxt /\ nx[c] \in D
      BY <1>2, <2>2
    <3>2. nx[c] # nxt
      <4>1. SUFFICES ASSUME nx[c] = nxt PROVE FALSE
        OBVIOUS
      <4>2. nx[c] > c /\ \A d \in D : d > c => d >= nx[c]
        <5>1. nxt # arena
          BY <1>2, <1>9, <2>3
        <5> QED BY <1>3, <3>1, <4>1, <5>1
      <4>3. c < cur
        BY <1>9, <2>3, <3>1, <4>1, <4>2
      <4>4. cur >= nxt
        BY <1>8, <4>1, <4>2, <4>3
      <4> QED BY <1>9, <2>3, <4>4
    <3> QED BY <2>2, <3>1, <3>2
  <2>10. arena \in E /\ cur \in E /\ E \subseteq D
    BY <1>2, <1>8, <1>9, <2>2, <2>3
  <2>11. \A c \in E \ {cur} : /\ nx[c] \in E
                              /\ \/ nx[c] > c /\ \A d \in E : d > c => d >= nx[c]
                                 \/ nx[c] = arena /\ \A d \in E : d <= c
    BY <1>3, <2>9, <2>10
  <2>12. Gap(E, nx, un, cur, b, n1, nx1)
    BY <1>2, <1>3, <1>10, <2>4, <2>5, <2>6, <2>8, <2>10, <2>11 DEF Gap
  <2>13. Free(D, un) \cup Units(b, n) = Free(E, un) \cup Units(b, n1)
    <3>1. \A x : x \in Units(b, n) <=> x \in Nat /\ b <= x /\ x < b + n
      BY DEF Units
    <3>2. \A x : x \in Units(b, n1) <=> x \in Nat /\ b <= x /\ x < b + n1
      BY <2>4 DEF Units
    <3>3. ASSUME NEW x \in Free(D, un) PROVE x \in Free(E, un) \cup Units(b, n1)
      <4>1. PICK c \in D : x \in Addr /\ c <= x /\ x < c + un[c]
        BY DEF Free
      <4>2. CASE c = nxt
        <5>1. x \in Nat /\ nxt <= x /\ x < nxt + un[nxt]
          BY <1>2, <4>1, <4>2
        <5>2. b <= x /\ x < b + n1
          BY <1>9, <2>1, <2>3, <5>1
        <5> QED BY <3>2, <5>1, <5>2
      <4>3. CASE c # nxt
        BY <2>2, <4>1, <4>3 DEF Free
      <4> QED BY <4>2, <4>3
    <3>4. ASSUME NEW x \in Free(E, un) PROVE x \in Free(D, un)
      BY <2>10 DEF Free
    <3>5. ASSUME NEW x \in Units(b, n) PROVE x \in Units(b, n1)
      BY <1>9, <2>1, <3>1, <3>2
    <3>6. ASSUME NEW x \in Units(b, n1) PROVE x \in Units(b, n) \cup Free(D, un)
      <4>1. x \in Nat /\ b <= x /\ x < b + n1
        BY <3>2
      <4>2. CASE x < b + n
        BY <3>1, <4>1, <4>2
      <4>3. CASE x >= b + n
        <5>1. nxt <= x /\ x < nxt + un[nxt]
          BY <1>9, <2>1, <4>1, <4>3
        <5> QED BY <1>4, <1>8, <4>1, <5>1
      <4> QED BY <4>1, <4>2, <4>3
    <3> QED BY <3>3, <3>4, <3>5, <3>6
  <2> QED BY <1>0, <1>1, <2>1, <2>2, <2>12, <2>13 DEF FreeOf, Opens
<1> QED BY <1>13, <1>14

\* The units join the block below.
Enlarged(D, nx, un, cur, n, nxt, nx2, un2) ==
    /\ nx2 = [c \in D |-> IF c = cur THEN nxt ELSE nx[c]]
    /\ un2 \in [Addr -> Nat]
    /\ un2[cur] = un[cur] + n
    /\ \A c \in D \ {cur} : un2[c] = un[c]

\* The block below, with the units.
LEMMA GapJoined ==
  ASSUME NEW D, NEW nx, NEW un, NEW cur, NEW b, NEW n, NEW nxt,
         Gap(D, nx, un, cur, b, n, nxt), cur + un[cur] = b,
         NEW nx2, NEW un2, Enlarged(D, nx, un, cur, n, nxt, nx2, un2)
  PROVE  /\ Ordered(D, nx2, un2)
         /\ Free(D, un2) = Free(D, un) \cup Units(b, n)
         /\ \E c \in D : un2[c] >= n
<1>0. /\ nx2 = [c \in D |-> IF c = cur THEN nxt ELSE nx[c]]
      /\ un2 \in [Addr -> Nat] /\ un2[cur] = un[cur] + n /\ \A c \in D \ {cur} : un2[c] = un[c]
  BY DEF Enlarged
<1>1. /\ D \subseteq Nat /\ D \subseteq Addr /\ arena = 0 /\ arena \in D /\ cur \in D
      /\ Addr \subseteq Nat /\ \A a \in Addr, x \in Nat : x <= a => x \in Addr
      /\ un[arena] = 1 /\ b \in Nat /\ b > 1 /\ n \in Nat /\ n > 0 /\ b + n - 1 \in Addr
      /\ nxt \in D
  BY AddrIs DEF Gap
<1>2. /\ \A c \in D : un[c] \in Nat /\ un[c] > 0 /\ c + un[c] - 1 \in Addr
      /\ \A c, d \in D : c < d => c + un[c] < d
      /\ \A c \in D : c > cur => c > b + n
      /\ \A c \in D \ {cur} : /\ nx[c] \in D
                              /\ \/ nx[c] > c /\ \A d \in D : d > c => d >= nx[c]
                                 \/ nx[c] = arena /\ \A d \in D : d <= c
      /\ \/ nxt > b /\ \A c \in D : c > cur => c >= nxt
         \/ nxt = arena /\ \A c \in D : c <= cur
  BY <1>1 DEF Gap
<1>3. un2[arena] = 1
  BY <1>0, <1>1
<1>4. nx2 \in [D -> D]
  BY <1>0, <1>1, <1>2
<1>5. ASSUME NEW c \in D PROVE un2[c] > 0 /\ c + un2[c] - 1 \in Addr
  <2>1. CASE c = cur
    <3>1. cur \in Nat /\ un[cur] \in Nat
      BY <1>0, <1>1, <1>2
    <3>2. cur + un2[cur] - 1 = b + n - 1 /\ un2[cur] > 0
      BY <1>0, <1>1, <3>1
    <3> QED BY <1>0, <1>1, <2>1, <3>2
  <2>2. CASE c # cur
    BY <1>0, <1>2, <2>2
  <2> QED BY <1>0, <2>1, <2>2
<1>6. ASSUME NEW c \in D, NEW d \in D, c < d PROVE c + un2[c] < d
  <2>1. CASE c = cur
    <3>1. cur \in Nat /\ un[cur] \in Nat /\ d \in Nat /\ d > b + n
      BY <1>0, <1>1, <1>2, <1>6, <2>1
    <3>2. cur + un2[cur] = b + n
      BY <1>0, <1>1, <3>1
    <3> QED BY <1>0, <2>1, <3>1, <3>2
  <2>2. CASE c # cur
    BY <1>0, <1>2, <1>6, <2>2
  <2> QED BY <1>0, <2>1, <2>2
<1>7. ASSUME NEW c \in D
      PROVE  \/ nx2[c] > c /\ \A d \in D : d > c => d >= nx2[c]
             \/ nx2[c] = arena /\ \A d \in D : d <= c
  <2>1. CASE c = cur
    <3>1. nx2[c] = nxt /\ cur \in Nat /\ un[cur] \in Nat /\ nxt \in Nat
      BY <1>0, <1>1, <1>2, <2>1
    <3>2. cur <= b
      BY <1>0, <1>1, <3>1
    <3>3. nxt > b => nxt > cur
      BY <1>0, <1>1, <3>1, <3>2
    <3> QED BY <1>0, <1>2, <2>1, <3>1, <3>3
  <2>2. CASE c # cur
    <3>1. nx2[c] = nx[c]
      BY <1>0, <2>2
    <3> QED BY <1>0, <1>2, <2>2, <3>1
  <2> QED BY <1>0, <2>1, <2>2
<1>8. Ordered(D, nx2, un2)
  BY <1>0, <1>1, <1>3, <1>4, <1>5, <1>6, <1>7 DEF Ordered
<1>9. \A x : x \in Units(b, n) <=> x \in Nat /\ b <= x /\ x < b + n
  BY <1>0, <1>1 DEF Units
<1>10. cur \in Nat /\ un[cur] \in Nat /\ cur + un2[cur] = b + n
  <2>1. cur \in Nat /\ un[cur] \in Nat /\ un2[cur] = un[cur] + n
    BY <1>0, <1>1, <1>2
  <2> QED BY <1>0, <1>1, <2>1
<1>11. ASSUME NEW x \in Free(D, un2) PROVE x \in Free(D, un) \cup Units(b, n)
  <2>1. PICK c \in D : x \in Addr /\ c <= x /\ x < c + un2[c]
    BY DEF Free
  <2>2. CASE c = cur
    <3>1. x < b + n /\ x \in Nat
      BY <1>0, <1>1, <1>10, <2>1, <2>2
    <3>2. CASE x < b
      BY <1>0, <1>10, <2>1, <2>2, <3>2 DEF Free
    <3>3. CASE ~ (x < b)
      BY <1>0, <1>1, <1>9, <3>1, <3>3
    <3> QED BY <1>0, <3>2, <3>3
  <2>3. CASE c # cur
    BY <1>0, <2>1, <2>3 DEF Free
  <2> QED BY <1>0, <2>2, <2>3
<1>12. ASSUME NEW x \in Free(D, un) PROVE x \in Free(D, un2)
  <2>1. PICK c \in D : x \in Addr /\ c <= x /\ x < c + un[c]
    BY DEF Free
  <2>2. x < c + un2[c]
    <3>1. c \in Nat /\ un[c] \in Nat /\ x \in Nat
      BY <1>0, <1>1, <1>2, <2>1
    <3>2. un2[c] \in Nat /\ un2[c] >= un[c]
      BY <1>0, <1>1, <3>1
    <3> QED BY <1>0, <2>1, <3>1, <3>2
  <2> QED BY <1>0, <2>1, <2>2 DEF Free
<1>13. ASSUME NEW x \in Units(b, n) PROVE x \in Free(D, un2)
  <2>1. x \in Nat /\ b <= x /\ x < b + n
    BY <1>0, <1>9
  <2>2. x <= b + n - 1
    BY <1>0, <1>1, <2>1
  <2>3. x \in Addr
    BY <1>0, <1>1, <2>1, <2>2
  <2>4. cur <= x /\ x < cur + un2[cur]
    BY <1>0, <1>1, <1>10, <2>1
  <2> QED BY <1>0, <1>1, <2>3, <2>4 DEF Free
<1>14. un2[cur] >= n
  BY <1>0, <1>1, <1>10
<1> QED BY <1>0, <1>1, <1>8, <1>11, <1>12, <1>13, <1>14

\* The units are a block of their own.
LinkedIn(D, nx, un, cur, b, n, nxt, D2, nx2, un2) ==
    /\ D2 = D \cup {b}
    /\ nx2 = [c \in D2 |-> IF c = b THEN nxt ELSE IF c = cur THEN b ELSE nx[c]]
    /\ un2 \in [Addr -> Nat]
    /\ un2[b] = n
    /\ \A c \in D : un2[c] = un[c]

\* The block of the units, linked between its neighbours.
LEMMA GapLinked ==
  ASSUME NEW D, NEW nx, NEW un, NEW cur, NEW b, NEW n, NEW nxt,
         Gap(D, nx, un, cur, b, n, nxt), cur + un[cur] # b,
         NEW D2, NEW nx2, NEW un2, LinkedIn(D, nx, un, cur, b, n, nxt, D2, nx2, un2)
  PROVE  /\ Ordered(D2, nx2, un2)
         /\ Free(D2, un2) = Free(D, un) \cup Units(b, n)
         /\ \E c \in D2 : un2[c] >= n
<1>0. /\ D2 = D \cup {b}
      /\ nx2 = [c \in D2 |-> IF c = b THEN nxt ELSE IF c = cur THEN b ELSE nx[c]]
      /\ un2 \in [Addr -> Nat] /\ un2[b] = n /\ \A c \in D : un2[c] = un[c]
  BY DEF LinkedIn
<1>1. /\ D \subseteq Nat /\ D \subseteq Addr /\ arena = 0 /\ arena \in D /\ cur \in D
      /\ Addr \subseteq Nat /\ \A a \in Addr, x \in Nat : x <= a => x \in Addr
      /\ un[arena] = 1 /\ b \in Nat /\ b > 1 /\ n \in Nat /\ n > 0 /\ b + n - 1 \in Addr
      /\ nxt \in D /\ cur + un[cur] <= b
  BY AddrIs DEF Gap
<1>2. /\ \A c \in D : un[c] \in Nat /\ un[c] > 0 /\ c + un[c] - 1 \in Addr
      /\ \A c, d \in D : c < d => c + un[c] < d
      /\ \A c \in D : c > cur => c > b + n
      /\ \A c \in D \ {cur} : /\ nx[c] \in D
                              /\ \/ nx[c] > c /\ \A d \in D : d > c => d >= nx[c]
                                 \/ nx[c] = arena /\ \A d \in D : d <= c
      /\ \/ nxt > b /\ \A c \in D : c > cur => c >= nxt
         \/ nxt = arena /\ \A c \in D : c <= cur
  BY <1>1 DEF Gap
<1>3. cur \in Nat /\ un[cur] \in Nat /\ cur + un[cur] < b /\ cur < b /\ nxt \in Nat
  <2>1. cur \in Nat /\ un[cur] \in Nat /\ nxt \in Nat
    BY <1>0, <1>1, <1>2
  <2> QED BY <1>0, <1>1, <2>1
<1>4. b \in Addr /\ b \notin D
  <2>1. b <= b + n - 1
    BY <1>0, <1>1
  <2>2. b \in D => b > b + n
    BY <1>0, <1>2, <1>3
  <2> QED BY <1>0, <1>1, <2>1, <2>2
<1>5. un2[arena] = 1 /\ D2 \subseteq Addr /\ arena \in D2 /\ D2 \subseteq Nat
  BY <1>0, <1>1, <1>4
<1>6. nx2 \in [D2 -> D2]
  <2>1. \A c \in D2 : (IF c = b THEN nxt ELSE IF c = cur THEN b ELSE nx[c]) \in D2
    BY <1>0, <1>1, <1>2
  <2> QED BY <1>0, <2>1
<1>7. \A c \in D2 : un2[c] > 0 /\ c + un2[c] - 1 \in Addr
  BY <1>0, <1>1, <1>2
<1>8. ASSUME NEW c \in D2, NEW d \in D2, c < d PROVE c + un2[c] < d
  <2>1. CASE c = b
    <3>1. d \in D /\ d > cur
      BY <1>0, <1>1, <1>3, <1>8, <2>1
    <3> QED BY <1>0, <1>2, <2>1, <3>1
  <2>2. CASE c # b /\ d = b
    <3>1. c \in D /\ c \in Nat /\ c < b /\ un2[c] = un[c] /\ un[c] \in Nat
      BY <1>0, <1>1, <1>2, <1>8, <2>2
    <3>2. ~ (c > cur)
      BY <1>0, <1>1, <1>2, <3>1
    <3>3. CASE c = cur
      BY <1>0, <1>3, <2>2, <3>1, <3>3
    <3>4. CASE c < cur
      <4>1. c + un[c] < cur
        BY <1>0, <1>1, <1>2, <3>1, <3>4
      <4> QED BY <1>0, <1>1, <1>3, <2>2, <3>1, <4>1
    <3> QED BY <1>0, <1>3, <3>1, <3>2, <3>3, <3>4
  <2>3. CASE c # b /\ d # b
    BY <1>0, <1>2, <1>8, <2>3
  <2> QED BY <1>0, <2>1, <2>2, <2>3
<1>9. ASSUME NEW c \in D2
      PROVE  \/ nx2[c] > c /\ \A d \in D2 : d > c => d >= nx2[c]
             \/ nx2[c] = arena /\ \A d \in D2 : d <= c
  <2>1. CASE c = b
    <3>1. nx2[c] = nxt
      BY <1>0, <2>1
    <3>2. \A d \in D2 : d > b => d \in D /\ d > cur
      BY <1>0, <1>1, <1>3
    <3>3. CASE nxt > b /\ \A d \in D : d > cur => d >= nxt
      BY <1>0, <2>1, <3>1, <3>2, <3>3
    <3>4. CASE nxt = arena /\ \A d \in D : d <= cur
      <4>1. \A d \in D2 : d <= b
        BY <1>0, <1>1, <1>3, <3>4
      <4> QED BY <1>0, <2>1, <3>1, <3>4, <4>1
    <3> QED BY <1>0, <1>2, <3>3, <3>4
  <2>2. CASE c = cur
    <3>1. nx2[c] = b
      BY <1>0, <1>1, <1>3, <2>2
    <3>2. \A d \in D2 : d > cur => d >= b
      BY <1>0, <1>1, <1>2
    <3> QED BY <1>0, <1>3, <2>2, <3>1, <3>2
  <2>3. CASE c # b /\ c # cur
    <3>1. c \in D \ {cur} /\ nx2[c] = nx[c] /\ c \in Nat
      BY <1>0, <1>1, <2>3
    <3>2. CASE nx[c] > c /\ \A d \in D : d > c => d >= nx[c]
      <4>1. b > c => b >= nx[c]
        <5>1. SUFFICES ASSUME b > c PROVE b >= nx[c]
          OBVIOUS
        <5>2. c < cur
          BY <1>0, <1>1, <1>2, <1>3, <3>1, <5>1
        <5>3. cur >= nx[c] /\ nx[c] \in Nat
          BY <1>0, <1>1, <1>2, <3>1, <3>2, <5>2
        <5> QED BY <1>0, <1>1, <1>3, <5>3
      <4> QED BY <1>0, <3>1, <3>2, <4>1
    <3>3. CASE nx[c] = arena /\ \A d \in D : d <= c
      <4>1. c > cur
        BY <1>0, <1>1, <1>3, <3>1, <3>3
      <4>2. b <= c
        BY <1>0, <1>1, <1>2, <3>1, <4>1
      <4> QED BY <1>0, <3>1, <3>3, <4>2
    <3> QED BY <1>0, <1>2, <3>1, <3>2, <3>3
  <2> QED BY <1>0, <2>1, <2>2, <2>3
<1>10. Ordered(D2, nx2, un2)
  BY <1>0, <1>1, <1>5, <1>6, <1>7, <1>8, <1>9 DEF Ordered
<1>11. \A x : x \in Units(b, n) <=> x \in Nat /\ b <= x /\ x < b + n
  BY <1>0, <1>1 DEF Units
<1>12. ASSUME NEW x \in Free(D2, un2) PROVE x \in Free(D, un) \cup Units(b, n)
  <2>1. PICK c \in D2 : x \in Addr /\ c <= x /\ x < c + un2[c]
    BY DEF Free
  <2>2. CASE c = b
    BY <1>0, <1>1, <1>11, <2>1, <2>2
  <2>3. CASE c # b
    BY <1>0, <2>1, <2>3 DEF Free
  <2> QED BY <1>0, <2>2, <2>3
<1>13. ASSUME NEW x \in Free(D, un) PROVE x \in Free(D2, un2)
  BY <1>0 DEF Free
<1>14. ASSUME NEW x \in Units(b, n) PROVE x \in Free(D2, un2)
  <2>1. x \in Nat /\ b <= x /\ x < b + n
    BY <1>0, <1>11
  <2>2. x <= b + n - 1
    BY <1>0, <1>1, <2>1
  <2>3. x \in Addr
    BY <1>0, <1>1, <2>1, <2>2
  <2> QED BY <1>0, <2>1, <2>3 DEF Free
<1>15. b \in D2 /\ un2[b] >= n
  BY <1>0, <1>1
<1> QED BY <1>0, <1>10, <1>12, <1>13, <1>14, <1>15

\* What slob_free and the taking of a block do to a heap.
Gives(h, h2, b, n) == /\ HeapOk(h2)
                      /\ FreeOf(h2) = FreeOf(h) \cup Units(b, n)
                      /\ \A a \in Addr \ FreeOf(h2) : h2.units[a] = h.units[a]
                      /\ \E c \in DOMAIN h2.next : h2.units[c] >= n

Takes(h, h2, b, n) == /\ HeapOk(h2)
                      /\ FreeOf(h2) = FreeOf(h) \ Units(b, n)
                      /\ Units(b, n) \subseteq FreeOf(h)
                      /\ h2.units[b] = n
                      /\ \A a \in Addr \ FreeOf(h) : h2.units[a] = h.units[a]

\* slob_free adds the units to the free ones, in a heap that is ordered again.
LEMMA SlobFrees ==
  ASSUME NEW h, HeapOk(h), NEW b, NEW n, Loose(h, b, n)
  PROVE  Gives(h, slob_free(h, b, n), b, n)
<1>. b \in Nat /\ b > 1 /\ n \in Nat /\ n > 0 /\ b + n - 1 \in Addr
  BY DEF Loose
<1>1. PICK D, un, nx, cur : D = DOMAIN h.next /\ un = h.units /\ nx = h.next /\ cur = Point(h, b)
  OBVIOUS
<1>2. PICK nxt : nxt = nx[cur]
  OBVIOUS
<1>3. PICK gone : gone = IF b + n = nxt THEN {nxt} ELSE {}
  OBVIOUS
<1>4. PICK n1, nx1 : n1 = (IF b + n = nxt THEN n + un[nxt] ELSE n)
                     /\ nx1 = (IF b + n = nxt THEN nx[nxt] ELSE nxt)
  OBVIOUS
<1>5. PICK E : E = D \ gone
  OBVIOUS
<1>6. Gap(E, nx, un, cur, b, n1, nx1) /\ Free(D, un) \cup Units(b, n) = Free(E, un) \cup Units(b, n1)
  <2>1. MergesUp(DOMAIN h.next, h.next, h.units, b, n, h.next[Point(h, b)], n1, nx1, E)
    BY <1>1, <1>2, <1>3, <1>4, <1>5 DEF MergesUp
  <2>2. Opens(h, b, n, n1, nx1, E)
    BY <2>1, GapIs
  <2> QED BY <1>1, <2>2 DEF FreeOf, Opens
<1>7. PICK h2 : h2 = slob_free(h, b, n)
  OBVIOUS
<1>8. /\ E \subseteq Addr /\ un \in [Addr -> Nat] /\ cur \in E /\ b \in Addr /\ b \notin E
      /\ n1 \in Nat /\ n1 >= n /\ Addr \subseteq Nat /\ un[cur] \in Nat /\ cur + un[cur] - 1 \in Addr
      /\ \A c \in E : c \in Nat
  <2>1. /\ E \subseteq Addr /\ un \in [Addr -> Nat] /\ cur \in E /\ n1 \in Nat /\ Addr \subseteq Nat
        /\ un[cur] \in Nat /\ cur + un[cur] - 1 \in Addr /\ cur + un[cur] <= b
        /\ \A c \in E : c > cur => c > b + n1
        /\ un[cur] > 0
    BY <1>6, AddrIs DEF Gap
  <2>2. b \in Addr
    <3>1. b <= b + n - 1
      OBVIOUS
    <3> QED BY <3>1, AddrIs
  <2>3. b \notin E
    BY <2>1
  <2>4. n1 >= n
    <3>1. CASE b + n = nxt
      <4>1. nxt \in DOMAIN nx => un[nxt] \in Nat
        BY <1>1, AddrIs DEF HeapOk, Ordered
      <4>2. nxt \in D
        BY <1>1, <1>2, <1>5, <2>1 DEF HeapOk, Ordered
      <4> QED BY <1>1, <1>4, <3>1, <4>1, <4>2
    <3>2. CASE b + n # nxt
      BY <1>4, <3>2
    <3> QED BY <3>1, <3>2
  <2> QED BY <2>1, <2>2, <2>3, <2>4
<1>9. \A x \in gone : x \notin E
  BY <1>5
<1>10. CASE cur + un[cur] = b
  <2>1. /\ h2.next = [x \in E |-> IF x = cur THEN nx1 ELSE nx[x]]
        /\ h2.units = [x \in Addr |-> IF x \in gone \cup {b} THEN 0
                                      ELSE IF x = cur THEN un[cur] + n1 ELSE un[x]]
        /\ h2.slobfree = cur
    BY <1>1, <1>2, <1>3, <1>4, <1>5, <1>7, <1>10 DEF slob_free
  <2>2. h2.units \in [Addr -> Nat] /\ h2.units[cur] = un[cur] + n1
    BY <1>8, <1>9, <2>1
  <2>3. \A c \in E \ {cur} : h2.units[c] = un[c]
    BY <1>8, <1>9, <2>1
  <2>4. /\ Ordered(E, h2.next, h2.units)
        /\ Free(E, h2.units) = Free(E, un) \cup Units(b, n1)
        /\ \E c \in E : h2.units[c] >= n1
    <3>1. Enlarged(E, nx, un, cur, n1, nx1, h2.next, h2.units)
      BY <2>1, <2>2, <2>3 DEF Enlarged
    <3> QED BY <1>6, <1>10, <3>1, GapJoined
  <2>5. DOMAIN h2.next = E
    BY <2>1
  <2>6. HeapOk(h2) /\ FreeOf(h2) = FreeOf(h) \cup Units(b, n)
    BY <1>1, <1>6, <1>8, <2>1, <2>4, <2>5 DEF HeapOk, FreeOf
  <2>7. ASSUME NEW a \in Addr \ FreeOf(h2) PROVE h2.units[a] = un[a]
    <3>1. a # cur /\ a # b
      <4>1. cur \in FreeOf(h2)
        <5>1. h2.units[cur] > 0
          BY <1>8, <2>4 DEF Ordered
        <5>2. cur \in Addr /\ cur < cur + h2.units[cur]
          BY <1>8, <2>2, <5>1
        <5> QED BY <1>8, <2>5, <5>2 DEF FreeOf, Free
      <4>2. b \in Units(b, n)
        BY DEF Units
      <4> QED BY <2>6, <4>1, <4>2
    <3>2. a \notin gone
      <4>1. SUFFICES ASSUME a \in gone PROVE FALSE
        OBVIOUS
      <4>2. a = nxt
        BY <1>3, <4>1
      <4>3. a \in D
        BY <1>1, <1>2, <1>5, <1>8, <4>2 DEF HeapOk, Ordered
      <4>4. a \in Free(D, un)
        <5>1. un[a] > 0 /\ un[a] \in Nat /\ a \in Nat
          BY <1>1, <1>8, <4>3 DEF HeapOk, Ordered
        <5> QED BY <4>3, <5>1 DEF Free
      <4> QED BY <1>1, <2>6, <4>4 DEF FreeOf
    <3> QED BY <2>1, <3>1, <3>2
  <2>8. \E c \in DOMAIN h2.next : h2.units[c] >= n
    <3>1. PICK c \in E : h2.units[c] >= n1
      BY <2>4
    <3>2. h2.units[c] \in Nat
      BY <1>8, <2>2
    <3> QED BY <1>8, <2>5, <3>1, <3>2
  <2> QED BY <1>1, <1>7, <2>6, <2>7, <2>8 DEF Gives
<1>11. CASE cur + un[cur] # b
  <2> DEFINE E2 == E \cup {b}
  <2>1. /\ h2.next = [x \in (D \cup {b}) \ gone |->
                          IF x = b THEN nx1 ELSE IF x = cur THEN b ELSE nx[x]]
        /\ h2.units = [x \in Addr |-> IF x \in gone THEN 0 ELSE IF x = b THEN n1 ELSE un[x]]
        /\ h2.slobfree = cur
    BY <1>1, <1>2, <1>3, <1>4, <1>5, <1>7, <1>11 DEF slob_free
  <2>2. b \notin gone
    <3>1. nxt \in D /\ b \notin D
      <4>1. nxt \in D
        BY <1>1, <1>2, <1>5, <1>8 DEF HeapOk, Ordered
      <4>2. b \in D => b \in Free(D, un) /\ b <= b /\ b < b + n
        <5>1. b \in D => un[b] > 0 /\ un[b] \in Nat
          BY <1>1, <1>8 DEF HeapOk, Ordered
        <5> QED BY <1>8, <5>1 DEF Free
      <4> QED BY <1>1, <4>1, <4>2 DEF FreeOf, Loose
    <3> QED BY <1>3, <3>1
  <2>3. (D \cup {b}) \ gone = E2
    BY <1>5, <2>2
  <2>4. h2.next = [x \in E2 |-> IF x = b THEN nx1 ELSE IF x = cur THEN b ELSE nx[x]]
    BY <2>1, <2>3
  <2>5. h2.units \in [Addr -> Nat] /\ h2.units[b] = n1
    BY <1>8, <2>1, <2>2
  <2>6. \A c \in E : h2.units[c] = un[c]
    BY <1>8, <1>9, <2>1
  <2> HIDE DEF E2
  <2>7. /\ Ordered(E2, h2.next, h2.units)
        /\ Free(E2, h2.units) = Free(E, un) \cup Units(b, n1)
        /\ \E c \in E2 : h2.units[c] >= n1
    <3>1. E2 = E \cup {b}
      BY DEF E2
    <3>2. LinkedIn(E, nx, un, cur, b, n1, nx1, E2, h2.next, h2.units)
      BY <2>4, <2>5, <2>6, <3>1 DEF LinkedIn
    <3> QED BY <1>6, <1>11, <3>2, GapLinked
  <2>8. DOMAIN h2.next = E2 /\ cur \in E2
    BY <1>8, <2>4 DEF E2
  <2>9. HeapOk(h2) /\ FreeOf(h2) = FreeOf(h) \cup Units(b, n)
    BY <1>1, <1>6, <1>8, <2>1, <2>7, <2>8 DEF HeapOk, FreeOf
  <2>10. ASSUME NEW a \in Addr \ FreeOf(h2) PROVE h2.units[a] = un[a]
    <3>1. a # b
      <4>1. b \in Units(b, n)
        BY DEF Units
      <4> QED BY <2>9, <4>1
    <3>2. a \notin gone
      <4>1. SUFFICES ASSUME a \in gone PROVE FALSE
        OBVIOUS
      <4>2. a = nxt
        BY <1>3, <4>1
      <4>3. a \in D
        BY <1>1, <1>2, <1>5, <1>8, <4>2 DEF HeapOk, Ordered
      <4>4. a \in Free(D, un)
        <5>1. un[a] > 0 /\ un[a] \in Nat /\ a \in Nat
          BY <1>1, <1>8, <4>3 DEF HeapOk, Ordered
        <5> QED BY <4>3, <5>1 DEF Free
      <4> QED BY <1>1, <2>9, <4>4 DEF FreeOf
    <3> QED BY <2>1, <3>1, <3>2
  <2>11. \E c \in DOMAIN h2.next : h2.units[c] >= n
    <3>1. PICK c \in E2 : h2.units[c] >= n1
      BY <2>7
    <3>2. h2.units[c] \in Nat
      BY <1>8, <2>5 DEF E2
    <3> QED BY <1>8, <2>8, <3>1, <3>2
  <2> QED BY <1>1, <1>7, <2>9, <2>10, <2>11 DEF Gives
<1> QED BY <1>10, <1>11

-----------------------------------------------------------------------------
(* slob_alloc: what is left of a heap after a block, or the front of one.    *)

\* A whole block is unlinked.
LEMMA BlockTaken ==
  ASSUME NEW D, NEW nx, NEW un, Ordered(D, nx, un), NEW b \in D, b # arena,
         NEW D2, D2 = D \ {b}
  PROVE  /\ Ordered(D2, Unlink(nx, b), un)
         /\ Free(D2, un) = Free(D, un) \ Units(b, un[b])
         /\ Units(b, un[b]) \subseteq Free(D, un)
         /\ nx[b] # b
<1>1. /\ D \subseteq Nat /\ D \subseteq Addr /\ arena = 0 /\ arena \in D
      /\ Addr \subseteq Nat /\ \A a \in Addr, x \in Nat : x <= a => x \in Addr
      /\ nx \in [D -> D] /\ un \in [Addr -> Nat] /\ un[arena] = 1
  BY AddrIs DEF Ordered
<1>2. /\ \A c \in D : un[c] \in Nat /\ un[c] > 0 /\ c + un[c] - 1 \in Addr
      /\ \A c, d \in D : c < d => c + un[c] < d
      /\ \A c \in D : \/ nx[c] > c /\ \A d \in D : d > c => d >= nx[c]
                      \/ nx[c] = arena /\ \A d \in D : d <= c
  BY <1>1 DEF Ordered
<1>3. nx[b] # b /\ nx[b] \in D2 /\ b \in Nat /\ nx[b] \in Nat /\ b > 0
  <2>1. nx[b] \in D /\ b \in Nat /\ nx[b] \in Nat /\ b > 0
    <3>1. D \subseteq Nat /\ arena = 0 /\ nx \in [D -> D]
      BY <1>1
    <3>2. nx[b] \in D
      BY <3>1
    <3>3. b \in Nat /\ nx[b] \in Nat /\ b # 0
      BY <3>1, <3>2
    <3> QED BY <3>1, <3>2, <3>3
  <2>2. nx[b] > b \/ nx[b] = arena
    BY <1>2
  <2> QED BY <1>1, <2>1, <2>2
<1>4. PICK nx2 : nx2 = Unlink(nx, b)
  OBVIOUS
<1>5. nx2 = [x \in D2 |-> IF nx[x] = b THEN nx[b] ELSE nx[x]]
  BY <1>1, <1>4 DEF Unlink
<1>6. nx2 \in [D2 -> D2]
  <2>1. \A x \in D2 : (IF nx[x] = b THEN nx[b] ELSE nx[x]) \in D2
    BY <1>1, <1>3
  <2> QED BY <1>5, <2>1
<1>7. D2 \subseteq D /\ D2 \subseteq Addr /\ arena \in D2
  BY <1>1
<1>8. ASSUME NEW c \in D2
      PROVE  \/ nx2[c] > c /\ \A d \in D2 : d > c => d >= nx2[c]
             \/ nx2[c] = arena /\ \A d \in D2 : d <= c
  <2>1. CASE nx[c] # b
    <3>1. nx2[c] = nx[c]
      BY <1>5, <2>1
    <3> QED BY <1>2, <1>7, <3>1
  <2>2. CASE nx[c] = b
    <3>1. nx2[c] = nx[b] /\ c \in Nat /\ c \in D
      BY <1>1, <1>5, <1>7, <2>2
    <3>2. b > c /\ \A d \in D : d > c => d >= b
      BY <1>1, <1>2, <1>3, <2>2, <3>1
    <3>3. \A d \in D2 : d > c => d > b
      BY <1>1, <1>3, <3>2
    <3>4. CASE nx[b] > b /\ \A d \in D : d > b => d >= nx[b]
      <4>1. nx[b] > c
        BY <1>3, <3>1, <3>2, <3>4
      <4> QED BY <1>7, <3>1, <3>3, <3>4, <4>1
    <3>5. CASE nx[b] = arena /\ \A d \in D : d <= b
      <4>1. \A d \in D2 : d <= c
        BY <1>1, <1>3, <3>1, <3>3, <3>5
      <4> QED BY <3>1, <3>5, <4>1
    <3> QED BY <1>2, <3>4, <3>5
  <2> QED BY <2>1, <2>2
<1>9. Ordered(D2, nx2, un)
  <2>1. /\ \A c \in D2 : un[c] > 0 /\ c + un[c] - 1 \in Addr
        /\ \A c, d \in D2 : c < d => c + un[c] < d
    BY <1>2, <1>7
  <2> QED BY <1>1, <1>6, <1>7, <1>8, <2>1 DEF Ordered
<1>10. un[b] \in Nat
  BY <1>2
<1>11. \A x : x \in Units(b, un[b]) <=> x \in Nat /\ b <= x /\ x < b + un[b]
  BY <1>3, <1>10 DEF Units
<1>12. ASSUME NEW x \in Units(b, un[b]) PROVE x \in Free(D, un)
  <2>1. x \in Nat /\ b <= x /\ x < b + un[b]
    BY <1>11
  <2>2. x <= b + un[b] - 1 /\ b + un[b] - 1 \in Addr
    BY <1>2, <1>3, <1>10, <2>1
  <2> QED BY <1>1, <2>1, <2>2 DEF Free
<1>13. ASSUME NEW x \in Free(D2, un) PROVE x \in Free(D, un) /\ x \notin Units(b, un[b])
  <2>1. PICK c \in D2 : x \in Addr /\ c <= x /\ x < c + un[c]
    BY DEF Free
  <2>2. c \in D /\ c # b /\ c \in Nat /\ un[c] \in Nat /\ x \in Nat
    BY <1>1, <1>2, <2>1
  <2>3. c < b => c + un[c] < b
    BY <1>2, <2>2
  <2>4. b < c => b + un[b] < c
    BY <1>2, <2>2
  <2>5. ~ (b <= x /\ x < b + un[b])
    BY <1>3, <1>10, <2>1, <2>2, <2>3, <2>4
  <2> QED BY <1>11, <2>1, <2>2, <2>5 DEF Free
<1>14. ASSUME NEW x \in Free(D, un), x \notin Units(b, un[b]) PROVE x \in Free(D2, un)
  <2>1. PICK c \in D : x \in Addr /\ c <= x /\ x < c + un[c]
    BY DEF Free
  <2>2. c # b
    BY <1>1, <1>11, <1>14, <2>1
  <2> QED BY <2>1, <2>2 DEF Free
<1> QED BY <1>3, <1>4, <1>9, <1>12, <1>13, <1>14

\* The front of a block is cut off, and the rest takes its place.
CutOff(D, nx, un, b, rest, n, D2, nx2, un2) ==
    /\ D2 = (D \ {b}) \cup {rest}
    /\ nx2 = [x \in D2 |-> IF x = rest THEN nx[b] ELSE IF nx[x] = b THEN rest ELSE nx[x]]
    /\ un2 = [un EXCEPT ![rest] = un[b] - n, ![b] = n]

\* Such a cut leaves a heap without the units cut off.
LEMMA FrontTaken ==
  ASSUME NEW D, NEW nx, NEW un, Ordered(D, nx, un), NEW b \in D, b # arena,
         NEW n \in Nat, n > 0, n < un[b], NEW rest, rest = b + n, NEW D2, NEW nx2, NEW un2,
         CutOff(D, nx, un, b, rest, n, D2, nx2, un2)
  PROVE  /\ Ordered(D2, nx2, un2)
         /\ Free(D2, un2) = Free(D, un) \ Units(b, n)
         /\ Units(b, n) \subseteq Free(D, un)
         /\ un2[b] = n /\ \A a \in Addr \ Free(D, un) : un2[a] = un[a]
         /\ nx[b] # b /\ rest \in D2
<1>1. /\ D \subseteq Nat /\ D \subseteq Addr /\ arena = 0 /\ arena \in D
      /\ Addr \subseteq Nat /\ \A a \in Addr, x \in Nat : x <= a => x \in Addr
      /\ nx \in [D -> D] /\ un \in [Addr -> Nat] /\ un[arena] = 1
  BY AddrIs DEF Ordered
<1>2. /\ \A c \in D : un[c] \in Nat /\ un[c] > 0 /\ c + un[c] - 1 \in Addr
      /\ \A c, d \in D : c < d => c + un[c] < d
      /\ \A c \in D : \/ nx[c] > c /\ \A d \in D : d > c => d >= nx[c]
                      \/ nx[c] = arena /\ \A d \in D : d <= c
  BY <1>1 DEF Ordered
<1>3. nx[b] # b /\ nx[b] \in D /\ b \in Nat /\ nx[b] \in Nat /\ b > 0 /\ un[b] \in Nat
  <2>1. nx[b] \in D /\ b \in Nat /\ nx[b] \in Nat /\ b > 0 /\ un[b] \in Nat
    <3>1. D \subseteq Nat /\ arena = 0 /\ nx \in [D -> D] /\ un[b] \in Nat
      BY <1>1, <1>2
    <3>2. nx[b] \in D
      BY <3>1
    <3>3. b \in Nat /\ nx[b] \in Nat /\ b # 0
      BY <3>1, <3>2
    <3> QED BY <3>1, <3>2, <3>3
  <2>2. nx[b] > b \/ nx[b] = arena
    BY <1>2
  <2> QED BY <1>1, <2>1, <2>2
<1>4. /\ D2 = (D \ {b}) \cup {rest}
      /\ nx2 = [x \in D2 |-> IF x = rest THEN nx[b] ELSE IF nx[x] = b THEN rest ELSE nx[x]]
      /\ un2 = [un EXCEPT ![rest] = un[b] - n, ![b] = n]
  BY DEF CutOff
<1>5. rest \in Nat /\ rest > b /\ rest < b + un[b] /\ un[b] - n \in Nat /\ un[b] - n > 0
      /\ rest + (un[b] - n) = b + un[b]
  BY <1>3
<1>6. rest \in Addr
  <2>1. rest <= b + un[b] - 1 /\ b + un[b] - 1 \in Addr
    BY <1>2, <1>3, <1>5
  <2> QED BY <1>1, <1>5, <2>1
<1>7. \A c \in D : (c > b => c > b + un[b]) /\ c # rest
  <2> TAKE c \in D
  <2>1. c \in Nat /\ (b < c => b + un[b] < c)
    BY <1>1, <1>2
  <2> QED BY <1>3, <1>5, <2>1
<1>8. un2 \in [Addr -> Nat] /\ un2[rest] = un[b] - n /\ un2[b] = n
      /\ \A a \in Addr : a # rest /\ a # b => un2[a] = un[a]
  <2>1. b \in Addr /\ rest # b
    BY <1>1, <1>3, <1>5
  <2> QED BY <1>1, <1>4, <1>5, <1>6, <2>1
<1>9. \A c \in D \ {b} : c \in D2 /\ c \in Nat /\ un2[c] = un[c]
                         /\ nx2[c] = IF nx[c] = b THEN rest ELSE nx[c]
  <2>1. \A c \in D \ {b} : c \in D2 /\ c \in Nat /\ c \in Addr /\ c # rest /\ c # b
    BY <1>1, <1>4, <1>7
  <2> QED BY <1>4, <1>8, <2>1
<1>10. nx2[rest] = nx[b] /\ rest \in D2 /\ nx[b] \in D2
  BY <1>3, <1>4
<1>11. nx2 \in [D2 -> D2]
  <2>1. \A x \in D2 : (IF x = rest THEN nx[b] ELSE IF nx[x] = b THEN rest ELSE nx[x]) \in D2
    BY <1>1, <1>3, <1>4
  <2> QED BY <1>4, <2>1
<1>12. D2 \subseteq Addr /\ arena \in D2 /\ un2[arena] = 1
  BY <1>1, <1>3, <1>4, <1>6, <1>9
<1>13. ASSUME NEW c \in D2 PROVE un2[c] > 0 /\ c + un2[c] - 1 \in Addr
  <2>1. CASE c = rest
    <3>1. c + un2[c] - 1 = b + un[b] - 1
      BY <1>3, <1>5, <1>8, <2>1
    <3> QED BY <1>2, <1>5, <1>8, <2>1, <3>1
  <2>2. CASE c # rest
    BY <1>2, <1>4, <1>9, <2>2
  <2> QED BY <2>1, <2>2
<1>14. ASSUME NEW c \in D2, NEW d \in D2, c < d PROVE c + un2[c] < d
  <2>1. CASE c = rest
    <3>1. d \in D /\ d > b /\ c + un2[c] = b + un[b]
      BY <1>1, <1>3, <1>4, <1>5, <1>8, <1>14, <2>1
    <3> QED BY <1>7, <3>1
  <2>2. CASE c # rest /\ d = rest
    <3>1. c \in D \ {b} /\ c \in Nat /\ c < rest /\ un2[c] = un[c] /\ un[c] \in Nat
      BY <1>1, <1>2, <1>4, <1>9, <1>14, <2>2
    <3>2. c < b
      <4>1. ~ (c > b)
        BY <1>3, <1>5, <1>7, <3>1
      <4> QED BY <1>3, <3>1, <4>1
    <3>3. c + un[c] < b
      BY <1>2, <3>1, <3>2
    <3> QED BY <1>3, <1>5, <2>2, <3>1, <3>3
  <2>3. CASE c # rest /\ d # rest
    BY <1>2, <1>4, <1>9, <1>14, <2>3
  <2> QED BY <2>1, <2>2, <2>3
<1>15. ASSUME NEW c \in D2
       PROVE  \/ nx2[c] > c /\ \A d \in D2 : d > c => d >= nx2[c]
              \/ nx2[c] = arena /\ \A d \in D2 : d <= c
  <2>1. CASE c = rest
    <3>1. CASE nx[b] > b /\ \A d \in D : d > b => d >= nx[b]
      <4>1. nx[b] > b + un[b]
        BY <1>3, <1>7, <3>1
      <4>2. nx[b] > rest
        BY <1>3, <1>5, <4>1
      <4>3. \A d \in D2 : d > rest => d >= nx[b]
        BY <1>1, <1>3, <1>4, <1>5, <3>1
      <4> QED BY <1>10, <2>1, <4>2, <4>3
    <3>2. CASE nx[b] = arena /\ \A d \in D : d <= b
      <4>1. \A d \in D2 : d <= rest
        BY <1>1, <1>3, <1>4, <1>5, <3>2
      <4> QED BY <1>10, <2>1, <3>2, <4>1
    <3> QED BY <1>2, <3>1, <3>2
  <2>2. CASE c # rest
    <3>1. c \in D \ {b} /\ c \in Nat /\ nx[c] \in Nat
      BY <1>1, <1>4, <2>2
    <3>2. CASE nx[c] = b
      <4>1. nx2[c] = rest
        BY <1>9, <3>1, <3>2
      <4>2. c < b /\ \A d \in D : d > c => d >= b
        BY <1>1, <1>2, <1>3, <3>1, <3>2
      <4>3. \A d \in D2 : d > c => d >= rest
        <5> TAKE d \in D2
        <5> HAVE d > c
        <5>1. CASE d = rest
          BY <1>5, <5>1
        <5>2. CASE d # rest
          <6>1. d \in D /\ d # b /\ d \in Nat /\ d >= b
            BY <1>1, <1>4, <4>2, <5>2
          <6>2. d > b + un[b]
            BY <1>3, <1>7, <6>1
          <6> QED BY <1>3, <1>5, <6>1, <6>2
        <5> QED BY <5>1, <5>2
      <4> QED BY <1>3, <1>5, <3>1, <4>1, <4>2, <4>3
    <3>3. CASE nx[c] # b /\ nx[c] > c /\ \A d \in D : d > c => d >= nx[c]
      <4>1. nx2[c] = nx[c]
        BY <1>9, <3>1, <3>3
      <4>2. rest > c => rest >= nx[c]
        <5>1. SUFFICES ASSUME rest > c PROVE rest >= nx[c]
          OBVIOUS
        <5>2. c < b
          BY <1>3, <1>5, <1>7, <3>1, <5>1
        <5> QED BY <1>3, <1>5, <3>1, <3>3, <5>2
      <4>3. \A d \in D2 : d > c => d >= nx[c]
        BY <1>4, <3>3, <4>2
      <4> QED BY <3>3, <4>1, <4>3
    <3>4. CASE nx[c] # b /\ nx[c] = arena /\ \A d \in D : d <= c
      <4>1. nx2[c] = arena
        BY <1>9, <3>1, <3>4
      <4>2. c > b
        BY <1>3, <3>1, <3>4
      <4>3. c > rest
        BY <1>3, <1>5, <1>7, <3>1, <4>2
      <4>4. \A d \in D2 : d <= c
        BY <1>4, <1>5, <3>1, <3>4, <4>3
      <4> QED BY <4>1, <4>4
    <3> QED BY <1>2, <3>1, <3>2, <3>3, <3>4
  <2> QED BY <2>1, <2>2
<1>16. Ordered(D2, nx2, un2)
  BY <1>8, <1>11, <1>12, <1>13, <1>14, <1>15 DEF Ordered
<1>17. \A x : x \in Units(b, n) <=> x \in Nat /\ b <= x /\ x < rest
  BY <1>3 DEF Units
<1>18. ASSUME NEW x \in Nat, b <= x, x < b + un[b] PROVE x \in Free(D, un)
  <2>1. x <= b + un[b] - 1 /\ b + un[b] - 1 \in Addr
    BY <1>2, <1>3, <1>18
  <2> QED BY <1>1, <1>18, <2>1 DEF Free
<1>19. ASSUME NEW x \in Units(b, n) PROVE x \in Free(D, un)
  <2>1. x \in Nat /\ b <= x /\ x < b + un[b]
    BY <1>3, <1>5, <1>17
  <2> QED BY <1>18, <2>1
<1>20. ASSUME NEW x \in Free(D2, un2) PROVE x \in Free(D, un) /\ x \notin Units(b, n)
  <2>1. PICK c \in D2 : x \in Addr /\ c <= x /\ x < c + un2[c]
    BY DEF Free
  <2>2. CASE c = rest
    <3>1. x \in Nat /\ rest <= x /\ x < b + un[b]
      BY <1>1, <1>5, <1>8, <2>1, <2>2
    <3>2. b <= x
      BY <1>3, <1>5, <3>1
    <3> QED BY <1>5, <1>17, <1>18, <3>1, <3>2
  <2>3. CASE c # rest
    <3>1. c \in D /\ c # b /\ c \in Nat /\ un[c] \in Nat /\ x \in Nat /\ x < c + un[c]
      BY <1>1, <1>2, <1>4, <1>9, <2>1, <2>3
    <3>2. c < b => c + un[c] < b
      BY <1>2, <3>1
    <3>3. b < c => b + un[b] < c
      BY <1>2, <3>1
    <3>4. ~ (b <= x /\ x < rest)
      BY <1>3, <1>5, <2>1, <3>1, <3>2, <3>3
    <3> QED BY <1>17, <2>1, <3>1, <3>4 DEF Free
  <2> QED BY <2>2, <2>3
<1>21. ASSUME NEW x \in Free(D, un), x \notin Units(b, n) PROVE x \in Free(D2, un2)
  <2>1. PICK c \in D : x \in Addr /\ c <= x /\ x < c + un[c]
    BY DEF Free
  <2>2. CASE c = b
    <3>1. rest <= x /\ x < rest + un2[rest]
      BY <1>1, <1>3, <1>5, <1>8, <1>17, <1>21, <2>1, <2>2
    <3> QED BY <1>10, <2>1, <3>1 DEF Free
  <2>3. CASE c # b
    BY <1>9, <2>1, <2>3 DEF Free
  <2> QED BY <2>2, <2>3
<1>22. ASSUME NEW a \in Addr \ Free(D, un) PROVE un2[a] = un[a]
  <2>1. b \in Free(D, un) /\ rest \in Free(D, un)
    BY <1>3, <1>5, <1>18
  <2> QED BY <1>8, <2>1
<1> QED BY <1>3, <1>8, <1>10, <1>16, <1>19, <1>20, <1>21, <1>22

\* slob_alloc takes n units off the front of a block that has them.
LEMMA SlobTakes ==
  ASSUME NEW h, HeapOk(h), NEW b \in DOMAIN h.next, b # arena,
         NEW n \in Nat, n > 0, h.units[b] >= n
  PROVE  Takes(h, TakeBlock(h, b, n), b, n)
<1>1. PICK D, nx, un, h2 : D = DOMAIN h.next /\ nx = h.next /\ un = h.units
                           /\ h2 = TakeBlock(h, b, n)
  OBVIOUS
<1>2. Ordered(D, nx, un) /\ b \in D /\ un[b] >= n /\ un[b] \in Nat
  <2>1. Ordered(D, nx, un) /\ b \in D /\ un[b] >= n
    BY <1>1 DEF HeapOk
  <2>2. un \in [Addr -> Nat] /\ b \in Addr
    BY <2>1 DEF Ordered
  <2> QED BY <2>1, <2>2
<1>3. PICK c : c = Before(h, b) /\ c \in D /\ nx[c] = b
  BY <1>1, BeforeIs
<1>4. CASE un[b] = n
  <2>1. h2 = [next |-> Unlink(nx, b), units |-> un, slobfree |-> c]
    BY <1>1, <1>3, <1>4 DEF TakeBlock
  <2>2. PICK D2 : D2 = D \ {b}
    OBVIOUS
  <2>3. /\ Ordered(D2, Unlink(nx, b), un)
        /\ Free(D2, un) = Free(D, un) \ Units(b, un[b])
        /\ Units(b, un[b]) \subseteq Free(D, un)
        /\ nx[b] # b
    BY <1>2, <2>2, BlockTaken
  <2>4. h2.next = Unlink(nx, b) /\ h2.units = un /\ h2.slobfree = c /\ DOMAIN h2.next = D2
    BY <1>1, <2>1, <2>2 DEF Unlink
  <2>5. c \in D2
    BY <1>3, <2>2, <2>3
  <2> QED BY <1>1, <1>4, <2>3, <2>4, <2>5 DEF Takes, HeapOk, FreeOf
<1>5. CASE un[b] # n
  <2>1. PICK rest : rest = b + n
    OBVIOUS
  <2>2. PICK D2 : D2 = (D \ {b}) \cup {rest}
    OBVIOUS
  <2>3. PICK nx2, un2 :
            /\ nx2 = [x \in D2 |-> IF x = rest THEN nx[b] ELSE IF nx[x] = b THEN rest ELSE nx[x]]
            /\ un2 = [un EXCEPT ![rest] = un[b] - n, ![b] = n]
    OBVIOUS
  <2>4. h2 = [next |-> nx2, units |-> un2, slobfree |-> c]
    BY <1>1, <1>3, <1>5, <2>1, <2>2, <2>3 DEF TakeBlock
  <2>5. CutOff(D, nx, un, b, rest, n, D2, nx2, un2) /\ n < un[b]
    BY <1>2, <1>5, <2>2, <2>3 DEF CutOff
  <2>6. /\ Ordered(D2, nx2, un2)
        /\ Free(D2, un2) = Free(D, un) \ Units(b, n)
        /\ Units(b, n) \subseteq Free(D, un)
        /\ un2[b] = n /\ \A a \in Addr \ Free(D, un) : un2[a] = un[a]
        /\ nx[b] # b /\ rest \in D2
    BY <1>2, <2>1, <2>5, FrontTaken
  <2>7. h2.next = nx2 /\ h2.units = un2 /\ h2.slobfree = c /\ DOMAIN h2.next = D2
    BY <2>3, <2>4
  <2>8. c \in D2
    BY <1>3, <2>2, <2>6
  <2> QED BY <1>1, <2>6, <2>7, <2>8 DEF Takes, HeapOk, FreeOf
<1> QED BY <1>4, <1>5

-----------------------------------------------------------------------------
(* The heap and the blocks in use.                                          *)

InUse(L) == {a \in Addr : \E l \in L : a \in Units(l[1], l[2])}
HeapUnits(P) == {a \in Addr : a = arena \/ \E p \in P : a \in Units(PageBase(p), PageUnits)}

\* The blocks L have the units of the pages P that h does not have free, each
\* unit in one of them, and their lengths in their headers.
HeapInv(h, L, P) ==
    /\ HeapOk(h)
    /\ P \subseteq Page
    /\ L \subseteq Addr \X (Nat \ {0})
    /\ \A l \in L : h.units[l[1]] = l[2] /\ Units(l[1], l[2]) \subseteq Addr
    /\ \A k, l \in L : k # l => Units(k[1], k[2]) \cap Units(l[1], l[2]) = {}
    /\ FreeOf(h) \cap InUse(L) = {}
    /\ FreeOf(h) \cup InUse(L) = HeapUnits(P)

\* What is known of a block in use.
LEMMA BlockFacts ==
  ASSUME NEW h, NEW L, NEW P, HeapInv(h, L, P), NEW l \in L
  PROVE  /\ l = <<l[1], l[2]>> /\ l[1] \in Nat /\ l[2] \in Nat /\ l[2] > 0 /\ l[1] > 1
         /\ l[1] \in Units(l[1], l[2]) /\ l[1] + l[2] - 1 \in Addr
         /\ Units(l[1], l[2]) \subseteq InUse(L)
<1>1. l \in Addr \X (Nat \ {0}) /\ Units(l[1], l[2]) \subseteq Addr
  BY DEF HeapInv
<1>2. l = <<l[1], l[2]>> /\ l[1] \in Addr /\ l[2] \in Nat /\ l[2] > 0 /\ l[1] \in Nat
  <2>1. l = <<l[1], l[2]>> /\ l[1] \in Addr /\ l[2] \in Nat \ {0}
    BY <1>1
  <2>2. Addr \subseteq Nat
    BY AddrIs
  <2> QED BY <2>1, <2>2
<1>3. l[1] \in Units(l[1], l[2]) /\ l[1] + l[2] - 1 \in Units(l[1], l[2])
  BY <1>2 DEF Units
<1>4. Units(l[1], l[2]) \subseteq InUse(L)
  BY <1>1 DEF InUse
<1>5. l[1] \in HeapUnits(P) /\ l[1] \notin FreeOf(h)
  BY <1>3, <1>4 DEF HeapInv
<1>6. arena \in FreeOf(h)
  <2>1. arena \in Addr /\ arena \in DOMAIN h.next /\ h.units[arena] = 1 /\ arena = 0
    BY AddrIs DEF HeapInv, HeapOk, Ordered
  <2> QED BY <2>1 DEF FreeOf, Free
<1>7. l[1] > 1
  <2>1. PICK p \in P : l[1] \in Units(PageBase(p), PageUnits)
    BY <1>5, <1>6 DEF HeapUnits
  <2>2. PageBase(p) >= 2 /\ PageBase(p) \in Nat /\ PageUnits \in Nat
    <3>1. p \in Nat /\ PageUnits \in Nat
      BY SlobAssumption, ZonesAssumption DEF HeapInv, Page
    <3>2. p * PageUnits \in Nat
      BY <3>1
    <3> QED BY <3>1, <3>2 DEF PageBase
  <2> QED BY <2>1, <2>2 DEF Units
<1> QED BY <1>1, <1>2, <1>3, <1>4, <1>7

\* A block is handed out.
LEMMA TakeKeeps ==
  ASSUME NEW h, NEW L, NEW P, HeapInv(h, L, P), NEW h2, NEW b, NEW n \in Nat \ {0},
         b \in Addr, Takes(h, h2, b, n)
  PROVE  HeapInv(h2, L \cup {<<b, n>>}, P) /\ \A l \in L : l[1] # b
<1>1. PICK F, F2, M : F = FreeOf(h) /\ F2 = FreeOf(h2) /\ M = L \cup {<<b, n>>}
  OBVIOUS
<1>2. /\ HeapOk(h2) /\ F2 = F \ Units(b, n) /\ Units(b, n) \subseteq F
      /\ h2.units[b] = n /\ \A a \in Addr \ F : h2.units[a] = h.units[a]
  BY <1>1 DEF Takes
<1>3. F \subseteq Addr
  BY <1>1 DEF FreeOf, Free
<1>4. ASSUME NEW l \in L
      PROVE  /\ l[1] \in Addr \ F /\ Units(l[1], l[2]) \cap Units(b, n) = {}
             /\ h2.units[l[1]] = l[2]
  <2>1. l[1] \in InUse(L) /\ Units(l[1], l[2]) \subseteq InUse(L)
    BY BlockFacts
  <2>2. F \cap InUse(L) = {} /\ h.units[l[1]] = l[2]
    BY <1>1 DEF HeapInv
  <2>3. l[1] \in Addr \ F
    BY <2>1, <2>2 DEF InUse
  <2> QED BY <1>2, <2>1, <2>2, <2>3
<1>5. b \in Units(b, n)
  BY AddrIs DEF Units
<1>6. \A l \in L : l[1] # b
  BY <1>2, <1>4, <1>5
<1>7. M \subseteq Addr \X (Nat \ {0}) /\ \A l \in M : h2.units[l[1]] = l[2]
  BY <1>1, <1>2, <1>4 DEF HeapInv
<1>8. \A l \in M : Units(l[1], l[2]) \subseteq Addr
  BY <1>1, <1>2, <1>3 DEF HeapInv
<1>9. \A k, l \in M : k # l => Units(k[1], k[2]) \cap Units(l[1], l[2]) = {}
  <2> TAKE k, l \in M
  <2> HAVE k # l
  <2>1. CASE k \in L /\ l \in L
    BY <2>1 DEF HeapInv
  <2>2. CASE k \in L /\ l = <<b, n>>
    BY <1>4, <2>2
  <2>3. CASE k = <<b, n>> /\ l \in L
    BY <1>4, <2>3
  <2> QED BY <1>1, <2>1, <2>2, <2>3
<1>10. InUse(M) = InUse(L) \cup Units(b, n)
  <2>1. ASSUME NEW a \in InUse(M) PROVE a \in InUse(L) \cup Units(b, n)
    <3>1. PICK l \in M : a \in Units(l[1], l[2]) /\ a \in Addr
      BY DEF InUse
    <3> QED BY <1>1, <3>1 DEF InUse
  <2>2. InUse(L) \subseteq InUse(M)
    BY <1>1 DEF InUse
  <2>3. Units(b, n) \subseteq InUse(M)
    <3> SUFFICES ASSUME NEW a \in Units(b, n) PROVE a \in InUse(M)
      OBVIOUS
    <3>1. PICK l : l = <<b, n>>
      OBVIOUS
    <3>2. l \in M /\ a \in Units(l[1], l[2]) /\ a \in Addr
      BY <1>1, <1>2, <1>3, <3>1
    <3> QED BY <3>2 DEF InUse
  <2> QED BY <2>1, <2>2, <2>3
<1>11. F \cap InUse(L) = {} /\ F \cup InUse(L) = HeapUnits(P) /\ P \subseteq Page
  BY <1>1 DEF HeapInv
<1>12. F2 \cap InUse(M) = {} /\ F2 \cup InUse(M) = HeapUnits(P)
  BY <1>2, <1>10, <1>11
<1>13. HeapInv(h2, M, P)
  BY <1>1, <1>2, <1>7, <1>8, <1>9, <1>11, <1>12 DEF HeapInv
<1> QED BY <1>1, <1>6, <1>13

\* A block is given back.
LEMMA GiveKeeps ==
  ASSUME NEW h, NEW L, NEW P, HeapInv(h, L, P), NEW l \in L,
         NEW h2, Gives(h, h2, l[1], l[2])
  PROVE  HeapInv(h2, {k \in L : k[1] # l[1]}, P)
<1>1. PICK F, F2, M : F = FreeOf(h) /\ F2 = FreeOf(h2) /\ M = L \ {l}
  OBVIOUS
<1>2. /\ HeapOk(h2) /\ F2 = F \cup Units(l[1], l[2])
      /\ \A a \in Addr \ F2 : h2.units[a] = h.units[a]
  BY <1>1 DEF Gives
<1>3. /\ F \cap InUse(L) = {} /\ F \cup InUse(L) = HeapUnits(P) /\ P \subseteq Page
      /\ \A k \in L : k # l => Units(k[1], k[2]) \cap Units(l[1], l[2]) = {}
      /\ L \subseteq Addr \X (Nat \ {0})
  BY <1>1 DEF HeapInv
<1>4. \A k \in L : k[1] \in Units(k[1], k[2]) /\ Units(k[1], k[2]) \subseteq InUse(L)
  BY BlockFacts
<1>5. {k \in L : k[1] # l[1]} = M
  <2>1. \A k \in M : k[1] # l[1]
    BY <1>1, <1>3, <1>4
  <2> QED BY <1>1, <2>1
<1>6. InUse(M) = InUse(L) \ Units(l[1], l[2])
  <2>1. ASSUME NEW a \in InUse(M) PROVE a \in InUse(L) /\ a \notin Units(l[1], l[2])
    <3>1. PICK k \in M : a \in Units(k[1], k[2]) /\ a \in Addr
      BY DEF InUse
    <3>2. k \in L /\ k # l
      BY <1>1, <3>1
    <3> QED BY <1>3, <1>4, <3>1, <3>2
  <2>2. ASSUME NEW a \in InUse(L), a \notin Units(l[1], l[2]) PROVE a \in InUse(M)
    BY <1>1, <2>2 DEF InUse
  <2> QED BY <2>1, <2>2
<1>7. F2 \cap InUse(M) = {} /\ F2 \cup InUse(M) = HeapUnits(P)
  BY <1>2, <1>3, <1>4, <1>6
<1>8. \A k \in M : h2.units[k[1]] = k[2]
  <2> TAKE k \in M
  <2>1. k \in L /\ k[1] \in InUse(M) /\ k[1] \in Addr
    <3>1. k \in L /\ k # l
      BY <1>1
    <3>2. k[1] \in InUse(L) /\ k[1] \notin Units(l[1], l[2])
      BY <1>3, <1>4, <3>1
    <3> QED BY <1>6, <3>1, <3>2 DEF InUse
  <2>2. h2.units[k[1]] = h.units[k[1]]
    BY <1>2, <1>7, <2>1
  <2> QED BY <2>1, <2>2 DEF HeapInv
<1>9. HeapInv(h2, M, P)
  <2>1. /\ M \subseteq Addr \X (Nat \ {0})
        /\ \A k \in M : Units(k[1], k[2]) \subseteq Addr
        /\ \A k, m \in M : k # m => Units(k[1], k[2]) \cap Units(m[1], m[2]) = {}
    BY <1>1 DEF HeapInv
  <2> QED BY <1>1, <1>2, <1>3, <1>7, <1>8, <2>1 DEF HeapInv
<1> QED BY <1>5, <1>9

\* The units of each page are its own.
LEMMA PagesApart ==
  ASSUME NEW p \in Page
  PROVE  /\ PageBase(p) \in Nat /\ PageBase(p) > 1 /\ PageUnits \in Nat /\ PageUnits > 0
         /\ PageBase(p) + PageUnits - 1 \in Addr
         /\ \A x : x \in Units(PageBase(p), PageUnits) <=>
                      x \in Nat /\ PageBase(p) <= x /\ x < PageBase(p) + PageUnits
         /\ Units(PageBase(p), PageUnits) \subseteq Addr
         /\ \A q \in Page : q # p =>
               Units(PageBase(q), PageUnits) \cap Units(PageBase(p), PageUnits) = {}
<1>1. PICK U : U = PageUnits
  OBVIOUS
<1>2. U \in Nat /\ U > 4 /\ NPage \in Nat /\ Page \subseteq Nat /\ \A q \in Page : q < NPage
  BY <1>1, SlobAssumption, ZonesAssumption DEF Page
<1>3. \A q, r \in Nat : q < r => q * U + U <= r * U
  <2> TAKE q, r \in Nat
  <2> HAVE q < r
  <2>1. q * U + U = (q + 1) * U
    BY <1>2
  <2>2. (q + 1) * U <= r * U
    <3>1. PICK d \in Nat : r = (q + 1) + d
      <4>1. r - (q + 1) \in Nat /\ r = (q + 1) + (r - (q + 1))
        OBVIOUS
      <4> QED BY <4>1
    <3>2. d * U \in Nat /\ (q + 1) * U \in Nat
      BY <1>2
    <3>3. r * U = (q + 1) * U + d * U
      BY <1>2, <3>1
    <3> QED BY <3>2, <3>3
  <2>3. q * U \in Nat /\ r * U \in Nat
    BY <1>2
  <2> QED BY <2>1, <2>2, <2>3
<1>4. \A q \in Nat : q * U \in Nat
  BY <1>2
<1>5. ASSUME NEW q \in Page
      PROVE  /\ PageBase(q) \in Nat /\ PageBase(q) = 2 + q * U
             /\ \A x : x \in Units(PageBase(q), U) <=>
                          x \in Nat /\ PageBase(q) <= x /\ x < PageBase(q) + U
  <2>1. PageBase(q) = 2 + q * U /\ PageBase(q) \in Nat
    BY <1>1, <1>2, <1>4 DEF PageBase
  <2> QED BY <1>2, <2>1 DEF Units
<1>6. PageBase(p) > 1 /\ p * U \in Nat
  BY <1>2, <1>4, <1>5
<1>7. PageBase(p) + U - 1 \in Addr
  <2>1. p * U + U <= NPage * U /\ NPage * U \in Nat
    BY <1>2, <1>3, <1>4
  <2>2. PICK top : top = PageBase(NPage)
    OBVIOUS
  <2>3. top = 2 + NPage * U
    BY <1>1, <1>2, <1>4, <2>2 DEF PageBase
  <2>4. Addr = 0 .. top - 1
    BY <2>2 DEF Addr
  <2>5. PICK x, m : x = p * U /\ m = NPage * U
    OBVIOUS
  <2>6. x \in Nat /\ m \in Nat /\ x + U <= m /\ top = 2 + m /\ PageBase(p) = 2 + x
    BY <1>5, <1>6, <2>1, <2>3, <2>5
  <2>7. PageBase(p) + U - 1 \in 0 .. top - 1
    BY <1>2, <2>6
  <2> QED BY <2>4, <2>7
<1>8. Units(PageBase(p), U) \subseteq Addr
  <2> SUFFICES ASSUME NEW x \in Units(PageBase(p), U) PROVE x \in Addr
    OBVIOUS
  <2>1. x \in Nat /\ x <= PageBase(p) + U - 1
    BY <1>2, <1>5
  <2> QED BY <1>7, <2>1, AddrIs
<1>9. ASSUME NEW q \in Page, q # p, NEW x \in Units(PageBase(q), U), x \in Units(PageBase(p), U)
      PROVE  FALSE
  <2>1. /\ x \in Nat /\ 2 + q * U <= x /\ x < 2 + q * U + U
        /\ 2 + p * U <= x /\ x < 2 + p * U + U
    BY <1>5, <1>9
  <2>2. q \in Nat /\ p \in Nat /\ q * U \in Nat /\ p * U \in Nat /\ (q < p \/ p < q)
    BY <1>2, <1>4, <1>9
  <2>3. q < p => q * U + U <= p * U
    BY <1>3, <2>2
  <2>4. p < q => p * U + U <= q * U
    BY <1>3, <2>2
  <2> QED BY <1>2, <2>1, <2>2, <2>3, <2>4
<1> QED BY <1>1, <1>2, <1>5, <1>6, <1>7, <1>8, <1>9

\* A block in use may be given back.
LEMMA BlockLoose ==
  ASSUME NEW h, NEW L, NEW P, HeapInv(h, L, P), NEW l \in L
  PROVE  Loose(h, l[1], l[2])
<1>1. /\ l[1] \in Nat /\ l[2] \in Nat /\ l[2] > 0 /\ l[1] > 1
      /\ l[1] + l[2] - 1 \in Addr /\ Units(l[1], l[2]) \subseteq InUse(L)
  BY BlockFacts
<1>2. ASSUME NEW a \in FreeOf(h), l[1] <= a /\ a < l[1] + l[2] PROVE FALSE
  <2>1. a \in Nat
    BY AddrIs DEF FreeOf, Free
  <2>2. a \in Units(l[1], l[2])
    BY <1>1, <1>2, <2>1 DEF Units
  <2> QED BY <1>1, <2>2 DEF HeapInv
<1> QED BY <1>1, <1>2 DEF Loose

\* A page of somebody else may be given to the heap.
LEMMA PageLoose ==
  ASSUME NEW h, NEW L, NEW P, HeapInv(h, L, P), NEW p \in Page \ P
  PROVE  /\ Loose(h, PageBase(p), PageUnits)
         /\ Units(PageBase(p), PageUnits) \cap HeapUnits(P) = {}
<1>1. PICK b : b = PageBase(p)
  OBVIOUS
<1>2. /\ b \in Nat /\ b > 1 /\ PageUnits \in Nat /\ PageUnits > 0 /\ b + PageUnits - 1 \in Addr
      /\ \A x : x \in Units(b, PageUnits) <=> x \in Nat /\ b <= x /\ x < b + PageUnits
      /\ \A q \in P : Units(PageBase(q), PageUnits) \cap Units(b, PageUnits) = {}
  <2>1. P \subseteq Page
    BY DEF HeapInv
  <2> QED BY <1>1, <2>1, PagesApart
<1>3. Units(b, PageUnits) \cap HeapUnits(P) = {}
  BY <1>2 DEF HeapUnits, arena
<1>4. FreeOf(h) \subseteq HeapUnits(P) /\ HeapUnits(P) \subseteq Nat
  BY AddrIs DEF HeapInv, HeapUnits
<1>5. \A a \in FreeOf(h) : ~ (b <= a /\ a < b + PageUnits)
  BY <1>2, <1>3, <1>4
<1> QED BY <1>1, <1>2, <1>3, <1>5 DEF Loose

\* The heap grows by a page that was not one of its own.
LEMMA GrowKeeps ==
  ASSUME NEW h, NEW L, NEW P, HeapInv(h, L, P), NEW p \in Page \ P,
         NEW h2, Gives(h, h2, PageBase(p), PageUnits)
  PROVE  HeapInv(h2, L, P \cup {p})
<1>1. PICK U : U = Units(PageBase(p), PageUnits)
  OBVIOUS
<1>2. /\ HeapOk(h2) /\ FreeOf(h2) = FreeOf(h) \cup U
      /\ \A a \in Addr \ FreeOf(h2) : h2.units[a] = h.units[a]
  BY <1>1 DEF Gives
<1>3. FreeOf(h) \cap InUse(L) = {} /\ FreeOf(h) \cup InUse(L) = HeapUnits(P)
  BY DEF HeapInv
<1>4. U \cap HeapUnits(P) = {} /\ U \subseteq Addr
  BY <1>1, PageLoose, PagesApart
<1>5. HeapUnits(P \cup {p}) = HeapUnits(P) \cup U
  BY <1>1, <1>4 DEF HeapUnits
<1>6. /\ FreeOf(h2) \cap InUse(L) = {} /\ FreeOf(h2) \cup InUse(L) = HeapUnits(P \cup {p})
  BY <1>2, <1>3, <1>4, <1>5
<1>7. \A l \in L : h2.units[l[1]] = l[2]
  <2> TAKE l \in L
  <2>1. l[1] \in InUse(L) /\ l[1] \in Addr
    BY BlockFacts DEF InUse
  <2>2. h.units[l[1]] = l[2]
    BY DEF HeapInv
  <2> QED BY <1>2, <1>6, <2>1, <2>2
<1>8. /\ P \cup {p} \subseteq Page /\ L \subseteq Addr \X (Nat \ {0})
      /\ \A l \in L : Units(l[1], l[2]) \subseteq Addr
      /\ \A k, l \in L : k # l => Units(k[1], k[2]) \cap Units(l[1], l[2]) = {}
  BY DEF HeapInv
<1> QED BY <1>2, <1>6, <1>7, <1>8 DEF HeapInv

-----------------------------------------------------------------------------
(* kmalloc and kfree.                                                       *)

\* What MemoryInv does not say: the heap, and what it shares with bigblocks.
KmallocInv ==
    /\ HeapInv(Heap, live, heapPages)
    /\ \A p \in heapPages : <<p, 1>> \in held /\ \A g \in bigblocks : g.page # p
    /\ \A g \in bigblocks : <<g.bb, BigUnits>> \in live
    /\ \A f, g \in bigblocks : f # g => f.bb # g.bb

IsHeap(h) == h = [next |-> h.next, units |-> h.units, slobfree |-> h.slobfree]

\* SetHeap assigns every part of a heap.
LEMMA HeapIs ==
  /\ \A h : IsHeap(h) /\ SetHeap(h) => Heap' = h
  /\ \A h, b, n : IsHeap(slob_free(h, b, n)) /\ IsHeap(TakeBlock(h, b, n))
<1>1. ASSUME NEW h, IsHeap(h), SetHeap(h) PROVE Heap' = h
  BY <1>1 DEF IsHeap, SetHeap, Heap
<1>2. ASSUME NEW h, NEW b, NEW n PROVE IsHeap(slob_free(h, b, n))
  BY DEF IsHeap, slob_free
<1>3. ASSUME NEW h, NEW b, NEW n PROVE IsHeap(TakeBlock(h, b, n))
  BY DEF IsHeap, TakeBlock
<1> QED BY <1>1, <1>2, <1>3

\* A request that some block fits.
LEMMA FitTaken ==
  ASSUME NEW h, NEW L, NEW P, HeapInv(h, L, P), NEW n \in Nat, n > 1, Fitting(h, n) # {}
  PROVE  /\ HeapInv(TakeBlock(h, Fit(h, n), n), L \cup {<<Fit(h, n), n>>}, P)
         /\ \A l \in L : l[1] # Fit(h, n)
<1>1. PICK b : b = Fit(h, n)
  OBVIOUS
<1>2. HeapOk(h)
  BY DEF HeapInv
<1>3. b \in DOMAIN h.next /\ h.units[b] >= n
  BY <1>1, <1>2, FitIs
<1>4. b \in Addr /\ b # arena
  BY <1>2, <1>3 DEF HeapOk, Ordered
<1>5. Takes(h, TakeBlock(h, b, n), b, n)
  BY <1>2, <1>3, <1>4, SlobTakes
<1>6. HeapInv(TakeBlock(h, b, n), L \cup {<<b, n>>}, P) /\ \A l \in L : l[1] # b
  <2>1. n \in Nat \ {0}
    OBVIOUS
  <2> QED BY <1>4, <1>5, <2>1, TakeKeeps
<1> QED BY <1>1, <1>6

\* What slob_alloc hands out, from the heap or from the heap grown by a page.
Alloced(a, n) ==
    /\ IsHeap(a.heap)
    /\ HeapInv(a.heap, live \cup {<<a.block, n>>}, heapPages \cup a.grown)
    /\ \A l \in live : l[1] # a.block
    /\ \A p \in a.grown : \A c \in held : c[1] # p

\* slob_alloc hands out a block that is not in use, and takes no page in use.
LEMMA AllocsHeap ==
  ASSUME MemoryInv, KmallocInv, NEW n \in Nat, n > 1, n <= PageUnits, NEW a \in Allocs(n)
  PROVE  Alloced(a, n)
<1>1. PICK h : h = Heap /\ HeapInv(h, live, heapPages)
  BY DEF KmallocInv
<1>2. CASE Fitting(Heap, n) # {}
  <2>1. a.heap = TakeBlock(h, Fit(h, n), n) /\ a.block = Fit(h, n) /\ a.grown = {}
    BY <1>1, <1>2 DEF Allocs
  <2>2. /\ HeapInv(TakeBlock(h, Fit(h, n), n), live \cup {<<Fit(h, n), n>>}, heapPages)
        /\ \A l \in live : l[1] # Fit(h, n)
    BY <1>1, <1>2, FitTaken
  <2>3. heapPages \cup a.grown = heapPages
    BY <2>1
  <2> QED BY <2>1, <2>2, <2>3, HeapIs DEF Alloced
<1>3. CASE Fitting(Heap, n) = {}
  <2>1. PICK p \in IF Finds(Area, 1) THEN {Found(Area, 1)} ELSE {} :
           LET h1 == slob_free(Heap, PageBase(p), PageUnits)
           IN  a.heap = TakeBlock(h1, Fit(h1, n), n) /\ a.block = Fit(h1, n) /\ a.grown = {p}
    BY <1>3 DEF Allocs
  <2>2. PICK h1 : h1 = slob_free(h, PageBase(p), PageUnits)
    OBVIOUS
  <2>3. a.heap = TakeBlock(h1, Fit(h1, n), n) /\ a.block = Fit(h1, n) /\ a.grown = {p}
    BY <1>1, <2>1, <2>2
  <2>4. p \in Page /\ \A c \in held : c[1] # p
    <3>1. Finds(Area, 1) /\ p = Found(Area, 1) /\ AreaInv(Area, held, Usable)
      BY <2>1 DEF MemoryInv
    <3>2. Fits(Area, 1) # {}
      BY <3>1 DEF Finds
    <3>3. PICK b : b = <<p, 1>>
      OBVIOUS
    <3>4. /\ AreaInv(default_alloc_pages(Area, 1), held \cup {b}, Usable)
          /\ \A c \in held : c[1] # b[1]
      BY <3>1, <3>2, <3>3, AllocKeeps
    <3>5. b \in Page \X (Nat \ {0})
      BY <3>4 DEF AreaInv, HandedOut
    <3> QED BY <3>3, <3>4, <3>5
  <2>5. p \in Page \ heapPages
    <3>1. \A q \in heapPages : <<q, 1>> \in held
      BY DEF KmallocInv
    <3>2. \A q \in heapPages : <<q, 1>>[1] # p
      BY <2>4, <3>1
    <3> QED BY <2>4, <3>2
  <2>6. HeapOk(h) /\ Loose(h, PageBase(p), PageUnits)
    BY <1>1, <2>5, PageLoose DEF HeapInv
  <2>7. Gives(h, h1, PageBase(p), PageUnits)
    BY <2>2, <2>6, SlobFrees
  <2>8. HeapInv(h1, live, heapPages \cup {p})
    BY <1>1, <2>5, <2>7, GrowKeeps
  <2>9. Fitting(h1, n) # {}
    <3>1. PICK c \in DOMAIN h1.next : h1.units[c] >= PageUnits
      BY <2>7 DEF Gives
    <3>2. HeapOk(h1)
      BY <2>7 DEF Gives
    <3>3. h1.units[c] \in Nat /\ PageUnits \in Nat
      BY <3>2, SlobAssumption DEF HeapOk, Ordered
    <3>4. h1.units[c] >= n
      BY <3>1, <3>3
    <3> QED BY <3>2, <3>4, FitIs
  <2>10. /\ HeapInv(TakeBlock(h1, Fit(h1, n), n), live \cup {<<Fit(h1, n), n>>}, heapPages \cup {p})
         /\ \A l \in live : l[1] # Fit(h1, n)
    BY <2>8, <2>9, FitTaken
  <2> QED BY <2>3, <2>4, <2>10, HeapIs DEF Alloced
<1> QED BY <1>2, <1>3

\* A small request keeps the invariant.
LEMMA SmallHeap ==
  ASSUME MemoryInv, KmallocInv, NEW u \in Sizes, kmalloc_small(u)
  PROVE  KmallocInv'
<1>1. PICK n : n = u + 1
  OBVIOUS
<1>2. n \in Nat /\ n > 1 /\ n <= PageUnits
  BY <1>1, SlobAssumption DEF kmalloc_small, FitsPage
<1>3. PICK a \in Allocs(n) : /\ SetHeap(a.heap)
                             /\ held' = held \cup {<<p, 1>> : p \in a.grown}
                             /\ heapPages' = heapPages \cup a.grown
                             /\ live' = live \cup {<<a.block, n>>}
  BY <1>1 DEF kmalloc_small
<1>4. bigblocks' = bigblocks
  BY DEF kmalloc_small
<1>5. Alloced(a, n)
  BY <1>2, AllocsHeap
<1>6. Heap' = a.heap
  BY <1>3, <1>5, HeapIs DEF Alloced
<1>7. HeapInv(Heap', live', heapPages')
  BY <1>3, <1>5, <1>6 DEF Alloced
<1>8. \A p \in a.grown : \A g \in bigblocks : g.page # p
  <2> TAKE p \in a.grown
  <2> TAKE g \in bigblocks
  <2>1. <<g.page, 2^g.order>> \in held
    BY DEF MemoryInv, LargeHeld, Large
  <2>2. <<g.page, 2^g.order>>[1] # p
    BY <1>5, <2>1 DEF Alloced
  <2> QED BY <2>2
<1>9. \A p \in heapPages' : <<p, 1>> \in held' /\ \A g \in bigblocks' : g.page # p
  BY <1>3, <1>4, <1>8 DEF KmallocInv
<1>10. \A g \in bigblocks' : <<g.bb, BigUnits>> \in live'
  BY <1>3, <1>4 DEF KmallocInv
<1>11. \A f, g \in bigblocks' : f # g => f.bb # g.bb
  BY <1>4 DEF KmallocInv
<1> QED BY <1>7, <1>9, <1>10, <1>11 DEF KmallocInv

\* So does a large one, whether there are pages for it or not.
LEMMA LargeHeap ==
  ASSUME MemoryInv, KmallocInv, NEW u, kmalloc_large(u)
  PROVE  KmallocInv'
<1>1. PICK a, n, page, order :
          /\ a \in Allocs(BigUnits) /\ n = 2^order /\ page = Found(a.area, n)
          /\ heapPages' = heapPages \cup a.grown
          /\ \/ /\ Finds(a.area, n) /\ SetHeap(a.heap)
                /\ held' = held \cup Ones(a.grown) \cup {<<page, n>>}
                /\ live' = live \cup {<<a.block, BigUnits>>}
                /\ bigblocks' = bigblocks \cup {[bb |-> a.block, page |-> page, order |-> order]}
             \/ /\ SetHeap(slob_free(a.heap, a.block, BigUnits))
                /\ held' = held \cup Ones(a.grown)
                /\ live' = live /\ bigblocks' = bigblocks
  BY DEF kmalloc_large, Ones
<1>2. Alloced(a, BigUnits)
  <2>1. BigUnits \in Nat /\ BigUnits > 1 /\ BigUnits <= PageUnits
    BY SlobAssumption DEF BigUnits
  <2> QED BY <1>1, <2>1, AllocsHeap
<1>3. \A p \in a.grown : \A g \in bigblocks : g.page # p
  <2> TAKE p \in a.grown
  <2> TAKE g \in bigblocks
  <2>1. <<g.page, 2^g.order>> \in held
    BY DEF MemoryInv, LargeHeld, Large
  <2>2. <<g.page, 2^g.order>>[1] # p
    BY <1>2, <2>1 DEF Alloced
  <2> QED BY <2>2
<1>4. PICK H : H = held \cup Ones(a.grown)
  OBVIOUS
<1>5. \A p \in heapPages' : <<p, 1>> \in H /\ \A g \in bigblocks : g.page # p
  BY <1>1, <1>3, <1>4 DEF KmallocInv, Ones
<1>6. CASE /\ Finds(a.area, n) /\ SetHeap(a.heap)
           /\ held' = held \cup Ones(a.grown) \cup {<<page, n>>}
           /\ live' = live \cup {<<a.block, BigUnits>>}
           /\ bigblocks' = bigblocks \cup {[bb |-> a.block, page |-> page, order |-> order]}
  <2>1. Heap' = a.heap
    BY <1>2, <1>6, HeapIs DEF Alloced
  <2>2. HeapInv(Heap', live', heapPages')
    BY <1>1, <1>2, <1>6, <2>1 DEF Alloced
  <2>3. PICK new : new = [bb |-> a.block, page |-> page, order |-> order]
    OBVIOUS
  <2>4. bigblocks' = bigblocks \cup {new} /\ new.bb = a.block /\ new.page = page
    BY <1>6, <2>3
  <2>5. \A p \in heapPages' : p # page
    <3>1. PICK b : b = <<page, n>>
      OBVIOUS
    <3>2. n \in Nat \ {0} /\ Fits(a.area, n) # {}
      <4>1. n \in 1 .. a.area.nrFree /\ Fits(a.area, n) # {}
        BY <1>6 DEF Finds
      <4> QED BY <4>1
    <3>3. AreaInv(a.area, H, Usable)
      <4>1. AreaInv(Area, held, Usable)
        BY DEF MemoryInv
      <4> QED BY <1>1, <1>4, <4>1, AllocsKeep
    <3>4. \A c \in H : c[1] # b[1]
      BY <1>1, <3>1, <3>2, <3>3, AllocKeeps
    <3>5. \A p \in heapPages' : <<p, 1>>[1] # b[1]
      BY <1>5, <3>4
    <3> QED BY <3>1, <3>5
  <2>6. \A p \in heapPages' : <<p, 1>> \in held' /\ \A g \in bigblocks' : g.page # p
    BY <1>4, <1>5, <1>6, <2>4, <2>5
  <2>7. \A g \in bigblocks' : <<g.bb, BigUnits>> \in live'
    BY <1>6, <2>4 DEF KmallocInv
  <2>8. \A g \in bigblocks : g.bb # a.block
    <3>1. \A g \in bigblocks : <<g.bb, BigUnits>>[1] # a.block
      BY <1>2 DEF Alloced, KmallocInv
    <3> QED BY <3>1
  <2>9. \A f, g \in bigblocks' : f # g => f.bb # g.bb
    BY <2>4, <2>8 DEF KmallocInv
  <2> QED BY <2>2, <2>6, <2>7, <2>9 DEF KmallocInv
<1>7. CASE /\ SetHeap(slob_free(a.heap, a.block, BigUnits))
           /\ held' = held \cup Ones(a.grown)
           /\ live' = live /\ bigblocks' = bigblocks
  <2>1. PICK h, h2, L, l : /\ h = a.heap /\ h2 = slob_free(a.heap, a.block, BigUnits)
                           /\ l = <<a.block, BigUnits>> /\ L = live \cup {l}
    OBVIOUS
  <2>2. HeapInv(h, L, heapPages') /\ l \in L /\ l[1] = a.block /\ l[2] = BigUnits
    BY <1>1, <1>2, <2>1 DEF Alloced
  <2>3. Heap' = h2
    BY <1>7, <2>1, HeapIs
  <2>4. Gives(h, h2, l[1], l[2])
    <3>1. HeapOk(h) /\ Loose(h, l[1], l[2])
      BY <2>2, BlockLoose DEF HeapInv
    <3> QED BY <2>1, <2>2, <3>1, SlobFrees
  <2>5. HeapInv(h2, {k \in L : k[1] # l[1]}, heapPages')
    BY <2>2, <2>4, GiveKeeps
  <2>6. {k \in L : k[1] # l[1]} = live
    BY <1>2, <2>1, <2>2 DEF Alloced
  <2>7. HeapInv(Heap', live', heapPages')
    BY <1>7, <2>3, <2>5, <2>6
  <2>8. \A p \in heapPages' : <<p, 1>> \in held' /\ \A g \in bigblocks' : g.page # p
    BY <1>4, <1>5, <1>7
  <2> QED BY <1>7, <2>7, <2>8 DEF KmallocInv
<1> QED BY <1>1, <1>6, <1>7

\* So does kfree, of a small block and of a large object.
LEMMA KfreeHeap ==
  ASSUME MemoryInv, KmallocInv, NEW a, kfree(a)
  PROVE  KmallocInv'
<1>1. PICK h : h = Heap /\ HeapInv(h, live, heapPages)
  BY DEF KmallocInv
<1>2. ASSUME NEW l \in live, NEW h2, h2 = slob_free(h, l[1], l[2]), SetHeap(h2),
             live' = {k \in live : k[1] # l[1]}, heapPages' = heapPages
      PROVE  HeapInv(Heap', live', heapPages')
  <2>1. HeapOk(h) /\ Loose(h, l[1], l[2])
    BY <1>1, BlockLoose DEF HeapInv
  <2>2. Gives(h, h2, l[1], l[2])
    BY <1>2, <2>1, SlobFrees
  <2>3. HeapInv(h2, {k \in live : k[1] # l[1]}, heapPages)
    BY <1>1, <2>2, GiveKeeps
  <2>4. Heap' = h2
    BY <1>2, HeapIs
  <2> QED BY <1>2, <2>3, <2>4
<1>3. ASSUME NEW g \in bigblocks, kfree_large(g) PROVE KmallocInv'
  <2>1. PICK l, h2 : l = <<g.bb, BigUnits>> /\ h2 = slob_free(h, l[1], l[2])
    OBVIOUS
  <2>2. l \in live /\ l[1] = g.bb /\ l[2] = BigUnits
    BY <2>1 DEF KmallocInv
  <2>3. /\ SetHeap(h2) /\ held' = held \ {<<g.page, 2^g.order>>}
        /\ live' = {k \in live : k[1] # g.bb} /\ bigblocks' = bigblocks \ {g}
        /\ heapPages' = heapPages
    BY <1>1, <1>3, <2>1, <2>2 DEF kfree_large
  <2>4. HeapInv(Heap', live', heapPages')
    BY <1>2, <2>1, <2>2, <2>3
  <2>5. ASSUME NEW p \in heapPages' PROVE <<p, 1>> \in held' /\ \A f \in bigblocks' : f.page # p
    <3>1. <<p, 1>> \in held /\ \A f \in bigblocks : f.page # p
      BY <2>3 DEF KmallocInv
    <3>2. <<p, 1>> # <<g.page, 2^g.order>>
      BY <3>1
    <3> QED BY <2>3, <3>1, <3>2
  <2>6. ASSUME NEW f \in bigblocks' PROVE <<f.bb, BigUnits>> \in live'
    <3>1. f \in bigblocks /\ f # g
      BY <2>3
    <3>2. f.bb # g.bb /\ <<f.bb, BigUnits>> \in live
      BY <3>1 DEF KmallocInv
    <3>3. <<f.bb, BigUnits>>[1] # g.bb
      BY <3>2
    <3> QED BY <2>3, <3>2, <3>3
  <2>7. \A e, f \in bigblocks' : e # f => e.bb # f.bb
    BY <2>3 DEF KmallocInv
  <2> QED BY <2>4, <2>5, <2>6, <2>7 DEF KmallocInv
<1>4. ASSUME {g \in bigblocks : PageBase(g.page) = a} = {}, kfree_small(a - 1) PROVE KmallocInv'
  <2>1. PICK l \in live : (\A g \in bigblocks : g.bb # l[1]) /\ a = l[1] + 1
    <3>1. a \notin {PageBase(g.page) : g \in bigblocks}
      BY <1>4
    <3> QED BY <3>1 DEF kfree, Pointers
  <2>2. l[1] \in Nat /\ a - 1 = l[1] /\ h.units[l[1]] = l[2]
    BY <1>1, <2>1, BlockFacts DEF HeapInv
  <2>3. h.units = units
    BY <1>1 DEF Heap
  <2>4. PICK h2 : h2 = slob_free(h, l[1], l[2])
    OBVIOUS
  <2>5. /\ SetHeap(h2) /\ live' = {k \in live : k[1] # l[1]}
        /\ held' = held /\ heapPages' = heapPages /\ bigblocks' = bigblocks
    BY <1>1, <1>4, <2>2, <2>3, <2>4 DEF kfree_small, areaVars
  <2>6. HeapInv(Heap', live', heapPages')
    BY <1>2, <2>4, <2>5
  <2>7. ASSUME NEW g \in bigblocks' PROVE <<g.bb, BigUnits>> \in live'
    <3>1. <<g.bb, BigUnits>> \in live /\ g.bb # l[1]
      BY <2>1, <2>5 DEF KmallocInv
    <3>2. <<g.bb, BigUnits>>[1] # l[1]
      BY <3>1
    <3> QED BY <2>5, <3>1, <3>2
  <2> QED BY <2>5, <2>6, <2>7 DEF KmallocInv
<1> QED BY <1>3, <1>4 DEF kfree

\* The steps that leave the heap alone and take no page from it.
LEMMA OthersHeap ==
  ASSUME KmallocInv, UNCHANGED heapVars, \A p \in heapPages : <<p, 1>> \in held'
  PROVE  KmallocInv'
<1>1. Heap' = Heap /\ live' = live /\ heapPages' = heapPages /\ bigblocks' = bigblocks
  BY DEF heapVars, Heap
<1>2. HeapInv(Heap', live', heapPages')
  BY <1>1 DEF KmallocInv
<1>3. \A p \in heapPages' : <<p, 1>> \in held' /\ \A g \in bigblocks' : g.page # p
  BY <1>1 DEF KmallocInv
<1>4. /\ \A g \in bigblocks' : <<g.bb, BigUnits>> \in live'
      /\ \A f, g \in bigblocks' : f # g => f.bb # g.bb
  BY <1>1 DEF KmallocInv
<1> QED BY <1>2, <1>3, <1>4 DEF KmallocInv

\* It holds of the heap of arena alone.
LEMMA InitHeap ==
  ASSUME SlobInit
  PROVE  KmallocInv
<1>1. PICK h : h = Heap
  OBVIOUS
<1>2. /\ h.next = [b \in {arena} |-> arena] /\ h.slobfree = arena
      /\ h.units = [a \in Addr |-> IF a = arena THEN 1 ELSE 0]
      /\ live = {} /\ heapPages = {} /\ bigblocks = {}
  BY <1>1 DEF SlobInit, Heap
<1>3. arena = 0 /\ arena \in Addr /\ Addr \subseteq Nat
  BY AddrIs
<1>4. DOMAIN h.next = {arena} /\ h.next[arena] = arena /\ h.units[arena] = 1
      /\ h.next \in [{arena} -> {arena}] /\ h.units \in [Addr -> Nat]
  BY <1>2, <1>3
<1>5. HeapOk(h)
  <2>1. Ordered({arena}, h.next, h.units)
    BY <1>3, <1>4 DEF Ordered
  <2> QED BY <1>2, <1>4, <2>1 DEF HeapOk
<1>6. FreeOf(h) = {arena}
  <2>1. \A a : a \in FreeOf(h) <=> a \in Addr /\ arena <= a /\ a < arena + 1
    BY <1>4 DEF FreeOf, Free
  <2>2. \A a \in Nat : arena <= a /\ a < arena + 1 <=> a = arena
    BY <1>3
  <2>3. \A a : a \in FreeOf(h) <=> a = arena
    BY <1>3, <2>1, <2>2
  <2> QED BY <2>3
<1>7. InUse({}) = {} /\ HeapUnits({}) = {arena}
  BY <1>3 DEF InUse, HeapUnits
<1>8. HeapInv(h, {}, {})
  BY <1>5, <1>6, <1>7 DEF HeapInv
<1> QED BY <1>1, <1>2, <1>8 DEF KmallocInv

\* It is inductive, given the invariant of the page allocator.
LEMMA KmallocInductive ==
  /\ SlobInit => KmallocInv
  /\ MemoryInv /\ KmallocInv /\ [SlobNext]_vars => KmallocInv'
<1>1. SlobInit => KmallocInv
  BY InitHeap
<1>2. ASSUME MemoryInv, KmallocInv, SlobNext PROVE KmallocInv'
  <2>0. \A p \in heapPages : <<p, 1>> \in held
    BY <1>2 DEF KmallocInv
  <2>1. CASE Boot
    BY <1>2, <2>0, <2>1, OthersHeap DEF Boot, page_init
  <2>2. ASSUME NEW u \in Sizes, kmalloc_small(u) PROVE KmallocInv'
    BY <1>2, <2>2, SmallHeap
  <2>3. ASSUME NEW u \in Sizes, kmalloc_asserts(u) PROVE KmallocInv'
    BY <1>2, <2>0, <2>3, OthersHeap DEF kmalloc_asserts, areaVars
  <2>4. ASSUME NEW u \in Sizes, kmalloc_large(u) PROVE KmallocInv'
    BY <1>2, <2>4, LargeHeap
  <2>5. ASSUME NEW a \in Addr, kfree(a) PROVE KmallocInv'
    BY <1>2, <2>5, KfreeHeap
  <2>6. ASSUME NEW n \in Blocks, CallerAllocs(n) PROVE KmallocInv'
    BY <1>2, <2>0, <2>6, OthersHeap DEF CallerAllocs
  <2>7. ASSUME NEW b \in held, CallerFrees(b) PROVE KmallocInv'
    <3>1. b \in Others /\ held' = held \ {b} /\ UNCHANGED heapVars
      BY <2>7 DEF CallerFrees
    <3>2. \A p \in heapPages : <<p, 1>> \in held'
      BY <2>0, <3>1 DEF Others
    <3> QED BY <1>2, <3>1, <3>2, OthersHeap
  <2> QED BY <1>2, <2>1, <2>2, <2>3, <2>4, <2>5, <2>6, <2>7 DEF SlobNext, Call
<1>3. ASSUME KmallocInv, UNCHANGED vars PROVE KmallocInv'
  <2>1. UNCHANGED heapVars /\ held' = held
    BY <1>3 DEF vars, areaVars
  <2>2. \A p \in heapPages : <<p, 1>> \in held'
    BY <1>3, <2>1 DEF KmallocInv
  <2> QED BY <1>3, <2>1, <2>2, OthersHeap
<1> QED BY <1>1, <1>2, <1>3

(* The inductive invariant of kmalloc: the free blocks are linked in the     *)
(* order of their addresses with a gap after each, the blocks in use keep   *)
(* their lengths in their headers, and both have the units of the pages the *)
(* heap has grown by, which it holds.                                       *)
THEOREM HeapInvariant == Spec => []KmallocInv
BY MemoryInductive, KmallocInductive, PTL DEF Spec

(* Whatever is allocated and freed, a search of slob_alloc or slob_free     *)
(* meets the free blocks in the order of their addresses, and slob_free has *)
(* merged all that touch.                                                   *)
THEOREM HeapSorted == Spec => []RingSorted
<1>1. KmallocInv => RingSorted
  <2> SUFFICES ASSUME KmallocInv PROVE RingSorted
    OBVIOUS
  <2>1. PICK D : D = DOMAIN next /\ Ordered(D, next, units) /\ slobfree \in D
    BY DEF KmallocInv, HeapInv, HeapOk, Heap
  <2>2. D \subseteq Nat /\ arena = 0 /\ next \in [D -> D] /\ arena \in D
    BY <2>1, AddrIs DEF Ordered
  <2>3. ASSUME NEW b \in D, NEW above, above = {c \in D : c > b}
        PROVE  IF above = {} THEN next[b] = arena
               ELSE next[b] = Min(above) /\ b + units[b] < next[b]
    <3>1. \/ next[b] > b /\ \A c \in D : c > b => c >= next[b]
          \/ next[b] = arena /\ \A c \in D : c <= b
      BY <2>1 DEF Ordered
    <3>2. next[b] \in D /\ next[b] \in Nat /\ b \in Nat
      BY <2>2
    <3>3. CASE above = {}
      BY <2>3, <3>1, <3>2, <3>3
    <3>4. CASE above # {}
      <4>1. next[b] \in above /\ \A c \in above : c >= next[b]
        <5>1. next[b] > b /\ \A c \in D : c > b => c >= next[b]
          <6>1. PICK c \in D : c > b
            BY <2>3, <3>4
          <6>2. ~ (c <= b)
            BY <2>2, <3>2, <6>1
          <6> QED BY <3>1, <6>2
        <5> QED BY <2>3, <3>2, <5>1
      <4>2. Min(above) \in above /\ \A c \in above : Min(above) <= c
        <5>1. above \subseteq Nat
          BY <2>2, <2>3
        <5> QED BY <3>4, <5>1, MinIs
      <4>3. next[b] = Min(above)
        <5>1. Min(above) \in Nat /\ Min(above) <= next[b] /\ Min(above) >= next[b]
          BY <2>2, <2>3, <4>1, <4>2
        <5> QED BY <3>2, <5>1
      <4>4. b + units[b] < next[b]
        BY <2>1, <2>3, <4>1 DEF Ordered
      <4> QED BY <3>4, <4>3, <4>4
    <3> QED BY <3>3, <3>4
  <2> QED BY <2>1, <2>3 DEF RingSorted
<1> QED BY <1>1, HeapInvariant, PTL

(* kmalloc hands out no unit twice and kfree gives back every unit of a      *)
(* block, header included: each unit of the pages of the heap is free or in *)
(* one block in use.  A large object has a bigblock and pages of its own,   *)
(* and a page of the heap is never one of them.                             *)
THEOREM UnitsHaveOneOwner == Spec => []UnitsPartitioned
<1>1. MemoryInv /\ KmallocInv => UnitsPartitioned
  <2> SUFFICES ASSUME MemoryInv, KmallocInv PROVE UnitsPartitioned
    OBVIOUS
  <2>1. PICK h : h = Heap /\ HeapInv(h, live, heapPages)
    BY DEF KmallocInv
  <2>2. h.next = next /\ h.units = units
    BY <2>1 DEF Heap
  <2>3. PICK D : D = DOMAIN next /\ Ordered(D, next, units)
    BY <2>1, <2>2 DEF HeapInv, HeapOk
  <2>4. ASSUME NEW b \in D
        PROVE  /\ b \in Nat /\ units[b] \in Nat /\ b + units[b] - 1 \in Addr
               /\ \A x : x \in Units(b, units[b]) <=> x \in Nat /\ b <= x /\ x < b + units[b]
    <3>1. b \in Nat /\ units[b] \in Nat /\ b + units[b] - 1 \in Addr
      BY <2>3, AddrIs DEF Ordered
    <3> QED BY <3>1 DEF Units
  <2>5. \A a, b \in D : a # b => Units(a, units[a]) \cap Units(b, units[b]) = {}
    <3> SUFFICES ASSUME NEW a \in D, NEW b \in D, a # b,
                        NEW x \in Units(a, units[a]), x \in Units(b, units[b])
                 PROVE  FALSE
      OBVIOUS
    <3>1. /\ x \in Nat /\ a <= x /\ x < a + units[a] /\ b <= x /\ x < b + units[b]
          /\ a \in Nat /\ b \in Nat /\ units[a] \in Nat /\ units[b] \in Nat
      BY <2>4
    <3>2. (a < b => a + units[a] < b) /\ (b < a => b + units[b] < a)
      BY <2>3 DEF Ordered
    <3> QED BY <3>1, <3>2
  <2>6. \A k, l \in live : k # l => Units(k[1], k[2]) \cap Units(l[1], l[2]) = {}
    BY <2>1 DEF HeapInv
  <2>7. PICK inUse, loose : /\ inUse = {Units(l[1], l[2]) : l \in live}
                            /\ loose = {Units(b, units[b]) : b \in D}
    OBVIOUS
  <2>8. UNION inUse = InUse(live)
    <3>1. \A l \in live : Units(l[1], l[2]) \subseteq Addr
      BY <2>1 DEF HeapInv
    <3>2. \A x : x \in UNION inUse <=> \E l \in live : x \in Units(l[1], l[2])
      BY <2>7
    <3>3. \A x : x \in InUse(live) <=> x \in Addr /\ \E l \in live : x \in Units(l[1], l[2])
      BY DEF InUse
    <3> QED BY <3>1, <3>2, <3>3
  <2>9. UNION loose = FreeOf(h)
    <3>1. \A x : x \in UNION loose <=> \E b \in D : x \in Units(b, units[b])
      BY <2>7
    <3>2. \A x : x \in FreeOf(h) <=> x \in Addr /\ \E b \in D : b <= x /\ x < b + units[b]
      BY <2>2, <2>3 DEF FreeOf, Free
    <3>3. \A b \in D : \A x \in Units(b, units[b]) : x \in Addr
      <4> TAKE b \in D
      <4> TAKE x \in Units(b, units[b])
      <4>1. x \in Nat /\ x <= b + units[b] - 1
        BY <2>4
      <4> QED BY <2>4, <4>1, AddrIs
    <3>4. \A b \in D : \A x \in Addr : x \in Units(b, units[b]) <=> b <= x /\ x < b + units[b]
      BY <2>4, AddrIs
    <3> QED BY <3>1, <3>2, <3>3, <3>4
  <2>10. HeapUnits(heapPages) =
            {arena} \cup UNION {Units(PageBase(p), PageUnits) : p \in heapPages}
    <3>1. \A p \in heapPages : Units(PageBase(p), PageUnits) \subseteq Addr
      <4>1. heapPages \subseteq Page
        BY <2>1 DEF HeapInv
      <4> QED BY <4>1, PagesApart
    <3>2. \A x : x \in UNION {Units(PageBase(p), PageUnits) : p \in heapPages} <=>
                    \E p \in heapPages : x \in Units(PageBase(p), PageUnits)
      OBVIOUS
    <3>3. \A x : x \in HeapUnits(heapPages) <=>
                    x \in Addr /\ (x = arena \/ \E p \in heapPages : x \in Units(PageBase(p), PageUnits))
      BY DEF HeapUnits
    <3>4. arena \in Addr
      BY AddrIs
    <3> QED BY <3>1, <3>2, <3>3, <3>4
  <2>11. /\ (UNION inUse) \cap (UNION loose) = {}
         /\ (UNION inUse) \cup (UNION loose) =
               {arena} \cup UNION {Units(PageBase(p), PageUnits) : p \in heapPages}
    <3>1. FreeOf(h) \cap InUse(live) = {} /\ FreeOf(h) \cup InUse(live) = HeapUnits(heapPages)
      BY <2>1 DEF HeapInv
    <3>2. PICK F, I, H : F = FreeOf(h) /\ I = InUse(live) /\ H = HeapUnits(heapPages)
      OBVIOUS
    <3>3. F \cap I = {} /\ F \cup I = H
      BY <3>1, <3>2
    <3>4. UNION inUse = I /\ UNION loose = F
      BY <2>8, <2>9, <3>2
    <3>5. I \cap F = {} /\ I \cup F = H
      BY <3>3
    <3>6. (UNION inUse) \cup (UNION loose) = H
      BY <3>4, <3>5
    <3>7. H = {arena} \cup UNION {Units(PageBase(p), PageUnits) : p \in heapPages}
      BY <2>10, <3>2
    <3>8. (UNION inUse) \cap (UNION loose) = {}
      BY <3>4, <3>5
    <3> QED
      <4> HIDE DEF arena
      <4> QED BY <3>6, <3>7, <3>8, Zenon
  <2>12. /\ \A g \in bigblocks : <<g.bb, BigUnits>> \in live
         /\ \A f, g \in bigblocks : f # g => f.bb # g.bb
         /\ \A g \in bigblocks : g.page \notin heapPages
    BY DEF KmallocInv
  <2>13. Large \subseteq held /\ \A f, g \in bigblocks : f # g => f.page # g.page
    BY DEF MemoryInv, LargeHeld
  <2>14. \A b \in Large : b[1] \notin heapPages
    BY <2>12 DEF Large
  <2> QED BY <2>3, <2>5, <2>6, <2>7, <2>11, <2>12, <2>13, <2>14 DEF UnitsPartitioned
<1> QED BY <1>1, MemoryInvariant, HeapInvariant, PTL

-----------------------------------------------------------------------------
Number == 0 .. NFrame
Pte == [frame : Number, write : BOOLEAN]
Memory == [pgdir : Number, table : [Tables -> Number], pte : [UserPage -> Pte],
           areas : Seq(Vma)]

\* States in the middle of a call.
Midway == [pgdir : Number, table : [Tables -> Number], pte : [UserPage -> Pte],
           areas : Seq(Vma), free : SUBSET Frame, ref : [Frame -> Int],
           mem : [Frame -> Value], new : Number, ok : BOOLEAN]

\* What a memory descriptor has frames for.
Place == {<<"pgdir", 0>>} \cup ({"table"} \X Tables) \cup ({"page"} \X UserPage)

Names(m) == [i \in Place |-> IF i[1] = "pgdir" THEN m.pgdir
                             ELSE IF i[1] = "table" THEN m.table[i[2]]
                             ELSE m.pte[i[2]].frame]

\* The frames are those of others, the free ones and those in N.
Partition(others, fr, N) ==
    /\ others \subseteq Frame /\ fr \subseteq Frame /\ others \cap fr = {}
    /\ N \in [Place -> Number]
    /\ \A i \in Place : N[i] \notin fr /\ N[i] \notin others
    /\ \A i, j \in Place : N[i] = N[j] /\ N[i] # 0 => i = j
    /\ \A f \in Frame : f \in fr \/ f \in others \/ \E i \in Place : N[i] = f

(* Under the counts r, the pages of m lie in the areas in A, with their      *)
(* permission, and below a table; and no table is elsewhere.                 *)
Lies(m, r, A) ==
    /\ \A v \in UserPage : m.pte[v].frame = 0 => m.pte[v] = NoPte
    /\ \A v \in UserPage : m.pte[v].frame # 0 =>
        /\ r[m.pte[v].frame] = 1
        /\ m.table[TableOf(v)] # 0
        /\ \E a \in A : v \in a.pages /\ a.write = m.pte[v].write
    /\ \A t \in Tables : m.table[t] # 0 => \E a \in A : \E v \in a.pages : TableOf(v) = t

AreasOf(m) == {m.areas[i] : i \in DOMAIN m.areas}

Maps(m) == {Names(m)[i] : i \in Place} \ {0}
Stack(k) == IF k = 0 THEN {} ELSE {k, k + 1}
Owned(p) == Stack(kstack[p]) \cup Maps(mm[p])

VmTypeOK ==
    /\ status \in [User -> {"none", "live", "zombie"}]
    /\ kstack \in [User -> Number]
    /\ mm \in [User -> Memory]
    /\ free \subseteq Frame
    /\ ref \in [Frame -> Int]
    /\ mem \in [Frame -> Value]
    /\ stopped \in BOOLEAN

StacksInv ==
    \A p \in User :
        /\ status[p] = "none" <=> kstack[p] = 0
        /\ \A f \in Stack(kstack[p]) : f \in Frame /\ ref[f] = 0

MapsInv ==
    \A p \in User :
        /\ status[p] # "live" \/ mm[p].pgdir = 0 => mm[p] = NoMm
        /\ Lies(mm[p], ref, AreasOf(mm[p]))

OwnersInv ==
    /\ \A p \in User : \A i, j \in Place :
        Names(mm[p])[i] = Names(mm[p])[j] /\ Names(mm[p])[i] # 0 => i = j
    /\ \A p \in User : Stack(kstack[p]) \cap Maps(mm[p]) = {}
    /\ \A p, q \in User : p # q => Owned(p) \cap Owned(q) = {}
    /\ \A p \in User : Owned(p) \subseteq Frame \ free
    /\ \A f \in Frame : f \in free \/ \E p \in User : f \in Owned(p)
    /\ \A f \in free : ref[f] = 0

VmInv == VmTypeOK /\ StacksInv /\ MapsInv /\ OwnersInv

Sound(x, s) ==
    /\ s \in Midway
    /\ Partition(x.others, s.free, Names(s))
    /\ \A f \in x.others : s.ref[f] = x.ref[f] /\ s.mem[f] = x.mem[f]
    /\ \A f \in s.free : s.ref[f] = 0
    /\ Lies(s, s.ref, x.areas)

\* The contents of each page, or <<>>.
View(s) == [v \in UserPage |->
              IF s.pte[v].frame = 0 THEN <<>> ELSE <<s.mem[s.pte[v].frame]>>]

Same(s, t) == t.pgdir = s.pgdir /\ t.areas = s.areas /\ t.ok = s.ok

\* x, with frame n at hand besides.
Pending(x, n, s) == [others |-> x.others \cup {n}, ref |-> s.ref, mem |-> s.mem,
                     areas |-> x.areas]

Covers(A, v, write) == \E a \in A : v \in a.pages /\ a.write = write

AtDir == <<"pgdir", 0>>
AtTable(t) == <<"table", t>>
AtPage(v) == <<"page", v>>

LEMMA Bounds ==
  /\ NFrame \in Nat /\ Frame \subseteq Number /\ 0 \notin Frame /\ Number \subseteq Nat
  /\ Number \ {0} \subseteq Frame /\ 0 \in Number
  /\ UserPage \subseteq Nat /\ \A v \in UserPage : TableOf(v) \in Tables
  /\ Leftover \in Value /\ Image \in Value
  /\ NoPte \in Pte /\ NoPte.frame = 0 /\ NoPte.write = FALSE
BY VmAssumption DEF Frame, Number, UserPage, Tables, Value, NoPte, Pte

LEMMA ExceptIn ==
  ASSUME NEW S, NEW T, NEW f \in [S -> T], NEW i, NEW b \in T
  PROVE  [f EXCEPT ![i] = b] \in [S -> T]
OBVIOUS

LEMMA Places ==
  /\ AtDir \in Place
  /\ \A t \in Tables : AtTable(t) \in Place /\ AtTable(t) # AtDir
  /\ \A v \in UserPage : AtPage(v) \in Place /\ AtPage(v) # AtDir
  /\ \A t \in Tables, v \in UserPage : AtTable(t) # AtPage(v)
  /\ \A v, w \in UserPage : AtPage(v) = AtPage(w) => v = w
  /\ \A t, u \in Tables : AtTable(t) = AtTable(u) => t = u
  /\ \A i \in Place : \/ i = AtDir
                      \/ \E t \in Tables : i = AtTable(t)
                      \/ \E v \in UserPage : i = AtPage(v)
BY DEF Place, AtDir, AtTable, AtPage

LEMMA NamesAt ==
  ASSUME NEW m
  PROVE  /\ Names(m)[AtDir] = m.pgdir
         /\ \A t \in Tables : Names(m)[AtTable(t)] = m.table[t]
         /\ \A v \in UserPage : Names(m)[AtPage(v)] = m.pte[v].frame
<1>1. Names(m)[AtDir] = m.pgdir
  BY Places DEF Names, AtDir
<1>2. ASSUME NEW t \in Tables PROVE Names(m)[AtTable(t)] = m.table[t]
  <2>1. AtTable(t)[1] = "table" /\ AtTable(t)[2] = t /\ AtTable(t) \in Place
    BY Places DEF AtTable
  <2> QED BY <2>1 DEF Names
<1>3. ASSUME NEW v \in UserPage PROVE Names(m)[AtPage(v)] = m.pte[v].frame
  <2>1. AtPage(v)[1] = "page" /\ AtPage(v)[2] = v /\ AtPage(v) \in Place
    BY Places DEF AtPage
  <2> QED BY <2>1 DEF Names
<1> QED BY <1>1, <1>2, <1>3

\* t names frame b at place i, and the frames of m elsewhere.
Renames(m, t, i, b) ==
    /\ i \in Place /\ t.pgdir = IF AtDir = i THEN b ELSE m.pgdir
    /\ \A k \in Tables : t.table[k] = IF AtTable(k) = i THEN b ELSE m.table[k]
    /\ \A v \in UserPage : t.pte[v].frame = IF AtPage(v) = i THEN b ELSE m.pte[v].frame

LEMMA NamesSame ==
  ASSUME NEW m, NEW t, NEW i, NEW b, Renames(m, t, i, b)
  PROVE  Names(t) = [Names(m) EXCEPT ![i] = b]
<1>1. ASSUME NEW j \in Place PROVE Names(t)[j] = IF j = i THEN b ELSE Names(m)[j]
  BY Places, NamesAt DEF Renames
<1>2. Names(t) = [j \in Place |-> Names(t)[j]] /\ Names(m) = [j \in Place |-> Names(m)[j]]
  BY DEF Names
<1> QED BY <1>1, <1>2

\* A frame at hand is put at a place that has none.
LEMMA PartitionPuts ==
  ASSUME NEW others, NEW fr, NEW N, NEW n, n \notin others,
         Partition(others \cup {n}, fr, N),
         NEW i \in Place, N[i] = 0, NEW M, M = [N EXCEPT ![i] = n]
  PROVE  Partition(others, fr, M)
<1>1. n \in Frame /\ n # 0 /\ n \in Number
  BY Bounds DEF Partition
<1>2. M \in [Place -> Number] /\ M[i] = n /\ \A j \in Place \ {i} : M[j] = N[j]
  BY <1>1 DEF Partition
<1>3. \A j \in Place : M[j] \notin fr /\ M[j] \notin others
  BY <1>2 DEF Partition
<1>4. \A j, k \in Place : M[j] = M[k] /\ M[j] # 0 => j = k
  BY <1>1, <1>2 DEF Partition
<1>5. ASSUME NEW f \in Frame PROVE f \in fr \/ f \in others \/ \E j \in Place : M[j] = f
  <2>1. CASE f = n
    BY <1>2, <2>1
  <2>2. CASE \E j \in Place : N[j] = f
    <3>1. PICK j \in Place : N[j] = f
      BY <2>2
    <3> QED BY <1>2, <3>1, Bounds
  <2> QED BY <2>1, <2>2 DEF Partition
<1> QED BY <1>1, <1>2, <1>3, <1>4, <1>5 DEF Partition

\* A free frame is taken, to be put somewhere.
LEMMA PartitionTakes ==
  ASSUME NEW others, NEW fr, NEW N, Partition(others, fr, N), NEW n \in fr
  PROVE  Partition(others \cup {n}, fr \ {n}, N) /\ n \notin others
BY DEF Partition

\* A place gives its frame back.
LEMMA PartitionDrops ==
  ASSUME NEW others, NEW fr, NEW N, Partition(others, fr, N),
         NEW i \in Place, N[i] # 0, NEW M, M = [N EXCEPT ![i] = 0]
  PROVE  Partition(others, fr \cup {N[i]}, M)
<1>1. N[i] \in Frame /\ 0 \in Number /\ 0 \notin Frame
  BY Bounds DEF Partition
<1>2. M \in [Place -> Number] /\ M[i] = 0 /\ \A j \in Place \ {i} : M[j] = N[j]
  BY <1>1 DEF Partition
<1>3. \A j \in Place : M[j] \notin fr \cup {N[i]} /\ M[j] \notin others
  BY <1>1, <1>2 DEF Partition
<1>4. \A j, k \in Place : M[j] = M[k] /\ M[j] # 0 => j = k
  BY <1>2 DEF Partition
<1>5. ASSUME NEW f \in Frame
      PROVE  f \in fr \cup {N[i]} \/ f \in others \/ \E j \in Place : M[j] = f
  <2>1. CASE \E j \in Place : N[j] = f
    <3>1. PICK j \in Place : N[j] = f
      BY <2>1
    <3> QED BY <1>2, <3>1
  <2> QED BY <2>1 DEF Partition
<1>6. fr \cup {N[i]} \subseteq Frame /\ others \cap (fr \cup {N[i]}) = {}
  BY <1>1 DEF Partition
<1> QED BY <1>2, <1>3, <1>4, <1>5, <1>6 DEF Partition

-----------------------------------------------------------------------------
(* Pages and page tables.                                                   *)

\* a is s with frame n no longer free.
FrameTaken(s, a, n) ==
    /\ a \in Midway /\ n \in s.free /\ a.new = n /\ a.free = s.free \ {n} /\ Same(s, a)
    /\ a.table = s.table /\ a.pte = s.pte /\ a.ref = s.ref /\ a.mem = s.mem

LEMMA AllocIs ==
  ASSUME NEW s \in Midway, s.ok, NEW a, a = alloc_page(s)
  PROVE  a \in Midway /\ (a.ok => FrameTaken(s, a, a.new))
<1>1. CASE s.free = {}
  <2>1. a = [s EXCEPT !.ok = FALSE]
    BY <1>1 DEF alloc_page
  <2> QED BY <2>1 DEF Midway
<1>2. CASE s.free # {}
  <2>1. PICK n : n = Min(s.free)
    OBVIOUS
  <2>2. s.free \subseteq Frame /\ s.free \subseteq Nat
    BY Bounds DEF Midway, Frame
  <2>3. n \in s.free
    BY <1>2, <2>1, <2>2, MinIs
  <2>4. a = [s EXCEPT !.free = @ \ {n}, !.new = n]
    BY <1>2, <2>1 DEF alloc_page
  <2>5. n \in Number
    BY <2>2, <2>3, Bounds
  <2>6. a \in Midway /\ a.new = n /\ a.free = s.free \ {n} /\ a.pgdir = s.pgdir
        /\ a.areas = s.areas /\ a.ok = s.ok
        /\ a.table = s.table /\ a.pte = s.pte /\ a.ref = s.ref /\ a.mem = s.mem
    BY <2>4, <2>5 DEF Midway
  <2> QED BY <2>3, <2>6 DEF FrameTaken, Same
<1> QED BY <1>1, <1>2

LEMMA SameNames ==
  ASSUME NEW s, NEW t, t.pgdir = s.pgdir, t.table = s.table, t.pte = s.pte
  PROVE  Names(t) = Names(s)
BY DEF Names

LEMMA SameLies ==
  ASSUME NEW s, NEW t, NEW r, NEW A, t.table = s.table, t.pte = s.pte, Lies(s, r, A)
  PROVE  Lies(t, r, A)
BY DEF Lies

LEMMA SameView ==
  ASSUME NEW s, NEW t, t.pte = s.pte, t.mem = s.mem
  PROVE  View(t) = View(s)
BY DEF View

LEMMA TakenSound ==
  ASSUME NEW x, NEW s, Sound(x, s), NEW a, NEW n, FrameTaken(s, a, n),
         NEW y, y = Pending(x, n, s)
  PROVE  Sound(y, a) /\ n \notin x.others /\ View(a) = View(s)
<1>1. Names(a) = Names(s) /\ View(a) = View(s) /\ Lies(a, a.ref, y.areas)
  BY SameNames, SameView, SameLies DEF FrameTaken, Same, Sound, Pending
<1>2. Partition(y.others, a.free, Names(a)) /\ n \notin x.others
  <2>1. y.others = x.others \cup {n} /\ a.free = s.free \ {n} /\ n \in s.free
    BY DEF Pending, FrameTaken
  <2>2. Partition(x.others, s.free, Names(s))
    BY DEF Sound
  <2> QED BY <1>1, <2>1, <2>2, PartitionTakes
<1>3. \A f \in y.others : a.ref[f] = y.ref[f] /\ a.mem[f] = y.mem[f]
  BY DEF Pending, FrameTaken
<1>4. \A f \in a.free : a.ref[f] = 0
  BY DEF Sound, FrameTaken
<1>5. a \in Midway
  BY DEF FrameTaken
<1> QED BY <1>1, <1>2, <1>3, <1>4, <1>5 DEF Sound

LEMMA FramesApart ==
  ASSUME NEW x, NEW s, Sound(x, s), NEW v \in UserPage, s.pte[v].frame # 0
  PROVE  /\ s.pte[v].frame \in Frame /\ s.pte[v].frame \notin x.others
         /\ s.pte[v].frame \notin s.free
         /\ \A t \in Tables : s.table[t] # s.pte[v].frame
         /\ s.pgdir # s.pte[v].frame
         /\ \A w \in UserPage : s.pte[w].frame = s.pte[v].frame => w = v
<1>1. Partition(x.others, s.free, Names(s))
  BY DEF Sound
<1>2. Names(s)[AtPage(v)] = s.pte[v].frame /\ AtPage(v) \in Place
  BY NamesAt, Places
<1>3. s.pte[v].frame \in Number
  BY <1>1, <1>2 DEF Partition
<1>4. \A i \in Place : Names(s)[i] = s.pte[v].frame => i = AtPage(v)
  BY <1>1, <1>2 DEF Partition
<1>5. \A t \in Tables : s.table[t] # s.pte[v].frame
  BY <1>4, NamesAt, Places
<1>6. s.pgdir # s.pte[v].frame
  BY <1>4, NamesAt, Places
<1>7. \A w \in UserPage : s.pte[w].frame = s.pte[v].frame => w = v
  BY <1>4, NamesAt, Places
<1>8. s.pte[v].frame \notin x.others /\ s.pte[v].frame \notin s.free
  BY <1>1, <1>2 DEF Partition
<1> QED BY <1>3, <1>5, <1>6, <1>7, <1>8, Bounds

LEMMA TablesApart ==
  ASSUME NEW x, NEW s, Sound(x, s), NEW t \in Tables, s.table[t] # 0
  PROVE  /\ s.table[t] \in Frame /\ s.table[t] \notin x.others
         /\ s.table[t] \notin s.free
<1>1. Partition(x.others, s.free, Names(s))
  BY DEF Sound
<1>2. Names(s)[AtTable(t)] = s.table[t] /\ AtTable(t) \in Place
  BY NamesAt, Places
<1> QED BY <1>1, <1>2, Bounds DEF Partition

HasTable(x, s, t, v) ==
    /\ Sound(x, t) /\ t.table[TableOf(v)] # 0
    /\ Same(s, t) /\ t.pte = s.pte /\ View(t) = View(s)

LEMMA GetPteIs ==
  ASSUME NEW x, NEW s, Sound(x, s), s.ok, NEW v \in UserPage,
         \E a \in x.areas : v \in a.pages, NEW t, t = get_pte(s, v)
  PROVE  t \in Midway /\ (t.ok => HasTable(x, s, t, v))
<1>1. PICK k, b, n : k = TableOf(v) /\ b = alloc_page(s) /\ n = b.new
  OBVIOUS
<1>2. k \in Tables /\ s \in Midway
  BY <1>1, Bounds DEF Sound
<1>3. CASE s.table[k] # 0
  <2>1. t = s
    BY <1>1, <1>3 DEF get_pte
  <2> QED BY <1>1, <1>2, <1>3, <2>1 DEF HasTable, Same
<1>4. CASE s.table[k] = 0 /\ ~ b.ok
  <2>1. t = b
    BY <1>1, <1>4 DEF get_pte
  <2> QED BY <1>1, <1>2, <1>4, <2>1, AllocIs
<1>5. CASE s.table[k] = 0 /\ b.ok
  <2>1. t = [b EXCEPT !.table[k] = n, !.ref[n] = 1]
    BY <1>1, <1>5 DEF get_pte
  <2>2. FrameTaken(s, b, n)
    BY <1>1, <1>2, <1>5, AllocIs
  <2>3. PICK z : z = Pending(x, n, s)
    OBVIOUS
  <2>4. Sound(z, b) /\ n \notin x.others /\ View(b) = View(s)
    BY <2>2, <2>3, TakenSound
  <2>5. z.others = x.others \cup {n} /\ z.areas = x.areas
    BY <2>3 DEF Pending
  <2>6. b \in Midway /\ n \in Frame /\ n # 0 /\ n \in Number
    <3>1. b \in Midway /\ n \in s.free
      BY <2>2 DEF FrameTaken
    <3>2. s.free \subseteq Frame
      BY <1>2 DEF Midway
    <3> QED BY <3>1, <3>2, Bounds
  <2>7. /\ t \in Midway /\ t.table = [b.table EXCEPT ![k] = n]
        /\ t.ref = [b.ref EXCEPT ![n] = 1] /\ t.pte = b.pte /\ t.mem = b.mem
        /\ t.free = b.free /\ t.pgdir = b.pgdir /\ t.areas = b.areas /\ t.ok = b.ok
    <3>1. /\ t.table = [b.table EXCEPT ![k] = n] /\ t.ref = [b.ref EXCEPT ![n] = 1]
          /\ t.pte = b.pte /\ t.mem = b.mem
          /\ t.free = b.free /\ t.pgdir = b.pgdir /\ t.areas = b.areas /\ t.ok = b.ok
      BY <2>1, <2>6 DEF Midway
    <3>2. [b.table EXCEPT ![k] = n] \in [Tables -> Number]
          /\ [b.ref EXCEPT ![n] = 1] \in [Frame -> Int]
      <4>1. b.table \in [Tables -> Number] /\ b.ref \in [Frame -> Int]
        BY <2>6 DEF Midway
      <4>2. [b.table EXCEPT ![k] = n] \in [Tables -> Number]
        BY <2>6, <4>1, ExceptIn
      <4>3. [b.ref EXCEPT ![n] = 1] \in [Frame -> Int]
        BY <4>1, ExceptIn
      <4> QED BY <4>2, <4>3
    <3>3. t \in Midway
      BY <2>1, <2>6, <3>2 DEF Midway
    <3> QED BY <3>1, <3>3
  <2>8. View(t) = View(s)
    BY <2>4, <2>7, SameView
  <2>9. Names(t) = [Names(b) EXCEPT ![AtTable(k)] = n]
    <3>1. t.table[k] = n /\ \A j \in Tables \ {k} : t.table[j] = b.table[j]
      BY <1>2, <2>6, <2>7 DEF Midway
    <3>2. \A j \in Tables : t.table[j] = IF AtTable(j) = AtTable(k) THEN n ELSE b.table[j]
      BY <1>2, <3>1, Places
    <3>3. \A w \in UserPage :
            t.pte[w].frame = IF AtPage(w) = AtTable(k) THEN n ELSE b.pte[w].frame
      BY <1>2, <2>7, Places
    <3>4. AtTable(k) \in Place /\ AtTable(k) # AtDir
      BY <1>2, Places
    <3>5. t.pgdir = b.pgdir
      BY <2>7
    <3>6. Renames(b, t, AtTable(k), n)
      BY <3>2, <3>3, <3>4, <3>5, Places DEF Renames
    <3> QED BY <3>6, NamesSame
  <2>10. Partition(x.others, t.free, Names(t))
    <3>1. Partition(x.others \cup {n}, b.free, Names(b))
      BY <2>4, <2>5 DEF Sound
    <3>2. Names(b)[AtTable(k)] = 0 /\ AtTable(k) \in Place
      BY <1>2, <1>5, <2>2, NamesAt, Places DEF FrameTaken
    <3> QED BY <2>4, <2>7, <2>9, <3>1, <3>2, PartitionPuts
  <2>11. \A f \in Frame \ {n} : t.ref[f] = b.ref[f]
    BY <2>6, <2>7 DEF Midway
  <2>12. \A f \in x.others : t.ref[f] = x.ref[f] /\ t.mem[f] = x.mem[f]
    <3>1. x.others \subseteq Frame
      BY DEF Sound, Partition
    <3> QED BY <2>2, <2>4, <2>7, <2>11, <3>1 DEF Sound, FrameTaken
  <2>13. \A f \in t.free : t.ref[f] = 0
    <3>1. b.free \subseteq Frame \ {n}
      BY <2>2, <2>6 DEF FrameTaken, Midway
    <3> QED BY <2>4, <2>7, <2>11, <3>1 DEF Sound
  <2>14. Lies(t, t.ref, x.areas)
    <3>1. Lies(b, b.ref, x.areas)
      BY <2>4, <2>5 DEF Sound
    <3>2. \A w \in UserPage : b.pte[w].frame # 0 => t.ref[b.pte[w].frame] = b.ref[b.pte[w].frame]
      <4>1. \A w \in UserPage : b.pte[w].frame # 0 =>
                b.pte[w].frame \in Frame /\ b.pte[w].frame \notin z.others
        BY <2>4, FramesApart
      <4> QED BY <2>5, <2>11, <4>1
    <3>3. \A j \in Tables : t.table[j] = IF j = k THEN n ELSE b.table[j]
      BY <1>2, <2>6, <2>7 DEF Midway
    <3>4. \A w \in UserPage : b.table[TableOf(w)] # 0 => t.table[TableOf(w)] # 0
      BY <2>6, <3>3, Bounds
    <3>5. \E a \in x.areas : \E w \in a.pages : TableOf(w) = k
      BY <1>1
    <3>6. ASSUME NEW j \in Tables, t.table[j] # 0
          PROVE  \E a \in x.areas : \E w \in a.pages : TableOf(w) = j
      BY <3>1, <3>3, <3>5, <3>6 DEF Lies
    <3> QED BY <2>7, <3>1, <3>2, <3>4, <3>6 DEF Lies
  <2>15. Sound(x, t)
    BY <2>7, <2>10, <2>12, <2>13, <2>14 DEF Sound
  <2>16. t.table[k] # 0 /\ t.pte = s.pte /\ Same(s, t)
    BY <1>2, <2>2, <2>6, <2>7 DEF Midway, Same, FrameTaken
  <2> QED BY <1>1, <2>7, <2>8, <2>15, <2>16 DEF HasTable
<1> QED BY <1>3, <1>4, <1>5

Freed(s, t, f) ==
    /\ t \in Midway /\ t.free = s.free \cup {f} /\ t.ref = [s.ref EXCEPT ![f] = 0]
    /\ t.mem = [s.mem EXCEPT ![f] = Leftover] /\ Same(s, t)

\* What free_page does besides a change of table or pte.
LEMMA FreePageIs ==
  ASSUME NEW s \in Midway, NEW f \in Frame, NEW t, t = free_page(s, f)
  PROVE  Freed(s, t, f) /\ t.table = s.table /\ t.pte = s.pte
<1>1. s.free \cup {f} \in SUBSET Frame /\ [s.ref EXCEPT ![f] = 0] \in [Frame -> Int]
      /\ [s.mem EXCEPT ![f] = Leftover] \in [Frame -> Value]
  <2>1. s.free \in SUBSET Frame /\ s.ref \in [Frame -> Int] /\ s.mem \in [Frame -> Value]
    BY DEF Midway
  <2> QED BY <2>1, Bounds
<1>2. t = [s EXCEPT !.free = s.free \cup {f}, !.ref = [s.ref EXCEPT ![f] = 0],
                    !.mem = [s.mem EXCEPT ![f] = Leftover]]
  BY DEF free_page
<1>3. t \in Midway
  BY <1>1, <1>2 DEF Midway
<1>4. /\ t.free = s.free \cup {f} /\ t.ref = [s.ref EXCEPT ![f] = 0]
      /\ t.mem = [s.mem EXCEPT ![f] = Leftover] /\ t.pgdir = s.pgdir /\ t.areas = s.areas
      /\ t.ok = s.ok /\ t.table = s.table /\ t.pte = s.pte
  BY <1>2 DEF Midway
<1> QED BY <1>3, <1>4 DEF Freed, Same

LEMMA FreedFacts ==
  ASSUME NEW x, NEW s, Sound(x, s), NEW f \in Frame, f \notin x.others, NEW t,
         Freed(s, t, f)
  PROVE  /\ \A g \in x.others : t.ref[g] = x.ref[g] /\ t.mem[g] = x.mem[g]
         /\ \A g \in t.free : t.ref[g] = 0
         /\ \A g \in Frame \ {f} : t.ref[g] = s.ref[g] /\ t.mem[g] = s.mem[g]
<1>1. s.ref \in [Frame -> Int] /\ s.mem \in [Frame -> Value] /\ s.free \subseteq Frame
  BY DEF Sound, Midway
<1>2. \A g \in Frame \ {f} : t.ref[g] = s.ref[g] /\ t.mem[g] = s.mem[g]
  BY <1>1 DEF Freed
<1>3. t.ref[f] = 0 /\ t.free = s.free \cup {f}
  BY <1>1 DEF Freed
<1>4. x.others \subseteq Frame
  BY DEF Sound, Partition
<1> QED BY <1>1, <1>2, <1>3, <1>4 DEF Sound

Unmapped(x, s, t, v) ==
    /\ Sound(x, t) /\ Same(s, t) /\ t.table = s.table
    /\ t.pte = [s.pte EXCEPT ![v] = NoPte] /\ View(t) = [View(s) EXCEPT ![v] = <<>>]

LEMMA ViewAt ==
  ASSUME NEW s, NEW v \in UserPage
  PROVE  View(s)[v] = IF s.pte[v].frame = 0 THEN <<>> ELSE <<s.mem[s.pte[v].frame]>>
BY DEF View

LEMMA ViewIs ==
  ASSUME NEW s, NEW t, NEW v \in UserPage, NEW c, View(t)[v] = c,
         \A w \in UserPage \ {v} : View(t)[w] = View(s)[w]
  PROVE  View(t) = [View(s) EXCEPT ![v] = c]
<1>1. View(t) = [w \in UserPage |-> View(t)[w]] /\ View(s) = [w \in UserPage |-> View(s)[w]]
  BY DEF View
<1> QED BY <1>1

LEMMA RemoveIs ==
  ASSUME NEW x, NEW s, Sound(x, s), NEW v \in UserPage, NEW t, t = page_remove_pte(s, v)
  PROVE  Unmapped(x, s, t, v)
<1>1. PICK f : f = s.pte[v].frame
  OBVIOUS
<1>2. s \in Midway /\ s.pte \in [UserPage -> Pte] /\ s.ref \in [Frame -> Int]
  BY DEF Sound, Midway
<1>3. CASE f = 0
  <2>1. t = s
    BY <1>1, <1>3 DEF page_remove_pte
  <2>2. s.pte[v] = NoPte /\ View(s)[v] = <<>>
    <3>1. Lies(s, s.ref, x.areas)
      BY DEF Sound
    <3>2. s.pte[v] = NoPte
      BY <1>1, <1>3, <3>1 DEF Lies
    <3>3. View(s)[v] = <<>>
      BY <1>1, <1>3, ViewAt
    <3> QED BY <3>2, <3>3
  <2>3. s.pte = [s.pte EXCEPT ![v] = NoPte]
    BY <1>2, <2>2
  <2>4. View(s) = [View(s) EXCEPT ![v] = <<>>]
    <3>1. PICK V : V = View(s)
      OBVIOUS
    <3>2. V = [w \in UserPage |-> V[w]]
      BY <3>1 DEF View
    <3>3. V = [V EXCEPT ![v] = <<>>]
      BY <2>2, <3>1, <3>2
    <3> QED BY <3>1, <3>3
  <2> QED BY <2>1, <2>3, <2>4 DEF Unmapped, Same
<1>4. CASE f # 0
  <2>1. f \in Frame /\ f \notin x.others /\ s.ref[f] = 1
    BY <1>1, <1>4, FramesApart DEF Sound, Lies
  <2>2. PICK r : r = [s EXCEPT !.ref[f] = @ - 1, !.pte[v] = NoPte]
    OBVIOUS
  <2>3. /\ r \in Midway /\ r.ref = [s.ref EXCEPT ![f] = 0]
        /\ r.pte = [s.pte EXCEPT ![v] = NoPte] /\ r.free = s.free /\ r.mem = s.mem
        /\ r.table = s.table /\ Same(s, r)
    <3>1. PICK g, q : g = [s.ref EXCEPT ![f] = 0] /\ q = [s.pte EXCEPT ![v] = NoPte]
      OBVIOUS
    <3>2. g \in [Frame -> Int] /\ q \in [UserPage -> Pte]
      <4>1. g \in [Frame -> Int]
        BY <1>2, <3>1, ExceptIn
      <4>2. q \in [UserPage -> Pte]
        BY <1>2, <3>1, Bounds, ExceptIn
      <4> QED BY <4>1, <4>2
    <3>3. r = [s EXCEPT !.ref = g, !.pte = q]
      BY <2>1, <2>2, <3>1
    <3>4. r \in Midway
      BY <1>2, <3>2, <3>3 DEF Midway
    <3>5. /\ r.ref = g /\ r.pte = q /\ r.free = s.free /\ r.mem = s.mem /\ r.table = s.table
          /\ r.pgdir = s.pgdir /\ r.areas = s.areas /\ r.ok = s.ok
      BY <1>2, <3>3 DEF Midway
    <3> QED BY <3>1, <3>4, <3>5 DEF Same
  <2>4. r.ref[f] = 0
    BY <1>2, <2>1, <2>3
  <2>5. t = free_page(r, f)
    BY <1>1, <1>4, <2>2, <2>4 DEF page_remove_pte
  <2>6. Freed(r, t, f) /\ t.table = r.table /\ t.pte = r.pte
    BY <2>1, <2>3, <2>5, FreePageIs
  <2>7. Freed(s, t, f) /\ Same(s, t)
    <3>1. [r.ref EXCEPT ![f] = 0] = [s.ref EXCEPT ![f] = 0]
      BY <1>2, <2>1, <2>3
    <3> QED BY <2>3, <2>6, <3>1 DEF Freed, Same
  <2>8. /\ \A g \in x.others : t.ref[g] = x.ref[g] /\ t.mem[g] = x.mem[g]
        /\ \A g \in t.free : t.ref[g] = 0
        /\ \A g \in Frame \ {f} : t.ref[g] = s.ref[g] /\ t.mem[g] = s.mem[g]
    BY <2>1, <2>7, FreedFacts
  <2>9. t.table = s.table /\ t.pte = [s.pte EXCEPT ![v] = NoPte]
    BY <2>3, <2>6
  <2>10. t.pte[v] = NoPte /\ \A w \in UserPage \ {v} : t.pte[w] = s.pte[w]
    BY <1>2, <2>9
  <2>11. Names(t) = [Names(s) EXCEPT ![AtPage(v)] = 0]
    <3>1. \A w \in UserPage :
            t.pte[w].frame = IF AtPage(w) = AtPage(v) THEN 0 ELSE s.pte[w].frame
      BY <2>10, Bounds, Places
    <3>2. \A j \in Tables : t.table[j] = IF AtTable(j) = AtPage(v) THEN 0 ELSE s.table[j]
      BY <2>9, Places
    <3>3. AtPage(v) \in Place /\ AtPage(v) # AtDir /\ t.pgdir = s.pgdir
      BY <2>7, Places DEF Same
    <3>4. Renames(s, t, AtPage(v), 0)
      BY <3>1, <3>2, <3>3, Places DEF Renames
    <3> QED BY <3>4, NamesSame
  <2>12. Partition(x.others, t.free, Names(t))
    <3>1. Names(s)[AtPage(v)] = f /\ AtPage(v) \in Place
      BY <1>1, NamesAt, Places
    <3>2. Partition(x.others, s.free, Names(s)) /\ t.free = s.free \cup {f}
      BY <2>7 DEF Sound, Freed
    <3>3. Names(s)[AtPage(v)] # 0
      BY <1>4, <3>1
    <3>4. Partition(x.others, s.free \cup {Names(s)[AtPage(v)]}, Names(t))
      BY <2>11, <3>1, <3>2, <3>3, PartitionDrops
    <3> QED BY <3>1, <3>2, <3>4
  <2>13. \A w \in UserPage \ {v} : s.pte[w].frame # 0 =>
            s.pte[w].frame \in Frame /\ s.pte[w].frame # f
    BY <1>1, FramesApart
  <2>14. Lies(t, t.ref, x.areas)
    <3>1. Lies(s, s.ref, x.areas)
      BY DEF Sound
    <3>2. \A w \in UserPage : t.pte[w].frame = 0 => t.pte[w] = NoPte
      BY <2>10, <3>1 DEF Lies
    <3>3. \A w \in UserPage : t.pte[w].frame # 0 =>
            w # v /\ s.pte[w].frame # 0 /\ t.pte[w] = s.pte[w]
              /\ t.ref[t.pte[w].frame] = s.ref[s.pte[w].frame]
      <4>1. NoPte.frame = 0
        BY Bounds
      <4> QED BY <2>8, <2>10, <2>13, <4>1
    <3> QED BY <2>9, <3>1, <3>2, <3>3 DEF Lies
  <2>15. Sound(x, t)
    BY <2>7, <2>8, <2>12, <2>14 DEF Sound, Freed
  <2>16. View(t) = [View(s) EXCEPT ![v] = <<>>]
    <3>1. View(t)[v] = <<>>
      BY <2>10, Bounds, ViewAt
    <3>2. \A w \in UserPage \ {v} : View(t)[w] = View(s)[w]
      <4> SUFFICES ASSUME NEW w \in UserPage \ {v} PROVE View(t)[w] = View(s)[w]
        OBVIOUS
      <4>1. t.pte[w] = s.pte[w]
        BY <2>10
      <4>2. s.pte[w].frame # 0 => t.mem[s.pte[w].frame] = s.mem[s.pte[w].frame]
        BY <2>8, <2>13
      <4>3. /\ View(t)[w] = IF t.pte[w].frame = 0 THEN <<>> ELSE <<t.mem[t.pte[w].frame]>>
            /\ View(s)[w] = IF s.pte[w].frame = 0 THEN <<>> ELSE <<s.mem[s.pte[w].frame]>>
        BY ViewAt
      <4> QED BY <4>1, <4>2, <4>3
    <3> QED BY <3>1, <3>2, ViewIs
  <2> QED BY <2>7, <2>9, <2>15, <2>16 DEF Unmapped
<1> QED BY <1>3, <1>4

Mapped(x, s, t, v, c) ==
    /\ Sound(x, t) /\ Same(s, t) /\ View(t) = [View(s) EXCEPT ![v] = <<c>>]

\* y is x with frame n, which has no reference yet, kept apart.
AtHand(x, y, n) ==
    /\ n \notin x.others /\ y.others = x.others \cup {n} /\ y.areas = x.areas
    /\ \A f \in x.others : y.ref[f] = x.ref[f] /\ y.mem[f] = x.mem[f]
    /\ y.ref[n] = 0

MapsPage(r, n, v, write, c, t) ==
    t = [r EXCEPT !.ref[n] = @ + 1, !.mem[n] = c, !.pte[v] = [frame |-> n, write |-> write]]

\* A frame at hand becomes page v.
LEMMA PageMapIs ==
  ASSUME NEW x, NEW r, NEW n, NEW y, AtHand(x, y, n), Sound(y, r),
         NEW v \in UserPage, NEW write \in BOOLEAN,
         r.pte[v] = NoPte, r.table[TableOf(v)] # 0, Covers(x.areas, v, write),
         NEW c \in Value, NEW t, MapsPage(r, n, v, write, c, t)
  PROVE  Mapped(x, r, t, v, c)
<1>1. r \in Midway /\ r.pte \in [UserPage -> Pte] /\ r.ref \in [Frame -> Int]
      /\ r.mem \in [Frame -> Value]
  BY DEF Sound, Midway
<1>0. /\ n \notin x.others /\ y.others = x.others \cup {n} /\ y.areas = x.areas
      /\ \A f \in x.others : y.ref[f] = x.ref[f] /\ y.mem[f] = x.mem[f]
      /\ y.ref[n] = 0
  BY DEF AtHand
<1>2. n \in Frame /\ n # 0 /\ n \in Number
  <2>1. n \in y.others /\ y.others \subseteq Frame
    BY <1>0 DEF Sound, Partition
  <2> QED BY <2>1, Bounds
<1>3. r.ref[n] = 0 /\ \A f \in x.others : r.ref[f] = x.ref[f] /\ r.mem[f] = x.mem[f]
  <2>1. \A f \in y.others : r.ref[f] = y.ref[f] /\ r.mem[f] = y.mem[f]
    BY DEF Sound
  <2> QED BY <1>0, <2>1
<1>4. PICK e : e = [frame |-> n, write |-> write]
  OBVIOUS
<1>5. e \in Pte /\ e.frame = n /\ e.write = write
  BY <1>2, <1>4 DEF Pte
<1>6. PICK g, h, q : /\ g = [r.ref EXCEPT ![n] = 1] /\ h = [r.mem EXCEPT ![n] = c]
                     /\ q = [r.pte EXCEPT ![v] = e]
  OBVIOUS
<1>7. g \in [Frame -> Int]
  BY <1>1, <1>6, ExceptIn
<1>8. h \in [Frame -> Value]
  BY <1>1, <1>6, ExceptIn
<1>9. q \in [UserPage -> Pte]
  BY <1>1, <1>5, <1>6, ExceptIn
<1>10. t = [r EXCEPT !.ref = g, !.mem = h, !.pte = q]
  BY <1>2, <1>3, <1>4, <1>6 DEF MapsPage
<1>11. t \in Midway
  BY <1>1, <1>7, <1>8, <1>9, <1>10 DEF Midway
<1>12. /\ t.ref = g /\ t.mem = h /\ t.pte = q /\ t.free = r.free /\ t.table = r.table
       /\ Same(r, t)
  BY <1>1, <1>10 DEF Midway, Same
<1>13. /\ t.ref[n] = 1 /\ \A f \in Frame \ {n} : t.ref[f] = r.ref[f]
  BY <1>1, <1>2, <1>6, <1>12
<1>14. /\ t.mem[n] = c /\ \A f \in Frame \ {n} : t.mem[f] = r.mem[f]
  BY <1>1, <1>2, <1>6, <1>12
<1>15. t.pte[v] = e /\ \A w \in UserPage \ {v} : t.pte[w] = r.pte[w]
  BY <1>1, <1>6, <1>12
<1>16. Names(t) = [Names(r) EXCEPT ![AtPage(v)] = n]
  <2>1. \A w \in UserPage :
          t.pte[w].frame = IF AtPage(w) = AtPage(v) THEN n ELSE r.pte[w].frame
    BY <1>5, <1>15, Places
  <2>2. \A j \in Tables : t.table[j] = IF AtTable(j) = AtPage(v) THEN n ELSE r.table[j]
    BY <1>12, Places
  <2>3. AtPage(v) \in Place /\ AtPage(v) # AtDir
    BY Places
  <2>4. t.pgdir = r.pgdir
    BY <1>12 DEF Same
  <2>5. Renames(r, t, AtPage(v), n)
    BY <2>1, <2>2, <2>3, <2>4, Places DEF Renames
  <2> QED BY <2>5, NamesSame
<1>17. Partition(x.others, t.free, Names(t))
  <2>1. Partition(x.others \cup {n}, r.free, Names(r))
    BY <1>0 DEF Sound
  <2>2. Names(r)[AtPage(v)] = 0 /\ AtPage(v) \in Place
    BY NamesAt, Places, Bounds
  <2>3. n \notin x.others /\ t.free = r.free
    BY <1>0, <1>12
  <2>4. Partition(x.others, r.free, Names(t))
    BY <1>16, <2>1, <2>2, <2>3, PartitionPuts
  <2> QED BY <2>3, <2>4
<1>18. r.free \subseteq Frame \ {n} /\ x.others \subseteq Frame \ {n}
  <2>1. y.others \subseteq Frame /\ r.free \subseteq Frame /\ y.others \cap r.free = {}
    BY DEF Sound, Partition
  <2> QED BY <1>0, <2>1
<1>19. \A f \in t.free : t.ref[f] = 0
  <2>1. \A f \in r.free : r.ref[f] = 0
    BY DEF Sound
  <2> QED BY <1>12, <1>13, <1>18, <2>1
<1>20. \A f \in x.others : t.ref[f] = x.ref[f] /\ t.mem[f] = x.mem[f]
  BY <1>3, <1>13, <1>14, <1>18
<1>21. \A w \in UserPage : r.pte[w].frame # 0 =>
          w # v /\ r.pte[w].frame \in Frame \ {n}
  <2>1. \A w \in UserPage : r.pte[w].frame # 0 =>
          r.pte[w].frame \in Frame /\ r.pte[w].frame \notin y.others
    BY FramesApart
  <2> QED BY <1>0, <2>1, Bounds
<1>22. Lies(t, t.ref, x.areas)
  <2>1. Lies(r, r.ref, x.areas)
    BY <1>0 DEF Sound
  <2>2. \A w \in UserPage : t.pte[w].frame = 0 => t.pte[w] = NoPte
    BY <1>2, <1>5, <1>15, <2>1 DEF Lies
  <2>3. ASSUME NEW w \in UserPage, t.pte[w].frame # 0
        PROVE  /\ t.ref[t.pte[w].frame] = 1
               /\ t.table[TableOf(w)] # 0
               /\ \E a \in x.areas : w \in a.pages /\ a.write = t.pte[w].write
    <3>1. CASE w = v
      BY <1>5, <1>12, <1>13, <1>15, <3>1 DEF Covers
    <3>2. CASE w # v
      <4>1. t.pte[w] = r.pte[w]
        BY <1>15, <3>2
      <4>2. t.ref[t.pte[w].frame] = r.ref[r.pte[w].frame]
        BY <1>13, <1>21, <2>3, <4>1
      <4> QED BY <1>12, <2>1, <2>3, <4>1, <4>2 DEF Lies
    <3> QED BY <3>1, <3>2
  <2> QED BY <1>12, <2>1, <2>2, <2>3 DEF Lies
<1>23. Sound(x, t)
  BY <1>11, <1>17, <1>19, <1>20, <1>22 DEF Sound
<1>24. View(t) = [View(r) EXCEPT ![v] = <<c>>]
  <2>1. View(t)[v] = <<c>>
    <3>1. t.pte[v].frame = n /\ t.mem[n] = c /\ n # 0
      BY <1>2, <1>5, <1>14, <1>15
    <3>2. View(t)[v] = IF t.pte[v].frame = 0 THEN <<>> ELSE <<t.mem[t.pte[v].frame]>>
      BY ViewAt
    <3> QED BY <3>1, <3>2
  <2>2. ASSUME NEW w \in UserPage \ {v} PROVE View(t)[w] = View(r)[w]
    <3>1. t.pte[w] = r.pte[w]
      BY <1>15
    <3>2. r.pte[w].frame # 0 => t.mem[r.pte[w].frame] = r.mem[r.pte[w].frame]
      BY <1>14, <1>21
    <3>3. View(t)[w] = IF t.pte[w].frame = 0 THEN <<>> ELSE <<t.mem[t.pte[w].frame]>>
      BY ViewAt
    <3>4. View(r)[w] = IF r.pte[w].frame = 0 THEN <<>> ELSE <<r.mem[r.pte[w].frame]>>
      BY ViewAt
    <3> QED BY <3>1, <3>2, <3>3, <3>4
  <2>3. PICK d : d = <<c>>
    OBVIOUS
  <2>4. View(t) = [View(r) EXCEPT ![v] = d]
    BY <2>1, <2>2, <2>3, ViewIs
  <2> QED BY <2>3, <2>4
<1> QED BY <1>12, <1>23, <1>24 DEF Mapped

LEMMA MapNewFails ==
  ASSUME NEW s, NEW v, NEW write, NEW c, NEW a, a = alloc_page(s), a \in Midway, ~ a.ok,
         NEW t, t = MapNew(s, v, write, c)
  PROVE  t \in Midway /\ ~ t.ok
<1>1. PICK b : b = get_pte(a, v)
  OBVIOUS
<1>2. b = a \/ b = alloc_page(a)
  BY <1>1 DEF get_pte, alloc_page
<1>3. alloc_page(a) = [a EXCEPT !.ok = FALSE]
  BY DEF alloc_page
<1>4. b \in Midway /\ ~ b.ok
  <2>1. [a EXCEPT !.ok = FALSE] \in Midway /\ ~ [a EXCEPT !.ok = FALSE].ok
    BY DEF Midway
  <2> QED BY <1>2, <1>3, <2>1
<1>5. t = b
  BY <1>1, <1>4 DEF MapNew
<1> QED BY <1>4, <1>5

LEMMA MapNewIs ==
  ASSUME NEW x, NEW s, Sound(x, s), s.ok, NEW v \in UserPage, NEW write \in BOOLEAN,
         Covers(x.areas, v, write), NEW c \in Value, NEW t, t = MapNew(s, v, write, c)
  PROVE  t \in Midway /\ (t.ok => Mapped(x, s, t, v, c))
<1>1. PICK a, n, b, r, y : /\ a = alloc_page(s) /\ n = a.new /\ b = get_pte(a, v)
                           /\ r = page_remove_pte(b, v) /\ y = Pending(x, n, s)
  OBVIOUS
<1>2. a \in Midway /\ (a.ok => FrameTaken(s, a, n))
  BY <1>1, AllocIs DEF Sound
<1>3. CASE ~ a.ok
  BY <1>1, <1>2, <1>3, MapNewFails
<1>4. CASE a.ok
  <2>1. Sound(y, a) /\ n \notin x.others /\ View(a) = View(s)
    BY <1>1, <1>2, <1>4, TakenSound
  <2>2. y.others = x.others \cup {n} /\ y.areas = x.areas /\ y.ref = s.ref /\ y.mem = s.mem
    BY <1>1 DEF Pending
  <2>3. \E area \in y.areas : v \in area.pages
    BY <2>2 DEF Covers
  <2>4. b \in Midway /\ (b.ok => HasTable(y, a, b, v))
    BY <1>1, <1>4, <2>1, <2>3, GetPteIs
  <2>5. CASE ~ b.ok
    <3>1. t = b
      BY <1>1, <2>5 DEF MapNew
    <3> QED BY <2>4, <2>5, <3>1
  <2>6. CASE b.ok
    <3>1. Sound(y, b) /\ b.table[TableOf(v)] # 0 /\ Same(a, b) /\ View(b) = View(a)
      BY <2>4, <2>6 DEF HasTable
    <3>2. Unmapped(y, b, r, v)
      BY <1>1, <3>1, RemoveIs
    <3>3. MapsPage(r, n, v, write, c, t)
      BY <1>1, <2>6 DEF MapNew, MapsPage
    <3>4. /\ Sound(y, r) /\ Same(b, r) /\ r.table[TableOf(v)] # 0
          /\ View(r) = [View(b) EXCEPT ![v] = <<>>]
      BY <3>1, <3>2 DEF Unmapped
    <3>5. r.pte[v] = NoPte
      <4>1. b.pte \in [UserPage -> Pte]
        BY <3>1 DEF Sound, Midway
      <4> QED BY <3>2, <4>1 DEF Unmapped
    <3>6. /\ \A f \in x.others : y.ref[f] = x.ref[f] /\ y.mem[f] = x.mem[f]
          /\ y.ref[n] = 0
      <4>1. n \in s.free
        BY <1>2, <1>4 DEF FrameTaken
      <4> QED BY <2>2, <4>1 DEF Sound
    <3>7. Mapped(x, r, t, v, c)
      <4>1. AtHand(x, y, n)
        BY <2>1, <2>2, <3>6 DEF AtHand
      <4> QED BY <3>3, <3>4, <3>5, <4>1, PageMapIs
    <3>8. Same(s, t)
      BY <1>2, <1>4, <3>1, <3>4, <3>7 DEF Same, Mapped, FrameTaken
    <3>9. View(t) = [View(s) EXCEPT ![v] = <<c>>]
      <4>1. PICK V : V = View(s)
        OBVIOUS
      <4>2. V = [w \in UserPage |-> V[w]]
        BY <4>1 DEF View
      <4>3. View(t) = [[V EXCEPT ![v] = <<>>] EXCEPT ![v] = <<c>>]
        BY <2>1, <3>1, <3>4, <3>7, <4>1 DEF Mapped
      <4>4. [[V EXCEPT ![v] = <<>>] EXCEPT ![v] = <<c>>] = [V EXCEPT ![v] = <<c>>]
        BY <4>2
      <4> QED BY <4>1, <4>3, <4>4
    <3>10. t \in Midway /\ Sound(x, t)
      BY <3>7 DEF Mapped, Sound
    <3> QED BY <3>8, <3>9, <3>10 DEF Mapped
  <2> QED BY <2>5, <2>6
<1> QED BY <1>3, <1>4

-----------------------------------------------------------------------------
(* What exit and exec take back.                                            *)

NoPages(s) == \A v \in UserPage : s.pte[v] = NoPte
NoTables(s) == \A t \in Tables : s.table[t] = 0

\* Without pages a descriptor lies where its tables are.
LEMMA LiesBare ==
  ASSUME NEW m, NEW r, NEW A, NoPages(m),
         \A t \in Tables : m.table[t] # 0 => \E a \in A : \E v \in a.pages : TableOf(v) = t
  PROVE  Lies(m, r, A)
<1>1. \A v \in UserPage : m.pte[v].frame = 0
  BY Bounds DEF NoPages
<1> QED BY <1>1 DEF Lies, NoPages

LEMMA ViewBare ==
  ASSUME NEW s, NoPages(s)
  PROVE  \A v \in UserPage : View(s)[v] = <<>>
<1> SUFFICES ASSUME NEW v \in UserPage PROVE View(s)[v] = <<>>
  OBVIOUS
<1>1. s.pte[v].frame = 0
  BY Bounds DEF NoPages
<1> QED BY <1>1, ViewAt

TableFreed(x, s, t, v) ==
    /\ Sound(x, t) /\ Same(s, t) /\ NoPages(t)
    /\ t.table = [s.table EXCEPT ![TableOf(v)] = 0]

LEMMA FreeTableIs ==
  ASSUME NEW x, NEW s, Sound(x, s), NoPages(s), NEW v \in UserPage, NEW t, t = FreeTable(s, v)
  PROVE  TableFreed(x, s, t, v)
<1>1. PICK k, f, r : k = TableOf(v) /\ f = s.table[k] /\ r = free_page(s, f)
  OBVIOUS
<1>2. k \in Tables /\ s \in Midway /\ s.table \in [Tables -> Number]
  BY <1>1, Bounds DEF Sound, Midway
<1>3. CASE f = 0
  <2>1. t = s
    BY <1>1, <1>3 DEF FreeTable
  <2>2. s.table = [s.table EXCEPT ![k] = 0]
    BY <1>1, <1>2, <1>3
  <2> QED BY <1>1, <2>1, <2>2 DEF TableFreed, Same
<1>4. CASE f # 0
  <2>1. f \in Frame /\ f \notin x.others
    BY <1>1, <1>2, <1>4, TablesApart
  <2>2. Freed(s, r, f) /\ r.table = s.table /\ r.pte = s.pte
    BY <1>1, <1>2, <2>1, FreePageIs
  <2>3. PICK g : g = [s.table EXCEPT ![k] = 0]
    OBVIOUS
  <2>4. g \in [Tables -> Number]
    BY <1>2, <2>3, Bounds, ExceptIn
  <2>5. t = [r EXCEPT !.table = g]
    BY <1>1, <1>4, <2>2, <2>3 DEF FreeTable
  <2>6. r \in Midway
    BY <2>2 DEF Freed
  <2>7. /\ t \in Midway /\ t.table = g /\ t.pte = s.pte /\ t.free = r.free /\ t.ref = r.ref
        /\ t.mem = r.mem /\ t.pgdir = r.pgdir /\ t.areas = r.areas /\ t.ok = r.ok
    BY <2>2, <2>4, <2>5, <2>6 DEF Midway
  <2>8. Freed(s, t, f)
    BY <2>2, <2>7 DEF Freed, Same
  <2>9. /\ \A h \in x.others : t.ref[h] = x.ref[h] /\ t.mem[h] = x.mem[h]
        /\ \A h \in t.free : t.ref[h] = 0
    BY <2>1, <2>8, FreedFacts
  <2>10. \A j \in Tables : t.table[j] = IF j = k THEN 0 ELSE s.table[j]
    BY <1>2, <2>3, <2>7
  <2>11. Names(t) = [Names(s) EXCEPT ![AtTable(k)] = 0]
    <3>1. \A w \in UserPage :
            t.pte[w].frame = IF AtPage(w) = AtTable(k) THEN 0 ELSE s.pte[w].frame
      BY <1>2, <2>7, Places
    <3>2. \A j \in Tables : t.table[j] = IF AtTable(j) = AtTable(k) THEN 0 ELSE s.table[j]
      BY <1>2, <2>10, Places
    <3>3. AtTable(k) \in Place /\ AtTable(k) # AtDir
      BY <1>2, Places
    <3>4. t.pgdir = s.pgdir
      BY <2>8 DEF Freed, Same
    <3>5. Renames(s, t, AtTable(k), 0)
      BY <3>1, <3>2, <3>3, <3>4, Places DEF Renames
    <3> QED BY <3>5, NamesSame
  <2>12. Partition(x.others, t.free, Names(t))
    <3>1. Names(s)[AtTable(k)] = f /\ AtTable(k) \in Place
      BY <1>1, <1>2, NamesAt, Places
    <3>2. Partition(x.others, s.free, Names(s)) /\ t.free = s.free \cup {f}
      BY <2>8 DEF Sound, Freed
    <3>3. Names(s)[AtTable(k)] # 0
      BY <1>4, <3>1
    <3>4. Partition(x.others, s.free \cup {Names(s)[AtTable(k)]}, Names(t))
      BY <2>11, <3>1, <3>2, <3>3, PartitionDrops
    <3> QED BY <3>1, <3>2, <3>4
  <2>13. NoPages(t)
    BY <2>7 DEF NoPages
  <2>14. Lies(t, t.ref, x.areas)
    <3>1. Lies(s, s.ref, x.areas)
      BY DEF Sound
    <3>2. \A j \in Tables : t.table[j] # 0 => s.table[j] # 0
      BY <2>10
    <3>3. \A j \in Tables : t.table[j] # 0 =>
            \E a \in x.areas : \E w \in a.pages : TableOf(w) = j
      BY <3>1, <3>2 DEF Lies
    <3> QED BY <2>13, <3>3, LiesBare
  <2>15. Sound(x, t)
    BY <2>7, <2>9, <2>12, <2>14 DEF Sound
  <2> QED BY <1>1, <2>3, <2>7, <2>8, <2>13, <2>15 DEF TableFreed, Freed
<1> QED BY <1>3, <1>4

\* A memory descriptor without frames.
Bare(s) == s.pgdir = 0 /\ NoTables(s) /\ NoPages(s)

LEMMA PutPgdirIs ==
  ASSUME NEW x, NEW s, Sound(x, s), NoPages(s), NoTables(s), s.pgdir # 0,
         NEW t, t = put_pgdir(s)
  PROVE  Sound(x, t) /\ Bare(t) /\ t.ok = s.ok
<1>1. PICK f, r : f = s.pgdir /\ r = free_page(s, f)
  OBVIOUS
<1>2. s \in Midway
  BY DEF Sound
<1>3. Names(s)[AtDir] = f /\ AtDir \in Place
  BY <1>1, NamesAt, Places
<1>4. Partition(x.others, s.free, Names(s))
  BY DEF Sound
<1>5. f \in Frame /\ f \notin x.others
  BY <1>1, <1>3, <1>4, Bounds DEF Partition
<1>6. Freed(s, r, f) /\ r.table = s.table /\ r.pte = s.pte
  BY <1>1, <1>2, <1>5, FreePageIs
<1>7. t = [r EXCEPT !.pgdir = 0]
  BY <1>1 DEF put_pgdir
<1>8. r \in Midway
  BY <1>6 DEF Freed
<1>9. /\ t \in Midway /\ t.table = s.table /\ t.pte = s.pte /\ t.free = r.free /\ t.ref = r.ref
      /\ t.mem = r.mem /\ t.pgdir = 0 /\ t.areas = r.areas /\ t.ok = r.ok
  BY <1>6, <1>7, <1>8, Bounds DEF Midway
<1>10. /\ \A h \in x.others : r.ref[h] = x.ref[h] /\ r.mem[h] = x.mem[h]
       /\ \A h \in r.free : r.ref[h] = 0
  BY <1>5, <1>6, FreedFacts
<1>11. Names(t) = [Names(s) EXCEPT ![AtDir] = 0]
  <2>1. \A w \in UserPage : t.pte[w].frame = IF AtPage(w) = AtDir THEN 0 ELSE s.pte[w].frame
    BY <1>9, Places
  <2>2. \A j \in Tables : t.table[j] = IF AtTable(j) = AtDir THEN 0 ELSE s.table[j]
    BY <1>9, Places
  <2>3. t.pgdir = 0
    BY <1>9
  <2>4. Renames(s, t, AtDir, 0)
    BY <1>3, <2>1, <2>2, <2>3, Places DEF Renames
  <2> QED BY <2>4, NamesSame
<1>12. Partition(x.others, t.free, Names(t))
  <2>1. Names(s)[AtDir] # 0
    BY <1>1, <1>3
  <2>2. Partition(x.others, s.free \cup {Names(s)[AtDir]}, Names(t))
    BY <1>3, <1>4, <1>11, <2>1, PartitionDrops
  <2>3. t.free = s.free \cup {f}
    BY <1>6, <1>9 DEF Freed
  <2> QED BY <1>3, <2>2, <2>3
<1>13. NoPages(t) /\ NoTables(t)
  BY <1>9 DEF NoPages, NoTables
<1>14. Lies(t, t.ref, x.areas)
  BY <1>13, LiesBare DEF NoTables
<1>15. Sound(x, t)
  BY <1>9, <1>10, <1>12, <1>14 DEF Sound
<1>16. t.ok = s.ok
  BY <1>6, <1>9 DEF Freed, Same
<1> QED BY <1>9, <1>13, <1>15, <1>16 DEF Bare

LEMMA SetupPgdirIs ==
  ASSUME NEW x, NEW s, Sound(x, s), Bare(s), s.ok, NEW t, t = setup_pgdir(s)
  PROVE  t \in Midway /\ (t.ok => /\ Sound(x, t) /\ t.pgdir # 0 /\ NoPages(t)
                                  /\ t.areas = s.areas)
<1>1. PICK a, n, y : a = alloc_page(s) /\ n = a.new /\ y = Pending(x, n, s)
  OBVIOUS
<1>2. a \in Midway /\ (a.ok => FrameTaken(s, a, n))
  BY <1>1, AllocIs DEF Sound
<1>3. CASE ~ a.ok
  BY <1>1, <1>2, <1>3 DEF setup_pgdir
<1>4. CASE a.ok
  <2>1. Sound(y, a) /\ n \notin x.others
    BY <1>1, <1>2, <1>4, TakenSound
  <2>2. y.others = x.others \cup {n} /\ y.areas = x.areas /\ y.ref = s.ref /\ y.mem = s.mem
    BY <1>1 DEF Pending
  <2>3. t = [a EXCEPT !.pgdir = n]
    BY <1>1, <1>4 DEF setup_pgdir
  <2>4. n \in Frame /\ n \in Number /\ n # 0
    <3>1. y.others \subseteq Frame
      BY <2>1 DEF Sound, Partition
    <3> QED BY <2>2, <3>1, Bounds
  <2>5. /\ t \in Midway /\ t.table = s.table /\ t.pte = s.pte /\ t.free = a.free
        /\ t.ref = s.ref /\ t.mem = s.mem /\ t.pgdir = n /\ t.areas = s.areas
    BY <1>2, <1>4, <2>3, <2>4 DEF Midway, FrameTaken, Same
  <2>6. a.pgdir = s.pgdir /\ a.table = s.table /\ a.pte = s.pte
    BY <1>2, <1>4 DEF FrameTaken, Same
  <2>7. Names(t) = [Names(a) EXCEPT ![AtDir] = n]
    <3>1. \A w \in UserPage : t.pte[w].frame = IF AtPage(w) = AtDir THEN n ELSE a.pte[w].frame
      BY <2>5, <2>6, Places
    <3>2. \A j \in Tables : t.table[j] = IF AtTable(j) = AtDir THEN n ELSE a.table[j]
      BY <2>5, <2>6, Places
    <3>3. t.pgdir = n /\ AtDir \in Place
      BY <2>5, Places
    <3>4. Renames(a, t, AtDir, n)
      BY <3>1, <3>2, <3>3, Places DEF Renames
    <3> QED BY <3>4, NamesSame
  <2>8. Partition(x.others, t.free, Names(t))
    <3>1. Partition(x.others \cup {n}, a.free, Names(a))
      BY <2>1, <2>2 DEF Sound
    <3>2. Names(a)[AtDir] = 0 /\ AtDir \in Place
      BY <2>6, NamesAt, Places DEF Bare
    <3>3. Partition(x.others, a.free, Names(t))
      BY <2>1, <2>7, <3>1, <3>2, PartitionPuts
    <3> QED BY <2>5, <3>3
  <2>9. NoPages(t) /\ NoTables(t)
    BY <2>5 DEF Bare, NoPages, NoTables
  <2>10. Lies(t, t.ref, x.areas)
    BY <2>9, LiesBare DEF NoTables
  <2>11. \A f \in x.others : t.ref[f] = x.ref[f] /\ t.mem[f] = x.mem[f]
    BY <2>5 DEF Sound
  <2>12. \A f \in t.free : t.ref[f] = 0
    <3>1. t.free \subseteq s.free
      BY <1>2, <1>4, <2>5 DEF FrameTaken
    <3> QED BY <2>5, <3>1 DEF Sound
  <2>13. Sound(x, t)
    BY <2>5, <2>8, <2>10, <2>11, <2>12 DEF Sound
  <2> QED BY <2>4, <2>5, <2>9, <2>13
<1> QED BY <1>3, <1>4

\* r is s after unmap_range has done the pages below n.
Unmaps(x, s, pages, n, r) ==
    /\ Sound(x, r) /\ Same(s, r) /\ r.table = s.table
    /\ \A v \in UserPage : r.pte[v] = IF v \in pages /\ v < n THEN NoPte ELSE s.pte[v]

LEMMA UnmapsOne ==
  ASSUME NEW x, NEW s, NEW pages, NEW j \in 0 .. USTACKTOP - 1, NEW r,
         Unmaps(x, s, pages, j, r), NEW t,
         t = IF j \in pages THEN page_remove_pte(r, j) ELSE r
  PROVE  t \in Midway /\ Unmaps(x, s, pages, j + 1, t)
<1>1. j \in UserPage /\ j \in Int /\ \A v \in UserPage : v < j + 1 <=> v < j \/ v = j
  BY VmAssumption DEF UserPage
<1>2. Sound(x, r) /\ Same(s, r) /\ r.table = s.table
      /\ \A v \in UserPage : r.pte[v] = IF v \in pages /\ v < j THEN NoPte ELSE s.pte[v]
  BY DEF Unmaps
<1>3. CASE j \notin pages
  BY <1>1, <1>2, <1>3 DEF Unmaps, Sound
<1>4. CASE j \in pages
  <2>1. Unmapped(x, r, t, j)
    BY <1>1, <1>2, <1>4, RemoveIs
  <2>2. r.pte \in [UserPage -> Pte]
    BY <1>2 DEF Sound, Midway
  <2>3. t.pte[j] = NoPte /\ \A v \in UserPage \ {j} : t.pte[v] = r.pte[v]
    BY <1>1, <2>1, <2>2 DEF Unmapped
  <2>4. \A v \in UserPage : t.pte[v] = IF v \in pages /\ v < j + 1 THEN NoPte ELSE s.pte[v]
    BY <1>1, <1>2, <1>4, <2>3
  <2>5. Sound(x, t) /\ Same(s, t) /\ t.table = s.table
    BY <1>2, <2>1 DEF Unmapped, Same
  <2> QED BY <2>4, <2>5 DEF Unmaps, Sound
<1> QED BY <1>3, <1>4

LEMMA UnmapsAll ==
  ASSUME NEW x, NEW s, Sound(x, s), NEW pages,
         NEW new, new = unmap_range(s, pages)
  PROVE  Unmaps(x, s, pages, USTACKTOP, new)
<1>1. USTACKTOP \in Nat
  BY VmAssumption
<1>2. PICK m : m = s
  OBVIOUS
<1>3. m \in Midway /\ Unmaps(x, s, pages, 0, m)
  <2>1. \A v \in UserPage : ~ v < 0
    BY Bounds
  <2> QED BY <1>2, <2>1 DEF Unmaps, Same, Sound
<1> DEFINE Body(r, j) == IF j \in pages THEN page_remove_pte(r, j) ELSE r
           P == [j \in 0 .. USTACKTOP |-> {r \in Midway : Unmaps(x, s, pages, j, r)}]
           step == [y \in Midway \X (0 .. USTACKTOP - 1) |-> Body(y[1], y[2])]
<1>4. ASSUME NEW j \in 0 .. USTACKTOP - 1, NEW r \in P[j]
      PROVE  step[<<r, j>>] = Body(r, j) /\ step[<<r, j>>] \in P[j + 1]
  <2>1. j \in 0 .. USTACKTOP /\ j + 1 \in 0 .. USTACKTOP
    BY <1>1
  <2>2. r \in Midway /\ Unmaps(x, s, pages, j, r)
    BY <2>1
  <2>3. PICK t : t = Body(r, j)
    OBVIOUS
  <2>4. step[<<r, j>>] = t
    BY <2>2, <2>3
  <2>5. t = IF j \in pages THEN page_remove_pte(r, j) ELSE r
    BY <2>3
  <2>6. t \in Midway /\ Unmaps(x, s, pages, j + 1, t)
    BY <2>2, <2>5, UnmapsOne
  <2>7. t \in P[j + 1]
    BY <2>1, <2>6
  <2> QED BY <2>3, <2>4, <2>7
<1>5. m \in P[0]
  BY <1>1, <1>3
<1>6. P[USTACKTOP] = {r \in Midway : Unmaps(x, s, pages, USTACKTOP, r)}
  BY <1>1
<1> HIDE DEF P, step
<1>7. Passes(m, USTACKTOP, P, step)
  BY <1>4, <1>5 DEF Passes
<1>8. PICK h : Iterates(h, m, USTACKTOP, P, step)
  BY <1>1, <1>7, Iteration
<1> DEFINE After(j, f) == IF j = 0 THEN s
                           ELSE IF j - 1 \in pages THEN page_remove_pte(f[j - 1], j - 1)
                           ELSE f[j - 1]
<1>9. ASSUME NEW f, NEW j \in 0 .. USTACKTOP, j # 0
      PROVE  j - 1 \in 0 .. USTACKTOP - 1 /\ (j - 1) + 1 = j /\ After(j, f) = Body(f[j - 1], j - 1)
  <2>1. j - 1 \in 0 .. USTACKTOP - 1 /\ (j - 1) + 1 = j
    BY <1>1, <1>9
  <2> QED BY <1>9, <2>1
<1> HIDE DEF Body
<1>10. h = [j \in 0 .. USTACKTOP |-> After(j, h)]
  <2>1. ASSUME NEW j \in 0 .. USTACKTOP PROVE h[j] = After(j, h)
    <3>1. CASE j = 0
      BY <1>2, <1>8, <3>1 DEF Iterates
    <3>2. CASE j # 0
      <4>1. j - 1 \in 0 .. USTACKTOP - 1 /\ (j - 1) + 1 = j /\ After(j, h) = Body(h[j - 1], j - 1)
        BY <1>9, <3>2
      <4>2. h[j - 1] \in P[j - 1] /\ h[j] = step[<<h[j - 1], j - 1>>]
        <5>1. j - 1 \in 0 .. USTACKTOP
          BY <1>1, <4>1
        <5> QED BY <1>8, <4>1, <5>1 DEF Iterates
      <4> HIDE DEF After
      <4> QED BY <1>4, <4>1, <4>2
    <3> QED BY <3>1, <3>2
  <2>2. h = [j \in 0 .. USTACKTOP |-> h[j]]
    BY <1>8 DEF Iterates
  <2> HIDE DEF After
  <2> QED BY <2>1, <2>2
<1>11. PICK g : g = [j \in 0 .. USTACKTOP |-> After(j, g)] /\ new = g[USTACKTOP]
  <2> DEFINE g == CHOOSE f : f = [j \in 0 .. USTACKTOP |-> After(j, f)]
  <2>1. g = [j \in 0 .. USTACKTOP |-> After(j, g)]
    BY <1>10
  <2>2. new = g[USTACKTOP]
    BY DEF unmap_range
  <2> QED BY <2>1, <2>2
<1>12. g[0] = m
  BY <1>1, <1>2, <1>11
<1>13. ASSUME NEW j \in 0 .. USTACKTOP - 1, g[j] \in P[j] PROVE g[j + 1] = step[<<g[j], j>>]
  <2>1. j + 1 \in 0 .. USTACKTOP /\ j + 1 # 0 /\ (j + 1) - 1 = j
    BY <1>1
  <2>2. g[j + 1] = After(j + 1, g)
    BY <1>11, <2>1
  <2> HIDE DEF After
  <2>3. g[j + 1] = Body(g[j], j)
    BY <1>9, <2>1, <2>2
  <2> QED BY <1>4, <1>13, <2>3
<1>14. g[USTACKTOP] \in P[USTACKTOP]
  BY <1>1, <1>7, <1>12, <1>13, IterationEnds
<1> QED BY <1>6, <1>11, <1>14

\* t is s with other areas.
Relisted(x, s, t) ==
    /\ Sound(x, t) /\ View(t) = View(s) /\ t.pgdir = s.pgdir /\ t.ok = s.ok
    /\ t.table = s.table /\ t.pte = s.pte

LEMMA AreasSound ==
  ASSUME NEW x, NEW s, Sound(x, s), NEW q \in Seq(Vma), NEW t, t = [s EXCEPT !.areas = q]
  PROVE  Relisted(x, s, t) /\ t.areas = q
<1>1. s \in Midway
  BY DEF Sound
<1>2. /\ t \in Midway /\ t.areas = q /\ t.pgdir = s.pgdir /\ t.ok = s.ok /\ t.table = s.table
      /\ t.pte = s.pte /\ t.free = s.free /\ t.ref = s.ref /\ t.mem = s.mem
  BY <1>1 DEF Midway
<1>3. Names(t) = Names(s) /\ View(t) = View(s) /\ Lies(t, t.ref, x.areas)
  BY <1>2, SameNames, SameView, SameLies DEF Sound
<1> QED BY <1>2, <1>3 DEF Sound, Relisted

\* r is s after exit_range has done the pages below n.
Exits(x, s, pages, n, r) ==
    /\ Sound(x, r) /\ Same(s, r) /\ NoPages(r)
    /\ \A t \in Tables : r.table[t] = 0 \/ r.table[t] = s.table[t]
    /\ \A v \in pages : v < n => r.table[TableOf(v)] = 0

LEMMA ExitsOne ==
  ASSUME NEW x, NEW s, NEW pages \in SUBSET UserPage, NEW j \in 0 .. USTACKTOP - 1, NEW r,
         Exits(x, s, pages, j, r), NEW t,
         t = IF j \in pages THEN FreeTable(r, j) ELSE r
  PROVE  t \in Midway /\ Exits(x, s, pages, j + 1, t)
<1>1. j \in UserPage /\ TableOf(j) \in Tables
      /\ \A v \in UserPage : (v < j + 1 <=> v < j \/ v = j) /\ TableOf(v) \in Tables
  BY VmAssumption DEF UserPage, Tables
<1>2. /\ Sound(x, r) /\ Same(s, r) /\ NoPages(r)
      /\ \A k \in Tables : r.table[k] = 0 \/ r.table[k] = s.table[k]
      /\ \A v \in pages : v < j => r.table[TableOf(v)] = 0
  BY DEF Exits
<1>3. CASE j \notin pages
  BY <1>1, <1>2, <1>3 DEF Exits, Sound
<1>4. CASE j \in pages
  <2>1. TableFreed(x, r, t, j)
    BY <1>1, <1>2, <1>4, FreeTableIs
  <2>2. r.table \in [Tables -> Number]
    BY <1>2 DEF Sound, Midway
  <2>3. \A k \in Tables : t.table[k] = IF k = TableOf(j) THEN 0 ELSE r.table[k]
    BY <1>1, <2>1, <2>2 DEF TableFreed
  <2>4. \A k \in Tables : t.table[k] = 0 \/ t.table[k] = s.table[k]
    BY <1>2, <2>3
  <2>5. ASSUME NEW v \in pages, v < j + 1 PROVE t.table[TableOf(v)] = 0
    BY <1>1, <1>2, <2>3, <2>5
  <2>6. Sound(x, t) /\ Same(s, t) /\ NoPages(t)
    BY <1>2, <2>1 DEF TableFreed, Same
  <2> QED BY <2>4, <2>5, <2>6 DEF Exits, Sound
<1> QED BY <1>3, <1>4

LEMMA ExitsAll ==
  ASSUME NEW x, NEW s, Sound(x, s), NoPages(s), NEW pages \in SUBSET UserPage,
         NEW new, new = exit_range(s, pages)
  PROVE  Exits(x, s, pages, USTACKTOP, new)
<1>1. USTACKTOP \in Nat
  BY VmAssumption
<1>2. PICK m : m = s
  OBVIOUS
<1>3. m \in Midway /\ Exits(x, s, pages, 0, m)
  <2>1. \A v \in UserPage : ~ v < 0
    BY Bounds
  <2> QED BY <1>2, <2>1 DEF Exits, Same, Sound
<1> DEFINE Body(r, j) == IF j \in pages THEN FreeTable(r, j) ELSE r
           P == [j \in 0 .. USTACKTOP |-> {r \in Midway : Exits(x, s, pages, j, r)}]
           step == [y \in Midway \X (0 .. USTACKTOP - 1) |-> Body(y[1], y[2])]
<1>4. ASSUME NEW j \in 0 .. USTACKTOP - 1, NEW r \in P[j]
      PROVE  step[<<r, j>>] = Body(r, j) /\ step[<<r, j>>] \in P[j + 1]
  <2>1. j \in 0 .. USTACKTOP /\ j + 1 \in 0 .. USTACKTOP
    BY <1>1
  <2>2. r \in Midway /\ Exits(x, s, pages, j, r)
    BY <2>1
  <2>3. PICK t : t = Body(r, j)
    OBVIOUS
  <2>4. step[<<r, j>>] = t
    BY <2>2, <2>3
  <2>5. t = IF j \in pages THEN FreeTable(r, j) ELSE r
    BY <2>3
  <2>6. t \in Midway /\ Exits(x, s, pages, j + 1, t)
    BY <2>2, <2>5, ExitsOne
  <2>7. t \in P[j + 1]
    BY <2>1, <2>6
  <2> QED BY <2>3, <2>4, <2>7
<1>5. m \in P[0]
  BY <1>1, <1>3
<1>6. P[USTACKTOP] = {r \in Midway : Exits(x, s, pages, USTACKTOP, r)}
  BY <1>1
<1> HIDE DEF P, step
<1>7. Passes(m, USTACKTOP, P, step)
  BY <1>4, <1>5 DEF Passes
<1>8. PICK h : Iterates(h, m, USTACKTOP, P, step)
  BY <1>1, <1>7, Iteration
<1> DEFINE After(j, f) == IF j = 0 THEN s
                           ELSE IF j - 1 \in pages THEN FreeTable(f[j - 1], j - 1)
                           ELSE f[j - 1]
<1>9. ASSUME NEW f, NEW j \in 0 .. USTACKTOP, j # 0
      PROVE  j - 1 \in 0 .. USTACKTOP - 1 /\ (j - 1) + 1 = j /\ After(j, f) = Body(f[j - 1], j - 1)
  <2>1. j - 1 \in 0 .. USTACKTOP - 1 /\ (j - 1) + 1 = j
    BY <1>1, <1>9
  <2> QED BY <1>9, <2>1
<1> HIDE DEF Body
<1>10. h = [j \in 0 .. USTACKTOP |-> After(j, h)]
  <2>1. ASSUME NEW j \in 0 .. USTACKTOP PROVE h[j] = After(j, h)
    <3>1. CASE j = 0
      BY <1>2, <1>8, <3>1 DEF Iterates
    <3>2. CASE j # 0
      <4>1. j - 1 \in 0 .. USTACKTOP - 1 /\ (j - 1) + 1 = j /\ After(j, h) = Body(h[j - 1], j - 1)
        BY <1>9, <3>2
      <4>2. h[j - 1] \in P[j - 1] /\ h[j] = step[<<h[j - 1], j - 1>>]
        <5>1. j - 1 \in 0 .. USTACKTOP
          BY <1>1, <4>1
        <5> QED BY <1>8, <4>1, <5>1 DEF Iterates
      <4> HIDE DEF After
      <4> QED BY <1>4, <4>1, <4>2
    <3> QED BY <3>1, <3>2
  <2>2. h = [j \in 0 .. USTACKTOP |-> h[j]]
    BY <1>8 DEF Iterates
  <2> HIDE DEF After
  <2> QED BY <2>1, <2>2
<1>11. PICK g : g = [j \in 0 .. USTACKTOP |-> After(j, g)] /\ new = g[USTACKTOP]
  <2> DEFINE g == CHOOSE f : f = [j \in 0 .. USTACKTOP |-> After(j, f)]
  <2>1. g = [j \in 0 .. USTACKTOP |-> After(j, g)]
    BY <1>10
  <2>2. new = g[USTACKTOP]
    BY DEF exit_range
  <2> QED BY <2>1, <2>2
<1>12. g[0] = m
  BY <1>1, <1>2, <1>11
<1>13. ASSUME NEW j \in 0 .. USTACKTOP - 1, g[j] \in P[j] PROVE g[j + 1] = step[<<g[j], j>>]
  <2>1. j + 1 \in 0 .. USTACKTOP /\ j + 1 # 0 /\ (j + 1) - 1 = j
    BY <1>1
  <2>2. g[j + 1] = After(j + 1, g)
    BY <1>11, <2>1
  <2> HIDE DEF After
  <2>3. g[j + 1] = Body(g[j], j)
    BY <1>9, <2>1, <2>2
  <2> QED BY <1>4, <1>13, <2>3
<1>14. g[USTACKTOP] \in P[USTACKTOP]
  BY <1>1, <1>7, <1>12, <1>13, IterationEnds
<1> QED BY <1>6, <1>11, <1>14

Gone(s) == s.pgdir = 0 /\ MmOf(s) = NoMm /\ Bare(s) /\ s.areas = <<>>

LEMMA DiscardIs ==
  ASSUME NEW x, NEW s, Sound(x, s), s.ok, s.pgdir # 0, x.areas = AreasOf(s),
         NEW t, t = Discard(s)
  PROVE  Sound(x, t) /\ t.ok /\ Gone(t)
<1>1. PICK pages, u, e, r : /\ pages = Covered(s) /\ u = unmap_range(s, pages)
                            /\ e = exit_range(u, pages) /\ r = put_pgdir(e)
  OBVIOUS
<1>2. pages \in SUBSET UserPage /\ \A a \in x.areas : a.pages \subseteq pages
  <2>1. s.areas \in Seq(Vma)
    BY DEF Sound, Midway
  <2>2. \A i \in DOMAIN s.areas : s.areas[i].pages \subseteq UserPage
    <3>1. \A i \in DOMAIN s.areas : s.areas[i] \in Vma
      BY <2>1
    <3>2. \A a \in Vma : a.pages \subseteq UserPage
      BY DEF Vma
    <3> QED BY <3>1, <3>2
  <2> QED BY <1>1, <2>2 DEF Covered, AreasOf
<1>3. Unmaps(x, s, pages, USTACKTOP, u)
  BY <1>1, UnmapsAll
<1>4. Sound(x, u) /\ Same(s, u) /\ u.table = s.table
  BY <1>3 DEF Unmaps
<1>5. NoPages(u)
  <2>1. \A v \in UserPage : v < USTACKTOP
    BY VmAssumption DEF UserPage
  <2>2. \A v \in UserPage : s.pte[v].frame # 0 => v \in pages
    BY <1>2 DEF Sound, Lies
  <2>3. \A v \in UserPage : s.pte[v].frame = 0 => s.pte[v] = NoPte
    BY DEF Sound, Lies
  <2>4. \A v \in UserPage : u.pte[v] = IF v \in pages /\ v < USTACKTOP THEN NoPte ELSE s.pte[v]
    BY <1>3 DEF Unmaps
  <2> QED BY <2>1, <2>2, <2>3, <2>4 DEF NoPages
<1>6. Exits(x, u, pages, USTACKTOP, e)
  BY <1>1, <1>2, <1>4, <1>5, ExitsAll
<1>7. Sound(x, e) /\ Same(u, e) /\ NoPages(e)
  BY <1>6 DEF Exits
<1>8. NoTables(e)
  <2> SUFFICES ASSUME NEW k \in Tables, e.table[k] # 0 PROVE FALSE
    BY DEF NoTables
  <2>1. u.table[k] # 0
    BY <1>6 DEF Exits
  <2>2. \E a \in x.areas : \E v \in a.pages : TableOf(v) = k
    BY <1>4, <2>1 DEF Sound, Lies
  <2>3. PICK v \in pages : TableOf(v) = k
    BY <1>2, <2>2
  <2>4. v < USTACKTOP
    BY <1>2, VmAssumption DEF UserPage
  <2> QED BY <1>6, <2>3, <2>4 DEF Exits
<1>9. e.pgdir # 0 /\ e.ok
  BY <1>4, <1>7 DEF Same
<1>10. Sound(x, r) /\ Bare(r) /\ r.ok
  BY <1>1, <1>7, <1>8, <1>9, PutPgdirIs
<1>11. t = [r EXCEPT !.table = NoMm.table, !.pte = NoMm.pte, !.areas = NoMm.areas]
  BY <1>1 DEF Discard, exit_mmap
<1>12. r \in Midway
  BY <1>10 DEF Sound
<1>13. NoMm.table = [k \in Tables |-> 0] /\ NoMm.pte = [v \in UserPage |-> NoPte]
       /\ NoMm.areas = <<>> /\ NoMm.pgdir = 0
  BY DEF NoMm
<1>14. r.table = NoMm.table
  <2>1. r.table \in [Tables -> Number] /\ \A k \in Tables : r.table[k] = 0
    BY <1>10, <1>12 DEF Midway, Bare, NoTables
  <2> QED BY <1>13, <2>1
<1>15. r.pte = NoMm.pte
  <2>1. r.pte \in [UserPage -> Pte] /\ \A v \in UserPage : r.pte[v] = NoPte
    BY <1>10, <1>12 DEF Midway, Bare, NoPages
  <2> QED BY <1>13, <2>1
<1>16. t = [r EXCEPT !.areas = <<>>]
  BY <1>11, <1>12, <1>13, <1>14, <1>15 DEF Midway
<1>17. <<>> \in Seq(Vma)
  BY EmptySeq
<1>18. Sound(x, t) /\ View(t) = View(r) /\ t.areas = <<>> /\ t.ok /\ Bare(t)
  <2>1. PICK q : q = <<>>
    OBVIOUS
  <2>2. Relisted(x, r, t) /\ t.areas = q
    <3>1. PICK w : w = [r EXCEPT !.areas = q]
      OBVIOUS
    <3>2. Sound(x, r) /\ q \in Seq(Vma)
      BY <1>10, <1>17, <2>1
    <3>3. Relisted(x, r, w) /\ w.areas = q
      BY <3>1, <3>2, AreasSound
    <3> QED BY <1>16, <2>1, <3>1, <3>3
  <2> QED BY <1>10, <2>1, <2>2 DEF Relisted, Bare, NoPages, NoTables
<1>19. t.pgdir = 0 /\ t.table = NoMm.table /\ t.pte = NoMm.pte
  BY <1>12, <1>14, <1>15, <1>16, <1>10 DEF Midway, Bare
<1>20. MmOf(t) = NoMm
  <2>1. MmOf(t) = [pgdir |-> 0, table |-> NoMm.table, pte |-> NoMm.pte, areas |-> <<>>]
    BY <1>18, <1>19 DEF MmOf
  <2> QED BY <2>1 DEF NoMm
<1> QED BY <1>18, <1>19, <1>20 DEF Gone

-----------------------------------------------------------------------------
(* What fork copies.  F is what each page of the parent holds.              *)

Copyable(x, from, F) ==
    \A v \in UserPage :
        IF from.pte[v].frame = 0 THEN F[v] = <<>>
        ELSE /\ from.pte[v].frame \in x.others
             /\ F[v] = <<x.mem[from.pte[v].frame]>>
             /\ x.mem[from.pte[v].frame] \in Value
             /\ from.pte[v].write \in BOOLEAN
             /\ Covers(x.areas, v, from.pte[v].write)

Part(r, F) == \A v \in UserPage : View(r)[v] \in {<<>>, F[v]}

\* r is s after copy_range has done the pages below n.
Copies(x, F, s, pages, n, r) ==
    r.ok => /\ s.ok /\ Sound(x, r) /\ r.pgdir = s.pgdir /\ r.areas = s.areas /\ Part(r, F)
            /\ \A v \in UserPage :
                View(s)[v] = F[v] \/ (v \in pages /\ v < n) => View(r)[v] = F[v]

LEMMA CopyPageIs ==
  ASSUME NEW x, NEW from, NEW F, Copyable(x, from, F), NEW r, Sound(x, r), r.ok,
         NEW v \in UserPage, View(r)[v] \in {<<>>, F[v]}, NEW t, t = CopyPage(from, r, v)
  PROVE  t \in Midway /\ (t.ok => /\ Sound(x, t) /\ Same(r, t)
                                  /\ View(t) = [View(r) EXCEPT ![v] = F[v]])
<1>1. PICK f, c : f = from.pte[v].frame /\ c = x.mem[f]
  OBVIOUS
<1>2. View(r) = [w \in UserPage |-> View(r)[w]]
  BY DEF View
<1>3. CASE f = 0
  <2>1. t = r
    BY <1>1, <1>3 DEF CopyPage
  <2>2. F[v] = <<>>
    BY <1>1, <1>3 DEF Copyable
  <2>3. PICK V : V = View(r)
    OBVIOUS
  <2>4. V = [V EXCEPT ![v] = F[v]]
    BY <1>2, <2>2, <2>3
  <2> QED BY <2>1, <2>3, <2>4 DEF Sound, Same
<1>4. CASE f # 0
  <2>1. /\ f \in x.others /\ F[v] = <<c>> /\ c \in Value
        /\ from.pte[v].write \in BOOLEAN /\ Covers(x.areas, v, from.pte[v].write)
    BY <1>1, <1>4 DEF Copyable
  <2>2. PICK write, u : write = from.pte[v].write /\ u = get_pte(r, v)
    OBVIOUS
  <2>3. r.mem[f] = c
    BY <1>1, <2>1 DEF Sound
  <2>4. t = MapNew(u, v, write, c)
    BY <1>1, <1>4, <2>2, <2>3 DEF CopyPage
  <2>5. write \in BOOLEAN /\ Covers(x.areas, v, write)
    BY <2>1, <2>2
  <2>6. \E a \in x.areas : v \in a.pages
    BY <2>5 DEF Covers
  <2>7. u \in Midway /\ (u.ok => HasTable(x, r, u, v))
    BY <2>2, <2>6, GetPteIs
  <2>8. CASE ~ u.ok
    <3>1. PICK b : b = alloc_page(u)
      OBVIOUS
    <3>2. b = [u EXCEPT !.ok = FALSE]
      BY <2>8, <3>1 DEF alloc_page
    <3>3. b \in Midway /\ ~ b.ok
      BY <2>7, <3>2 DEF Midway
    <3> QED BY <2>4, <3>1, <3>3, MapNewFails
  <2>9. CASE u.ok
    <3>1. Sound(x, u) /\ Same(r, u) /\ View(u) = View(r)
      BY <2>7, <2>9 DEF HasTable
    <3>2. t \in Midway /\ (t.ok => Mapped(x, u, t, v, c))
      BY <2>1, <2>4, <2>5, <2>9, <3>1, MapNewIs
    <3> QED BY <2>1, <3>1, <3>2 DEF Mapped, Same
  <2> QED BY <2>8, <2>9
<1> QED BY <1>3, <1>4

LEMMA CopiesOne ==
  ASSUME NEW x, NEW from, NEW F, Copyable(x, from, F), NEW s, NEW pages,
         NEW j \in 0 .. USTACKTOP - 1, NEW r \in Midway,
         Copies(x, F, s, pages, j, r), NEW t,
         t = IF j \in pages THEN CopyPage(from, r, j) ELSE r
  PROVE  t \in Midway /\ Copies(x, F, s, pages, j + 1, t)
<1>1. j \in UserPage /\ j \in Int /\ \A v \in UserPage : v < j + 1 <=> v < j \/ v = j
  BY VmAssumption DEF UserPage
<1>2. CASE j \notin pages
  BY <1>1, <1>2 DEF Copies
<1>3. CASE j \in pages /\ ~ r.ok
  <2>1. t = r
    BY <1>3 DEF CopyPage
  <2> QED BY <1>3, <2>1 DEF Copies
<1>4. CASE j \in pages /\ r.ok
  <2>1. /\ s.ok /\ Sound(x, r) /\ r.pgdir = s.pgdir /\ r.areas = s.areas /\ Part(r, F)
        /\ \A v \in UserPage :
                View(s)[v] = F[v] \/ (v \in pages /\ v < j) => View(r)[v] = F[v]
    BY <1>4 DEF Copies
  <2>2. View(r)[j] \in {<<>>, F[j]}
    BY <1>1, <2>1 DEF Part
  <2>3. t = CopyPage(from, r, j)
    BY <1>4
  <2>4. t \in Midway /\ (t.ok => /\ Sound(x, t) /\ Same(r, t)
                                 /\ View(t) = [View(r) EXCEPT ![j] = F[j]])
    BY <1>1, <1>4, <2>1, <2>2, <2>3, CopyPageIs
  <2>5. ASSUME t.ok
        PROVE  /\ s.ok /\ Sound(x, t) /\ t.pgdir = s.pgdir /\ t.areas = s.areas /\ Part(t, F)
               /\ \A v \in UserPage :
                    View(s)[v] = F[v] \/ (v \in pages /\ v < j + 1) => View(t)[v] = F[v]
    <3>1. View(r) = [w \in UserPage |-> View(r)[w]]
      BY DEF View
    <3>2. View(t) = [View(r) EXCEPT ![j] = F[j]]
      BY <2>4, <2>5
    <3>3. View(t)[j] = F[j] /\ \A v \in UserPage \ {j} : View(t)[v] = View(r)[v]
      BY <1>1, <3>1, <3>2
    <3>4. Part(t, F)
      BY <2>1, <3>3 DEF Part
    <3>5. \A v \in UserPage :
            View(s)[v] = F[v] \/ (v \in pages /\ v < j + 1) => View(t)[v] = F[v]
      BY <1>1, <2>1, <3>3
    <3> QED BY <2>1, <2>4, <2>5, <3>4, <3>5 DEF Same
  <2> QED BY <2>4, <2>5 DEF Copies
<1> QED BY <1>2, <1>3, <1>4

LEMMA CopiesAll ==
  ASSUME NEW x, NEW from, NEW F, Copyable(x, from, F), NEW s \in Midway, NEW pages,
         s.ok => Sound(x, s) /\ Part(s, F),
         NEW new, new = copy_range(from, s, pages)
  PROVE  new \in Midway /\ Copies(x, F, s, pages, USTACKTOP, new)
<1>1. USTACKTOP \in Nat
  BY VmAssumption
<1>2. PICK m : m = s
  OBVIOUS
<1>3. m \in Midway /\ Copies(x, F, s, pages, 0, m)
  <2>1. \A v \in UserPage : ~ v < 0
    BY Bounds
  <2> QED BY <1>2, <2>1 DEF Copies
<1> DEFINE Body(r, j) == IF j \in pages THEN CopyPage(from, r, j) ELSE r
           P == [j \in 0 .. USTACKTOP |-> {r \in Midway : Copies(x, F, s, pages, j, r)}]
           step == [y \in Midway \X (0 .. USTACKTOP - 1) |-> Body(y[1], y[2])]
<1>4. ASSUME NEW j \in 0 .. USTACKTOP - 1, NEW r \in P[j]
      PROVE  step[<<r, j>>] = Body(r, j) /\ step[<<r, j>>] \in P[j + 1]
  <2>1. j \in 0 .. USTACKTOP /\ j + 1 \in 0 .. USTACKTOP
    BY <1>1
  <2>2. r \in Midway /\ Copies(x, F, s, pages, j, r)
    BY <2>1
  <2>3. PICK t : t = Body(r, j)
    OBVIOUS
  <2>4. step[<<r, j>>] = t
    BY <2>2, <2>3
  <2>5. t = IF j \in pages THEN CopyPage(from, r, j) ELSE r
    BY <2>3
  <2>6. t \in Midway /\ Copies(x, F, s, pages, j + 1, t)
    BY <2>2, <2>5, CopiesOne
  <2>7. t \in P[j + 1]
    BY <2>1, <2>6
  <2> QED BY <2>3, <2>4, <2>7
<1>5. m \in P[0]
  BY <1>1, <1>3
<1>6. P[USTACKTOP] = {r \in Midway : Copies(x, F, s, pages, USTACKTOP, r)}
  BY <1>1
<1> HIDE DEF P, step
<1>7. Passes(m, USTACKTOP, P, step)
  BY <1>4, <1>5 DEF Passes
<1>8. PICK h : Iterates(h, m, USTACKTOP, P, step)
  BY <1>1, <1>7, Iteration
<1> DEFINE After(j, f) == IF j = 0 THEN s
                           ELSE IF j - 1 \in pages THEN CopyPage(from, f[j - 1], j - 1)
                           ELSE f[j - 1]
<1>9. ASSUME NEW f, NEW j \in 0 .. USTACKTOP, j # 0
      PROVE  j - 1 \in 0 .. USTACKTOP - 1 /\ (j - 1) + 1 = j /\ After(j, f) = Body(f[j - 1], j - 1)
  <2>1. j - 1 \in 0 .. USTACKTOP - 1 /\ (j - 1) + 1 = j
    BY <1>1, <1>9
  <2> QED BY <1>9, <2>1
<1> HIDE DEF Body
<1>10. h = [j \in 0 .. USTACKTOP |-> After(j, h)]
  <2>1. ASSUME NEW j \in 0 .. USTACKTOP PROVE h[j] = After(j, h)
    <3>1. CASE j = 0
      BY <1>2, <1>8, <3>1 DEF Iterates
    <3>2. CASE j # 0
      <4>1. j - 1 \in 0 .. USTACKTOP - 1 /\ (j - 1) + 1 = j /\ After(j, h) = Body(h[j - 1], j - 1)
        BY <1>9, <3>2
      <4>2. h[j - 1] \in P[j - 1] /\ h[j] = step[<<h[j - 1], j - 1>>]
        <5>1. j - 1 \in 0 .. USTACKTOP
          BY <1>1, <4>1
        <5> QED BY <1>8, <4>1, <5>1 DEF Iterates
      <4> HIDE DEF After
      <4> QED BY <1>4, <4>1, <4>2
    <3> QED BY <3>1, <3>2
  <2>2. h = [j \in 0 .. USTACKTOP |-> h[j]]
    BY <1>8 DEF Iterates
  <2> HIDE DEF After
  <2> QED BY <2>1, <2>2
<1>11. PICK g : g = [j \in 0 .. USTACKTOP |-> After(j, g)] /\ new = g[USTACKTOP]
  <2> DEFINE g == CHOOSE f : f = [j \in 0 .. USTACKTOP |-> After(j, f)]
  <2>1. g = [j \in 0 .. USTACKTOP |-> After(j, g)]
    BY <1>10
  <2>2. new = g[USTACKTOP]
    BY DEF copy_range
  <2> QED BY <2>1, <2>2
<1>12. g[0] = m
  BY <1>1, <1>2, <1>11
<1>13. ASSUME NEW j \in 0 .. USTACKTOP - 1, g[j] \in P[j] PROVE g[j + 1] = step[<<g[j], j>>]
  <2>1. j + 1 \in 0 .. USTACKTOP /\ j + 1 # 0 /\ (j + 1) - 1 = j
    BY <1>1
  <2>2. g[j + 1] = After(j + 1, g)
    BY <1>11, <2>1
  <2> HIDE DEF After
  <2>3. g[j + 1] = Body(g[j], j)
    BY <1>9, <2>1, <2>2
  <2> QED BY <1>4, <1>13, <2>3
<1>14. g[USTACKTOP] \in P[USTACKTOP]
  BY <1>1, <1>7, <1>12, <1>13, IterationEnds
<1> QED BY <1>6, <1>11, <1>14

LEMMA AreaTyped ==
  ASSUME NEW q \in Seq(Vma)
  PROVE  Len(q) \in Nat /\ \A i \in 1 .. Len(q) : /\ q[i] \in Vma
                                                  /\ q[i].pages \subseteq UserPage
                                                  /\ q[i].write \in BOOLEAN
<1>1. Len(q) \in Nat /\ \A i \in 1 .. Len(q) : q[i] \in Vma
  OBVIOUS
<1>2. \A a \in Vma : a.pages \subseteq UserPage /\ a.write \in BOOLEAN
  BY DEF Vma
<1> QED BY <1>1, <1>2

Concats(S, a, b, q) ==
    /\ q \in Seq(S) /\ Len(q) = Len(a) + Len(b)
    /\ \A i \in 1 .. Len(a) : q[i] = a[i]
    /\ \A i \in 1 .. Len(b) : q[Len(a) + i] = b[i]

LEMMA ConcatFacts ==
  ASSUME NEW S, NEW a \in Seq(S), NEW b \in Seq(S), NEW q, q = a \o b
  PROVE  Concats(S, a, b, q)
<1>1. Len(a) \in Nat /\ Len(b) \in Nat
  OBVIOUS
<1>2. a \o b \in Seq(S) /\ Len(a \o b) = Len(a) + Len(b)
  OBVIOUS
<1>3. \A i \in 1 .. Len(a) + Len(b) : (a \o b)[i] = IF i <= Len(a) THEN a[i] ELSE b[i - Len(a)]
  BY ConcatProperties, Zenon
<1>4. ASSUME NEW i \in 1 .. Len(a) PROVE q[i] = a[i]
  <2>1. i \in 1 .. Len(a) + Len(b) /\ i <= Len(a)
    BY <1>1
  <2> QED BY <1>3, <2>1
<1>5. ASSUME NEW i \in 1 .. Len(b) PROVE q[Len(a) + i] = b[i]
  <2>1. PICK k : k = Len(a) + i
    OBVIOUS
  <2>2. k \in 1 .. Len(a) + Len(b) /\ ~ k <= Len(a) /\ k - Len(a) = i
    BY <1>1, <2>1
  <2>3. q[k] = b[k - Len(a)]
    BY <1>3, <2>2
  <2> QED BY <2>1, <2>2, <2>3
<1> QED BY <1>2, <1>4, <1>5 DEF Concats

\* q is the last n elements of l.
LastOf(q, l, n) ==
    /\ q \in Seq(Vma) /\ Len(q) = n
    /\ \A i \in 1 .. n : q[i] = l[Len(l) - n + i]

\* r is s after dup_mmap has done n areas of from.
Dups(x, F, s, from, n, r) ==
    r.ok => /\ s.ok /\ Sound(x, r) /\ r.pgdir = s.pgdir
            /\ LastOf(r.areas, from.areas, n) /\ Part(r, F)
            /\ \A i \in 1 .. Len(from.areas) : i > Len(from.areas) - n =>
                \A v \in from.areas[i].pages : View(r)[v] = F[v]

LEMMA DupsOne ==
  ASSUME NEW x, NEW from, NEW F, Copyable(x, from, F), NEW s, from.areas \in Seq(Vma),
         NEW j \in 0 .. Len(from.areas) - 1, NEW r \in Midway,
         Dups(x, F, s, from, j, r), NEW t,
         t = CopyArea(from, r, from.areas[Len(from.areas) - j])
  PROVE  t \in Midway /\ Dups(x, F, s, from, j + 1, t)
<1>1. PICK l, k, area, q, u : /\ l = from.areas /\ k = Len(l) /\ area = l[k - j]
                              /\ q = <<area>> \o r.areas /\ u = [r EXCEPT !.areas = q]
  OBVIOUS
<1>2. /\ l \in Seq(Vma) /\ k \in Nat /\ j \in Nat /\ k - j \in 1 .. k
      /\ \A i \in 1 .. k : l[i] \in Vma /\ l[i].pages \subseteq UserPage
  BY <1>1, AreaTyped
<1>3. area \in Vma /\ area.pages \subseteq UserPage
  BY <1>1, <1>2
<1>4. r.areas \in Seq(Vma)
  BY DEF Midway
<1>5. q \in Seq(Vma) /\ Len(q) = Len(r.areas) + 1 /\ q[1] = area
      /\ \A i \in 1 .. Len(r.areas) : q[i + 1] = r.areas[i]
  <2>1. <<area>> \in Seq(Vma) /\ Len(<<area>>) = 1 /\ <<area>>[1] = area
    BY <1>3
  <2>2. PICK one : one = <<area>>
    OBVIOUS
  <2>3. one \in Seq(Vma) /\ Len(one) = 1 /\ one[1] = area /\ q = one \o r.areas
    BY <1>1, <2>1, <2>2
  <2>4. /\ q \in Seq(Vma) /\ Len(q) = Len(one) + Len(r.areas)
        /\ \A i \in 1 .. Len(one) : q[i] = one[i]
        /\ \A i \in 1 .. Len(r.areas) : q[Len(one) + i] = r.areas[i]
    <3>1. Concats(Vma, one, r.areas, q)
      BY <1>4, <2>3, ConcatFacts
    <3> QED BY <3>1 DEF Concats
  <2>5. Len(r.areas) \in Nat
    BY <1>4
  <2>6. Len(q) = Len(r.areas) + 1 /\ q[1] = area
    BY <2>3, <2>4, <2>5
  <2>7. ASSUME NEW i \in 1 .. Len(r.areas) PROVE q[i + 1] = r.areas[i]
    <3>1. Len(one) + i = i + 1
      BY <2>3, <2>5
    <3> QED BY <2>4, <3>1
  <2> QED BY <2>4, <2>6, <2>7
<1>6. u \in Midway /\ u.ok = r.ok /\ u.areas = q
  BY <1>1, <1>5 DEF Midway
<1>7. u.ok => Sound(x, u) /\ View(u) = View(r) /\ u.pgdir = r.pgdir
  <2>1. SUFFICES ASSUME r.ok PROVE Sound(x, u) /\ View(u) = View(r) /\ u.pgdir = r.pgdir
    BY <1>6
  <2>2. Sound(x, r)
    BY <2>1 DEF Dups
  <2>3. Relisted(x, r, u)
    BY <1>1, <1>5, <2>2, AreasSound
  <2> QED BY <2>3 DEF Relisted
<1>8. u.ok => Sound(x, u) /\ Part(u, F)
  BY <1>6, <1>7 DEF Dups, Part
<1>9. t = copy_range(from, u, area.pages)
  BY <1>1 DEF CopyArea
<1>10. t \in Midway /\ Copies(x, F, u, area.pages, USTACKTOP, t)
  <2>1. PICK w, p : p = area.pages /\ w = copy_range(from, u, p)
    OBVIOUS
  <2>2. w \in Midway /\ Copies(x, F, u, p, USTACKTOP, w)
    BY <1>6, <1>8, <2>1, CopiesAll
  <2> QED BY <1>9, <2>1, <2>2
<1>11. ASSUME t.ok
       PROVE  /\ s.ok /\ Sound(x, t) /\ t.pgdir = s.pgdir /\ LastOf(t.areas, l, j + 1) /\ Part(t, F)
              /\ \A i \in 1 .. k : i > k - (j + 1) =>
                    \A v \in l[i].pages : View(t)[v] = F[v]
  <2>1. r.ok
    BY <1>6, <1>10, <1>11 DEF Copies
  <2>2. /\ Sound(x, t) /\ t.pgdir = u.pgdir /\ t.areas = q /\ Part(t, F)
        /\ \A v \in UserPage :
             View(u)[v] = F[v] \/ (v \in area.pages /\ v < USTACKTOP) => View(t)[v] = F[v]
    BY <1>6, <1>10, <1>11 DEF Copies
  <2>3. /\ s.ok /\ r.pgdir = s.pgdir /\ LastOf(r.areas, l, j)
        /\ \A i \in 1 .. k : i > k - j => \A v \in l[i].pages : View(r)[v] = F[v]
    BY <1>1, <2>1 DEF Dups
  <2>4. t.pgdir = s.pgdir
    BY <1>6, <1>7, <2>1, <2>2, <2>3
  <2>5. LastOf(t.areas, l, j + 1)
    <3>1. Len(r.areas) = j /\ \A i \in 1 .. j : r.areas[i] = l[k - j + i]
      BY <1>1, <2>3 DEF LastOf
    <3>2. ASSUME NEW i \in 1 .. j + 1 PROVE q[i] = l[k - (j + 1) + i]
      <4>1. CASE i = 1
        <5>1. k - (j + 1) + i = k - j
          BY <1>2, <4>1
        <5> QED BY <1>1, <1>5, <4>1, <5>1
      <4>2. CASE i # 1
        <5>1. PICK h : h = i - 1
          OBVIOUS
        <5>2. h \in 1 .. j /\ h + 1 = i /\ k - j + h = k - (j + 1) + i
          BY <1>2, <4>2, <5>1
        <5>3. q[h + 1] = r.areas[h] /\ r.areas[h] = l[k - j + h]
          BY <1>5, <3>1, <5>2
        <5> QED BY <5>2, <5>3
      <4> QED BY <4>1, <4>2
    <3>3. Len(q) = j + 1
      BY <1>5, <3>1
    <3> QED BY <1>1, <1>5, <2>2, <3>2, <3>3 DEF LastOf
  <2>6. ASSUME NEW i \in 1 .. k, i > k - (j + 1), NEW v \in l[i].pages
        PROVE  View(t)[v] = F[v]
    <3>1. v \in UserPage /\ v < USTACKTOP
      BY <1>2, VmAssumption DEF UserPage
    <3>2. i = k - j \/ i > k - j
      BY <1>2, <2>6
    <3>3. CASE i = k - j
      BY <1>1, <2>2, <3>1, <3>3
    <3>4. CASE i > k - j
      <4>1. View(u)[v] = F[v]
        BY <1>6, <1>7, <2>1, <2>3, <3>4
      <4> QED BY <2>2, <3>1, <4>1
    <3> QED BY <3>2, <3>3, <3>4
  <2> QED BY <2>2, <2>3, <2>4, <2>5, <2>6
<1> QED BY <1>1, <1>10, <1>11 DEF Dups

LEMMA DupsAll ==
  ASSUME NEW x, NEW from, NEW F, Copyable(x, from, F), NEW s \in Midway,
         from.areas \in Seq(Vma), s.ok => Sound(x, s) /\ Part(s, F) /\ s.areas = <<>>,
         NEW new, new = dup_mmap(s, from)
  PROVE  new \in Midway /\ Dups(x, F, s, from, Len(from.areas), new)
<1>1. Len(from.areas) \in Nat
  BY AreaTyped
<1>2. PICK m : m = s
  OBVIOUS
<1>3. m \in Midway /\ Dups(x, F, s, from, 0, m)
  <2>1. s.ok => LastOf(s.areas, from.areas, 0)
    <3>1. PICK q : q = <<>>
      OBVIOUS
    <3>2. q \in Seq(Vma) /\ Len(q) = 0
      BY <3>1
    <3>3. \A i \in 1 .. 0 : q[i] = from.areas[Len(from.areas) - 0 + i]
      OBVIOUS
    <3>4. LastOf(q, from.areas, 0)
      BY <3>2, <3>3 DEF LastOf
    <3> QED BY <3>1, <3>4
  <2>2. \A i \in 1 .. Len(from.areas) : ~ i > Len(from.areas) - 0
    BY <1>1
  <2> QED BY <1>2, <2>1, <2>2 DEF Dups
<1> DEFINE Body(r, j) == CopyArea(from, r, from.areas[Len(from.areas) - j])
           P == [j \in 0 .. Len(from.areas) |-> {r \in Midway : Dups(x, F, s, from, j, r)}]
           step == [y \in Midway \X (0 .. Len(from.areas) - 1) |-> Body(y[1], y[2])]
<1>4. ASSUME NEW j \in 0 .. Len(from.areas) - 1, NEW r \in P[j]
      PROVE  step[<<r, j>>] = Body(r, j) /\ step[<<r, j>>] \in P[j + 1]
  <2>1. j \in 0 .. Len(from.areas) /\ j + 1 \in 0 .. Len(from.areas)
    BY <1>1
  <2>2. r \in Midway /\ Dups(x, F, s, from, j, r)
    BY <2>1
  <2>3. PICK t : t = Body(r, j)
    OBVIOUS
  <2>4. step[<<r, j>>] = t
    BY <2>2, <2>3
  <2>5. t = CopyArea(from, r, from.areas[Len(from.areas) - j])
    BY <2>3
  <2>6. t \in Midway /\ Dups(x, F, s, from, j + 1, t)
    BY <2>2, <2>5, DupsOne
  <2>7. t \in P[j + 1]
    BY <2>1, <2>6
  <2> QED BY <2>3, <2>4, <2>7
<1>5. m \in P[0]
  BY <1>1, <1>3
<1>6. P[Len(from.areas)] = {r \in Midway : Dups(x, F, s, from, Len(from.areas), r)}
  BY <1>1
<1> HIDE DEF P, step
<1>7. Passes(m, Len(from.areas), P, step)
  BY <1>4, <1>5 DEF Passes
<1>8. PICK h : Iterates(h, m, Len(from.areas), P, step)
  BY <1>1, <1>7, Iteration
<1> DEFINE After(j, f) == IF j = 0 THEN s
                           ELSE CopyArea(from, f[j - 1], from.areas[Len(from.areas) + 1 - j])
<1>9. ASSUME NEW f, NEW j \in 0 .. Len(from.areas), j # 0
      PROVE  j - 1 \in 0 .. Len(from.areas) - 1 /\ (j - 1) + 1 = j /\ After(j, f) = Body(f[j - 1], j - 1)
  <2>1. j - 1 \in 0 .. Len(from.areas) - 1 /\ (j - 1) + 1 = j
    BY <1>1, <1>9
  <2> QED BY <1>9, <2>1
<1> HIDE DEF Body
<1>10. h = [j \in 0 .. Len(from.areas) |-> After(j, h)]
  <2>1. ASSUME NEW j \in 0 .. Len(from.areas) PROVE h[j] = After(j, h)
    <3>1. CASE j = 0
      BY <1>2, <1>8, <3>1 DEF Iterates
    <3>2. CASE j # 0
      <4>1. j - 1 \in 0 .. Len(from.areas) - 1 /\ (j - 1) + 1 = j /\ After(j, h) = Body(h[j - 1], j - 1)
        BY <1>9, <3>2
      <4>2. h[j - 1] \in P[j - 1] /\ h[j] = step[<<h[j - 1], j - 1>>]
        <5>1. j - 1 \in 0 .. Len(from.areas)
          BY <1>1, <4>1
        <5> QED BY <1>8, <4>1, <5>1 DEF Iterates
      <4> HIDE DEF After
      <4> QED BY <1>4, <4>1, <4>2
    <3> QED BY <3>1, <3>2
  <2>2. h = [j \in 0 .. Len(from.areas) |-> h[j]]
    BY <1>8 DEF Iterates
  <2> HIDE DEF After
  <2> QED BY <2>1, <2>2
<1>11. PICK g : g = [j \in 0 .. Len(from.areas) |-> After(j, g)] /\ new = g[Len(from.areas)]
  <2> DEFINE g == CHOOSE f : f = [j \in 0 .. Len(from.areas) |-> After(j, f)]
  <2>1. g = [j \in 0 .. Len(from.areas) |-> After(j, g)]
    BY <1>10
  <2>2. new = g[Len(from.areas)]
    BY DEF dup_mmap
  <2> QED BY <2>1, <2>2
<1>12. g[0] = m
  BY <1>1, <1>2, <1>11
<1>13. ASSUME NEW j \in 0 .. Len(from.areas) - 1, g[j] \in P[j] PROVE g[j + 1] = step[<<g[j], j>>]
  <2>1. j + 1 \in 0 .. Len(from.areas) /\ j + 1 # 0 /\ (j + 1) - 1 = j
    BY <1>1
  <2>2. g[j + 1] = After(j + 1, g)
    BY <1>11, <2>1
  <2> HIDE DEF After
  <2>3. g[j + 1] = Body(g[j], j)
    BY <1>9, <2>1, <2>2
  <2> QED BY <1>4, <1>13, <2>3
<1>14. g[Len(from.areas)] \in P[Len(from.areas)]
  BY <1>1, <1>7, <1>12, <1>13, IterationEnds
<1> QED BY <1>6, <1>11, <1>14

-----------------------------------------------------------------------------
(* What exec loads.                                                         *)

\* r is s after the pages of area below n were loaded.
LoadedPages(x, s, area, n, r) ==
    r.ok => /\ s.ok /\ Sound(x, r) /\ r.pgdir = s.pgdir /\ r.areas = s.areas
            /\ \A v \in UserPage :
                View(r)[v] = IF v \in area.pages /\ v < n THEN <<Image>> ELSE View(s)[v]

LEMMA LoadsOne ==
  ASSUME NEW x, NEW s, NEW area \in Vma, area \in x.areas,
         NEW j \in 0 .. USTACKTOP - 1, NEW r \in Midway,
         LoadedPages(x, s, area, j, r), NEW t,
         t = IF j \in area.pages /\ r.ok THEN MapNew(r, j, area.write, Image) ELSE r
  PROVE  t \in Midway /\ LoadedPages(x, s, area, j + 1, t)
<1>1. j \in UserPage /\ j \in Int /\ \A v \in UserPage : v < j + 1 <=> v < j \/ v = j
  BY VmAssumption DEF UserPage
<1>2. CASE ~ r.ok
  BY <1>2 DEF LoadedPages
<1>3. CASE r.ok
  <2>1. /\ s.ok /\ Sound(x, r) /\ r.pgdir = s.pgdir /\ r.areas = s.areas
        /\ \A v \in UserPage :
             View(r)[v] = IF v \in area.pages /\ v < j THEN <<Image>> ELSE View(s)[v]
    BY <1>3 DEF LoadedPages
  <2>2. CASE j \notin area.pages
    BY <1>1, <2>1, <2>2 DEF LoadedPages
  <2>3. CASE j \in area.pages
    <3>1. PICK write : write = area.write
      OBVIOUS
    <3>2. write \in BOOLEAN /\ Covers(x.areas, j, write) /\ Image \in Value
      BY <2>3, <3>1, Bounds DEF Vma, Covers
    <3>3. t = MapNew(r, j, write, Image)
      BY <1>3, <2>3, <3>1
    <3>4. t \in Midway /\ (t.ok => Mapped(x, r, t, j, Image))
      BY <1>1, <1>3, <2>1, <3>2, <3>3, MapNewIs
    <3>5. ASSUME t.ok
          PROVE  /\ s.ok /\ Sound(x, t) /\ t.pgdir = s.pgdir /\ t.areas = s.areas
                 /\ \A v \in UserPage :
                      View(t)[v] = IF v \in area.pages /\ v < j + 1 THEN <<Image>> ELSE View(s)[v]
      <4>1. View(r) = [w \in UserPage |-> View(r)[w]]
        BY DEF View
      <4>2. View(t) = [View(r) EXCEPT ![j] = <<Image>>]
        BY <3>4, <3>5 DEF Mapped
      <4>3. View(t)[j] = <<Image>> /\ \A v \in UserPage \ {j} : View(t)[v] = View(r)[v]
        BY <1>1, <4>1, <4>2
      <4>4. \A v \in UserPage :
              View(t)[v] = IF v \in area.pages /\ v < j + 1 THEN <<Image>> ELSE View(s)[v]
        BY <1>1, <2>1, <2>3, <4>3
      <4> QED BY <2>1, <3>4, <3>5, <4>4 DEF Mapped, Same
    <3> QED BY <3>4, <3>5 DEF LoadedPages
  <2> QED BY <2>2, <2>3
<1> QED BY <1>2, <1>3

LEMMA LoadsPages ==
  ASSUME NEW x, NEW s \in Midway, NEW area \in Vma, area \in x.areas, s.ok => Sound(x, s),
         NEW end \in 0 .. USTACKTOP, NEW new, new = LoadPages(s, area, end)
  PROVE  new \in Midway /\ LoadedPages(x, s, area, end, new)
<1>1. end \in Nat /\ \A j \in 0 .. end - 1 : j \in 0 .. USTACKTOP - 1
  BY VmAssumption
<1>2. PICK m : m = s
  OBVIOUS
<1>3. m \in Midway /\ LoadedPages(x, s, area, 0, m)
  <2>1. \A v \in UserPage : ~ v < 0
    BY Bounds
  <2> QED BY <1>2, <2>1 DEF LoadedPages
<1> DEFINE Body(r, j) == IF j \in area.pages /\ r.ok THEN MapNew(r, j, area.write, Image) ELSE r
           P == [j \in 0 .. end |-> {r \in Midway : LoadedPages(x, s, area, j, r)}]
           step == [y \in Midway \X (0 .. end - 1) |-> Body(y[1], y[2])]
<1>4. ASSUME NEW j \in 0 .. end - 1, NEW r \in P[j]
      PROVE  step[<<r, j>>] = Body(r, j) /\ step[<<r, j>>] \in P[j + 1]
  <2>1. j \in 0 .. end /\ j + 1 \in 0 .. end
    BY <1>1
  <2>2. r \in Midway /\ LoadedPages(x, s, area, j, r)
    BY <2>1
  <2>3. PICK t : t = Body(r, j)
    OBVIOUS
  <2>4. step[<<r, j>>] = t
    BY <2>2, <2>3
  <2>5. t = IF j \in area.pages /\ r.ok THEN MapNew(r, j, area.write, Image) ELSE r
    BY <2>3
  <2>6. t \in Midway /\ LoadedPages(x, s, area, j + 1, t)
    BY <1>1, <2>2, <2>5, LoadsOne
  <2>7. t \in P[j + 1]
    BY <2>1, <2>6
  <2> QED BY <2>3, <2>4, <2>7
<1>5. m \in P[0]
  BY <1>1, <1>3
<1>6. P[end] = {r \in Midway : LoadedPages(x, s, area, end, r)}
  BY <1>1
<1> HIDE DEF P, step
<1>7. Passes(m, end, P, step)
  BY <1>4, <1>5 DEF Passes
<1>8. PICK h : Iterates(h, m, end, P, step)
  BY <1>1, <1>7, Iteration
<1> DEFINE After(j, f) == IF j = 0 THEN s
                           ELSE IF j - 1 \in area.pages /\ f[j - 1].ok
                                THEN MapNew(f[j - 1], j - 1, area.write, Image)
                           ELSE f[j - 1]
<1>9. ASSUME NEW f, NEW j \in 0 .. end, j # 0
      PROVE  j - 1 \in 0 .. end - 1 /\ (j - 1) + 1 = j /\ After(j, f) = Body(f[j - 1], j - 1)
  <2>1. j - 1 \in 0 .. end - 1 /\ (j - 1) + 1 = j
    BY <1>1, <1>9
  <2> QED BY <1>9, <2>1
<1> HIDE DEF Body
<1>10. h = [j \in 0 .. end |-> After(j, h)]
  <2>1. ASSUME NEW j \in 0 .. end PROVE h[j] = After(j, h)
    <3>1. CASE j = 0
      BY <1>2, <1>8, <3>1 DEF Iterates
    <3>2. CASE j # 0
      <4>1. j - 1 \in 0 .. end - 1 /\ (j - 1) + 1 = j /\ After(j, h) = Body(h[j - 1], j - 1)
        BY <1>9, <3>2
      <4>2. h[j - 1] \in P[j - 1] /\ h[j] = step[<<h[j - 1], j - 1>>]
        <5>1. j - 1 \in 0 .. end
          BY <1>1, <4>1
        <5> QED BY <1>8, <4>1, <5>1 DEF Iterates
      <4> HIDE DEF After
      <4> QED BY <1>4, <4>1, <4>2
    <3> QED BY <3>1, <3>2
  <2>2. h = [j \in 0 .. end |-> h[j]]
    BY <1>8 DEF Iterates
  <2> HIDE DEF After
  <2> QED BY <2>1, <2>2
<1>11. PICK g : g = [j \in 0 .. end |-> After(j, g)] /\ new = g[end]
  <2> DEFINE g == CHOOSE f : f = [j \in 0 .. end |-> After(j, f)]
  <2>1. g = [j \in 0 .. end |-> After(j, g)]
    BY <1>10
  <2>2. new = g[end]
    BY DEF LoadPages
  <2> QED BY <2>1, <2>2
<1>12. g[0] = m
  BY <1>1, <1>2, <1>11
<1>13. ASSUME NEW j \in 0 .. end - 1, g[j] \in P[j] PROVE g[j + 1] = step[<<g[j], j>>]
  <2>1. j + 1 \in 0 .. end /\ j + 1 # 0 /\ (j + 1) - 1 = j
    BY <1>1
  <2>2. g[j + 1] = After(j + 1, g)
    BY <1>11, <2>1
  <2> HIDE DEF After
  <2>3. g[j + 1] = Body(g[j], j)
    BY <1>9, <2>1, <2>2
  <2> QED BY <1>4, <1>13, <2>3
<1>14. g[end] \in P[end]
  BY <1>1, <1>7, <1>12, <1>13, IterationEnds
<1> QED BY <1>6, <1>11, <1>14

\* The areas of q are the first n of prog.
First(q, prog, n) == q \in Seq(Vma) /\ Len(q) = n /\ \A i \in 1 .. n : q[i] = prog[i]

LoadedAreas(x, prog, n, r) ==
    r.ok => /\ Sound(x, r) /\ r.pgdir # 0 /\ First(r.areas, prog, n)
            /\ \A v \in UserPage :
                View(r)[v] = IF \E i \in 1 .. n : v \in prog[i].pages THEN <<Image>> ELSE <<>>

\* t is r with area j + 1 of prog, and its pages below end.
PartLoaded(x, prog, j, r, end, t) ==
    t.ok => /\ r.ok /\ Sound(x, t) /\ t.pgdir # 0 /\ First(t.areas, prog, j + 1)
            /\ \A v \in UserPage :
                View(t)[v] = IF v \in prog[j + 1].pages /\ v < end THEN <<Image>>
                             ELSE View(r)[v]

LEMMA AreaPart ==
  ASSUME NEW x, NEW prog \in Seq(Vma), \A i \in 1 .. Len(prog) : prog[i] \in x.areas,
         NEW j \in 0 .. Len(prog) - 1, NEW r \in Midway, LoadedAreas(x, prog, j, r),
         NEW end \in 0 .. USTACKTOP,
         NEW t, t = LoadPart(r, prog[j + 1], end)
  PROVE  t \in Midway /\ PartLoaded(x, prog, j, r, end, t)
<1>1. PICK area, q, u, w : /\ area = prog[j + 1] /\ q = Append(r.areas, area)
                           /\ u = [r EXCEPT !.areas = q] /\ w = LoadPages(u, area, end)
  OBVIOUS
<1>2. Len(prog) \in Nat /\ j \in Nat /\ j + 1 \in 1 .. Len(prog)
      /\ \A i \in 1 .. Len(prog) : prog[i] \in Vma /\ prog[i].pages \subseteq UserPage
  BY AreaTyped
<1>3. area \in Vma /\ area.pages \subseteq UserPage /\ area \in x.areas
  BY <1>1, <1>2
<1>4. r.areas \in Seq(Vma)
  BY DEF Midway
<1>5. q \in Seq(Vma) /\ Len(q) = Len(r.areas) + 1 /\ q[Len(r.areas) + 1] = area
      /\ \A i \in 1 .. Len(r.areas) : q[i] = r.areas[i]
  BY <1>1, <1>3, <1>4
<1>6. u \in Midway /\ u.ok = r.ok /\ u.areas = q
  BY <1>1, <1>5 DEF Midway
<1>7. u.ok => Sound(x, u) /\ View(u) = View(r) /\ u.pgdir = r.pgdir
  <2>1. SUFFICES ASSUME r.ok PROVE Sound(x, u) /\ View(u) = View(r) /\ u.pgdir = r.pgdir
    BY <1>6
  <2>2. Sound(x, r)
    BY <2>1 DEF LoadedAreas
  <2>3. Relisted(x, r, u)
    BY <1>1, <1>5, <2>2, AreasSound
  <2> QED BY <2>3 DEF Relisted
<1>8. t = w
  BY <1>1 DEF LoadPart
<1>9. w \in Midway /\ LoadedPages(x, u, area, end, w)
  <2>1. u.ok => Sound(x, u)
    BY <1>7
  <2> QED BY <1>1, <1>3, <1>6, <2>1, LoadsPages
<1>10. ASSUME w.ok
       PROVE  /\ r.ok /\ Sound(x, w) /\ w.pgdir # 0 /\ First(w.areas, prog, j + 1)
              /\ \A v \in UserPage :
                   View(w)[v] = IF v \in area.pages /\ v < end THEN <<Image>> ELSE View(r)[v]
  <2>1. /\ r.ok /\ Sound(x, w) /\ w.pgdir = u.pgdir /\ w.areas = q
        /\ \A v \in UserPage :
             View(w)[v] = IF v \in area.pages /\ v < end THEN <<Image>> ELSE View(u)[v]
    BY <1>6, <1>9, <1>10 DEF LoadedPages
  <2>2. r.pgdir # 0 /\ First(r.areas, prog, j)
    BY <2>1 DEF LoadedAreas
  <2>3. w.pgdir # 0 /\ View(u) = View(r)
    BY <1>6, <1>7, <2>1, <2>2
  <2>4. First(w.areas, prog, j + 1)
    <3>1. Len(r.areas) = j /\ \A i \in 1 .. j : r.areas[i] = prog[i]
      BY <2>2 DEF First
    <3>2. Len(q) = j + 1
      BY <1>5, <3>1
    <3>3. ASSUME NEW i \in 1 .. j + 1 PROVE q[i] = prog[i]
      <4>1. i = j + 1 \/ i \in 1 .. j
        BY <1>2
      <4> QED BY <1>1, <1>5, <3>1, <4>1
    <3> QED BY <1>5, <2>1, <3>2, <3>3 DEF First
  <2> QED BY <2>1, <2>3, <2>4
<1> QED BY <1>1, <1>8, <1>9, <1>10 DEF PartLoaded

LEMMA AreasOne ==
  ASSUME NEW x, NEW prog \in Seq(Vma), \A i \in 1 .. Len(prog) : prog[i] \in x.areas,
         NEW j \in 0 .. Len(prog) - 1, NEW r \in Midway, LoadedAreas(x, prog, j, r),
         NEW t, t = LoadArea(r, prog[j + 1])
  PROVE  t \in Midway /\ LoadedAreas(x, prog, j + 1, t)
<1>1. USTACKTOP \in 0 .. USTACKTOP /\ \A v \in UserPage : v < USTACKTOP
  BY VmAssumption DEF UserPage
<1>2. t = LoadPart(r, prog[j + 1], USTACKTOP)
  BY DEF LoadArea
<1>3. t \in Midway /\ PartLoaded(x, prog, j, r, USTACKTOP, t)
  BY <1>1, <1>2, AreaPart
<1>4. ASSUME t.ok, NEW v \in UserPage
      PROVE  View(t)[v] = IF \E i \in 1 .. j + 1 : v \in prog[i].pages THEN <<Image>> ELSE <<>>
  <2>1. /\ View(t)[v] = IF v \in prog[j + 1].pages THEN <<Image>> ELSE View(r)[v]
        /\ View(r)[v] = IF \E i \in 1 .. j : v \in prog[i].pages THEN <<Image>> ELSE <<>>
    BY <1>1, <1>3, <1>4 DEF PartLoaded, LoadedAreas
  <2>2. (\E i \in 1 .. j + 1 : v \in prog[i].pages) <=>
          v \in prog[j + 1].pages \/ \E i \in 1 .. j : v \in prog[i].pages
    <3>1. j \in Nat /\ \A i \in 1 .. j + 1 : i = j + 1 \/ i \in 1 .. j
      BY AreaTyped
    <3>2. j + 1 \in 1 .. j + 1 /\ \A i \in 1 .. j : i \in 1 .. j + 1
      BY <3>1
    <3> QED BY <3>1, <3>2
  <2> QED BY <2>1, <2>2
<1> QED BY <1>3, <1>4 DEF PartLoaded, LoadedAreas

LEMMA LoadsAreas ==
  ASSUME NEW x, NEW prog \in Seq(Vma), \A i \in 1 .. Len(prog) : prog[i] \in x.areas,
         NEW s, Sound(x, s), s.ok, Gone(s),
         NEW new, new = LoadAreas(s, prog)
  PROVE  new \in Midway /\ LoadedAreas(x, prog, Len(prog), new)
<1>1. Len(prog) \in Nat
  BY AreaTyped
<1>2. PICK m : m = setup_pgdir(s)
  OBVIOUS
<1>3. m \in Midway /\ LoadedAreas(x, prog, 0, m)
  <2>1. m \in Midway /\ (m.ok => Sound(x, m) /\ m.pgdir # 0 /\ NoPages(m) /\ m.areas = <<>>)
    <3>1. Bare(s) /\ s.areas = <<>>
      BY DEF Gone
    <3>2. m \in Midway /\ (m.ok => Sound(x, m) /\ m.pgdir # 0 /\ NoPages(m) /\ m.areas = s.areas)
      BY <1>2, <3>1, SetupPgdirIs
    <3> QED BY <3>1, <3>2
  <2>2. First(<<>>, prog, 0)
    <3>1. PICK q : q = <<>>
      OBVIOUS
    <3>2. q \in Seq(Vma) /\ Len(q) = 0
      BY <3>1
    <3>3. \A i \in 1 .. 0 : q[i] = prog[i]
      OBVIOUS
    <3>4. First(q, prog, 0)
      BY <3>2, <3>3 DEF First
    <3> QED BY <3>1, <3>4
  <2>3. \A v \in UserPage : ~ \E i \in 1 .. 0 : v \in prog[i].pages
    OBVIOUS
  <2>4. m.ok => \A v \in UserPage : View(m)[v] = <<>>
    BY <2>1, ViewBare
  <2> QED BY <2>1, <2>2, <2>3, <2>4 DEF LoadedAreas
<1> DEFINE Body(r, j) == LoadArea(r, prog[j + 1])
           P == [j \in 0 .. Len(prog) |-> {r \in Midway : LoadedAreas(x, prog, j, r)}]
           step == [y \in Midway \X (0 .. Len(prog) - 1) |-> Body(y[1], y[2])]
<1>4. ASSUME NEW j \in 0 .. Len(prog) - 1, NEW r \in P[j]
      PROVE  step[<<r, j>>] = Body(r, j) /\ step[<<r, j>>] \in P[j + 1]
  <2>1. j \in 0 .. Len(prog) /\ j + 1 \in 0 .. Len(prog)
    BY <1>1
  <2>2. r \in Midway /\ LoadedAreas(x, prog, j, r)
    BY <2>1
  <2>3. PICK t : t = Body(r, j)
    OBVIOUS
  <2>4. step[<<r, j>>] = t
    BY <2>2, <2>3
  <2>5. t = LoadArea(r, prog[j + 1])
    BY <2>3
  <2>6. t \in Midway /\ LoadedAreas(x, prog, j + 1, t)
    BY <2>2, <2>5, AreasOne
  <2>7. t \in P[j + 1]
    BY <2>1, <2>6
  <2> QED BY <2>3, <2>4, <2>7
<1>5. m \in P[0]
  BY <1>1, <1>3
<1>6. P[Len(prog)] = {r \in Midway : LoadedAreas(x, prog, Len(prog), r)}
  BY <1>1
<1> HIDE DEF P, step
<1>7. Passes(m, Len(prog), P, step)
  BY <1>4, <1>5 DEF Passes
<1>8. PICK h : Iterates(h, m, Len(prog), P, step)
  BY <1>1, <1>7, Iteration
<1> DEFINE After(j, f) == IF j = 0 THEN setup_pgdir(s) ELSE LoadArea(f[j - 1], prog[j])
<1>9. ASSUME NEW f, NEW j \in 0 .. Len(prog), j # 0
      PROVE  j - 1 \in 0 .. Len(prog) - 1 /\ (j - 1) + 1 = j /\ After(j, f) = Body(f[j - 1], j - 1)
  <2>1. j - 1 \in 0 .. Len(prog) - 1 /\ (j - 1) + 1 = j
    BY <1>1, <1>9
  <2> QED BY <1>9, <2>1
<1> HIDE DEF Body
<1>10. h = [j \in 0 .. Len(prog) |-> After(j, h)]
  <2>1. ASSUME NEW j \in 0 .. Len(prog) PROVE h[j] = After(j, h)
    <3>1. CASE j = 0
      BY <1>2, <1>8, <3>1 DEF Iterates
    <3>2. CASE j # 0
      <4>1. j - 1 \in 0 .. Len(prog) - 1 /\ (j - 1) + 1 = j /\ After(j, h) = Body(h[j - 1], j - 1)
        BY <1>9, <3>2
      <4>2. h[j - 1] \in P[j - 1] /\ h[j] = step[<<h[j - 1], j - 1>>]
        <5>1. j - 1 \in 0 .. Len(prog)
          BY <1>1, <4>1
        <5> QED BY <1>8, <4>1, <5>1 DEF Iterates
      <4> HIDE DEF After
      <4> QED BY <1>4, <4>1, <4>2
    <3> QED BY <3>1, <3>2
  <2>2. h = [j \in 0 .. Len(prog) |-> h[j]]
    BY <1>8 DEF Iterates
  <2> HIDE DEF After
  <2> QED BY <2>1, <2>2
<1>11. PICK g : g = [j \in 0 .. Len(prog) |-> After(j, g)] /\ new = g[Len(prog)]
  <2> DEFINE g == CHOOSE f : f = [j \in 0 .. Len(prog) |-> After(j, f)]
  <2>1. g = [j \in 0 .. Len(prog) |-> After(j, g)]
    BY <1>10
  <2>2. new = g[Len(prog)]
    BY DEF LoadAreas
  <2> QED BY <2>1, <2>2
<1>12. g[0] = m
  BY <1>1, <1>2, <1>11
<1>13. ASSUME NEW j \in 0 .. Len(prog) - 1, g[j] \in P[j] PROVE g[j + 1] = step[<<g[j], j>>]
  <2>1. j + 1 \in 0 .. Len(prog) /\ j + 1 # 0 /\ (j + 1) - 1 = j
    BY <1>1
  <2>2. g[j + 1] = After(j + 1, g)
    BY <1>11, <2>1
  <2> HIDE DEF After
  <2>3. g[j + 1] = Body(g[j], j)
    BY <1>9, <2>1, <2>2
  <2> QED BY <1>4, <1>13, <2>3
<1>14. g[Len(prog)] \in P[Len(prog)]
  BY <1>1, <1>7, <1>12, <1>13, IterationEnds
<1> QED BY <1>6, <1>11, <1>14

Relisting(s) == [s EXCEPT !.areas = Append(@, StackArea)]

\* r is s with the area of the stack and n of its pages.
Stacked(x, s, n, r) ==
    r.ok => /\ s.ok /\ Sound(x, r) /\ r.pgdir = s.pgdir
            /\ r.areas = Append(s.areas, StackArea)
            /\ \A v \in UserPage :
                View(r)[v] = IF v >= USTACKTOP - n THEN <<Leftover>> ELSE View(s)[v]

LEMMA StackIs ==
  /\ StackArea \in Vma /\ StackArea.write = TRUE /\ NStack \in Nat
  /\ StackArea.pages = USTACKTOP - USTACKPAGE .. USTACKTOP - 1
  /\ StackTop \subseteq StackArea.pages
  /\ \A n \in 0 .. NStack - 1 : USTACKTOP - (n + 1) \in StackArea.pages
                             /\ USTACKTOP - (n + 1) \in UserPage
<1>1. StackArea.pages = USTACKTOP - USTACKPAGE .. USTACKTOP - 1 /\ StackArea.write = TRUE
  BY DEF StackArea
<1>2. USTACKTOP - USTACKPAGE .. USTACKTOP - 1 \subseteq UserPage
  BY VmAssumption DEF UserPage
<1>3. StackArea \in Vma
  BY <1>2 DEF StackArea, Vma
<1> QED BY <1>1, <1>3, VmAssumption DEF UserPage, StackTop

LEMMA StackOne ==
  ASSUME NEW x, StackArea \in x.areas, NEW s, NEW j \in 0 .. NStack - 1,
         NEW r \in Midway, Stacked(x, s, j, r),
         NEW t, t = IF r.ok THEN pgdir_alloc_page(r, USTACKTOP - (j + 1), StackArea.write) ELSE r
  PROVE  t \in Midway /\ Stacked(x, s, j + 1, t)
<1>1. CASE ~ r.ok
  BY <1>1 DEF Stacked
<1>2. CASE r.ok
  <2>1. /\ s.ok /\ Sound(x, r) /\ r.pgdir = s.pgdir /\ r.areas = Append(s.areas, StackArea)
        /\ \A v \in UserPage :
             View(r)[v] = IF v >= USTACKTOP - j THEN <<Leftover>> ELSE View(s)[v]
    BY <1>2 DEF Stacked
  <2>2. PICK w, write : w = USTACKTOP - (j + 1) /\ write = StackArea.write
    OBVIOUS
  <2>3. w \in UserPage /\ w \in StackArea.pages /\ write = TRUE
    BY <2>2, StackIs
  <2>4. Covers(x.areas, w, write) /\ Leftover \in Value /\ write \in BOOLEAN
    BY <2>2, <2>3, Bounds DEF Covers
  <2>5. t = MapNew(r, w, write, Leftover)
    BY <1>2, <2>2 DEF pgdir_alloc_page
  <2>6. t \in Midway /\ (t.ok => Mapped(x, r, t, w, Leftover))
    BY <1>2, <2>1, <2>3, <2>4, <2>5, MapNewIs
  <2>7. \A v \in UserPage : v >= USTACKTOP - (j + 1) <=> v >= USTACKTOP - j \/ v = w
    BY <2>2, StackIs, VmAssumption DEF UserPage
  <2>8. ASSUME t.ok
        PROVE  /\ s.ok /\ Sound(x, t) /\ t.pgdir = s.pgdir /\ t.areas = Append(s.areas, StackArea)
               /\ \A v \in UserPage :
                    View(t)[v] = IF v >= USTACKTOP - (j + 1) THEN <<Leftover>> ELSE View(s)[v]
    <3>1. View(r) = [v \in UserPage |-> View(r)[v]]
      BY DEF View
    <3>2. View(t) = [View(r) EXCEPT ![w] = <<Leftover>>]
      BY <2>6, <2>8 DEF Mapped
    <3>3. View(t)[w] = <<Leftover>> /\ \A v \in UserPage \ {w} : View(t)[v] = View(r)[v]
      BY <2>3, <3>1, <3>2
    <3>4. \A v \in UserPage :
            View(t)[v] = IF v >= USTACKTOP - (j + 1) THEN <<Leftover>> ELSE View(s)[v]
      BY <2>1, <2>7, <3>3
    <3> QED BY <2>1, <2>6, <2>8, <3>4 DEF Mapped, Same
  <2> QED BY <2>6, <2>8 DEF Stacked
<1> QED BY <1>1, <1>2

LEMMA StacksAll ==
  ASSUME NEW x, StackArea \in x.areas, NEW s \in Midway, s.ok => Sound(x, s),
         NEW new, new = LoadStack(s)
  PROVE  new \in Midway /\ Stacked(x, s, NStack, new)
<1>1. NStack \in Nat
  BY StackIs
<1>2. PICK m : m = Relisting(s)
  OBVIOUS
<1>3. m \in Midway /\ Stacked(x, s, 0, m)
  <2>1. PICK q : q = Append(s.areas, StackArea)
    OBVIOUS
  <2>2. q \in Seq(Vma)
    <3>1. s.areas \in Seq(Vma)
      BY DEF Midway
    <3> QED BY <2>1, <3>1, StackIs
  <2>3. m = [s EXCEPT !.areas = q]
    BY <1>2, <2>1 DEF Relisting
  <2>4. m \in Midway /\ m.ok = s.ok
    BY <2>2, <2>3 DEF Midway
  <2>5. s.ok => Relisted(x, s, m) /\ m.areas = q
    BY <2>2, <2>3, AreasSound
  <2>6. \A v \in UserPage : ~ v >= USTACKTOP - 0
    BY VmAssumption DEF UserPage
  <2> QED BY <2>1, <2>4, <2>5, <2>6 DEF Stacked, Relisted
<1> DEFINE Body(r, j) == IF r.ok THEN pgdir_alloc_page(r, USTACKTOP - (j + 1), StackArea.write) ELSE r
           P == [j \in 0 .. NStack |-> {r \in Midway : Stacked(x, s, j, r)}]
           step == [y \in Midway \X (0 .. NStack - 1) |-> Body(y[1], y[2])]
<1>4. ASSUME NEW j \in 0 .. NStack - 1, NEW r \in P[j]
      PROVE  step[<<r, j>>] = Body(r, j) /\ step[<<r, j>>] \in P[j + 1]
  <2>1. j \in 0 .. NStack /\ j + 1 \in 0 .. NStack
    BY <1>1
  <2>2. r \in Midway /\ Stacked(x, s, j, r)
    BY <2>1
  <2>3. PICK t : t = Body(r, j)
    OBVIOUS
  <2>4. step[<<r, j>>] = t
    BY <2>2, <2>3
  <2>5. t = IF r.ok THEN pgdir_alloc_page(r, USTACKTOP - (j + 1), StackArea.write) ELSE r
    BY <2>3
  <2>6. t \in Midway /\ Stacked(x, s, j + 1, t)
    BY <2>2, <2>5, StackOne
  <2>7. t \in P[j + 1]
    BY <2>1, <2>6
  <2> QED BY <2>3, <2>4, <2>7
<1>5. m \in P[0]
  BY <1>1, <1>3
<1>6. P[NStack] = {r \in Midway : Stacked(x, s, NStack, r)}
  BY <1>1
<1> HIDE DEF P, step
<1>7. Passes(m, NStack, P, step)
  BY <1>4, <1>5 DEF Passes
<1>8. PICK h : Iterates(h, m, NStack, P, step)
  BY <1>1, <1>7, Iteration
<1> DEFINE After(j, f) == IF j = 0 THEN [s EXCEPT !.areas = Append(@, StackArea)]
                           ELSE IF f[j - 1].ok
                                THEN pgdir_alloc_page(f[j - 1], USTACKTOP - j, StackArea.write)
                           ELSE f[j - 1]
<1>9. ASSUME NEW f, NEW j \in 0 .. NStack, j # 0
      PROVE  j - 1 \in 0 .. NStack - 1 /\ (j - 1) + 1 = j /\ After(j, f) = Body(f[j - 1], j - 1)
  <2>1. j - 1 \in 0 .. NStack - 1 /\ (j - 1) + 1 = j
    BY <1>1, <1>9
  <2> QED BY <1>9, <2>1
<1> HIDE DEF Body
<1>10. h = [j \in 0 .. NStack |-> After(j, h)]
  <2>1. ASSUME NEW j \in 0 .. NStack PROVE h[j] = After(j, h)
    <3>1. CASE j = 0
      BY <1>2, <1>8, <3>1 DEF Iterates, Relisting
    <3>2. CASE j # 0
      <4>1. j - 1 \in 0 .. NStack - 1 /\ (j - 1) + 1 = j /\ After(j, h) = Body(h[j - 1], j - 1)
        BY <1>9, <3>2
      <4>2. h[j - 1] \in P[j - 1] /\ h[j] = step[<<h[j - 1], j - 1>>]
        <5>1. j - 1 \in 0 .. NStack
          BY <1>1, <4>1
        <5> QED BY <1>8, <4>1, <5>1 DEF Iterates
      <4> HIDE DEF After
      <4> QED BY <1>4, <4>1, <4>2
    <3> QED BY <3>1, <3>2
  <2>2. h = [j \in 0 .. NStack |-> h[j]]
    BY <1>8 DEF Iterates
  <2> HIDE DEF After
  <2> QED BY <2>1, <2>2
<1>11. PICK g : g = [j \in 0 .. NStack |-> After(j, g)] /\ new = g[NStack]
  <2> DEFINE g == CHOOSE f : f = [j \in 0 .. NStack |-> After(j, f)]
  <2>1. g = [j \in 0 .. NStack |-> After(j, g)]
    BY <1>10
  <2>2. new = g[NStack]
    BY DEF LoadStack
  <2> QED BY <2>1, <2>2
<1>12. g[0] = m
  BY <1>1, <1>2, <1>11 DEF Relisting
<1>13. ASSUME NEW j \in 0 .. NStack - 1, g[j] \in P[j] PROVE g[j + 1] = step[<<g[j], j>>]
  <2>1. j + 1 \in 0 .. NStack /\ j + 1 # 0 /\ (j + 1) - 1 = j
    BY <1>1
  <2>2. g[j + 1] = After(j + 1, g)
    BY <1>11, <2>1
  <2> HIDE DEF After
  <2>3. g[j + 1] = Body(g[j], j)
    BY <1>9, <2>1, <2>2
  <2> QED BY <1>4, <1>13, <2>3
<1>14. g[NStack] \in P[NStack]
  BY <1>1, <1>7, <1>12, <1>13, IterationEnds
<1> QED BY <1>6, <1>11, <1>14

-----------------------------------------------------------------------------
(* What a call on the memory of p leaves behind.                            *)

\* Frames of the other processes.
Rest(p) == UNION {Owned(q) : q \in User \ {p}}

Context(p, A) == [others |-> Stack(kstack[p]) \cup Rest(p), ref |-> ref, mem |-> mem, areas |-> A]

LEMMA MapsAre ==
  ASSUME NEW m, NEW f
  PROVE  f \in Maps(m) <=> f # 0 /\ \E i \in Place : Names(m)[i] = f
BY DEF Maps

LEMMA RestIs ==
  ASSUME NEW p, NEW f
  PROVE  f \in Rest(p) <=> \E q \in User : q # p /\ f \in Owned(q)
BY DEF Rest

LEMMA NamesTyped ==
  ASSUME NEW m \in Memory
  PROVE  Names(m) \in [Place -> Number]
<1>1. m.pgdir \in Number /\ m.table \in [Tables -> Number] /\ m.pte \in [UserPage -> Pte]
  BY DEF Memory
<1>2. \A e \in Pte : e.frame \in Number
  BY DEF Pte
<1>3. ASSUME NEW i \in Place PROVE Names(m)[i] \in Number
  <2>1. CASE i = AtDir
    BY <1>1, <2>1, NamesAt
  <2>2. CASE \E t \in Tables : i = AtTable(t)
    BY <1>1, <2>2, NamesAt
  <2>3. CASE \E v \in UserPage : i = AtPage(v)
    <3>1. PICK v \in UserPage : i = AtPage(v)
      BY <2>3
    <3>2. m.pte[v] \in Pte /\ Names(m)[i] = m.pte[v].frame
      BY <1>1, <3>1, NamesAt
    <3> QED BY <1>2, <3>2
  <2> QED BY <2>1, <2>2, <2>3, Places
<1>4. Names(m) = [i \in Place |-> Names(m)[i]]
  BY DEF Names
<1> QED BY <1>3, <1>4

LEMMA PartitionOf ==
  ASSUME VmTypeOK, OwnersInv, NEW p \in User
  PROVE  Partition(Stack(kstack[p]) \cup Rest(p), free, Names(mm[p]))
<1>1. PICK N, S : N = Names(mm[p]) /\ S = Stack(kstack[p])
  OBVIOUS
<1>2. N \in [Place -> Number]
  <2>1. mm[p] \in Memory
    BY DEF VmTypeOK
  <2> QED BY <1>1, <2>1, NamesTyped
<1>3. \A i \in Place : N[i] # 0 => N[i] \in Maps(mm[p])
  BY <1>1, MapsAre
<1>4. Owned(p) = S \cup Maps(mm[p])
  BY <1>1 DEF Owned
<1>5. Owned(p) \subseteq Frame \ free /\ \A q \in User : q # p =>
        Owned(q) \subseteq Frame \ free /\ Owned(p) \cap Owned(q) = {}
  BY DEF OwnersInv
<1>6. S \cap Maps(mm[p]) = {} /\ free \subseteq Frame /\ 0 \notin Frame
  BY <1>1, Bounds DEF OwnersInv, VmTypeOK
<1>7. S \cup Rest(p) \subseteq Frame /\ (S \cup Rest(p)) \cap free = {}
  BY <1>4, <1>5, RestIs
<1>8. \A i \in Place : N[i] \notin free /\ N[i] \notin S \cup Rest(p)
  BY <1>3, <1>4, <1>5, <1>6, <1>7, RestIs
<1>9. \A i, j \in Place : N[i] = N[j] /\ N[i] # 0 => i = j
  BY <1>1 DEF OwnersInv
<1>10. ASSUME NEW f \in Frame
       PROVE  f \in free \/ f \in S \cup Rest(p) \/ \E i \in Place : N[i] = f
  <2>1. f \in free \/ \E q \in User : f \in Owned(q)
    BY DEF OwnersInv
  <2>2. f \in free \/ f \in Owned(p) \/ f \in Rest(p)
    BY <2>1, RestIs
  <2> QED BY <1>1, <1>4, <2>2, MapsAre
<1> QED BY <1>1, <1>2, <1>6, <1>7, <1>8, <1>9, <1>10 DEF Partition

\* With the memory of p, a call starts from a sound state.
LEMMA WithSound ==
  ASSUME VmInv, NEW p \in User, NEW s, s = With(mm[p])
  PROVE  Sound(Context(p, AreasOf(mm[p])), s)
<1>1. PICK x, m : x = Context(p, AreasOf(mm[p])) /\ m = mm[p]
  OBVIOUS
<1>2. m \in Memory
  BY <1>1 DEF VmInv, VmTypeOK
<1>3. /\ s.pgdir = m.pgdir /\ s.table = m.table /\ s.pte = m.pte /\ s.areas = m.areas
      /\ s.free = free /\ s.ref = ref /\ s.mem = mem
  BY <1>1 DEF With
<1>4. s \in Midway
  <2>1. m.pgdir \in Number /\ m.table \in [Tables -> Number] /\ m.pte \in [UserPage -> Pte]
        /\ m.areas \in Seq(Vma)
    BY <1>2 DEF Memory
  <2>2. free \in SUBSET Frame /\ ref \in [Frame -> Int] /\ mem \in [Frame -> Value]
        /\ 0 \in Number /\ TRUE \in BOOLEAN
    BY Bounds DEF VmInv, VmTypeOK
  <2> QED BY <1>1, <2>1, <2>2 DEF With, Midway
<1>5. x.others = Stack(kstack[p]) \cup Rest(p) /\ x.ref = ref /\ x.mem = mem
      /\ x.areas = AreasOf(m)
  BY <1>1 DEF Context
<1>6. Names(s) = Names(m)
  BY <1>3, SameNames
<1>7. Partition(x.others, s.free, Names(s))
  BY <1>1, <1>3, <1>5, <1>6, PartitionOf DEF VmInv
<1>8. Lies(s, s.ref, x.areas)
  <2>1. Lies(m, ref, AreasOf(m))
    BY <1>1 DEF VmInv, MapsInv
  <2>2. Lies(s, ref, AreasOf(m))
    BY <1>3, <2>1, SameLies
  <2> QED BY <1>3, <1>5, <2>2
<1>9. \A f \in s.free : s.ref[f] = 0
  BY <1>3 DEF VmInv, OwnersInv
<1>10. Sound(x, s)
  BY <1>3, <1>4, <1>5, <1>7, <1>8, <1>9 DEF Sound
<1> QED BY <1>1, <1>10

\* The step of a call on p that leaves s, under the stack k.
Calls(p, x, s, k) ==
    /\ Sound(x, s) /\ s.ok /\ x.areas = AreasOf(s)
    /\ x.others = Stack(k) \cup Rest(p) /\ Stack(k) \cap Rest(p) = {}
    /\ x.ref = ref /\ x.mem = mem
    /\ k \in Number /\ \A f \in Stack(k) : f \in Frame /\ ref[f] = 0
    /\ kstack' = [kstack EXCEPT ![p] = k]
    /\ \E st \in {"none", "live", "zombie"} :
        /\ status' = [status EXCEPT ![p] = st]
        /\ st = "none" <=> k = 0
        /\ st # "live" \/ s.pgdir = 0 => MmOf(s) = NoMm
    /\ mm' = [mm EXCEPT ![p] = MmOf(s)]
    /\ free' = s.free /\ ref' = s.ref /\ mem' = s.mem /\ stopped' = stopped

LEMMA MmOfTyped ==
  ASSUME NEW s \in Midway, NEW m, m = MmOf(s)
  PROVE  m \in Memory /\ m.pgdir = s.pgdir /\ m.table = s.table /\ m.pte = s.pte
         /\ m.areas = s.areas
<1>1. s.pgdir \in Number /\ s.table \in [Tables -> Number] /\ s.pte \in [UserPage -> Pte]
      /\ s.areas \in Seq(Vma)
  BY DEF Midway
<1> QED BY <1>1 DEF Memory, MmOf

LEMMA VmCallKeeps ==
  ASSUME VmInv, NEW p \in User, NEW x, NEW s, NEW k, Calls(p, x, s, k)
  PROVE  VmInv'
<1>1. PICK m : m = MmOf(s)
  OBVIOUS
<1>2. s \in Midway
  BY DEF Calls, Sound
<1>3. m \in Memory /\ m.pgdir = s.pgdir /\ m.table = s.table /\ m.pte = s.pte /\ m.areas = s.areas
  BY <1>1, <1>2, MmOfTyped
<1>4. mm'[p] = m /\ \A q \in User \ {p} : mm'[q] = mm[q]
  BY <1>1 DEF Calls, VmInv, VmTypeOK
<1>5. kstack'[p] = k /\ \A q \in User \ {p} : kstack'[q] = kstack[q]
  BY DEF Calls, VmInv, VmTypeOK
<1>6. /\ (status'[p] = "none" <=> k = 0)
      /\ (status'[p] # "live" \/ m.pgdir = 0 => m = NoMm)
      /\ \A q \in User \ {p} : status'[q] = status[q]
  BY <1>1, <1>3 DEF Calls, VmInv, VmTypeOK
<1>7. VmTypeOK'
  <2>1. status' \in [User -> {"none", "live", "zombie"}] /\ kstack' \in [User -> Number]
    BY DEF Calls, VmInv, VmTypeOK
  <2>2. mm' \in [User -> Memory]
    BY <1>1, <1>3 DEF Calls, VmInv, VmTypeOK
  <2>3. free' \subseteq Frame /\ ref' \in [Frame -> Int] /\ mem' \in [Frame -> Value]
    BY <1>2 DEF Calls, Midway
  <2>4. stopped' \in BOOLEAN
    BY DEF Calls, VmInv, VmTypeOK
  <2> QED BY <2>1, <2>2, <2>3, <2>4 DEF VmTypeOK
<1>8. \A f \in Stack(k) \cup Rest(p) : f \in Frame /\ ref'[f] = ref[f] /\ mem'[f] = mem[f]
  BY DEF Calls, Sound, Partition
<1>9. StacksInv'
  <2> SUFFICES ASSUME NEW q \in User
               PROVE  /\ status'[q] = "none" <=> kstack'[q] = 0
                      /\ \A f \in Stack(kstack'[q]) : f \in Frame /\ ref'[f] = 0
    BY DEF StacksInv, Stack
  <2>1. CASE q = p
    BY <1>5, <1>6, <1>8, <2>1 DEF Calls
  <2>2. CASE q # p
    <3>1. \A f \in Stack(kstack[q]) : f \in Rest(p)
      BY <2>2, RestIs DEF Owned
    <3> QED BY <1>5, <1>6, <1>8, <2>2, <3>1 DEF VmInv, StacksInv
  <2> QED BY <2>1, <2>2
<1>10. MapsInv'
  <2> SUFFICES ASSUME NEW q \in User
               PROVE  /\ status'[q] # "live" \/ mm'[q].pgdir = 0 => mm'[q] = NoMm
                      /\ Lies(mm'[q], ref', AreasOf(mm'[q]))
    BY DEF MapsInv, Lies, AreasOf, NoMm
  <2>1. CASE q = p
    <3>1. Lies(s, s.ref, x.areas) /\ ref' = s.ref /\ x.areas = AreasOf(s)
      BY DEF Calls, Sound
    <3>2. AreasOf(m) = AreasOf(s)
      BY <1>3 DEF AreasOf
    <3>3. Lies(m, ref', AreasOf(m))
      BY <1>3, <3>1, <3>2, SameLies
    <3> QED BY <1>4, <1>6, <2>1, <3>3
  <2>2. CASE q # p
    <3>1. Lies(mm[q], ref, AreasOf(mm[q]))
      BY DEF VmInv, MapsInv
    <3>2. \A v \in UserPage : mm[q].pte[v].frame # 0 => mm[q].pte[v].frame \in Rest(p)
      <4>1. \A v \in UserPage : mm[q].pte[v].frame # 0 => mm[q].pte[v].frame \in Maps(mm[q])
        BY NamesAt, Places, MapsAre
      <4> QED BY <2>2, <4>1, RestIs DEF Owned
    <3>3. Lies(mm[q], ref', AreasOf(mm[q]))
      BY <1>8, <3>1, <3>2 DEF Lies
    <3> QED BY <1>4, <1>6, <2>2, <3>3 DEF VmInv, MapsInv
  <2> QED BY <2>1, <2>2
<1>11. PICK N, R, S : N = Names(m) /\ R = Rest(p) /\ S = Stack(k)
  OBVIOUS
<1>12. Partition(S \cup R, free', N) /\ S \cap R = {}
  <2>1. Names(m) = Names(s)
    BY <1>3, SameNames
  <2> QED BY <1>11, <2>1 DEF Calls, Sound
<1>13. Owned(p)' = S \cup Maps(m) /\ \A q \in User \ {p} : Owned(q)' = Owned(q)
  <2>1. Owned(p)' = S \cup Maps(m)
    BY <1>4, <1>5, <1>11 DEF Owned, Stack, Maps, Names
  <2>2. ASSUME NEW q \in User \ {p} PROVE Owned(q)' = Owned(q)
    BY <1>4, <1>5 DEF Owned, Stack, Maps, Names
  <2> QED BY <2>1, <2>2
<1>14. OwnersInv'
  <2>1. ASSUME NEW q \in User, NEW i \in Place, NEW j \in Place,
               Names(mm'[q])[i] = Names(mm'[q])[j], Names(mm'[q])[i] # 0
        PROVE  i = j
    <3>1. CASE q = p
      <4>1. N[i] = N[j] /\ N[i] # 0
        BY <1>4, <1>11, <2>1, <3>1
      <4> QED BY <1>12, <4>1 DEF Partition
    <3>2. CASE q # p
      BY <1>4, <2>1, <3>2 DEF VmInv, OwnersInv
    <3> QED BY <3>1, <3>2
  <2>2. ASSUME NEW q \in User PROVE Stack(kstack'[q]) \cap Maps(mm'[q]) = {}
    <3>1. CASE q = p
      <4>1. S \cap Maps(m) = {}
        BY <1>11, <1>12, MapsAre DEF Partition
      <4> QED BY <1>4, <1>5, <1>11, <3>1, <4>1
    <3>2. CASE q # p
      BY <1>4, <1>5, <3>2 DEF VmInv, OwnersInv
    <3> QED BY <3>1, <3>2
  <2>3. S \cup Maps(m) \subseteq Frame \ free' /\ (S \cup Maps(m)) \cap R = {}
        /\ R \subseteq Frame \ free'
    <3>1. ASSUME NEW f \in Maps(m) PROVE f \in Frame /\ f \notin free' /\ f \notin R
      <4>1. PICK i \in Place : f # 0 /\ N[i] = f
        BY <1>11, <3>1, MapsAre
      <4>2. N[i] \in Number /\ N[i] \notin free' /\ N[i] \notin S \cup R
        BY <1>12 DEF Partition
      <4> QED BY <4>1, <4>2, Bounds
    <3>2. S \cup R \subseteq Frame /\ (S \cup R) \cap free' = {}
      BY <1>12 DEF Partition
    <3> QED BY <1>12, <3>1, <3>2
  <2>4. \A q \in User \ {p} : Owned(q)' \subseteq R
    BY <1>11, <1>13, RestIs
  <2>5. \A q, r \in User : q # r => Owned(q)' \cap Owned(r)' = {}
    <3>1. ASSUME NEW q \in User, NEW r \in User, q # r PROVE Owned(q)' \cap Owned(r)' = {}
      <4>1. CASE q = p
        BY <1>13, <2>3, <2>4, <3>1, <4>1
      <4>2. CASE r = p
        BY <1>13, <2>3, <2>4, <3>1, <4>2
      <4>3. CASE q # p /\ r # p
        BY <1>13, <3>1, <4>3 DEF VmInv, OwnersInv
      <4> QED BY <4>1, <4>2, <4>3
    <3> QED BY <3>1
  <2>6. \A q \in User : Owned(q)' \subseteq Frame \ free'
    BY <1>13, <2>3, <2>4
  <2>7. ASSUME NEW f \in Frame PROVE f \in free' \/ \E q \in User : f \in Owned(q)'
    <3>1. CASE f \in R
      <4>1. PICK q \in User : q # p /\ f \in Owned(q)
        BY <1>11, <3>1, RestIs
      <4> QED BY <1>13, <4>1
    <3>2. CASE \E i \in Place : N[i] = f
      <4>1. f \in Maps(m)
        BY <1>11, <3>2, MapsAre, Bounds
      <4> QED BY <1>13, <4>1
    <3>3. CASE f \in S
      BY <1>13, <3>3
    <3> QED BY <1>12, <3>1, <3>2, <3>3 DEF Partition
  <2>8. \A f \in free' : ref'[f] = 0
    BY DEF Calls, Sound
  <2>9. (\A q \in User : Stack(kstack[q]) \cap Maps(mm[q]) = {})'
    BY <2>2 DEF Stack, Maps, Names
  <2>10. (\A q \in User : \A i, j \in Place :
            Names(mm[q])[i] = Names(mm[q])[j] /\ Names(mm[q])[i] # 0 => i = j)'
    BY <2>1 DEF Names
  <2> QED BY <2>5, <2>6, <2>7, <2>8, <2>9, <2>10 DEF OwnersInv
<1> QED BY <1>7, <1>9, <1>10, <1>14 DEF VmInv



-----------------------------------------------------------------------------
(* The calls.                                                               *)

\* The kernel ends.
Stops == stopped' = TRUE /\ UNCHANGED <<status, kstack, mm, free, ref, mem>>

\* The pages of p, and their contents.
Now(p) == View(With(mm[p]))

\* A call on p leaves s, with the pages and contents V, or ends the kernel.
Leaves(p, V) ==
    Stops \/ \E x, s, k : Calls(p, x, s, k) /\ \A v \in UserPage : View(s)[v] = V[v]

Nobody == [v \in UserPage |-> <<>>]

LEMMA WithFields ==
  ASSUME NEW m, NEW s, s = With(m)
  PROVE  /\ s.pgdir = m.pgdir /\ s.table = m.table /\ s.pte = m.pte /\ s.areas = m.areas
         /\ s.free = free /\ s.ref = ref /\ s.mem = mem /\ s.ok
BY DEF With

LEMMA NoMmGone ==
  ASSUME NEW s, s = With(NoMm)
  PROVE  Gone(s)
<1>1. /\ s.pgdir = 0 /\ s.table = NoMm.table /\ s.pte = NoMm.pte /\ s.areas = <<>>
  BY WithFields DEF NoMm
<1>2. MmOf(s) = NoMm
  BY <1>1 DEF MmOf, NoMm
<1>3. NoPages(s) /\ NoTables(s)
  BY <1>1 DEF NoPages, NoTables, NoMm
<1> QED BY <1>1, <1>2, <1>3 DEF Gone, Bare

\* A descriptor without frames lies wherever one likes.
LEMMA BareSound ==
  ASSUME NEW x, NEW s, Sound(x, s), NoPages(s), NoTables(s), NEW y,
         y.others = x.others, y.ref = x.ref, y.mem = x.mem
  PROVE  Sound(y, s)
<1>1. Lies(s, s.ref, y.areas)
  BY LiesBare DEF NoTables
<1> QED BY <1>1 DEF Sound

\* Before a program is loaded, or taken back.
LEMMA DiscardedIs ==
  ASSUME VmInv, NEW p \in User, NEW t, t = Discard(With(mm[p])), NEW A
  PROVE  Sound(Context(p, A), t) /\ t.ok /\ Gone(t)
<1>1. PICK s, x, y : s = With(mm[p]) /\ x = Context(p, AreasOf(mm[p])) /\ y = Context(p, A)
  OBVIOUS
<1>2. Sound(x, s) /\ s.ok /\ s.pgdir = mm[p].pgdir /\ s.areas = mm[p].areas
  BY <1>1, WithSound, WithFields
<1>3. /\ x.areas = AreasOf(mm[p]) /\ y.others = x.others /\ y.ref = x.ref /\ y.mem = x.mem
  BY <1>1 DEF Context
<1>4. Sound(x, t) /\ t.ok /\ Gone(t)
  <2>1. CASE s.pgdir = 0
    <3>1. mm[p] = NoMm
      BY <1>2, <2>1 DEF VmInv, MapsInv
    <3>2. t = s
      BY <1>1, <2>1 DEF Discard
    <3> QED BY <1>1, <1>2, <3>1, <3>2, NoMmGone
  <2>2. CASE s.pgdir # 0
    <3>1. x.areas = AreasOf(s)
      BY <1>2, <1>3 DEF AreasOf
    <3> QED BY <1>1, <1>2, <2>2, <3>1, DiscardIs
  <2> QED BY <2>1, <2>2
<1>5. Sound(y, t)
  BY <1>3, <1>4, BareSound DEF Gone, Bare
<1> QED BY <1>1, <1>4, <1>5

\* What Calls asks of kstack and status when kstack stays.
LEMMA CallStays ==
  ASSUME VmInv, NEW p \in User, NEW x, NEW s, NEW A, x = Context(p, A), A = AreasOf(s),
         Sound(x, s), s.ok, Becomes(p, s), kstack' = kstack, kstack[p] # 0,
         NEW st \in {"live", "zombie"}, status' = [status EXCEPT ![p] = st],
         st # "live" \/ s.pgdir = 0 => MmOf(s) = NoMm
  PROVE  Calls(p, x, s, kstack[p])
<1>1. x.others = Stack(kstack[p]) \cup Rest(p) /\ x.ref = ref /\ x.mem = mem
      /\ x.areas = AreasOf(s)
  BY DEF Context
<1>2. Stack(kstack[p]) \cap Rest(p) = {}
  BY RestIs DEF VmInv, OwnersInv, Owned
<1>3. kstack[p] \in Number /\ \A f \in Stack(kstack[p]) : f \in Frame /\ ref[f] = 0
  BY DEF VmInv, VmTypeOK, StacksInv
<1>4. kstack' = [kstack EXCEPT ![p] = kstack[p]]
  BY DEF VmInv, VmTypeOK
<1>5. /\ mm' = [mm EXCEPT ![p] = MmOf(s)]
      /\ free' = s.free /\ ref' = s.ref /\ mem' = s.mem /\ stopped' = stopped
  BY DEF Becomes
<1>6. st = "none" <=> kstack[p] = 0
  OBVIOUS
<1>7. \E u \in {"none", "live", "zombie"} :
        /\ status' = [status EXCEPT ![p] = u]
        /\ u = "none" <=> kstack[p] = 0
        /\ u # "live" \/ s.pgdir = 0 => MmOf(s) = NoMm
  BY <1>6
<1> QED BY <1>1, <1>2, <1>3, <1>4, <1>5, <1>7 DEF Calls

LEMMA Alive ==
  ASSUME VmInv, NEW p \in User, Running(p)
  PROVE  kstack[p] # 0 /\ status[p] = "live" /\ status = [status EXCEPT ![p] = "live"]
BY DEF VmInv, VmTypeOK, StacksInv, Running

LEMMA BecomesStops ==
  ASSUME NEW p, NEW s, Becomes(p, s), ~ s.ok
  PROVE  Stops
BY DEF Becomes, Stops

\* What do_exit leaves.
LEMMA EndsIs ==
  ASSUME VmInv, NEW p \in User, Running(p), NEW s, NEW x, x = Context(p, AreasOf(s)),
         s \in Midway, s.ok => Sound(x, s) /\ (s.pgdir = 0 => Gone(s)), Ends(p, s)
  PROVE  Leaves(p, Nobody)
<1>1. CASE ~ s.ok
  <2>1. Discard(s) = s
    BY <1>1 DEF Discard
  <2> QED BY <1>1, <2>1, BecomesStops DEF Ends, Leaves
<1>2. CASE s.ok
  <2>1. PICK t, y : t = Discard(s) /\ y = Context(p, AreasOf(t))
    OBVIOUS
  <2>2. x.areas = AreasOf(s) /\ y.others = x.others /\ y.ref = x.ref /\ y.mem = x.mem
    BY <2>1 DEF Context
  <2>3. Sound(x, t) /\ t.ok /\ Gone(t)
    <3>1. CASE s.pgdir = 0
      <4>1. t = s
        BY <2>1, <3>1 DEF Discard
      <4> QED BY <1>2, <3>1, <4>1
    <3>2. CASE s.pgdir # 0
      BY <1>2, <2>1, <2>2, <3>2, DiscardIs
    <3> QED BY <3>1, <3>2
  <2>4. Sound(y, t)
    BY <2>2, <2>3, BareSound DEF Gone, Bare
  <2>5. Becomes(p, t) /\ status' = [status EXCEPT ![p] = "zombie"] /\ kstack' = kstack
    BY <1>2, <2>1 DEF Ends
  <2>6. kstack[p] # 0 /\ MmOf(t) = NoMm
    BY <2>3, Alive DEF Gone
  <2>7. PICK st : st = "zombie"
    OBVIOUS
  <2>8. PICK A : A = AreasOf(t)
    OBVIOUS
  <2>9. Calls(p, y, t, kstack[p])
    BY <2>1, <2>3, <2>4, <2>5, <2>6, <2>7, <2>8, CallStays
  <2>10. \A v \in UserPage : View(t)[v] = Nobody[v]
    BY <2>3, ViewBare DEF Gone, Bare, Nobody
  <2> QED BY <2>9, <2>10 DEF Leaves
<1> QED BY <1>1, <1>2

LEMMA ExitIs ==
  ASSUME VmInv, NEW p \in User, Exit(p)
  PROVE  Leaves(p, Nobody)
<1>1. PICK s, x : s = With(mm[p]) /\ x = Context(p, AreasOf(s))
  OBVIOUS
<1>2. AreasOf(s) = AreasOf(mm[p]) /\ s.pgdir = mm[p].pgdir
  BY <1>1, WithFields DEF AreasOf
<1>3. Sound(x, s)
  BY <1>1, <1>2, WithSound
<1>4. s.pgdir = 0 => Gone(s)
  <2>1. s.pgdir = 0 => mm[p] = NoMm
    BY <1>2 DEF VmInv, MapsInv
  <2> QED BY <1>1, <2>1, NoMmGone
<1> QED BY <1>1, <1>3, <1>4, EndsIs DEF Exit, Sound

Loaded(prog) == UNION {prog[i].pages : i \in DOMAIN prog}
Fresh(prog) == [v \in UserPage |-> IF v \in Loaded(prog) THEN <<Image>>
                                   ELSE IF v \in StackTop THEN <<Leftover>> ELSE <<>>]

\* The areas of a program.
AreasIn(prog) == {prog[i] : i \in 1 .. Len(prog)}

LEMMA FirstAll ==
  ASSUME NEW q, NEW prog \in Seq(Vma), First(q, prog, Len(prog)), NEW s, s.areas = q
  PROVE  AreasOf(s) = AreasIn(prog) /\ DOMAIN q = 1 .. Len(prog)
<1>1. DOMAIN q = 1 .. Len(prog) /\ \A i \in 1 .. Len(prog) : q[i] = prog[i]
  BY DEF First
<1> QED BY <1>1 DEF AreasOf, AreasIn

LEMMA LoadedIs ==
  ASSUME VmInv, NEW p \in User, NEW prog \in Seq(Vma), NEW A, AreasIn(prog) \subseteq A,
         NEW s, s = LoadAreas(Discard(With(mm[p])), prog), NEW x, x = Context(p, A)
  PROVE  s \in Midway /\ LoadedAreas(x, prog, Len(prog), s)
<1>1. PICK t : t = Discard(With(mm[p]))
  OBVIOUS
<1>2. Sound(x, t) /\ t.ok /\ Gone(t)
  BY <1>1, DiscardedIs
<1>3. \A i \in 1 .. Len(prog) : prog[i] \in x.areas
  BY DEF Context, AreasIn
<1> QED BY <1>1, <1>2, <1>3, LoadsAreas

LEMMA ExecBadProgramIs ==
  ASSUME VmInv, NEW p \in User, NEW prog \in Programs, NEW n \in 0 .. Len(prog),
         ExecBadProgram(p, prog, n)
  PROVE  Leaves(p, Nobody)
<1>1. PICK q, s, x : /\ q = SubSeq(prog, 1, n) /\ s = LoadAreas(Discard(With(mm[p])), q)
                     /\ x = Context(p, AreasIn(q))
  OBVIOUS
<1>2. prog \in Seq(Vma)
  BY VmAssumption
<1>3. q \in Seq(Vma)
  BY <1>1, <1>2
<1>4. s \in Midway /\ LoadedAreas(x, q, Len(q), s)
  BY <1>1, <1>3, LoadedIs
<1>5. ASSUME s.ok PROVE Sound(x, s) /\ s.pgdir # 0 /\ AreasIn(q) = AreasOf(s)
  <2>1. Sound(x, s) /\ s.pgdir # 0 /\ First(s.areas, q, Len(q))
    BY <1>4, <1>5 DEF LoadedAreas
  <2> QED BY <1>3, <2>1, FirstAll
<1>6. PICK y : y = Context(p, AreasOf(s))
  OBVIOUS
<1>7. s.ok => Sound(y, s) /\ s.pgdir # 0
  BY <1>1, <1>5, <1>6
<1> QED BY <1>1, <1>4, <1>6, <1>7, EndsIs DEF ExecBadProgram

LEMMA ExecBadPageIs ==
  ASSUME VmInv, NEW p \in User, NEW prog \in Programs, NEW n \in DOMAIN prog,
         NEW v \in UserPage, ExecBadPage(p, prog, n, v)
  PROVE  Leaves(p, Nobody)
<1>1. PICK d, q, s, w, x : /\ d = SubSeq(prog, 1, n - 1) /\ q = SubSeq(prog, 1, n)
                           /\ s = LoadAreas(Discard(With(mm[p])), d)
                           /\ w = LoadPart(s, q[n], v + 1)
                           /\ x = Context(p, AreasIn(q))
  OBVIOUS
<1>2. prog \in Seq(Vma) /\ v + 1 \in 0 .. USTACKTOP
  BY VmAssumption DEF UserPage
<1>3. n \in 1 .. Len(prog) /\ Len(prog) \in Nat
  BY <1>2
<1>4. /\ d \in Seq(Vma) /\ Len(d) = n - 1 /\ \A i \in 1 .. n - 1 : d[i] = prog[i]
      /\ q \in Seq(Vma) /\ Len(q) = n /\ \A i \in 1 .. n : q[i] = prog[i]
  BY <1>1, <1>2, <1>3
<1>5. n - 1 \in 0 .. Len(q) - 1 /\ (n - 1) + 1 = n /\ n \in 1 .. n
      /\ \A i \in 1 .. n - 1 : i \in 1 .. n /\ d[i] = q[i]
  BY <1>3, <1>4
<1>6. AreasIn(d) \subseteq AreasIn(q)
  BY <1>4, <1>5 DEF AreasIn
<1>7. s \in Midway /\ LoadedAreas(x, d, n - 1, s)
  <2>1. s \in Midway /\ LoadedAreas(x, d, Len(d), s)
    BY <1>1, <1>4, <1>6, LoadedIs
  <2> QED BY <1>4, <2>1
<1>8. LoadedAreas(x, q, n - 1, s)
  <2>1. ASSUME s.ok
        PROVE  /\ Sound(x, s) /\ s.pgdir # 0 /\ First(s.areas, q, n - 1)
               /\ \A y \in UserPage :
                    View(s)[y] = IF \E i \in 1 .. n - 1 : y \in q[i].pages
                                 THEN <<Image>> ELSE <<>>
    BY <1>5, <1>7, <2>1 DEF LoadedAreas, First
  <2> QED BY <2>1 DEF LoadedAreas
<1>9. w \in Midway /\ PartLoaded(x, q, n - 1, s, v + 1, w)
  <2>1. \A i \in 1 .. Len(q) : q[i] \in x.areas
    BY <1>1 DEF Context, AreasIn
  <2>2. w = LoadPart(s, q[(n - 1) + 1], v + 1)
    BY <1>1, <1>5
  <2> QED BY <1>2, <1>4, <1>5, <1>7, <1>8, <2>1, <2>2, AreaPart
<1>10. ASSUME w.ok PROVE Sound(x, w) /\ w.pgdir # 0 /\ AreasIn(q) = AreasOf(w)
  <2>1. Sound(x, w) /\ w.pgdir # 0 /\ First(w.areas, q, Len(q))
    BY <1>4, <1>5, <1>9, <1>10 DEF PartLoaded
  <2> QED BY <1>4, <2>1, FirstAll
<1>11. PICK y : y = Context(p, AreasOf(w))
  OBVIOUS
<1>12. w.ok => Sound(y, w) /\ w.pgdir # 0
  BY <1>1, <1>10, <1>11
<1>13. Running(p) /\ Ends(p, w)
  BY <1>1, <1>4, <1>5 DEF ExecBadPage
<1> QED BY <1>9, <1>11, <1>12, <1>13, EndsIs

LEMMA BadAccessIs ==
  ASSUME NEW p \in User, NEW v \in UserPage, BadAccess(p, v)
  PROVE  Stops
BY DEF BadAccess, Stops

LEMMA ExecIs ==
  ASSUME VmInv, NEW p \in User, NEW prog \in Programs, Exec(p, prog)
  PROVE  Leaves(p, Fresh(prog))
<1>1. PICK r, s, A, x : /\ r = LoadAreas(Discard(With(mm[p])), prog) /\ s = LoadStack(r)
                        /\ A = AreasIn(prog) \cup {StackArea} /\ x = Context(p, A)
  OBVIOUS
<1>2. prog \in Seq(Vma)
  BY VmAssumption
<1>3. r \in Midway /\ LoadedAreas(x, prog, Len(prog), r)
  BY <1>1, <1>2, LoadedIs
<1>4. x.areas = A /\ StackArea \in x.areas
  BY <1>1 DEF Context
<1>5. r.ok => Sound(x, r)
  BY <1>3 DEF LoadedAreas
<1>6. s \in Midway /\ Stacked(x, r, NStack, s)
  BY <1>1, <1>3, <1>4, <1>5, StacksAll
<1>7. Becomes(p, s) /\ Running(p) /\ (s.ok => UNCHANGED <<status, kstack>>)
  BY <1>1 DEF Exec
<1>8. CASE ~ s.ok
  BY <1>7, <1>8, BecomesStops DEF Leaves
<1>9. CASE s.ok
  <2>1. /\ r.ok /\ Sound(x, s) /\ s.pgdir = r.pgdir /\ s.areas = Append(r.areas, StackArea)
        /\ \A v \in UserPage :
             View(s)[v] = IF v >= USTACKTOP - NStack THEN <<Leftover>> ELSE View(r)[v]
    BY <1>6, <1>9 DEF Stacked
  <2>2. /\ r.pgdir # 0 /\ First(r.areas, prog, Len(prog))
        /\ \A v \in UserPage :
             View(r)[v] = IF \E i \in 1 .. Len(prog) : v \in prog[i].pages THEN <<Image>> ELSE <<>>
    BY <1>3, <2>1 DEF LoadedAreas
  <2>3. AreasOf(s) = A
    <3>1. PICK q : q = r.areas
      OBVIOUS
    <3>2. q \in Seq(Vma) /\ Len(q) = Len(prog) /\ \A i \in 1 .. Len(prog) : q[i] = prog[i]
      BY <2>2, <3>1 DEF First
    <3>3. PICK l : l = Append(q, StackArea)
      OBVIOUS
    <3>4. Len(prog) \in Nat /\ DOMAIN l = 1 .. Len(prog) + 1 /\ l[Len(prog) + 1] = StackArea
          /\ \A i \in 1 .. Len(prog) : l[i] = prog[i]
      BY <3>2, <3>3, StackIs
    <3>5. \A i \in 1 .. Len(prog) + 1 : i \in 1 .. Len(prog) \/ i = Len(prog) + 1
      BY <3>4
    <3>6. Len(prog) + 1 \in 1 .. Len(prog) + 1 /\ 1 .. Len(prog) \subseteq 1 .. Len(prog) + 1
      BY <3>4
    <3>7. {l[i] : i \in DOMAIN l} = A
      BY <1>1, <3>4, <3>5, <3>6 DEF AreasIn
    <3> QED BY <2>1, <3>1, <3>3, <3>7 DEF AreasOf
  <2>4. status' = [status EXCEPT ![p] = "live"] /\ kstack' = kstack /\ kstack[p] # 0
    BY <1>7, <1>9, Alive
  <2>5. PICK st : st = "live"
    OBVIOUS
  <2>6. Calls(p, x, s, kstack[p])
    BY <1>1, <1>7, <1>9, <2>1, <2>2, <2>3, <2>4, <2>5, CallStays
  <2>7. ASSUME NEW v \in UserPage PROVE View(s)[v] = Fresh(prog)[v]
    <3>1. v >= USTACKTOP - NStack <=> v \in StackTop
      BY StackIs, VmAssumption DEF UserPage, StackTop
    <3>2. DOMAIN prog = 1 .. Len(prog)
      BY <1>2
    <3>3. v \in Loaded(prog) <=> \E i \in 1 .. Len(prog) : v \in prog[i].pages
      BY <3>2 DEF Loaded
    <3>4. v \in Loaded(prog) => v \notin StackTop
      <4>1. \A i \in DOMAIN prog : prog[i].pages \cap StackArea.pages = {}
        BY VmAssumption
      <4> QED BY <4>1, StackIs DEF Loaded
    <3>5. Fresh(prog)[v] = IF v \in Loaded(prog) THEN <<Image>>
                           ELSE IF v \in StackTop THEN <<Leftover>> ELSE <<>>
      BY DEF Fresh
    <3> QED BY <2>1, <2>2, <3>1, <3>3, <3>4, <3>5
  <2> QED BY <2>6, <2>7 DEF Leaves
<1> QED BY <1>8, <1>9

LEMMA PgfaultIs ==
  ASSUME VmInv, NEW p \in User, NEW v \in UserPage, do_pgfault(p, v)
  PROVE  Now(p)[v] = <<>> /\ Leaves(p, [Now(p) EXCEPT ![v] = <<Leftover>>])
<1>1. PICK i \in DOMAIN mm[p].areas :
        LET area == mm[p].areas[i]
            s == pgdir_alloc_page(get_pte(With(mm[p]), v), v, area.write)
        IN  /\ v \in area.pages
            /\ mm[p].pte[v] = NoPte
            /\ Becomes(p, s)
            /\ s.ok => UNCHANGED <<status, kstack>>
  BY DEF do_pgfault
<1>2. PICK w, t, write, s, A, x :
        /\ w = With(mm[p]) /\ t = get_pte(w, v) /\ write = mm[p].areas[i].write
        /\ s = pgdir_alloc_page(t, v, write) /\ A = AreasOf(mm[p]) /\ x = Context(p, A)
  OBVIOUS
<1>3. Sound(x, w) /\ w.ok /\ w.pte = mm[p].pte /\ w.pgdir = mm[p].pgdir /\ w.areas = mm[p].areas
  BY <1>2, WithSound, WithFields
<1>4. v \in mm[p].areas[i].pages /\ Becomes(p, s) /\ (s.ok => UNCHANGED <<status, kstack>>)
      /\ w.pte[v].frame = 0
  BY <1>1, <1>2, <1>3, Bounds
<1>5. x.areas = A /\ mm[p].areas[i] \in A
  BY <1>2 DEF Context, AreasOf
<1>6. write \in BOOLEAN /\ Covers(x.areas, v, write)
  <2>1. mm[p].areas \in Seq(Vma)
    BY DEF VmInv, VmTypeOK, Memory
  <2>2. mm[p].areas[i] \in Vma
    BY <2>1
  <2>3. write \in BOOLEAN
    BY <1>2, <2>2 DEF Vma
  <2> QED BY <1>2, <1>4, <1>5, <2>3 DEF Covers
<1>7. t \in Midway /\ (t.ok => HasTable(x, w, t, v))
  BY <1>2, <1>3, <1>4, <1>5, GetPteIs
<1>8. View(w) = Now(p) /\ Now(p)[v] = <<>>
  BY <1>2, <1>4, ViewAt DEF Now
<1>9. s = MapNew(t, v, write, Leftover)
  BY <1>2 DEF pgdir_alloc_page
<1>10. CASE ~ s.ok
  BY <1>4, <1>8, <1>10, BecomesStops DEF Leaves
<1>11. CASE s.ok
  <2>1. t.ok
    <3>1. SUFFICES ASSUME ~ t.ok PROVE FALSE
      OBVIOUS
    <3>2. PICK a : a = alloc_page(t)
      OBVIOUS
    <3>3. a = [t EXCEPT !.ok = FALSE]
      BY <3>1, <3>2 DEF alloc_page
    <3>4. a \in Midway /\ ~ a.ok
      BY <1>7, <3>3 DEF Midway
    <3>5. ~ s.ok
      BY <1>9, <3>2, <3>4, MapNewFails
    <3> QED BY <1>11, <3>5
  <2>2. Sound(x, t) /\ Same(w, t) /\ View(t) = Now(p)
    BY <1>7, <1>8, <2>1 DEF HasTable
  <2>3. Mapped(x, t, s, v, Leftover)
    BY <1>6, <1>9, <1>11, <2>1, <2>2, Bounds, MapNewIs
  <2>4. Sound(x, s) /\ Same(t, s) /\ View(s) = [Now(p) EXCEPT ![v] = <<Leftover>>]
    BY <2>2, <2>3 DEF Mapped
  <2>5. s.areas = mm[p].areas /\ s.pgdir = mm[p].pgdir
    BY <1>3, <2>2, <2>4 DEF Same
  <2>6. A = AreasOf(s)
    BY <1>2, <2>5 DEF AreasOf
  <2>7. status' = [status EXCEPT ![p] = "live"] /\ kstack' = kstack /\ kstack[p] # 0
    BY <1>4, <1>11, Alive DEF do_pgfault
  <2>8. PICK st : st = "live"
    OBVIOUS
  <2>9. s.pgdir # 0
    <3>1. SUFFICES ASSUME mm[p].pgdir = 0 PROVE FALSE
      BY <2>5
    <3>2. mm[p] = NoMm
      BY <3>1 DEF VmInv, MapsInv
    <3>3. DOMAIN mm[p].areas = {}
      BY <3>2 DEF NoMm
    <3> QED BY <3>3
  <2>10. Calls(p, x, s, kstack[p])
    BY <1>2, <1>4, <1>11, <2>4, <2>6, <2>7, <2>8, <2>9, CallStays
  <2> QED BY <1>8, <2>4, <2>10 DEF Leaves
<1> QED BY <1>10, <1>11

LEMMA PairsIs ==
  ASSUME VmInv, Pairs # {}, NEW k, k = Min(Pairs)
  PROVE  k \in free /\ k + 1 \in free /\ k \in Nat /\ k # k + 1 /\ k # 0 /\ k \in Number
<1>1. free \subseteq Frame /\ Frame \subseteq Nat
  BY Bounds DEF VmInv, VmTypeOK, Frame
<1>2. Pairs \subseteq Nat
  BY <1>1 DEF Pairs
<1>3. k \in Pairs
  BY <1>2, MinIs
<1> QED BY <1>1, <1>3, Bounds DEF Pairs

\* The stack of a child, and an empty descriptor.
LEMMA ChildIs ==
  ASSUME VmInv, NEW c \in User, status[c] = "none", Pairs # {}, NEW k, k = Min(Pairs),
         NEW s, s = [With(NoMm) EXCEPT !.free = @ \ {k, k + 1}], NEW x,
         x.others = Stack(k) \cup Rest(c), x.ref = ref, x.mem = mem
  PROVE  Sound(x, s) /\ Bare(s) /\ s.ok /\ s.areas = <<>> /\ Stack(k) \cap Rest(c) = {}
<1>1. PICK w, y : w = With(NoMm) /\ y = Context(c, {})
  OBVIOUS
<1>2. mm[c] = NoMm /\ kstack[c] = 0
  BY DEF VmInv, MapsInv, StacksInv
<1>3. Gone(w) /\ w.free = free /\ w.ref = ref /\ w.mem = mem /\ w.ok
  BY <1>1, NoMmGone, WithFields
<1>4. Sound(y, w)
  <2>1. PICK z : z = Context(c, AreasOf(mm[c]))
    OBVIOUS
  <2>2. Sound(z, w) /\ y.others = z.others /\ y.ref = z.ref /\ y.mem = z.mem
    BY <1>1, <1>2, <2>1, WithSound DEF Context
  <2> QED BY <1>3, <2>2, BareSound DEF Gone, Bare
<1>5. y.others = Rest(c) /\ y.ref = ref /\ y.mem = mem
  BY <1>1, <1>2 DEF Context, Stack
<1>6. k \in free /\ k + 1 \in free /\ k # k + 1 /\ k # 0
  BY PairsIs
<1>7. PICK left : left = free \ {k, k + 1}
  OBVIOUS
<1>8. w \in Midway /\ left \in SUBSET Frame
  BY <1>3, <1>4, <1>7 DEF Sound, Midway
<1>9. s = [w EXCEPT !.free = left]
  BY <1>1, <1>3, <1>7
<1>10. /\ s \in Midway /\ s.free = left /\ s.ref = ref /\ s.mem = mem /\ s.ok /\ s.pgdir = w.pgdir
       /\ s.table = w.table /\ s.pte = w.pte /\ s.areas = w.areas
  BY <1>3, <1>8, <1>9 DEF Midway
<1>11. Bare(s) /\ s.areas = <<>>
  BY <1>3, <1>10 DEF Gone, Bare, NoPages, NoTables
<1>12. Names(s) = Names(w)
  BY <1>10, SameNames
<1>13. Partition(x.others, s.free, Names(s)) /\ Stack(k) \cap Rest(c) = {}
  <2>1. Partition(Rest(c), free, Names(s))
    BY <1>3, <1>4, <1>5, <1>12 DEF Sound
  <2>2. Partition(Rest(c) \cup {k}, free \ {k}, Names(s)) /\ k \notin Rest(c)
    BY <1>6, <2>1, PartitionTakes
  <2>3. PICK R, f : R = Rest(c) \cup {k} /\ f = free \ {k}
    OBVIOUS
  <2>4. Partition(R \cup {k + 1}, f \ {k + 1}, Names(s)) /\ k + 1 \notin R
    BY <1>6, <2>2, <2>3, PartitionTakes
  <2>5. f \ {k + 1} = left /\ R \cup {k + 1} = x.others
    BY <1>6, <1>7, <2>3 DEF Stack
  <2>6. Partition(x.others, s.free, Names(s))
    BY <1>10, <2>4, <2>5
  <2>7. Stack(k) = {k, k + 1}
    BY <1>6 DEF Stack
  <2> QED BY <2>2, <2>3, <2>4, <2>6, <2>7
<1>14. \A f \in x.others : s.ref[f] = x.ref[f] /\ s.mem[f] = x.mem[f]
  BY <1>10
<1>15. \A f \in s.free : s.ref[f] = 0
  BY <1>7, <1>10 DEF VmInv, OwnersInv
<1>16. Lies(s, s.ref, x.areas)
  BY <1>11, LiesBare DEF Bare, NoTables
<1>17. Sound(x, s)
  BY <1>10, <1>13, <1>14, <1>15, <1>16 DEF Sound
<1> QED BY <1>10, <1>11, <1>13, <1>17

\* What the parent holds can be copied beside the frames of the child.
LEMMA ParentIs ==
  ASSUME VmInv, NEW p \in User, NEW c \in User, p # c, NEW x, Rest(c) \subseteq x.others,
         x.mem = mem, x.areas = AreasOf(mm[p])
  PROVE  Copyable(x, mm[p], Now(p))
<1>1. PICK F : F = Now(p)
  OBVIOUS
<1> SUFFICES ASSUME NEW v \in UserPage
             PROVE  IF mm[p].pte[v].frame = 0 THEN F[v] = <<>>
                    ELSE /\ mm[p].pte[v].frame \in x.others
                         /\ F[v] = <<x.mem[mm[p].pte[v].frame]>>
                         /\ x.mem[mm[p].pte[v].frame] \in Value
                         /\ mm[p].pte[v].write \in BOOLEAN
                         /\ Covers(x.areas, v, mm[p].pte[v].write)
  BY <1>1 DEF Copyable
<1>2. PICK e, w : e = mm[p].pte[v] /\ w = With(mm[p])
  OBVIOUS
<1>3. w.pte[v] = e /\ w.mem = mem /\ F = View(w)
  BY <1>1, <1>2, WithFields DEF Now
<1>4. F[v] = IF e.frame = 0 THEN <<>> ELSE <<mem[e.frame]>>
  BY <1>3, ViewAt
<1>5. CASE e.frame = 0
  BY <1>2, <1>4, <1>5
<1>6. CASE e.frame # 0
  <2>1. e \in Pte
    BY <1>2 DEF VmInv, VmTypeOK, Memory
  <2>2. e.frame \in Frame /\ e.write \in BOOLEAN /\ mem[e.frame] \in Value
    BY <1>6, <2>1, Bounds DEF Pte, VmInv, VmTypeOK
  <2>3. e.frame \in Maps(mm[p])
    <3>1. Names(mm[p])[AtPage(v)] = e.frame /\ AtPage(v) \in Place
      BY <1>2, NamesAt, Places
    <3> QED BY <1>6, <3>1, MapsAre
  <2>4. e.frame \in Rest(c)
    BY <2>3, RestIs DEF Owned
  <2>5. Covers(AreasOf(mm[p]), v, e.write)
    BY <1>2, <1>6 DEF VmInv, MapsInv, Lies, Covers
  <2> QED BY <1>2, <1>4, <1>6, <2>2, <2>4, <2>5
<1> QED BY <1>2, <1>5, <1>6

\* A page that no area covers is not present.
LEMMA Uncovered ==
  ASSUME VmInv, NEW p \in User, NEW v \in UserPage,
         \A i \in DOMAIN mm[p].areas : v \notin mm[p].areas[i].pages
  PROVE  Now(p)[v] = <<>>
<1>1. mm[p].pte[v].frame = 0
  BY DEF VmInv, MapsInv, Lies, AreasOf
<1>2. PICK w : w = With(mm[p])
  OBVIOUS
<1>3. w.pte[v].frame = 0
  BY <1>1, <1>2, WithFields
<1> QED BY <1>2, <1>3, ViewAt DEF Now

LEMMA ForkIs ==
  ASSUME VmInv, NEW p \in User, NEW c \in User, Fork(p, c)
  PROVE  p # c /\ status[c] = "none" /\ Leaves(c, Now(p))
<1>1. PICK k, s, u, copy, from, F :
        /\ k = Min(Pairs) /\ s = [With(NoMm) EXCEPT !.free = @ \ {k, k + 1}]
        /\ u = setup_pgdir(s) /\ from = mm[p] /\ copy = dup_mmap(u, from) /\ F = Now(p)
  OBVIOUS
<1>2. Running(p) /\ status[c] = "none" /\ Pairs # {} /\ Becomes(c, copy)
  BY <1>1 DEF Fork
<1>3. p # c
  BY <1>2 DEF Running
<1>4. PICK x : x = [others |-> Stack(k) \cup Rest(c), ref |-> ref, mem |-> mem,
                    areas |-> AreasOf(from)]
  OBVIOUS
<1>5. x.others = Stack(k) \cup Rest(c) /\ x.ref = ref /\ x.mem = mem
      /\ x.areas = AreasOf(from)
  BY <1>4
<1>6. Sound(x, s) /\ Bare(s) /\ s.ok /\ s.areas = <<>> /\ Stack(k) \cap Rest(c) = {}
  BY <1>1, <1>2, <1>5, ChildIs
<1>7. u \in Midway /\ (u.ok => Sound(x, u) /\ u.pgdir # 0 /\ NoPages(u) /\ u.areas = <<>>)
  BY <1>1, <1>6, SetupPgdirIs
<1>8. Copyable(x, from, F)
  BY <1>1, <1>3, <1>5, ParentIs
<1>9. u.ok => Part(u, F)
  BY <1>7, ViewBare DEF Part
<1>10. from.areas \in Seq(Vma)
  BY <1>1 DEF VmInv, VmTypeOK, Memory
<1>11. copy \in Midway /\ Dups(x, F, u, from, Len(from.areas), copy)
  BY <1>1, <1>7, <1>8, <1>9, <1>10, DupsAll
<1>12. CASE ~ copy.ok
  BY <1>2, <1>3, <1>12, BecomesStops DEF Leaves
<1>13. CASE copy.ok
  <2>1. /\ Sound(x, copy) /\ copy.pgdir = u.pgdir
        /\ LastOf(copy.areas, from.areas, Len(from.areas)) /\ Part(copy, F)
        /\ \A i \in 1 .. Len(from.areas) : i > Len(from.areas) - Len(from.areas) =>
             \A v \in from.areas[i].pages : View(copy)[v] = F[v]
    BY <1>11, <1>13 DEF Dups
  <2>2. PICK l, q : l = from.areas /\ q = copy.areas
    OBVIOUS
  <2>3. Len(l) \in Nat /\ DOMAIN l = 1 .. Len(l)
    BY <1>10, <2>2
  <2>4. q \in Seq(Vma) /\ Len(q) = Len(l) /\ \A i \in 1 .. Len(l) : q[i] = l[i]
    <3>1. q \in Seq(Vma) /\ Len(q) = Len(l) /\ \A i \in 1 .. Len(l) : q[i] = l[Len(l) - Len(l) + i]
      BY <2>1, <2>2 DEF LastOf
    <3>2. \A i \in 1 .. Len(l) : Len(l) - Len(l) + i = i
      BY <2>3
    <3> QED BY <3>1, <3>2
  <2>5. AreasOf(copy) = AreasOf(from)
    <3>1. DOMAIN q = DOMAIN l
      BY <2>3, <2>4
    <3> QED BY <2>2, <2>3, <2>4, <3>1 DEF AreasOf
  <2>6. \A i \in 1 .. Len(l) : \A v \in l[i].pages : View(copy)[v] = F[v]
    <3>1. \A i \in 1 .. Len(l) : i > Len(l) - Len(l)
      BY <2>3
    <3> QED BY <2>1, <2>2, <3>1
  <2>7. ASSUME NEW v \in UserPage PROVE View(copy)[v] = F[v]
    <3>1. CASE \E i \in 1 .. Len(l) : v \in l[i].pages
      BY <2>6, <3>1
    <3>2. CASE \A i \in 1 .. Len(l) : v \notin l[i].pages
      <4>1. F[v] = <<>>
        BY <1>1, <2>2, <2>3, <3>2, Uncovered
      <4> QED BY <2>1, <4>1 DEF Part
    <3> QED BY <3>1, <3>2
  <2>8. u.ok /\ copy.pgdir # 0
    <3>1. u.ok
      BY <1>11, <1>13 DEF Dups
    <3> QED BY <1>7, <2>1, <3>1
  <2>9. k \in Number /\ k # 0 /\ \A f \in Stack(k) : f \in Frame /\ ref[f] = 0
    <3>1. k \in Number /\ k # 0 /\ k \in free /\ k + 1 \in free
      BY <1>1, <1>2, PairsIs
    <3> QED BY <3>1 DEF Stack, VmInv, VmTypeOK, OwnersInv
  <2>10. /\ mm' = [mm EXCEPT ![c] = MmOf(copy)]
         /\ free' = copy.free /\ ref' = copy.ref /\ mem' = copy.mem /\ stopped' = stopped
    BY <1>2, <1>13 DEF Becomes
  <2>11. status' = [status EXCEPT ![c] = "live"] /\ kstack' = [kstack EXCEPT ![c] = k]
    BY <1>1, <1>13 DEF Fork
  <2>12. \E st \in {"none", "live", "zombie"} :
           /\ status' = [status EXCEPT ![c] = st]
           /\ st = "none" <=> k = 0
           /\ st # "live" \/ copy.pgdir = 0 => MmOf(copy) = NoMm
    BY <2>8, <2>9, <2>11
  <2>13. Calls(c, x, copy, k)
    BY <1>5, <1>6, <1>13, <2>1, <2>5, <2>9, <2>10, <2>11, <2>12 DEF Calls
  <2> QED BY <1>1, <1>2, <1>3, <2>7, <2>13 DEF Leaves
<1> QED BY <1>12, <1>13

\* What becomes of a process that was waited for.
Reaped(p) ==
    /\ status' = [status EXCEPT ![p] = "none"] /\ kstack' = [kstack EXCEPT ![p] = 0]
    /\ free' = free \cup {kstack[p], kstack[p] + 1}
    /\ mm' = mm /\ ref' = ref /\ mem' = mem /\ stopped' = stopped

LEMMA ReapIs ==
  ASSUME VmInv, NEW p \in User, Reap(p)
  PROVE  VmInv'
<1>1. Reaped(p)
  BY DEF Reap, Reaped
<1>2. PICK k : k = kstack[p]
  OBVIOUS
<1>3. status[p] = "zombie" /\ k # 0 /\ Stack(k) = {k, k + 1}
  BY <1>2 DEF Reap, VmInv, StacksInv, Stack
<1>4. k \in Frame /\ k + 1 \in Frame /\ ref[k] = 0 /\ ref[k + 1] = 0
  BY <1>2, <1>3 DEF VmInv, StacksInv
<1>5. mm[p] = NoMm
  BY <1>3 DEF VmInv, MapsInv
<1>6. kstack'[p] = 0 /\ status'[p] = "none"
      /\ \A q \in User \ {p} : kstack'[q] = kstack[q] /\ status'[q] = status[q]
  BY <1>1 DEF Reaped, VmInv, VmTypeOK
<1>7. VmTypeOK'
  <2>1. status' \in [User -> {"none", "live", "zombie"}]
    BY <1>1 DEF Reaped, VmInv, VmTypeOK
  <2>2. kstack' \in [User -> Number]
    BY <1>1, Bounds DEF Reaped, VmInv, VmTypeOK
  <2>3. free' \subseteq Frame
    BY <1>1, <1>2, <1>4 DEF Reaped, VmInv, VmTypeOK
  <2> QED BY <1>1, <2>1, <2>2, <2>3 DEF Reaped, VmInv, VmTypeOK
<1>8. StacksInv'
  <2> SUFFICES ASSUME NEW q \in User
               PROVE  /\ status'[q] = "none" <=> kstack'[q] = 0
                      /\ \A f \in Stack(kstack'[q]) : f \in Frame /\ ref'[f] = 0
    BY DEF StacksInv, Stack
  <2> QED BY <1>1, <1>6 DEF Reaped, VmInv, StacksInv, Stack
<1>9. MapsInv'
  <2> SUFFICES ASSUME NEW q \in User
               PROVE  /\ status'[q] # "live" \/ mm[q].pgdir = 0 => mm[q] = NoMm
                      /\ Lies(mm[q], ref, AreasOf(mm[q]))
    BY <1>1 DEF Reaped, MapsInv, Lies, AreasOf
  <2> QED BY <1>5, <1>6 DEF VmInv, MapsInv
<1>10. Maps(mm[p]) = {}
  <2>1. ASSUME NEW i \in Place PROVE Names(mm[p])[i] = 0
    <3>1. /\ mm[p].pgdir = 0 /\ \A t \in Tables : mm[p].table[t] = 0
          /\ \A v \in UserPage : mm[p].pte[v].frame = 0
      BY <1>5 DEF NoMm, NoPte
    <3> QED BY <3>1, NamesAt, Places
  <2> QED BY <2>1 DEF Maps
<1>11. Owned(p) = {k, k + 1}
  BY <1>2, <1>3, <1>10 DEF Owned
<1>12. Owned(p)' = {} /\ \A q \in User \ {p} : Owned(q)' = Owned(q)
  <2>1. Owned(p)' = {}
    <3>1. Owned(p)' = Stack(kstack'[p]) \cup Maps(mm'[p])
      BY DEF Owned, Stack, Maps, Names
    <3>2. mm'[p] = mm[p] /\ Stack(kstack'[p]) = {}
      BY <1>1, <1>6 DEF Reaped, Stack
    <3> QED BY <1>10, <3>1, <3>2
  <2>2. \A q \in User \ {p} : Owned(q)' = Owned(q)
    BY <1>1, <1>6 DEF Reaped, Owned, Stack, Maps, Names
  <2> QED BY <2>1, <2>2
<1>13. OwnersInv'
  <2>1. (\A q \in User : \A i, j \in Place :
            Names(mm[q])[i] = Names(mm[q])[j] /\ Names(mm[q])[i] # 0 => i = j)'
    BY <1>1 DEF Reaped, VmInv, OwnersInv, Names
  <2>2. (\A q \in User : Stack(kstack[q]) \cap Maps(mm[q]) = {})'
    <3> SUFFICES ASSUME NEW q \in User PROVE Stack(kstack'[q]) \cap Maps(mm[q]) = {}
      BY <1>1 DEF Reaped, Stack, Maps, Names
    <3> QED BY <1>6, <1>10 DEF VmInv, OwnersInv
  <2>3. \A q, r \in User : q # r => Owned(q)' \cap Owned(r)' = {}
    BY <1>12 DEF VmInv, OwnersInv
  <2>4. ASSUME NEW q \in User PROVE Owned(q)' \subseteq Frame \ free'
    <3>1. CASE q = p
      BY <1>12, <3>1
    <3>2. CASE q # p
      <4>1. Owned(q) \subseteq Frame \ free /\ Owned(q) \cap {k, k + 1} = {}
        BY <1>11, <3>2 DEF VmInv, OwnersInv
      <4>2. free' = free \cup {k, k + 1}
        BY <1>1, <1>2 DEF Reaped
      <4> QED BY <1>12, <3>2, <4>1, <4>2
    <3> QED BY <3>1, <3>2
  <2>5. ASSUME NEW f \in Frame PROVE f \in free' \/ \E q \in User : f \in Owned(q)'
    <3>1. f \in free \/ \E q \in User : f \in Owned(q)
      BY DEF VmInv, OwnersInv
    <3>2. f \in free \/ f \in Owned(p) \/ \E q \in User \ {p} : f \in Owned(q)
      BY <3>1
    <3> QED BY <1>1, <1>2, <1>11, <1>12, <3>2 DEF Reaped
  <2>6. \A f \in free' : ref'[f] = 0
    BY <1>1, <1>2, <1>4 DEF Reaped, VmInv, OwnersInv
  <2> QED BY <2>1, <2>2, <2>3, <2>4, <2>5, <2>6 DEF OwnersInv
<1> QED BY <1>7, <1>8, <1>9, <1>13 DEF VmInv

LEMMA PageOwned ==
  ASSUME VmInv, NEW p \in User, NEW v \in UserPage, NEW f, f = mm[p].pte[v].frame, f # 0
  PROVE  f \in Frame /\ f \in Owned(p) /\ f \in Maps(mm[p])
<1>1. Names(mm[p])[AtPage(v)] = f /\ AtPage(v) \in Place
  BY NamesAt, Places
<1>2. f \in Maps(mm[p])
  BY <1>1, MapsAre
<1> QED BY <1>2 DEF Owned, VmInv, OwnersInv

\* Only contents change.
LEMMA ContentsKeep ==
  ASSUME VmInv, UNCHANGED <<status, kstack, mm, free, ref>>, stopped' \in BOOLEAN,
         mem' \in [Frame -> Value]
  PROVE  VmInv'
<1>1. VmTypeOK'
  BY DEF VmInv, VmTypeOK
<1>2. StacksInv'
  BY DEF VmInv, StacksInv, Stack
<1>3. MapsInv'
  BY DEF VmInv, MapsInv, Lies, AreasOf
<1>4. OwnersInv'
  <2>1. \A q \in User : Owned(q)' = Owned(q)
    BY DEF Owned, Stack, Maps, Names
  <2>2. (\A q \in User : \A i, j \in Place :
            Names(mm[q])[i] = Names(mm[q])[j] /\ Names(mm[q])[i] # 0 => i = j)'
    BY DEF VmInv, OwnersInv, Names
  <2>3. (\A q \in User : Stack(kstack[q]) \cap Maps(mm[q]) = {})'
    BY DEF VmInv, OwnersInv, Stack, Maps, Names
  <2> QED BY <2>1, <2>2, <2>3 DEF VmInv, OwnersInv
<1> QED BY <1>1, <1>2, <1>3, <1>4 DEF VmInv

LEMMA UserWriteIs ==
  ASSUME VmInv, NEW p \in User, NEW v \in UserPage, NEW y \in Written, UserWrite(p, v, y)
  PROVE  /\ mm[p].pte[v].frame # 0 /\ mm[p].pte[v] # NoPte
         /\ mem' = [mem EXCEPT ![mm[p].pte[v].frame] = y]
         /\ UNCHANGED <<status, kstack, mm, free, ref, stopped>> /\ y \in Value
         /\ VmInv'
<1>1. mm[p].pte[v].write /\ mem' = [mem EXCEPT ![mm[p].pte[v].frame] = y]
      /\ UNCHANGED <<status, kstack, mm, free, ref, stopped>>
  BY DEF UserWrite
<1>2. mm[p].pte[v] # NoPte
  BY <1>1 DEF NoPte
<1>3. mm[p].pte[v].frame # 0
  BY <1>2 DEF VmInv, MapsInv, Lies
<1>4. y \in Value /\ mem' \in [Frame -> Value] /\ stopped' \in BOOLEAN
  BY <1>1 DEF Value, VmInv, VmTypeOK
<1>5. VmInv'
  BY <1>1, <1>4, ContentsKeep
<1> QED BY <1>1, <1>2, <1>3, <1>4, <1>5

LEMMA StopsKeeps ==
  ASSUME VmInv, Stops
  PROVE  VmInv'
BY ContentsKeep DEF Stops, VmInv, VmTypeOK

LEMMA LeavesKeeps ==
  ASSUME VmInv, NEW p \in User, NEW V, Leaves(p, V)
  PROVE  VmInv'
BY StopsKeeps, VmCallKeeps DEF Leaves

LEMMA StutterKeeps ==
  ASSUME VmInv, UNCHANGED vmVars
  PROVE  VmInv'
BY ContentsKeep DEF VmInv, VmTypeOK, vmVars

LEMMA NoMmLies ==
  ASSUME NEW r, NEW A
  PROVE  Lies(NoMm, r, A) /\ NoMm \in Memory /\ Maps(NoMm) = {}
<1>1. NoPages(NoMm) /\ NoTables(NoMm) /\ NoMm.pgdir = 0 /\ NoMm.areas = <<>>
  BY DEF NoPages, NoTables, NoMm
<1>2. Lies(NoMm, r, A)
  BY <1>1, LiesBare DEF NoTables
<1>3. NoMm \in Memory
  <2>1. NoMm.table \in [Tables -> Number] /\ NoMm.pte \in [UserPage -> Pte]
    BY Bounds DEF NoMm
  <2>2. <<>> \in Seq(Vma)
    BY EmptySeq
  <2> QED BY <2>1, <2>2, Bounds DEF NoMm, Memory
<1>4. ASSUME NEW i \in Place PROVE Names(NoMm)[i] = 0
  <2>1. /\ NoMm.pgdir = 0 /\ \A t \in Tables : NoMm.table[t] = 0
        /\ \A v \in UserPage : NoMm.pte[v].frame = 0
    BY <1>1, Bounds DEF NoPages, NoTables
  <2> QED BY <2>1, NamesAt, Places
<1> QED BY <1>2, <1>3, <1>4 DEF Maps

LEMMA InitVm ==
  ASSUME VmInit
  PROVE  VmInv
<1>1. PICK p \in User : /\ status = [q \in User |-> IF q = p THEN "live" ELSE "none"]
                        /\ kstack = [q \in User |-> IF q = p THEN 1 ELSE 0]
  BY DEF VmInit
<1>2. /\ mm = [q \in User |-> NoMm] /\ free = Frame \ {1, 2} /\ ref = [f \in Frame |-> 0]
      /\ mem = [f \in Frame |-> Leftover] /\ stopped = FALSE
  BY DEF VmInit
<1>3. 1 \in Frame /\ 2 \in Frame /\ 1 \in Number
  BY VmAssumption DEF Frame, Number
<1>4. VmTypeOK
  <2>1. status \in [User -> {"none", "live", "zombie"}] /\ kstack \in [User -> Number]
    BY <1>1, <1>3, Bounds
  <2>2. mm \in [User -> Memory] /\ free \subseteq Frame /\ stopped \in BOOLEAN
    BY <1>2, NoMmLies
  <2>3. ref \in [Frame -> Int] /\ mem \in [Frame -> Value]
    BY <1>2, Bounds
  <2> QED BY <2>1, <2>2, <2>3 DEF VmTypeOK
<1>5. Stack(1) = {1, 2} /\ Stack(0) = {}
  BY DEF Stack
<1>6. StacksInv
  BY <1>1, <1>2, <1>3, <1>5 DEF StacksInv
<1>7. MapsInv
  BY <1>2, NoMmLies DEF MapsInv
<1>8. Owned(p) = {1, 2} /\ \A q \in User \ {p} : Owned(q) = {}
  BY <1>1, <1>2, <1>5, NoMmLies DEF Owned
<1>9. \A q \in User : mm[q] = NoMm /\ Maps(mm[q]) = {}
  BY <1>2, NoMmLies
<1>10. \A q \in User : \A i \in Place : Names(mm[q])[i] = 0
  BY <1>9, MapsAre
<1>11. OwnersInv
  <2>1. \A q, r \in User : q # r => Owned(q) \cap Owned(r) = {}
    BY <1>8
  <2>2. \A q \in User : Owned(q) \subseteq Frame \ free
    BY <1>2, <1>3, <1>8
  <2>3. \A f \in Frame : f \in free \/ \E q \in User : f \in Owned(q)
    BY <1>2, <1>8
  <2> QED BY <1>2, <1>9, <1>10, <2>1, <2>2, <2>3 DEF OwnersInv
<1> QED BY <1>4, <1>6, <1>7, <1>11 DEF VmInv

LEMMA NextVm ==
  ASSUME VmInv, [VmNext]_vmVars
  PROVE  VmInv'
<1>1. CASE UNCHANGED vmVars
  BY <1>1, StutterKeeps
<1>2. CASE VmNext
  <2>1. PICK p \in User :
          \/ \E c \in User : Fork(p, c)
          \/ \E prog \in Programs :
              \/ Exec(p, prog)
              \/ \E n \in 0 .. Len(prog) : ExecBadProgram(p, prog, n)
              \/ \E n \in DOMAIN prog, v \in UserPage : ExecBadPage(p, prog, n, v)
          \/ Exit(p)
          \/ Reap(p)
          \/ \E v \in UserPage :
              \/ do_pgfault(p, v)
              \/ BadAccess(p, v)
              \/ \E y \in Written : UserWrite(p, v, y)
    BY <1>2 DEF VmNext
  <2>2. ASSUME NEW c \in User, Fork(p, c) PROVE VmInv'
    BY <2>2, ForkIs, LeavesKeeps
  <2>3. ASSUME NEW prog \in Programs, Exec(p, prog) PROVE VmInv'
    BY <2>3, ExecIs, LeavesKeeps
  <2>4. ASSUME NEW prog \in Programs, NEW n \in 0 .. Len(prog), ExecBadProgram(p, prog, n)
        PROVE  VmInv'
    BY <2>4, ExecBadProgramIs, LeavesKeeps
  <2>9. ASSUME NEW prog \in Programs, NEW n \in DOMAIN prog, NEW v \in UserPage,
               ExecBadPage(p, prog, n, v)
        PROVE  VmInv'
    BY <2>9, ExecBadPageIs, LeavesKeeps
  <2>10. ASSUME NEW v \in UserPage, BadAccess(p, v) PROVE VmInv'
    BY <2>10, BadAccessIs, StopsKeeps
  <2>5. CASE Exit(p)
    BY <2>5, ExitIs, LeavesKeeps
  <2>6. CASE Reap(p)
    BY <2>6, ReapIs
  <2>7. ASSUME NEW v \in UserPage, do_pgfault(p, v) PROVE VmInv'
    BY <2>7, PgfaultIs, LeavesKeeps
  <2>8. ASSUME NEW v \in UserPage, NEW y \in Written, UserWrite(p, v, y) PROVE VmInv'
    BY <2>8, UserWriteIs
  <2> QED BY <2>1, <2>2, <2>3, <2>4, <2>5, <2>6, <2>7, <2>8, <2>9, <2>10
<1> QED BY <1>1, <1>2

\* The inductive invariant of Vm: each frame belongs to the free ones or to one
\* place of one process, and pages lie in areas, below tables that are there.
THEOREM VmInvariant == VmSpec => []VmInv
<1>1. VmInit => VmInv
  BY InitVm
<1>2. VmInv /\ [VmNext]_vmVars => VmInv'
  BY NextVm
<1> QED BY <1>1, <1>2, PTL DEF VmSpec

-----------------------------------------------------------------------------
(* What the invariant says.                                                 *)

LEMMA UsersAre ==
  ASSUME VmInv, NEW f \in Frame, NEW u
  PROVE  u \in Users(f) <=>
            \E p \in User :
                \/ u = <<p, "stack", 0>> /\ f \in Stack(kstack[p])
                \/ \E i \in Place : u = <<p, i[1], i[2]>> /\ Names(mm[p])[i] = f
<1>1. f \in Nat /\ f # 0 /\ \A p \in User : kstack[p] \in Nat
  BY Bounds DEF Frame, VmInv, VmTypeOK
<1>2. ASSUME NEW p \in User
      PROVE  kstack[p] # 0 /\ f - kstack[p] \in {0, 1} <=> f \in Stack(kstack[p])
  BY <1>1 DEF Stack
<1>3. AtDir[1] = "pgdir" /\ AtDir[2] = 0
  BY DEF AtDir
<1>4. \A t \in Tables : AtTable(t)[1] = "table" /\ AtTable(t)[2] = t
  BY DEF AtTable
<1>5. \A v \in UserPage : AtPage(v)[1] = "page" /\ AtPage(v)[2] = v
  BY DEF AtPage
<1>6. ASSUME NEW p \in User
      PROVE  (\E i \in Place : u = <<p, i[1], i[2]>> /\ Names(mm[p])[i] = f) <=>
                \/ u = <<p, "pgdir", 0>> /\ mm[p].pgdir = f
                \/ \E t \in Tables : u = <<p, "table", t>> /\ mm[p].table[t] = f
                \/ \E v \in UserPage : u = <<p, "page", v>> /\ mm[p].pte[v].frame = f
  <2>1. ASSUME NEW i \in Place, u = <<p, i[1], i[2]>>, Names(mm[p])[i] = f
        PROVE  \/ u = <<p, "pgdir", 0>> /\ mm[p].pgdir = f
               \/ \E t \in Tables : u = <<p, "table", t>> /\ mm[p].table[t] = f
               \/ \E v \in UserPage : u = <<p, "page", v>> /\ mm[p].pte[v].frame = f
    <3>1. CASE i = AtDir
      BY <1>3, <2>1, <3>1, NamesAt
    <3>2. CASE \E t \in Tables : i = AtTable(t)
      BY <1>4, <2>1, <3>2, NamesAt
    <3>3. CASE \E v \in UserPage : i = AtPage(v)
      BY <1>5, <2>1, <3>3, NamesAt
    <3> QED BY <3>1, <3>2, <3>3, Places
  <2>2. ASSUME u = <<p, "pgdir", 0>>, mm[p].pgdir = f
        PROVE  \E i \in Place : u = <<p, i[1], i[2]>> /\ Names(mm[p])[i] = f
    BY <1>3, <2>2, NamesAt, Places
  <2>3. ASSUME NEW t \in Tables, u = <<p, "table", t>>, mm[p].table[t] = f
        PROVE  \E i \in Place : u = <<p, i[1], i[2]>> /\ Names(mm[p])[i] = f
    BY <1>4, <2>3, NamesAt, Places
  <2>4. ASSUME NEW v \in UserPage, u = <<p, "page", v>>, mm[p].pte[v].frame = f
        PROVE  \E i \in Place : u = <<p, i[1], i[2]>> /\ Names(mm[p])[i] = f
    BY <1>5, <2>4, NamesAt, Places
  <2> QED BY <2>1, <2>2, <2>3, <2>4
<1>7. u \in Users(f) <=>
        \/ \E p \in User : kstack[p] # 0 /\ f - kstack[p] \in {0, 1} /\ u = <<p, "stack", 0>>
        \/ \E p \in User : mm[p].pgdir = f /\ u = <<p, "pgdir", 0>>
        \/ \E p \in User, t \in Tables : mm[p].table[t] = f /\ u = <<p, "table", t>>
        \/ \E p \in User, v \in UserPage : mm[p].pte[v].frame = f /\ u = <<p, "page", v>>
  <2>1. u \in {w \in User \X {"table"} \X Tables : mm[w[1]].table[w[3]] = f} <=>
          \E p \in User, t \in Tables : mm[p].table[t] = f /\ u = <<p, "table", t>>
    OBVIOUS
  <2>2. u \in {w \in User \X {"page"} \X UserPage : mm[w[1]].pte[w[3]].frame = f} <=>
          \E p \in User, v \in UserPage : mm[p].pte[v].frame = f /\ u = <<p, "page", v>>
    OBVIOUS
  <2>3. u \in {<<p, "stack", 0>> : p \in {q \in User : kstack[q] # 0 /\ f - kstack[q] \in {0, 1}}}
          <=> \E p \in User : kstack[p] # 0 /\ f - kstack[p] \in {0, 1} /\ u = <<p, "stack", 0>>
    OBVIOUS
  <2>4. u \in {<<p, "pgdir", 0>> : p \in {q \in User : mm[q].pgdir = f}}
          <=> \E p \in User : mm[p].pgdir = f /\ u = <<p, "pgdir", 0>>
    OBVIOUS
  <2> QED BY <2>1, <2>2, <2>3, <2>4 DEF Users
<1> QED BY <1>2, <1>6, <1>7

LEMMA UsersCounted ==
  ASSUME VmInv, NEW f \in Frame
  PROVE  Cardinality(Users(f)) = IF f \in free THEN 0 ELSE 1
<1>1. \A p \in User : \A i \in Place : Names(mm[p])[i] = f => f \in Maps(mm[p])
  BY MapsAre, Bounds
<1>2. CASE f \in free
  <2>1. \A p \in User : f \notin Owned(p)
    BY <1>2 DEF VmInv, OwnersInv
  <2>2. \A u : u \notin Users(f)
    BY <1>1, <2>1, UsersAre DEF Owned
  <2>3. Users(f) = {}
    BY <2>2
  <2> QED BY <1>2, <2>3, FS_EmptySet
<1>3. CASE f \notin free
  <2>1. PICK p \in User : f \in Owned(p)
    BY <1>3 DEF VmInv, OwnersInv
  <2>2. \A q \in User : f \in Owned(q) => q = p
    BY <2>1 DEF VmInv, OwnersInv
  <2>3. \E u : Users(f) = {u}
    <3>1. CASE f \in Stack(kstack[p])
      <4>1. f \notin Maps(mm[p])
        BY <3>1 DEF VmInv, OwnersInv
      <4>2. PICK u : u = <<p, "stack", 0>>
        OBVIOUS
      <4>3. u \in Users(f)
        BY <3>1, <4>2, UsersAre
      <4>4. ASSUME NEW w, w \in Users(f) PROVE w = u
        <5>1. PICK q \in User : \/ w = <<q, "stack", 0>> /\ f \in Stack(kstack[q])
                                \/ \E i \in Place : w = <<q, i[1], i[2]>> /\ Names(mm[q])[i] = f
          BY <4>4, UsersAre
        <5>2. f \in Owned(q)
          BY <1>1, <5>1 DEF Owned
        <5>3. q = p
          BY <2>2, <5>2
        <5> QED BY <1>1, <4>1, <4>2, <5>1, <5>3
      <4> QED BY <4>3, <4>4
    <3>2. CASE f \in Maps(mm[p])
      <4>1. f \notin Stack(kstack[p])
        BY <3>2 DEF VmInv, OwnersInv
      <4>2. PICK i \in Place : Names(mm[p])[i] = f /\ f # 0
        BY <3>2, MapsAre
      <4>3. PICK u : u = <<p, i[1], i[2]>>
        OBVIOUS
      <4>4. u \in Users(f)
        BY <4>2, <4>3, UsersAre
      <4>5. ASSUME NEW w, w \in Users(f) PROVE w = u
        <5>1. PICK q \in User : \/ w = <<q, "stack", 0>> /\ f \in Stack(kstack[q])
                                \/ \E j \in Place : w = <<q, j[1], j[2]>> /\ Names(mm[q])[j] = f
          BY <4>5, UsersAre
        <5>2. f \in Owned(q)
          BY <1>1, <5>1 DEF Owned
        <5>3. q = p
          BY <2>2, <5>2
        <5>4. PICK j \in Place : w = <<p, j[1], j[2]>> /\ Names(mm[p])[j] = f
          BY <4>1, <5>1, <5>3
        <5>5. j = i
          BY <4>2, <5>4 DEF VmInv, OwnersInv
        <5> QED BY <4>3, <5>4, <5>5
      <4> QED BY <4>4, <4>5
    <3> QED BY <2>1, <3>1, <3>2 DEF Owned
  <2> QED BY <1>3, <2>3, FS_Singleton
<1> QED BY <1>2, <1>3

LEMMA InvFramesExact ==
  ASSUME VmInv
  PROVE  FramesExact
<1>1. \A f \in Frame : Cardinality(Users(f)) = IF f \in free THEN 0 ELSE 1
  BY UsersCounted
<1>2. \A p \in User, v \in UserPage :
        mm[p].pte[v] # NoPte => ref[mm[p].pte[v].frame] = 1
  BY DEF VmInv, MapsInv, Lies
<1> QED BY <1>1, <1>2 DEF FramesExact

LEMMA InvPagesInAreas ==
  ASSUME VmInv
  PROVE  PagesInAreas
<1> SUFFICES ASSUME NEW p \in User, NEW v \in UserPage, mm[p].pte[v] # NoPte
             PROVE  /\ mm[p].table[TableOf(v)] # 0
                    /\ \E i \in DOMAIN mm[p].areas :
                        v \in mm[p].areas[i].pages
                            /\ mm[p].areas[i].write = mm[p].pte[v].write
  BY DEF PagesInAreas
<1>1. Lies(mm[p], ref, AreasOf(mm[p]))
  BY DEF VmInv, MapsInv
<1>2. mm[p].pte[v].frame # 0
  BY <1>1 DEF Lies
<1>3. /\ mm[p].table[TableOf(v)] # 0
      /\ \E a \in AreasOf(mm[p]) : v \in a.pages /\ a.write = mm[p].pte[v].write
  BY <1>1, <1>2 DEF Lies
<1> QED BY <1>3 DEF AreasOf

(* However many processes fork, exec, fault, exit and are waited for, and at  *)
(* whatever page a program turns out bad, a frame that is not free has one    *)
(* use in one process, and a free frame has none.                            *)
THEOREM VmFramesExact == VmSpec => []FramesExact
<1>1. VmInv => FramesExact
  BY InvFramesExact
<1> QED BY <1>1, VmInvariant, PTL

(* A page that is present lies in an area of its process with its permission, *)
(* below a table that is there: exit_mmap, which goes by the areas, leaves     *)
(* nothing behind, and do_pgfault does not panic.                            *)
THEOREM VmPagesInAreas == VmSpec => []PagesInAreas
<1>1. VmInv => PagesInAreas
  BY InvPagesInAreas
<1> QED BY <1>1, VmInvariant, PTL

-----------------------------------------------------------------------------
(* Refinement of PrivateMemory.                                             *)

\* The address space with pages and contents V.
Shown(V) == [v \in {w \in UserPage : V[w] # <<>>} |-> V[v][1]]

LEMMA ShownSame ==
  ASSUME NEW V, NEW W, \A v \in UserPage : V[v] = W[v]
  PROVE  Shown(V) = Shown(W)
<1>1. {w \in UserPage : V[w] # <<>>} = {w \in UserPage : W[w] # <<>>}
  OBVIOUS
<1> QED BY <1>1 DEF Shown

LEMMA ShownIs ==
  ASSUME NEW s, \A v \in UserPage : s.pte[v].frame = 0 <=> s.pte[v] = NoPte
  PROVE  Shown(View(s)) = [v \in {w \in UserPage : s.pte[w] # NoPte} |-> s.mem[s.pte[v].frame]]
<1>1. PICK V : V = View(s)
  OBVIOUS
<1>2. ASSUME NEW v \in UserPage
      PROVE  /\ V[v] # <<>> <=> s.pte[v] # NoPte
             /\ s.pte[v] # NoPte => V[v][1] = s.mem[s.pte[v].frame]
  <2>1. V[v] = IF s.pte[v].frame = 0 THEN <<>> ELSE <<s.mem[s.pte[v].frame]>>
    BY <1>1, ViewAt
  <2>2. PICK c, d : c = s.mem[s.pte[v].frame] /\ d = <<c>>
    OBVIOUS
  <2>3. d # <<>> /\ d[1] = c
    BY <2>2
  <2>4. V[v] = IF s.pte[v].frame = 0 THEN <<>> ELSE d
    BY <2>1, <2>2
  <2> QED BY <2>2, <2>3, <2>4
<1>3. {w \in UserPage : V[w] # <<>>} = {w \in UserPage : s.pte[w] # NoPte}
  BY <1>2
<1>4. Shown(V) = [v \in {w \in UserPage : s.pte[w] # NoPte} |-> s.mem[s.pte[v].frame]]
  BY <1>2, <1>3 DEF Shown
<1> QED BY <1>1, <1>4

LEMMA SpaceIs ==
  ASSUME VmInv, NEW p \in User
  PROVE  Space(p) = Shown(Now(p))
<1>1. PICK s : s = With(mm[p])
  OBVIOUS
<1>2. s.pte = mm[p].pte /\ s.mem = mem
  BY <1>1, WithFields
<1>3. \A v \in UserPage : s.pte[v].frame = 0 <=> s.pte[v] = NoPte
  BY <1>2, Bounds DEF VmInv, MapsInv, Lies
<1>4. Shown(View(s)) = Space(p)
  <2>1. Shown(View(s)) = [v \in {w \in UserPage : s.pte[w] # NoPte} |-> s.mem[s.pte[v].frame]]
    BY <1>3, ShownIs
  <2> QED BY <1>2, <2>1 DEF Space
<1> QED BY <1>1, <1>4 DEF Now

\* The spaces of all but p are what they were.
SpacesStay(p) == \A q \in User \ {p} : Space(q)' = Space(q)

\* The space of q depends on its page table and on its own pages.
LEMMA SpaceSame ==
  ASSUME VmInv, NEW q \in User, mm'[q] = mm[q], \A f \in Owned(q) : mem'[f] = mem[f]
  PROVE  Space(q)' = Space(q)
<1>1. ASSUME NEW v \in UserPage, mm[q].pte[v] # NoPte
      PROVE  mem'[mm'[q].pte[v].frame] = mem[mm[q].pte[v].frame]
  <2>1. PICK f : f = mm[q].pte[v].frame
    OBVIOUS
  <2>2. f # 0
    BY <1>1, <2>1 DEF VmInv, MapsInv, Lies
  <2>3. f \in Owned(q)
    BY <2>1, <2>2, PageOwned
  <2> QED BY <2>1, <2>3
<1>2. Space(q)' = [v \in {w \in UserPage : mm'[q].pte[w] # NoPte} |-> mem'[mm'[q].pte[v].frame]]
  BY DEF Space
<1> QED BY <1>1, <1>2 DEF Space

LEMMA LeavesSpace ==
  ASSUME VmInv, NEW p \in User, NEW V, Leaves(p, V)
  PROVE  \/ \A q \in User : Space(q)' = Space(q)
         \/ Space(p)' = Shown(V) /\ SpacesStay(p)
<1>1. CASE Stops
  BY <1>1, SpaceSame DEF Stops
<1>2. CASE \E x, s, k : Calls(p, x, s, k) /\ \A v \in UserPage : View(s)[v] = V[v]
  <2>1. PICK x, s, k : Calls(p, x, s, k) /\ \A v \in UserPage : View(s)[v] = V[v]
    BY <1>2
  <2>2. mm' = [mm EXCEPT ![p] = MmOf(s)] /\ mem' = s.mem /\ Sound(x, s)
        /\ x.others = Stack(k) \cup Rest(p) /\ x.mem = mem
    BY <2>1 DEF Calls
  <2>3. MmOf(s).pte = s.pte
    BY DEF MmOf
  <2>4. mm'[p].pte = s.pte /\ \A q \in User \ {p} : mm'[q] = mm[q]
    BY <2>2, <2>3 DEF VmInv, VmTypeOK
  <2>5. \A f \in Rest(p) : mem'[f] = mem[f]
    BY <2>2 DEF Sound
  <2>6. ASSUME NEW q \in User \ {p} PROVE Space(q)' = Space(q)
    <3>1. \A f \in Owned(q) : mem'[f] = mem[f]
      BY <2>5, RestIs
    <3> QED BY <2>4, <3>1, SpaceSame
  <2>7. \A v \in UserPage : s.pte[v].frame = 0 <=> s.pte[v] = NoPte
    BY <2>2, Bounds DEF Sound, Lies
  <2>8. Shown(View(s)) = [v \in {w \in UserPage : s.pte[w] # NoPte} |-> s.mem[s.pte[v].frame]]
    BY <2>7, ShownIs
  <2>9. Space(p)' = [v \in {w \in UserPage : mm'[p].pte[w] # NoPte} |-> mem'[mm'[p].pte[v].frame]]
    BY DEF Space
  <2>10. Space(p)' = Shown(View(s))
    BY <2>2, <2>4, <2>8, <2>9
  <2>11. Shown(View(s)) = Shown(V)
    BY <2>1, ShownSame
  <2> QED BY <2>6, <2>10, <2>11 DEF SpacesStay
<1> QED BY <1>1, <1>2 DEF Leaves

\* All spaces, as PrivateMemory sees them.
Spaces == [q \in User |-> Space(q)]

LEMMA SpacesPut ==
  ASSUME NEW p \in User, SpacesStay(p), NEW X, X = Space(p)'
  PROVE  Spaces' = [Spaces EXCEPT ![p] = X]
BY DEF Spaces, SpacesStay

LEMMA SpacesSame ==
  ASSUME \A q \in User : Space(q)' = Space(q)
  PROVE  Spaces' = Spaces
BY DEF Spaces

LEMMA NobodyShown == Shown(Nobody) = Private!Nothing
<1>1. {w \in UserPage : Nobody[w] # <<>>} = {}
  BY DEF Nobody
<1> QED BY <1>1 DEF Shown, Private!Nothing

LEMMA FreshShown ==
  ASSUME NEW prog \in Programs
  PROVE  \E top \in [StackTop -> Value] :
           Shown(Fresh(prog)) = [v \in Loaded(prog) \cup StackTop |->
                                   IF v \in Loaded(prog) THEN Image ELSE top[v]]
<1>1. PICK V : V = Fresh(prog)
  OBVIOUS
<1>2. Loaded(prog) \subseteq UserPage /\ StackTop \subseteq UserPage
  <2>1. prog \in Seq(Vma)
    BY VmAssumption
  <2>2. \A i \in DOMAIN prog : prog[i] \in Vma
    BY <2>1
  <2>3. \A a \in Vma : a.pages \subseteq UserPage
    BY DEF Vma
  <2>4. StackTop \subseteq UserPage
    BY VmAssumption DEF StackTop, UserPage
  <2> QED BY <2>2, <2>3, <2>4 DEF Loaded
<1>3. PICK i, l : i = <<Image>> /\ l = <<Leftover>>
  OBVIOUS
<1>4. i # <<>> /\ i[1] = Image /\ l # <<>> /\ l[1] = Leftover
  BY <1>3
<1>5. \A v \in UserPage : V[v] = IF v \in Loaded(prog) THEN i
                                 ELSE IF v \in StackTop THEN l ELSE <<>>
  BY <1>1, <1>3 DEF Fresh
<1>6. {w \in UserPage : V[w] # <<>>} = Loaded(prog) \cup StackTop
  BY <1>2, <1>4, <1>5
<1>7. \A v \in Loaded(prog) \cup StackTop : V[v][1] = IF v \in Loaded(prog) THEN Image ELSE Leftover
  BY <1>2, <1>4, <1>5
<1>8. PICK top : top = [v \in StackTop |-> Leftover]
  OBVIOUS
<1>9. top \in [StackTop -> Value] /\ \A v \in StackTop : top[v] = Leftover
  BY <1>8, Bounds
<1>10. Shown(V) = [v \in Loaded(prog) \cup StackTop |->
                     IF v \in Loaded(prog) THEN Image ELSE top[v]]
  BY <1>6, <1>7, <1>9 DEF Shown
<1> QED BY <1>1, <1>9, <1>10

\* A step of the abstract memory.
Abstractly == Private!SpaceNext \/ Spaces' = Spaces

LEMMA ForkShown ==
  ASSUME VmInv, NEW p \in User, NEW c \in User, Fork(p, c)
  PROVE  Abstractly
<1>1. p # c /\ status[c] = "none" /\ Leaves(c, Now(p))
  BY ForkIs
<1>2. Shown(Now(p)) = Space(p)
  BY SpaceIs
<1>3. CASE \A q \in User : Space(q)' = Space(q)
  BY <1>3, SpacesSame DEF Abstractly
<1>4. CASE Space(c)' = Space(p) /\ SpacesStay(c)
  <2>1. Spaces' = [Spaces EXCEPT ![c] = Space(p)]
    <3>1. PICK X : X = Space(p)
      OBVIOUS
    <3>2. Spaces' = [Spaces EXCEPT ![c] = X]
      BY <1>4, <3>1, SpacesPut
    <3> QED BY <3>1, <3>2
  <2>2. Space(c) = Private!Nothing
    <3>1. mm[c] = NoMm
      BY <1>1 DEF VmInv, MapsInv
    <3>2. {w \in UserPage : mm[c].pte[w] # NoPte} = {}
      BY <3>1 DEF NoMm
    <3> QED BY <3>2 DEF Space, Private!Nothing
  <2>3. Private!SpaceFork(p, c)
    <3>1. Spaces[c] = Private!Nothing /\ Spaces[p] = Space(p)
      BY <2>2 DEF Spaces
    <3> QED BY <2>1, <3>1 DEF Private!SpaceFork, Spaces
  <2> QED BY <1>1, <2>3 DEF Abstractly, Private!SpaceNext
<1> QED BY <1>1, <1>2, <1>3, <1>4, LeavesSpace

LEMMA EndShown ==
  ASSUME VmInv, NEW p \in User, Leaves(p, Nobody)
  PROVE  Abstractly
<1>1. CASE \A q \in User : Space(q)' = Space(q)
  BY <1>1, SpacesSame DEF Abstractly
<1>2. CASE Space(p)' = Private!Nothing /\ SpacesStay(p)
  <2>1. PICK X : X = Private!Nothing
    OBVIOUS
  <2>2. Spaces' = [Spaces EXCEPT ![p] = X]
    BY <1>2, <2>1, SpacesPut
  <2>3. Private!SpaceExit(p)
    BY <2>1, <2>2 DEF Private!SpaceExit, Spaces
  <2> QED BY <2>3 DEF Abstractly, Private!SpaceNext
<1> QED BY <1>1, <1>2, LeavesSpace, NobodyShown

LEMMA ExecShown ==
  ASSUME VmInv, NEW p \in User, NEW prog \in Programs, Exec(p, prog)
  PROVE  Abstractly
<1>1. Leaves(p, Fresh(prog))
  BY ExecIs
<1>2. CASE \A q \in User : Space(q)' = Space(q)
  BY <1>2, SpacesSame DEF Abstractly
<1>3. CASE Space(p)' = Shown(Fresh(prog)) /\ SpacesStay(p)
  <2>1. PICK top \in [StackTop -> Value] :
          Shown(Fresh(prog)) = [v \in Loaded(prog) \cup StackTop |->
                                  IF v \in Loaded(prog) THEN Image ELSE top[v]]
    BY FreshShown
  <2>2. PICK X : X = Shown(Fresh(prog))
    OBVIOUS
  <2>3. Spaces' = [Spaces EXCEPT ![p] = X]
    BY <1>3, <2>2, SpacesPut
  <2>4. Private!SpaceExec(p, Loaded(prog))
    BY <2>1, <2>2, <2>3 DEF Private!SpaceExec, Spaces
  <2>5. Private!SpaceExec(p, UNION {prog[i].pages : i \in DOMAIN prog})
    BY <2>4 DEF Loaded
  <2> QED BY <2>5 DEF Abstractly, Private!SpaceNext
<1> QED BY <1>1, <1>2, <1>3, LeavesSpace

LEMMA TouchShown ==
  ASSUME VmInv, NEW p \in User, NEW v \in UserPage, do_pgfault(p, v)
  PROVE  Abstractly
<1>1. PICK V, W : V = Now(p) /\ W = [V EXCEPT ![v] = <<Leftover>>]
  OBVIOUS
<1>2. V[v] = <<>> /\ Leaves(p, W)
  BY <1>1, PgfaultIs
<1>3. Space(p) = Shown(V)
  BY <1>1, SpaceIs
<1>4. CASE \A q \in User : Space(q)' = Space(q)
  BY <1>4, SpacesSame DEF Abstractly
<1>5. CASE Space(p)' = Shown(W) /\ SpacesStay(p)
  <2>1. PICK X, l : X = Shown(W) /\ l = <<Leftover>>
    OBVIOUS
  <2>2. Spaces' = [Spaces EXCEPT ![p] = X]
    BY <1>5, <2>1, SpacesPut
  <2>3. DOMAIN Space(p) = {w \in UserPage : V[w] # <<>>}
        /\ \A w \in DOMAIN Space(p) : Space(p)[w] = V[w][1]
    BY <1>3 DEF Shown
  <2>4. v \notin DOMAIN Space(p)
    BY <1>2, <2>3
  <2>5. l # <<>> /\ l[1] = Leftover
    BY <2>1
  <2>6. W[v] = l /\ \A w \in UserPage \ {v} : W[w] = V[w]
    <3>1. V = [w \in UserPage |-> V[w]]
      BY <1>1 DEF Now, View
    <3> QED BY <1>1, <2>1, <3>1
  <2>7. {w \in UserPage : W[w] # <<>>} = DOMAIN Space(p) \cup {v}
    BY <2>3, <2>5, <2>6
  <2>8. X = [w \in DOMAIN Space(p) \cup {v} |-> IF w = v THEN Leftover ELSE Space(p)[w]]
    <3>1. \A w \in DOMAIN Space(p) \cup {v} :
            W[w][1] = IF w = v THEN Leftover ELSE Space(p)[w]
      BY <2>3, <2>4, <2>5, <2>6
    <3> QED BY <2>1, <2>7, <3>1 DEF Shown
  <2>9. Spaces[p] = Space(p) /\ Private!Domain(p) = DOMAIN Space(p)
    BY DEF Spaces, Private!Domain
  <2>10. Private!SpaceTouch(p, v)
    <3>1. v \notin Private!Domain(p)
      BY <2>4, <2>9
    <3>2. Leftover \in Value
      BY Bounds
    <3>3. Spaces' = [Spaces EXCEPT ![p] =
                       [w \in Private!Domain(p) \cup {v} |-> IF w = v THEN Leftover ELSE Spaces[p][w]]]
      BY <2>2, <2>8, <2>9
    <3> QED BY <3>1, <3>2, <3>3 DEF Private!SpaceTouch, Spaces
  <2> QED BY <2>10 DEF Abstractly, Private!SpaceNext
<1> QED BY <1>2, <1>4, <1>5, LeavesSpace

LEMMA WriteShown ==
  ASSUME VmInv, NEW p \in User, NEW v \in UserPage, NEW y \in Written, UserWrite(p, v, y)
  PROVE  Abstractly
<1>1. PICK f : f = mm[p].pte[v].frame
  OBVIOUS
<1>2. /\ f # 0 /\ mm[p].pte[v] # NoPte /\ mem' = [mem EXCEPT ![f] = y] /\ mm' = mm /\ y \in Value
  BY <1>1, UserWriteIs
<1>3. f \in Frame /\ f \in Owned(p)
  BY <1>1, <1>2, PageOwned
<1>4. mem'[f] = y /\ \A g \in Frame \ {f} : mem'[g] = mem[g]
  BY <1>2, <1>3 DEF VmInv, VmTypeOK
<1>5. SpacesStay(p)
  <2>1. ASSUME NEW q \in User \ {p} PROVE Space(q)' = Space(q)
    <3>1. Owned(q) \subseteq Frame \ {f}
      BY <1>3 DEF VmInv, OwnersInv
    <3> QED BY <1>2, <1>4, <3>1, SpaceSame
  <2> QED BY <2>1 DEF SpacesStay
<1>6. PICK D : D = {w \in UserPage : mm[p].pte[w] # NoPte}
  OBVIOUS
<1>7. v \in D /\ DOMAIN Space(p) = D /\ \A w \in D : Space(p)[w] = mem[mm[p].pte[w].frame]
  BY <1>2, <1>6 DEF Space
<1>8. Space(p)' = [w \in D |-> mem'[mm[p].pte[w].frame]]
  BY <1>2, <1>6 DEF Space
<1>9. ASSUME NEW w \in D
      PROVE  mem'[mm[p].pte[w].frame] = IF w = v THEN y ELSE Space(p)[w]
  <2>1. CASE w = v
    BY <1>1, <1>4, <2>1
  <2>2. CASE w # v
    <3>1. PICK g : g = mm[p].pte[w].frame
      OBVIOUS
    <3>2. w \in UserPage /\ mm[p].pte[w] # NoPte
      BY <1>6
    <3>3. g # 0
      BY <3>1, <3>2 DEF VmInv, MapsInv, Lies
    <3>4. g \in Frame
      BY <3>1, <3>2, <3>3, PageOwned
    <3>5. g # f
      <4>1. Names(mm[p])[AtPage(w)] = g /\ Names(mm[p])[AtPage(v)] = f
        BY <1>1, <3>1, <3>2, NamesAt
      <4>2. AtPage(w) \in Place /\ AtPage(v) \in Place /\ AtPage(w) # AtPage(v)
        BY <2>2, <3>2, Places
      <4> QED BY <3>3, <4>1, <4>2 DEF VmInv, OwnersInv
    <3> QED BY <1>4, <1>7, <2>2, <3>1, <3>4, <3>5
  <2> QED BY <2>1, <2>2
<1>10. PICK X : X = [Space(p) EXCEPT ![v] = y]
  OBVIOUS
<1>11. Space(p)' = X
  <2>1. Space(p) = [w \in D |-> Space(p)[w]]
    BY <1>6 DEF Space
  <2>2. X = [w \in D |-> IF w = v THEN y ELSE Space(p)[w]]
    BY <1>10, <2>1
  <2> QED BY <1>8, <1>9, <2>2
<1>12. Spaces' = [Spaces EXCEPT ![p] = X]
  BY <1>5, <1>11, SpacesPut
<1>13. Spaces[p] = Space(p) /\ Private!Domain(p) = DOMAIN Space(p)
  BY DEF Spaces, Private!Domain
<1>14. Spaces' = [Spaces EXCEPT ![p][v] = y]
  BY <1>10, <1>12, <1>13
<1>15. Private!SpaceWrite(p, v, y)
  BY <1>7, <1>13, <1>14 DEF Private!SpaceWrite, Spaces
<1> QED BY <1>2, <1>15 DEF Abstractly, Private!SpaceNext

LEMMA ReapShown ==
  ASSUME VmInv, NEW p \in User, Reap(p)
  PROVE  Abstractly
<1>1. mm' = mm /\ mem' = mem
  BY DEF Reap
<1> QED BY <1>1, SpaceSame, SpacesSame DEF Abstractly

LEMMA StopsShown ==
  ASSUME VmInv, Stops
  PROVE  Abstractly
<1>1. mm' = mm /\ mem' = mem
  BY DEF Stops
<1> QED BY <1>1, SpaceSame, SpacesSame DEF Abstractly

LEMMA StepShown ==
  ASSUME VmInv, [VmNext]_vmVars
  PROVE  Abstractly
<1>1. CASE UNCHANGED vmVars
  BY <1>1, SpaceSame, SpacesSame DEF Abstractly, vmVars
<1>2. CASE VmNext
  <2>1. PICK p \in User :
          \/ \E c \in User : Fork(p, c)
          \/ \E prog \in Programs :
              \/ Exec(p, prog)
              \/ \E n \in 0 .. Len(prog) : ExecBadProgram(p, prog, n)
              \/ \E n \in DOMAIN prog, v \in UserPage : ExecBadPage(p, prog, n, v)
          \/ Exit(p)
          \/ Reap(p)
          \/ \E v \in UserPage :
              \/ do_pgfault(p, v)
              \/ BadAccess(p, v)
              \/ \E y \in Written : UserWrite(p, v, y)
    BY <1>2 DEF VmNext
  <2>2. ASSUME NEW c \in User, Fork(p, c) PROVE Abstractly
    BY <2>2, ForkShown
  <2>3. ASSUME NEW prog \in Programs, Exec(p, prog) PROVE Abstractly
    BY <2>3, ExecShown
  <2>4. ASSUME NEW prog \in Programs, NEW n \in 0 .. Len(prog), ExecBadProgram(p, prog, n)
        PROVE  Abstractly
    BY <2>4, ExecBadProgramIs, EndShown
  <2>9. ASSUME NEW prog \in Programs, NEW n \in DOMAIN prog, NEW v \in UserPage,
               ExecBadPage(p, prog, n, v)
        PROVE  Abstractly
    BY <2>9, ExecBadPageIs, EndShown
  <2>10. ASSUME NEW v \in UserPage, BadAccess(p, v) PROVE Abstractly
    BY <2>10, BadAccessIs, StopsShown
  <2>5. CASE Exit(p)
    BY <2>5, ExitIs, EndShown
  <2>6. CASE Reap(p)
    BY <2>6, ReapShown
  <2>7. ASSUME NEW v \in UserPage, do_pgfault(p, v) PROVE Abstractly
    BY <2>7, TouchShown
  <2>8. ASSUME NEW v \in UserPage, NEW y \in Written, UserWrite(p, v, y) PROVE Abstractly
    BY <2>8, WriteShown
  <2> QED BY <2>1, <2>2, <2>3, <2>4, <2>5, <2>6, <2>7, <2>8, <2>9, <2>10
<1> QED BY <1>1, <1>2

LEMMA InitShown ==
  ASSUME VmInit
  PROVE  Private!SpaceInit
<1>1. \A p \in User : mm[p] = NoMm
  BY DEF VmInit
<1>2. ASSUME NEW p \in User PROVE Space(p) = Private!Nothing
  <2>1. {w \in UserPage : mm[p].pte[w] # NoPte} = {}
    BY <1>1 DEF NoMm
  <2> QED BY <2>1 DEF Space, Private!Nothing
<1> QED BY <1>2 DEF Private!SpaceInit

(* Frames, page tables and copies implement an address space of its own for   *)
(* each process, for every number of processes, pages and programs: a call or *)
(* a write of one process changes no page of another, fork gives the child    *)
(* what the parent has, and exec leaves the program and its stack alone.      *)
THEOREM PrivateMemoryImplemented == VmSpec => ImplementsPrivateMemory
<1>1. VmInit => Private!SpaceInit
  BY InitShown
<1>2. VmInv /\ [VmNext]_vmVars => [Private!SpaceNext]_([p \in User |-> Space(p)])
  BY StepShown DEF Abstractly, Spaces
<1> QED BY <1>1, <1>2, VmInvariant, PTL DEF VmSpec, ImplementsPrivateMemory, Private!SpaceSpec

=============================================================================
