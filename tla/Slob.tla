--------------------------------- MODULE Slob ---------------------------------
(***************************************************************************)
(* kmalloc and kfree (kern/mm/kmalloc.c): a K&R heap of units on a circular *)
(* list of free blocks sorted by address, grown by one page at a time, and  *)
(* whole pages for large objects.                                           *)
(*                                                                          *)
(* A unit is SLOB_UNIT bytes, the size of the header struct slob_block.     *)
(* Address 0 is arena, below all pages; page p has the units PageBase(p) .. *)
(* PageBase(p) + PageUnits - 1.  Interrupt handlers allocate nothing, so a  *)
(* call of kmalloc or kfree is one step, the calls of the page allocator in *)
(* it included.                                                             *)
(***************************************************************************)
EXTENDS PageAlloc

CONSTANTS PageUnits,  \* PAGE_SIZE in units
          Sizes,      \* arguments of kmalloc, whole units
          Blocks      \* numbers of pages other callers of alloc_pages ask for

ASSUME SlobAssumption == /\ PageUnits \in Nat /\ PageUnits > 4
                         /\ Sizes \subseteq Nat \ {0}
                         /\ Blocks \subseteq Nat \ {0}

VARIABLES next,      \* next[b] of each free block b, arena among them
          units,     \* units[a]: the header at a, 0 where no block starts
          slobfree,
          heapPages, \* history: the pages the heap has grown by
          live,      \* history: blocks of slob_alloc in use, with their units
          bigblocks, \* the list bigblocks, as a set of bb, page and order
          panic

areaVars == <<list, property, reserved, nrFree, held, zone>>
heapVars == <<next, units, slobfree, heapPages, live, bigblocks>>
vars == <<areaVars, heapVars, panic>>

arena == 0
BigUnits == 2  \* SLOB_UNITS(sizeof(bigblock_t))

PageBase(p) == 2 + p * PageUnits
Addr == 0 .. PageBase(NPage) - 1
Units(a, n) == a .. a + n - 1

SlobInit ==
        /\ Init
        /\ next = [b \in {arena} |-> arena]
        /\ units = [a \in Addr |-> IF a = arena THEN 1 ELSE 0]
        /\ slobfree = arena
        /\ heapPages = {}
        /\ live = {}
        /\ bigblocks = {}
        /\ panic = FALSE

-----------------------------------------------------------------------------
(* The heap h: a record of next, units and slobfree.                        *)

Heap == [next |-> next, units |-> units, slobfree |-> slobfree]

(* The free blocks in the order a search meets them: from slobfree round to *)
(* slobfree itself.                                                         *)
Ring(h) ==
    LET r[i \in 0 .. Cardinality(DOMAIN h.next)] ==
            IF i = 0 THEN h.slobfree ELSE h.next[r[i - 1]]
    IN  r

Before(h, b) == CHOOSE c \in DOMAIN h.next : h.next[c] = b

\* The next of h without b, and with b before c.
Unlink(nx, b) == [x \in DOMAIN nx \ {b} |-> IF nx[x] = b THEN nx[b] ELSE nx[x]]

\* The places of the ring, from the one after slobfree on, with n units or
\* more, and the block that slob_alloc takes them from.
Fitting(h, n) == {i \in DOMAIN Ring(h) \ {0} : h.units[Ring(h)[i]] >= n}
Fit(h, n) == Ring(h)[Min(Fitting(h, n))]

(* slob_alloc takes n units from the front of block b, and the next search  *)
(* starts where b was.                                                      *)
TakeBlock(h, b, n) ==
    LET rest == b + n
    IN  IF h.units[b] = n
        THEN [next |-> Unlink(h.next, b), units |-> h.units, slobfree |-> Before(h, b)]
        ELSE [next     |-> [x \in (DOMAIN h.next \ {b}) \cup {rest} |->
                               IF x = rest THEN h.next[b]
                               ELSE IF h.next[x] = b THEN rest ELSE h.next[x]],
              units    |-> [h.units EXCEPT ![rest] = h.units[b] - n, ![b] = n],
              slobfree |-> Before(h, b)]

(* The reinsertion point, looked for from slobfree on: the free block after *)
(* which b belongs, the last one when b lies beyond either end.             *)
Point(h, b) ==
    LET ok(c) == \/ b > c /\ b < h.next[c]
                 \/ c >= h.next[c] /\ (b > c \/ b < h.next[c])
    IN  Ring(h)[Min({i \in DOMAIN Ring(h) : ok(Ring(h)[i])})]

\* Mutant: b is not merged with the block below it.
slob_free_NoMerge(h, b, n) ==
    LET cur == Point(h, b)
        nxt == h.next[cur]
        up  == b + n = nxt
    IN  [next     |-> [x \in (DOMAIN h.next \cup {b}) \ (IF up THEN {nxt} ELSE {}) |->
                          IF x = b THEN IF up THEN h.next[nxt] ELSE nxt
                          ELSE IF x = cur THEN b ELSE h.next[x]],
         units    |-> [h.units EXCEPT ![b] = IF up THEN n + h.units[nxt] ELSE n],
         slobfree |-> cur]

\* Mutant: the units of the block above are not added.
slob_free_NoUnits(h, b, n) ==
    LET cur == Point(h, b)
        nxt == h.next[cur]
        up  == b + n = nxt
    IN  [next     |-> [x \in (DOMAIN h.next \cup {b}) \ (IF up THEN {nxt} ELSE {}) |->
                          IF x = b THEN IF up THEN h.next[nxt] ELSE nxt
                          ELSE IF x = cur THEN b ELSE h.next[x]],
         units    |-> [h.units EXCEPT ![b] = n],
         slobfree |-> cur]

(* slob_free of the n units at b: merged with the block above, then with    *)
(* the one below, or linked between them.                                   *)
slob_free(h, b, n) ==
    LET cur  == Point(h, b)
        nxt  == h.next[cur]
        up   == b + n = nxt
        n1   == IF up THEN n + h.units[nxt] ELSE n
        nx1  == IF up THEN h.next[nxt] ELSE nxt
        down == cur + h.units[cur] = b
        gone == IF up THEN {nxt} ELSE {}
    IN  IF down
        THEN [next     |-> [x \in DOMAIN h.next \ gone |->
                               IF x = cur THEN nx1 ELSE h.next[x]],
              units    |-> [x \in Addr |-> IF x \in gone \cup {b} THEN 0
                                           ELSE IF x = cur THEN h.units[cur] + n1
                                           ELSE h.units[x]],
              slobfree |-> cur]
        ELSE [next     |-> [x \in (DOMAIN h.next \cup {b}) \ gone |->
                               IF x = b THEN nx1
                               ELSE IF x = cur THEN b ELSE h.next[x]],
              units    |-> [x \in Addr |-> IF x \in gone THEN 0
                                           ELSE IF x = b THEN n1 ELSE h.units[x]],
              slobfree |-> cur]

-----------------------------------------------------------------------------

(* slob_alloc(n): a block of the heap, or of the heap grown by a page when  *)
(* no block fits; nothing when there is no page.                            *)
Allocs(n) ==
    IF Fitting(Heap, n) # {}
    THEN {[heap  |-> TakeBlock(Heap, Fit(Heap, n), n),
           block |-> Fit(Heap, n),
           area  |-> Area,
           grown |-> {}]}
    ELSE {LET h == slob_free(Heap, PageBase(p), PageUnits)
          IN  [heap  |-> TakeBlock(h, Fit(h, n), n),
               block |-> Fit(h, n),
               area  |-> default_alloc_pages(Area, 1),
               grown |-> {p}] : p \in IF Finds(Area, 1) THEN {Found(Area, 1)} ELSE {}}

SetHeap(h) == next' = h.next /\ units' = h.units /\ slobfree' = h.slobfree

\* The assertion of slob_alloc, for n units with the header.
FitsPage(n) == n + 1 < PageUnits

\* kmalloc of u units that fit a page with their header.
kmalloc_small(u) ==
    /\ u < PageUnits - 1
    /\ FitsPage(u + 1)
    /\ \E a \in Allocs(u + 1) :
          /\ SetHeap(a.heap)
          /\ SetArea(a.area)
          /\ held' = held \cup {<<p, 1>> : p \in a.grown}
          /\ heapPages' = heapPages \cup a.grown
          /\ live' = live \cup {<<a.block, u + 1>>}
    /\ UNCHANGED <<zone, bigblocks, panic>>

kmalloc_asserts(u) ==
    /\ u < PageUnits - 1
    /\ ~ FitsPage(u + 1)
    /\ panic' = TRUE
    /\ UNCHANGED <<areaVars, heapVars>>

\* find_order, by halving.
find_order(u) ==
    LET half[i \in Nat] == IF i = 0 THEN u ELSE half[i - 1] \div 2
    IN  Min({i \in 0 .. u : half[i] <= PageUnits})

(* kmalloc of a large object: a bigblock from the heap and pages of its     *)
(* own; the bigblock is given back when there are no such pages.            *)
kmalloc_large(u) ==
    /\ u >= PageUnits - 1
    /\ \E a \in Allocs(BigUnits) :
          LET order == find_order(u)
              page  == Found(a.area, 2^order)
              grown == {<<p, 1>> : p \in a.grown}
          IN  /\ heapPages' = heapPages \cup a.grown
              /\ \/ /\ Finds(a.area, 2^order)
                    /\ SetHeap(a.heap)
                    /\ SetArea(default_alloc_pages(a.area, 2^order))
                    /\ held' = held \cup grown \cup {<<page, 2^order>>}
                    /\ live' = live \cup {<<a.block, BigUnits>>}
                    /\ bigblocks' = bigblocks \cup
                          {[bb |-> a.block, page |-> page, order |-> order]}
                 \/ /\ ~ Finds(a.area, 2^order)
                    /\ SetHeap(slob_free(a.heap, a.block, BigUnits))
                    /\ SetArea(a.area)
                    /\ held' = held \cup grown
                    /\ UNCHANGED <<live, bigblocks>>
    /\ UNCHANGED <<zone, panic>>

kfree_large(g) ==
    /\ SetHeap(slob_free(Heap, g.bb, BigUnits))
    /\ SetArea(default_free_pages(Area, g.page, 2^g.order))
    /\ held' = held \ {<<g.page, 2^g.order>>}
    /\ live' = {l \in live : l[1] # g.bb}
    /\ bigblocks' = bigblocks \ {g}
    /\ UNCHANGED <<zone, heapPages>>

kfree_small(b) ==
    /\ SetHeap(slob_free(Heap, b, units[b]))
    /\ live' = {l \in live : l[1] # b}
    /\ UNCHANGED <<areaVars, heapPages, bigblocks>>

\* What kmalloc has returned and the caller may give back.
Pointers == {l[1] + 1 : l \in {l \in live : \A g \in bigblocks : g.bb # l[1]}}
                \cup {PageBase(g.page) : g \in bigblocks}

(* kfree(a): a page of bigblocks if there is one at a, otherwise a block    *)
(* with its header before it, even when it happens to start a page.         *)
kfree(a) ==
    /\ a \in Pointers
    /\ LET big == {g \in bigblocks : PageBase(g.page) = a}
       IN  IF big = {} THEN kfree_small(a - 1)
                       ELSE \E g \in big : kfree_large(g)
    /\ UNCHANGED panic

-----------------------------------------------------------------------------
(* The other callers of alloc_pages and free_pages.                         *)

CallerAllocs(n) ==
    /\ Finds(Area, n)
    /\ SetArea(default_alloc_pages(Area, n))
    /\ held' = held \cup {<<Found(Area, n), n>>}
    /\ UNCHANGED <<zone, heapVars, panic>>

Large == {<<g.page, 2^g.order>> : g \in bigblocks}
Others == held \ (Large \cup {<<p, 1>> : p \in heapPages})

CallerFrees(b) ==
    /\ b \in Others
    /\ SetArea(default_free_pages(Area, b[1], b[2]))
    /\ held' = held \ {b}
    /\ UNCHANGED <<zone, heapVars, panic>>

\* pmm_init sets up all pages before anybody allocates.
Boot == page_init /\ UNCHANGED <<heapVars, panic>>

Call == \/ \E u \in Sizes : kmalloc_small(u) \/ kmalloc_asserts(u) \/ kmalloc_large(u)
        \/ \E a \in Addr : kfree(a)
        \/ \E n \in Blocks : CallerAllocs(n)
        \/ \E b \in held : CallerFrees(b)

SlobNext == ~ panic /\ (Boot \/ (Booted /\ Call))

Spec == SlobInit /\ [][SlobNext]_vars

-----------------------------------------------------------------------------

(* The ring visits the free blocks by address, and two that touch have been  *)
(* merged: no sequence of calls splits the heap for good.                   *)
RingSorted ==
    /\ slobfree \in DOMAIN next
    /\ \A b \in DOMAIN next :
          LET above == {c \in DOMAIN next : c > b}
          IN  IF above = {} THEN next[b] = arena
              ELSE next[b] = Min(above) /\ b + units[b] < next[b]

(* Every unit of the heap is free or in one block in use: kmalloc hands out  *)
(* no unit twice, kfree gives back all of them, header included.  Each      *)
(* large object has its bigblock among the blocks and its pages to itself.  *)
UnitsPartitioned ==
    LET inUse == {Units(l[1], l[2]) : l \in live}
        free  == {Units(b, units[b]) : b \in DOMAIN next}
    IN  /\ \A a, b \in DOMAIN next :
              a # b => Units(a, units[a]) \cap Units(b, units[b]) = {}
        /\ \A k, l \in live : k # l => Units(k[1], k[2]) \cap Units(l[1], l[2]) = {}
        /\ (UNION inUse) \cap (UNION free) = {}
        /\ (UNION inUse) \cup (UNION free) =
              {arena} \cup UNION {Units(PageBase(p), PageUnits) : p \in heapPages}
        /\ \A g \in bigblocks : <<g.bb, BigUnits>> \in live
        /\ \A f, g \in bigblocks : f # g => f.bb # g.bb /\ f.page # g.page
        /\ Large \subseteq held /\ \A b \in Large : b[1] \notin heapPages

=============================================================================
