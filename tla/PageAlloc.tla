------------------------------ MODULE PageAlloc ------------------------------
(***************************************************************************)
(* The page allocator (kern/mm/default_pmm.c), first fit.  Every free page  *)
(* is on free_list, in address order; property of the first page of a free  *)
(* block is the length of the block, and 0 for its other pages.  A page off *)
(* the list keeps the property it had.                                      *)
(***************************************************************************)
EXTENDS Naturals, Sequences, SequencesExt

CONSTANTS NPage,  \* npage: the pages are 0 .. NPage - 1
          Zones   \* the arguments <<base, n>> of init_memmap, in order

Page == 0 .. NPage - 1

Run(base, n) == base .. base + n - 1

ASSUME ZonesAssumption ==
    /\ NPage \in Nat
    /\ Zones \in Seq(Page \X (1 .. NPage))
    /\ \A i \in DOMAIN Zones : Run(Zones[i][1], Zones[i][2]) \subseteq Page
    /\ \A i, j \in DOMAIN Zones :
          i < j => Zones[i][1] + Zones[i][2] < Zones[j][1]

VARIABLES list,      \* free_list
          property,  \* property[p]
          reserved,  \* the pages with PG_reserved
          nrFree,    \* nr_free
          held,      \* history: the blocks <<base, n>> handed out
          zone       \* i of page_init: the zones it has done

Usable == UNION {Run(Zones[i][1], Zones[i][2]) : i \in 1 .. zone}

RunSeq(base, n) == [i \in 1 .. n |-> base + i - 1]

\* default_init, and page_init when it has reserved every page.
Init ==
    /\ list = <<>>
    /\ property = [p \in Page |-> 0]
    /\ reserved = Page
    /\ nrFree = 0
    /\ held = {}
    /\ zone = 0

-----------------------------------------------------------------------------

(* The free area f: a record of list, property, reserved and nrFree.        *)

Area == [list |-> list, property |-> property, reserved |-> reserved, nrFree |-> nrFree]

SetArea(f) == /\ list' = f.list
              /\ property' = f.property
              /\ reserved' = f.reserved
              /\ nrFree' = f.nrFree

\* The pages of a zone become one free block.
default_init_memmap(f, base, n) ==
    [list     |-> f.list \o RunSeq(base, n),
     property |-> [p \in Page |-> IF p = base THEN n
                                  ELSE IF p \in Run(base, n) THEN 0 ELSE f.property[p]],
     reserved |-> f.reserved \ Run(base, n),
     nrFree   |-> f.nrFree + n]

\* page_init hands over the next zone of the memory map.
page_init ==
    /\ zone < Len(Zones)
    /\ SetArea(default_init_memmap(Area, Zones[zone + 1][1], Zones[zone + 1][2]))
    /\ zone' = zone + 1
    /\ UNCHANGED held

Booted == zone = Len(Zones)

\* The places in the list whose page heads a block of n pages or more.
Fits(f, n) == {i \in DOMAIN f.list : f.property[f.list[i]] >= n}

\* default_alloc_pages(n) does not return NULL, and what it returns then.
Finds(f, n) == n \in 1 .. f.nrFree /\ Fits(f, n) # {}
Found(f, n) == f.list[Min(Fits(f, n))]

\* Mutant: the page behind the block is lost.
default_alloc_pages_OneMore(f, n) ==
    LET at == Min(Fits(f, n))
    IN  [list     |-> SubSeq(f.list, 1, at - 1) \o SubSeq(f.list, at + n + 1, Len(f.list)),
         property |-> f.property,
         reserved |-> f.reserved \cup {f.list[i] : i \in at .. at + n - 1},
         nrFree   |-> f.nrFree - n]

(* default_alloc_pages(n) that finds a block: it unlinks n pages from the   *)
(* first block that is long enough and makes the rest a block.              *)
default_alloc_pages(f, n) ==
    LET at == Min(Fits(f, n))
        p  == f.list[at]
    IN  [list     |-> SubSeq(f.list, 1, at - 1) \o SubSeq(f.list, at + n, Len(f.list)),
         property |-> IF f.property[p] > n
                      THEN [f.property EXCEPT ![f.list[at + n]] = f.property[p] - n]
                      ELSE f.property,
         reserved |-> f.reserved \cup {f.list[i] : i \in at .. at + n - 1},
         nrFree   |-> f.nrFree - n]

\* Where free_pages links base: before the first page above it.
PlaceOf(f, base) ==
    LET above == {i \in DOMAIN f.list : f.list[i] > base}
    IN  IF above = {} THEN Len(f.list) + 1 ELSE Min(above)

\* The block at base takes in the one that starts right after it.
MergeNext(prop, base, n, next) ==
    IF base + n = next THEN [prop EXCEPT ![base] = n + prop[next], ![next] = 0]
                       ELSE [prop EXCEPT ![base] = n]

\* Mutant: the walk back takes the page before base for a block.
MergePrev_OneStep(prop, below, base) ==
    IF below # <<>> /\ Last(below) + 1 = base
    THEN [prop EXCEPT ![base - 1] = @ + prop[base], ![base] = 0]
    ELSE prop

(* The block that ends right before base, whose first page is found by      *)
(* walking back through the pages below to one with a length, takes in the  *)
(* block at base.                                                           *)
MergePrev(prop, below, base) ==
    LET heads == {i \in DOMAIN below : prop[below[i]] # 0}
        head  == below[Max(heads)]
    IN  IF below # <<>> /\ Last(below) + 1 = base /\ heads # {}
        THEN [prop EXCEPT ![head] = @ + prop[base], ![base] = 0]
        ELSE prop

(* default_free_pages(base, n).  Only base loses PG_reserved.  NPage + 1    *)
(* stands for the list head, no page at all.                                *)
default_free_pages(f, base, n) ==
    LET at    == PlaceOf(f, base)
        below == SubSeq(f.list, 1, at - 1)
        next  == IF at <= Len(f.list) THEN f.list[at] ELSE NPage + 1
    IN  [list     |-> below \o RunSeq(base, n) \o SubSeq(f.list, at, Len(f.list)),
         property |-> MergePrev(MergeNext(f.property, base, n, next), below, base),
         reserved |-> f.reserved \ {base},
         nrFree   |-> f.nrFree + n]

-----------------------------------------------------------------------------

(* No page is handed out twice, none is lost, a block handed out is the      *)
(* caller's alone until it is freed and passes the assertion of free_pages, *)
(* and nr_free counts the pages of the list, which is in address order.     *)
PagesPartitioned ==
    LET taken == UNION {Run(b[1], b[2]) : b \in held}
    IN  /\ \A a, b \in held : a # b => Run(a[1], a[2]) \cap Run(b[1], b[2]) = {}
        /\ taken \cap ToSet(list) = {}
        /\ taken \cup ToSet(list) = Usable
        /\ \A b \in held : b[1] \in reserved
        /\ \A i, j \in DOMAIN list : i < j => list[i] < list[j]
        /\ nrFree = Len(list)

(* An allocation fails only when there is no run of free pages that long,    *)
(* and takes the lowest one otherwise (first fit): blocks are never left     *)
(* unmerged and their lengths tell the truth, the stale lengths of pages     *)
(* that were allocated in between notwithstanding.                          *)
FirstFit ==
    \A n \in 1 .. NPage :
        LET runs == {p \in Page : Run(p, n) \subseteq ToSet(list)}
        IN  IF Finds(Area, n)
            THEN Found(Area, n) \in runs /\ \A p \in runs : Found(Area, n) <= p
            ELSE runs = {}

=============================================================================
