---------------------------------- MODULE Vm ----------------------------------
(***************************************************************************)
(* The physical pages behind processes: kernel stacks, page directories,     *)
(* page tables and user pages (kern/mm/pmm.c, kern/mm/vmm.c), as fork, exec,  *)
(* page faults, exit and wait (kern/process/proc.c) take and return them.    *)
(* The kernel does not preempt itself and these calls never sleep, so each   *)
(* is one step.                                                             *)
(*                                                                          *)
(* An operator of the code maps s, the frames with the mm at hand, to what   *)
(* it leaves.  A single page is never refused: with no page left             *)
(* alloc_pages asks the swap manager for one without an mm, which ends the   *)
(* kernel; ok turns FALSE.                                                   *)
(***************************************************************************)
EXTENDS Integers, FiniteSets, Sequences, FiniteSetsExt

CONSTANTS User,
          NFrame,       \* physical pages for processes
          USTACKTOP,    \* in pages: user pages are those below, the stack last
          USTACKPAGE,   \* pages of the area of the stack
          NStack,       \* pages of it that load_icode allocates
          NPTEENTRY,    \* pages below a page table
          Programs,     \* sequences of areas to load
          Image,        \* contents of a page that was loaded
          Written,      \* what programs write
          Leftover      \* contents a page has from before, not told apart

Frame == 1 .. NFrame
Value == Written \cup {Image, Leftover}
UserPage == 0 .. USTACKTOP - 1
TableOf(v) == v \div NPTEENTRY
Tables == {TableOf(v) : v \in UserPage}
Vma == [pages : SUBSET UserPage, write : BOOLEAN]
StackArea == [pages |-> USTACKTOP - USTACKPAGE .. USTACKTOP - 1, write |-> TRUE]
StackTop == USTACKTOP - NStack .. USTACKTOP - 1

\* A program with an area in the stack is bad: mm_map refuses the second of two
\* areas that overlap, or check_vma_overlap stops the kernel.
ASSUME VmAssumption ==
    /\ NFrame \in Nat \ {0, 1}
    /\ USTACKTOP \in Nat /\ NPTEENTRY \in Nat \ {0}
    /\ USTACKPAGE \in 0 .. USTACKTOP /\ NStack \in 0 .. USTACKPAGE
    /\ Programs \subseteq Seq(Vma)
    /\ \A prog \in Programs : \A i \in DOMAIN prog :
        prog[i].pages \cap StackArea.pages = {}

VARIABLES status,       \* status[p], "none", "live" or "zombie"
          kstack,       \* kstack[p], the first of its two frames, or 0
          mm,           \* mm[p], a memory descriptor, or NoMm
          free,         \* frames that are free
          ref,          \* ref[f], page->ref
          mem,          \* mem[f], contents
          stopped       \* the kernel panicked: no memory, or a bad access

vmVars == <<status, kstack, mm, free, ref, mem, stopped>>

NoPte == [frame |-> 0, write |-> FALSE]
NoMm == [pgdir |-> 0, table |-> [t \in Tables |-> 0],
         pte |-> [v \in UserPage |-> NoPte], areas |-> <<>>]

\* initproc has forked user_main, a kernel thread that will exec a program.
VmInit ==
    /\ \E p \in User :
        /\ status = [q \in User |-> IF q = p THEN "live" ELSE "none"]
        /\ kstack = [q \in User |-> IF q = p THEN 1 ELSE 0]
    /\ mm = [p \in User |-> NoMm]
    /\ free = Frame \ {1, 2}
    /\ ref = [f \in Frame |-> 0]
    /\ mem = [f \in Frame |-> Leftover]
    /\ stopped = FALSE

-----------------------------------------------------------------------------
(* Pages and page tables.                                                   *)

\* The lowest free page, by first fit, as s.new.
alloc_page(s) ==
    IF s.free = {} \/ ~ s.ok THEN [s EXCEPT !.ok = FALSE]
    ELSE [s EXCEPT !.free = @ \ {Min(@)}, !.new = Min(s.free)]

free_page(s, f) == [s EXCEPT !.free = @ \cup {f}, !.ref[f] = 0, !.mem[f] = Leftover]

\* get_pte with create: the table of v exists afterwards.
get_pte(s, v) ==
    LET a == alloc_page(s)
    IN  IF s.table[TableOf(v)] # 0 THEN s
        ELSE IF ~ a.ok THEN a
        ELSE [a EXCEPT !.table[TableOf(v)] = a.new, !.ref[a.new] = 1]

\* Mutant: the reference is dropped and the page is not freed.
page_remove_pte_NotFreed(s, v) ==
    LET f == s.pte[v].frame
    IN  IF f = 0 THEN s ELSE [s EXCEPT !.ref[f] = @ - 1, !.pte[v] = NoPte]

page_remove_pte(s, v) ==
    LET f == s.pte[v].frame
        r == [s EXCEPT !.ref[f] = @ - 1, !.pte[v] = NoPte]
    IN  IF f = 0 THEN s ELSE IF r.ref[f] = 0 THEN free_page(r, f) ELSE r

\* A new page of contents x at v: alloc_page, then page_insert.
MapNew(s, v, write, x) ==
    LET a == alloc_page(s)
        t == get_pte(a, v)
        r == page_remove_pte(t, v)
    IN  IF ~ t.ok THEN t
        ELSE [r EXCEPT !.ref[a.new] = @ + 1, !.mem[a.new] = x,
                       !.pte[v] = [frame |-> a.new, write |-> write]]

\* pgdir_alloc_page: the page is not cleared.
pgdir_alloc_page(s, v, write) == MapNew(s, v, write, Leftover)

\* Mutant: the child's page shares the parent's.
CopyPage_Shared(from, s, v) ==
    LET t == get_pte(s, v)
        f == from.pte[v].frame
    IN  IF f = 0 \/ ~ s.ok THEN s
        ELSE IF ~ t.ok THEN t
        ELSE [t EXCEPT !.ref[f] = @ + 1, !.pte[v] = from.pte[v]]

\* Mutant: the child's page is read only.
CopyPage_ReadOnly(from, s, v) ==
    LET f == from.pte[v].frame
    IN  IF f = 0 \/ ~ s.ok THEN s
        ELSE MapNew(get_pte(s, v), v, FALSE, s.mem[f])

\* copy_range at v: a page that is present is copied, with its permission.
CopyPage(from, s, v) ==
    LET f == from.pte[v].frame
    IN  IF f = 0 \/ ~ s.ok THEN s
        ELSE MapNew(get_pte(s, v), v, from.pte[v].write, s.mem[f])

copy_range(from, s, pages) ==
    LET after[n \in 0 .. USTACKTOP] ==
            IF n = 0 THEN s
            ELSE IF n - 1 \in pages THEN CopyPage(from, after[n - 1], n - 1)
            ELSE after[n - 1]
    IN  after[USTACKTOP]

CopyArea(from, s, area) ==
    copy_range(from, [s EXCEPT !.areas = <<area>> \o @], area.pages)

\* The areas of from, the last one first.
dup_mmap(s, from) ==
    LET k == Len(from.areas)
        after[n \in 0 .. k] ==
            IF n = 0 THEN s ELSE CopyArea(from, after[n - 1], from.areas[k + 1 - n])
    IN  after[k]

unmap_range(s, pages) ==
    LET after[n \in 0 .. USTACKTOP] ==
            IF n = 0 THEN s
            ELSE IF n - 1 \in pages THEN page_remove_pte(after[n - 1], n - 1)
            ELSE after[n - 1]
    IN  after[USTACKTOP]

\* The table over page v.
FreeTable(s, v) ==
    LET t == s.table[TableOf(v)]
    IN  IF t = 0 THEN s ELSE [free_page(s, t) EXCEPT !.table[TableOf(v)] = 0]

exit_range(s, pages) ==
    LET after[n \in 0 .. USTACKTOP] ==
            IF n = 0 THEN s
            ELSE IF n - 1 \in pages THEN FreeTable(after[n - 1], n - 1)
            ELSE after[n - 1]
    IN  after[USTACKTOP]

\* Pages of the areas of an mm.
Covered(s) == UNION {s.areas[i].pages : i \in DOMAIN s.areas}

exit_mmap(s) == exit_range(unmap_range(s, Covered(s)), Covered(s))

put_pgdir(s) == [free_page(s, s.pgdir) EXCEPT !.pgdir = 0]

\* exit_mmap, put_pgdir and mm_destroy; a kernel thread has no mm.
Discard(s) ==
    LET r == put_pgdir(exit_mmap(s))
    IN  IF s.pgdir = 0 \/ ~ s.ok THEN s
        ELSE [r EXCEPT !.table = NoMm.table, !.pte = NoMm.pte, !.areas = NoMm.areas]

setup_pgdir(s) ==
    LET a == alloc_page(s)
    IN  IF ~ a.ok THEN a ELSE [a EXCEPT !.pgdir = a.new]

\* The frames, with memory descriptor m.
With(m) ==
    [pgdir |-> m.pgdir, table |-> m.table, pte |-> m.pte, areas |-> m.areas,
     free |-> free, ref |-> ref, mem |-> mem, new |-> 0, ok |-> TRUE]

MmOf(s) == [pgdir |-> s.pgdir, table |-> s.table, pte |-> s.pte, areas |-> s.areas]

\* A call on the memory of p ends with s, or with the kernel.
Becomes(p, s) ==
    IF s.ok THEN /\ mm' = [mm EXCEPT ![p] = MmOf(s)]
                 /\ free' = s.free
                 /\ ref' = s.ref
                 /\ mem' = s.mem
                 /\ UNCHANGED stopped
            ELSE /\ stopped' = TRUE
                 /\ UNCHANGED <<status, kstack, mm, free, ref, mem>>

-----------------------------------------------------------------------------
(* The calls.                                                               *)

Running(p) == ~ stopped /\ status[p] = "live"

\* Where setup_kstack finds two pages in a row.
Pairs == {f \in free : f + 1 \in free}

\* do_fork of a user process; with no pages for the stack it fails cleanly.
Fork(p, c) ==
    LET k == Min(Pairs)
        s == [With(NoMm) EXCEPT !.free = @ \ {k, k + 1}]
        copy == dup_mmap(setup_pgdir(s), mm[p])
    IN  /\ Running(p)
        /\ mm[p] # NoMm
        /\ status[c] = "none"
        /\ Pairs # {}
        /\ Becomes(c, copy)
        /\ copy.ok =>
            /\ status' = [status EXCEPT ![c] = "live"]
            /\ kstack' = [kstack EXCEPT ![c] = k]

\* The pages of area below end.
LoadPages(s, area, end) ==
    LET after[n \in 0 .. end] ==
            IF n = 0 THEN s
            ELSE IF n - 1 \in area.pages /\ after[n - 1].ok
                 THEN MapNew(after[n - 1], n - 1, area.write, Image)
            ELSE after[n - 1]
    IN  after[end]

\* mm_map of area, and its pages below end.
LoadPart(s, area, end) == LoadPages([s EXCEPT !.areas = Append(@, area)], area, end)

LoadArea(s, area) == LoadPart(s, area, USTACKTOP)

\* load_icode of the areas of program prog, on a new directory.
LoadAreas(s, prog) ==
    LET after[n \in 0 .. Len(prog)] ==
            IF n = 0 THEN setup_pgdir(s) ELSE LoadArea(after[n - 1], prog[n])
    IN  after[Len(prog)]

\* The area of the stack, and its last pages, from the top.
LoadStack(s) ==
    LET after[n \in 0 .. NStack] ==
            IF n = 0 THEN [s EXCEPT !.areas = Append(@, StackArea)]
            ELSE IF after[n - 1].ok
                 THEN pgdir_alloc_page(after[n - 1], USTACKTOP - n, StackArea.write)
            ELSE after[n - 1]
    IN  after[NStack]

Exec(p, prog) ==
    LET s == LoadStack(LoadAreas(Discard(With(mm[p])), prog))
    IN  /\ Running(p)
        /\ Becomes(p, s)
        /\ s.ok => UNCHANGED <<status, kstack>>

\* What do_exit leaves of s; the kernel stack stays until the parent waits.
Ends(p, s) ==
    /\ Becomes(p, Discard(s))
    /\ s.ok => /\ status' = [status EXCEPT ![p] = "zombie"]
               /\ UNCHANGED kstack

(* A program that turns out bad when its first n areas are loaded: load_icode *)
(* takes back what it did, and do_execve exits.                             *)
ExecBadProgram(p, prog, n) ==
    Running(p) /\ Ends(p, LoadAreas(Discard(With(mm[p])), SubSeq(prog, 1, n)))

\* The same in the middle of area n, when what is to go to its page v cannot be read.
ExecBadPage(p, prog, n, v) ==
    LET s == LoadAreas(Discard(With(mm[p])), SubSeq(prog, 1, n - 1))
    IN  /\ Running(p)
        /\ v \in prog[n].pages
        /\ Ends(p, LoadPart(s, prog[n], v + 1))

\* Also the end of a process by kill or by an exec that fails before it loads.
Exit(p) == Running(p) /\ Ends(p, With(mm[p]))

\* do_wait of the parent.
Reap(p) ==
    /\ ~ stopped
    /\ status[p] = "zombie"
    /\ status' = [status EXCEPT ![p] = "none"]
    /\ free' = free \cup {kstack[p], kstack[p] + 1}
    /\ kstack' = [kstack EXCEPT ![p] = 0]
    /\ UNCHANGED <<mm, ref, mem, stopped>>

\* do_pgfault at a page of an area that is not present.
do_pgfault(p, v) ==
    /\ Running(p)
    /\ \E i \in DOMAIN mm[p].areas :
        LET area == mm[p].areas[i]
            s == pgdir_alloc_page(get_pte(With(mm[p]), v), v, area.write)
        IN  /\ v \in area.pages
            /\ mm[p].pte[v] = NoPte
            /\ Becomes(p, s)
            /\ s.ok => UNCHANGED <<status, kstack>>

(* The program touches a page that none of its areas has, or writes to one that *)
(* it may only read: do_pgfault fails, and the trap panics before its do_exit. *)
BadAccess(p, v) ==
    /\ Running(p)
    /\ mm[p] # NoMm
    /\ \A i \in DOMAIN mm[p].areas :
        v \in mm[p].areas[i].pages => ~ mm[p].areas[i].write
    /\ stopped' = TRUE
    /\ UNCHANGED <<status, kstack, mm, free, ref, mem>>

\* The program writes x to its page v.
UserWrite(p, v, x) ==
    /\ Running(p)
    /\ mm[p].pte[v].write
    /\ mem' = [mem EXCEPT ![mm[p].pte[v].frame] = x]
    /\ UNCHANGED <<status, kstack, mm, free, ref, stopped>>

VmNext ==
    \E p \in User :
        \/ \E c \in User : Fork(p, c)
        \/ \E prog \in Programs :
            \/ Exec(p, prog)
            \/ \E n \in 0 .. Len(prog) : ExecBadProgram(p, prog, n)
            \/ \E n \in DOMAIN prog, v \in UserPage : ExecBadPage(p, prog, n, v)
        \/ Exit(p)
        \/ Reap(p)
        \/ \E v \in UserPage :
            \/ do_pgfault(p, v)
            \/ BadAccess(p, v)
            \/ \E x \in Written : UserWrite(p, v, x)

VmSpec == VmInit /\ [][VmNext]_vmVars

-----------------------------------------------------------------------------

\* What names frame f.
Users(f) ==
    {<<p, "stack", 0>> : p \in {q \in User : kstack[q] # 0 /\ f - kstack[q] \in {0, 1}}}
    \cup {<<p, "pgdir", 0>> : p \in {q \in User : mm[q].pgdir = f}}
    \cup {u \in User \X {"table"} \X Tables : mm[u[1]].table[u[3]] = f}
    \cup {u \in User \X {"page"} \X UserPage : mm[u[1]].pte[u[3]].frame = f}

(* Every frame is free or has one use in one process, also when a program    *)
(* turned out bad half way: nothing in use is given out again, and the pages   *)
(* that processes took are back when they are gone.  (Pages that kmalloc took *)
(* on the way are no frames of this module.)  The count of a user page is 1.  *)
FramesExact ==
    /\ \A f \in Frame : Cardinality(Users(f)) = IF f \in free THEN 0 ELSE 1
    /\ \A p \in User, v \in UserPage :
        mm[p].pte[v] # NoPte => ref[mm[p].pte[v].frame] = 1

(* A page that is present lies in an area of its process, below a table that *)
(* is there, and can be written if and only if its area can.  exit_mmap frees *)
(* by areas alone, and do_pgfault panics at a page that is present and        *)
(* should have been writable.                                               *)
PagesInAreas ==
    \A p \in User, v \in UserPage :
        mm[p].pte[v] # NoPte =>
            /\ mm[p].table[TableOf(v)] # 0
            /\ \E i \in DOMAIN mm[p].areas :
                v \in mm[p].areas[i].pages
                    /\ mm[p].areas[i].write = mm[p].pte[v].write

\* The pages that p has, and their contents.
Space(p) == [v \in {w \in UserPage : mm[p].pte[w] # NoPte} |-> mem[mm[p].pte[v].frame]]

Private == INSTANCE PrivateMemory WITH
    Page <- UserPage, space <- [p \in User |-> Space(p)]

(* Page tables, frames that change hands and copies at fork implement an     *)
(* address space of its own for each process: what one does is never seen in *)
(* the memory of another, and a fork gives the child what the parent had.    *)
ImplementsPrivateMemory == Private!SpaceSpec

=============================================================================
