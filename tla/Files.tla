-------------------------------- MODULE Files --------------------------------
(***************************************************************************)
(* The open files of processes (kern/fs/file.c, kern/fs/fs.c) and the two   *)
(* counts of an inode (kern/fs/vfs/inode.c): ref_count, whose fall to zero   *)
(* frees the inode, and open_count, whose fall to zero closes the file.      *)
(* Tables are copied by fork, emptied in part by exec and dropped by exit.   *)
(* Every call is one step but the read of stdin, which sleeps with its       *)
(* descriptor acquired.                                                      *)
(*                                                                          *)
(* An operator of the code maps s, the table at hand with all inodes, to     *)
(* what it leaves.  ok says that no assertion has failed, but for the limit  *)
(* on the counts of an inode: within says that this one has held.            *)
(***************************************************************************)
EXTENDS Integers, FiniteSets, FiniteSetsExt

CONSTANTS User,         \* structures for user processes
          initproc,
          SfsFile,      \* files of the file system
          root,         \* its root directory
          stdin,        \* the device
          None,         \* no inode, no descriptor
          NFD,          \* FILES_STRUCT_NENTRY
          MAX_INODE_COUNT,
          MaxLost       \* bound on references lost by O_EXCL

ASSUME FilesAssumption == /\ NFD \in Nat /\ NFD > 2
                          /\ MAX_INODE_COUNT \in Nat /\ MaxLost \in Nat
                          /\ initproc \notin User
                          /\ root \notin SfsFile /\ stdin \notin SfsFile \cup {root}
                          /\ None \notin SfsFile \cup {root, stdin} \cup (0 .. NFD - 1)

Inode == SfsFile \cup {root, stdin}
Proc == User \cup {initproc}
Fd == 0 .. NFD - 1
NoFile == [status |-> "none", count |-> 0, node |-> None]

VARIABLES live,         \* processes with a files_struct
          table,        \* table[p], the fd_array of p
          pwd,          \* pwd[p], its working directory
          inode,        \* inode[n], its two counts
          loaded,       \* inodes in memory
          reading,      \* reading[p], the descriptor p sleeps on, or None
          lost,         \* lost[n], references nobody holds, a ghost
          panic         \* "no", or what stopped the kernel: "limit" of a count,
                        \* a "missing" operation, another "assert"ion

vars == <<live, table, pwd, inode, loaded, reading, lost, panic>>

\* init_main has made the root its directory and that of bootfs.
Init ==
    /\ live = {initproc}
    /\ table = [p \in Proc |-> [fd \in Fd |-> NoFile]]
    /\ pwd = [p \in Proc |-> IF p = initproc THEN root ELSE None]
    /\ inode = [n \in Inode |->
                    [ref |-> IF n = root THEN 2 ELSE IF n = stdin THEN 1 ELSE 0,
                     open |-> 0]]
    /\ loaded = {root, stdin}
    /\ reading = [p \in Proc |-> None]
    /\ lost = [n \in Inode |-> 0]
    /\ panic = "no"

-----------------------------------------------------------------------------
(* Inodes.                                                                  *)

Asserting(s, condition) == [s EXCEPT !.ok = @ /\ condition]

(* inode_check, before every operation vop_* on n, while the call holds refs *)
(* references more than s says.  When a call makes several on the same       *)
(* inode, those are left out that find the same or smaller counts than one   *)
(* before, and those on an inode nobody refers to any more.                  *)
inode_check(s, n, refs) ==
    LET i == s.inode[n]
    IN  [Asserting(s, i.ref + refs >= i.open /\ i.open >= 0) EXCEPT
            !.within = @ /\ i.ref + refs < MAX_INODE_COUNT
                         /\ i.open < MAX_INODE_COUNT]

\* A lookup brings the inode into memory and takes a reference.
vop_ref_inc(s, n) ==
    [s EXCEPT !.inode[n].ref = @ + 1, !.loaded = @ \cup {n}]

\* Without the last reference the inode is reclaimed and killed.
vop_ref_dec(s, n) ==
    LET last == s.inode[n].ref = 1
    IN  [Asserting(s, s.inode[n].ref > 0 /\ (last => s.inode[n].open = 0))
            EXCEPT !.inode[n].ref = @ - 1,
                   !.loaded = IF last THEN @ \ {n} ELSE @]

vop_open_inc(s, n) == [s EXCEPT !.inode[n].open = @ + 1]

\* The last one closes the file.
vop_open_dec(s, n) ==
    LET r == [Asserting(s, s.inode[n].open > 0) EXCEPT !.inode[n].open = @ - 1]
    IN  IF r.inode[n].open = 0 THEN inode_check(r, n, 0) ELSE r

(* vfs_lookup: a file is looked up in the root, the directory of all         *)
(* processes, with a reference to it that is given back.                     *)
vfs_lookup(s, n) ==
    vop_ref_inc(IF n \in SfsFile THEN inode_check(s, root, 1) ELSE s, n)

vfs_open(s, n) == vop_open_inc(inode_check(vfs_lookup(s, n), n, 0), n)

vfs_close(s, n) == vop_ref_dec(vop_open_dec(s, n), n)

-----------------------------------------------------------------------------
(* Descriptors.                                                             *)

FreeFds(s) == {fd \in Fd : s.table[fd].status = "none"}

\* fd_array_alloc and fd_array_open of descriptor fd.
fd_array_open(s, fd, n) ==
    [Asserting(s, s.table[fd].count = 0) EXCEPT
        !.table[fd] = [status |-> "opened", count |-> 1, node |-> n]]

fd_array_free(s, fd) ==
    [vfs_close(s, s.table[fd].node) EXCEPT !.table[fd] = NoFile]

fd_array_acquire(s, fd) == [s EXCEPT !.table[fd].count = @ + 1]

fd_array_release(s, fd) ==
    IF s.table[fd].count = 1 THEN fd_array_free(s, fd)
    ELSE [s EXCEPT !.table[fd].count = @ - 1]

fd_array_close(s, fd) ==
    IF s.table[fd].count = 1 THEN fd_array_free(s, fd)
    ELSE [s EXCEPT !.table[fd].count = @ - 1, !.table[fd].status = "closed"]

CloseIfOpen(s, fd) ==
    IF s.table[fd].status = "opened" THEN fd_array_close(s, fd) ELSE s

\* The loop that closes every open descriptor from first on.
CloseFrom(s, first) ==
    LET after[fd \in 0 .. NFD] ==
            IF fd = 0 THEN s
            ELSE IF fd <= first THEN after[fd - 1]
            ELSE CloseIfOpen(after[fd - 1], fd - 1)
    IN  after[NFD]

\* Mutant: the copy counts as a reference and not as an opening.
fd_array_dup_NotOpened(s, fd, n) == fd_array_open(vop_ref_inc(s, n), fd, n)

fd_array_dup(s, fd, n) ==
    fd_array_open(vop_open_inc(vop_ref_inc(s, n), n), fd, n)

\* The table of p, with the inodes.
Of(p) == [table |-> table[p], inode |-> inode, loaded |-> loaded,
          ok |-> TRUE, within |-> TRUE]

\* What stops the kernel in the middle of a call, or else at its end.
Stopping(s, end) == IF ~ s.ok THEN "assert" ELSE IF s.within THEN end ELSE "limit"

\* A call of p ends with s.
Becomes(p, s) ==
    /\ table' = [table EXCEPT ![p] = s.table]
    /\ inode' = s.inode
    /\ loaded' = s.loaded
    /\ panic' = Stopping(s, "no")

-----------------------------------------------------------------------------
(* The calls.                                                               *)

Runs(p) == panic = "no" /\ p \in live /\ reading[p] = None

Opened(p, fd) == table[p][fd].status = "opened"

\* file_open of inode n: the lowest free descriptor.
FileOpen(s, n) == fd_array_open(vfs_open(s, n), Min(FreeFds(s)), n)

SysOpen(p, n) ==
    /\ Runs(p)
    /\ p # initproc
    /\ FreeFds(Of(p)) # {}
    /\ Becomes(p, FileOpen(Of(p), n))
    /\ UNCHANGED <<live, pwd, reading, lost>>

\* vop_open refuses: flags that make no sense for a device or a directory.
SysOpenRefused(p, n) ==
    /\ Runs(p)
    /\ p # initproc
    /\ n \in {root, stdin}
    /\ FreeFds(Of(p)) # {}
    /\ Becomes(p, vop_ref_dec(inode_check(vfs_lookup(Of(p), n), n, 0), n))
    /\ UNCHANGED <<live, pwd, reading, lost>>

(* O_CREAT with O_EXCL on a file that exists: vfs_open returns -E_EXISTS    *)
(* and keeps the reference of its lookup for ever.                          *)
SysOpenExcl(p, n) ==
    /\ Runs(p)
    /\ p # initproc
    /\ FreeFds(Of(p)) # {}
    /\ lost[n] < MaxLost
    /\ Becomes(p, vfs_lookup(Of(p), n))
    /\ lost' = [lost EXCEPT ![n] = @ + 1]
    /\ UNCHANGED <<live, pwd, reading>>

\* Open of a name that is not there, or getcwd: the root is asked.
SysLookup(p) ==
    /\ Runs(p)
    /\ p # initproc
    /\ Becomes(p, inode_check(Of(p), root, 1))
    /\ UNCHANGED <<live, pwd, reading, lost>>

\* Open with O_CREAT of such a name, or of the root: a directory has neither
\* vop_create nor vop_truncate, and the assertion of __vop_op stops the kernel.
SysCreate(p) ==
    /\ Runs(p)
    /\ p # initproc
    /\ FreeFds(Of(p)) # {}
    /\ panic' = Stopping(inode_check(Of(p), root, 1), "missing")
    /\ UNCHANGED <<live, table, pwd, inode, loaded, reading, lost>>

SysClose(p, fd) ==
    /\ Runs(p)
    /\ Opened(p, fd)
    /\ Becomes(p, fd_array_close(Of(p), fd))
    /\ UNCHANGED <<live, pwd, reading, lost>>

\* file_dup to a descriptor that is free.
SysDup(p, from, to) ==
    /\ Runs(p)
    /\ Opened(p, from)
    /\ to \in FreeFds(Of(p))
    /\ Becomes(p, fd_array_dup(Of(p), to, table[p][from].node))
    /\ UNCHANGED <<live, pwd, reading, lost>>

\* The other calls on an open descriptor: read, write, seek, fstat, fsync,
\* getdirentry.  They release it in the step that acquired it.
SysUse(p, fd) ==
    /\ Runs(p)
    /\ Opened(p, fd)
    /\ Becomes(p, inode_check(Of(p), table[p][fd].node, 0))
    /\ UNCHANGED <<live, pwd, reading, lost>>

\* Every kind of inode lacks one of these operations, which stops the kernel:
\* getdirentry for files and stdin, read for directories.
SysUseMissing(p, fd) ==
    /\ Runs(p)
    /\ Opened(p, fd)
    /\ panic' = "missing"
    /\ UNCHANGED <<live, table, pwd, inode, loaded, reading, lost>>

\* file_read of stdin finds no key and sleeps, with its descriptor acquired.
SysRead(p, fd) ==
    /\ Runs(p)
    /\ Opened(p, fd)
    /\ table[p][fd].node = stdin
    /\ Becomes(p, inode_check(fd_array_acquire(Of(p), fd), stdin, 0))
    /\ reading' = [reading EXCEPT ![p] = fd]
    /\ UNCHANGED <<live, pwd, lost>>

\* A key, or a kill, ends the read.
ReadEnds(p) ==
    /\ panic = "no"
    /\ reading[p] # None
    /\ Becomes(p, fd_array_release(Of(p), reading[p]))
    /\ reading' = [reading EXCEPT ![p] = None]
    /\ UNCHANGED <<live, pwd, lost>>

CopyIfOpen(s, fd, file) ==
    IF file.status = "opened" THEN fd_array_dup(s, fd, file.node) ELSE s

\* The loop of dup_fs: the child's table s gets the open files of its parent.
dup_fs(s, from) ==
    LET after[fd \in 0 .. NFD] ==
            IF fd = 0 THEN s ELSE CopyIfOpen(after[fd - 1], fd - 1, from[fd - 1])
    IN  after[NFD]

Fork(p, c) ==
    /\ Runs(p)
    /\ c \in User \ live
    /\ live' = live \cup {c}
    /\ pwd' = [pwd EXCEPT ![c] = pwd[p]]
    /\ Becomes(c, dup_fs(vop_ref_inc(Of(c), pwd[p]), table[p]))
    /\ UNCHANGED <<reading, lost>>

\* files_destroy, on the table of a process that ends.
files_destroy(s, dir) ==
    LET r == CloseFrom(vop_ref_dec(s, dir), 0)
    IN  Asserting(r, FreeFds(r) = Fd)

Ends(p, s) ==
    /\ live' = live \ {p}
    /\ pwd' = [pwd EXCEPT ![p] = None]
    /\ Becomes(p, files_destroy(s, pwd[p]))
    /\ UNCHANGED <<reading, lost>>

Exit(p) == Runs(p) /\ p # initproc /\ Ends(p, Of(p))

files_closeall(s) == CloseFrom(s, 2)

\* Mutant: load_icode leaves the program's file open.
LoadIcode_KeepsFile(s, fd) == s

\* load_icode has read the program and closes its file.
LoadIcode(s, fd) == fd_array_close(s, fd)

(* do_execve of program n: descriptors from 2 on are closed, the program is *)
(* opened, loaded and closed.                                               *)
Exec(p, n) ==
    LET s == files_closeall(Of(p))
        fd == Min(FreeFds(s))
    IN  /\ Runs(p)
        /\ p # initproc
        /\ Becomes(p, LoadIcode(FileOpen(s, n), fd))
        /\ UNCHANGED <<live, pwd, reading, lost>>

\* The file is not there, or it is no program: the process exits.
ExecNotFound(p) ==
    Runs(p) /\ p # initproc /\ Ends(p, inode_check(files_closeall(Of(p)), root, 1))

ExecBadFile(p, n) ==
    Runs(p) /\ p # initproc /\ Ends(p, FileOpen(files_closeall(Of(p)), n))

Next ==
    \E p \in Proc :
        \/ \E n \in Inode : \/ SysOpen(p, n)
                            \/ SysOpenRefused(p, n)
                            \/ SysOpenExcl(p, n)
        \/ SysLookup(p)
        \/ SysCreate(p)
        \/ \E fd \in Fd : \/ SysClose(p, fd)
                          \/ SysUse(p, fd)
                          \/ SysUseMissing(p, fd)
                          \/ SysRead(p, fd)
        \/ \E from, to \in Fd : SysDup(p, from, to)
        \/ ReadEnds(p)
        \/ \E c \in User : Fork(p, c)
        \/ \E n \in SfsFile : Exec(p, n)
        \/ \E n \in SfsFile \cup {stdin} : ExecBadFile(p, n)
        \/ Exit(p)
        \/ ExecNotFound(p)

Spec == Init /\ [][Next]_vars

-----------------------------------------------------------------------------

\* The descriptors, of all processes, that name inode n.
Naming(n) == {d \in Proc \X Fd : table[d[1]][d[2]].node = n}

\* What else holds n: working directories, bootfs and the list of devices.
Holding(n) ==
    Cardinality({p \in Proc : pwd[p] = n}) + (IF n \in SfsFile THEN 0 ELSE 1)

(* The counts of an inode are what the tables of all processes make them,   *)
(* after any calls of any of them and while reads sleep: nothing is freed    *)
(* that a descriptor names, nothing is kept that none does but by an open    *)
(* with O_EXCL that fails.  No assertion of file.c, fs.c or inode.c about    *)
(* descriptors, or about one count against the other or against 0, fails.    *)
(* The limit that inode_check asserts is not promised: a call that reaches   *)
(* it stops the kernel (panic = "limit").                                    *)
CountsExact ==
    /\ panic # "assert"
    /\ panic = "no" =>
        /\ \A n \in Inode :
            /\ inode[n].open = Cardinality(Naming(n))
            /\ inode[n].ref = Cardinality(Naming(n)) + Holding(n) + lost[n]
            /\ n \in loaded <=> inode[n].ref > 0
        /\ \A p \in Proc, fd \in Fd :
            table[p][fd].count = (IF table[p][fd].status = "opened" THEN 1 ELSE 0)
                                 + (IF reading[p] = fd THEN 1 ELSE 0)

(* A program starts with the standard descriptors of the process that       *)
(* called exec and with no other one, whichever of them were open and       *)
(* whichever the program's own file was given while it was read.            *)
ExecKeepsStandard ==
    [][\A p \in User, n \in SfsFile :
            Exec(p, n) /\ panic' = "no" =>
                table'[p] = [fd \in Fd |-> IF fd < 2 THEN table[p][fd] ELSE NoFile]]_vars

=============================================================================
