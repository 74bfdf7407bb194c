--------------------------------- MODULE Sfs ---------------------------------
(***************************************************************************)
(* The simple file system (kern/fs/sfs): files of direct blocks and one      *)
(* block of indirect entries, the free map and the super block, the inodes   *)
(* in memory and their copies on disk, and the handles of kern/fs/file.c     *)
(* that name them.  Each call is one step: the disk is polled and the kernel *)
(* does not preempt itself, so the semaphores of the file system never make  *)
(* anyone wait.                                                             *)
(*                                                                          *)
(* An operator of the code that may fail maps a record m, the mounted file   *)
(* system with the inode at hand, to the record it leaves, whose ret says    *)
(* how it ended; an assertion that fails ends the kernel and is named.       *)
(***************************************************************************)
EXTENDS Integers, FiniteSets, Sequences, SequencesExt

CONSTANTS File, Handle, Closed, Byte, NoInode,
          BLK,          \* SFS_BLKSIZE, in bytes
          NDIRECT,      \* SFS_NDIRECT
          NENTRY,       \* SFS_BLK_NENTRY
          MaxFileSize,  \* SFS_MAX_FILE_SIZE
          NBlock,       \* blocks for data and entries
          Lengths,      \* how much programs read and write at once
          Positions     \* where they seek to

ASSUME SizesAssumption ==
    /\ {BLK, NDIRECT, NENTRY, NBlock, MaxFileSize} \subseteq Nat \ {0}
    /\ Lengths \subseteq Nat \ {0}
    /\ Positions \subseteq Nat
    /\ NoInode \notin [size : Nat, blocks : Nat, indirect : Nat,
                        direct : [0 .. NDIRECT - 1 -> Nat]]

ASSUME ClosedAssumption == Closed \notin [file : File, pos : Nat]

Block == 1 .. NBlock
Cell == 0 .. Max({BLK, NENTRY}) - 1
Blank == [i \in Cell |-> 0]

VARIABLES free,        \* freemap: the blocks whose bit is set
          unused,      \* super.unused_blocks
          superDirty,  \* super_dirty
          data,        \* blocks on the disk, of bytes or of block numbers
          din,         \* din[f], the inode in memory, or NoInode
          dirty,       \* dirty[f], of that inode
          disk,        \* [din, free, unused]: inodes, free map, super block
          handle,      \* handle[h], Closed or [file, pos]
          got,         \* what the last call read
          torn,        \* files that were once longer than their blocks, a ghost
          up,          \* the file system is mounted
          panic        \* "no", or the assertion that stopped the kernel

vars == <<free, unused, superDirty, data, din, dirty, disk, handle,
          got, torn, up, panic>>

EmptyDin == [size |-> 0, blocks |-> 0, indirect |-> 0,
             direct |-> [i \in 0 .. NDIRECT - 1 |-> 0]]

\* A disk made by mksfs, with empty files, just mounted.
Init ==
    /\ free = Block
    /\ unused = NBlock
    /\ superDirty = FALSE
    /\ data = [b \in Block |-> Blank]
    /\ din = [f \in File |-> NoInode]
    /\ dirty = [f \in File |-> FALSE]
    /\ disk = [din |-> [f \in File |-> EmptyDin], free |-> Block, unused |-> NBlock]
    /\ handle = [h \in Handle |-> Closed]
    /\ got = <<>>
    /\ torn = {}
    /\ up = TRUE
    /\ panic = "no"

-----------------------------------------------------------------------------
(* Blocks and the map of a file.                                            *)

Asserts == {"inuse", "index", "truncate", "range", "mount"}
Fails(m, why) == [m EXCEPT !.ret = why]
Good(m) == m.ret = "ok"
Then(m, Step(_)) == IF Good(m) THEN Step(m) ELSE m

\* Mutant: the block keeps what it held.
sfs_block_alloc_Uncleared(m) ==
    IF m.free = {} THEN Fails(m, "no_mem")
    ELSE LET b == Min(m.free)
         IN  [m EXCEPT !.free = @ \ {b}, !.unused = @ - 1, !.superDirty = TRUE,
                       !.ino = b]

\* The lowest free block, cleared.
sfs_block_alloc(m) ==
    IF m.free = {} THEN Fails(m, "no_mem")
    ELSE LET b == Min(m.free)
         IN  [m EXCEPT !.free = @ \ {b}, !.unused = @ - 1, !.superDirty = TRUE,
                       !.ino = b, !.data[b] = Blank]

sfs_block_free(m, b) ==
    IF b \in m.free THEN Fails(m, "inuse")
    ELSE [m EXCEPT !.free = @ \cup {b}, !.unused = @ + 1, !.superDirty = TRUE]

\* The block of entries, a new one if there is none.
EntryBlock(m) ==
    IF m.din.indirect # 0 THEN [m EXCEPT !.ino = m.din.indirect]
                          ELSE sfs_block_alloc(m)

\* Mutant: the block of entries stays when there is no block to enter.
EnterBlock_KeepsBlock(m, e, d, i) ==
    IF ~ Good(d) THEN d
    ELSE [d EXCEPT !.data[e.ino][i] = d.ino, !.din.indirect = e.ino,
                   !.dirty = @ \/ m.din.indirect = 0]

(* The block d had to give goes in entry i of the block e has; that one, if *)
(* new, is given back when d has none.  An entry written to a block of      *)
(* entries that was there does not make the inode dirty.                    *)
EnterBlock(m, e, d, i) ==
    IF ~ Good(d)
    THEN IF m.din.indirect = 0 THEN Fails(sfs_block_free(e, e.ino), d.ret) ELSE d
    ELSE [d EXCEPT !.data[e.ino][i] = d.ino, !.din.indirect = e.ino,
                   !.dirty = @ \/ m.din.indirect = 0]

sfs_bmap_get_sub_nolock(m, i, create) ==
    LET ino == IF m.din.indirect = 0 THEN 0 ELSE m.data[m.din.indirect][i]
        Enter(e) == EnterBlock(m, e, sfs_block_alloc(e), i)
    IN  IF ino # 0 \/ ~ create THEN [m EXCEPT !.ino = ino]
        ELSE Then(EntryBlock(m), Enter)

sfs_bmap_get_nolock(m, index, create) ==
    LET Enter(d) == [d EXCEPT !.din.direct[index] = d.ino, !.dirty = TRUE]
    IN  IF index >= NDIRECT + NENTRY THEN Fails(m, "range")
        ELSE IF index >= NDIRECT
        THEN sfs_bmap_get_sub_nolock(m, index - NDIRECT, create)
        ELSE IF m.din.direct[index] # 0 \/ ~ create
        THEN [m EXCEPT !.ino = m.din.direct[index]]
        ELSE Then(sfs_block_alloc(m), Enter)

\* The block of index, a new one when index is just past the end.
sfs_bmap_load_nolock(m, index) ==
    LET Count(r) == IF r.ino \notin Block \ r.free THEN Fails(r, "inuse")
                    ELSE [r EXCEPT !.din.blocks = Max({@, index + 1})]
    IN  IF index > m.din.blocks THEN Fails(m, "index")
        ELSE Then(sfs_bmap_get_nolock(m, index, index = m.din.blocks), Count)

sfs_bmap_free_nolock(m, index) ==
    LET e == m.din.indirect
        i == index - NDIRECT
    IN  IF index < NDIRECT
        THEN IF m.din.direct[index] = 0 THEN m
             ELSE [sfs_block_free(m, m.din.direct[index])
                      EXCEPT !.din.direct[index] = 0, !.dirty = TRUE]
        ELSE IF e = 0 \/ m.data[e][i] = 0 THEN m
        ELSE sfs_block_free([m EXCEPT !.data[e][i] = 0], m.data[e][i])

sfs_bmap_truncate_nolock(m) ==
    [sfs_bmap_free_nolock(m, m.din.blocks - 1)
        EXCEPT !.din.blocks = @ - 1, !.dirty = TRUE]

-----------------------------------------------------------------------------
(* Operations on one file.                                                  *)

\* Step for each index from first to last, until one fails.
ForBlocks(m, Step(_, _), first, last) ==
    LET after[n \in 0 .. last + 1 - first] ==
            IF n = 0 THEN m
            ELSE LET r == after[n - 1]
                 IN  IF Good(r) THEN Step(r, first + n - 1) ELSE r
    IN  after[last + 1 - first]

\* Blocks are added, or taken off, until there are tblks of them.
GrowTo(m, tblks) == ForBlocks(m, sfs_bmap_load_nolock, m.din.blocks, tblks - 1)

ShrinkTo(m, tblks) ==
    LET Shrink(r, index) == sfs_bmap_truncate_nolock(r)
    IN  ForBlocks(m, Shrink, tblks, m.din.blocks - 1)

\* Grow to, or shrink to, len bytes; a growth that fails keeps its blocks.
sfs_truncfile(m, len) ==
    LET tblks == (len + BLK - 1) \div BLK
        Resize(r) == [r EXCEPT !.din.size = len, !.dirty = TRUE]
    IN  IF m.din.size = len
        THEN IF tblks = m.din.blocks THEN m ELSE Fails(m, "truncate")
        ELSE Then(IF m.din.blocks < tblks THEN GrowTo(m, tblks) ELSE ShrinkTo(m, tblks),
                  Resize)

sfs_tryseek(m, pos) ==
    IF pos >= MaxFileSize THEN Fails(m, "inval")
    ELSE IF pos > m.din.size THEN sfs_truncfile(m, pos) ELSE m

\* The part of block index that lies between the positions from and to.
Touched(index, from, to) ==
    {i \in 0 .. BLK - 1 : from <= index * BLK + i /\ index * BLK + i < to}

\* The touched part of block index is written with b.
PutBlock(m, index, pos, to, b) ==
    LET T == Touched(index, pos, to)
        Put(n) == [n EXCEPT
            !.data[n.ino] = [i \in Cell |-> IF i \in T THEN b ELSE @[i]],
            !.alen = @ + Cardinality(T)]
    IN  Then(sfs_bmap_load_nolock(m, index), Put)

\* It is read.
TakeBlock(m, index, pos, to) ==
    LET T == Touched(index, pos, to)
        Take(n) == [n EXCEPT
            !.buf = @ \o [i \in 1 .. Cardinality(T) |-> n.data[n.ino][Min(T) + i - 1]],
            !.alen = @ + Cardinality(T)]
    IN  Then(sfs_bmap_load_nolock(m, index), Take)

(* sfs_io_nolock block by block: the part of the first block, the whole     *)
(* blocks and the part of the last one.  It stops at the first block it     *)
(* cannot get, and a write makes the file as long as what it wrote.         *)
WriteBlocks(m, pos, to, b) ==
    LET Put(r, index) == PutBlock(r, index, pos, to, b)
    IN  ForBlocks(m, Put, pos \div BLK, (to - 1) \div BLK)

ReadBlocks(m, pos, to) ==
    LET Take(r, index) == TakeBlock(r, index, pos, to)
    IN  ForBlocks(m, Take, pos \div BLK, (to - 1) \div BLK)

\* Mutant: a longer file is not marked dirty.
Lengthen_NotDirty(w, pos) == [w EXCEPT !.din.size = Max({@, pos + w.alen})]

\* The file is as long as what was written, if that is more.
Lengthen(w, pos) ==
    [w EXCEPT !.din.size = Max({@, pos + w.alen}),
              !.dirty = @ \/ pos + w.alen > w.din.size]

WriteNolock(m, pos, n, b) ==
    IF pos >= MaxFileSize THEN Fails(m, "inval")
    ELSE Lengthen(WriteBlocks(m, pos, Min({pos + n, MaxFileSize}), b), pos)

ReadNolock(m, pos, n) ==
    IF pos >= MaxFileSize THEN Fails(m, "inval")
    ELSE IF pos >= m.din.size THEN m
    ELSE ReadBlocks(m, pos, Min({pos + n, m.din.size}))

-----------------------------------------------------------------------------
(* The calls.                                                               *)

Running == up /\ panic = "no"

\* The file system, with the inode of f looked up and loaded if need be.
Mounted(f) ==
    [free |-> free, unused |-> unused, superDirty |-> superDirty, data |-> data,
     din |-> IF din[f] = NoInode THEN disk.din[f] ELSE din[f],
     dirty |-> din[f] # NoInode /\ dirty[f],
     ret |-> "ok", ino |-> 0, alen |-> 0, buf |-> <<>>]

\* The call ends with m: its effects stay, unless an assertion failed.
Becomes(f, m) ==
    IF m.ret \in Asserts
    THEN /\ panic' = m.ret
         /\ UNCHANGED <<free, unused, superDirty, data, din, dirty, disk, handle,
                        got, torn, up>>
    ELSE /\ free' = m.free
         /\ unused' = m.unused
         /\ superDirty' = m.superDirty
         /\ data' = m.data
         /\ din' = [din EXCEPT ![f] = m.din]
         /\ dirty' = [dirty EXCEPT ![f] = m.dirty]
         /\ torn' = torn \cup {g \in {f} : m.din.size > BLK * m.din.blocks}
         /\ UNCHANGED <<disk, up, panic>>

(* file_open of an existing file: O_TRUNC and O_CREAT empty it, O_APPEND    *)
(* starts at its end.                                                       *)
Open(h, f, truncate, append) ==
    /\ Running
    /\ handle[h] = Closed
    /\ \E m \in {IF truncate THEN sfs_truncfile(Mounted(f), 0) ELSE Mounted(f)} :
        /\ Becomes(f, m)
        /\ m.ret \notin Asserts =>
            /\ handle' = [handle EXCEPT ![h] =
                            [file |-> f, pos |-> IF append THEN m.din.size ELSE 0]]
            /\ got' = <<>>

\* A call on the open handle h that left m and moved the handle to pos.
Returns(h, m, pos) ==
    /\ Becomes(handle[h].file, m)
    /\ m.ret \notin Asserts =>
        /\ handle' = [handle EXCEPT ![h].pos = pos]
        /\ got' = m.buf

Write(h, n, b) ==
    /\ Running
    /\ handle[h] # Closed
    /\ \E m \in {WriteNolock(Mounted(handle[h].file), handle[h].pos, n, b)} :
        Returns(h, m, handle[h].pos + m.alen)

Read(h, n) ==
    /\ Running
    /\ handle[h] # Closed
    /\ \E m \in {ReadNolock(Mounted(handle[h].file), handle[h].pos, n)} :
        Returns(h, m, handle[h].pos + m.alen)

Seek(h, pos) ==
    /\ Running
    /\ handle[h] # Closed
    /\ \E m \in {sfs_tryseek(Mounted(handle[h].file), pos)} :
        Returns(h, m, IF Good(m) THEN pos ELSE handle[h].pos)

\* The inode on disk after sfs_fsync of f.
Flushed(f) ==
    IF dirty[f] THEN [disk EXCEPT !.din[f] = din[f]] ELSE disk

Fsync(h) ==
    /\ Running
    /\ handle[h] # Closed
    /\ disk' = Flushed(handle[h].file)
    /\ dirty' = [dirty EXCEPT ![handle[h].file] = FALSE]
    /\ got' = <<>>
    /\ UNCHANGED <<free, unused, superDirty, data, din, handle, torn, up, panic>>

(* vfs_close: the last close of a file writes its inode back (sfs_close)    *)
(* and lets go of it (sfs_reclaim).                                         *)
Close(h) ==
    /\ Running
    /\ handle[h] # Closed
    /\ handle' = [handle EXCEPT ![h] = Closed]
    /\ LET f == handle[h].file
       IN  IF \E g \in Handle \ {h} : handle[g] # Closed /\ handle[g].file = f
           THEN UNCHANGED <<din, dirty, disk>>
           ELSE /\ disk' = Flushed(f)
                /\ din' = [din EXCEPT ![f] = NoInode]
                /\ dirty' = [dirty EXCEPT ![f] = FALSE]
    /\ got' = <<>>
    /\ UNCHANGED <<free, unused, superDirty, data, torn, up, panic>>

\* fs_cleanup, after the last program has ended and closed its files.
Shutdown ==
    /\ Running
    /\ \A h \in Handle : handle[h] = Closed
    /\ disk' = IF superDirty THEN [disk EXCEPT !.free = free, !.unused = unused]
                             ELSE disk
    /\ superDirty' = FALSE
    /\ up' = FALSE
    /\ UNCHANGED <<free, unused, data, din, dirty, handle, got, torn, panic>>

\* sfs_do_mount at the next boot.
Mount ==
    /\ ~ up
    /\ panic = "no"
    /\ free' = disk.free
    /\ unused' = disk.unused
    /\ panic' = IF Cardinality(disk.free) = disk.unused THEN "no" ELSE "mount"
    /\ up' = TRUE
    /\ UNCHANGED <<superDirty, data, din, dirty, disk, handle, got, torn>>

Next ==
    \/ \E h \in Handle :
        \/ \E f \in File, t, a \in BOOLEAN : Open(h, f, t, a)
        \/ \E n \in Lengths, b \in Byte : Write(h, n, b)
        \/ \E n \in Lengths : Read(h, n)
        \/ \E pos \in Positions : Seek(h, pos)
        \/ Fsync(h)
        \/ Close(h)
    \/ Shutdown
    \/ Mount

Spec == Init /\ [][Next]_vars

-----------------------------------------------------------------------------

\* The inode of f that counts: the one in memory, or the one on disk.
Inode(f) == IF din[f] = NoInode THEN disk.din[f] ELSE din[f]

\* The block of index in f, 0 if it has none.
BlockOf(f, index) ==
    LET d == Inode(f)
    IN  IF index < NDIRECT THEN d.direct[index]
        ELSE IF index < NDIRECT + NENTRY /\ d.indirect # 0
        THEN data[d.indirect][index - NDIRECT] ELSE 0

\* The places that name block b: an index of a file, or its block of entries.
Owners(b) ==
    {u \in File \X (0 .. NDIRECT + NENTRY - 1) : BlockOf(u[1], u[2]) = b}
    \cup {<<f, NDIRECT + NENTRY>> : f \in {g \in File : Inode(g).indirect = b}}

(* Every block is free or belongs to one place in one file, whatever calls  *)
(* failed half way, and unused_blocks counts the free ones.  This is what   *)
(* sfs_do_mount asserts at the next boot, and what keeps files apart.       *)
BlocksExact ==
    /\ \A b \in Block : Cardinality(Owners(b)) = IF b \in free THEN 0 ELSE 1
    /\ unused = Cardinality(free)

(* What is not marked dirty is on the disk: closing a file and shutting     *)
(* down write only what is marked.  Blocks that a failed growth added at     *)
(* entries may be missing from the count on disk.                           *)
CleanMeansOnDisk ==
    /\ \A f \in File : din[f] # NoInode /\ ~ dirty[f] =>
            [din[f] EXCEPT !.blocks = 0] = [disk.din[f] EXCEPT !.blocks = 0]
    /\ ~ superDirty => disk.free = free /\ disk.unused = unused

\* The bytes of f as programs see them.
ContentOf(f) ==
    [i \in 1 .. Inode(f).size |->
        LET b == BlockOf(f, (i - 1) \div BLK)
        IN  IF b = 0 THEN 0 ELSE data[b][(i - 1) % BLK]]

\* What flat files show of them: nothing of a file that is torn.
Contents == [f \in File |-> IF f \in torn THEN <<>> ELSE ContentOf(f)]
Scarce == Cardinality(free) < 2

Flat == INSTANCE FlatFiles WITH content <- Contents, scarce <- Scarce

(* The block maps, the cached inodes and their writing back implement flat  *)
(* files, over shutdown and boot as well: a write changes what it says and  *)
(* no other file, gaps read as zero, and calls fall short only on a full    *)
(* disk or where files end.                                                 *)
ImplementsFlatFiles == Flat!FlatSpec

(* sfs_bmap_load_nolock asserts that a block it is asked for is in the file *)
(* or just past its end (sfs_inode.c:356).                                  *)
IndexWithinBlocks == panic # "index"

=============================================================================
