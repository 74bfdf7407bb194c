------------------------------ MODULE SfsProofs ------------------------------
(***************************************************************************)
(* What is proved of the simple file system, for every number of files,     *)
(* handles and blocks and every shape of an inode: each block is free or     *)
(* has one place in one file, what is not dirty is on the disk, and the      *)
(* assertions about blocks in use and about the super block never fail.      *)
(* To programs the whole is a system of flat files.                         *)
(*                                                                          *)
(* A call works on one file; Partition says how the blocks are shared        *)
(* between the free map, the other files and the places of this file, and    *)
(* Sound what every operator of the code keeps of the mounted file system.   *)
(* Each operator's lemma also says what it does to Pages, the contents of    *)
(* the file at each index, from which the flat files follow.                 *)
(***************************************************************************)
EXTENDS Sfs, NatProofs, SequenceTheorems

\* The places of a file: its indexes, and last its block of entries.
Top == NDIRECT + NENTRY
Place == 0 .. Top

Number == 0 .. NBlock
Content == Byte \cup Number
Din == [size : Nat, blocks : Place, indirect : Number,
        direct : [0 .. NDIRECT - 1 -> Number]]
Data == [Block -> [Cell -> Content]]
Ret == {"ok", "no_mem", "inval", "index", "range", "truncate"}

Midway == [free : SUBSET Block, unused : Int, superDirty : BOOLEAN, data : Data,
           din : Din, dirty : BOOLEAN, ret : Ret, ino : Int, alen : Nat,
           buf : Seq(Content)]

\* The block, or 0, at each place of the file of inode d, on the disk dt.
Names(d, dt) ==
    [i \in Place |-> IF i < NDIRECT THEN d.direct[i]
                     ELSE IF i = Top THEN d.indirect
                     ELSE IF d.indirect = 0 THEN 0
                     ELSE dt[d.indirect][i - NDIRECT]]

\* The blocks are those of other files, the free ones and those in N.
Partition(others, fr, N) ==
    /\ others \subseteq Block /\ fr \subseteq Block /\ others \cap fr = {}
    /\ N \in [Place -> Number]
    /\ \A i \in Place : N[i] \notin fr /\ N[i] \notin others
    /\ \A i, j \in Place : N[i] = N[j] /\ N[i] # 0 => i = j
    /\ \A b \in Block : b \in fr \/ b \in others \/ \E i \in Place : N[i] = b

\* Inode d is on the disk as e, up to blocks that were found again.
OnDisk(d, e) == /\ d.size = e.size /\ d.indirect = e.indirect /\ d.direct = e.direct
                /\ e \in Din /\ e.blocks <= d.blocks

Filled(d, N) == \A i \in Place : i < d.blocks => N[i] # 0

\* What the file of inode d has at each index, on the disk dt.
Pages(d, dt) == [i \in 0 .. Top - 1 |-> IF Names(d, dt)[i] = 0 THEN Blank
                                        ELSE dt[Names(d, dt)[i]]]

\* The file is as long in t as in m, and holds the same.
SameFile(m, t) == /\ t.din.size = m.din.size
                  /\ Pages(t.din, t.data) = Pages(m.din, m.data)

(* What a call keeps of m.  x says how things were before it: the blocks of *)
(* other files, the contents of the disk, and what the disk holds of the     *)
(* inode, the free map and the super block.                                 *)
Sound(x, m) ==
    /\ m \in Midway
    /\ Partition(x.others, m.free, Names(m.din, m.data))
    /\ m.unused = Cardinality(m.free)
    /\ \A b \in x.others : m.data[b] = x.data[b]
    /\ Filled(m.din, Names(m.din, m.data))
    /\ ~ m.dirty => OnDisk(m.din, x.din)
    /\ ~ m.superDirty => m.free = x.free /\ m.unused = x.unused

SameFs(m, t) ==
    /\ t.free = m.free /\ t.unused = m.unused /\ t.superDirty = m.superDirty
    /\ t.data = m.data /\ t.din = m.din /\ t.dirty = m.dirty

\* t is m with the free block b at place i, which had none.
Gain(x, m, t, i, b) ==
    /\ t \in Midway /\ i \in Place /\ Names(m.din, m.data)[i] = 0 /\ b \in m.free
    /\ t.free = m.free \ {b} /\ t.unused = m.unused - 1 /\ t.superDirty = TRUE
    /\ Names(t.din, t.data) = [Names(m.din, m.data) EXCEPT ![i] = b]
    /\ t.din.blocks = m.din.blocks
    /\ \A c \in x.others : t.data[c] = m.data[c]
    /\ ~ t.dirty => OnDisk(t.din, x.din)

\* t is m without the block at its last index, i.
Loss(x, m, t, i) ==
    /\ t \in Midway /\ i \in Place /\ i = m.din.blocks - 1
    /\ t.free = m.free \cup {Names(m.din, m.data)[i]}
    /\ t.unused = m.unused + 1 /\ t.superDirty = TRUE
    /\ Names(t.din, t.data) = [Names(m.din, m.data) EXCEPT ![i] = 0]
    /\ t.din.blocks = i
    /\ \A c \in x.others : t.data[c] = m.data[c]
    /\ t.dirty = TRUE

WithDirect(d, i, b) == [d EXCEPT !.direct[i] = b]
WithTop(d, b) == [d EXCEPT !.indirect = b]
SameEntries(d, dt, du) == d.indirect # 0 => du[d.indirect] = dt[d.indirect]
Renamed(d, dt, e, du, i, b) == Names(e, du) = [Names(d, dt) EXCEPT ![i] = b]
WithEntry(dt, c, k, b) == [dt EXCEPT ![c][k] = b]

-----------------------------------------------------------------------------
(* Sizes, and the partition.                                                *)

LEMMA Max2 ==
  ASSUME NEW a \in Int, NEW b \in Int
  PROVE  Max({a, b}) = IF a >= b THEN a ELSE b
<1>1. \A c \in {a, b} : (\A d \in {a, b} : c >= d) <=> c = IF a >= b THEN a ELSE b
  OBVIOUS
<1>2. Max({a, b}) = CHOOSE c \in {a, b} : \A d \in {a, b} : c >= d
  BY DEF Max
<1> QED BY <1>1, <1>2

LEMMA Min2 ==
  ASSUME NEW a \in Int, NEW b \in Int
  PROVE  Min({a, b}) = IF a <= b THEN a ELSE b
<1>1. \A c \in {a, b} : (\A d \in {a, b} : c <= d) <=> c = IF a <= b THEN a ELSE b
  OBVIOUS
<1>2. Min({a, b}) = CHOOSE c \in {a, b} : \A d \in {a, b} : c <= d
  BY DEF Min
<1> QED BY <1>1, <1>2

LEMMA Sizes ==
  /\ BLK \in Nat \ {0} /\ NDIRECT \in Nat \ {0} /\ NENTRY \in Nat \ {0}
  /\ NBlock \in Nat \ {0} /\ MaxFileSize \in Nat \ {0}
  /\ 0 .. BLK - 1 \subseteq Cell /\ 0 .. NENTRY - 1 \subseteq Cell
  /\ Block \subseteq Number /\ 0 \notin Block /\ Number \subseteq Int
  /\ Number \ {0} \subseteq Block
  /\ Top \in Nat /\ Top = NDIRECT + NENTRY
<1>1. /\ BLK \in Nat \ {0} /\ NDIRECT \in Nat \ {0} /\ NENTRY \in Nat \ {0}
      /\ NBlock \in Nat \ {0} /\ MaxFileSize \in Nat \ {0}
  BY SizesAssumption
<1>2. Max({BLK, NENTRY}) = IF BLK >= NENTRY THEN BLK ELSE NENTRY
  BY <1>1, Max2
<1>3. 0 .. BLK - 1 \subseteq Cell /\ 0 .. NENTRY - 1 \subseteq Cell
  BY <1>1, <1>2 DEF Cell
<1> QED BY <1>1, <1>3 DEF Block, Number, Top

\* A free block is put at a place that has none.
LEMMA PartitionTakes ==
  ASSUME NEW others, NEW fr, NEW N, Partition(others, fr, N),
         NEW i \in Place, N[i] = 0, NEW b \in fr,
         NEW M, M = [N EXCEPT ![i] = b]
  PROVE  Partition(others, fr \ {b}, M)
<1>1. b \in Block /\ b # 0 /\ b \in Number
  BY Sizes DEF Partition
<1>2. M \in [Place -> Number] /\ M[i] = b /\ \A j \in Place \ {i} : M[j] = N[j]
  BY <1>1 DEF Partition
<1>3. \A j \in Place : M[j] \notin fr \ {b} /\ M[j] \notin others
  BY <1>2 DEF Partition
<1>4. \A j, k \in Place : M[j] = M[k] /\ M[j] # 0 => j = k
  BY <1>1, <1>2 DEF Partition
<1>5. ASSUME NEW c \in Block PROVE c \in fr \ {b} \/ c \in others \/ \E j \in Place : M[j] = c
  <2>1. CASE \E j \in Place : N[j] = c
    <3>1. PICK j \in Place : N[j] = c
      BY <2>1
    <3>2. c # 0
      BY Sizes
    <3> QED BY <1>2, <3>1, <3>2
  <2> QED BY <1>2, <2>1 DEF Partition
<1> QED BY <1>2, <1>3, <1>4, <1>5 DEF Partition

\* The block of a place becomes free.
LEMMA PartitionGives ==
  ASSUME NEW others, NEW fr, NEW N, Partition(others, fr, N),
         NEW i \in Place, N[i] # 0,
         NEW M, M = [N EXCEPT ![i] = 0]
  PROVE  /\ Partition(others, fr \cup {N[i]}, M)
         /\ N[i] \in Block \ fr
<1>1. N[i] \in Block /\ N[i] \notin fr /\ N[i] \notin others
  BY Sizes DEF Partition
<1>2. M \in [Place -> Number] /\ M[i] = 0 /\ \A j \in Place \ {i} : M[j] = N[j]
  <2>1. 0 \in Number
    BY Sizes DEF Number
  <2> QED BY <2>1 DEF Partition
<1>3. \A j \in Place : M[j] \notin fr \cup {N[i]} /\ M[j] \notin others
  <2>1. ASSUME NEW j \in Place \ {i} PROVE N[j] # N[i]
    BY <1>1, Sizes DEF Partition
  <2>2. fr \subseteq Block /\ others \subseteq Block
    BY DEF Partition
  <2> QED BY <1>1, <1>2, <2>1, <2>2, Sizes DEF Partition
<1>4. \A j, k \in Place : M[j] = M[k] /\ M[j] # 0 => j = k
  BY <1>2 DEF Partition
<1>5. ASSUME NEW c \in Block
      PROVE  c \in fr \cup {N[i]} \/ c \in others \/ \E j \in Place : M[j] = c
  BY <1>1, <1>2 DEF Partition
<1>6. others \cap (fr \cup {N[i]}) = {} /\ fr \cup {N[i]} \subseteq Block
  BY <1>1 DEF Partition
<1> QED BY <1>1, <1>2, <1>3, <1>4, <1>5, <1>6 DEF Partition

-----------------------------------------------------------------------------
(* Records in the middle of a call.                                         *)

LEMMA Fields ==
  ASSUME NEW m \in Midway
  PROVE  /\ m.free \subseteq Block /\ m.unused \in Int /\ m.superDirty \in BOOLEAN
         /\ m.data \in Data /\ m.din \in Din /\ m.dirty \in BOOLEAN /\ m.ret \in Ret
         /\ m.ino \in Int /\ m.alen \in Nat /\ m.buf \in Seq(Content)
         /\ m.din.size \in Nat /\ m.din.blocks \in Place /\ m.din.indirect \in Number
         /\ m.din.direct \in [0 .. NDIRECT - 1 -> Number]
BY DEF Midway, Din

LEMMA FailsIs ==
  ASSUME NEW m \in Midway, NEW why \in Ret, NEW t, t = Fails(m, why)
  PROVE  /\ t \in Midway /\ SameFs(m, t) /\ t.ret = why
         /\ t.ino = m.ino /\ t.alen = m.alen /\ t.buf = m.buf
<1>1. t = [free |-> m.free, unused |-> m.unused, superDirty |-> m.superDirty,
           data |-> m.data, din |-> m.din, dirty |-> m.dirty, ret |-> why,
           ino |-> m.ino, alen |-> m.alen, buf |-> m.buf]
  BY DEF Fails, Midway
<1>2. t \in Midway
  BY <1>1, Fields DEF Midway
<1> QED BY <1>1, <1>2 DEF SameFs

Blanked(dt, b) == [dt EXCEPT ![b] = Blank]

\* t is m with the free block b allocated.
Allocated(m, t, b) ==
    /\ b \in m.free /\ t \in Midway /\ t.ino = b /\ t.ret = m.ret
    /\ t.din = m.din /\ t.dirty = m.dirty /\ t.alen = m.alen /\ t.buf = m.buf
    /\ t.free = m.free \ {b} /\ t.unused = m.unused - 1 /\ t.superDirty = TRUE
    /\ t.data = Blanked(m.data, b)

LEMMA Alloc ==
  ASSUME NEW m \in Midway, NEW t, t = sfs_block_alloc(m)
  PROVE  /\ t \in Midway /\ t.din = m.din /\ t.dirty = m.dirty
         /\ t.alen = m.alen /\ t.buf = m.buf
         /\ m.free = {} => t.ret = "no_mem" /\ SameFs(m, t)
         /\ m.free # {} => Allocated(m, t, t.ino)
<1>1. CASE m.free = {}
  <2>1. "no_mem" \in Ret /\ t = Fails(m, "no_mem")
    BY <1>1 DEF Ret, sfs_block_alloc
  <2> QED BY <1>1, <2>1, FailsIs DEF SameFs
<1>2. CASE m.free # {}
  <2> DEFINE b == Min(m.free)
  <2>1. b \in m.free
    <3>1. m.free \subseteq Nat
      BY Fields DEF Block
    <3> QED BY <1>2, <3>1, MinIs
  <2> HIDE DEF b
  <2>2. t = [free |-> m.free \ {b}, unused |-> m.unused - 1, superDirty |-> TRUE,
             data |-> [m.data EXCEPT ![b] = Blank], din |-> m.din, dirty |-> m.dirty,
             ret |-> m.ret, ino |-> b, alen |-> m.alen, buf |-> m.buf]
    <3>1. t = [m EXCEPT !.free = m.free \ {b}, !.unused = m.unused - 1,
                        !.superDirty = TRUE, !.ino = b,
                        !.data = [m.data EXCEPT ![b] = Blank]]
      BY <1>2 DEF sfs_block_alloc, b
    <3> QED BY <3>1 DEF Midway
  <2>3. [m.data EXCEPT ![b] = Blank] \in Data
    <3>1. Blank \in [Cell -> Content]
      BY Sizes DEF Blank, Content, Number
    <3> QED BY <2>1, <3>1, Fields DEF Data
  <2>4. t \in Midway
    <3>1. b \in Int /\ m.free \ {b} \in SUBSET Block /\ m.unused - 1 \in Int
      <4>1. b \in Block /\ m.free \subseteq Block /\ m.unused \in Int
        BY <2>1, Fields
      <4> QED BY <4>1 DEF Block
    <3> QED BY <2>2, <2>3, <3>1, Fields DEF Midway
  <2>5. /\ t.free = m.free \ {b} /\ t.unused = m.unused - 1 /\ t.superDirty = TRUE
        /\ t.data = [m.data EXCEPT ![b] = Blank] /\ t.din = m.din /\ t.dirty = m.dirty
        /\ t.ret = m.ret /\ t.ino = b /\ t.alen = m.alen /\ t.buf = m.buf
    BY <2>2
  <2> QED BY <1>2, <2>1, <2>4, <2>5 DEF Allocated, Blanked
<1> QED BY <1>1, <1>2

LEMMA AllocOne ==
  ASSUME NEW m \in Midway, m.free # {}, NEW t, t = sfs_block_alloc(m)
  PROVE  \E b \in m.free : Allocated(m, t, b)
<1>1. Allocated(m, t, t.ino)
  BY Alloc
<1> QED BY <1>1 DEF Allocated

\* t is m with block b given back.
Freed(m, t, b) ==
    /\ t \in Midway /\ t.din = m.din /\ t.dirty = m.dirty /\ t.data = m.data
    /\ t.alen = m.alen /\ t.buf = m.buf /\ t.ret = m.ret /\ t.ino = m.ino
    /\ t.free = m.free \cup {b} /\ t.unused = m.unused + 1 /\ t.superDirty = TRUE

LEMMA FreeIs ==
  ASSUME NEW m \in Midway, NEW b \in Block \ m.free, NEW t, t = sfs_block_free(m, b)
  PROVE  Freed(m, t, b)
<1> USE DEF Freed
<1>1. t = [free |-> m.free \cup {b}, unused |-> m.unused + 1, superDirty |-> TRUE,
           data |-> m.data, din |-> m.din, dirty |-> m.dirty, ret |-> m.ret,
           ino |-> m.ino, alen |-> m.alen, buf |-> m.buf]
  BY DEF sfs_block_free, Midway
<1>2. t \in Midway
  <2>1. m.free \cup {b} \in SUBSET Block /\ m.unused + 1 \in Int
    BY Fields
  <2> QED BY <1>1, <2>1, Fields DEF Midway
<1> QED BY <1>1, <1>2

-----------------------------------------------------------------------------
(* What keeps a record sound.                                               *)

LEMMA SoundSame ==
  ASSUME NEW x, NEW m, Sound(x, m), NEW t \in Midway, SameFs(m, t)
  PROVE  Sound(x, t)
BY DEF Sound, SameFs

\* The names of a file depend on its block of entries only.
LEMMA NamesSame ==
  ASSUME NEW d \in Din, NEW dt, NEW du, d.indirect # 0 => du[d.indirect] = dt[d.indirect]
  PROVE  Names(d, du) = Names(d, dt)
BY DEF Names

LEMMA SoundFields ==
  ASSUME NEW x, NEW m, Sound(x, m), NEW N, N = Names(m.din, m.data)
  PROVE  /\ m \in Midway /\ Partition(x.others, m.free, N)
         /\ N \in [Place -> Number] /\ N[Top] = m.din.indirect
         /\ \A i \in 0 .. NDIRECT - 1 : N[i] = m.din.direct[i]
         /\ \A i \in NDIRECT .. Top - 1 :
                N[i] = IF m.din.indirect = 0 THEN 0
                       ELSE m.data[m.din.indirect][i - NDIRECT]
         /\ \A i \in Place : N[i] \notin m.free /\ N[i] \notin x.others
         /\ x.others \subseteq Block /\ x.others \cap m.free = {}
         /\ IsFiniteSet(m.free)
<1>1. m \in Midway /\ Partition(x.others, m.free, N)
  BY DEF Sound
<1>2. IsFiniteSet(m.free)
  <2>1. IsFiniteSet(Block)
    BY Sizes, FS_Interval DEF Block
  <2> QED BY <1>1, <2>1, Fields, FS_Subset
<1>3. /\ Top \in Place /\ ~ (Top < NDIRECT)
      /\ \A i \in 0 .. NDIRECT - 1 : i \in Place /\ i < NDIRECT
      /\ \A i \in NDIRECT .. Top - 1 : i \in Place /\ i # Top /\ ~ (i < NDIRECT)
  BY Sizes DEF Place
<1>4. N[Top] = m.din.indirect
  BY <1>3 DEF Names
<1>5. \A i \in 0 .. NDIRECT - 1 : N[i] = m.din.direct[i]
  BY <1>3 DEF Names
<1>6. \A i \in NDIRECT .. Top - 1 :
         N[i] = IF m.din.indirect = 0 THEN 0 ELSE m.data[m.din.indirect][i - NDIRECT]
  BY <1>3 DEF Names
<1> QED BY <1>1, <1>2, <1>4, <1>5, <1>6 DEF Partition

\* A block is taken from the free ones and put at an empty place.
LEMMA Gains ==
  ASSUME NEW x, NEW m, Sound(x, m), NEW t, NEW i, NEW b, Gain(x, m, t, i, b)
  PROVE  Sound(x, t)
<1> USE DEF Gain
<1>0. PICK N : N = Names(m.din, m.data)
  OBVIOUS
<1> DEFINE M == [N EXCEPT ![i] = b]
<1>1. /\ Partition(x.others, m.free, N) /\ N \in [Place -> Number]
      /\ IsFiniteSet(m.free)
  BY <1>0, SoundFields
<1>2. Partition(x.others, t.free, M)
  BY <1>0, <1>1, PartitionTakes
<1>3. t.unused = Cardinality(t.free)
  <2>1. m.unused = Cardinality(m.free)
    BY DEF Sound
  <2>2. Cardinality(m.free \ {b}) = Cardinality(m.free) - 1
    BY <1>1, FS_RemoveElement
  <2> QED BY <1>0, <2>1, <2>2
<1>4. \A c \in x.others : t.data[c] = x.data[c]
  BY DEF Sound
<1>5. Filled(t.din, M)
  <2>1. Filled(m.din, N) /\ b # 0
    <3>1. m.free \subseteq Block
      BY <1>1 DEF Partition
    <3> QED BY <1>0, <3>1, Sizes DEF Sound
  <2> QED BY <1>1, <2>1 DEF Filled
<1> QED BY <1>0, <1>2, <1>3, <1>4, <1>5 DEF Sound

\* The last block is given back.
LEMMA Loses ==
  ASSUME NEW x, NEW m, Sound(x, m), NEW t, NEW i, Loss(x, m, t, i)
  PROVE  Sound(x, t)
<1> USE DEF Loss
<1>0. PICK N : N = Names(m.din, m.data)
  OBVIOUS
<1>a. N[i] # 0
  <2>1. Filled(m.din, N) /\ Place \subseteq Int /\ m.din.blocks \in Int
    BY <1>0, Fields, Sizes DEF Sound, Place
  <2> QED BY <2>1 DEF Filled
<1> DEFINE M == [N EXCEPT ![i] = 0]
<1>1. /\ Partition(x.others, m.free, N) /\ N \in [Place -> Number]
      /\ IsFiniteSet(m.free)
  BY <1>0, SoundFields
<1>2. Partition(x.others, t.free, M) /\ N[i] \notin m.free
  BY <1>0, <1>a, <1>1, PartitionGives
<1>3. t.unused = Cardinality(t.free)
  <2>1. m.unused = Cardinality(m.free)
    BY DEF Sound
  <2>2. Cardinality(m.free \cup {N[i]}) = Cardinality(m.free) + 1
    <3>1. PICK b : b = N[i]
      OBVIOUS
    <3>2. Cardinality(m.free \cup {b}) = Cardinality(m.free) + 1
      <4>1. IsFiniteSet(m.free) /\ b \notin m.free
        BY <1>1, <1>2, <3>1
      <4> QED BY <4>1, FS_AddElement
    <3> QED BY <3>1, <3>2
  <2> QED BY <1>0, <2>1, <2>2
<1>4. \A c \in x.others : t.data[c] = x.data[c]
  BY DEF Sound
<1>5. Filled(t.din, M)
  <2>1. Filled(m.din, N) /\ Place \subseteq Int /\ m.din.blocks \in Int
    BY <1>0, Fields, Sizes DEF Sound, Place
  <2> QED BY <1>1, <2>1 DEF Filled
<1> QED BY <1>0, <1>2, <1>3, <1>4, <1>5 DEF Sound

\* The disks dt and du differ in the blocks b and e only.
Elsewhere(dt, du, b, e) == \A c \in Block : c = b \/ c = e \/ du[c] = dt[c]

\* A file that gains a block, cleared, holds what it held.
LEMMA PagesGain ==
  ASSUME NEW x, NEW m, Sound(x, m), NEW t, NEW i, NEW b, Gain(x, m, t, i, b),
         t.din.size = m.din.size, i # Top => t.data[b] = Blank,
         Elsewhere(m.data, t.data, b, t.din.indirect)
  PROVE  SameFile(m, t)
<1>1. PICK N : N = Names(m.din, m.data)
  OBVIOUS
<1>2. PICK M : M = Names(t.din, t.data)
  OBVIOUS
<1>3. /\ Partition(x.others, m.free, N) /\ N \in [Place -> Number]
      /\ M = [N EXCEPT ![i] = b] /\ i \in Place /\ N[i] = 0 /\ b \in m.free
      /\ m.free \subseteq Block
  BY <1>1, <1>2, SoundFields, Fields DEF Gain
<1>4. /\ Top \in Place /\ ~ (Top < NDIRECT)
      /\ \A j \in 0 .. Top - 1 : j \in Place /\ j # Top
  BY Sizes DEF Place
<1>5. M[Top] = t.din.indirect
  BY <1>2, <1>4 DEF Names
<1>6. ASSUME NEW j \in 0 .. Top - 1
      PROVE  (IF M[j] = 0 THEN Blank ELSE t.data[M[j]])
               = IF N[j] = 0 THEN Blank ELSE m.data[N[j]]
  <2>1. j \in Place /\ j # Top
    BY <1>4
  <2>2. CASE j = i
    BY <1>3, <2>1, <2>2, Sizes
  <2>3. CASE j # i
    <3>1. M[j] = N[j]
      BY <1>3, <2>1, <2>3
    <3>2. CASE N[j] # 0
      <4>1. N[j] \in Block /\ N[j] # b
        BY <1>3, <2>1, <3>2, Sizes DEF Partition
      <4>2. N[j] # M[Top]
        <5>1. CASE i = Top
          BY <1>3, <1>4, <4>1, <5>1
        <5>2. CASE i # Top
          <6>1. M[Top] = N[Top]
            BY <1>3, <1>4, <5>2
          <6> QED BY <1>3, <1>4, <2>1, <3>2, <6>1 DEF Partition
        <5> QED BY <5>1, <5>2
      <4> QED BY <1>5, <3>1, <3>2, <4>1, <4>2 DEF Elsewhere
    <3> QED BY <3>1, <3>2
  <2> QED BY <2>2, <2>3
<1>7. Pages(t.din, t.data) = Pages(m.din, m.data)
  BY <1>1, <1>2, <1>6 DEF Pages
<1> QED BY <1>7 DEF SameFile

\* What happens to free blocks and to blocks of entries is not seen in a file
\* whose names stay.
LEMMA PagesSame ==
  ASSUME NEW x, NEW m, Sound(x, m), NEW t, t.din.size = m.din.size,
         Names(t.din, t.data) = Names(m.din, m.data),
         NEW b \in m.free, Elsewhere(m.data, t.data, b, m.din.indirect)
  PROVE  SameFile(m, t)
<1>1. PICK N : N = Names(m.din, m.data)
  OBVIOUS
<1>2. Partition(x.others, m.free, N) /\ N \in [Place -> Number] /\ N[Top] = m.din.indirect
  BY <1>1, SoundFields
<1>3. /\ Top \in Place
      /\ \A j \in 0 .. Top - 1 : j \in Place /\ j # Top
  BY Sizes DEF Place
<1>4. ASSUME NEW j \in 0 .. Top - 1, N[j] # 0 PROVE t.data[N[j]] = m.data[N[j]]
  <2>1. N[j] \in Block /\ N[j] # b /\ N[j] # N[Top]
    BY <1>2, <1>3, <1>4, Sizes DEF Partition
  <2> QED BY <1>2, <2>1 DEF Elsewhere
<1>5. Pages(t.din, t.data) = Pages(m.din, m.data)
  BY <1>1, <1>4 DEF Pages
<1> QED BY <1>5 DEF SameFile

LEMMA NamesIs ==
  ASSUME NEW d, NEW dt
  PROVE  Names(d, dt) = [j \in Place |-> Names(d, dt)[j]]
BY DEF Names

\* How one function is shown to be another one changed at i.
LEMMA OneChanged ==
  ASSUME NEW S, NEW F, F = [j \in S |-> F[j]], NEW G, G = [j \in S |-> G[j]],
         NEW i \in S, NEW b, \A j \in S : G[j] = IF j = i THEN b ELSE F[j]
  PROVE  G = [F EXCEPT ![i] = b]
<1> DEFINE H == [F EXCEPT ![i] = b]
<1>1. H = [j \in S |-> H[j]] /\ \A j \in S : H[j] = G[j]
  OBVIOUS
<1> HIDE DEF H
<1>2. G = H
  BY <1>1
<1> QED BY <1>2 DEF H

LEMMA NamesDirect ==
  ASSUME NEW d \in Din, NEW i \in 0 .. NDIRECT - 1, NEW b \in Number,
         NEW e, e = WithDirect(d, i, b), NEW dt, NEW du, SameEntries(d, dt, du)
  PROVE  /\ e \in Din /\ e.size = d.size /\ e.blocks = d.blocks
         /\ e.indirect = d.indirect
         /\ i \in Place /\ Renamed(d, dt, e, du, i, b)
<1> USE DEF WithDirect, SameEntries, Renamed
<1>1. /\ e \in Din /\ e.size = d.size /\ e.blocks = d.blocks /\ e.indirect = d.indirect
      /\ e.direct = [d.direct EXCEPT ![i] = b]
  BY DEF Din
<1>2. i \in Place /\ i < NDIRECT /\ i # Top /\ d.direct \in [0 .. NDIRECT - 1 -> Number]
  BY Sizes DEF Place, Din
<1>3. ASSUME NEW j \in Place
      PROVE  Names(e, du)[j] = IF j = i THEN b ELSE Names(d, dt)[j]
  <2>1. CASE j < NDIRECT
    <3>1. j \in 0 .. NDIRECT - 1
      BY <2>1, Sizes DEF Place
    <3>2. e.direct[j] = IF j = i THEN b ELSE d.direct[j]
      <4>1. \A f \in [0 .. NDIRECT - 1 -> Number] :
               [f EXCEPT ![i] = b][j] = IF j = i THEN b ELSE f[j]
        BY <3>1
      <4> QED BY <1>1, <1>2, <4>1
    <3> QED BY <2>1, <3>2 DEF Names
  <2>2. CASE ~ (j < NDIRECT)
    BY <1>1, <1>2, <2>2 DEF Names
  <2> QED BY <2>1, <2>2
<1>4. Names(e, du) = [Names(d, dt) EXCEPT ![i] = b]
  BY <1>2, <1>3, NamesIs, OneChanged
<1> QED BY <1>1, <1>2, <1>4

LEMMA NamesEntry ==
  ASSUME NEW d \in Din, d.indirect # 0, NEW k \in 0 .. NENTRY - 1, NEW b \in Number,
         NEW dt \in Data, NEW du, du = WithEntry(dt, d.indirect, k, b)
  PROVE  /\ du \in Data /\ \A c \in Block \ {d.indirect} : du[c] = dt[c]
         /\ NDIRECT + k \in Place /\ Renamed(d, dt, d, du, NDIRECT + k, b)
<1> USE DEF WithEntry, Renamed
<1>1. d.indirect \in Block /\ k \in Cell /\ b \in Content
  BY Sizes DEF Din, Content
<1>2. /\ du \in Data /\ \A c \in Block \ {d.indirect} : du[c] = dt[c]
      /\ du[d.indirect] = [dt[d.indirect] EXCEPT ![k] = b]
      /\ dt[d.indirect] \in [Cell -> Content]
  BY <1>1 DEF Data
<1>3. NDIRECT + k \in Place /\ NDIRECT + k # Top /\ ~ (NDIRECT + k < NDIRECT)
  BY Sizes DEF Place
<1>4. ASSUME NEW j \in Place
      PROVE  Names(d, du)[j] = IF j = NDIRECT + k THEN b ELSE Names(d, dt)[j]
  <2>1. ~ (j < NDIRECT) /\ j # Top => /\ j - NDIRECT \in 0 .. NENTRY - 1
                                      /\ j = NDIRECT + k <=> j - NDIRECT = k
    BY Sizes DEF Place
  <2>2. \A c \in 0 .. NENTRY - 1 :
           du[d.indirect][c] = IF c = k THEN b ELSE dt[d.indirect][c]
    BY <1>1, <1>2, Sizes
  <2> QED BY <1>3, <2>1, <2>2 DEF Names
<1>5. Names(d, du) = [Names(d, dt) EXCEPT ![NDIRECT + k] = b]
  <2>1. PICK p \in Place : p = NDIRECT + k
    BY <1>3
  <2>2. \A j \in Place : Names(d, du)[j] = IF j = p THEN b ELSE Names(d, dt)[j]
    BY <1>4, <2>1
  <2>3. Names(d, du) = [Names(d, dt) EXCEPT ![p] = b]
    <3>1. PICK F : F = Names(d, dt)
      OBVIOUS
    <3>2. PICK G : G = Names(d, du)
      OBVIOUS
    <3>3. F = [j \in Place |-> F[j]] /\ G = [j \in Place |-> G[j]]
      BY <3>1, <3>2, NamesIs
    <3>4. \A j \in Place : G[j] = IF j = p THEN b ELSE F[j]
      BY <2>2, <3>1, <3>2
    <3>5. G = [F EXCEPT ![p] = b]
      BY <3>3, <3>4, OneChanged
    <3> QED BY <3>1, <3>2, <3>5
  <2> QED BY <2>1, <2>3
<1> QED BY <1>2, <1>3, <1>5

LEMMA NamesTop ==
  ASSUME NEW d \in Din, d.indirect = 0, NEW b \in Block,
         NEW e, e = WithTop(d, b), NEW dt, NEW du, du[b] = Blank
  PROVE  /\ e \in Din /\ e.size = d.size /\ e.blocks = d.blocks
         /\ e.indirect = b /\ e.direct = d.direct
         /\ Top \in Place /\ Renamed(d, dt, e, du, Top, b)
<1> USE DEF WithTop, Renamed
<1>1. /\ e \in Din /\ e.size = d.size /\ e.blocks = d.blocks /\ e.indirect = b
      /\ e.direct = d.direct /\ b # 0
  BY Sizes DEF Din
<1>2. Top \in Place /\ ~ (Top < NDIRECT)
  BY Sizes DEF Place
<1>3. ASSUME NEW j \in Place
      PROVE  Names(e, du)[j] = IF j = Top THEN b ELSE Names(d, dt)[j]
  <2>1. ~ (j < NDIRECT) /\ j # Top => du[b][j - NDIRECT] = 0
    <3>1. ~ (j < NDIRECT) /\ j # Top => j - NDIRECT \in 0 .. NENTRY - 1
      BY Sizes DEF Place
    <3> QED BY <3>1, Sizes DEF Blank
  <2> QED BY <1>1, <1>2, <2>1 DEF Names
<1>4. Names(e, du) = [Names(d, dt) EXCEPT ![Top] = b]
  BY <1>2, <1>3, NamesIs, OneChanged
<1> QED BY <1>1, <1>2, <1>4

-----------------------------------------------------------------------------
(* The map of a file.                                                       *)

\* A block was asked for, and none, or only one where two were needed, was free.
Exhausted(t) == t.ret = "no_mem" /\ Cardinality(t.free) < 2

\* t is m with the block of index i looked up.
Looked(x, m, i, create, t) ==
    /\ Sound(x, t) /\ t.din.blocks = m.din.blocks
    /\ t.alen = m.alen /\ t.buf = m.buf
    /\ t.ret = "ok" => /\ t.ino = Names(t.din, t.data)[i]
                       /\ create => t.ino # 0
    /\ t.ret # "ok" => create /\ Exhausted(t)
    /\ SameFile(m, t)

LEMMA InoSet ==
  ASSUME NEW m \in Midway, NEW b \in Int, NEW t, t = [m EXCEPT !.ino = b]
  PROVE  /\ t \in Midway /\ SameFs(m, t) /\ t.ret = m.ret /\ t.ino = b
         /\ t.alen = m.alen /\ t.buf = m.buf
BY DEF Midway, SameFs

LEMMA NothingFree ==
  ASSUME NEW x, NEW m, Sound(x, m), m.free = {}, NEW t, t = sfs_block_alloc(m),
         NEW i
  PROVE  Looked(x, m, i, TRUE, t)
<1>1. m \in Midway
  BY DEF Sound
<1>2. t \in Midway /\ SameFs(m, t) /\ t.ret = "no_mem" /\ t.alen = m.alen /\ t.buf = m.buf
  BY <1>1, Alloc
<1>3. Exhausted(t)
  BY <1>2, FS_EmptySet DEF Exhausted, SameFs
<1> QED BY <1>2, <1>3, SoundSame DEF Looked, SameFs, SameFile

LEMMA LookFound ==
  ASSUME NEW x, NEW m, Sound(x, m), m.ret = "ok", NEW i \in Place, NEW create, NEW b,
         b = Names(m.din, m.data)[i], b # 0 \/ ~ create,
         NEW t, t = [m EXCEPT !.ino = b]
  PROVE  Looked(x, m, i, create, t)
<1>1. m \in Midway /\ b \in Int
  BY SoundFields, Sizes
<1>2. t \in Midway /\ SameFs(m, t) /\ t.ino = b /\ t.alen = m.alen /\ t.buf = m.buf
      /\ t.ret = "ok"
  BY <1>1, InoSet
<1> QED BY <1>2, SoundSame DEF Looked, SameFs, SameFile

\* A free block is cleared: that changes nothing that is in use.
LEMMA BlankElsewhere ==
  ASSUME NEW x, NEW m, Sound(x, m), NEW b \in m.free,
         NEW du, du = Blanked(m.data, b)
  PROVE  /\ \A c \in x.others : du[c] = m.data[c]
         /\ SameEntries(m.din, m.data, du)
         /\ du[b] = Blank /\ b # m.din.indirect
         /\ \A e : Elsewhere(m.data, du, b, e)
<1>1. /\ \A c \in x.others : c # b /\ c \in Block
      /\ m.din.indirect # b /\ (m.din.indirect # 0 => m.din.indirect \in Block)
      /\ b \in Block
  <2> DEFINE N == Names(m.din, m.data)
  <2>1. Top \in Place /\ m \in Midway
    BY Sizes, SoundFields DEF Place
  <2>2. N[Top] \notin m.free /\ N[Top] = m.din.indirect
    BY <2>1, SoundFields
  <2>3. x.others \cap m.free = {} /\ x.others \subseteq Block
    BY SoundFields
  <2>4. m.din.indirect \in Number /\ m.free \subseteq Block
    BY <2>1, Fields
  <2> QED BY <2>2, <2>3, <2>4, Sizes
<1>2. m.data \in [Block -> [Cell -> Content]]
  BY Fields DEF Data, Sound
<1> QED BY <1>1, <1>2 DEF SameEntries, Blanked, Elsewhere

DirectIndex == 0 .. NDIRECT - 1
DirectPut(a, i, b, t) ==
    /\ t \in Midway /\ t.din = WithDirect(a.din, i, b) /\ t.dirty = TRUE
    /\ t.free = a.free /\ t.unused = a.unused /\ t.superDirty = a.superDirty
    /\ t.data = a.data /\ t.ret = a.ret /\ t.ino = a.ino /\ t.alen = a.alen
    /\ t.buf = a.buf

PutDirect(a, i, b) == [a EXCEPT !.din.direct[i] = b, !.dirty = TRUE]

\* A direct block, if there is none yet.
LEMMA DirectSet ==
  ASSUME NEW a \in Midway, NEW i \in DirectIndex, NEW b \in Number,
         NEW t, t = PutDirect(a, i, b)
  PROVE  DirectPut(a, i, b, t)
<1> USE DEF DirectPut, PutDirect, WithDirect, DirectIndex
<1>1. /\ t.din = [a.din EXCEPT !.direct[i] = b]
      /\ t = [free |-> a.free, unused |-> a.unused, superDirty |-> a.superDirty,
              data |-> a.data, din |-> t.din, dirty |-> TRUE, ret |-> a.ret,
              ino |-> a.ino, alen |-> a.alen, buf |-> a.buf]
  BY DEF Midway
<1>2. t.din \in Din
  <2>1. a.din \in Din
    BY Fields
  <2> QED BY <1>1, <2>1 DEF Din
<1>3. t \in Midway
  BY <1>1, <1>2, Fields DEF Midway
<1> QED BY <1>1, <1>3

LEMMA GetDirect ==
  ASSUME NEW x, NEW m, Sound(x, m), m.ret = "ok", NEW i \in 0 .. NDIRECT - 1,
         NEW create \in BOOLEAN, NEW t, t = sfs_bmap_get_nolock(m, i, create)
  PROVE  Looked(x, m, i, create, t)
<1> DEFINE N == Names(m.din, m.data)
           a == sfs_block_alloc(m)
<1>1. /\ ~ (i >= NDIRECT + NENTRY) /\ ~ (i >= NDIRECT) /\ i \in Place
  BY Sizes DEF Place
<1>2. m \in Midway /\ N[i] = m.din.direct[i]
  BY SoundFields
<1>3. CASE N[i] # 0 \/ ~ create
  <2>1. t = [m EXCEPT !.ino = N[i]]
    BY <1>1, <1>2, <1>3 DEF sfs_bmap_get_nolock
  <2> QED BY <1>1, <1>3, <2>1, LookFound
<1>4. CASE N[i] = 0 /\ create
  <2>1. t = IF a.ret = "ok" THEN [a EXCEPT !.din.direct[i] = a.ino, !.dirty = TRUE] ELSE a
    BY <1>1, <1>2, <1>4 DEF sfs_bmap_get_nolock, Then, Good
  <2>2. CASE m.free = {}
    <3>1. a.ret = "no_mem"
      BY <1>2, <2>2, Alloc
    <3>2. t = a
      BY <2>1, <3>1
    <3> QED BY <1>4, <2>2, <3>2, NothingFree
  <2>3. CASE m.free # {}
    <3>1. PICK b \in m.free : Allocated(m, a, b)
      BY <1>2, <2>3, AllocOne
    <3> HIDE DEF a
    <3>2. a.ret = "ok" /\ a.ino = b /\ a \in Midway
      BY <3>1 DEF Allocated
    <3>3. b \in Block /\ b \in Number /\ b # 0
      BY <1>2, Fields, Sizes
    <3>4. t = PutDirect(a, i, b)
      BY <2>1, <3>2 DEF PutDirect
    <3>5. /\ t \in Midway /\ t.din = WithDirect(a.din, i, b) /\ t.dirty = TRUE
          /\ t.free = a.free /\ t.unused = a.unused /\ t.superDirty = a.superDirty
          /\ t.data = a.data /\ t.ret = a.ret /\ t.ino = a.ino /\ t.alen = a.alen
          /\ t.buf = a.buf
      <4>1. a \in Midway /\ b \in Number /\ i \in DirectIndex
        BY <3>2, <3>3 DEF DirectIndex
      <4>2. DirectPut(a, i, b, t)
        BY <3>4, <4>1, DirectSet
      <4> QED BY <4>2 DEF DirectPut
    <3>6. /\ t.din = WithDirect(m.din, i, b)
          /\ t.free = m.free \ {b} /\ t.unused = m.unused - 1 /\ t.superDirty = TRUE
          /\ t.data = Blanked(m.data, b) /\ t.ino = b /\ t.alen = m.alen
          /\ t.buf = m.buf
      BY <3>1, <3>5 DEF Allocated
    <3>7. /\ \A c \in x.others : t.data[c] = m.data[c]
          /\ SameEntries(m.din, m.data, t.data) /\ t.data[b] = Blank
          /\ \A e : Elsewhere(m.data, t.data, b, e)
      BY <3>6, BlankElsewhere DEF SameEntries
    <3>8. /\ t.din.blocks = m.din.blocks /\ t.din.size = m.din.size
          /\ Renamed(m.din, m.data, t.din, t.data, i, b)
      <4>1. m.din \in Din
        BY <1>2, Fields
      <4> QED BY <3>3, <3>6, <3>7, <4>1, NamesDirect
    <3>9. Sound(x, t) /\ SameFile(m, t)
      <4>1. ~ t.dirty => OnDisk(t.din, x.din)
        BY <3>5
      <4>2. Gain(x, m, t, i, b)
        BY <1>1, <1>4, <3>5, <3>6, <3>7, <3>8, <4>1 DEF Gain, Renamed
      <4>3. SameFile(m, t)
        BY <3>7, <3>8, <4>2, PagesGain
      <4> QED BY <4>2, <4>3, Gains
    <3>10. Names(t.din, t.data)[i] = b
      <4>1. N \in [Place -> Number]
        BY SoundFields
      <4> QED BY <1>1, <3>8, <4>1 DEF Renamed
    <3> QED BY <3>2, <3>3, <3>5, <3>6, <3>8, <3>9, <3>10 DEF Looked
  <2> QED BY <2>2, <2>3
<1> QED BY <1>3, <1>4

PutEntry(d, c, k, b, new) ==
    [d EXCEPT !.data[c][k] = b, !.din.indirect = c, !.dirty = @ \/ new]
EntryPut(d, c, k, b, new, t) ==
    /\ t \in Midway /\ t.data = [d.data EXCEPT ![c][k] = b]
    /\ t.din = [d.din EXCEPT !.indirect = c] /\ t.dirty = (d.dirty \/ new)
    /\ t.free = d.free /\ t.unused = d.unused /\ t.superDirty = d.superDirty
    /\ t.ret = d.ret /\ t.ino = d.ino /\ t.alen = d.alen /\ t.buf = d.buf

LEMMA EntrySet ==
  ASSUME NEW d \in Midway, NEW c \in Block, NEW k \in 0 .. NENTRY - 1, NEW b \in Number,
         NEW new \in BOOLEAN, NEW t, t = PutEntry(d, c, k, b, new)
  PROVE  EntryPut(d, c, k, b, new, t)
<1> USE DEF PutEntry, EntryPut
<1>1. /\ t.data = [d.data EXCEPT ![c][k] = b] /\ t.din = [d.din EXCEPT !.indirect = c]
      /\ t.dirty = (d.dirty \/ new)
      /\ t = [free |-> d.free, unused |-> d.unused, superDirty |-> d.superDirty,
              data |-> t.data, din |-> t.din, dirty |-> t.dirty, ret |-> d.ret,
              ino |-> d.ino, alen |-> d.alen, buf |-> d.buf]
  BY DEF Midway
<1>2. t.din \in Din
  <2>1. d.din \in Din /\ c \in Number
    BY Fields, Sizes
  <2> QED BY <1>1, <2>1 DEF Din
<1>3. t.data \in Data
  <2>1. d.data \in Data /\ k \in Cell /\ b \in Content
    BY Fields, Sizes DEF Content
  <2> QED BY <1>1, <2>1 DEF Data
<1>4. t.dirty \in BOOLEAN
  BY <1>1, Fields
<1>5. t \in Midway
  BY <1>1, <1>2, <1>3, <1>4, Fields DEF Midway
<1> QED BY <1>1, <1>5

\* t is v with block b, now cleared, at entry k of its block of entries.
Entered(v, t, k, b) ==
    /\ t \in Midway /\ b \in v.free
    /\ t.free = v.free \ {b} /\ t.unused = v.unused - 1 /\ t.superDirty = TRUE
    /\ t.data = [Blanked(v.data, b) EXCEPT ![v.din.indirect][k] = b]
    /\ t.din = v.din /\ t.dirty = v.dirty

LEMMA Enters ==
  ASSUME NEW x, NEW v, Sound(x, v), v.din.indirect # 0, NEW k \in 0 .. NENTRY - 1,
         Names(v.din, v.data)[NDIRECT + k] = 0, NEW t, NEW b, Entered(v, t, k, b)
  PROVE  Sound(x, t) /\ Names(t.din, t.data)[NDIRECT + k] = b /\ SameFile(v, t)
<1> DEFINE du == Blanked(v.data, b)
<1>1. b \in v.free /\ t \in Midway /\ t.data = [du EXCEPT ![v.din.indirect][k] = b]
  BY DEF Entered
<1>2. /\ \A c \in x.others : du[c] = v.data[c]
      /\ SameEntries(v.din, v.data, du) /\ du[b] = Blank /\ b # v.din.indirect
      /\ Elsewhere(v.data, du, b, v.din.indirect)
  BY <1>1, BlankElsewhere
<1>3. /\ v \in Midway /\ v.din \in Din /\ v.data \in Data /\ b \in Block /\ b \in Number
      /\ b # 0
  BY <1>1, SoundFields, Fields, Sizes
<1>4. du \in Data
  <2>1. Blank \in [Cell -> Content]
    BY Sizes DEF Blank, Content, Number
  <2> QED BY <1>3, <2>1 DEF Data, Blanked
<1> HIDE DEF du
<1>5. Names(v.din, du) = Names(v.din, v.data)
  BY <1>2, <1>3, NamesSame DEF SameEntries
<1>6. /\ \A c \in Block \ {v.din.indirect} : t.data[c] = du[c]
      /\ NDIRECT + k \in Place
      /\ Names(v.din, t.data) = [Names(v.din, du) EXCEPT ![NDIRECT + k] = b]
  <2>1. t.data = WithEntry(du, v.din.indirect, k, b)
    BY <1>1 DEF WithEntry
  <2>2. /\ \A c \in Block \ {v.din.indirect} : t.data[c] = du[c]
        /\ NDIRECT + k \in Place /\ Renamed(v.din, du, v.din, t.data, NDIRECT + k, b)
    BY <1>3, <1>4, <2>1, NamesEntry
  <2> QED BY <2>2 DEF Renamed
<1>7. \A c \in x.others : t.data[c] = v.data[c]
  <2>1. Top \in Place
    BY Sizes DEF Place
  <2>2. v.din.indirect \notin x.others /\ x.others \subseteq Block
    BY <2>1, SoundFields
  <2> QED BY <1>2, <1>6, <2>2
<1>8. Gain(x, v, t, NDIRECT + k, b)
  <2>1. ~ t.dirty => OnDisk(t.din, x.din)
    BY DEF Entered, Sound
  <2> QED BY <1>1, <1>5, <1>6, <1>7, <2>1 DEF Gain, Entered
<1>9. Names(t.din, t.data)[NDIRECT + k] = b
  <2>1. PICK N : N = Names(v.din, v.data)
    OBVIOUS
  <2>2. PICK p : p = NDIRECT + k
    OBVIOUS
  <2>3. N \in [Place -> Number] /\ p \in Place
    BY <1>6, <2>1, <2>2, SoundFields
  <2>4. Names(t.din, t.data) = [N EXCEPT ![p] = b]
    BY <1>5, <1>6, <2>1, <2>2 DEF Entered
  <2> QED BY <2>2, <2>3, <2>4
<1>10. SameFile(v, t)
  <2>1. t.data[b] = Blank /\ t.din = v.din
    BY <1>2, <1>3, <1>6 DEF Entered
  <2>2. Elsewhere(v.data, t.data, b, v.din.indirect)
    BY <1>2, <1>6 DEF Elsewhere
  <2> QED BY <1>8, <2>1, <2>2, PagesGain
<1> QED BY <1>8, <1>9, <1>10, Gains

\* The block of entries is there: it gets a new entry.
LEMMA EnterOld ==
  ASSUME NEW x, NEW m, Sound(x, m), m.ret = "ok", NEW k \in 0 .. NENTRY - 1,
         Names(m.din, m.data)[NDIRECT + k] = 0, m.din.indirect # 0,
         NEW e, e = [m EXCEPT !.ino = m.din.indirect],
         NEW t, t = EnterBlock(m, e, sfs_block_alloc(e), k)
  PROVE  Looked(x, m, NDIRECT + k, TRUE, t)
<1> DEFINE c == m.din.indirect
<1>1. m \in Midway /\ c \in Block /\ c \in Int
  <2>1. m \in Midway
    BY SoundFields
  <2> QED BY <2>1, Fields, Sizes
<1>2. e \in Midway /\ SameFs(m, e) /\ e.ret = "ok" /\ e.ino = c
      /\ e.alen = m.alen /\ e.buf = m.buf
  BY <1>1, InoSet
<1>3. Sound(x, e)
  BY <1>2, SoundSame
<1>4. PICK d : d = sfs_block_alloc(e)
  OBVIOUS
<1>5. CASE m.free = {}
  <2>1. d.ret = "no_mem"
    <3>1. e.free = {}
      BY <1>2, <1>5 DEF SameFs
    <3> QED BY <1>2, <1>4, <3>1, Alloc
  <2>2. t = d
    BY <1>4, <2>1 DEF EnterBlock, Good
  <2>3. Looked(x, e, NDIRECT + k, TRUE, t)
    BY <1>2, <1>3, <1>4, <1>5, <2>2, NothingFree DEF SameFs
  <2> QED BY <1>2, <2>3 DEF Looked, SameFs, SameFile
<1>6. CASE m.free # {}
  <2>1. PICK b \in e.free : Allocated(e, d, b)
    BY <1>2, <1>4, <1>6, AllocOne DEF SameFs
  <2>2. Allocated(m, d, b)
    BY <1>2, <2>1 DEF Allocated, SameFs
  <2>3. b \in Number /\ b # 0
    BY <1>1, <2>2, Fields, Sizes DEF Allocated
  <2>4. t = PutEntry(d, c, k, b, FALSE)
    <3>1. t = [d EXCEPT !.data[e.ino][k] = d.ino, !.din.indirect = e.ino,
                        !.dirty = @ \/ m.din.indirect = 0]
      BY <1>2, <1>4, <2>1 DEF EnterBlock, Good, Allocated
    <3>2. (m.din.indirect = 0) = FALSE
      OBVIOUS
    <3> QED BY <1>2, <2>2, <3>1, <3>2 DEF PutEntry, Allocated
  <2>5. EntryPut(d, c, k, b, FALSE, t)
    BY <1>1, <2>2, <2>3, <2>4, EntrySet DEF Allocated
  <2>6. t.din = m.din
    <3>1. m.din \in Din
      BY <1>1, Fields
    <3>2. [m.din EXCEPT !.indirect = c] = m.din
      BY <3>1 DEF Din
    <3> QED BY <2>2, <2>5, <3>2 DEF EntryPut, Allocated
  <2>7. t.dirty = m.dirty
    <3>1. m.dirty \in BOOLEAN
      BY <1>1, Fields
    <3> QED BY <2>2, <2>5, <3>1 DEF EntryPut, Allocated
  <2>8. Entered(m, t, k, b)
    BY <2>2, <2>5, <2>6, <2>7 DEF Entered, EntryPut, Allocated
  <2>9. Sound(x, t) /\ Names(t.din, t.data)[NDIRECT + k] = b /\ SameFile(m, t)
    BY <2>8, Enters
  <2> QED BY <2>2, <2>3, <2>5, <2>6, <2>9 DEF Looked, EntryPut, Allocated
<1> QED BY <1>5, <1>6

PutTop(e, c) == [e EXCEPT !.din.indirect = c, !.dirty = TRUE]
TopPut(e, c, v) ==
    /\ v \in Midway /\ v.data = e.data /\ v.din = [e.din EXCEPT !.indirect = c]
    /\ v.dirty = TRUE /\ v.free = e.free /\ v.unused = e.unused
    /\ v.superDirty = e.superDirty /\ v.ino = e.ino

LEMMA TopSet ==
  ASSUME NEW e \in Midway, NEW c \in Block, NEW v, v = PutTop(e, c)
  PROVE  TopPut(e, c, v)
<1> USE DEF PutTop, TopPut
<1>1. /\ v.din = [e.din EXCEPT !.indirect = c]
      /\ v = [free |-> e.free, unused |-> e.unused, superDirty |-> e.superDirty,
              data |-> e.data, din |-> v.din, dirty |-> TRUE, ret |-> e.ret,
              ino |-> e.ino, alen |-> e.alen, buf |-> e.buf]
  BY DEF Midway
<1>2. v.din \in Din
  <2>1. e.din \in Din /\ c \in Number
    BY Fields, Sizes
  <2> QED BY <1>1, <2>1 DEF Din
<1>3. v \in Midway
  BY <1>1, <1>2, Fields DEF Midway
<1> QED BY <1>1, <1>3

\* A new block of entries c, before an entry is made in it.
LEMMA NewTop ==
  ASSUME NEW x, NEW m, Sound(x, m), m.din.indirect = 0, m.free # {},
         NEW e, e = sfs_block_alloc(m), NEW v, v = PutTop(e, e.ino)
  PROVE  /\ Sound(x, v) /\ TopPut(e, e.ino, v) /\ v.din.indirect = e.ino
         /\ v.din.blocks = m.din.blocks
         /\ \A i \in Place \ {Top} : Names(v.din, v.data)[i] = Names(m.din, m.data)[i]
         /\ SameFile(m, v)
<1>1. m \in Midway
  BY SoundFields
<1>2. PICK c \in m.free : Allocated(m, e, c)
  BY <1>1, AllocOne
<1>3. c \in Block /\ m.din \in Din /\ c = e.ino
  BY <1>1, <1>2, Fields DEF Allocated
<1>4. TopPut(e, c, v)
  BY <1>2, <1>3, TopSet DEF Allocated
<1>5. /\ \A b \in x.others : v.data[b] = m.data[b]
      /\ v.data[c] = Blank /\ \A e1 : Elsewhere(m.data, v.data, c, e1)
  <2>1. v.data = Blanked(m.data, c)
    BY <1>2, <1>4 DEF TopPut, Allocated
  <2> QED BY <2>1, BlankElsewhere
<1>6. /\ v.din.blocks = m.din.blocks /\ v.din.indirect = c /\ Top \in Place
      /\ v.din.size = m.din.size
      /\ Names(v.din, v.data) = [Names(m.din, m.data) EXCEPT ![Top] = c]
  <2>1. v.din = [m.din EXCEPT !.indirect = c]
    BY <1>2, <1>4 DEF TopPut, Allocated
  <2>2. v.din = WithTop(m.din, c)
    BY <2>1 DEF WithTop
  <2>3. /\ v.din \in Din /\ v.din.blocks = m.din.blocks /\ v.din.indirect = c
        /\ v.din.size = m.din.size
        /\ Top \in Place /\ Renamed(m.din, m.data, v.din, v.data, Top, c)
    BY <1>3, <1>5, <2>2, NamesTop
  <2> QED BY <2>3 DEF Renamed
<1>7. Names(m.din, m.data)[Top] = 0
  BY SoundFields
<1>8. Gain(x, m, v, Top, c)
  BY <1>2, <1>4, <1>5, <1>6, <1>7 DEF Gain, TopPut, Allocated
<1>9. Sound(x, v)
  BY <1>8, Gains
<1>10. \A i \in Place \ {Top} : Names(v.din, v.data)[i] = Names(m.din, m.data)[i]
  <2>1. PICK N : N = Names(m.din, m.data)
    OBVIOUS
  <2>2. N \in [Place -> Number]
    BY <2>1, SoundFields
  <2> QED BY <1>6, <2>1, <2>2
<1>11. SameFile(m, v)
  BY <1>5, <1>6, <1>8, PagesGain
<1> QED BY <1>3, <1>4, <1>6, <1>9, <1>10, <1>11

\* There was no block of entries: it is allocated, or given back at once.
LEMMA EnterNew ==
  ASSUME NEW x, NEW m, Sound(x, m), m.ret = "ok", NEW k \in 0 .. NENTRY - 1,
         m.din.indirect = 0, m.free # {}, NEW e, e = sfs_block_alloc(m),
         NEW t, t = EnterBlock(m, e, sfs_block_alloc(e), k)
  PROVE  Looked(x, m, NDIRECT + k, TRUE, t)
<1>1. m \in Midway
  BY SoundFields
<1>2. PICK c \in m.free : Allocated(m, e, c)
  BY <1>1, AllocOne
<1>3. /\ e \in Midway /\ e.ino = c /\ e.free = m.free \ {c} /\ e.ret = "ok"
      /\ c \in Block /\ c \notin e.free
  BY <1>1, <1>2, Fields DEF Allocated
<1>4. PICK d : d = sfs_block_alloc(e)
  OBVIOUS
<1>5. CASE e.free = {}
  <2>1. /\ d \in Midway /\ d.ret = "no_mem" /\ SameFs(e, d)
    BY <1>3, <1>4, <1>5, Alloc
  <2>2. PICK r : r = sfs_block_free(e, c)
    OBVIOUS
  <2>3. t = Fails(r, "no_mem")
    BY <1>3, <1>4, <2>1, <2>2 DEF EnterBlock, Good
  <2>4. /\ r \in Midway /\ r.din = e.din /\ r.dirty = e.dirty /\ r.data = e.data
        /\ r.alen = e.alen /\ r.buf = e.buf
        /\ r.free = e.free \cup {c} /\ r.unused = e.unused + 1 /\ r.superDirty = TRUE
    <3>1. c \in Block \ e.free
      BY <1>3
    <3>2. Freed(e, r, c)
      BY <1>3, <2>2, <3>1, FreeIs
    <3> QED BY <3>2 DEF Freed
  <2>5. /\ t \in Midway /\ SameFs(r, t) /\ t.ret = "no_mem" /\ t.alen = r.alen
        /\ t.buf = r.buf
    <3>1. "no_mem" \in Ret
      BY DEF Ret
    <3> QED BY <2>3, <2>4, <3>1, FailsIs
  <2>6. /\ t.din = m.din /\ t.dirty = m.dirty /\ t.data = Blanked(m.data, c)
        /\ t.free = m.free /\ t.unused = m.unused /\ t.superDirty = TRUE
        /\ t.alen = m.alen /\ t.buf = m.buf
    <3>1. m.unused \in Int
      BY <1>1, Fields
    <3> QED BY <1>2, <2>4, <2>5, <3>1 DEF SameFs, Allocated
  <2>7. Names(t.din, t.data) = Names(m.din, m.data)
    <3>1. m.din \in Din
      BY <1>1, Fields
    <3> QED BY <2>6, <3>1, NamesSame
  <2>8. \A b \in x.others : t.data[b] = m.data[b]
    BY <2>6, BlankElsewhere
  <2>9. Sound(x, t)
    BY <2>5, <2>6, <2>7, <2>8 DEF Sound
  <2>10. SameFile(m, t)
    <3>1. Elsewhere(m.data, t.data, c, m.din.indirect)
      BY <2>6, BlankElsewhere
    <3> QED BY <2>6, <2>7, <3>1, PagesSame
  <2>11. Exhausted(t)
    <3>1. IsFiniteSet(e.free) /\ Cardinality(e.free) = 0
      BY <1>5, FS_EmptySet
    <3>2. Cardinality(e.free \cup {c}) = 1
      <4>1. PICK S : S = e.free
        OBVIOUS
      <4>2. IsFiniteSet(S) /\ Cardinality(S) = 0 /\ c \notin S
        BY <1>3, <3>1, <4>1
      <4>3. Cardinality(S \cup {c}) = Cardinality(S) + 1
        BY <4>2, FS_AddElement
      <4> QED BY <4>1, <4>2, <4>3
    <3> QED BY <2>4, <2>5, <3>2 DEF Exhausted, SameFs
  <2> QED BY <2>5, <2>6, <2>9, <2>10, <2>11 DEF Looked
<1>6. CASE e.free # {}
  <2>1. PICK b \in e.free : Allocated(e, d, b)
    BY <1>3, <1>4, <1>6, AllocOne
  <2>2. b \in Number /\ b # 0
    BY <1>3, Fields, Sizes
  <2>3. PICK v : v = PutTop(e, c)
    OBVIOUS
  <2>4. /\ Sound(x, v) /\ TopPut(e, c, v) /\ v.din.indirect = c
        /\ v.din.blocks = m.din.blocks
        /\ \A i \in Place \ {Top} : Names(v.din, v.data)[i] = Names(m.din, m.data)[i]
        /\ SameFile(m, v)
    BY <1>3, <2>3, NewTop
  <2>5. t = PutEntry(d, c, k, b, TRUE)
    <3>1. t = [d EXCEPT !.data[e.ino][k] = d.ino, !.din.indirect = e.ino,
                        !.dirty = @ \/ m.din.indirect = 0]
      BY <1>3, <1>4, <2>1 DEF EnterBlock, Good, Allocated
    <3>2. (m.din.indirect = 0) = TRUE
      OBVIOUS
    <3> QED BY <1>3, <2>1, <3>1, <3>2 DEF PutEntry, Allocated
  <2>6. EntryPut(d, c, k, b, TRUE, t)
    <3>1. d \in Midway
      BY <2>1 DEF Allocated
    <3> QED BY <1>3, <2>2, <2>5, <3>1, EntrySet
  <2>7. /\ t.din = v.din /\ t.dirty = v.dirty /\ t.data = [Blanked(v.data, b) EXCEPT ![c][k] = b]
        /\ t.free = v.free \ {b} /\ t.unused = v.unused - 1 /\ t.superDirty = TRUE
        /\ t.alen = m.alen /\ t.buf = m.buf /\ t.ino = b /\ b \in v.free /\ t.ret = "ok"
    <3>1. t.din = v.din /\ t.dirty = v.dirty
      <4>1. d.dirty \in BOOLEAN
        BY <2>1, Fields DEF Allocated
      <4>2. t.dirty = (d.dirty \/ TRUE) /\ v.dirty = TRUE
        BY <2>4, <2>6 DEF EntryPut, TopPut
      <4>3. t.din = [d.din EXCEPT !.indirect = c] /\ d.din = e.din
        BY <2>1, <2>6 DEF EntryPut, Allocated
      <4>4. v.din = [e.din EXCEPT !.indirect = c]
        BY <2>4 DEF TopPut
      <4> QED BY <4>1, <4>2, <4>3, <4>4
    <3>2. t.data = [Blanked(v.data, b) EXCEPT ![c][k] = b]
      BY <2>1, <2>4, <2>6 DEF EntryPut, TopPut, Allocated
    <3> QED BY <1>2, <2>1, <2>4, <2>6, <3>1, <3>2 DEF EntryPut, TopPut, Allocated
  <2>8. Entered(v, t, k, b)
    BY <2>4, <2>6, <2>7 DEF Entered, EntryPut
  <2>9. Names(v.din, v.data)[NDIRECT + k] = 0 /\ v.din.indirect # 0
    <3>1. NDIRECT + k \in Place \ {Top} /\ NDIRECT + k \in NDIRECT .. Top - 1
      BY Sizes DEF Place
    <3>2. Names(m.din, m.data)[NDIRECT + k] = 0
      BY <3>1, SoundFields
    <3> QED BY <1>3, <2>4, <3>1, <3>2, Sizes
  <2>10. Sound(x, t) /\ Names(t.din, t.data)[NDIRECT + k] = b /\ SameFile(v, t)
    BY <2>4, <2>8, <2>9, Enters
  <2>11. SameFile(m, t)
    BY <2>4, <2>10 DEF SameFile
  <2> QED BY <2>2, <2>4, <2>7, <2>10, <2>11 DEF Looked
<1> QED BY <1>5, <1>6

LEMMA GetEntry ==
  ASSUME NEW x, NEW m, Sound(x, m), m.ret = "ok", NEW k \in 0 .. NENTRY - 1,
         NEW create \in BOOLEAN, NEW t, t = sfs_bmap_get_nolock(m, NDIRECT + k, create)
  PROVE  Looked(x, m, NDIRECT + k, create, t)
<1> DEFINE b == Names(m.din, m.data)[NDIRECT + k]
<1>1. /\ NDIRECT + k \in Place /\ NDIRECT + k \in NDIRECT .. Top - 1
      /\ (NDIRECT + k) - NDIRECT = k
      /\ ~ (NDIRECT + k >= NDIRECT + NENTRY) /\ NDIRECT + k >= NDIRECT
  BY Sizes DEF Place
<1>2. b = IF m.din.indirect = 0 THEN 0 ELSE m.data[m.din.indirect][k]
  BY <1>1, SoundFields
<1>3. t = sfs_bmap_get_sub_nolock(m, k, create)
  BY <1>1 DEF sfs_bmap_get_nolock
<1>4. CASE b # 0 \/ ~ create
  <2>1. t = [m EXCEPT !.ino = b]
    BY <1>2, <1>3, <1>4 DEF sfs_bmap_get_sub_nolock
  <2> QED BY <1>1, <1>4, <2>1, LookFound
<1>5. CASE b = 0 /\ create
  <2>1. PICK e : e = EntryBlock(m)
    OBVIOUS
  <2>2. t = IF e.ret = "ok" THEN EnterBlock(m, e, sfs_block_alloc(e), k) ELSE e
    BY <1>2, <1>3, <1>5, <2>1 DEF sfs_bmap_get_sub_nolock, Then, Good
  <2>3. CASE m.din.indirect # 0
    <3>1. e = [m EXCEPT !.ino = m.din.indirect]
      BY <2>1, <2>3 DEF EntryBlock
    <3>2. e.ret = "ok"
      <4>1. m \in Midway
        BY SoundFields
      <4> QED BY <3>1, <4>1 DEF Midway
    <3>3. t = EnterBlock(m, e, sfs_block_alloc(e), k)
      BY <2>2, <3>2
    <3>4. Looked(x, m, NDIRECT + k, TRUE, t)
      BY <1>5, <2>3, <3>1, <3>3, EnterOld
    <3> QED BY <1>5, <3>4
  <2>4. CASE m.din.indirect = 0
    <3>1. e = sfs_block_alloc(m) /\ m \in Midway
      BY <2>1, <2>4, SoundFields DEF EntryBlock
    <3>2. CASE m.free = {}
      <4>1. e.ret = "no_mem"
        BY <3>1, <3>2, Alloc
      <4>2. t = e
        BY <2>2, <4>1
      <4>3. Looked(x, m, NDIRECT + k, TRUE, t)
        BY <3>1, <3>2, <4>2, NothingFree
      <4> QED BY <1>5, <4>3
    <3>3. CASE m.free # {}
      <4>1. e.ret = "ok"
        BY <3>1, <3>3, AllocOne DEF Allocated
      <4>2. Looked(x, m, NDIRECT + k, TRUE, t)
        BY <2>2, <2>4, <3>1, <3>3, <4>1, EnterNew
      <4> QED BY <1>5, <4>2
    <3> QED BY <3>2, <3>3
  <2> QED BY <2>3, <2>4
<1> QED BY <1>4, <1>5

LEMMA Get ==
  ASSUME NEW x, NEW m, Sound(x, m), m.ret = "ok", NEW i \in 0 .. Top - 1,
         NEW create \in BOOLEAN, NEW t, t = sfs_bmap_get_nolock(m, i, create)
  PROVE  Looked(x, m, i, create, t)
<1>1. CASE i < NDIRECT
  <2>1. i \in 0 .. NDIRECT - 1
    BY <1>1, Sizes
  <2> QED BY <2>1, GetDirect
<1>2. CASE ~ (i < NDIRECT)
  <2>1. PICK k \in 0 .. NENTRY - 1 : i = NDIRECT + k
    <3>1. i - NDIRECT \in 0 .. NENTRY - 1 /\ i = NDIRECT + (i - NDIRECT)
      BY <1>2, Sizes
    <3> QED BY <3>1
  <2> QED BY <2>1, GetEntry
<1> QED BY <1>1, <1>2

\* The count of blocks of an inode.
WithBlocks(r, n) == [r EXCEPT !.din.blocks = n]
Recounted(r, n, t) ==
    /\ t \in Midway /\ t.din.size = r.din.size /\ t.din.blocks = n
    /\ t.din.indirect = r.din.indirect /\ t.din.direct = r.din.direct
    /\ t.dirty = r.dirty /\ t.data = r.data /\ t.free = r.free /\ t.unused = r.unused
    /\ t.superDirty = r.superDirty /\ t.ret = r.ret /\ t.ino = r.ino
    /\ t.alen = r.alen /\ t.buf = r.buf

LEMMA BlocksSet ==
  ASSUME NEW r \in Midway, NEW n \in Place, NEW t, t = WithBlocks(r, n)
  PROVE  Recounted(r, n, t)
<1> USE DEF WithBlocks, Recounted
<1>1. /\ t.din = [r.din EXCEPT !.blocks = n]
      /\ t = [free |-> r.free, unused |-> r.unused, superDirty |-> r.superDirty,
              data |-> r.data, din |-> t.din, dirty |-> r.dirty, ret |-> r.ret,
              ino |-> r.ino, alen |-> r.alen, buf |-> r.buf]
  BY DEF Midway
<1>2. r.din \in Din
  BY Fields
<1>3. /\ t.din \in Din /\ t.din.size = r.din.size /\ t.din.blocks = n
      /\ t.din.indirect = r.din.indirect /\ t.din.direct = r.din.direct
  BY <1>1, <1>2 DEF Din
<1>4. t \in Midway
  BY <1>1, <1>3, Fields DEF Midway
<1> QED BY <1>1, <1>3, <1>4

\* How a call goes on the blocks of a file: well, out of blocks, or stopped by an
\* assertion.
Ended(t) == t.ret = "ok" \/ Exhausted(t) \/ t.ret \in {"index", "range"}

\* t is m with the block of index at hand, if all went well.
Loaded(x, m, index, t) ==
    /\ Sound(x, t) /\ t.alen = m.alen /\ t.buf = m.buf
    /\ t.ret = "ok" => /\ index \in 0 .. Top - 1 /\ t.ino \in Block
                       /\ t.ino = Names(t.din, t.data)[index]
    /\ SameFile(m, t) /\ Ended(t)
    /\ index < m.din.blocks => t.ret = "ok"
    /\ t.din.blocks = IF t.ret = "ok" /\ index >= m.din.blocks THEN index + 1
                      ELSE m.din.blocks

\* t is m, and why it failed.
Stopped(x, m, why, t) ==
    Sound(x, t) /\ SameFs(m, t) /\ t.ret = why /\ t.alen = m.alen /\ t.buf = m.buf

LEMMA Refused ==
  ASSUME NEW x, NEW m, Sound(x, m), NEW why \in Ret, NEW t, t = Fails(m, why)
  PROVE  Stopped(x, m, why, t)
<1>1. m \in Midway
  BY SoundFields
<1>2. t \in Midway /\ SameFs(m, t) /\ t.ret = why /\ t.alen = m.alen /\ t.buf = m.buf
  BY <1>1, FailsIs
<1> QED BY <1>2, SoundSame DEF Stopped

LEMMA Load ==
  ASSUME NEW x, NEW m, Sound(x, m), m.ret = "ok", NEW index \in Nat,
         NEW t, t = sfs_bmap_load_nolock(m, index)
  PROVE  Loaded(x, m, index, t)
<1>1. m \in Midway /\ m.din.blocks \in 0 .. Top
  <2>1. m \in Midway
    BY SoundFields
  <2> QED BY <2>1, Fields DEF Place
<1>2. CASE index > m.din.blocks
  <2>1. t = Fails(m, "index") /\ "index" \in Ret
    BY <1>2 DEF sfs_bmap_load_nolock, Ret
  <2>2. Stopped(x, m, "index", t)
    BY <2>1, Refused
  <2>3. ~ (index < m.din.blocks)
    BY <1>1, <1>2, Sizes
  <2> QED BY <2>2, <2>3 DEF Loaded, Stopped, SameFs, SameFile, Ended
<1>3. CASE ~ (index > m.din.blocks)
  <2>1. PICK r : r = sfs_bmap_get_nolock(m, index, index = m.din.blocks)
    OBVIOUS
  <2>2. t = IF r.ret # "ok" THEN r
            ELSE IF r.ino \notin Block \ r.free THEN Fails(r, "inuse")
            ELSE WithBlocks(r, Max({r.din.blocks, index + 1}))
    BY <1>3, <2>1 DEF sfs_bmap_load_nolock, Then, Good, WithBlocks
  <2>3. CASE index >= NDIRECT + NENTRY
    <3>1. r = Fails(m, "range") /\ "range" \in Ret
      BY <2>1, <2>3 DEF sfs_bmap_get_nolock, Ret
    <3>2. Stopped(x, m, "range", r)
      BY <3>1, Refused
    <3>3. t = r
      BY <2>2, <3>2 DEF Stopped
    <3>4. ~ (index < m.din.blocks)
      BY <1>1, <2>3, Sizes
    <3> QED BY <3>2, <3>3, <3>4 DEF Loaded, Stopped, SameFs, SameFile, Ended
  <2>4. CASE ~ (index >= NDIRECT + NENTRY)
    <3>1. index \in 0 .. Top - 1 /\ index \in Place
      BY <2>4, Sizes DEF Place
    <3>2. PICK create \in BOOLEAN : create = (index = m.din.blocks)
      OBVIOUS
    <3>3. Looked(x, m, index, create, r)
      BY <2>1, <3>1, <3>2, Get
    <3>4. CASE r.ret # "ok"
      <4>1. t = r /\ create /\ Exhausted(t)
        BY <2>2, <3>3, <3>4 DEF Looked
      <4>2. ~ (index < m.din.blocks)
        <5>1. index = m.din.blocks
          BY <3>2, <4>1
        <5> QED BY <1>1, <5>1, Sizes
      <4> QED BY <3>3, <3>4, <4>1, <4>2 DEF Looked, Loaded, Ended
    <3>5. CASE r.ret = "ok"
      <4>1. PICK N : N = Names(r.din, r.data)
        OBVIOUS
      <4>2. /\ Sound(x, r) /\ r.din.blocks = m.din.blocks
            /\ r.ino = N[index] /\ (create => r.ino # 0)
        BY <3>3, <3>5, <4>1 DEF Looked
      <4>3. N[index] # 0
        <5>1. Filled(r.din, N)
          BY <4>1, <4>2 DEF Sound
        <5>2. ~ create => index < r.din.blocks
          <6>1. ~ create => index # m.din.blocks
            BY <3>2
          <6> QED BY <1>1, <1>3, <4>2, <6>1
        <5> QED BY <3>1, <4>2, <5>1, <5>2 DEF Filled
      <4>4. r.ino \in Block \ r.free /\ r \in Midway
        <5>1. N \in [Place -> Number] /\ N[index] \notin r.free /\ r \in Midway
          BY <3>1, <4>1, <4>2, SoundFields
        <5> QED BY <3>1, <4>2, <4>3, <5>1, Sizes
      <4>5. PICK n \in Place : /\ n = Max({r.din.blocks, index + 1})
                               /\ n >= r.din.blocks
                               /\ \A i \in Place : i < n => i < r.din.blocks \/ i = index
                               /\ n = IF index >= m.din.blocks THEN index + 1
                                      ELSE m.din.blocks
        <5>1. r.din.blocks \in Int /\ index + 1 \in Int
          BY <1>1, <4>2
        <5>2. Max({r.din.blocks, index + 1}) = IF r.din.blocks >= index + 1
                                               THEN r.din.blocks ELSE index + 1
          BY <5>1, Max2
        <5> QED BY <1>1, <1>3, <3>1, <4>2, <5>2, Sizes DEF Place
      <4>6. t = WithBlocks(r, n)
        BY <2>2, <3>5, <4>4, <4>5
      <4>7. Recounted(r, n, t)
        BY <4>4, <4>6, BlocksSet
      <4>8. Names(t.din, t.data) = N
        BY <4>1, <4>7 DEF Names, Recounted
      <4>9. Filled(t.din, N)
        <5>1. Filled(r.din, N)
          BY <4>1, <4>2 DEF Sound
        <5> QED BY <4>3, <4>5, <4>7, <5>1 DEF Filled, Recounted
      <4>10. ~ t.dirty => OnDisk(t.din, x.din)
        <5>1. CASE ~ t.dirty
          <6>1. OnDisk(r.din, x.din)
            BY <4>2, <4>7, <5>1 DEF Sound, Recounted
          <6>2. r.din.blocks \in Int /\ n \in Int /\ x.din.blocks \in Int
            BY <1>1, <4>2, <6>1, Sizes DEF OnDisk, Din, Place
          <6>3. x.din.blocks <= t.din.blocks
            BY <4>5, <4>7, <6>1, <6>2 DEF OnDisk, Recounted
          <6> QED BY <4>7, <6>1, <6>3 DEF OnDisk, Recounted
        <5> QED BY <5>1
      <4>11. Sound(x, t)
        BY <4>1, <4>2, <4>7, <4>8, <4>9, <4>10 DEF Sound, Recounted
      <4>12. SameFile(m, t)
        <5>1. SameFile(m, r)
          BY <3>3 DEF Looked
        <5>2. Pages(t.din, t.data) = Pages(r.din, r.data)
          BY <4>1, <4>7, <4>8 DEF Pages, Recounted
        <5> QED BY <4>7, <5>1, <5>2 DEF SameFile, Recounted
      <4>13. /\ t.ret = "ok" /\ t.din.blocks = n /\ t.ino = r.ino /\ t.alen = m.alen
             /\ t.buf = m.buf
        BY <3>3, <3>5, <4>7 DEF Recounted, Looked
      <4> QED BY <3>1, <4>1, <4>2, <4>4, <4>5, <4>8, <4>11, <4>12, <4>13 DEF Loaded, Ended
    <3> QED BY <3>4, <3>5
  <2> QED BY <2>3, <2>4
<1> QED BY <1>2, <1>3

-----------------------------------------------------------------------------
(* The last block of a file is given back.                                  *)

LastCut(f) == [f EXCEPT !.din.blocks = @ - 1, !.dirty = TRUE]
Cut(f, t) ==
    /\ t \in Midway /\ t.din.size = f.din.size /\ t.din.blocks = f.din.blocks - 1
    /\ t.din.indirect = f.din.indirect /\ t.din.direct = f.din.direct
    /\ t.dirty = TRUE /\ t.data = f.data /\ t.free = f.free /\ t.unused = f.unused
    /\ t.superDirty = f.superDirty /\ t.ret = f.ret /\ t.buf = f.buf

LEMMA CutIs ==
  ASSUME NEW f \in Midway, f.din.blocks # 0, NEW t, t = LastCut(f)
  PROVE  Cut(f, t)
<1> USE DEF LastCut, Cut
<1>1. /\ t.din = [f.din EXCEPT !.blocks = f.din.blocks - 1]
      /\ t = [free |-> f.free, unused |-> f.unused, superDirty |-> f.superDirty,
              data |-> f.data, din |-> t.din, dirty |-> TRUE, ret |-> f.ret,
              ino |-> f.ino, alen |-> f.alen, buf |-> f.buf]
  BY DEF Midway
<1>2. f.din \in Din /\ f.din.blocks - 1 \in Place
  BY Fields, Sizes DEF Place
<1>3. /\ t.din \in Din /\ t.din.size = f.din.size /\ t.din.blocks = f.din.blocks - 1
      /\ t.din.indirect = f.din.indirect /\ t.din.direct = f.din.direct
  BY <1>1, <1>2 DEF Din
<1>4. t \in Midway
  BY <1>1, <1>3, Fields DEF Midway
<1> QED BY <1>1, <1>3, <1>4

LEMMA NamesCut ==
  ASSUME NEW f, NEW t, Cut(f, t)
  PROVE  Names(t.din, t.data) = Names(f.din, f.data)
BY DEF Names, Cut

PutZero(m, e, k) == [m EXCEPT !.data[e][k] = 0]
Zeroed(m, e, k, t) ==
    /\ t \in Midway /\ t.data = [m.data EXCEPT ![e][k] = 0] /\ t.din = m.din
    /\ t.dirty = m.dirty /\ t.free = m.free /\ t.unused = m.unused
    /\ t.superDirty = m.superDirty /\ t.ret = m.ret /\ t.buf = m.buf

LEMMA ZeroPut ==
  ASSUME NEW m \in Midway, NEW e \in Block, NEW k \in 0 .. NENTRY - 1,
         NEW t, t = PutZero(m, e, k)
  PROVE  Zeroed(m, e, k, t)
<1> USE DEF PutZero, Zeroed
<1>1. /\ t.data = [m.data EXCEPT ![e][k] = 0]
      /\ t = [free |-> m.free, unused |-> m.unused, superDirty |-> m.superDirty,
              data |-> t.data, din |-> m.din, dirty |-> m.dirty, ret |-> m.ret,
              ino |-> m.ino, alen |-> m.alen, buf |-> m.buf]
  BY DEF Midway
<1>2. t.data \in Data
  <2>1. m.data \in Data /\ k \in Cell /\ 0 \in Content
    BY Fields, Sizes DEF Content, Number
  <2> QED BY <1>1, <2>1 DEF Data
<1>3. t \in Midway
  BY <1>1, <1>2, Fields DEF Midway
<1> QED BY <1>1, <1>3

\* f is m with the block b of place i given back, its count not yet changed.
Taken(x, m, f, i, b) ==
    /\ f \in Midway /\ f.free = m.free \cup {b} /\ f.unused = m.unused + 1
    /\ f.superDirty = TRUE /\ f.ret = m.ret /\ f.din.blocks = m.din.blocks
    /\ Names(f.din, f.data) = [Names(m.din, m.data) EXCEPT ![i] = 0]
    /\ \A c \in x.others : f.data[c] = m.data[c]
    /\ f.din.size = m.din.size /\ f.buf = m.buf
    /\ Elsewhere(m.data, f.data, m.din.indirect, m.din.indirect)

\* What the file holds is gone from that place, and is there elsewhere.
LEMMA PagesLoss ==
  ASSUME NEW x, NEW m, Sound(x, m), NEW i \in 0 .. Top - 1, NEW t,
         Names(t.din, t.data) = [Names(m.din, m.data) EXCEPT ![i] = 0],
         Elsewhere(m.data, t.data, m.din.indirect, m.din.indirect)
  PROVE  Pages(t.din, t.data) = [Pages(m.din, m.data) EXCEPT ![i] = Blank]
<1>1. PICK N : N = Names(m.din, m.data)
  OBVIOUS
<1>2. PICK M : M = Names(t.din, t.data)
  OBVIOUS
<1>3. /\ Partition(x.others, m.free, N) /\ N \in [Place -> Number]
      /\ N[Top] = m.din.indirect /\ M = [N EXCEPT ![i] = 0]
  BY <1>1, <1>2, SoundFields
<1>4. /\ Top \in Place
      /\ \A j \in 0 .. Top - 1 : j \in Place /\ j # Top
  BY Sizes DEF Place
<1> DEFINE F == [j \in 0 .. Top - 1 |-> IF N[j] = 0 THEN Blank ELSE m.data[N[j]]]
           G == [j \in 0 .. Top - 1 |-> IF M[j] = 0 THEN Blank ELSE t.data[M[j]]]
<1>5. ASSUME NEW j \in 0 .. Top - 1 PROVE G[j] = IF j = i THEN Blank ELSE F[j]
  <2>1. CASE j = i
    BY <1>3, <1>4, <2>1
  <2>2. CASE j # i
    <3>1. M[j] = N[j]
      BY <1>3, <1>4, <2>2
    <3>2. N[j] # 0 => t.data[N[j]] = m.data[N[j]]
      <4>1. N[j] # 0 => N[j] \in Block /\ N[j] # N[Top]
        BY <1>3, <1>4, Sizes DEF Partition
      <4> QED BY <1>3, <4>1 DEF Elsewhere
    <3> QED BY <2>2, <3>1, <3>2
  <2> QED BY <2>1, <2>2
<1>6. Pages(m.din, m.data) = F /\ Pages(t.din, t.data) = G
  BY <1>1, <1>2 DEF Pages
<1>7. F = [j \in 0 .. Top - 1 |-> F[j]] /\ G = [j \in 0 .. Top - 1 |-> G[j]]
  OBVIOUS
<1> HIDE DEF F, G
<1>8. G = [F EXCEPT ![i] = Blank]
  BY <1>5, <1>7, OneChanged
<1> QED BY <1>6, <1>8

LEMMA TakeDirect ==
  ASSUME NEW x, NEW m, Sound(x, m), NEW i \in 0 .. NDIRECT - 1,
         NEW b, b = Names(m.din, m.data)[i], b # 0,
         NEW f, f = sfs_bmap_free_nolock(m, i)
  PROVE  Taken(x, m, f, i, b)
<1>1. m \in Midway /\ m.din.direct[i] = b /\ b \in Block \ m.free /\ m.din \in Din
  <2>1. m \in Midway /\ i \in Place
    BY SoundFields, Sizes DEF Place
  <2>2. m.din.direct[i] = b /\ b \in Number /\ b \notin m.free
    BY <2>1, SoundFields
  <2> QED BY <2>1, <2>2, Fields, Sizes
<1>2. PICK r : r = sfs_block_free(m, b)
  OBVIOUS
<1>3. Freed(m, r, b)
  BY <1>1, <1>2, FreeIs
<1>4. f = PutDirect(r, i, 0)
  <2>1. i < NDIRECT
    BY Sizes
  <2> QED BY <1>1, <1>2, <2>1 DEF sfs_bmap_free_nolock, PutDirect
<1>5. DirectPut(r, i, 0, f)
  <2>1. r \in Midway /\ i \in DirectIndex /\ 0 \in Number
    BY <1>3, Sizes DEF Freed, DirectIndex, Number
  <2> QED BY <1>4, <2>1, DirectSet
<1>6. /\ f.din.blocks = m.din.blocks /\ f.din.size = m.din.size
      /\ Renamed(m.din, m.data, f.din, f.data, i, 0)
  <2>1. f.din = WithDirect(m.din, i, 0) /\ SameEntries(m.din, m.data, f.data)
    BY <1>3, <1>5 DEF Freed, DirectPut, SameEntries
  <2>2. 0 \in Number
    BY Sizes DEF Number
  <2> QED BY <1>1, <2>1, <2>2, NamesDirect
<1> QED BY <1>3, <1>5, <1>6 DEF Taken, Freed, DirectPut, Renamed, Elsewhere

LEMMA TakeEntry ==
  ASSUME NEW x, NEW m, Sound(x, m), NEW k \in 0 .. NENTRY - 1,
         NEW b, b = Names(m.din, m.data)[NDIRECT + k], b # 0,
         NEW f, f = sfs_bmap_free_nolock(m, NDIRECT + k)
  PROVE  Taken(x, m, f, NDIRECT + k, b)
<1> DEFINE e == m.din.indirect
<1>1. /\ m \in Midway /\ e \in Block /\ e # 0 /\ m.data[e][k] = b /\ b \in Block \ m.free
      /\ m.din \in Din /\ m.data \in Data /\ e \notin x.others
  <2>1. m \in Midway /\ NDIRECT + k \in Place /\ NDIRECT + k \in NDIRECT .. Top - 1
        /\ (NDIRECT + k) - NDIRECT = k /\ Top \in Place
    <3>1. m \in Midway
      BY SoundFields
    <3> QED BY <3>1, Sizes DEF Place
  <2>2. /\ b = IF e = 0 THEN 0 ELSE m.data[e][k]
        /\ b \in Number /\ b \notin m.free
    BY <2>1, SoundFields
  <2>3. e \notin x.others
    BY <2>1, SoundFields
  <2> QED BY <2>1, <2>2, <2>3, Fields, Sizes
<1> HIDE DEF e
<1>2. PICK z : z = PutZero(m, e, k)
  OBVIOUS
<1>3. Zeroed(m, e, k, z)
  BY <1>1, <1>2, ZeroPut
<1>4. f = sfs_block_free(z, b)
  <2>1. ~ (NDIRECT + k < NDIRECT) /\ (NDIRECT + k) - NDIRECT = k
    BY Sizes
  <2> QED BY <1>1, <1>2, <2>1 DEF sfs_bmap_free_nolock, PutZero, e
<1>5. Freed(z, f, b)
  <2>1. z \in Midway /\ b \in Block \ z.free
    BY <1>1, <1>3 DEF Zeroed
  <2> QED BY <1>4, <2>1, FreeIs
<1>6. /\ \A c \in Block \ {e} : f.data[c] = m.data[c]
      /\ Names(m.din, f.data) = [Names(m.din, m.data) EXCEPT ![NDIRECT + k] = 0]
  <2>1. 0 \in Number
    BY Sizes DEF Number
  <2>2. f.data = WithEntry(m.data, m.din.indirect, k, 0)
    BY <1>3, <1>5 DEF Zeroed, Freed, WithEntry, e
  <2>3. m.din.indirect = e
    BY DEF e
  <2>4. /\ \A c \in Block \ {m.din.indirect} : f.data[c] = m.data[c]
        /\ Renamed(m.din, m.data, m.din, f.data, NDIRECT + k, 0)
    BY <1>1, <2>1, <2>2, <2>3, NamesEntry
  <2> QED BY <2>3, <2>4 DEF Renamed
<1>7. \A c \in x.others : f.data[c] = m.data[c]
  <2>1. x.others \subseteq Block
    BY SoundFields
  <2> QED BY <1>1, <1>6, <2>1
<1>8. Elsewhere(m.data, f.data, m.din.indirect, m.din.indirect)
  BY <1>6 DEF Elsewhere, e
<1> QED BY <1>3, <1>5, <1>6, <1>7, <1>8 DEF Taken, Zeroed, Freed

LEMMA Truncate ==
  ASSUME NEW x, NEW m, Sound(x, m), m.din.blocks # 0,
         NEW t, t = sfs_bmap_truncate_nolock(m)
  PROVE  /\ Sound(x, t) /\ t.din.blocks = m.din.blocks - 1 /\ t.ret = m.ret
         /\ t.din.size = m.din.size /\ t.buf = m.buf
         /\ m.din.blocks - 1 \in 0 .. Top - 1
         /\ Pages(t.din, t.data) = [Pages(m.din, m.data) EXCEPT ![m.din.blocks - 1] = Blank]
<1>1. PICK i \in 0 .. Top - 1 : i = m.din.blocks - 1 /\ i \in Place
  <2>1. m.din.blocks \in 0 .. Top
    BY Fields DEF Place, Sound
  <2> QED BY <2>1, Sizes DEF Place
<1>2. PICK b : b = Names(m.din, m.data)[i]
  OBVIOUS
<1>3. b # 0
  <2>1. i < m.din.blocks
    BY <1>1, Fields, Sizes DEF Sound, Place
  <2> QED BY <1>1, <1>2, <2>1 DEF Sound, Filled
<1>4. PICK f : f = sfs_bmap_free_nolock(m, i)
  OBVIOUS
<1>5. Taken(x, m, f, i, b)
  <2>1. CASE i < NDIRECT
    <3>1. i \in 0 .. NDIRECT - 1
      BY <2>1, Sizes
    <3> QED BY <1>2, <1>3, <1>4, <3>1, TakeDirect
  <2>2. CASE ~ (i < NDIRECT)
    <3>1. PICK k \in 0 .. NENTRY - 1 : i = NDIRECT + k
      <4>1. i - NDIRECT \in 0 .. NENTRY - 1 /\ i = NDIRECT + (i - NDIRECT)
        BY <2>2, Sizes
      <4> QED BY <4>1
    <3> QED BY <1>2, <1>3, <1>4, <3>1, TakeEntry
  <2> QED BY <2>1, <2>2
<1>6. t = LastCut(f)
  BY <1>1, <1>4 DEF sfs_bmap_truncate_nolock, LastCut
<1>7. Cut(f, t)
  BY <1>5, <1>6, CutIs DEF Taken
<1>8. Loss(x, m, t, i)
  <2>1. Names(t.din, t.data) = Names(f.din, f.data)
    BY <1>7, NamesCut
  <2> QED BY <1>1, <1>2, <1>5, <1>7, <2>1 DEF Loss, Taken, Cut
<1>9. Sound(x, t)
  BY <1>8, Loses
<1>10. Pages(t.din, t.data) = [Pages(m.din, m.data) EXCEPT ![i] = Blank]
  <2>1. Elsewhere(m.data, t.data, m.din.indirect, m.din.indirect)
    BY <1>5, <1>7 DEF Taken, Cut
  <2> QED BY <1>8, <2>1, PagesLoss DEF Loss
<1> QED BY <1>1, <1>5, <1>7, <1>9, <1>10 DEF Taken, Cut

-----------------------------------------------------------------------------
(* Loops over the blocks of a file.                                         *)

LEMMA DivNat ==
  ASSUME NEW a \in Nat, NEW b \in Nat, a <= b
  PROVE  a \div BLK \in Nat /\ b \div BLK \in Nat /\ a \div BLK <= b \div BLK
<1>1. BLK \in Nat \ {0}
  BY Sizes
<1>2. PICK q \in Int : q = a \div BLK
  BY <1>1
<1>3. PICK p \in Int : p = b \div BLK
  BY <1>1
<1>4. PICK r \in Int : r = a % BLK /\ 0 <= r /\ r < BLK /\ a = BLK * q + r
  BY <1>1, <1>2
<1>5. PICK s \in Int : s = b % BLK /\ 0 <= s /\ s < BLK /\ b = BLK * p + s
  BY <1>1, <1>3
<1>6. ASSUME q >= p + 1 PROVE FALSE
  <2>1. BLK * q >= BLK * (p + 1)
    BY <1>1, <1>6
  <2>2. BLK * (p + 1) = BLK * p + BLK
    BY <1>1
  <2> QED BY <1>1, <1>4, <1>5, <2>1, <2>2
<1>7. a \div BLK \in Nat /\ b \div BLK \in Nat
  BY <1>1
<1> QED BY <1>2, <1>3, <1>6, <1>7

\* What a growth leaves of m, when it got as far as n blocks.
Grown(x, m, n, r) ==
    /\ r \in Midway /\ Sound(x, r) /\ r.buf = m.buf /\ SameFile(m, r) /\ Ended(r)
    /\ r.din.blocks >= m.din.blocks
    /\ r.ret = "ok" => r.din.blocks = n

LEMMA Grows ==
  ASSUME NEW x, NEW m, Sound(x, m), m.ret = "ok", NEW tblks \in Nat, m.din.blocks < tblks,
         NEW t, t = GrowTo(m, tblks)
  PROVE  Grown(x, m, tblks, t)
<1>1. PICK first \in Nat : first = m.din.blocks
  BY Fields, Sizes DEF Sound, Place
<1>2. PICK N \in Nat : N = (tblks - 1) + 1 - first
  BY <1>1
<1> DEFINE G(n) == {r \in Midway : Grown(x, m, first + n, r)}
           P == [n \in 0 .. N |-> G(n)]
           Body(r, j) == IF r.ret = "ok" THEN sfs_bmap_load_nolock(r, j) ELSE r
           step == [a \in Midway \X (0 .. N - 1) |-> Body(a[1], first + a[2])]
<1>3. ASSUME NEW n \in 0 .. N - 1, NEW r \in G(n) PROVE Body(r, first + n) \in G(n + 1)
  <2>1. Grown(x, m, first + n, r) /\ r \in Midway
    OBVIOUS
  <2>2. CASE r.ret = "ok"
    <3>1. PICK u : u = sfs_bmap_load_nolock(r, first + n)
      OBVIOUS
    <3>2. Loaded(x, r, first + n, u) /\ r.din.blocks = first + n
      BY <2>1, <2>2, <3>1, Load DEF Grown
    <3>3. /\ u.ret = "ok" => u.din.blocks = (first + n) + 1
          /\ u.din.blocks >= m.din.blocks
      BY <1>1, <3>2 DEF Loaded
    <3>4. Grown(x, m, first + (n + 1), u)
      BY <2>1, <3>2, <3>3 DEF Loaded, Grown, Sound, SameFile
    <3> QED BY <2>2, <3>1, <3>4 DEF Grown
  <2>3. CASE r.ret # "ok"
    BY <2>1, <2>3 DEF Grown
  <2> QED BY <2>2, <2>3
<1>4. ASSUME NEW n \in 0 .. N - 1, NEW r \in G(n) PROVE step[<<r, n>>] = Body(r, first + n)
  OBVIOUS
<1>5. Passes(m, N, P, step)
  <2>1. m \in P[0]
    BY <1>1 DEF Sound, Grown, SameFile, Ended
  <2>2. ASSUME NEW n \in 0 .. N - 1, NEW r \in P[n] PROVE step[<<r, n>>] \in P[n + 1]
    <3>1. r \in G(n) /\ P[n + 1] = G(n + 1)
      OBVIOUS
    <3> HIDE DEF G, step, Body, P
    <3> QED BY <1>3, <1>4, <3>1
  <2> HIDE DEF G, step, P
  <2> QED BY <2>1, <2>2 DEF Passes
<1> DEFINE Loop(after) == [n \in 0 .. N |->
               IF n = 0 THEN m
               ELSE IF after[n - 1].ret = "ok"
                    THEN sfs_bmap_load_nolock(after[n - 1], first + n - 1)
                    ELSE after[n - 1]]
<1>6. \E f : f = Loop(f)
  <2>1. PICK f : Iterates(f, m, N, P, step)
    <3> HIDE DEF P, step
    <3> QED BY <1>5, Iteration
  <2>2. ASSUME NEW n \in 1 .. N PROVE f[n] = Body(f[n - 1], first + n - 1)
    <3>1. n - 1 \in 0 .. N - 1 /\ n - 1 \in 0 .. N /\ (n - 1) + 1 = n
          /\ first + (n - 1) = first + n - 1
      OBVIOUS
    <3>2. f[n - 1] \in G(n - 1) /\ f[n] = step[<<f[n - 1], n - 1>>]
      BY <2>1, <3>1 DEF Iterates
    <3> HIDE DEF G, step, Body
    <3> QED BY <1>4, <3>1, <3>2
  <2>3. f = [n \in 0 .. N |-> f[n]] /\ f[0] = m
    BY <2>1 DEF Iterates
  <2>4. PICK h : h = Loop(f)
    OBVIOUS
  <2>5. h = [n \in 0 .. N |-> h[n]]
    BY <2>4
  <2>6. ASSUME NEW n \in 0 .. N PROVE h[n] = f[n]
    <3>1. CASE n = 0
      BY <2>3, <2>4, <3>1
    <3>2. CASE n # 0
      <4>1. n \in 1 .. N
        BY <3>2
      <4> QED BY <2>2, <2>4, <4>1
    <3> QED BY <3>1, <3>2
  <2>7. h = f
    BY <2>3, <2>5, <2>6
  <2> QED BY <2>4, <2>7
<1>7. PICK g : g = Loop(g) /\ t = g[N]
  BY <1>1, <1>2, <1>6 DEF GrowTo, ForBlocks, Good
<1>8. g[N] \in P[N]
  <2>1. g[0] = m
    BY <1>7
  <2>2. ASSUME NEW n \in 0 .. N - 1, g[n] \in P[n] PROVE g[n + 1] = step[<<g[n], n>>]
    <3>1. g[n] \in G(n) /\ n + 1 \in 0 .. N /\ n + 1 # 0 /\ (n + 1) - 1 = n
          /\ first + (n + 1) - 1 = first + n
      BY <2>2
    <3>2. g[n + 1] = Body(g[n], first + n)
      BY <1>7, <3>1
    <3> HIDE DEF G, step, Body
    <3> QED BY <1>4, <3>1, <3>2
  <2> HIDE DEF P, step
  <2> QED BY <1>5, <2>1, <2>2, IterationEnds
<1>9. first + N = tblks /\ P[N] = G(N)
  BY <1>1, <1>2
<1> QED BY <1>7, <1>8, <1>9

\* The file of d on the disk dt, without what it holds from index n on.
CutTo(d, dt, n) == [i \in 0 .. Top - 1 |-> IF i >= n /\ i < d.blocks THEN Blank
                                           ELSE Pages(d, dt)[i]]

\* What a shrinking leaves of m, when there are n blocks left.
Shrunk(x, m, n, r) ==
    /\ r \in Midway /\ Sound(x, r) /\ r.ret = "ok" /\ r.buf = m.buf
    /\ r.din.blocks = n /\ r.din.size = m.din.size
    /\ Pages(r.din, r.data) = CutTo(m.din, m.data, n)

LEMMA ShrunkNot ==
  ASSUME NEW x, NEW m, Sound(x, m), m.ret = "ok"
  PROVE  Shrunk(x, m, m.din.blocks, m)
<1>1. m \in Midway /\ m.din.blocks \in Int
  BY Fields, Sizes DEF Sound, Place
<1>2. \A i \in 0 .. Top - 1 : ~ (i >= m.din.blocks /\ i < m.din.blocks)
  BY <1>1, Sizes
<1>3. Pages(m.din, m.data) = CutTo(m.din, m.data, m.din.blocks)
  BY <1>2 DEF CutTo, Pages
<1> QED BY <1>1, <1>3 DEF Shrunk

LEMMA ShrunkMore ==
  ASSUME NEW x, NEW m, NEW n \in Nat, n < m.din.blocks, m.din.blocks \in Nat,
         NEW r, Shrunk(x, m, n + 1, r), NEW u, u = sfs_bmap_truncate_nolock(r)
  PROVE  Shrunk(x, m, n, u)
<1>1. /\ Sound(x, u) /\ u.din.blocks = r.din.blocks - 1 /\ u.ret = r.ret
      /\ u.din.size = r.din.size /\ u.buf = r.buf
      /\ r.din.blocks - 1 \in 0 .. Top - 1
      /\ Pages(u.din, u.data) = [Pages(r.din, r.data) EXCEPT ![r.din.blocks - 1] = Blank]
  <2>1. Sound(x, r) /\ r.din.blocks # 0
    BY DEF Shrunk
  <2> QED BY <2>1, Truncate
<1>2. r.din.blocks - 1 = n
  BY DEF Shrunk
<1>3. PICK q : q = Pages(m.din, m.data)
  OBVIOUS
<1>4. Pages(r.din, r.data) = [i \in 0 .. Top - 1 |-> IF i >= n + 1 /\ i < m.din.blocks
                                                    THEN Blank ELSE q[i]]
  BY <1>3 DEF Shrunk, CutTo
<1>5. Pages(u.din, u.data) = [i \in 0 .. Top - 1 |-> IF i >= n /\ i < m.din.blocks
                                                    THEN Blank ELSE q[i]]
  BY <1>1, <1>2, <1>4, Sizes
<1> QED BY <1>1, <1>2, <1>3, <1>5 DEF Shrunk, CutTo, Sound

LEMMA Shrinks ==
  ASSUME NEW x, NEW m, Sound(x, m), m.ret = "ok", NEW tblks \in Nat, tblks <= m.din.blocks,
         NEW t, t = ShrinkTo(m, tblks)
  PROVE  Shrunk(x, m, tblks, t)
<1>1. PICK B \in Nat : B = m.din.blocks
  BY Fields, Sizes DEF Sound, Place
<1>2. PICK N \in Nat : N = (B - 1) + 1 - tblks /\ N <= B
  BY <1>1
<1> DEFINE G(n) == {r \in Midway : Shrunk(x, m, B - n, r)}
           P == [n \in 0 .. N |-> G(n)]
           step == [a \in Midway \X (0 .. N - 1) |-> sfs_bmap_truncate_nolock(a[1])]
<1>3. ASSUME NEW n \in 0 .. N - 1, NEW r \in G(n)
      PROVE  sfs_bmap_truncate_nolock(r) \in G(n + 1)
  <2>1. PICK k \in Nat : k = B - (n + 1) /\ k + 1 = B - n /\ k < B
    BY <1>2
  <2>2. PICK u : u = sfs_bmap_truncate_nolock(r)
    OBVIOUS
  <2>3. Shrunk(x, m, k + 1, r)
    BY <2>1
  <2>4. Shrunk(x, m, k, u)
    BY <1>1, <2>1, <2>2, <2>3, ShrunkMore
  <2> QED BY <2>1, <2>2, <2>4 DEF Shrunk
<1>4. ASSUME NEW n \in 0 .. N - 1, NEW r \in G(n)
      PROVE  step[<<r, n>>] = sfs_bmap_truncate_nolock(r)
  OBVIOUS
<1>5. Passes(m, N, P, step)
  <2>1. m \in P[0]
    <3>1. B - 0 = B /\ P[0] = G(0)
      OBVIOUS
    <3>2. Shrunk(x, m, B, m) /\ m \in Midway
      BY <1>1, ShrunkNot DEF Shrunk
    <3> QED BY <3>1, <3>2
  <2>2. ASSUME NEW n \in 0 .. N - 1, NEW r \in P[n] PROVE step[<<r, n>>] \in P[n + 1]
    <3>1. r \in G(n) /\ P[n + 1] = G(n + 1)
      OBVIOUS
    <3> HIDE DEF G, step, P
    <3> QED BY <1>3, <1>4, <3>1
  <2> HIDE DEF G, step, P
  <2> QED BY <2>1, <2>2 DEF Passes
<1> DEFINE Loop(after) == [n \in 0 .. N |->
               IF n = 0 THEN m
               ELSE IF after[n - 1].ret = "ok"
                    THEN sfs_bmap_truncate_nolock(after[n - 1]) ELSE after[n - 1]]
<1>6. \E f : f = Loop(f)
  <2>1. PICK f : Iterates(f, m, N, P, step)
    <3> HIDE DEF P, step
    <3> QED BY <1>5, Iteration
  <2>2. ASSUME NEW n \in 1 .. N PROVE f[n] = sfs_bmap_truncate_nolock(f[n - 1]) /\ f[n - 1].ret = "ok"
    <3>1. n - 1 \in 0 .. N - 1 /\ n - 1 \in 0 .. N /\ (n - 1) + 1 = n
      OBVIOUS
    <3>2. f[n - 1] \in G(n - 1) /\ f[n] = step[<<f[n - 1], n - 1>>]
      BY <2>1, <3>1 DEF Iterates
    <3>3. f[n - 1].ret = "ok"
      BY <3>2 DEF Shrunk
    <3> HIDE DEF G, step
    <3> QED BY <1>4, <3>1, <3>2, <3>3
  <2>3. f = [n \in 0 .. N |-> f[n]] /\ f[0] = m
    BY <2>1 DEF Iterates
  <2>4. PICK h : h = Loop(f)
    OBVIOUS
  <2>5. h = [n \in 0 .. N |-> h[n]]
    BY <2>4
  <2>6. ASSUME NEW n \in 0 .. N PROVE h[n] = f[n]
    <3>1. CASE n = 0
      BY <2>3, <2>4, <3>1
    <3>2. CASE n # 0
      <4>1. n \in 1 .. N
        BY <3>2
      <4> QED BY <2>2, <2>4, <4>1
    <3> QED BY <3>1, <3>2
  <2>7. h = f
    BY <2>3, <2>5, <2>6
  <2> QED BY <2>4, <2>7
<1>7. PICK g : g = Loop(g) /\ t = g[N]
  BY <1>1, <1>2, <1>6 DEF ShrinkTo, ForBlocks, Good
<1>8. g[N] \in P[N]
  <2>1. g[0] = m
    BY <1>7
  <2>2. ASSUME NEW n \in 0 .. N - 1, g[n] \in P[n] PROVE g[n + 1] = step[<<g[n], n>>]
    <3>1. g[n] \in G(n) /\ n + 1 \in 0 .. N /\ n + 1 # 0 /\ (n + 1) - 1 = n
      BY <2>2
    <3>2. g[n + 1] = sfs_bmap_truncate_nolock(g[n])
      <4>1. g[n].ret = "ok"
        BY <3>1 DEF Shrunk
      <4> QED BY <1>7, <3>1, <4>1
    <3> HIDE DEF G, step
    <3> QED BY <1>4, <3>1, <3>2
  <2> HIDE DEF P, step
  <2> QED BY <1>5, <2>1, <2>2, IterationEnds
<1>9. B - N = tblks /\ P[N] = G(N)
  BY <1>1, <1>2
<1> QED BY <1>7, <1>8, <1>9

\* The block at hand is written.
PutAt(n, T, b) ==
    [n EXCEPT !.data[n.ino] = [i \in Cell |-> IF i \in T THEN b ELSE @[i]],
              !.alen = @ + Cardinality(T)]
Overlay(q, T, b) == [i \in Cell |-> IF i \in T THEN b ELSE q[i]]
PutIs(n, T, b, t) ==
    /\ t \in Midway /\ \A c \in Block \ {n.ino} : t.data[c] = n.data[c]
    /\ t.data[n.ino] = Overlay(n.data[n.ino], T, b)
    /\ t.din = n.din /\ t.dirty = n.dirty /\ t.free = n.free /\ t.unused = n.unused
    /\ t.superDirty = n.superDirty /\ t.ret = n.ret /\ t.buf = n.buf
    /\ t.alen = n.alen + Cardinality(T)

LEMMA PutSet ==
  ASSUME NEW n \in Midway, n.ino \in Block, NEW T, Cardinality(T) \in Nat, NEW b \in Byte,
         NEW t, t = PutAt(n, T, b)
  PROVE  PutIs(n, T, b, t)
<1> USE DEF PutAt, PutIs
<1> DEFINE c == n.data[n.ino]
           w == [i \in Cell |-> IF i \in T THEN b ELSE c[i]]
<1>1. /\ t.data = [n.data EXCEPT ![n.ino] = w]
      /\ t = [free |-> n.free, unused |-> n.unused, superDirty |-> n.superDirty,
              data |-> t.data, din |-> n.din, dirty |-> n.dirty, ret |-> n.ret,
              ino |-> n.ino, alen |-> n.alen + Cardinality(T), buf |-> n.buf]
  BY DEF Midway
<1>2. n.data \in Data
  BY Fields
<1>3. w \in [Cell -> Content]
  <2>1. c \in [Cell -> Content] /\ b \in Content
    BY <1>2 DEF Data, Content
  <2> HIDE DEF c
  <2> QED BY <2>1
<1>0. w = Overlay(n.data[n.ino], T, b)
  BY DEF Overlay
<1> HIDE DEF w
<1>4. t.data \in Data /\ t.data[n.ino] = w /\ \A k \in Block \ {n.ino} : t.data[k] = n.data[k]
  BY <1>1, <1>2, <1>3 DEF Data
<1>5. n.alen + Cardinality(T) \in Nat
  BY Fields
<1>6. t \in Midway
  BY <1>1, <1>4, <1>5, Fields DEF Midway
<1>7. /\ t.din = n.din /\ t.dirty = n.dirty /\ t.free = n.free /\ t.unused = n.unused
      /\ t.superDirty = n.superDirty /\ t.ret = n.ret /\ t.buf = n.buf
      /\ t.alen = n.alen + Cardinality(T)
  BY <1>1
<1> QED BY <1>0, <1>4, <1>6, <1>7

\* A write changes what the file holds at one index.
LEMMA Puts ==
  ASSUME NEW x, NEW m, NEW n, NEW index, Loaded(x, m, index, n), n.ret = "ok",
         NEW T, NEW b, NEW t, PutIs(n, T, b, t)
  PROVE  /\ Sound(x, t)
         /\ Pages(t.din, t.data)
              = [Pages(n.din, n.data) EXCEPT
                    ![index] = Overlay(Pages(n.din, n.data)[index], T, b)]
<1>1. PICK N : N = Names(n.din, n.data)
  OBVIOUS
<1>2. /\ Sound(x, n) /\ index \in Place /\ index # Top /\ Top \in Place
      /\ n.ino \in Block /\ n.ino = N[index] /\ n.ino # 0 /\ index \in 0 .. Top - 1
  BY <1>1, Sizes DEF Loaded, Place
<1>3. /\ n.ino # n.din.indirect /\ n.ino \notin x.others /\ x.others \subseteq Block
      /\ Partition(x.others, n.free, N) /\ N \in [Place -> Number]
  <2>1. /\ Partition(x.others, n.free, N) /\ N[Top] = n.din.indirect
        /\ N[index] \notin x.others /\ x.others \subseteq Block
        /\ N \in [Place -> Number]
    BY <1>1, <1>2, SoundFields
  <2> QED BY <1>2, <2>1 DEF Partition
<1>4. /\ \A c \in x.others : t.data[c] = n.data[c]
      /\ n.din.indirect # 0 => t.data[n.din.indirect] = n.data[n.din.indirect]
  <2>1. n.din.indirect # 0 => n.din.indirect \in Block
    BY <1>2, Fields, Sizes DEF Sound
  <2> QED BY <1>3, <2>1 DEF PutIs
<1>5. Names(t.din, t.data) = N
  <2>1. n.din \in Din
    BY <1>2, Fields DEF Sound
  <2> QED BY <1>1, <1>4, <2>1, NamesSame DEF PutIs
<1>6. Sound(x, t)
  BY <1>1, <1>2, <1>4, <1>5 DEF Sound, PutIs
<1> DEFINE F == [j \in 0 .. Top - 1 |-> IF N[j] = 0 THEN Blank ELSE n.data[N[j]]]
           G == [j \in 0 .. Top - 1 |-> IF N[j] = 0 THEN Blank ELSE t.data[N[j]]]
           w == Overlay(F[index], T, b)
<1>7. ASSUME NEW j \in 0 .. Top - 1 PROVE G[j] = IF j = index THEN w ELSE F[j]
  <2>1. CASE j = index
    BY <1>2, <2>1 DEF PutIs
  <2>2. CASE j # index
    <3>1. j \in Place
      BY Sizes DEF Place
    <3>2. N[j] # 0 => N[j] \in Block /\ N[j] # n.ino
      BY <1>2, <1>3, <2>2, <3>1, Sizes DEF Partition
    <3>3. N[j] # 0 => t.data[N[j]] = n.data[N[j]]
      BY <3>2 DEF PutIs
    <3> QED BY <2>2, <3>3
  <2> QED BY <2>1, <2>2
<1>8. Pages(n.din, n.data) = F /\ Pages(t.din, t.data) = G
  BY <1>1, <1>5 DEF Pages
<1>9. F = [j \in 0 .. Top - 1 |-> F[j]] /\ G = [j \in 0 .. Top - 1 |-> G[j]]
  OBVIOUS
<1>10. w = Overlay(Pages(n.din, n.data)[index], T, b)
  BY <1>8
<1> HIDE DEF F, G, w
<1>11. G = [F EXCEPT ![index] = w]
  BY <1>2, <1>7, <1>9, OneChanged
<1> QED BY <1>6, <1>8, <1>10, <1>11

\* Byte c of index i is at this position of the file.
Offset == 0 .. BLK - 1
At(i, c) == i * BLK + c

LEMMA AtOrder ==
  ASSUME NEW i \in Nat, NEW j \in Nat, NEW c \in Offset
  PROVE  /\ At(i, c) \in Nat /\ j * BLK \in Nat
         /\ i < j => At(i, c) < j * BLK
         /\ j < i => j * BLK + BLK <= At(i, c)
         /\ i = j => j * BLK <= At(i, c) /\ At(i, c) < j * BLK + BLK
<1>1. BLK \in Nat \ {0} /\ c \in Nat /\ c < BLK
  BY Sizes DEF Offset
<1>2. PICK I \in Nat : I = i * BLK
  BY <1>1
<1>3. PICK J \in Nat : J = j * BLK
  BY <1>1
<1>4. i < j => I + BLK <= J
  <2>1. CASE i < j
    <3>1. PICK d \in Nat : j = i + 1 + d
      <4>1. j - i - 1 \in Nat /\ j = i + 1 + (j - i - 1)
        BY <2>1
      <4> QED BY <4>1
    <3>2. J = I + BLK + d * BLK /\ d * BLK \in Nat
      BY <1>1, <1>2, <1>3, <3>1
    <3> QED BY <1>1, <3>2
  <2> QED BY <2>1
<1>5. j < i => J + BLK <= I
  <2>1. CASE j < i
    <3>1. PICK d \in Nat : i = j + 1 + d
      <4>1. i - j - 1 \in Nat /\ i = j + 1 + (i - j - 1)
        BY <2>1
      <4> QED BY <4>1
    <3>2. I = J + BLK + d * BLK /\ d * BLK \in Nat
      BY <1>1, <1>2, <1>3, <3>1
    <3> QED BY <1>1, <3>2
  <2> QED BY <2>1
<1>6. At(i, c) = I + c /\ (i = j => I = J)
  BY <1>2, <1>3 DEF At
<1> QED BY <1>1, <1>3, <1>4, <1>5, <1>6

\* The part of index j that lies between lo and hi.
Spans(j, pos, to, lo, hi) ==
    /\ lo = (IF pos >= j * BLK THEN pos ELSE j * BLK)
    /\ hi = (IF to <= j * BLK + BLK THEN to ELSE j * BLK + BLK)

LEMMA TouchedAt ==
  ASSUME NEW j \in Nat, NEW pos \in Nat, NEW to \in Nat, NEW lo \in Nat, NEW hi \in Nat,
         Spans(j, pos, to, lo, hi), lo < hi, NEW T, T = Touched(j, pos, to)
  PROVE  /\ Cardinality(T) = hi - lo /\ Min(T) = lo - j * BLK
         /\ \A c \in Offset : c \in T <=> lo <= At(j, c) /\ At(j, c) < hi
<1>1. BLK \in Nat \ {0}
  BY Sizes
<1>2. PICK J \in Nat : J = j * BLK
  BY <1>1
<1>3. T = {c \in 0 .. BLK - 1 : pos <= J + c /\ J + c < to}
  BY <1>2 DEF Touched
<1>4. /\ lo = IF pos >= J THEN pos ELSE J
      /\ hi = IF to <= J + BLK THEN to ELSE J + BLK
  BY <1>2 DEF Spans
<1>5. PICK f \in Nat : f = lo - J
  BY <1>4
<1>6. PICK l \in Nat : l = hi - 1 - J
  BY <1>1, <1>4
<1>7. T = f .. l /\ f <= l
  BY <1>1, <1>3, <1>4, <1>5, <1>6
<1>8. Cardinality(T) = l - f + 1
  BY <1>7, FS_Interval
<1>9. Min(T) = f
  <2>1. T \subseteq Nat /\ T # {} /\ f \in T /\ \A k \in T : f <= k
    BY <1>5, <1>6, <1>7
  <2>2. Min(T) \in T /\ \A k \in T : Min(T) <= k
    BY <2>1, MinIs
  <2>3. PICK g : g = Min(T)
    OBVIOUS
  <2> QED BY <2>1, <2>2, <2>3
<1>10. ASSUME NEW c \in Offset PROVE c \in T <=> lo <= At(j, c) /\ At(j, c) < hi
  <2>1. c \in 0 .. BLK - 1 /\ At(j, c) = J + c
    BY <1>2 DEF Offset, At
  <2> QED BY <1>1, <1>3, <1>4, <2>1
<1> QED BY <1>2, <1>5, <1>6, <1>8, <1>9, <1>10

\* How far the blocks before index j bring a call between pos and to.
Reach(j, pos, to) == IF j * BLK <= pos THEN pos ELSE IF j * BLK <= to THEN j * BLK ELSE to

LEMMA ReachNext ==
  ASSUME NEW j \in Nat, NEW pos \in Nat, NEW to \in Nat, pos < to,
         j * BLK < to, pos < j * BLK + BLK
  PROVE  /\ Reach(j, pos, to) \in Nat /\ Reach(j + 1, pos, to) \in Nat
         /\ Reach(j, pos, to) < Reach(j + 1, pos, to)
         /\ Spans(j, pos, to, Reach(j, pos, to), Reach(j + 1, pos, to))
         /\ pos <= Reach(j, pos, to) /\ Reach(j + 1, pos, to) <= to
<1>1. BLK \in Nat \ {0}
  BY Sizes
<1>2. PICK J \in Nat : J = j * BLK
  BY <1>1
<1>3. (j + 1) * BLK = J + BLK
  BY <1>1, <1>2
<1>4. Reach(j, pos, to) = IF J <= pos THEN pos ELSE IF J <= to THEN J ELSE to
  BY <1>2 DEF Reach
<1>5. Reach(j + 1, pos, to) = IF J + BLK <= pos THEN pos ELSE IF J + BLK <= to THEN J + BLK ELSE to
  BY <1>3 DEF Reach
<1> QED BY <1>1, <1>2, <1>4, <1>5 DEF Spans

\* The indexes first to first + N - 1 are those between pos and to.
Covers(first, N, pos, to) ==
    /\ \A n \in 0 .. N - 1 : (first + n) * BLK < to /\ pos < (first + n) * BLK + BLK
    /\ Reach(first, pos, to) = pos /\ Reach(first + N, pos, to) = to

LEMMA CoversAll ==
  ASSUME NEW pos \in Nat, NEW to \in Nat, pos <= to - 1,
         NEW first \in Nat, first = pos \div BLK,
         NEW N \in Nat, N = ((to - 1) \div BLK) + 1 - first
  PROVE  Covers(first, N, pos, to)
<1>1. BLK \in Nat \ {0} /\ to - 1 \in Nat
  BY Sizes
<1>2. PICK last \in Nat : last = (to - 1) \div BLK /\ first + N = last + 1
  BY <1>1, DivNat
<1>3. PICK F \in Nat : F = first * BLK
  BY <1>1
<1>4. PICK L \in Nat : L = last * BLK
  BY <1>1
<1>5. F <= pos /\ pos < F + BLK
  BY <1>1, <1>3
<1>6. L <= to - 1 /\ to - 1 < L + BLK
  BY <1>1, <1>2, <1>4
<1>7. ASSUME NEW n \in 0 .. N - 1
      PROVE  (first + n) * BLK < to /\ pos < (first + n) * BLK + BLK
  <2>1. PICK d \in Nat : last = first + n + d
    <3>1. last - (first + n) \in Nat /\ last = first + n + (last - (first + n))
      BY <1>2
    <3> QED BY <3>1
  <2>2. PICK K \in Nat : K = (first + n) * BLK
    BY <1>1
  <2>3. L = K + d * BLK /\ d * BLK \in Nat
    BY <1>1, <1>4, <2>1, <2>2
  <2>4. K = F + n * BLK /\ n * BLK \in Nat
    BY <1>1, <1>3, <2>2
  <2> QED BY <1>1, <1>5, <1>6, <2>2, <2>3, <2>4
<1>8. Reach(first, pos, to) = pos
  BY <1>3, <1>5 DEF Reach
<1>9. Reach(first + N, pos, to) = to
  <2>1. (first + N) * BLK = L + BLK
    BY <1>1, <1>2, <1>4
  <2> QED BY <1>1, <1>4, <1>6, <2>1 DEF Reach
<1> QED BY <1>7, <1>8, <1>9 DEF Covers

LEMMA TouchedIs ==
  ASSUME NEW index \in Nat, NEW from \in Nat, NEW to \in Nat,
         NEW T, T = Touched(index, from, to)
  PROVE  /\ T \subseteq 0 .. BLK - 1 /\ Cardinality(T) \in Nat
         /\ \A i \in 1 .. Cardinality(T) : Min(T) + i - 1 \in Cell
<1>1. T \subseteq 0 .. BLK - 1
  BY DEF Touched
<1>2. BLK \in Nat \ {0} /\ 0 .. BLK - 1 \subseteq Cell
  BY Sizes
<1>3. IsFiniteSet(0 .. BLK - 1) /\ IsFiniteSet(T) /\ Cardinality(T) \in Nat
  <2>1. IsFiniteSet(0 .. BLK - 1)
    BY <1>2, FS_Interval
  <2>2. IsFiniteSet(T)
    BY <1>1, <2>1, FS_Subset
  <2> QED BY <2>1, <2>2, FS_CardinalityType
<1>4. ASSUME NEW i \in 1 .. Cardinality(T) PROVE Min(T) + i - 1 \in Cell
  <2>1. T # {}
    BY <1>3, FS_EmptySet
  <2>2. PICK a \in T : a = Min(T) /\ \A k \in T : a <= k
    <3>1. T \subseteq Nat
      BY <1>1
    <3> QED BY <2>1, <3>1, MinIs
  <2>3. a \in 0 .. BLK - 1 /\ T \subseteq a .. BLK - 1
    BY <1>1, <1>2, <2>2
  <2>4. IsFiniteSet(a .. BLK - 1) /\ Cardinality(a .. BLK - 1) = BLK - a
    BY <1>2, <2>3, FS_Interval
  <2>5. Cardinality(T) <= BLK - a
    BY <2>3, <2>4, FS_Subset
  <2>6. a + i - 1 \in 0 .. BLK - 1
    BY <1>2, <1>3, <2>3, <2>5
  <2> QED BY <1>2, <2>2, <2>6
<1> QED BY <1>1, <1>3, <1>4

\* From pos up to e the file now holds b, and what it held elsewhere.
Wrote(q, u, pos, e, b) ==
    \A i \in 0 .. Top - 1, c \in Offset :
        u[i][c] = IF pos <= At(i, c) /\ At(i, c) < e THEN b ELSE q[i][c]

\* What a write of b from pos on has left of m when it may have come to e.
Putting(x, m, pos, e, b, r) ==
    /\ r \in Midway /\ Sound(x, r) /\ Ended(r) /\ r.buf = m.buf
    /\ r.din.size = m.din.size /\ r.din.blocks >= m.din.blocks
    /\ Wrote(Pages(m.din, m.data), Pages(r.din, r.data), pos, pos + r.alen, b)
    /\ pos + r.alen <= e
    /\ r.ret = "ok" => pos + r.alen = e
    /\ r.alen > 0 => pos + r.alen <= BLK * r.din.blocks

LEMMA PuttingStarts ==
  ASSUME NEW x, NEW m, Sound(x, m), m.ret = "ok", m.alen = 0, NEW pos \in Nat, NEW b
  PROVE  Putting(x, m, pos, pos, b, m)
<1>1. m \in Midway /\ m.din.blocks \in Int
  BY Fields, Sizes DEF Sound, Place
<1>2. Wrote(Pages(m.din, m.data), Pages(m.din, m.data), pos, pos, b)
  BY AtOrder, Sizes DEF Wrote
<1> QED BY <1>1, <1>2 DEF Putting, Ended

HasIndexes(u) == u = [i \in 0 .. Top - 1 |-> u[i]]
WithPage(u, j, w) == [u EXCEPT ![j] = w]

\* One more block: what it adds to what is written.
LEMMA WroteMore ==
  ASSUME NEW q, NEW u, NEW pos \in Nat, NEW to \in Nat, NEW lo \in Nat, NEW hi \in Nat,
         NEW j \in 0 .. Top - 1, Spans(j, pos, to, lo, hi), lo < hi, NEW b,
         Wrote(q, u, pos, lo, b), HasIndexes(u), NEW T, T = Touched(j, pos, to),
         NEW v, v = WithPage(u, j, Overlay(u[j], T, b))
  PROVE  Wrote(q, v, pos, hi, b)
<1>1. /\ Top \in Nat /\ BLK \in Nat \ {0} /\ j \in Nat /\ Offset \subseteq Cell
      /\ Offset \subseteq Nat
  BY Sizes DEF Offset
<1>2. SUFFICES ASSUME NEW i \in 0 .. Top - 1, NEW c \in Offset
               PROVE  v[i][c] = IF pos <= At(i, c) /\ At(i, c) < hi THEN b ELSE q[i][c]
  BY DEF Wrote
<1>3. u[i][c] = IF pos <= At(i, c) /\ At(i, c) < lo THEN b ELSE q[i][c]
  BY DEF Wrote
<1>4. PICK a \in Nat : a = At(i, c)
  BY <1>1, AtOrder
<1>5. PICK J \in Nat : J = j * BLK
  BY <1>1, AtOrder
<1>6. /\ i < j => a < J
      /\ j < i => J + BLK <= a
  <2>1. i \in Nat
    BY <1>1
  <2>2. /\ i < j => At(i, c) < j * BLK
        /\ j < i => j * BLK + BLK <= At(i, c)
    BY <1>1, <2>1, AtOrder
  <2> QED BY <1>4, <1>5, <2>2
<1>7. /\ lo = IF pos >= J THEN pos ELSE J
      /\ hi = IF to <= J + BLK THEN to ELSE J + BLK
  BY <1>5 DEF Spans
<1>8. CASE i = j
  <2>1. c \in T <=> lo <= a /\ a < hi
    <3>1. c \in T <=> lo <= At(j, c) /\ At(j, c) < hi
      BY <1>1, TouchedAt
    <3> QED BY <1>4, <1>8, <3>1
  <2>2. v[i][c] = IF c \in T THEN b ELSE u[i][c]
    BY <1>1, <1>8 DEF Overlay, WithPage, HasIndexes
  <2> QED BY <1>3, <1>4, <1>5, <1>7, <2>1, <2>2
<1>9. CASE i # j
  <2>1. v[i] = u[i]
    BY <1>9 DEF WithPage, HasIndexes
  <2>2. ~ (lo <= a /\ a < hi)
    BY <1>1, <1>4, <1>5, <1>6, <1>7, <1>9
  <2>3. pos <= a /\ a < hi <=> pos <= a /\ a < lo
    BY <1>4, <1>5, <1>7, <2>2
  <2> QED BY <1>3, <1>4, <2>1, <2>3
<1> QED BY <1>8, <1>9

LEMMA PutsMore ==
  ASSUME NEW x, NEW m, Sound(x, m), NEW pos \in Nat, NEW to \in Nat, pos < to,
         NEW j \in Nat, j * BLK < to, pos < j * BLK + BLK, NEW b \in Byte,
         NEW r, Putting(x, m, pos, Reach(j, pos, to), b, r), r.ret = "ok",
         NEW u, u = PutBlock(r, j, pos, to, b)
  PROVE  Putting(x, m, pos, Reach(j + 1, pos, to), b, u)
<1>1. PICK lo \in Nat : lo = Reach(j, pos, to)
  BY ReachNext
<1>2. PICK hi \in Nat : hi = Reach(j + 1, pos, to)
  BY ReachNext
<1>3. lo < hi /\ Spans(j, pos, to, lo, hi) /\ pos <= lo /\ hi <= to
  BY <1>1, <1>2, ReachNext
<1>4. PICK n : n = sfs_bmap_load_nolock(r, j)
  OBVIOUS
<1>5. /\ Sound(x, r) /\ r \in Midway /\ pos + r.alen = lo /\ r.alen \in Nat
      /\ r.din.blocks \in Nat /\ m.din.blocks \in Nat /\ r.din.blocks >= m.din.blocks
      /\ r.buf = m.buf /\ r.din.size = m.din.size
      /\ Wrote(Pages(m.din, m.data), Pages(r.din, r.data), pos, lo, b)
      /\ r.alen > 0 => lo <= BLK * r.din.blocks
  <2>1. r \in Midway /\ m \in Midway
    BY DEF Putting, Sound
  <2>2. r.alen \in Nat /\ r.din.blocks \in Nat /\ m.din.blocks \in Nat
    BY <2>1, Fields, Sizes DEF Place
  <2> QED BY <1>1, <2>1, <2>2 DEF Putting
<1>6. Loaded(x, r, j, n)
  BY <1>4, <1>5, Load
<1>7. /\ Sound(x, n) /\ n \in Midway /\ n.alen = r.alen /\ n.buf = r.buf
      /\ n.din.size = r.din.size /\ Pages(n.din, n.data) = Pages(r.din, r.data)
      /\ Ended(n)
  BY <1>6 DEF Loaded, SameFile, Sound
<1>8. CASE n.ret # "ok"
  <2>1. u = n
    BY <1>4, <1>8 DEF PutBlock, Then, Good
  <2>2. n.din.blocks = r.din.blocks
    BY <1>6, <1>8 DEF Loaded
  <2>3. pos + n.alen = lo /\ lo <= hi
    BY <1>3, <1>5, <1>7
  <2> QED BY <1>2, <1>5, <1>7, <1>8, <2>1, <2>2, <2>3 DEF Putting
<1>9. CASE n.ret = "ok"
  <2>1. PICK T : T = Touched(j, pos, to)
    OBVIOUS
  <2>2. /\ j \in 0 .. Top - 1 /\ n.ino \in Block
        /\ n.din.blocks = IF j >= r.din.blocks THEN j + 1 ELSE r.din.blocks
    BY <1>6, <1>9 DEF Loaded
  <2>3. Cardinality(T) = hi - lo /\ Cardinality(T) \in Nat
    BY <1>3, <2>1, TouchedAt
  <2>4. u = PutAt(n, T, b)
    BY <1>4, <1>9, <2>1 DEF PutBlock, PutAt, Then, Good
  <2>5. PutIs(n, T, b, u)
    BY <1>7, <2>2, <2>3, <2>4, PutSet
  <2>6. PICK q : q = Pages(n.din, n.data)
    OBVIOUS
  <2>7. Sound(x, u) /\ Pages(u.din, u.data) = [q EXCEPT ![j] = Overlay(q[j], T, b)]
    BY <1>6, <1>9, <2>5, <2>6, Puts
  <2>8. HasIndexes(q) /\ Wrote(Pages(m.din, m.data), q, pos, lo, b)
    BY <1>5, <1>7, <2>6 DEF Pages, HasIndexes
  <2>9. Wrote(Pages(m.din, m.data), Pages(u.din, u.data), pos, hi, b)
    <3>1. PICK o : o = Pages(m.din, m.data)
      OBVIOUS
    <3>2. PICK v : v = Pages(u.din, u.data)
      OBVIOUS
    <3>3. v = WithPage(q, j, Overlay(q[j], T, b)) /\ Wrote(o, q, pos, lo, b)
      BY <2>7, <2>8, <3>1, <3>2 DEF WithPage
    <3>4. Wrote(o, v, pos, hi, b)
      BY <1>3, <2>1, <2>2, <2>8, <3>3, WroteMore
    <3> QED BY <3>1, <3>2, <3>4
  <2>10. /\ u \in Midway /\ u.ret = "ok" /\ u.buf = m.buf /\ u.din.size = m.din.size
         /\ u.din.blocks = n.din.blocks /\ u.alen = n.alen + Cardinality(T)
    BY <1>5, <1>7, <1>9, <2>5 DEF PutIs
  <2>11. pos + u.alen = hi
    BY <1>3, <1>5, <1>7, <2>3, <2>10
  <2>12. u.din.blocks >= m.din.blocks /\ hi <= BLK * u.din.blocks
    <3>1. PICK B \in Nat : B = u.din.blocks /\ B >= m.din.blocks /\ j < B
      BY <1>5, <2>2, <2>10
    <3>2. PICK J \in Nat : J = j * BLK
      BY AtOrder, Sizes DEF Offset
    <3>3. hi <= J + BLK
      BY <1>3, <3>2, Sizes DEF Spans
    <3>4. J + BLK <= BLK * B
      <4>1. 0 \in Offset /\ BLK \in Nat
        BY Sizes DEF Offset
      <4>2. J + BLK <= At(B, 0)
        BY <3>1, <3>2, <4>1, AtOrder
      <4>3. At(B, 0) = BLK * B
        BY <3>1, <4>1 DEF At
      <4> QED BY <4>2, <4>3
    <3>5. PICK K \in Nat : K = BLK * B
      BY <3>1, Sizes
    <3> QED BY <3>1, <3>2, <3>3, <3>4, <3>5, Sizes
  <2> QED BY <1>2, <2>7, <2>9, <2>10, <2>11, <2>12 DEF Putting, Ended
<1> QED BY <1>8, <1>9

LEMMA Writes ==
  ASSUME NEW x, NEW m, Sound(x, m), m.ret = "ok", m.alen = 0,
         NEW pos \in Nat, NEW to \in Nat, pos <= to - 1,
         NEW b \in Byte, NEW t, t = WriteBlocks(m, pos, to, b)
  PROVE  Putting(x, m, pos, to, b, t)
<1> DEFINE first == pos \div BLK
           N == ((to - 1) \div BLK) + 1 - first
<1>1. first \in Nat /\ N \in Nat
  BY DivNat
<1>2. Covers(first, N, pos, to) /\ pos < to
  BY <1>1, CoversAll
<1> HIDE DEF first, N
<1> USE <1>1
<1> DEFINE G(n) == {r \in Midway : Putting(x, m, pos, Reach(first + n, pos, to), b, r)}
           P == [n \in 0 .. N |-> G(n)]
           Body(r, j) == IF r.ret = "ok" THEN PutBlock(r, j, pos, to, b) ELSE r
           step == [a \in Midway \X (0 .. N - 1) |-> Body(a[1], first + a[2])]
<1>3. ASSUME NEW n \in 0 .. N - 1, NEW r \in G(n) PROVE Body(r, first + n) \in G(n + 1)
  <2>1. PICK j \in Nat : j = first + n /\ first + (n + 1) = j + 1
    OBVIOUS
  <2>2. j * BLK < to /\ pos < j * BLK + BLK
    BY <1>2, <2>1 DEF Covers
  <2>3. Putting(x, m, pos, Reach(j, pos, to), b, r) /\ r \in Midway
    BY <2>1
  <2>4. CASE r.ret = "ok"
    <3>1. PICK u : u = PutBlock(r, j, pos, to, b)
      OBVIOUS
    <3>2. Putting(x, m, pos, Reach(j + 1, pos, to), b, u)
      BY <1>2, <2>2, <2>3, <2>4, <3>1, PutsMore
    <3>3. u \in Midway
      BY <3>2 DEF Putting
    <3> QED BY <2>1, <2>4, <3>1, <3>2, <3>3
  <2>5. CASE r.ret # "ok"
    <3>1. PICK lo \in Nat : lo = Reach(j, pos, to)
      BY <1>2, <2>2, ReachNext
    <3>2. PICK hi \in Nat : hi = Reach(j + 1, pos, to) /\ lo <= hi
      BY <1>2, <2>2, <3>1, ReachNext
    <3>3. r.alen \in Nat
      BY <2>3, Fields
    <3>4. Putting(x, m, pos, Reach(j + 1, pos, to), b, r)
      BY <2>3, <2>5, <3>1, <3>2, <3>3 DEF Putting
    <3> QED BY <2>1, <2>3, <2>5, <3>4
  <2> QED BY <2>4, <2>5
<1>4. ASSUME NEW n \in 0 .. N - 1, NEW r \in G(n) PROVE step[<<r, n>>] = Body(r, first + n)
  OBVIOUS
<1>5. Passes(m, N, P, step)
  <2>1. m \in P[0]
    <3>1. first + 0 = first /\ P[0] = G(0) /\ Reach(first, pos, to) = pos
      BY <1>2 DEF Covers
    <3>2. Putting(x, m, pos, pos, b, m)
      BY PuttingStarts
    <3> QED BY <3>1, <3>2 DEF Sound
  <2>2. ASSUME NEW n \in 0 .. N - 1, NEW r \in P[n] PROVE step[<<r, n>>] \in P[n + 1]
    <3>1. r \in G(n) /\ P[n + 1] = G(n + 1)
      OBVIOUS
    <3> HIDE DEF G, step, Body, P
    <3> QED BY <1>3, <1>4, <3>1
  <2> HIDE DEF G, step, P
  <2> QED BY <2>1, <2>2 DEF Passes
<1> DEFINE Loop(after) == [n \in 0 .. N |->
               IF n = 0 THEN m
               ELSE IF after[n - 1].ret = "ok"
                    THEN PutBlock(after[n - 1], first + n - 1, pos, to, b)
                    ELSE after[n - 1]]
<1>6. \E f : f = Loop(f)
  <2>1. PICK f : Iterates(f, m, N, P, step)
    <3> HIDE DEF P, step
    <3> QED BY <1>5, Iteration
  <2>2. ASSUME NEW n \in 1 .. N PROVE f[n] = Body(f[n - 1], first + n - 1)
    <3>1. n - 1 \in 0 .. N - 1 /\ n - 1 \in 0 .. N /\ (n - 1) + 1 = n
          /\ first + (n - 1) = first + n - 1
      OBVIOUS
    <3>2. f[n - 1] \in P[n - 1] /\ f[n] = step[<<f[n - 1], n - 1>>]
      <4> HIDE DEF P, step
      <4> QED BY <2>1, <3>1 DEF Iterates
    <3>3. f[n - 1] \in G(n - 1)
      BY <3>1, <3>2
    <3> HIDE DEF G, step, Body
    <3> QED BY <1>4, <3>1, <3>2, <3>3
  <2>3. f = [n \in 0 .. N |-> f[n]] /\ f[0] = m
    BY <2>1 DEF Iterates
  <2>4. PICK h : h = Loop(f)
    OBVIOUS
  <2>5. h = [n \in 0 .. N |-> h[n]]
    BY <2>4
  <2>6. ASSUME NEW n \in 0 .. N PROVE h[n] = f[n]
    <3>1. CASE n = 0
      BY <2>3, <2>4, <3>1
    <3>2. CASE n # 0
      <4>1. n \in 1 .. N
        BY <3>2
      <4> QED BY <2>2, <2>4, <4>1
    <3> QED BY <3>1, <3>2
  <2>7. h = f
    BY <2>3, <2>5, <2>6
  <2> QED BY <2>4, <2>7
<1>7. PICK g : g = Loop(g) /\ t = g[N]
  BY <1>6 DEF first, N, WriteBlocks, ForBlocks, Good
<1>8. g[N] \in P[N]
  <2>1. g[0] = m
    BY <1>7
  <2>2. ASSUME NEW n \in 0 .. N - 1, g[n] \in P[n] PROVE g[n + 1] = step[<<g[n], n>>]
    <3>1. g[n] \in G(n) /\ n + 1 \in 0 .. N /\ n + 1 # 0 /\ (n + 1) - 1 = n
          /\ first + (n + 1) - 1 = first + n
      BY <2>2
    <3>2. g[n + 1] = Body(g[n], first + n)
      BY <1>7, <3>1
    <3> HIDE DEF G, step, Body
    <3> QED BY <1>4, <3>1, <3>2
  <2> HIDE DEF P, step
  <2> QED BY <1>5, <2>1, <2>2, IterationEnds
<1>9. Reach(first + N, pos, to) = to /\ P[N] = G(N)
  BY <1>2 DEF Covers
<1> QED BY <1>7, <1>8, <1>9

\* The block at hand is read.
TakeAt(n, T) ==
    [n EXCEPT !.buf = @ \o [i \in 1 .. Cardinality(T) |-> n.data[n.ino][Min(T) + i - 1]],
              !.alen = @ + Cardinality(T)]

Part(q, T) == [i \in 1 .. Cardinality(T) |-> q[Min(T) + i - 1]]
TakeIs(n, T, t) ==
    /\ t \in Midway /\ SameFs(n, t) /\ t.ret = n.ret /\ t.alen = n.alen + Cardinality(T)
    /\ t.buf = n.buf \o Part(n.data[n.ino], T)

LEMMA TakeSet ==
  ASSUME NEW n \in Midway, n.ino \in Block, NEW T, Cardinality(T) \in Nat,
         \A i \in 1 .. Cardinality(T) : Min(T) + i - 1 \in Cell,
         NEW t, t = TakeAt(n, T)
  PROVE  TakeIs(n, T, t)
<1> DEFINE c == n.data[n.ino]
           s == [i \in 1 .. Cardinality(T) |-> c[Min(T) + i - 1]]
<1>1. t = [free |-> n.free, unused |-> n.unused, superDirty |-> n.superDirty,
           data |-> n.data, din |-> n.din, dirty |-> n.dirty, ret |-> n.ret,
           ino |-> n.ino, alen |-> n.alen + Cardinality(T), buf |-> n.buf \o s]
  BY DEF Midway, TakeAt
<1>2. s \in Seq(Content)
  <2>1. c \in [Cell -> Content]
    BY Fields DEF Data
  <2> HIDE DEF c
  <2>2. s \in [1 .. Cardinality(T) -> Content]
    BY <2>1
  <2> HIDE DEF s
  <2> QED BY <2>2
<1>0. s = Part(n.data[n.ino], T)
  BY DEF Part
<1> HIDE DEF s
<1>3. n.buf \o s \in Seq(Content)
  BY <1>2, Fields
<1>4. n.alen + Cardinality(T) \in Nat
  BY Fields
<1>5. t \in Midway
  BY <1>1, <1>3, <1>4, Fields DEF Midway
<1>6. /\ SameFs(n, t) /\ t.ret = n.ret /\ t.alen = n.alen + Cardinality(T)
      /\ t.buf = n.buf \o s
  BY <1>1 DEF SameFs
<1> QED BY <1>0, <1>5, <1>6 DEF TakeIs

\* buf is what is held from pos up to e.
Holds(q, buf, pos, e) ==
    /\ Len(buf) = e - pos
    /\ \A i \in 0 .. Top - 1, c \in Offset :
        pos <= At(i, c) /\ At(i, c) < e => buf[At(i, c) - pos + 1] = q[i][c]

\* A call that has moved no byte yet.
Fresh(m) == m.ret = "ok" /\ m.alen = 0 /\ m.buf = <<>>

\* What a read from pos on has left of m, and read, when it has come to e.
Taking(x, m, pos, to, e, r) ==
    /\ r \in Midway /\ Sound(x, r) /\ SameFile(m, r) /\ r.din.blocks >= m.din.blocks
    /\ to <= BLK * m.din.blocks => /\ r.ret = "ok" /\ pos + r.alen = e
                                   /\ Holds(Pages(m.din, m.data), r.buf, pos, e)

LEMMA TakingStarts ==
  ASSUME NEW x, NEW m, Sound(x, m), Fresh(m), NEW pos \in Nat, NEW to
  PROVE  Taking(x, m, pos, to, pos, m)
<1>1. m \in Midway /\ m.din.blocks \in Int
  BY Fields, Sizes DEF Sound, Place
<1>2. Holds(Pages(m.din, m.data), <<>>, pos, pos)
  <2>1. Top \in Nat
    BY Sizes
  <2>2. \A i \in 0 .. Top - 1, c \in Offset : ~ (pos <= At(i, c) /\ At(i, c) < pos)
    BY <2>1, AtOrder
  <2> QED BY <2>2 DEF Holds
<1> QED BY <1>1, <1>2 DEF Taking, SameFile, Fresh

\* One more block: what it adds to what is read.
LEMMA HoldsMore ==
  ASSUME NEW q, NEW pos \in Nat, NEW to \in Nat, NEW lo \in Nat, NEW hi \in Nat,
         NEW j \in 0 .. Top - 1, Spans(j, pos, to, lo, hi), lo < hi,
         NEW buf \in Seq(Content), Holds(q, buf, pos, lo), NEW T, T = Touched(j, pos, to),
         NEW s, s = Part(q[j], T), s \in Seq(Content)
  PROVE  Holds(q, buf \o s, pos, hi)
<1>1. /\ Top \in Nat /\ BLK \in Nat \ {0} /\ j \in Nat /\ Offset \subseteq Nat
  BY Sizes DEF Offset
<1>2. PICK J \in Nat : J = j * BLK
  BY <1>1, AtOrder
<1>3. /\ lo = IF pos >= J THEN pos ELSE J
      /\ hi = IF to <= J + BLK THEN to ELSE J + BLK
  BY <1>2 DEF Spans
<1>4. Cardinality(T) = hi - lo /\ Min(T) = lo - J
  <2>1. Cardinality(T) = hi - lo /\ Min(T) = lo - j * BLK
    BY <1>1, TouchedAt
  <2> QED BY <1>2, <2>1
<1>5. PICK l \in Nat : l = hi - lo
  BY <1>1
<1>6. PICK f \in Nat : f = lo - J
  BY <1>3
<1>7. s = [i \in 1 .. l |-> q[j][f + i - 1]]
  BY <1>4, <1>5, <1>6 DEF Part
<1>8. Len(s) = l
  BY <1>7
<1>9. PICK k \in Nat : k = lo - pos /\ Len(buf) = k
  BY <1>3 DEF Holds
<1>10. PICK w : w = buf \o s
  OBVIOUS
<1>11. Len(w) = hi - pos
  <2>1. Len(w) = Len(buf) + Len(s)
    BY <1>10
  <2> QED BY <1>5, <1>8, <1>9, <2>1
<1>12. \A a \in 1 .. k : w[a] = buf[a]
  BY <1>9, <1>10
<1>13. \A a \in 1 .. l : w[k + a] = q[j][f + a - 1]
  <2>1. \A a \in 1 .. l : w[k + a] = s[a]
    BY <1>8, <1>9, <1>10
  <2> QED BY <1>7, <2>1
<1>14. ASSUME NEW i \in 0 .. Top - 1, NEW c \in Offset, pos <= At(i, c), At(i, c) < hi
       PROVE  w[At(i, c) - pos + 1] = q[i][c]
  <2>1. PICK a \in Nat : a = At(i, c)
    <3>1. i \in Nat
      BY <1>1
    <3> QED BY <1>1, <3>1, AtOrder
  <2>2. CASE a < lo
    <3>1. a - pos + 1 \in 1 .. k
      BY <1>9, <1>14, <2>1, <2>2
    <3>2. buf[a - pos + 1] = q[i][c]
      BY <1>14, <2>1, <2>2 DEF Holds
    <3> QED BY <1>12, <2>1, <3>1, <3>2
  <2>3. CASE ~ (a < lo)
    <3>1. i = j
      <4>1. i \in Nat
        BY <1>1
      <4>2. /\ i < j => At(i, c) < j * BLK
            /\ j < i => j * BLK + BLK <= At(i, c)
        BY <1>1, <4>1, AtOrder
      <4> QED BY <1>1, <1>2, <1>3, <1>14, <2>1, <2>3, <4>1, <4>2
    <3>2. a = J + c /\ c \in Nat
      BY <1>1, <1>2, <2>1, <3>1 DEF At
    <3>3. PICK d \in Nat : d = a - lo + 1 /\ d \in 1 .. l
      BY <1>5, <1>14, <2>1, <2>3
    <3>4. a - pos + 1 = k + d /\ f + d - 1 = c
      BY <1>6, <1>9, <3>2, <3>3
    <3> QED BY <1>13, <2>1, <3>1, <3>3, <3>4
  <2> QED BY <2>2, <2>3
<1> QED BY <1>10, <1>11, <1>14 DEF Holds

LEMMA TakesMore ==
  ASSUME NEW x, NEW m, Sound(x, m), NEW pos \in Nat, NEW to \in Nat, pos < to,
         NEW j \in Nat, j * BLK < to, pos < j * BLK + BLK,
         NEW r, Taking(x, m, pos, to, Reach(j, pos, to), r), r.ret = "ok",
         NEW u, u = TakeBlock(r, j, pos, to)
  PROVE  Taking(x, m, pos, to, Reach(j + 1, pos, to), u)
<1>1. PICK lo \in Nat : lo = Reach(j, pos, to)
  BY ReachNext
<1>2. PICK hi \in Nat : hi = Reach(j + 1, pos, to)
  BY ReachNext
<1>3. lo < hi /\ Spans(j, pos, to, lo, hi) /\ pos <= lo /\ hi <= to
  BY <1>1, <1>2, ReachNext
<1>4. PICK n : n = sfs_bmap_load_nolock(r, j)
  OBVIOUS
<1>5. /\ Sound(x, r) /\ r \in Midway /\ r.alen \in Nat /\ r.buf \in Seq(Content)
      /\ r.din.blocks \in Nat /\ m.din.blocks \in Nat /\ r.din.blocks >= m.din.blocks
      /\ SameFile(m, r)
  <2>1. r \in Midway /\ m \in Midway
    BY DEF Taking, Sound
  <2>2. /\ r.alen \in Nat /\ r.din.blocks \in Nat /\ m.din.blocks \in Nat
        /\ r.buf \in Seq(Content)
    BY <2>1, Fields, Sizes DEF Place
  <2> QED BY <2>1, <2>2 DEF Taking
<1>6. Loaded(x, r, j, n)
  BY <1>4, <1>5, Load
<1>7. /\ Sound(x, n) /\ n \in Midway /\ n.alen = r.alen /\ n.buf = r.buf
      /\ SameFile(m, n)
  BY <1>5, <1>6 DEF Loaded, SameFile, Sound
<1>8. n.din.blocks \in Nat /\ n.din.blocks >= m.din.blocks
  BY <1>5, <1>6 DEF Loaded
<1>9. CASE n.ret # "ok"
  <2>1. u = n
    BY <1>4, <1>9 DEF TakeBlock, Then, Good
  <2>2. ~ (j < r.din.blocks)
    BY <1>6, <1>9 DEF Loaded
  <2>3. ~ (to <= BLK * m.din.blocks)
    <3>1. PICK B \in Nat : B = m.din.blocks /\ B <= j
      BY <1>5, <2>2
    <3>2. PICK J \in Nat : J = j * BLK
      BY AtOrder, Sizes DEF Offset
    <3>3. BLK * B <= J
      <4>1. 0 \in Offset /\ BLK \in Nat
        BY Sizes DEF Offset
      <4>2. B < j => At(B, 0) < J
        BY <3>1, <3>2, <4>1, AtOrder
      <4>3. At(B, 0) = BLK * B /\ At(B, 0) = B * BLK /\ At(B, 0) \in Nat
        BY <3>1, <4>1 DEF At
      <4>4. CASE B < j
        BY <4>2, <4>3, <4>4
      <4>5. CASE B = j
        BY <3>2, <4>3, <4>5
      <4> QED BY <3>1, <4>4, <4>5
    <3>4. PICK K \in Nat : K = BLK * B
      BY <3>1, Sizes
    <3> QED BY <3>1, <3>2, <3>3, <3>4
  <2> QED BY <1>7, <1>8, <2>1, <2>3 DEF Taking
<1>10. CASE n.ret = "ok"
  <2>1. PICK T : T = Touched(j, pos, to)
    OBVIOUS
  <2>2. j \in 0 .. Top - 1 /\ n.ino \in Block /\ n.ino = Names(n.din, n.data)[j]
    BY <1>6, <1>10 DEF Loaded
  <2>3. /\ Cardinality(T) = hi - lo /\ Cardinality(T) \in Nat
        /\ \A i \in 1 .. Cardinality(T) : Min(T) + i - 1 \in Cell
    <3>1. Cardinality(T) = hi - lo
      BY <1>3, <2>1, TouchedAt
    <3> QED BY <2>1, <3>1, TouchedIs
  <2>4. u = TakeAt(n, T)
    BY <1>4, <1>10, <2>1 DEF TakeBlock, TakeAt, Then, Good
  <2>5. TakeIs(n, T, u)
    BY <1>7, <2>2, <2>3, <2>4, TakeSet
  <2>6. Sound(x, u) /\ u \in Midway /\ u.din = n.din /\ SameFile(m, u) /\ u.ret = "ok"
    BY <1>7, <1>10, <2>5, SoundSame DEF TakeIs, SameFs, SameFile
  <2>7. PICK q : q = Pages(m.din, m.data)
    OBVIOUS
  <2>8. n.data[n.ino] = q[j]
    <3>1. q = Pages(n.din, n.data)
      BY <1>7, <2>7 DEF SameFile
    <3>2. n.ino # 0
      BY <2>2, Sizes
    <3> QED BY <2>2, <3>1, <3>2 DEF Pages
  <2>9. PICK s : s = Part(q[j], T)
    OBVIOUS
  <2>10. s \in Seq(Content) /\ u.buf = n.buf \o s
    <3>1. q[j] \in [Cell -> Content]
      BY <1>7, <2>2, <2>8, Fields DEF Data
    <3>2. s \in [1 .. Cardinality(T) -> Content]
      BY <2>3, <2>9, <3>1 DEF Part
    <3>3. s \in Seq(Content)
      BY <2>3, <3>2
    <3> QED BY <2>5, <2>8, <2>9, <3>3 DEF TakeIs
  <2>11. ASSUME to <= BLK * m.din.blocks
         PROVE  pos + u.alen = hi /\ Holds(q, u.buf, pos, hi)
    <3>1. pos + r.alen = lo /\ Holds(q, r.buf, pos, lo)
      BY <1>1, <2>7, <2>11 DEF Taking
    <3>2. pos + u.alen = hi
      BY <1>3, <1>5, <1>7, <2>3, <2>5, <3>1 DEF TakeIs
    <3>3. Holds(q, r.buf \o s, pos, hi)
      BY <1>3, <1>5, <2>1, <2>2, <2>9, <2>10, <3>1, HoldsMore
    <3> QED BY <1>7, <2>10, <3>2, <3>3
  <2> QED BY <1>2, <1>8, <2>6, <2>7, <2>11 DEF Taking
<1> QED BY <1>9, <1>10

LEMMA Reads ==
  ASSUME NEW x, NEW m, Sound(x, m), Fresh(m),
         NEW pos \in Nat, NEW to \in Nat, pos <= to - 1,
         NEW t, t = ReadBlocks(m, pos, to)
  PROVE  Taking(x, m, pos, to, to, t)
<1> DEFINE first == pos \div BLK
           N == ((to - 1) \div BLK) + 1 - first
<1>1. first \in Nat /\ N \in Nat
  BY DivNat
<1>2. Covers(first, N, pos, to) /\ pos < to
  BY <1>1, CoversAll
<1> HIDE DEF first, N
<1> USE <1>1
<1> DEFINE G(n) == {r \in Midway : Taking(x, m, pos, to, Reach(first + n, pos, to), r)}
           P == [n \in 0 .. N |-> G(n)]
           Body(r, j) == IF r.ret = "ok" THEN TakeBlock(r, j, pos, to) ELSE r
           step == [a \in Midway \X (0 .. N - 1) |-> Body(a[1], first + a[2])]
<1>3. ASSUME NEW n \in 0 .. N - 1, NEW r \in G(n) PROVE Body(r, first + n) \in G(n + 1)
  <2>1. PICK j \in Nat : j = first + n /\ first + (n + 1) = j + 1
    OBVIOUS
  <2>2. j * BLK < to /\ pos < j * BLK + BLK
    BY <1>2, <2>1 DEF Covers
  <2>3. Taking(x, m, pos, to, Reach(j, pos, to), r) /\ r \in Midway
    BY <2>1
  <2>4. CASE r.ret = "ok"
    <3>1. PICK u : u = TakeBlock(r, j, pos, to)
      OBVIOUS
    <3>2. Taking(x, m, pos, to, Reach(j + 1, pos, to), u)
      BY <1>2, <2>2, <2>3, <2>4, <3>1, TakesMore
    <3>3. u \in Midway
      BY <3>2 DEF Taking
    <3> QED BY <2>1, <2>4, <3>1, <3>2, <3>3
  <2>5. CASE r.ret # "ok"
    <3>1. Taking(x, m, pos, to, Reach(j + 1, pos, to), r)
      BY <2>3, <2>5 DEF Taking
    <3> QED BY <2>1, <2>3, <2>5, <3>1
  <2> QED BY <2>4, <2>5
<1>4. ASSUME NEW n \in 0 .. N - 1, NEW r \in G(n) PROVE step[<<r, n>>] = Body(r, first + n)
  OBVIOUS
<1>5. Passes(m, N, P, step)
  <2>1. m \in P[0]
    <3>1. first + 0 = first /\ P[0] = G(0) /\ Reach(first, pos, to) = pos
      BY <1>2 DEF Covers
    <3>2. Taking(x, m, pos, to, pos, m)
      BY TakingStarts
    <3> QED BY <3>1, <3>2 DEF Sound
  <2>2. ASSUME NEW n \in 0 .. N - 1, NEW r \in P[n] PROVE step[<<r, n>>] \in P[n + 1]
    <3>1. r \in G(n) /\ P[n + 1] = G(n + 1)
      OBVIOUS
    <3> HIDE DEF G, step, Body, P
    <3> QED BY <1>3, <1>4, <3>1
  <2> HIDE DEF G, step, P
  <2> QED BY <2>1, <2>2 DEF Passes
<1> DEFINE Loop(after) == [n \in 0 .. N |->
               IF n = 0 THEN m
               ELSE IF after[n - 1].ret = "ok"
                    THEN TakeBlock(after[n - 1], first + n - 1, pos, to)
                    ELSE after[n - 1]]
<1>6. \E f : f = Loop(f)
  <2>1. PICK f : Iterates(f, m, N, P, step)
    <3> HIDE DEF P, step
    <3> QED BY <1>5, Iteration
  <2>2. ASSUME NEW n \in 1 .. N PROVE f[n] = Body(f[n - 1], first + n - 1)
    <3>1. n - 1 \in 0 .. N - 1 /\ n - 1 \in 0 .. N /\ (n - 1) + 1 = n
          /\ first + (n - 1) = first + n - 1
      OBVIOUS
    <3>2. f[n - 1] \in P[n - 1] /\ f[n] = step[<<f[n - 1], n - 1>>]
      <4> HIDE DEF P, step
      <4> QED BY <2>1, <3>1 DEF Iterates
    <3>3. f[n - 1] \in G(n - 1)
      BY <3>1, <3>2
    <3> HIDE DEF G, step, Body
    <3> QED BY <1>4, <3>1, <3>2, <3>3
  <2>3. f = [n \in 0 .. N |-> f[n]] /\ f[0] = m
    BY <2>1 DEF Iterates
  <2>4. PICK h : h = Loop(f)
    OBVIOUS
  <2>5. h = [n \in 0 .. N |-> h[n]]
    BY <2>4
  <2>6. ASSUME NEW n \in 0 .. N PROVE h[n] = f[n]
    <3>1. CASE n = 0
      BY <2>3, <2>4, <3>1
    <3>2. CASE n # 0
      <4>1. n \in 1 .. N
        BY <3>2
      <4> QED BY <2>2, <2>4, <4>1
    <3> QED BY <3>1, <3>2
  <2>7. h = f
    BY <2>3, <2>5, <2>6
  <2> QED BY <2>4, <2>7
<1>7. PICK g : g = Loop(g) /\ t = g[N]
  BY <1>6 DEF first, N, ReadBlocks, ForBlocks, Good
<1>8. g[N] \in P[N]
  <2>1. g[0] = m
    BY <1>7
  <2>2. ASSUME NEW n \in 0 .. N - 1, g[n] \in P[n] PROVE g[n + 1] = step[<<g[n], n>>]
    <3>1. g[n] \in G(n) /\ n + 1 \in 0 .. N /\ n + 1 # 0 /\ (n + 1) - 1 = n
          /\ first + (n + 1) - 1 = first + n
      BY <2>2
    <3>2. g[n + 1] = Body(g[n], first + n)
      BY <1>7, <3>1
    <3> HIDE DEF G, step, Body
    <3> QED BY <1>4, <3>1, <3>2
  <2> HIDE DEF P, step
  <2> QED BY <1>5, <2>1, <2>2, IterationEnds
<1>9. Reach(first + N, pos, to) = to /\ P[N] = G(N)
  BY <1>2 DEF Covers
<1> QED BY <1>7, <1>8, <1>9

-----------------------------------------------------------------------------
(* Operations on one file.                                                  *)

\* The size of a file is changed, and its inode marked.
Resized(r, n, dy) == [r EXCEPT !.din.size = n, !.dirty = dy]

ResizedIs(r, n, t) ==
    /\ t.din.size = n /\ t.din.blocks = r.din.blocks
    /\ Pages(t.din, t.data) = Pages(r.din, r.data)
    /\ t.free = r.free /\ t.ret = r.ret /\ t.alen = r.alen /\ t.buf = r.buf

LEMMA SizeSet ==
  ASSUME NEW x, NEW r, Sound(x, r), NEW n \in Nat, NEW dy \in BOOLEAN,
         ~ dy => n = r.din.size /\ ~ r.dirty, NEW t, t = Resized(r, n, dy)
  PROVE  Sound(x, t) /\ ResizedIs(r, n, t)
<1> USE DEF Resized
<1>0. r \in Midway
  BY DEF Sound
<1>1. /\ t.din = [r.din EXCEPT !.size = n]
      /\ t = [free |-> r.free, unused |-> r.unused, superDirty |-> r.superDirty,
              data |-> r.data, din |-> t.din, dirty |-> dy, ret |-> r.ret,
              ino |-> r.ino, alen |-> r.alen, buf |-> r.buf]
  BY <1>0 DEF Midway
<1>2. r.din \in Din
  BY <1>0, Fields
<1>3. /\ t.din \in Din /\ t.din.size = n /\ t.din.blocks = r.din.blocks
      /\ t.din.indirect = r.din.indirect /\ t.din.direct = r.din.direct
  BY <1>1, <1>2 DEF Din
<1>4. t \in Midway
  BY <1>0, <1>1, <1>3, Fields DEF Midway
<1>5. /\ t.free = r.free /\ t.unused = r.unused /\ t.superDirty = r.superDirty
      /\ t.data = r.data /\ t.dirty = dy
  BY <1>1
<1>6. Names(t.din, t.data) = Names(r.din, r.data)
  BY <1>3, <1>5 DEF Names
<1>7. ~ t.dirty => OnDisk(t.din, x.din)
  BY <1>3, <1>5 DEF Sound, OnDisk
<1>8. ResizedIs(r, n, t)
  BY <1>1, <1>3, <1>5, <1>6 DEF ResizedIs, Pages
<1> QED BY <1>3, <1>4, <1>5, <1>6, <1>7, <1>8 DEF Sound, Filled

\* How many blocks len bytes need.
LEMMA BlocksOf ==
  ASSUME NEW len \in Nat
  PROVE  \E tblks \in Nat : /\ tblks = (len + BLK - 1) \div BLK
                            /\ len <= BLK * tblks /\ BLK * tblks < len + BLK
<1>1. BLK \in Nat \ {0}
  BY Sizes
<1>2. PICK t \in Int : t = (len + BLK - 1) \div BLK
  BY <1>1
<1>3. PICK T \in Int : T = BLK * t
  BY <1>1, <1>2
<1>4. T <= len + BLK - 1 /\ len + BLK - 1 < T + BLK
  BY <1>1, <1>2, <1>3
<1>5. t \in Nat
  BY <1>1, <1>2
<1> QED BY <1>1, <1>2, <1>3, <1>4, <1>5

LEMMA TruncateFile ==
  ASSUME NEW x, NEW m, Sound(x, m), m.ret = "ok", NEW len \in Nat,
         NEW t, t = sfs_truncfile(m, len)
  PROVE  Sound(x, t)
<1>1. PICK tblks \in Nat : tblks = (len + BLK - 1) \div BLK
  BY BlocksOf
<1>2. m.din.blocks \in Nat
  BY Fields, Sizes DEF Sound, Place
<1>3. CASE m.din.size = len
  <2>1. t = m \/ t = Fails(m, "truncate")
    BY <1>3 DEF sfs_truncfile
  <2>2. "truncate" \in Ret
    BY DEF Ret
  <2> QED BY <2>1, <2>2, Refused DEF Stopped
<1>4. CASE m.din.size # len
  <2>1. PICK r : r = IF m.din.blocks < tblks THEN GrowTo(m, tblks) ELSE ShrinkTo(m, tblks)
    OBVIOUS
  <2>2. Sound(x, r)
    <3>1. CASE m.din.blocks < tblks
      BY <2>1, <3>1, Grows DEF Grown
    <3>2. CASE ~ (m.din.blocks < tblks)
      <4>1. tblks <= m.din.blocks /\ r = ShrinkTo(m, tblks)
        BY <1>2, <2>1, <3>2
      <4> QED BY <4>1, Shrinks DEF Shrunk
    <3> QED BY <3>1, <3>2
  <2>3. t = IF r.ret = "ok" THEN Resized(r, len, TRUE) ELSE r
    BY <1>1, <1>4, <2>1 DEF sfs_truncfile, Then, Good, Resized
  <2> QED BY <2>2, <2>3, SizeSet DEF ResizedIs
<1> QED BY <1>3, <1>4

\* A file is no longer than its blocks, and zero past its end.
Fits(d) == d.size <= BLK * d.blocks
ZeroFrom(q, n) == \A i \in 0 .. Top - 1, c \in Offset : At(i, c) >= n => q[i][c] = 0
Tidy(m) == Fits(m.din) /\ ZeroFrom(Pages(m.din, m.data), m.din.size)
SameBytes(q, u) == \A i \in 0 .. Top - 1, c \in Offset : u[i][c] = q[i][c]

\* The file of t is that of m with len bytes, the new ones zero; all of it is
\* zero when len is.
Stretched(m, t, len) ==
    /\ t.ret = "ok" /\ t.din.size = len
    /\ len # 0 => SameBytes(Pages(m.din, m.data), Pages(t.din, t.data))
Truncated(m, t, len) ==
    /\ t.buf = m.buf /\ Tidy(t)
    /\ \/ Stretched(m, t, len)
       \/ Exhausted(t) /\ SameFile(m, t) /\ len # 0

LEMMA CutTidy ==
  ASSUME NEW m, m \in Midway, Tidy(m), NEW len \in Nat, len = 0 \/ len > m.din.size,
         NEW n \in Nat, n <= m.din.blocks, len <= BLK * n, len = 0 => n = 0,
         NEW q, q = CutTo(m.din, m.data, n)
  PROVE  /\ ZeroFrom(q, len)
         /\ len # 0 => SameBytes(Pages(m.din, m.data), q)
<1>1. PICK u : u = Pages(m.din, m.data)
  OBVIOUS
<1>2. PICK size \in Nat : size = m.din.size /\ ZeroFrom(u, size)
  BY <1>1, Fields DEF Tidy
<1>3. PICK B \in Nat : B = m.din.blocks
  BY Fields, Sizes DEF Place
<1>4. /\ BLK \in Nat \ {0} /\ Top \in Nat /\ 0 \in Offset /\ Offset \subseteq Cell
      /\ 0 .. Top - 1 \subseteq Nat
  BY Sizes DEF Offset
<1>5. PICK E \in Nat : E = BLK * B /\ size <= E
  BY <1>2, <1>3, <1>4 DEF Tidy, Fits
<1>6. PICK L \in Nat : L = BLK * n /\ len <= L
  BY <1>4
<1>7. ASSUME NEW i \in 0 .. Top - 1, NEW c \in Offset
      PROVE  /\ q[i][c] = IF i >= n /\ i < B THEN 0 ELSE u[i][c]
             /\ At(i, c) \in Nat
             /\ i >= n => At(i, c) >= L
             /\ i >= B => At(i, c) >= E
  <2>1. q[i][c] = IF i >= n /\ i < B THEN 0 ELSE u[i][c]
    BY <1>1, <1>3, <1>4 DEF CutTo, Blank
  <2>2. i \in Nat /\ At(i, c) \in Nat
    BY <1>4, AtOrder
  <2>3. i >= n => At(i, c) >= L
    <3>1. /\ n < i => n * BLK + BLK <= At(i, c)
          /\ i = n => n * BLK <= At(i, c)
      BY <2>2, AtOrder
    <3>2. n * BLK = L
      BY <1>4, <1>6
    <3> QED BY <1>4, <2>2, <3>1, <3>2
  <2>4. i >= B => At(i, c) >= E
    <3>1. /\ B < i => B * BLK + BLK <= At(i, c)
          /\ i = B => B * BLK <= At(i, c)
      BY <2>2, AtOrder
    <3>2. B * BLK = E
      BY <1>4, <1>5
    <3> QED BY <1>4, <2>2, <3>1, <3>2
  <2> QED BY <2>1, <2>2, <2>3, <2>4
<1>8. ZeroFrom(q, len)
  <2>1. ASSUME NEW i \in 0 .. Top - 1, NEW c \in Offset, At(i, c) >= len
        PROVE  q[i][c] = 0
    <3>1. CASE i >= n /\ i < B
      BY <1>7, <3>1
    <3>2. CASE ~ (i >= n /\ i < B)
      <4>1. q[i][c] = u[i][c] /\ At(i, c) \in Nat
        BY <1>7, <3>2
      <4>2. At(i, c) >= size
        <5>1. CASE len = 0
          <6>1. CASE i >= B
            BY <1>5, <1>7, <4>1, <6>1
          <6>2. CASE ~ (i >= B)
            <7>1. ~ (i >= n) /\ i \in Nat /\ n = 0
              BY <1>4, <3>2, <5>1, <6>2
            <7> QED BY <7>1
          <6> QED BY <6>1, <6>2
        <5>2. CASE len > m.din.size
          BY <1>2, <2>1, <4>1, <5>2
        <5> QED BY <5>1, <5>2
      <4> QED BY <1>2, <4>1, <4>2 DEF ZeroFrom
    <3> QED BY <3>1, <3>2
  <2> QED BY <2>1 DEF ZeroFrom
<1>9. ASSUME len # 0 PROVE SameBytes(u, q)
  <2>1. ASSUME NEW i \in 0 .. Top - 1, NEW c \in Offset PROVE q[i][c] = u[i][c]
    <3>1. CASE i >= n /\ i < B
      <4>1. At(i, c) >= size
        BY <1>2, <1>6, <1>7, <1>9, <3>1
      <4>2. u[i][c] = 0
        BY <1>2, <4>1 DEF ZeroFrom
      <4> QED BY <1>7, <3>1, <4>2
    <3>2. CASE ~ (i >= n /\ i < B)
      BY <1>7, <3>2
    <3> QED BY <3>1, <3>2
  <2> QED BY <2>1 DEF SameBytes
<1> QED BY <1>1, <1>8, <1>9

LEMMA TidySame ==
  ASSUME NEW m, m \in Midway, Tidy(m), NEW t, SameFile(m, t), t.din.blocks \in Nat,
         t.din.blocks >= m.din.blocks
  PROVE  Tidy(t)
<1>1. PICK B \in Nat : B = m.din.blocks
  BY Fields, Sizes DEF Place
<1>2. PICK d \in Nat : t.din.blocks = B + d
  <2>1. t.din.blocks - B \in Nat /\ t.din.blocks = B + (t.din.blocks - B)
    BY <1>1
  <2> QED BY <2>1
<1>3. BLK * (B + d) = BLK * B + BLK * d /\ BLK * B \in Nat /\ BLK * d \in Nat
  BY Sizes
<1>4. Fits(t.din)
  BY <1>1, <1>2, <1>3, Fields DEF Tidy, Fits, SameFile
<1> QED BY <1>4 DEF Tidy, SameFile

LEMMA ExactTruncate ==
  ASSUME NEW x, NEW m, Sound(x, m), m.ret = "ok", Tidy(m),
         NEW len \in Nat, len = 0 \/ len > m.din.size,
         NEW t, t = sfs_truncfile(m, len)
  PROVE  t.ret \in Asserts \/ Truncated(m, t, len)
<1>1. PICK tblks \in Nat : /\ tblks = (len + BLK - 1) \div BLK
                           /\ len <= BLK * tblks /\ BLK * tblks < len + BLK
  BY BlocksOf
<1>2. PICK B \in Nat : B = m.din.blocks /\ m \in Midway
  BY Fields, Sizes DEF Sound, Place
<1>3. BLK \in Nat \ {0} /\ m.din.size \in Nat
  BY <1>2, Sizes, Fields
<1>4. len = 0 => tblks = 0
  <2>1. tblks # 0 => BLK * tblks >= BLK
    <3>1. CASE tblks # 0
      <4>1. PICK k \in Nat : tblks = k + 1
        <5>1. tblks - 1 \in Nat /\ tblks = (tblks - 1) + 1
          BY <3>1
        <5> QED BY <5>1
      <4>2. BLK * (k + 1) = BLK * k + BLK /\ BLK * k \in Nat
        BY <1>3
      <4> QED BY <1>3, <4>1, <4>2
    <3> QED BY <3>1
  <2> QED BY <1>1, <1>3, <2>1
<1>5. CASE m.din.size = len
  <2>1. len = 0 /\ (t = m \/ t.ret = "truncate")
    <3>1. len = 0
      BY <1>3, <1>5
    <3>2. t = m \/ t = Fails(m, "truncate")
      BY <1>5 DEF sfs_truncfile
    <3>3. "truncate" \in Ret
      BY DEF Ret
    <3> QED BY <1>2, <3>1, <3>2, <3>3, FailsIs
  <2>2. t = m => Truncated(m, t, len)
    BY <1>5, <2>1 DEF Truncated, Stretched
  <2> QED BY <2>1, <2>2 DEF Asserts
<1>6. CASE m.din.size # len
  <2>1. PICK r : r = IF B < tblks THEN GrowTo(m, tblks) ELSE ShrinkTo(m, tblks)
    OBVIOUS
  <2>2. t = IF r.ret = "ok" THEN Resized(r, len, TRUE) ELSE r
    BY <1>1, <1>2, <1>6, <2>1 DEF sfs_truncfile, Then, Good, Resized
  <2>3. CASE B < tblks
    <3>1. Grown(x, m, tblks, r)
      BY <1>2, <2>1, <2>3, Grows
    <3>2. len # 0
      BY <1>2, <1>4, <2>3
    <3>3. Sound(x, r) /\ r \in Midway /\ SameFile(m, r) /\ r.buf = m.buf
          /\ r.din.blocks \in Nat
      BY <3>1, Fields, Sizes DEF Grown, Place
    <3>4. Tidy(r)
      BY <1>2, <3>1, <3>3, TidySame DEF Grown
    <3>5. CASE r.ret = "ok"
      <4>1. t = Resized(r, len, TRUE) /\ TRUE \in BOOLEAN
        BY <2>2, <3>5
      <4>2. ResizedIs(r, len, t)
        BY <3>3, <4>1, SizeSet
      <4>3. /\ t.din.size = len /\ t.din.blocks = tblks /\ t.ret = "ok" /\ t.buf = m.buf
            /\ Pages(t.din, t.data) = Pages(m.din, m.data)
        BY <3>1, <3>3, <3>5, <4>2 DEF ResizedIs, SameFile, Grown
      <4>4. Fits(t.din)
        BY <1>1, <4>3 DEF Fits
      <4>5. ZeroFrom(Pages(m.din, m.data), len)
        <5>1. ZeroFrom(Pages(m.din, m.data), m.din.size) /\ len > m.din.size
          BY <3>2 DEF Tidy
        <5>2. ASSUME NEW i \in 0 .. Top - 1, NEW c \in Offset PROVE At(i, c) \in Nat
          <6>1. i \in Nat
            BY Sizes
          <6> QED BY <6>1, AtOrder
        <5> QED BY <1>3, <5>1, <5>2 DEF ZeroFrom
      <4> QED BY <4>3, <4>4, <4>5 DEF Truncated, Stretched, Tidy, SameBytes
    <3>6. CASE r.ret # "ok"
      <4>1. t = r
        BY <2>2, <3>6
      <4>2. Exhausted(r) \/ r.ret \in {"index", "range"}
        BY <3>1, <3>6 DEF Grown, Ended
      <4> QED BY <3>2, <3>3, <3>4, <4>1, <4>2 DEF Truncated, Asserts
    <3> QED BY <3>5, <3>6
  <2>4. CASE ~ (B < tblks)
    <3>1. tblks <= m.din.blocks /\ r = ShrinkTo(m, tblks)
      BY <1>2, <2>1, <2>4
    <3>2. Shrunk(x, m, tblks, r)
      BY <3>1, Shrinks
    <3>3. t = Resized(r, len, TRUE) /\ TRUE \in BOOLEAN /\ Sound(x, r)
      BY <2>2, <3>2 DEF Shrunk
    <3>4. ResizedIs(r, len, t)
      BY <3>3, SizeSet
    <3>5. /\ t.din.size = len /\ t.din.blocks = tblks /\ t.ret = "ok" /\ t.buf = m.buf
          /\ Pages(t.din, t.data) = CutTo(m.din, m.data, tblks)
      BY <3>2, <3>4 DEF ResizedIs, Shrunk
    <3>6. Fits(t.din)
      BY <1>1, <3>5 DEF Fits
    <3>7. PICK q : q = CutTo(m.din, m.data, tblks)
      OBVIOUS
    <3>8. ZeroFrom(q, len) /\ (len # 0 => SameBytes(Pages(m.din, m.data), q))
      BY <1>1, <1>2, <1>4, <3>1, <3>7, CutTidy
    <3> QED BY <3>5, <3>6, <3>7, <3>8 DEF Truncated, Stretched, Tidy
  <2> QED BY <2>3, <2>4
<1> QED BY <1>5, <1>6

LEMMA TrySeek ==
  ASSUME NEW x, NEW m, Sound(x, m), m.ret = "ok", NEW pos \in Nat,
         NEW t, t = sfs_tryseek(m, pos)
  PROVE  Sound(x, t)
<1>1. "inval" \in Ret
  BY DEF Ret
<1>2. \/ t = Fails(m, "inval") \/ t = sfs_truncfile(m, pos) \/ t = m
  BY DEF sfs_tryseek
<1> QED BY <1>1, <1>2, Refused, TruncateFile DEF Stopped

\* The file of t is that of m, as long as pos at least, or stays when there is no
\* room or pos is too far.
Sought(m, t, pos) ==
    /\ t.buf = m.buf /\ Tidy(t)
    /\ \/ /\ t.ret = "ok" /\ t.din.size = IF pos > m.din.size THEN pos ELSE m.din.size
          /\ SameBytes(Pages(m.din, m.data), Pages(t.din, t.data))
       \/ /\ t.ret # "ok" /\ SameFile(m, t)
          /\ Cardinality(t.free) < 2 \/ pos >= MaxFileSize

LEMMA ExactSeek ==
  ASSUME NEW x, NEW m, Sound(x, m), m.ret = "ok", Tidy(m), NEW pos \in Nat,
         NEW t, t = sfs_tryseek(m, pos)
  PROVE  t.ret \in Asserts \/ Sought(m, t, pos)
<1>1. m \in Midway /\ m.din.size \in Nat
  BY Fields DEF Sound
<1>2. CASE pos >= MaxFileSize
  <2>1. t = Fails(m, "inval") /\ "inval" \in Ret
    BY <1>2 DEF sfs_tryseek, Ret
  <2>2. Stopped(x, m, "inval", t)
    BY <2>1, Refused
  <2> QED BY <1>2, <2>2 DEF Stopped, SameFs, SameFile, Sought, Tidy
<1>3. CASE ~ (pos >= MaxFileSize) /\ pos > m.din.size
  <2>1. t = sfs_truncfile(m, pos)
    BY <1>3 DEF sfs_tryseek
  <2>2. t.ret \in Asserts \/ Truncated(m, t, pos)
    BY <1>3, <2>1, ExactTruncate
  <2>3. pos # 0
    BY <1>1, <1>3
  <2> QED BY <1>3, <2>2, <2>3 DEF Truncated, Stretched, Exhausted, Sought
<1>4. CASE ~ (pos >= MaxFileSize) /\ ~ (pos > m.din.size)
  <2>1. t = m
    BY <1>4 DEF sfs_tryseek
  <2> QED BY <1>4, <2>1 DEF Sought, SameBytes
<1> QED BY <1>2, <1>3, <1>4

\* t is m, and no byte has moved.
Idle(m, t) == SameFs(m, t) /\ t.alen = 0 /\ t.buf = m.buf

\* t is m after a write of n bytes b at pos.
Stored(m, n, pos, b, t) ==
    /\ pos < MaxFileSize /\ t.alen \in 0 .. n /\ t.buf = m.buf
    /\ t.alen < n => Cardinality(t.free) < 2 \/ pos + t.alen = MaxFileSize
    /\ t.din.size = IF pos + t.alen > m.din.size THEN pos + t.alen ELSE m.din.size
    /\ t.din.blocks >= m.din.blocks
    /\ Wrote(Pages(m.din, m.data), Pages(t.din, t.data), pos, pos + t.alen, b)
    /\ t.alen > 0 => pos + t.alen <= BLK * t.din.blocks

LEMMA WriteFile ==
  ASSUME NEW x, NEW m, Sound(x, m), Fresh(m), NEW pos \in Nat, NEW n \in Nat \ {0},
         NEW b \in Byte, NEW t, t = WriteNolock(m, pos, n, b)
  PROVE  /\ Sound(x, t)
         /\ \/ t.ret \in Asserts \/ Stored(m, n, pos, b, t)
            \/ pos >= MaxFileSize /\ Idle(m, t)
<1>0. m.ret = "ok" /\ m.alen = 0
  BY DEF Fresh
<1>1. CASE pos >= MaxFileSize
  <2>1. t = Fails(m, "inval") /\ "inval" \in Ret
    BY <1>1 DEF WriteNolock, Ret
  <2>2. Stopped(x, m, "inval", t)
    BY <2>1, Refused
  <2> QED BY <1>0, <1>1, <2>2 DEF Stopped, Idle
<1>2. CASE ~ (pos >= MaxFileSize)
  <2>1. PICK to \in Nat : /\ to = Min({pos + n, MaxFileSize}) /\ pos <= to - 1
                          /\ to <= pos + n /\ (to = pos + n \/ to = MaxFileSize)
    <3>1. Min({pos + n, MaxFileSize}) = IF pos + n <= MaxFileSize THEN pos + n ELSE MaxFileSize
      BY Sizes, Min2
    <3> QED BY <1>2, <3>1, Sizes
  <2>2. PICK w : w = WriteBlocks(m, pos, to, b)
    OBVIOUS
  <2>3. Putting(x, m, pos, to, b, w)
    BY <1>0, <2>1, <2>2, Writes
  <2>4. /\ Sound(x, w) /\ w.din.size \in Nat /\ w.alen \in Nat /\ w \in Midway
        /\ w.dirty \in BOOLEAN
    BY <2>3, Fields DEF Putting
  <2>5. PICK size \in Nat : /\ size = Max({w.din.size, pos + w.alen})
                            /\ ~ (pos + w.alen > w.din.size) => size = w.din.size
                            /\ pos + w.alen > w.din.size => size = pos + w.alen
    <3>1. Max({w.din.size, pos + w.alen})
            = IF w.din.size >= pos + w.alen THEN w.din.size ELSE pos + w.alen
      BY <2>4, Max2
    <3> QED BY <2>4, <3>1
  <2>6. PICK dy \in BOOLEAN : /\ dy = (w.dirty \/ pos + w.alen > w.din.size)
                              /\ ~ dy => size = w.din.size /\ ~ w.dirty
    BY <2>4, <2>5
  <2>7. t = Resized(w, size, dy)
    BY <1>2, <2>1, <2>2, <2>5, <2>6 DEF WriteNolock, Lengthen, Resized
  <2>8. Sound(x, t) /\ ResizedIs(w, size, t)
    BY <2>4, <2>6, <2>7, SizeSet
  <2>9. /\ t.alen = w.alen /\ t.free = w.free /\ t.ret = w.ret /\ t.buf = w.buf
        /\ t.din.size = size /\ t.din.blocks = w.din.blocks
        /\ Pages(t.din, t.data) = Pages(w.din, w.data)
    BY <2>8 DEF ResizedIs
  <2>10. /\ Ended(w) /\ w.buf = m.buf /\ w.din.size = m.din.size
         /\ w.din.blocks >= m.din.blocks
         /\ Wrote(Pages(m.din, m.data), Pages(w.din, w.data), pos, pos + w.alen, b)
         /\ pos + w.alen <= to /\ (w.ret = "ok" => pos + w.alen = to)
         /\ w.alen > 0 => pos + w.alen <= BLK * w.din.blocks
    BY <2>3 DEF Putting
  <2>11. w.alen \in 0 .. n /\ (w.ret = "ok" /\ w.alen < n => pos + w.alen = MaxFileSize)
    BY <2>1, <2>4, <2>10
  <2>12. w.ret \notin Asserts /\ w.ret # "ok" => Cardinality(w.free) < 2
    BY <2>10 DEF Ended, Exhausted, Asserts
  <2>13. pos < MaxFileSize
    BY <1>2, Sizes
  <2>14. t.ret \notin Asserts => Stored(m, n, pos, b, t)
    BY <2>4, <2>5, <2>9, <2>10, <2>11, <2>12, <2>13 DEF Stored
  <2> QED BY <2>8, <2>14
<1> QED BY <1>1, <1>2

\* t is m after a read of n bytes at pos, when its file has blocks for its size.
Fetched(m, n, pos, t) ==
    /\ SameFile(m, t) /\ t.din.blocks >= m.din.blocks
    /\ \/ t.alen = 0 /\ t.buf = m.buf
       \/ /\ pos < m.din.size
          /\ Fits(m.din) =>
                /\ pos + t.alen = IF pos + n <= m.din.size THEN pos + n ELSE m.din.size
                /\ Holds(Pages(m.din, m.data), t.buf, pos, pos + t.alen)

LEMMA ReadFile ==
  ASSUME NEW x, NEW m, Sound(x, m), Fresh(m), NEW pos \in Nat, NEW n \in Nat \ {0},
         NEW t, t = ReadNolock(m, pos, n)
  PROVE  Sound(x, t) /\ Fetched(m, n, pos, t)
<1>0. m.alen = 0 /\ m.din.blocks \in Int /\ m.din.size \in Nat
  BY Fields, Sizes DEF Sound, Place, Fresh
<1>1. CASE pos >= MaxFileSize
  <2>1. t = Fails(m, "inval") /\ "inval" \in Ret
    BY <1>1 DEF ReadNolock, Ret
  <2>2. Stopped(x, m, "inval", t)
    BY <2>1, Refused
  <2> QED BY <1>0, <2>2 DEF Stopped, Fetched, SameFs, SameFile
<1>2. CASE ~ (pos >= MaxFileSize) /\ pos >= m.din.size
  <2>1. t = m
    BY <1>2 DEF ReadNolock
  <2> QED BY <1>0, <2>1 DEF Fetched, SameFile
<1>3. CASE ~ (pos >= MaxFileSize) /\ ~ (pos >= m.din.size)
  <2>1. PICK to \in Nat : /\ to = Min({pos + n, m.din.size}) /\ pos <= to - 1
                          /\ to <= m.din.size
                          /\ to = IF pos + n <= m.din.size THEN pos + n ELSE m.din.size
    <3>1. Min({pos + n, m.din.size}) = IF pos + n <= m.din.size THEN pos + n ELSE m.din.size
      BY <1>0, Min2
    <3> QED BY <1>0, <1>3, <3>1
  <2>2. t = ReadBlocks(m, pos, to)
    BY <1>3, <2>1 DEF ReadNolock
  <2>3. Taking(x, m, pos, to, to, t)
    BY <2>1, <2>2, Reads
  <2>4. Fits(m.din) => to <= BLK * m.din.blocks
    <3>1. PICK E \in Int : E = BLK * m.din.blocks
      BY <1>0, Sizes
    <3> QED BY <1>0, <2>1, <3>1 DEF Fits
  <2>5. pos < m.din.size
    BY <1>0, <1>3
  <2> QED BY <2>1, <2>3, <2>4, <2>5 DEF Taking, Fetched
<1> QED BY <1>1, <1>2, <1>3

LEMMA StoredTidy ==
  ASSUME NEW m, m \in Midway, Tidy(m), NEW t, t \in Midway,
         NEW n, NEW pos \in Nat, NEW b, Stored(m, n, pos, b, t)
  PROVE  /\ ZeroFrom(Pages(t.din, t.data), t.din.size)
         /\ ~ Fits(t.din) => t.alen = 0 /\ pos > m.din.size
<1>1. PICK B \in Nat : B = m.din.blocks
  BY Fields, Sizes DEF Place
<1>2. PICK C \in Nat : C = t.din.blocks /\ C >= B
  BY <1>1, Fields, Sizes DEF Place, Stored
<1>3. BLK * B \in Nat /\ BLK * C \in Nat /\ BLK * B <= BLK * C
  <2>1. PICK d \in Nat : C = B + d
    <3>1. C - B \in Nat /\ C = B + (C - B)
      BY <1>2
    <3> QED BY <3>1
  <2>2. BLK * (B + d) = BLK * B + BLK * d /\ BLK * B \in Nat /\ BLK * d \in Nat
    BY Sizes
  <2> QED BY <2>1, <2>2
<1>4. PICK D \in Nat, E \in Nat : D = BLK * B /\ E = BLK * C /\ D <= E
  BY <1>3
<1>5. PICK k \in Nat, s \in Nat, r \in Nat :
        /\ k = t.alen /\ s = m.din.size /\ r = t.din.size
        /\ r = IF pos + k > s THEN pos + k ELSE s
        /\ s <= D /\ (k > 0 => pos + k <= E)
  BY <1>1, <1>2, <1>4, Fields DEF Stored, Tidy, Fits
<1>6. ~ Fits(t.din) => t.alen = 0 /\ pos > m.din.size
  <2>1. Fits(t.din) <=> r <= E
    BY <1>2, <1>4, <1>5 DEF Fits
  <2>2. r > E => k = 0 /\ pos > s
    BY <1>4, <1>5
  <2> QED BY <1>4, <1>5, <2>1, <2>2
<1>7. ASSUME NEW i \in 0 .. Top - 1, NEW c \in Offset, At(i, c) >= r
      PROVE  Pages(t.din, t.data)[i][c] = 0
  <2>1. i \in Nat
    BY Sizes
  <2>2. At(i, c) \in Nat
    BY <2>1, AtOrder
  <2>3. ~ (pos <= At(i, c) /\ At(i, c) < pos + k) /\ At(i, c) >= s
    BY <1>5, <1>7, <2>2
  <2>4. Pages(t.din, t.data)[i][c] = Pages(m.din, m.data)[i][c]
    BY <1>5, <2>3 DEF Stored, Wrote
  <2> QED BY <1>5, <2>3, <2>4 DEF Tidy, ZeroFrom
<1> QED BY <1>5, <1>6, <1>7 DEF ZeroFrom

-----------------------------------------------------------------------------
(* All files.                                                               *)

\* Every block is free or at one place of one of the inodes I.
Apart(I, dt, fr) ==
    /\ fr \subseteq Block
    /\ \A f \in File : Names(I[f], dt) \in [Place -> Number]
    /\ \A f \in File, i \in Place : Names(I[f], dt)[i] \notin fr
    /\ \A f, g \in File, i, j \in Place :
        Names(I[f], dt)[i] = Names(I[g], dt)[j] /\ Names(I[f], dt)[i] # 0 => f = g /\ i = j
    /\ \A b \in Block : b \in fr \/ \E f \in File, i \in Place : Names(I[f], dt)[i] = b

Others(I, dt, f) ==
    {b \in Block : \E g \in File \ {f}, i \in Place : Names(I[g], dt)[i] = b}

LEMMA ApartLocal ==
  ASSUME NEW I, NEW dt, NEW fr, Apart(I, dt, fr), NEW f \in File
  PROVE  Partition(Others(I, dt, f), fr, Names(I[f], dt))
<1>1. PICK N : N = Names(I[f], dt)
  OBVIOUS
<1>2. PICK O : O = Others(I, dt, f)
  OBVIOUS
<1>3. O \subseteq Block /\ O \cap fr = {} /\ fr \subseteq Block /\ N \in [Place -> Number]
  BY <1>1, <1>2 DEF Apart, Others
<1>4. \A i \in Place : N[i] \notin fr /\ N[i] \notin O
  <2>1. ASSUME NEW i \in Place, N[i] \in O PROVE FALSE
    <3>1. PICK g \in File \ {f}, j \in Place : Names(I[g], dt)[j] = N[i] /\ N[i] \in Block
      BY <1>2, <2>1 DEF Others
    <3>2. N[i] # 0
      BY <3>1, Sizes
    <3> QED BY <1>1, <3>1, <3>2 DEF Apart
  <2> QED BY <1>1, <2>1 DEF Apart
<1>5. \A i, j \in Place : N[i] = N[j] /\ N[i] # 0 => i = j
  BY <1>1 DEF Apart
<1>6. ASSUME NEW b \in Block PROVE b \in fr \/ b \in O \/ \E i \in Place : N[i] = b
  <2>1. CASE \E g \in File, i \in Place : Names(I[g], dt)[i] = b
    <3>1. PICK g \in File, i \in Place : Names(I[g], dt)[i] = b
      BY <2>1
    <3>2. CASE g = f
      BY <1>1, <3>1, <3>2
    <3>3. CASE g # f
      BY <1>2, <3>1, <3>3 DEF Others
    <3> QED BY <3>2, <3>3
  <2> QED BY <2>1 DEF Apart
<1>7. Partition(O, fr, N)
  BY <1>3, <1>4, <1>5, <1>6 DEF Partition
<1> QED BY <1>1, <1>2, <1>7

\* f changes, and nothing that other files own.
Changes(I, dt, J, du, f) ==
    /\ \A g \in File \ {f} : J[g] = I[g] /\ I[g] \in Din
    /\ \A b \in Others(I, dt, f) : du[b] = dt[b]

LEMMA OthersStay ==
  ASSUME NEW I, NEW dt, NEW fr, Apart(I, dt, fr), NEW f \in File, NEW J, NEW du,
         Changes(I, dt, J, du, f), NEW g \in File \ {f}
  PROVE  Names(J[g], du) = Names(I[g], dt)
<1>1. Top \in Place /\ ~ (Top < NDIRECT)
  BY Sizes DEF Place
<1>2. Names(I[g], dt)[Top] = I[g].indirect
  BY <1>1 DEF Names
<1>3. I[g].indirect # 0 => I[g].indirect \in Others(I, dt, f)
  <2>1. I[g] \in Din
    BY DEF Changes
  <2>2. I[g].indirect \in Number
    BY <2>1 DEF Din
  <2> QED BY <1>1, <1>2, <2>2, Sizes DEF Others
<1>4. I[g] \in Din /\ J[g] = I[g] /\ (I[g].indirect # 0 => du[I[g].indirect] = dt[I[g].indirect])
  BY <1>3 DEF Changes
<1> QED BY <1>4, NamesSame

LEMMA ApartGlobal ==
  ASSUME NEW I, NEW dt, NEW fr, Apart(I, dt, fr), NEW f \in File, NEW J, NEW du,
         Changes(I, dt, J, du, f),
         NEW fs, Partition(Others(I, dt, f), fs, Names(J[f], du))
  PROVE  Apart(J, du, fs)
<1>1. PICK N : N = Names(J[f], du)
  OBVIOUS
<1>2. PICK O : O = Others(I, dt, f)
  OBVIOUS
<1>3. Partition(O, fs, N)
  BY <1>1, <1>2
<1>4. \A g \in File \ {f} : Names(J[g], du) = Names(I[g], dt)
  BY OthersStay
<1>5. \A g \in File \ {f}, i \in Place :
        Names(J[g], du)[i] # 0 => Names(J[g], du)[i] \in O
  <2> TAKE g \in File \ {f}, i \in Place
  <2>1. Names(I[g], dt)[i] \in Number
    BY DEF Apart
  <2> QED BY <1>2, <1>4, <2>1, Sizes DEF Others
<1>6. \A g \in File : Names(J[g], du) \in [Place -> Number]
  BY <1>1, <1>3, <1>4 DEF Apart, Partition
<1>7. \A g \in File, i \in Place : Names(J[g], du)[i] \notin fs
  <2> TAKE g \in File, i \in Place
  <2>1. CASE g = f
    BY <1>1, <1>3, <2>1 DEF Partition
  <2>2. CASE g # f
    <3>1. 0 \notin fs /\ O \cap fs = {}
      BY <1>3, Sizes DEF Partition
    <3> QED BY <1>5, <2>2, <3>1
  <2> QED BY <2>1, <2>2
<1>8. ASSUME NEW g \in File, NEW h \in File, NEW i \in Place, NEW j \in Place,
             Names(J[g], du)[i] = Names(J[h], du)[j], Names(J[g], du)[i] # 0
      PROVE  g = h /\ i = j
  <2>1. CASE g = f /\ h = f
    BY <1>1, <1>3, <1>8, <2>1 DEF Partition
  <2>2. CASE g # f /\ h # f
    BY <1>4, <1>8, <2>2 DEF Apart
  <2>3. CASE g = f /\ h # f
    <3>1. N[i] \in O
      BY <1>1, <1>5, <1>8, <2>3
    <3> QED BY <1>3, <3>1 DEF Partition
  <2>4. CASE g # f /\ h = f
    <3>1. N[j] \in O
      BY <1>1, <1>5, <1>8, <2>4
    <3> QED BY <1>3, <3>1 DEF Partition
  <2> QED BY <2>1, <2>2, <2>3, <2>4
<1>9. ASSUME NEW b \in Block
      PROVE  b \in fs \/ \E g \in File, i \in Place : Names(J[g], du)[i] = b
  <2>1. CASE b \in O
    <3>1. PICK g \in File \ {f}, i \in Place : Names(I[g], dt)[i] = b
      BY <1>2, <2>1 DEF Others
    <3> QED BY <1>4, <3>1
  <2>2. CASE b \notin O
    BY <1>1, <1>3, <2>2 DEF Partition
  <2> QED BY <2>1, <2>2
<1>10. fs \subseteq Block
  BY <1>3 DEF Partition
<1> QED BY <1>6, <1>7, <1>8, <1>9, <1>10 DEF Apart

-----------------------------------------------------------------------------
(* The invariant.                                                           *)

FsType ==
    /\ free \subseteq Block /\ unused \in Int /\ superDirty \in BOOLEAN /\ data \in Data
    /\ din \in [File -> Din \cup {NoInode}] /\ dirty \in [File -> BOOLEAN]
    /\ disk \in [din : [File -> Din], free : SUBSET Block, unused : Int]
    /\ up \in BOOLEAN

Inodes == [f \in File |-> Inode(f)]

(* The file system is sound: the blocks are apart and counted, files have no *)
(* holes, and what is not dirty is on the disk.  Holes are ruled out because *)
(* a lookup without create would return no block where the code expects one. *)
FsInv ==
    /\ FsType
    /\ Apart(Inodes, data, free)
    /\ unused = Cardinality(free)
    /\ \A f \in File : Filled(Inode(f), Names(Inode(f), data))
    /\ \A f \in File : din[f] # NoInode /\ ~ dirty[f] => OnDisk(din[f], disk.din[f])
    /\ ~ superDirty => free = disk.free /\ unused = disk.unused
    /\ ~ up => ~ superDirty

\* An open handle keeps its inode in memory.
HandlesInv ==
    /\ handle \in [Handle -> {Closed} \cup [file : File, pos : Nat]]
    /\ \A h \in Handle : handle[h] # Closed => din[handle[h].file] # NoInode

\* The assertions that blocks in use are marked so and that the super block counts.
NoBlockAssertFails == panic \notin {"inuse", "mount"}

IInv == FsInv /\ HandlesInv /\ NoBlockAssertFails

\* What the call on f that is about to start finds.
Before(f) == [others |-> Others(Inodes, data, f), data |-> data, din |-> disk.din[f],
              free |-> disk.free, unused |-> disk.unused]

LEMMA NoInodeIs == NoInode \notin Din
<1>1. Number \subseteq Nat /\ Place \subseteq Nat
  BY Sizes DEF Number, Place
<1>2. NoInode \notin [size : Nat, blocks : Nat, indirect : Nat,
                      direct : [0 .. NDIRECT - 1 -> Nat]]
  BY SizesAssumption
<1>3. ASSUME NEW d \in Din
      PROVE  d \in [size : Nat, blocks : Nat, indirect : Nat,
                    direct : [0 .. NDIRECT - 1 -> Nat]]
  BY <1>1 DEF Din
<1> QED BY <1>2, <1>3

LEMMA InodeIs ==
  ASSUME FsType, NEW f \in File
  PROVE  /\ Inode(f) \in Din /\ disk.din[f] \in Din /\ Inodes[f] = Inode(f)
         /\ din[f] # NoInode => din[f] \in Din
BY DEF FsType, Inode, Inodes

\* A call starts in a sound file system.
LEMMA MountedSound ==
  ASSUME FsInv, NEW f \in File, NEW m, m = Mounted(f)
  PROVE  /\ Sound(Before(f), m) /\ m.ret = "ok" /\ Fresh(m)
         /\ m.free = free /\ m.data = data /\ m.din = Inode(f)
<1>1. FsType
  BY DEF FsInv
<1>2. Inode(f) \in Din /\ disk.din[f] \in Din /\ Inodes[f] = Inode(f)
  BY <1>1, InodeIs
<1>3. PICK dy \in BOOLEAN : dy = (din[f] # NoInode /\ dirty[f])
  OBVIOUS
<1>4. m = [free |-> free, unused |-> unused, superDirty |-> superDirty, data |-> data,
           din |-> Inode(f), dirty |-> dy, ret |-> "ok", ino |-> 0, alen |-> 0,
           buf |-> <<>>]
  BY <1>3 DEF Mounted, Inode
<1>5. m \in Midway
  <2>1. "ok" \in Ret /\ <<>> \in Seq(Content)
    BY DEF Ret
  <2> QED BY <1>1, <1>2, <1>4, <2>1 DEF Midway, FsType
<1>6. Partition(Others(Inodes, data, f), free, Names(Inode(f), data))
  <2>1. Apart(Inodes, data, free)
    BY DEF FsInv
  <2>2. Partition(Others(Inodes, data, f), free, Names(Inodes[f], data))
    BY <2>1, ApartLocal
  <2> QED BY <1>2, <2>2
<1>7. ~ dy => OnDisk(Inode(f), disk.din[f])
  <2>1. CASE din[f] = NoInode
    <3>1. Inode(f) = disk.din[f] /\ disk.din[f].blocks \in Int
      BY <1>2, <2>1, Sizes DEF Inode, Din, Place
    <3> QED BY <1>2, <3>1 DEF OnDisk
  <2>2. CASE din[f] # NoInode
    BY <1>3, <2>2 DEF Inode, FsInv
  <2> QED BY <2>1, <2>2
<1>8. /\ m.free = free /\ m.unused = unused /\ m.superDirty = superDirty /\ m.data = data
      /\ m.din = Inode(f) /\ m.dirty = dy /\ m.ret = "ok" /\ Fresh(m)
  BY <1>4 DEF Fresh
<1>9. PICK x : x = Before(f)
  OBVIOUS
<1>10. /\ x.others = Others(Inodes, data, f) /\ x.data = data /\ x.din = disk.din[f]
       /\ x.free = disk.free /\ x.unused = disk.unused
  BY <1>9 DEF Before
<1>11. Sound(x, m)
  BY <1>5, <1>6, <1>7, <1>8, <1>10 DEF Sound, FsInv
<1> QED BY <1>8, <1>9, <1>11

\* What the file system is after a call on f that kept m sound.
LEMMA CallKeeps ==
  ASSUME FsInv, NoBlockAssertFails, NEW f \in File, NEW m, Sound(Before(f), m),
         Becomes(f, m), up
  PROVE  /\ FsInv' /\ NoBlockAssertFails'
         /\ \A g \in File : din[g] # NoInode => din'[g] # NoInode
         /\ m.ret \notin Asserts => din'[f] # NoInode
<1>1. FsType /\ m \in Midway /\ m.ret \in Ret
  BY Fields DEF FsInv, Sound
<1>2. CASE m.ret \in Asserts
  <2>1. /\ panic' = m.ret
        /\ UNCHANGED <<free, unused, superDirty, data, din, dirty, disk, up>>
    BY <1>2 DEF Becomes
  <2>2. NoBlockAssertFails'
    BY <1>1, <2>1 DEF NoBlockAssertFails, Ret
  <2>3. FsInv'
    BY <2>1 DEF FsInv, FsType, Inodes, Inode
  <2> QED BY <1>2, <2>1, <2>2, <2>3
<1>3. CASE m.ret \notin Asserts
  <2>1. /\ free' = m.free /\ unused' = m.unused /\ superDirty' = m.superDirty
        /\ data' = m.data /\ din' = [din EXCEPT ![f] = m.din]
        /\ dirty' = [dirty EXCEPT ![f] = m.dirty] /\ disk' = disk /\ up' = up
        /\ panic' = panic
    BY <1>3 DEF Becomes
  <2>2. /\ m.din \in Din /\ m.din # NoInode /\ din'[f] = m.din /\ dirty'[f] = m.dirty
        /\ \A g \in File \ {f} : din'[g] = din[g] /\ dirty'[g] = dirty[g]
    BY <1>1, <2>1, Fields, NoInodeIs DEF FsType
  <2>3. FsType'
    BY <1>1, <2>1, Fields DEF FsType
  <2>4. PICK x : x = Before(f)
    OBVIOUS
  <2>5. /\ x.others = Others(Inodes, data, f) /\ x.data = data /\ x.din = disk.din[f]
        /\ x.free = disk.free /\ x.unused = disk.unused /\ Sound(x, m)
    BY <2>4 DEF Before
  <2>6. PICK J : J = Inodes'
    OBVIOUS
  <2>7. /\ J[f] = m.din /\ Inode(f)' = m.din
        /\ \A g \in File \ {f} : J[g] = Inode(g) /\ Inode(g)' = Inode(g)
    BY <2>1, <2>2, <2>6 DEF Inodes, Inode
  <2>8. Changes(Inodes, data, J, data', f)
    <3>1. \A g \in File \ {f} : Inodes[g] = Inode(g) /\ Inode(g) \in Din
      BY <1>1, InodeIs
    <3>2. \A b \in Others(Inodes, data, f) : data'[b] = data[b]
      BY <2>1, <2>5 DEF Sound
    <3> QED BY <2>7, <3>1, <3>2 DEF Changes
  <2>9. Apart(J, data', free')
    <3>1. Partition(Others(Inodes, data, f), free', Names(J[f], data'))
      BY <2>1, <2>5, <2>7 DEF Sound
    <3>2. Apart(Inodes, data, free)
      BY DEF FsInv
    <3> QED BY <2>8, <3>1, <3>2, ApartGlobal
  <2>10. ASSUME NEW g \in File PROVE Filled(Inode(g)', Names(Inode(g)', data'))
    <3>1. CASE g = f
      BY <2>1, <2>5, <2>7, <3>1 DEF Sound
    <3>2. CASE g # f
      <4>1. Apart(Inodes, data, free) /\ Filled(Inode(g), Names(Inode(g), data))
        BY DEF FsInv
      <4>2. Names(J[g], data') = Names(Inodes[g], data)
        BY <2>8, <3>2, <4>1, OthersStay
      <4>3. Inodes[g] = Inode(g) /\ J[g] = Inode(g) /\ Inode(g)' = Inode(g)
        BY <1>1, <2>7, <3>2, InodeIs
      <4> QED BY <4>1, <4>2, <4>3
    <3> QED BY <3>1, <3>2
  <2>11. ASSUME NEW g \in File, din'[g] # NoInode, ~ dirty'[g]
         PROVE  OnDisk(din'[g], disk'.din[g])
    <3>1. CASE g = f
      BY <2>1, <2>2, <2>5, <2>11, <3>1 DEF Sound
    <3>2. CASE g # f
      BY <2>1, <2>2, <2>11, <3>2 DEF FsInv
    <3> QED BY <3>1, <3>2
  <2>12. unused' = Cardinality(free')
    BY <2>1, <2>5 DEF Sound
  <2>13. ~ superDirty' => free' = disk'.free /\ unused' = disk'.unused
    BY <2>1, <2>5 DEF Sound
  <2>14. FsInv'
    <3>1. Apart(Inodes, data, free)'
      BY <2>6, <2>9
    <3>2. \A g \in File : din'[g] # NoInode /\ ~ dirty'[g] => OnDisk(din'[g], disk'.din[g])
      BY <2>11
    <3>3. \A g \in File : Filled(Inode(g)', Names(Inode(g)', data'))
      BY <2>10
    <3> QED BY <2>1, <2>3, <2>12, <2>13, <3>1, <3>2, <3>3 DEF FsInv
  <2>15. NoBlockAssertFails'
    BY <2>1 DEF NoBlockAssertFails
  <2> QED BY <2>2, <2>14, <2>15
<1> QED BY <1>2, <1>3

-----------------------------------------------------------------------------
(* The start, and one lemma for each call.                                  *)

LEMMA InitInv == ASSUME Init PROVE IInv
<1>1. /\ 0 \in Number /\ 0 \in Content /\ 0 \in Place /\ 0 \notin Block /\ IsFiniteSet(Block)
      /\ Cardinality(Block) = NBlock /\ Block \subseteq Number /\ NBlock \in Int
  BY Sizes, FS_Interval DEF Number, Content, Block, Place
<1>2. EmptyDin \in Din
  BY <1>1 DEF EmptyDin, Din
<1>3. \A f \in File : Inode(f) = EmptyDin
  BY DEF Init, Inode
<1>4. FsType
  <2>1. Blank \in [Cell -> Content]
    BY <1>1 DEF Blank
  <2>2. data \in Data
    BY <2>1 DEF Init, Data
  <2>3. disk \in [din : [File -> Din], free : SUBSET Block, unused : Int]
    BY <1>1, <1>2 DEF Init
  <2>4. /\ free \subseteq Block /\ unused \in Int /\ superDirty \in BOOLEAN
        /\ din \in [File -> Din \cup {NoInode}] /\ dirty \in [File -> BOOLEAN] /\ up \in BOOLEAN
    BY <1>1 DEF Init
  <2> QED BY <2>2, <2>3, <2>4 DEF FsType
<1>5. ASSUME NEW f \in File, NEW i \in Place PROVE Names(Inodes[f], data)[i] = 0
  <2>1. Inodes[f] = EmptyDin
    BY <1>3 DEF Inodes
  <2>2. i < NDIRECT => i \in 0 .. NDIRECT - 1
    BY Sizes DEF Place
  <2>3. EmptyDin.indirect = 0 /\ (i < NDIRECT => EmptyDin.direct[i] = 0)
    BY <2>2 DEF EmptyDin
  <2> QED BY <2>1, <2>3 DEF Names
<1>6. Apart(Inodes, data, free)
  <2>1. free = Block
    BY DEF Init
  <2>2. ASSUME NEW f \in File PROVE Names(Inodes[f], data) \in [Place -> Number]
    <3>1. Names(Inodes[f], data) = [i \in Place |-> Names(Inodes[f], data)[i]]
      BY NamesIs
    <3>2. \A i \in Place : Names(Inodes[f], data)[i] \in Number
      BY <1>1, <1>5
    <3> QED BY <3>1, <3>2
  <2> QED BY <1>1, <1>5, <2>1, <2>2 DEF Apart
<1>7. \A f \in File : Filled(Inode(f), Names(Inode(f), data))
  <2>1. EmptyDin.blocks = 0 /\ \A i \in Place : ~ (i < 0)
    BY Sizes DEF EmptyDin, Place
  <2> QED BY <1>3, <2>1 DEF Filled
<1>8. FsInv
  BY <1>1, <1>4, <1>6, <1>7 DEF FsInv, Init
<1> QED BY <1>8 DEF IInv, HandlesInv, NoBlockAssertFails, Init

LEMMA ApartSame ==
  ASSUME NEW I, NEW dt, NEW fr, Apart(I, dt, fr), NEW J,
         \A f \in File : Names(J[f], dt) = Names(I[f], dt)
  PROVE  Apart(J, dt, fr)
BY DEF Apart

\* The inode of f is written back, and perhaps leaves memory.
LEMMA WriteBackKeeps ==
  ASSUME FsInv, NEW f \in File, din[f] # NoInode, disk' = Flushed(f),
         dirty' = [dirty EXCEPT ![f] = FALSE],
         din' = din \/ din' = [din EXCEPT ![f] = NoInode],
         UNCHANGED <<free, unused, superDirty, data, up>>
  PROVE  FsInv'
<1>1. FsType /\ din[f] \in Din /\ disk.din[f] \in Din /\ din[f].blocks \in Int
  <2>1. FsType
    BY DEF FsInv
  <2>2. din[f] \in Din /\ disk.din[f] \in Din
    BY <2>1, InodeIs
  <2> QED BY <2>1, <2>2, Sizes DEF Din, Place
<1>2. /\ \A g \in File \ {f} : disk'.din[g] = disk.din[g]
      /\ disk'.free = disk.free /\ disk'.unused = disk.unused
      /\ disk' \in [din : [File -> Din], free : SUBSET Block, unused : Int]
      /\ OnDisk(din[f], disk'.din[f])
  <2>1. CASE dirty[f]
    <3>1. disk' = [din |-> [disk.din EXCEPT ![f] = din[f]], free |-> disk.free,
                   unused |-> disk.unused]
      BY <1>1, <2>1 DEF Flushed, FsType
    <3>2. disk'.din[f] = din[f] /\ \A g \in File \ {f} : disk'.din[g] = disk.din[g]
      BY <1>1, <3>1 DEF FsType
    <3>3. disk' \in [din : [File -> Din], free : SUBSET Block, unused : Int]
      BY <1>1, <3>1 DEF FsType
    <3>4. OnDisk(din[f], disk'.din[f])
      BY <1>1, <3>2 DEF OnDisk
    <3> QED BY <3>1, <3>2, <3>3, <3>4
  <2>2. CASE ~ dirty[f]
    <3>1. disk' = disk
      BY <2>2 DEF Flushed
    <3> QED BY <1>1, <2>2, <3>1 DEF FsInv, FsType
  <2> QED BY <2>1, <2>2
<1>3. /\ \A g \in File \ {f} : din'[g] = din[g] /\ dirty'[g] = dirty[g]
      /\ din'[f] \in {din[f], NoInode}
      /\ din' \in [File -> Din \cup {NoInode}] /\ dirty' \in [File -> BOOLEAN]
  BY <1>1 DEF FsType
<1>4. FsType'
  BY <1>1, <1>2, <1>3 DEF FsType
<1>5. PICK e : e = disk'.din[f]
  OBVIOUS
<1>6. \A g \in File \ {f} : Inode(g)' = Inode(g)
  BY <1>2, <1>3 DEF Inode
<1>7. Inode(f) = din[f] /\ Inode(f)' \in {din[f], e}
  BY <1>3, <1>5 DEF Inode
<1>8. /\ Inode(f)'.indirect = Inode(f).indirect /\ Inode(f)'.direct = Inode(f).direct
      /\ Inode(f)'.blocks <= Inode(f).blocks /\ Inode(f)'.blocks \in Int
  <2>1. e.indirect = din[f].indirect /\ e.direct = din[f].direct /\ e.blocks <= din[f].blocks
        /\ e.blocks \in Int
    BY <1>2, <1>5, Sizes DEF OnDisk, Din, Place
  <2> QED BY <1>1, <1>7, <2>1
<1>9. Names(Inode(f)', data) = Names(Inode(f), data)
  BY <1>8 DEF Names
<1>10. \A g \in File : Names(Inode(g)', data) = Names(Inode(g), data)
  BY <1>6, <1>9
<1>11. Apart(Inodes, data, free)'
  <2>1. PICK J : J = Inodes'
    OBVIOUS
  <2>2. \A g \in File : J[g] = Inode(g)' /\ Inodes[g] = Inode(g)
    BY <2>1 DEF Inodes
  <2>3. Apart(Inodes, data, free)
    BY DEF FsInv
  <2>4. Apart(J, data, free)
    BY <1>10, <2>2, <2>3, ApartSame
  <2> QED BY <2>1, <2>4
<1>12. ASSUME NEW g \in File PROVE Filled(Inode(g)', Names(Inode(g)', data'))
  <2>1. Filled(Inode(g), Names(Inode(g), data))
    BY DEF FsInv
  <2>2. CASE g = f
    <3>1. Inode(f)'.blocks <= Inode(f).blocks /\ Inode(f)'.blocks \in Int
          /\ Inode(f).blocks \in Int /\ Place \subseteq Int
      BY <1>1, <1>7, <1>8, Sizes DEF Place
    <3>2. Names(Inode(g)', data') = Names(Inode(g), data)
      BY <1>10
    <3>3. PICK N : N = Names(Inode(g), data)
      OBVIOUS
    <3> QED BY <2>1, <2>2, <3>1, <3>2, <3>3 DEF Filled
  <2>3. CASE g # f
    BY <1>6, <1>10, <2>1, <2>3
  <2> QED BY <2>2, <2>3
<1>13. ASSUME NEW g \in File, din'[g] # NoInode, ~ dirty'[g]
       PROVE  OnDisk(din'[g], disk'.din[g])
  <2>1. CASE g = f
    BY <1>2, <1>3, <1>13, <2>1
  <2>2. CASE g # f
    BY <1>2, <1>3, <1>13, <2>2 DEF FsInv
  <2> QED BY <2>1, <2>2
<1>14. /\ unused' = Cardinality(free')
       /\ ~ superDirty' => free' = disk'.free /\ unused' = disk'.unused
       /\ ~ up' => ~ superDirty'
  BY <1>2 DEF FsInv
<1> QED BY <1>4, <1>11, <1>12, <1>13, <1>14 DEF FsInv

\* An open handle is a record.
LEMMA HandleIs ==
  ASSUME HandlesInv, NEW h \in Handle, handle[h] # Closed
  PROVE  /\ handle[h] \in [file : File, pos : Nat]
         /\ handle[h].file \in File /\ handle[h].pos \in Nat
         /\ din[handle[h].file] # NoInode
BY DEF HandlesInv

LEMMA OpenKeeps ==
  ASSUME IInv, NEW h \in Handle, NEW f \in File, NEW t \in BOOLEAN, NEW a \in BOOLEAN,
         Open(h, f, t, a)
  PROVE  IInv'
<1>1. PICK m : /\ m = IF t THEN sfs_truncfile(Mounted(f), 0) ELSE Mounted(f)
               /\ Becomes(f, m)
               /\ m.ret \notin Asserts =>
                    handle' = [handle EXCEPT ![h] =
                                 [file |-> f, pos |-> IF a THEN m.din.size ELSE 0]]
  BY DEF Open
<1>2. FsInv /\ NoBlockAssertFails /\ HandlesInv /\ up
  BY DEF IInv, Open, Running
<1>3. Sound(Before(f), m)
  <2>1. PICK x, r : x = Before(f) /\ r = Mounted(f)
    OBVIOUS
  <2>2. Sound(x, r) /\ r.ret = "ok" /\ 0 \in Nat
    BY <1>2, <2>1, MountedSound
  <2>3. CASE t
    BY <1>1, <2>1, <2>2, <2>3, TruncateFile
  <2>4. CASE ~ t
    BY <1>1, <2>1, <2>2, <2>4
  <2> QED BY <2>1, <2>3, <2>4
<1>4. /\ FsInv' /\ NoBlockAssertFails'
      /\ \A g \in File : din[g] # NoInode => din'[g] # NoInode
      /\ m.ret \notin Asserts => din'[f] # NoInode
  BY <1>1, <1>2, <1>3, CallKeeps
<1>5. HandlesInv'
  <2>1. CASE m.ret \in Asserts
    <3>1. handle' = handle
      BY <1>1, <2>1 DEF Becomes
    <3> QED BY <1>2, <1>4, <3>1 DEF HandlesInv
  <2>2. CASE m.ret \notin Asserts
    <3>1. PICK pos \in Nat : pos = IF a THEN m.din.size ELSE 0
      BY <1>3, Fields DEF Sound
    <3>2. handle' = [handle EXCEPT ![h] = [file |-> f, pos |-> pos]]
      BY <1>1, <2>2, <3>1
    <3> QED BY <1>2, <1>4, <2>2, <3>2 DEF HandlesInv
  <2> QED BY <2>1, <2>2
<1> QED BY <1>4, <1>5 DEF IInv

LEMMA ReturnsKeeps ==
  ASSUME IInv, up, NEW h \in Handle, handle[h] # Closed,
         NEW m, Sound(Before(handle[h].file), m), NEW pos \in Nat, Returns(h, m, pos)
  PROVE  IInv'
<1>1. FsInv /\ NoBlockAssertFails /\ HandlesInv
  BY DEF IInv
<1>2. PICK f \in File : f = handle[h].file /\ handle[h] \in [file : File, pos : Nat]
                        /\ din[f] # NoInode
  BY <1>1, HandleIs
<1>3. Becomes(f, m) /\ Sound(Before(f), m)
  BY <1>2 DEF Returns
<1>4. /\ FsInv' /\ NoBlockAssertFails'
      /\ \A g \in File : din[g] # NoInode => din'[g] # NoInode
  BY <1>1, <1>3, CallKeeps
<1>5. HandlesInv'
  <2>1. CASE m.ret \in Asserts
    <3>1. handle' = handle
      BY <1>3, <2>1 DEF Becomes
    <3> QED BY <1>1, <1>4, <3>1 DEF HandlesInv
  <2>2. CASE m.ret \notin Asserts
    <3>1. handle' = [handle EXCEPT ![h].pos = pos]
      BY <2>2 DEF Returns
    <3>2. /\ handle'[h] = [handle[h] EXCEPT !.pos = pos]
          /\ \A g \in Handle \ {h} : handle'[g] = handle[g]
          /\ handle' = [g \in Handle |-> handle'[g]]
      BY <1>1, <3>1 DEF HandlesInv
    <3>3. handle'[h] = [file |-> f, pos |-> pos]
      BY <1>2, <3>2
    <3>4. handle' \in [Handle -> {Closed} \cup [file : File, pos : Nat]]
      <4>1. \A g \in Handle : handle'[g] \in {Closed} \cup [file : File, pos : Nat]
        BY <1>1, <3>2, <3>3 DEF HandlesInv
      <4> QED BY <3>2, <4>1
    <3>5. ASSUME NEW g \in Handle, handle'[g] # Closed PROVE din'[handle'[g].file] # NoInode
      <4>1. CASE g = h
        BY <1>2, <1>4, <3>3, <4>1
      <4>2. CASE g # h
        <5>1. handle'[g] = handle[g] /\ handle[g] # Closed
          BY <3>2, <3>5, <4>2
        <5>2. handle[g].file \in File /\ din[handle[g].file] # NoInode
          BY <1>1, <5>1, HandleIs
        <5> QED BY <1>4, <5>1, <5>2
      <4> QED BY <4>1, <4>2
    <3> QED BY <3>4, <3>5 DEF HandlesInv
  <2> QED BY <2>1, <2>2
<1> QED BY <1>4, <1>5 DEF IInv

LEMMA WriteKeeps ==
  ASSUME IInv, NEW h \in Handle, NEW n \in Lengths, NEW b \in Byte, Write(h, n, b)
  PROVE  IInv'
<1>1. PICK m : /\ m = WriteNolock(Mounted(handle[h].file), handle[h].pos, n, b)
               /\ Returns(h, m, handle[h].pos + m.alen)
  BY DEF Write
<1>2. FsInv /\ HandlesInv /\ up /\ handle[h] # Closed /\ n \in Nat \ {0}
  BY Sizes, SizesAssumption DEF IInv, Write, Running
<1>3. PICK f \in File, pos \in Nat : f = handle[h].file /\ pos = handle[h].pos
  BY <1>2, HandleIs
<1>4. PICK x, r : x = Before(f) /\ r = Mounted(f)
  OBVIOUS
<1>5. Sound(x, m)
  <2>1. Sound(x, r) /\ Fresh(r)
    BY <1>2, <1>4, MountedSound
  <2> QED BY <1>1, <1>2, <1>3, <1>4, <2>1, WriteFile
<1>6. pos + m.alen \in Nat
  BY <1>5, Fields DEF Sound
<1> QED BY <1>1, <1>2, <1>3, <1>4, <1>5, <1>6, ReturnsKeeps

LEMMA ReadKeeps ==
  ASSUME IInv, NEW h \in Handle, NEW n \in Lengths, Read(h, n)
  PROVE  IInv'
<1>1. PICK m : /\ m = ReadNolock(Mounted(handle[h].file), handle[h].pos, n)
               /\ Returns(h, m, handle[h].pos + m.alen)
  BY DEF Read
<1>2. FsInv /\ HandlesInv /\ up /\ handle[h] # Closed /\ n \in Nat \ {0}
  BY SizesAssumption DEF IInv, Read, Running
<1>3. PICK f \in File, pos \in Nat : f = handle[h].file /\ pos = handle[h].pos
  BY <1>2, HandleIs
<1>4. PICK x, r : x = Before(f) /\ r = Mounted(f)
  OBVIOUS
<1>5. Sound(x, m)
  <2>1. Sound(x, r) /\ Fresh(r)
    BY <1>2, <1>4, MountedSound
  <2> QED BY <1>1, <1>2, <1>3, <1>4, <2>1, ReadFile
<1>6. pos + m.alen \in Nat
  BY <1>5, Fields DEF Sound
<1> QED BY <1>1, <1>2, <1>3, <1>4, <1>5, <1>6, ReturnsKeeps

LEMMA SeekKeeps ==
  ASSUME IInv, NEW h \in Handle, NEW to \in Positions, Seek(h, to)
  PROVE  IInv'
<1>1. PICK m : /\ m = sfs_tryseek(Mounted(handle[h].file), to)
               /\ Returns(h, m, IF Good(m) THEN to ELSE handle[h].pos)
  BY DEF Seek
<1>2. FsInv /\ HandlesInv /\ up /\ handle[h] # Closed /\ to \in Nat
  BY SizesAssumption DEF IInv, Seek, Running
<1>3. PICK f \in File, pos \in Nat : f = handle[h].file /\ pos = handle[h].pos
  BY <1>2, HandleIs
<1>4. PICK x, r : x = Before(f) /\ r = Mounted(f)
  OBVIOUS
<1>5. Sound(x, m)
  <2>1. Sound(x, r) /\ r.ret = "ok"
    BY <1>2, <1>4, MountedSound
  <2> QED BY <1>1, <1>2, <1>3, <1>4, <2>1, TrySeek
<1>6. PICK p \in Nat : p = IF Good(m) THEN to ELSE handle[h].pos
  BY <1>2, <1>3
<1> QED BY <1>1, <1>2, <1>3, <1>4, <1>5, <1>6, ReturnsKeeps

LEMMA FsyncKeeps ==
  ASSUME IInv, NEW h \in Handle, Fsync(h)
  PROVE  IInv'
<1>1. FsInv /\ HandlesInv /\ NoBlockAssertFails /\ handle[h] # Closed
  BY DEF IInv, Fsync
<1>2. PICK f \in File : f = handle[h].file /\ din[f] # NoInode
  BY <1>1, HandleIs
<1>3. /\ disk' = Flushed(f) /\ dirty' = [dirty EXCEPT ![f] = FALSE]
      /\ UNCHANGED <<free, unused, superDirty, data, din, handle, up, panic>>
  BY <1>2 DEF Fsync
<1>4. FsInv'
  BY <1>1, <1>2, <1>3, WriteBackKeeps
<1> QED BY <1>1, <1>3, <1>4 DEF IInv, HandlesInv, NoBlockAssertFails

LEMMA CloseKeeps ==
  ASSUME IInv, NEW h \in Handle, Close(h)
  PROVE  IInv'
<1>1. FsInv /\ HandlesInv /\ NoBlockAssertFails /\ handle[h] # Closed
  BY DEF IInv, Close
<1>2. PICK f \in File : f = handle[h].file /\ din[f] # NoInode
  BY <1>1, HandleIs
<1>3. /\ handle' = [handle EXCEPT ![h] = Closed]
      /\ UNCHANGED <<free, unused, superDirty, data, up, panic>>
  BY DEF Close
<1>4. handle' \in [Handle -> {Closed} \cup [file : File, pos : Nat]]
  BY <1>1, <1>3 DEF HandlesInv
<1>5. \A g \in Handle : handle'[g] # Closed => g # h /\ handle'[g] = handle[g]
  BY <1>1, <1>3 DEF HandlesInv
<1>6. NoBlockAssertFails'
  BY <1>1, <1>3 DEF NoBlockAssertFails
<1>7. CASE \E g \in Handle \ {h} : handle[g] # Closed /\ handle[g].file = f
  <2>1. UNCHANGED <<din, dirty, disk>>
    BY <1>2, <1>7 DEF Close
  <2>2. FsInv'
    BY <1>1, <1>3, <2>1 DEF FsInv, FsType, Inodes, Inode
  <2>3. HandlesInv'
    BY <1>1, <1>4, <1>5, <2>1 DEF HandlesInv
  <2> QED BY <1>6, <2>2, <2>3 DEF IInv
<1>8. CASE ~ \E g \in Handle \ {h} : handle[g] # Closed /\ handle[g].file = f
  <2>1. /\ disk' = Flushed(f) /\ din' = [din EXCEPT ![f] = NoInode]
        /\ dirty' = [dirty EXCEPT ![f] = FALSE]
    BY <1>2, <1>8 DEF Close
  <2>2. FsInv'
    BY <1>1, <1>2, <1>3, <2>1, WriteBackKeeps
  <2>3. ASSUME NEW g \in Handle, handle'[g] # Closed PROVE din'[handle'[g].file] # NoInode
    <3>1. g # h /\ handle'[g] = handle[g] /\ handle[g] # Closed
      BY <1>5, <2>3
    <3>2. handle[g].file \in File /\ din[handle[g].file] # NoInode
      BY <1>1, <3>1, HandleIs
    <3>3. handle[g].file # f
      BY <1>8, <3>1
    <3>4. din \in [File -> Din \cup {NoInode}]
      BY <1>1 DEF FsInv, FsType
    <3> QED BY <2>1, <3>1, <3>2, <3>3, <3>4
  <2>4. HandlesInv'
    BY <1>4, <2>3 DEF HandlesInv
  <2> QED BY <1>6, <2>2, <2>4 DEF IInv
<1> QED BY <1>7, <1>8

LEMMA ShutdownKeeps ==
  ASSUME IInv, Shutdown
  PROVE  IInv'
<1>1. FsInv /\ FsType
  BY DEF IInv, FsInv
<1>2. /\ superDirty' = FALSE /\ up' = FALSE
      /\ UNCHANGED <<free, unused, data, din, dirty, handle, panic>>
  BY DEF Shutdown
<1>3. disk'.free = free /\ disk'.unused = unused /\ disk'.din = disk.din
      /\ disk' \in [din : [File -> Din], free : SUBSET Block, unused : Int]
  <2>1. CASE superDirty
    <3>1. disk' = [din |-> disk.din, free |-> free, unused |-> unused]
      BY <1>1, <2>1 DEF Shutdown, FsType
    <3> QED BY <1>1, <3>1 DEF FsType
  <2>2. CASE ~ superDirty
    BY <1>1, <2>2 DEF Shutdown, FsInv, FsType
  <2> QED BY <2>1, <2>2
<1>4. \A f \in File : Inode(f)' = Inode(f)
  BY <1>2, <1>3 DEF Inode
<1>5. Inodes' = Inodes
  BY <1>4 DEF Inodes
<1>6. FsType'
  BY <1>1, <1>2, <1>3 DEF FsType
<1>7. FsInv'
  BY <1>1, <1>2, <1>3, <1>4, <1>5, <1>6 DEF FsInv
<1> QED BY <1>2, <1>7 DEF IInv, HandlesInv, NoBlockAssertFails

\* The next boot finds the free map that the shutdown wrote.
LEMMA MountKeeps ==
  ASSUME IInv, Mount
  PROVE  IInv'
<1>1. FsInv /\ FsType /\ ~ superDirty
  BY DEF IInv, FsInv, Mount
<1>2. free = disk.free /\ unused = disk.unused /\ unused = Cardinality(free)
  BY <1>1 DEF FsInv
<1>3. /\ free' = free /\ unused' = unused /\ panic' = "no" /\ up' = TRUE
      /\ UNCHANGED <<superDirty, data, din, dirty, disk, handle>>
  BY <1>2 DEF Mount
<1>4. FsInv'
  BY <1>1, <1>3 DEF FsInv, FsType, Inodes, Inode
<1> QED BY <1>3, <1>4 DEF IInv, HandlesInv, NoBlockAssertFails

LEMMA NextKeeps == ASSUME IInv, [Next]_vars PROVE IInv'
<1>1. CASE UNCHANGED vars
  BY <1>1 DEF vars, IInv, FsInv, FsType, Inodes, Inode, HandlesInv, NoBlockAssertFails
<1>2. ASSUME NEW h \in Handle, NEW f \in File, NEW t \in BOOLEAN, NEW a \in BOOLEAN,
             Open(h, f, t, a)
      PROVE  IInv'
  BY <1>2, OpenKeeps
<1>3. ASSUME NEW h \in Handle, NEW n \in Lengths, NEW b \in Byte, Write(h, n, b)
      PROVE  IInv'
  BY <1>3, WriteKeeps
<1>4. ASSUME NEW h \in Handle, NEW n \in Lengths, Read(h, n) PROVE IInv'
  BY <1>4, ReadKeeps
<1>5. ASSUME NEW h \in Handle, NEW pos \in Positions, Seek(h, pos) PROVE IInv'
  BY <1>5, SeekKeeps
<1>6. ASSUME NEW h \in Handle, Fsync(h) PROVE IInv'
  BY <1>6, FsyncKeeps
<1>7. ASSUME NEW h \in Handle, Close(h) PROVE IInv'
  BY <1>7, CloseKeeps
<1>8. CASE Shutdown
  BY <1>8, ShutdownKeeps
<1>9. CASE Mount
  BY <1>9, MountKeeps
<1> QED BY <1>1, <1>2, <1>3, <1>4, <1>5, <1>6, <1>7, <1>8, <1>9 DEF Next

-----------------------------------------------------------------------------
(* What follows.                                                            *)

(* The file system stays sound through every call, every call that fails     *)
(* half way, shutdown and boot: blocks are free or at one place, files have  *)
(* no holes, an open handle has its inode in memory, and what is not marked   *)
(* dirty is on the disk.                                                    *)
THEOREM FsInvariant == Spec => []IInv
<1>1. Init => IInv
  BY InitInv
<1>2. IInv /\ [Next]_vars => IInv'
  BY NextKeeps
<1> QED BY <1>1, <1>2, PTL DEF Spec

\* BlockOf, where the code looks a block up, is the name at that place.
LEMMA BlockOfIs ==
  ASSUME FsType, NEW f \in File, NEW i \in 0 .. Top - 1
  PROVE  i \in Place /\ BlockOf(f, i) = Names(Inodes[f], data)[i]
<1>1. i \in Place /\ i # Top /\ i < NDIRECT + NENTRY
  BY Sizes DEF Place, Top
<1>2. Inodes[f] = Inode(f)
  BY InodeIs
<1> QED BY <1>1, <1>2 DEF BlockOf, Names

\* The places that name b, as pairs.
LEMMA OwnersAre ==
  ASSUME FsType, NEW b
  PROVE  Owners(b) = {u \in File \X Place : Names(Inodes[u[1]], data)[u[2]] = b}
<1>1. PICK O : O = {u \in File \X Place : Names(Inodes[u[1]], data)[u[2]] = b}
  OBVIOUS
<1>2. /\ Top \in Place /\ ~ (Top < NDIRECT) /\ NDIRECT + NENTRY = Top
      /\ 0 .. NDIRECT + NENTRY - 1 = 0 .. Top - 1
      /\ \A i : i \in Place <=> i \in 0 .. Top - 1 \/ i = Top
  BY Sizes DEF Place, Top
<1>3. \A f \in File : Names(Inodes[f], data)[Top] = Inode(f).indirect
  BY <1>2, InodeIs DEF Names
<1>4. \A f \in File, i \in 0 .. Top - 1 : BlockOf(f, i) = Names(Inodes[f], data)[i]
  BY BlockOfIs
<1>5. ASSUME NEW u \in Owners(b) PROVE u \in O
  <2>1. CASE u \in File \X (0 .. NDIRECT + NENTRY - 1) /\ BlockOf(u[1], u[2]) = b
    BY <1>1, <1>2, <1>4, <2>1
  <2>2. CASE \E f \in File : u = <<f, NDIRECT + NENTRY>> /\ Inode(f).indirect = b
    <3>1. PICK f \in File : u = <<f, Top>> /\ Inode(f).indirect = b
      BY <1>2, <2>2
    <3>2. u[1] = f /\ u[2] = Top /\ u \in File \X Place
      BY <1>2, <3>1
    <3> QED BY <1>1, <1>3, <3>1, <3>2
  <2> QED BY <2>1, <2>2 DEF Owners
<1>6. ASSUME NEW u \in O PROVE u \in Owners(b)
  <2>1. PICK f \in File, i \in Place : u = <<f, i>> /\ Names(Inodes[f], data)[i] = b
    BY <1>1
  <2>2. CASE i = Top
    <3>1. f \in {g \in File : Inode(g).indirect = b} /\ u = <<f, NDIRECT + NENTRY>>
      BY <1>2, <1>3, <2>1, <2>2
    <3> QED BY <3>1 DEF Owners
  <2>3. CASE i # Top
    <3>1. i \in 0 .. NDIRECT + NENTRY - 1 /\ BlockOf(f, i) = b
      BY <1>2, <1>4, <2>1, <2>3
    <3> QED BY <2>1, <3>1 DEF Owners
  <2> QED BY <2>2, <2>3
<1> QED BY <1>1, <1>5, <1>6

LEMMA OneOwner ==
  ASSUME FsInv
  PROVE  BlocksExact
<1>1. FsType /\ Apart(Inodes, data, free)
  BY DEF FsInv
<1>2. ASSUME NEW b \in Block
      PROVE  Cardinality(Owners(b)) = IF b \in free THEN 0 ELSE 1
  <2>1. PICK O : O = Owners(b)
    OBVIOUS
  <2>2. O = {u \in File \X Place : Names(Inodes[u[1]], data)[u[2]] = b}
    BY <1>1, <2>1, OwnersAre
  <2>3. CASE b \in free
    <3>1. \A u \in File \X Place : Names(Inodes[u[1]], data)[u[2]] # b
      BY <1>1, <2>3 DEF Apart
    <3>2. O = {}
      BY <2>2, <3>1
    <3> QED BY <2>1, <2>3, <3>2, FS_EmptySet
  <2>4. CASE b \notin free
    <3>1. PICK f \in File, i \in Place : Names(Inodes[f], data)[i] = b
      BY <1>1, <2>4 DEF Apart
    <3>2. b # 0
      BY Sizes
    <3>3. ASSUME NEW g \in File, NEW j \in Place, Names(Inodes[g], data)[j] = b
          PROVE  g = f /\ j = i
      BY <1>1, <3>1, <3>2, <3>3 DEF Apart
    <3>4. O = {<<f, i>>}
      BY <2>2, <3>1, <3>3
    <3> QED BY <2>1, <2>4, <3>4, FS_Singleton
  <2> QED BY <2>3, <2>4
<1> QED BY <1>2 DEF BlocksExact, FsInv

(* BlocksExact: a block is free, or at one place in one file, and the super  *)
(* block counts the free ones, whatever calls failed half way.  So two files *)
(* never share a block, no block is lost, and sfs_do_mount finds the count   *)
(* it asserts.                                                              *)
THEOREM BlocksHaveOneOwner == Spec => []BlocksExact
<1>1. IInv => BlocksExact
  BY OneOwner DEF IInv
<1> QED BY <1>1, FsInvariant, PTL

(* CleanMeansOnDisk: what is not marked dirty is on the disk, so that the    *)
(* last close and fs_cleanup, which write only what is marked, lose nothing. *)
THEOREM CleanIsOnDisk == Spec => []CleanMeansOnDisk
<1>1. ASSUME FsInv, NEW f \in File, din[f] # NoInode, ~ dirty[f]
      PROVE  [din[f] EXCEPT !.blocks = 0] = [disk.din[f] EXCEPT !.blocks = 0]
  <2>1. OnDisk(din[f], disk.din[f]) /\ FsType
    BY <1>1 DEF FsInv
  <2>2. PICK d \in Din, e \in Din : d = din[f] /\ e = disk.din[f]
    BY <1>1, <2>1, InodeIs
  <2>3. d.size = e.size /\ d.indirect = e.indirect /\ d.direct = e.direct
    BY <2>1, <2>2 DEF OnDisk
  <2>4. ASSUME NEW c \in Din
        PROVE  [c EXCEPT !.blocks = 0] = [size |-> c.size, blocks |-> 0,
                                          indirect |-> c.indirect, direct |-> c.direct]
    BY DEF Din
  <2>5. [d EXCEPT !.blocks = 0] = [e EXCEPT !.blocks = 0]
    BY <2>3, <2>4
  <2> QED BY <2>2, <2>5
<1>2. IInv => CleanMeansOnDisk
  BY <1>1 DEF IInv, CleanMeansOnDisk, FsInv
<1> QED BY <1>2, FsInvariant, PTL

(* The assertions that a block in use is marked so when it is looked up or   *)
(* freed (sfs_block_inuse), and that the super block counts the free map at  *)
(* the next boot (sfs_do_mount), never fail.                                 *)
THEOREM BlockAssertionsHold == Spec => []NoBlockAssertFails
<1>1. IInv => NoBlockAssertFails
  BY DEF IInv
<1> QED BY <1>1, FsInvariant, PTL

-----------------------------------------------------------------------------
(* Files as programs see them.                                              *)

\* A position lies at one byte of one index.
LEMMA PosAt ==
  ASSUME NEW p \in Nat, NEW n \in Nat, p < BLK * n
  PROVE  /\ p \div BLK \in 0 .. n - 1 /\ p % BLK \in Offset
         /\ At(p \div BLK, p % BLK) = p
<1>1. BLK \in Nat \ {0}
  BY Sizes
<1>2. PICK j \in Nat : j = p \div BLK
  BY <1>1
<1>3. PICK c \in Nat : c = p % BLK /\ c < BLK /\ p = BLK * j + c
  BY <1>1, <1>2
<1>4. c \in Offset /\ At(j, c) = p
  BY <1>1, <1>3 DEF Offset, At
<1>5. ASSUME n <= j PROVE FALSE
  <2>1. PICK d \in Nat : j = n + d
    <3>1. j - n \in Nat /\ j = n + (j - n)
      BY <1>5
    <3> QED BY <3>1
  <2>2. BLK * (n + d) = BLK * n + BLK * d /\ BLK * n \in Nat /\ BLK * d \in Nat
    BY <1>1
  <2> QED BY <1>3, <2>1, <2>2
<1>6. j \in 0 .. n - 1
  BY <1>5
<1> QED BY <1>2, <1>3, <1>4, <1>6

\* The bytes of the file of inode d, on the disk dt.
Bytes(d, dt) == [p \in 1 .. d.size |-> Pages(d, dt)[(p - 1) \div BLK][(p - 1) % BLK]]

\* Byte p of s is at index i, offset c of q.
Finds(q, s, p, i, c) ==
    i \in 0 .. Top - 1 /\ c \in Offset /\ At(i, c) = p - 1 /\ s[p] = q[i][c]

LEMMA PagesAre ==
  ASSUME NEW d, NEW dt \in Data, Names(d, dt) \in [Place -> Number]
  PROVE  Pages(d, dt) \in [0 .. Top - 1 -> [Cell -> Content]]
<1>1. ASSUME NEW i \in 0 .. Top - 1, Names(d, dt)[i] # 0
      PROVE  dt[Names(d, dt)[i]] \in [Cell -> Content]
  <2>1. i \in Place
    BY Sizes DEF Place
  <2> QED BY <1>1, <2>1, Sizes DEF Data
<1>2. Blank \in [Cell -> Content]
  BY Sizes DEF Blank, Content, Number
<1> QED BY <1>1, <1>2 DEF Pages

\* An inode that has a block for each index below its count, and blocks for its
\* size.
Regular(d, dt) ==
    d \in Din /\ dt \in Data /\ Names(d, dt) \in [Place -> Number] /\ Fits(d)

\* The bytes of such a file.
LEMMA BytesAre ==
  ASSUME NEW d, NEW dt, Regular(d, dt), NEW s, s = Bytes(d, dt)
  PROVE  /\ s \in Seq(Content) /\ Len(s) = d.size /\ d.size \in Nat
         /\ \A p \in 1 .. d.size :
                Finds(Pages(d, dt), s, p, (p - 1) \div BLK, (p - 1) % BLK)
<1> USE DEF Regular
<1>1. PICK n \in Nat, B \in 0 .. Top : n = d.size /\ B = d.blocks /\ n <= BLK * B
  BY Sizes DEF Din, Place, Fits
<1>2. PICK q \in [0 .. Top - 1 -> [Cell -> Content]] : q = Pages(d, dt)
  BY PagesAre
<1>3. s = [p \in 1 .. n |-> q[(p - 1) \div BLK][(p - 1) % BLK]]
  BY <1>1, <1>2 DEF Bytes
<1>4. ASSUME NEW p \in 1 .. n
      PROVE  Finds(q, s, p, (p - 1) \div BLK, (p - 1) % BLK)
  <2>1. PICK k \in Nat : k = p - 1 /\ k < BLK * B
    <3>1. PICK E \in Nat : E = BLK * B
      BY <1>1, Sizes
    <3>2. p - 1 \in Nat /\ p - 1 < E
      BY <1>1, <3>1
    <3> QED BY <3>1, <3>2
  <2>2. /\ k \div BLK \in 0 .. B - 1 /\ k % BLK \in Offset
        /\ At(k \div BLK, k % BLK) = k
    BY <2>1, PosAt
  <2>3. k \div BLK \in 0 .. Top - 1
    BY <2>2, Sizes
  <2>4. s[p] = q[k \div BLK][k % BLK]
    BY <1>3, <2>1
  <2> QED BY <2>1, <2>2, <2>3, <2>4 DEF Finds
<1>5. ASSUME NEW p \in 1 .. n PROVE s[p] \in Content
  BY <1>4, Sizes DEF Finds, Offset
<1>6. s \in [1 .. n -> Content]
  BY <1>3, <1>5
<1>7. s \in Seq(Content) /\ Len(s) = n
  BY <1>6
<1> QED BY <1>1, <1>2, <1>4, <1>7

\* How the model looks up the block of an index, and the bytes of a file.
Look(d, dt, index) ==
    IF index < NDIRECT THEN d.direct[index]
    ELSE IF index < NDIRECT + NENTRY /\ d.indirect # 0
    THEN dt[d.indirect][index - NDIRECT] ELSE 0
Seen(d, dt) ==
    [p \in 1 .. d.size |-> IF Look(d, dt, (p - 1) \div BLK) = 0 THEN 0
                           ELSE dt[Look(d, dt, (p - 1) \div BLK)][(p - 1) % BLK]]

LEMMA SeenAre ==
  ASSUME NEW d \in Din, NEW dt, Fits(d)
  PROVE  Seen(d, dt) = Bytes(d, dt)
<1>1. PICK n \in Nat, B \in 0 .. Top : n = d.size /\ B = d.blocks /\ n <= BLK * B
  BY Sizes DEF Din, Place, Fits
<1>2. ASSUME NEW p \in 1 .. n
      PROVE  (IF Look(d, dt, (p - 1) \div BLK) = 0 THEN 0
              ELSE dt[Look(d, dt, (p - 1) \div BLK)][(p - 1) % BLK])
                = Pages(d, dt)[(p - 1) \div BLK][(p - 1) % BLK]
  <2>1. PICK k \in Nat : k = p - 1 /\ k < BLK * B
    <3>1. PICK E \in Nat : E = BLK * B
      BY <1>1, Sizes
    <3>2. p - 1 \in Nat /\ p - 1 < E
      BY <1>1, <3>1
    <3> QED BY <3>1, <3>2
  <2>2. k \div BLK \in 0 .. B - 1 /\ k % BLK \in Offset
    BY <2>1, PosAt
  <2>3. PICK i \in 0 .. Top - 1, c \in Cell : i = k \div BLK /\ c = k % BLK
    BY <2>2, Sizes DEF Offset
  <2>4. Names(d, dt)[i] = Look(d, dt, i)
    <3>1. i \in Place /\ i # Top /\ i < NDIRECT + NENTRY
      BY Sizes DEF Place
    <3> QED BY <3>1 DEF Names, Look
  <2>5. Pages(d, dt)[i][c] = IF Look(d, dt, i) = 0 THEN 0 ELSE dt[Look(d, dt, i)][c]
    BY <2>4 DEF Pages, Blank
  <2> QED BY <2>1, <2>3, <2>5
<1> QED BY <1>1, <1>2 DEF Seen, Bytes

LEMMA ContentIs ==
  ASSUME NEW f
  PROVE  ContentOf(f) = Seen(Inode(f), data) /\ ContentOf(f)' = Seen(Inode(f)', data')
BY DEF ContentOf, BlockOf, Seen, Look

\* No byte.
LEMMA NoBytes ==
  ASSUME NEW d, NEW dt, d.size = 0
  PROVE  Bytes(d, dt) = <<>>
<1>1. 1 .. 0 = {}
  OBVIOUS
<1>2. Bytes(d, dt) \in Seq({}) /\ Len(Bytes(d, dt)) = 0
  BY <1>1 DEF Bytes
<1> QED BY <1>2, EmptySeq

\* A write, as FlatFiles has it, is what the bytes of a file show of one.
LEMMA WrittenBytes ==
  ASSUME NEW d, NEW dt, Regular(d, dt), ZeroFrom(Pages(d, dt), d.size),
         NEW e, NEW du, Regular(e, du), NEW pos \in Nat, NEW k \in Nat, NEW b,
         e.size = IF pos + k > d.size THEN pos + k ELSE d.size,
         Wrote(Pages(d, dt), Pages(e, du), pos, pos + k, b)
  PROVE  Bytes(e, du) = Flat!Written(Bytes(d, dt), pos, k, b)
<1>1. PICK s, u : s = Bytes(d, dt) /\ u = Bytes(e, du)
  OBVIOUS
<1>2. PICK q, r : q = Pages(d, dt) /\ r = Pages(e, du)
  OBVIOUS
<1>3. PICK n \in Nat, l \in Nat : n = d.size /\ l = e.size /\ Len(s) = n
  BY <1>1, BytesAre
<1>4. /\ \A p \in 1 .. n : Finds(q, s, p, (p - 1) \div BLK, (p - 1) % BLK)
      /\ \A p \in 1 .. l : Finds(r, u, p, (p - 1) \div BLK, (p - 1) % BLK)
  BY <1>1, <1>2, <1>3, BytesAre
<1>5. ASSUME NEW p \in 1 .. l
      PROVE  u[p] = IF pos < p /\ p <= pos + k THEN b ELSE IF p <= n THEN s[p] ELSE 0
  <2>1. PICK i, c : i = (p - 1) \div BLK /\ c = (p - 1) % BLK
    OBVIOUS
  <2>2. Finds(r, u, p, i, c) /\ (p <= n => Finds(q, s, p, i, c))
    BY <1>3, <1>4, <2>1
  <2>3. i \in 0 .. Top - 1 /\ c \in Offset /\ At(i, c) = p - 1 /\ u[p] = r[i][c]
    BY <2>2 DEF Finds
  <2>4. u[p] = IF pos <= p - 1 /\ p - 1 < pos + k THEN b ELSE q[i][c]
    BY <1>2, <2>3 DEF Wrote
  <2>5. p <= n => s[p] = q[i][c]
    BY <2>2 DEF Finds
  <2>6. ~ (p <= n) => q[i][c] = 0
    <3>1. ~ (p <= n) => p - 1 >= n
      BY <1>3
    <3> QED BY <1>2, <1>3, <2>3, <3>1 DEF ZeroFrom
  <2> QED BY <1>3, <2>4, <2>5, <2>6
<1>6. u = [p \in 1 .. l |-> u[p]]
  BY <1>1, <1>3 DEF Bytes
<1>7. Flat!Larger(Len(s), pos + k) = l
  BY <1>3 DEF Flat!Larger
<1>8. u = [p \in 1 .. l |-> IF pos < p /\ p <= pos + k THEN b
                            ELSE IF p <= n THEN s[p] ELSE 0]
  BY <1>5, <1>6
<1>9. u = Flat!Written(s, pos, k, b)
  BY <1>3, <1>7, <1>8 DEF Flat!Written
<1> QED BY <1>1, <1>9

\* A read gives the bytes from pos on.
LEMMA ReadBytes ==
  ASSUME NEW d, NEW dt, Regular(d, dt), NEW pos \in Nat, NEW k \in Nat, pos + k <= d.size,
         NEW buf \in Seq(Content), Holds(Pages(d, dt), buf, pos, pos + k)
  PROVE  buf = SubSeq(Bytes(d, dt), pos + 1, pos + k)
<1>1. PICK s : s = Bytes(d, dt)
  OBVIOUS
<1>2. PICK q : q = Pages(d, dt)
  OBVIOUS
<1>3. PICK n \in Nat : n = d.size /\ s \in Seq(Content) /\ Len(s) = n
  BY <1>1, BytesAre
<1>4. \A p \in 1 .. n : Finds(q, s, p, (p - 1) \div BLK, (p - 1) % BLK)
  BY <1>1, <1>2, <1>3, BytesAre
<1>5. Len(buf) = k
  BY DEF Holds
<1>6. PICK v : v = SubSeq(s, pos + 1, pos + k)
  OBVIOUS
<1>7. /\ v \in Seq(Content) /\ Len(v) = k
      /\ \A i \in 1 .. k : v[i] = s[pos + i]
  <2>1. pos + 1 \in Int /\ pos + k \in Int
    OBVIOUS
  <2>2. \A i \in pos + 1 .. pos + k : s[i] \in Content
    BY <1>3
  <2>3. /\ v \in Seq(Content)
        /\ Len(v) = IF pos + 1 <= pos + k THEN pos + k - (pos + 1) + 1 ELSE 0
        /\ \A i \in 1 .. pos + k - (pos + 1) + 1 : v[i] = s[pos + 1 + i - 1]
    BY <1>6, <2>1, <2>2, SubSeqProperties
  <2>4. \A i \in 1 .. k : i \in 1 .. pos + k - (pos + 1) + 1 /\ pos + 1 + i - 1 = pos + i
    OBVIOUS
  <2> QED BY <2>3, <2>4
<1>8. ASSUME NEW i \in 1 .. k PROVE buf[i] = v[i]
  <2>1. PICK p \in 1 .. n : p = pos + i
    BY <1>3
  <2>2. PICK j, c : j = (p - 1) \div BLK /\ c = (p - 1) % BLK
    OBVIOUS
  <2>3. j \in 0 .. Top - 1 /\ c \in Offset /\ At(j, c) = p - 1 /\ s[p] = q[j][c]
    BY <1>4, <2>2 DEF Finds
  <2>4. pos <= p - 1 /\ p - 1 < pos + k /\ (p - 1) - pos + 1 = i
    BY <2>1
  <2>5. buf[i] = q[j][c]
    BY <1>2, <2>3, <2>4 DEF Holds
  <2> QED BY <1>7, <2>1, <2>3, <2>5
<1>9. buf = v
  BY <1>5, <1>7, <1>8, SeqEqual
<1> QED BY <1>1, <1>6, <1>9

-----------------------------------------------------------------------------
(* Calls on flat files.                                                     *)

\* A file that is not torn, its inode in memory and the one on disk, has blocks for
\* its size, and is zero past its end.
FlatInv ==
    \A f \in File \ torn :
        /\ Fits(Inode(f)) /\ Fits(disk.din[f])
        /\ ZeroFrom(Pages(Inode(f), data), Inode(f).size)

FlatStep == FlatInv' /\ [Flat!FlatNext]_<<Contents, handle, got, torn>>

LEMMA RegularIs ==
  ASSUME FsInv, FlatInv, NEW f \in File, f \notin torn
  PROVE  /\ Regular(Inode(f), data) /\ Fits(disk.din[f])
         /\ ZeroFrom(Pages(Inode(f), data), Inode(f).size)
         /\ Contents[f] = Bytes(Inode(f), data)
<1>1. FsType /\ Inode(f) \in Din /\ data \in Data
  <2>1. FsType
    BY DEF FsInv
  <2> QED BY <2>1, InodeIs DEF FsType
<1>2. /\ Fits(Inode(f)) /\ Fits(disk.din[f])
      /\ ZeroFrom(Pages(Inode(f), data), Inode(f).size)
  BY DEF FlatInv
<1>3. Names(Inode(f), data) \in [Place -> Number]
  BY <1>1, InodeIs DEF FsInv, Apart
<1>4. Contents[f] = Seen(Inode(f), data)
  BY ContentIs DEF Contents
<1> QED BY <1>1, <1>2, <1>3, <1>4, SeenAre DEF Regular

LEMMA NewContents ==
  ASSUME NEW f \in File, NEW d \in Din, Inode(f)' = d, Fits(d), f \notin torn'
  PROVE  Contents'[f] = Bytes(d, data')
<1>1. Contents'[f] = Seen(d, data')
  BY ContentIs DEF Contents
<1> QED BY <1>1, SeenAre

LEMMA ContentsAre ==
  /\ Contents = [f \in File |-> Contents[f]] /\ \A f \in torn \cap File : Contents[f] = <<>>
  /\ Contents' = [f \in File |-> Contents'[f]] /\ \A f \in torn' \cap File : Contents'[f] = <<>>
BY DEF Contents

\* What flat files show of a call on f that left m.
LEMMA CallFlat ==
  ASSUME FsInv, FlatInv, NEW f \in File, NEW m, Sound(Before(f), m), Becomes(f, m),
         m.ret \notin Asserts, f \notin torn => ZeroFrom(Pages(m.din, m.data), m.din.size)
  PROVE  /\ FlatInv' /\ free' = m.free
         /\ f \in torn => torn' = torn /\ Contents' = Contents
         /\ f \notin torn /\ ~ Fits(m.din) =>
                torn' = torn \cup {f} /\ Contents' = [Contents EXCEPT ![f] = <<>>]
         /\ f \notin torn /\ Fits(m.din) =>
                /\ torn' = torn /\ Regular(m.din, m.data)
                /\ Contents' = [Contents EXCEPT ![f] = Bytes(m.din, m.data)]
<1>1. FsType /\ Apart(Inodes, data, free)
  BY DEF FsInv
<1>2. /\ free' = m.free /\ data' = m.data /\ din' = [din EXCEPT ![f] = m.din]
      /\ torn' = torn \cup {g \in {f} : m.din.size > BLK * m.din.blocks}
      /\ disk' = disk
  BY DEF Becomes
<1>3. m \in Midway /\ m.din \in Din /\ m.data \in Data /\ m.din # NoInode
  BY Fields, NoInodeIs DEF Sound
<1>4. /\ Inode(f)' = m.din
      /\ \A g \in File \ {f} : Inode(g)' = Inode(g) /\ Inode(g) \in Din
  <2>1. /\ din'[f] = m.din /\ \A g \in File \ {f} : din'[g] = din[g]
    BY <1>1, <1>2 DEF FsType
  <2> QED BY <1>1, <1>2, <1>3, <2>1, InodeIs DEF Inode
<1>5. Names(m.din, m.data) \in [Place -> Number]
  BY SoundFields
<1>6. torn' = IF Fits(m.din) THEN torn ELSE torn \cup {f}
  <2>1. m.din.size \in Int /\ m.din.blocks \in Int
    BY <1>3, Fields, Sizes DEF Place
  <2>2. PICK E \in Int : E = BLK * m.din.blocks
    BY <2>1, Sizes
  <2>3. Fits(m.din) <=> ~ (m.din.size > E)
    BY <2>1, <2>2 DEF Fits
  <2> QED BY <1>2, <2>2, <2>3
<1>7. ASSUME NEW g \in File \ {f}
      PROVE  Pages(Inode(g)', data') = Pages(Inode(g), data)
  <2>1. PICK J : J = Inodes'
    OBVIOUS
  <2>2. Changes(Inodes, data, J, data', f)
    <3>1. \A k \in File \ {f} : J[k] = Inodes[k] /\ Inodes[k] \in Din
      BY <1>1, <1>4, <2>1, InodeIs DEF Inodes
    <3>2. \A b \in Others(Inodes, data, f) : data'[b] = data[b]
      BY <1>2 DEF Sound, Before
    <3> QED BY <3>1, <3>2 DEF Changes
  <2>3. Names(J[g], data') = Names(Inodes[g], data)
    BY <1>1, <2>2, OthersStay
  <2>4. J[g] = Inode(g)' /\ Inodes[g] = Inode(g)
    BY <2>1 DEF Inodes
  <2>5. PICK N : N = Names(Inode(g), data) /\ N = Names(Inode(g)', data')
    BY <2>3, <2>4
  <2>6. ASSUME NEW i \in 0 .. Top - 1, N[i] # 0 PROVE data'[N[i]] = data[N[i]]
    <3>1. i \in Place
      BY Sizes DEF Place
    <3>2. N \in [Place -> Number] /\ N = Names(Inodes[g], data)
      <4>1. Names(Inodes[g], data) \in [Place -> Number]
        BY <1>1 DEF Apart
      <4>2. Names(Inodes[g], data) = Names(Inode(g), data)
        BY <2>4
      <4> QED BY <2>5, <4>1, <4>2
    <3>3. N[i] \in Block
      BY <2>6, <3>1, <3>2, Sizes
    <3>4. N[i] \in Others(Inodes, data, f)
      BY <3>1, <3>2, <3>3 DEF Others
    <3> QED BY <2>2, <3>4 DEF Changes
  <2> QED BY <2>5, <2>6 DEF Pages
<1>8. ASSUME NEW g \in File \ {f} PROVE Contents'[g] = Contents[g]
  <2>1. g \in torn' <=> g \in torn
    BY <1>6
  <2>2. CASE g \in torn
    BY <2>1, <2>2, ContentsAre
  <2>3. CASE g \notin torn
    <3>1. Contents[g] = Bytes(Inode(g), data) /\ Fits(Inode(g))
      BY <2>3, RegularIs DEF Regular
    <3>2. Contents'[g] = Bytes(Inode(g), data')
      BY <1>4, <2>1, <2>3, <3>1, NewContents
    <3>3. Pages(Inode(g), data') = Pages(Inode(g), data)
      BY <1>4, <1>7
    <3> QED BY <3>1, <3>2, <3>3 DEF Bytes
  <2> QED BY <2>2, <2>3
<1>9. FlatInv'
  <2>1. ASSUME NEW g \in File, g \notin torn'
        PROVE  /\ Fits(Inode(g)') /\ Fits(disk'.din[g])
               /\ ZeroFrom(Pages(Inode(g)', data'), Inode(g)'.size)
    <3>1. g \notin torn
      BY <1>6, <2>1
    <3>2. CASE g = f
      <4>1. Fits(m.din)
        BY <1>6, <2>1, <3>2
      <4>2. Fits(disk.din[f])
        BY <3>1, <3>2 DEF FlatInv
      <4> QED BY <1>2, <1>4, <3>1, <3>2, <4>1, <4>2
    <3>3. CASE g # f
      <4>1. /\ Fits(Inode(g)) /\ Fits(disk.din[g])
            /\ ZeroFrom(Pages(Inode(g), data), Inode(g).size)
        BY <3>1 DEF FlatInv
      <4> QED BY <1>2, <1>4, <1>7, <3>3, <4>1
    <3> QED BY <3>2, <3>3
  <2> QED BY <2>1 DEF FlatInv
<1>10. \A v : Contents'[f] = v => Contents' = [Contents EXCEPT ![f] = v]
  BY <1>8, ContentsAre
<1>11. f \in torn => torn' = torn /\ Contents' = Contents
  <2>1. CASE f \in torn
    <3>1. torn' = torn
      BY <1>6, <2>1
    <3>2. Contents'[f] = Contents[f]
      BY <2>1, <3>1, ContentsAre
    <3> QED BY <1>8, <3>1, <3>2, ContentsAre
  <2> QED BY <2>1
<1>12. f \notin torn /\ ~ Fits(m.din) =>
          torn' = torn \cup {f} /\ Contents' = [Contents EXCEPT ![f] = <<>>]
  <2>1. CASE ~ Fits(m.din)
    <3>1. torn' = torn \cup {f} /\ f \in torn' \cap File
      BY <1>6, <2>1
    <3>2. Contents'[f] = <<>>
      BY <3>1, ContentsAre
    <3> QED BY <1>10, <3>1, <3>2
  <2> QED BY <2>1
<1>13. f \notin torn /\ Fits(m.din) =>
          /\ torn' = torn /\ Regular(m.din, m.data)
          /\ Contents' = [Contents EXCEPT ![f] = Bytes(m.din, m.data)]
  <2>1. CASE f \notin torn /\ Fits(m.din)
    <3>1. torn' = torn /\ Regular(m.din, m.data)
      BY <1>3, <1>5, <1>6, <2>1 DEF Regular
    <3>2. Contents'[f] = Bytes(m.din, m.data)
      BY <1>2, <1>3, <1>4, <2>1, <3>1, NewContents
    <3> QED BY <1>10, <3>1, <3>2
  <2> QED BY <2>1
<1> QED BY <1>2, <1>9, <1>11, <1>12, <1>13

\* A call that an assertion stopped is not seen.
LEMMA PanicFlat ==
  ASSUME FlatInv, NEW f, NEW m, Becomes(f, m), m.ret \in Asserts
  PROVE  FlatStep
<1>1. UNCHANGED <<data, din, disk, handle, got, torn>>
  BY DEF Becomes
<1>2. Contents' = Contents
  BY <1>1 DEF Contents, ContentOf, BlockOf, Inode
<1>3. FlatInv'
  BY <1>1 DEF FlatInv, Inode
<1> QED BY <1>1, <1>2, <1>3 DEF FlatStep

\* The handle h moves to p.
LEMMA Turned ==
  ASSUME HandlesInv, NEW h \in Handle, handle[h] # Closed, NEW p \in Nat,
         handle' = [handle EXCEPT ![h].pos = p]
  PROVE  /\ handle'[h] # Closed /\ handle'[h].file = handle[h].file
         /\ \A g \in Handle \ {h} : handle'[g] = handle[g]
         /\ p = handle[h].pos => handle' = handle
<1>1. PICK r \in [file : File, pos : Nat] : r = handle[h]
  BY HandleIs
<1>2. handle = [g \in Handle |-> handle[g]]
  BY DEF HandlesInv
<1>3. /\ handle' = [g \in Handle |-> handle'[g]] /\ handle'[h] = [r EXCEPT !.pos = p]
      /\ \A g \in Handle \ {h} : handle'[g] = handle[g]
  BY <1>1, <1>2
<1>4. /\ [r EXCEPT !.pos = p] \in [file : File, pos : Nat]
      /\ [r EXCEPT !.pos = p].file = r.file
      /\ p = r.pos => [r EXCEPT !.pos = p] = r
  BY <1>1
<1> QED BY <1>1, <1>2, <1>3, <1>4, ClosedAssumption

\* What the calls that move a handle share.
LEMMA TidyMounted ==
  ASSUME FsInv, FlatInv, NEW f \in File, NEW m, m = Mounted(f), f \notin torn
  PROVE  /\ Tidy(m) /\ m \in Midway /\ Regular(m.din, m.data)
         /\ Contents[f] = Bytes(m.din, m.data) /\ Len(Contents[f]) = m.din.size
         /\ m.din.size \in Nat
<1>1. Sound(Before(f), m) /\ m.data = data /\ m.din = Inode(f)
  BY MountedSound
<1>2. /\ Regular(Inode(f), data) /\ ZeroFrom(Pages(Inode(f), data), Inode(f).size)
      /\ Contents[f] = Bytes(Inode(f), data)
  BY RegularIs
<1>3. Len(Contents[f]) = m.din.size /\ m.din.size \in Nat
  BY <1>1, <1>2, BytesAre
<1> QED BY <1>1, <1>2, <1>3 DEF Tidy, Regular, Sound

\* A call that leaves a file as it was.
LEMMA SameContents ==
  ASSUME NEW f \in File, NEW r, NEW m, SameFile(r, m), Contents[f] = Bytes(r.din, r.data),
         Contents' = [Contents EXCEPT ![f] = Bytes(m.din, m.data)]
  PROVE  Contents' = Contents
<1>1. Bytes(m.din, m.data) = Bytes(r.din, r.data)
  BY DEF SameFile, Bytes
<1> QED BY <1>1, ContentsAre

LEMMA OpenFlat ==
  ASSUME IInv, FlatInv, NEW h \in Handle, NEW f \in File, NEW t \in BOOLEAN,
         NEW a \in BOOLEAN, Open(h, f, t, a)
  PROVE  FlatStep
<1>1. PICK r, m : /\ r = Mounted(f) /\ m = IF t THEN sfs_truncfile(r, 0) ELSE r
                  /\ Becomes(f, m)
                  /\ m.ret \notin Asserts =>
                      /\ handle' = [handle EXCEPT ![h] =
                                      [file |-> f, pos |-> IF a THEN m.din.size ELSE 0]]
                      /\ got' = <<>>
  BY DEF Open
<1>2. FsInv /\ HandlesInv /\ handle[h] = Closed
  BY DEF IInv, Open
<1>3. PICK x : x = Before(f)
  OBVIOUS
<1>4. Sound(x, r) /\ r.ret = "ok" /\ Fresh(r)
  BY <1>1, <1>2, <1>3, MountedSound
<1>5. Sound(x, m)
  BY <1>1, <1>4, TruncateFile
<1>6. CASE m.ret \in Asserts
  BY <1>1, <1>6, PanicFlat
<1>7. CASE m.ret \notin Asserts /\ f \in torn
  <2>1. FlatInv' /\ torn' = torn /\ Contents' = Contents
    BY <1>1, <1>2, <1>3, <1>5, <1>7, CallFlat
  <2>2. PICK pos \in Nat : pos = IF a THEN m.din.size ELSE 0
    BY <1>5, Fields DEF Sound
  <2>3. /\ handle'[h] = [file |-> f, pos |-> pos]
        /\ \A g \in Handle \ {h} : handle'[g] = handle[g]
    BY <1>1, <1>2, <1>7, <2>2 DEF HandlesInv
  <2>4. Flat!FlatUseTorn(h)
    BY <1>2, <1>7, <2>1, <2>3, ClosedAssumption DEF Flat!FlatUseTorn
  <2> QED BY <2>1, <2>4 DEF FlatStep, Flat!FlatNext
<1>8. CASE m.ret \notin Asserts /\ f \notin torn
  <2>1. /\ Tidy(r) /\ Contents[f] = Bytes(r.din, r.data) /\ Len(Contents[f]) = r.din.size
    BY <1>1, <1>2, <1>8, TidyMounted
  <2>2. Tidy(m) /\ (t => m.din.size = 0)
    <3>1. CASE t
      <4>1. Truncated(r, m, 0)
        BY <1>1, <1>4, <1>8, <2>1, <3>1, ExactTruncate
      <4> QED BY <4>1 DEF Truncated, Stretched
    <3>2. CASE ~ t
      BY <1>1, <2>1, <3>2
    <3> QED BY <3>1, <3>2
  <2>3. ZeroFrom(Pages(m.din, m.data), m.din.size) /\ Fits(m.din)
    BY <2>2 DEF Tidy
  <2>4. /\ FlatInv' /\ torn' = torn
        /\ Contents' = [Contents EXCEPT ![f] = Bytes(m.din, m.data)]
    BY <1>1, <1>2, <1>3, <1>5, <1>8, <2>3, CallFlat
  <2>5. Contents' = IF t THEN [Contents EXCEPT ![f] = <<>>] ELSE Contents
    <3>1. CASE t
      BY <2>2, <2>4, <3>1, NoBytes
    <3>2. CASE ~ t
      <4>1. SameFile(r, m)
        BY <1>1, <3>2 DEF SameFile
      <4> QED BY <2>1, <2>4, <3>2, <4>1, SameContents
    <3> QED BY <3>1, <3>2
  <2>6. handle' = [handle EXCEPT ![h] =
                     [file |-> f, pos |-> IF a /\ ~ t THEN Len(Contents[f]) ELSE 0]]
    BY <1>1, <1>8, <2>1, <2>2
  <2>7. Flat!FlatOpen(h, f, t, a)
    BY <1>1, <1>2, <1>8, <2>4, <2>5, <2>6 DEF Flat!FlatOpen
  <2> QED BY <2>4, <2>7 DEF FlatStep, Flat!FlatNext
<1> QED BY <1>6, <1>7, <1>8

\* A call on the open handle h: what it starts from, and how it is not seen when an
\* assertion stops it or its file is torn.
LEMMA CallOn ==
  ASSUME IInv, FlatInv, NEW h \in Handle, handle[h] # Closed, NEW f, f = handle[h].file,
         NEW m, Sound(Before(f), m), NEW p \in Nat, Returns(h, m, p),
         m.ret \in Asserts \/ f \in torn
  PROVE  FlatStep
<1>1. FsInv /\ HandlesInv /\ f \in File /\ Becomes(f, m)
  BY HandleIs DEF IInv, Returns
<1>2. CASE m.ret \in Asserts
  BY <1>1, <1>2, PanicFlat
<1>3. CASE m.ret \notin Asserts /\ f \in torn
  <2>1. FlatInv' /\ torn' = torn /\ Contents' = Contents
    BY <1>1, <1>3, CallFlat
  <2>2. /\ handle'[h] # Closed /\ handle'[h].file = f
        /\ \A g \in Handle \ {h} : handle'[g] = handle[g]
    BY <1>1, <1>3, Turned DEF Returns
  <2>3. Flat!FlatUseTorn(h)
    BY <1>3, <2>1, <2>2 DEF Flat!FlatUseTorn
  <2> QED BY <2>1, <2>3 DEF FlatStep, Flat!FlatNext
<1> QED BY <1>2, <1>3

LEMMA WriteFlat ==
  ASSUME IInv, FlatInv, NEW h \in Handle, NEW n \in Lengths, NEW b \in Byte, Write(h, n, b)
  PROVE  FlatStep
<1>2. FsInv /\ HandlesInv /\ handle[h] # Closed /\ n \in Nat \ {0}
  BY SizesAssumption DEF IInv, Write
<1>3. PICK f \in File, pos \in Nat : f = handle[h].file /\ pos = handle[h].pos
  BY <1>2, HandleIs
<1>1. PICK r, m : /\ r = Mounted(f) /\ m = WriteNolock(r, pos, n, b)
                  /\ Returns(h, m, pos + m.alen)
  BY <1>3 DEF Write
<1>4. PICK x : x = Before(f)
  OBVIOUS
<1>5. Sound(x, r) /\ Fresh(r)
  BY <1>1, <1>2, <1>4, MountedSound
<1>6. /\ Sound(x, m)
      /\ \/ m.ret \in Asserts \/ Stored(r, n, pos, b, m)
         \/ pos >= MaxFileSize /\ Idle(r, m)
  BY <1>1, <1>2, <1>5, WriteFile
<1>7. pos + m.alen \in Nat /\ m \in Midway /\ m.alen \in Nat
  BY <1>6, Fields DEF Sound
<1>8. CASE m.ret \in Asserts \/ f \in torn
  BY <1>1, <1>2, <1>3, <1>4, <1>6, <1>7, <1>8, CallOn
<1>9. CASE m.ret \notin Asserts /\ f \notin torn
  <2>1. /\ Tidy(r) /\ r \in Midway /\ Regular(r.din, r.data)
        /\ Contents[f] = Bytes(r.din, r.data) /\ Len(Contents[f]) = r.din.size
    BY <1>1, <1>2, <1>9, TidyMounted
  <2>2. Becomes(f, m) /\ handle' = [handle EXCEPT ![h].pos = pos + m.alen] /\ got' = m.buf
    BY <1>1, <1>3, <1>9 DEF Returns
  <2>3. m.alen = 0 => handle' = handle
    <3>1. PICK p \in Nat : p = pos + m.alen /\ (m.alen = 0 => p = pos)
      BY <1>7
    <3>2. p = handle[h].pos => handle' = handle
      BY <1>2, <2>2, <3>1, Turned
    <3> QED BY <1>3, <3>1, <3>2
  <2>4. r.buf = <<>>
    BY <1>5 DEF Fresh
  <2>5. CASE Idle(r, m)
    <3>1. ZeroFrom(Pages(m.din, m.data), m.din.size) /\ Fits(m.din) /\ SameFile(r, m)
      BY <2>1, <2>5 DEF Tidy, Idle, SameFs, SameFile
    <3>2. /\ FlatInv' /\ torn' = torn
          /\ Contents' = [Contents EXCEPT ![f] = Bytes(m.din, m.data)]
      BY <1>2, <1>4, <1>6, <1>9, <2>2, <3>1, CallFlat
    <3>3. Contents' = Contents
      BY <2>1, <3>1, <3>2, SameContents
    <3>4. Flat!FlatSync(h)
      BY <1>2, <2>2, <2>3, <2>4, <2>5, <3>2, <3>3 DEF Flat!FlatSync, Idle
    <3> QED BY <3>2, <3>4 DEF FlatStep, Flat!FlatNext
  <2>6. CASE Stored(r, n, pos, b, m)
    <3>1. /\ ZeroFrom(Pages(m.din, m.data), m.din.size)
          /\ ~ Fits(m.din) => m.alen = 0 /\ pos > r.din.size
      BY <1>7, <2>1, <2>6, StoredTidy
    <3>2. /\ pos < MaxFileSize /\ m.alen \in 0 .. n /\ m.buf = <<>>
          /\ m.alen < n => Cardinality(m.free) < 2 \/ pos + m.alen = MaxFileSize
      BY <2>4, <2>6 DEF Stored
    <3>3. FlatInv' /\ free' = m.free
      BY <1>2, <1>4, <1>6, <1>9, <2>2, <3>1, CallFlat
    <3>4. CASE Fits(m.din)
      <4>1. /\ torn' = torn /\ Regular(m.din, m.data)
            /\ Contents' = [Contents EXCEPT ![f] = Bytes(m.din, m.data)]
        BY <1>2, <1>4, <1>6, <1>9, <2>2, <3>1, <3>4, CallFlat
      <4>2. ZeroFrom(Pages(r.din, r.data), r.din.size)
        BY <2>1 DEF Tidy
      <4>3. /\ m.din.size = IF pos + m.alen > r.din.size THEN pos + m.alen ELSE r.din.size
            /\ Wrote(Pages(r.din, r.data), Pages(m.din, m.data), pos, pos + m.alen, b)
        BY <2>6 DEF Stored
      <4>4. Bytes(m.din, m.data) = Flat!Written(Bytes(r.din, r.data), pos, m.alen, b)
        BY <1>7, <2>1, <4>1, <4>2, <4>3, WrittenBytes
      <4>5. Contents' = [Contents EXCEPT ![f] = Flat!Written(Contents[f], pos, m.alen, b)]
        BY <2>1, <4>1, <4>4
      <4>6. Flat!Moved(m.alen, n, pos)
        BY <3>2, <3>3 DEF Flat!Moved, Scarce
      <4>7. Flat!FlatWrite(h, n, b)
        BY <1>2, <1>3, <1>9, <2>2, <3>2, <4>1, <4>5, <4>6 DEF Flat!FlatWrite, Flat!Intact
      <4> QED BY <3>3, <4>7 DEF FlatStep, Flat!FlatNext
    <3>5. CASE ~ Fits(m.din)
      <4>1. torn' = torn \cup {f} /\ Contents' = [Contents EXCEPT ![f] = <<>>]
        BY <1>2, <1>4, <1>6, <1>9, <2>2, <3>1, <3>5, CallFlat
      <4>2. m.alen = 0 /\ pos > Len(Contents[f])
        BY <2>1, <3>1, <3>5
      <4>3. Scarce'
        BY <1>2, <1>3, <3>2, <3>3, <4>2, Sizes DEF Scarce
      <4>4. Flat!FlatTear(h)
        BY <1>2, <1>3, <2>2, <2>3, <3>2, <4>1, <4>2, <4>3 DEF Flat!FlatTear
      <4> QED BY <3>3, <4>4 DEF FlatStep, Flat!FlatNext
    <3> QED BY <3>4, <3>5
  <2> QED BY <1>6, <1>9, <2>5, <2>6
<1> QED BY <1>8, <1>9

LEMMA ReadFlat ==
  ASSUME IInv, FlatInv, NEW h \in Handle, NEW n \in Lengths, Read(h, n)
  PROVE  FlatStep
<1>2. FsInv /\ HandlesInv /\ handle[h] # Closed /\ n \in Nat \ {0}
  BY SizesAssumption DEF IInv, Read
<1>3. PICK f \in File, pos \in Nat : f = handle[h].file /\ pos = handle[h].pos
  BY <1>2, HandleIs
<1>1. PICK r, m : /\ r = Mounted(f) /\ m = ReadNolock(r, pos, n)
                  /\ Returns(h, m, pos + m.alen)
  BY <1>3 DEF Read
<1>4. PICK x : x = Before(f)
  OBVIOUS
<1>5. Sound(x, r) /\ Fresh(r)
  BY <1>1, <1>2, <1>4, MountedSound
<1>6. Sound(x, m) /\ Fetched(r, n, pos, m)
  BY <1>1, <1>2, <1>5, ReadFile
<1>7. /\ pos + m.alen \in Nat /\ m \in Midway /\ m.alen \in Nat /\ m.buf \in Seq(Content)
      /\ m.din.blocks \in Nat
  BY <1>6, Fields, Sizes DEF Sound, Place
<1>8. CASE m.ret \in Asserts \/ f \in torn
  BY <1>1, <1>2, <1>3, <1>4, <1>6, <1>7, <1>8, CallOn
<1>9. CASE m.ret \notin Asserts /\ f \notin torn
  <2>1. /\ Tidy(r) /\ r \in Midway /\ Regular(r.din, r.data) /\ r.din.size \in Nat
        /\ Contents[f] = Bytes(r.din, r.data) /\ Len(Contents[f]) = r.din.size
    BY <1>1, <1>2, <1>9, TidyMounted
  <2>2. Becomes(f, m) /\ handle' = [handle EXCEPT ![h].pos = pos + m.alen] /\ got' = m.buf
    BY <1>1, <1>3, <1>9 DEF Returns
  <2>3. Tidy(m) /\ SameFile(r, m)
    BY <1>6, <1>7, <2>1, TidySame DEF Fetched
  <2>4. ZeroFrom(Pages(m.din, m.data), m.din.size) /\ Fits(m.din)
    BY <2>3 DEF Tidy
  <2>5. /\ FlatInv' /\ torn' = torn
        /\ Contents' = [Contents EXCEPT ![f] = Bytes(m.din, m.data)]
    BY <1>2, <1>4, <1>6, <1>9, <2>2, <2>4, CallFlat
  <2>6. Contents' = Contents
    BY <2>1, <2>3, <2>5, SameContents
  <2>7. CASE m.alen = 0 /\ m.buf = r.buf
    <3>1. handle' = handle
      <4>1. PICK p \in Nat : p = pos + m.alen /\ p = pos
        BY <1>7, <2>7
      <4> QED BY <1>2, <1>3, <2>2, <4>1, Turned
    <3>2. got' = <<>>
      BY <1>5, <2>2, <2>7 DEF Fresh
    <3>3. Flat!FlatSync(h)
      BY <1>2, <2>5, <2>6, <3>1, <3>2 DEF Flat!FlatSync
    <3> QED BY <2>5, <3>3 DEF FlatStep, Flat!FlatNext
  <2>8. CASE ~ (m.alen = 0 /\ m.buf = r.buf)
    <3>1. /\ pos < r.din.size
          /\ pos + m.alen = IF pos + n <= r.din.size THEN pos + n ELSE r.din.size
          /\ Holds(Pages(r.din, r.data), m.buf, pos, pos + m.alen)
      BY <1>6, <2>1, <2>8 DEF Fetched, Regular
    <3>2. pos + m.alen <= r.din.size
      BY <1>2, <2>1, <3>1
    <3>3. m.buf = SubSeq(Contents[f], pos + 1, pos + m.alen)
      BY <1>7, <2>1, <3>1, <3>2, ReadBytes
    <3>4. m.alen = Flat!Larger(0, Flat!Smaller(n, Len(Contents[f]) - pos))
      BY <1>2, <1>7, <2>1, <3>1 DEF Flat!Larger, Flat!Smaller
    <3>5. Flat!FlatRead(h, n)
      BY <1>2, <1>3, <1>9, <2>2, <2>5, <2>6, <3>3, <3>4 DEF Flat!FlatRead, Flat!Intact
    <3> QED BY <2>5, <3>5 DEF FlatStep, Flat!FlatNext
  <2> QED BY <2>7, <2>8
<1> QED BY <1>8, <1>9

LEMMA SeekFlat ==
  ASSUME IInv, FlatInv, NEW h \in Handle, NEW to \in Positions, Seek(h, to)
  PROVE  FlatStep
<1>2. FsInv /\ HandlesInv /\ handle[h] # Closed /\ to \in Nat
  BY SizesAssumption DEF IInv, Seek
<1>3. PICK f \in File, pos \in Nat : f = handle[h].file /\ pos = handle[h].pos
  BY <1>2, HandleIs
<1>7. PICK r, m : /\ r = Mounted(f) /\ m = sfs_tryseek(r, to)
                  /\ Returns(h, m, IF m.ret = "ok" THEN to ELSE pos)
  BY <1>3 DEF Seek, Good
<1>1. PICK p \in Nat : /\ r = Mounted(f) /\ m = sfs_tryseek(r, to)
                       /\ p = (IF m.ret = "ok" THEN to ELSE pos)
                       /\ Returns(h, m, p)
  BY <1>2, <1>3, <1>7
<1>4. PICK x : x = Before(f)
  OBVIOUS
<1>5. Sound(x, r) /\ Fresh(r) /\ r.ret = "ok"
  BY <1>1, <1>2, <1>4, MountedSound
<1>6. Sound(x, m)
  BY <1>1, <1>2, <1>5, TrySeek
<1>8. CASE m.ret \in Asserts \/ f \in torn
  BY <1>1, <1>2, <1>3, <1>4, <1>6, <1>8, CallOn
<1>9. CASE m.ret \notin Asserts /\ f \notin torn
  <2>1. /\ Tidy(r) /\ Regular(r.din, r.data) /\ r.din.size \in Nat
        /\ Contents[f] = Bytes(r.din, r.data) /\ Len(Contents[f]) = r.din.size
    BY <1>1, <1>2, <1>9, TidyMounted
  <2>2. Becomes(f, m) /\ handle' = [handle EXCEPT ![h].pos = p] /\ got' = m.buf
    BY <1>1, <1>3, <1>9 DEF Returns
  <2>3. Sought(r, m, to)
    BY <1>1, <1>2, <1>5, <1>9, <2>1, ExactSeek
  <2>4. ZeroFrom(Pages(m.din, m.data), m.din.size) /\ Fits(m.din)
    BY <2>3 DEF Sought, Tidy
  <2>5. /\ FlatInv' /\ torn' = torn /\ free' = m.free /\ Regular(m.din, m.data)
        /\ Contents' = [Contents EXCEPT ![f] = Bytes(m.din, m.data)]
    BY <1>2, <1>4, <1>6, <1>9, <2>2, <2>4, CallFlat
  <2>6. got' = <<>>
    BY <1>5, <2>2, <2>3 DEF Sought, Fresh
  <2>7. CASE m.ret = "ok"
    <3>1. /\ m.din.size = IF to > r.din.size THEN to ELSE r.din.size
          /\ SameBytes(Pages(r.din, r.data), Pages(m.din, m.data))
      BY <2>3, <2>7 DEF Sought
    <3>2. PICK o \in Nat : o = 0 /\ to + o = to
      BY <1>2
    <3>3. Wrote(Pages(r.din, r.data), Pages(m.din, m.data), to, to + o, 0)
      <4>1. ASSUME NEW i \in 0 .. Top - 1, NEW c \in Offset
            PROVE  ~ (to <= At(i, c) /\ At(i, c) < to)
        <5>1. i \in Nat
          BY Sizes
        <5>2. At(i, c) \in Nat
          BY <5>1, AtOrder
        <5> QED BY <1>2, <5>2
      <4> QED BY <3>1, <3>2, <4>1 DEF Wrote, SameBytes
    <3>4. m.din.size = IF to + o > r.din.size THEN to + o ELSE r.din.size
      BY <3>1, <3>2
    <3>5. ZeroFrom(Pages(r.din, r.data), r.din.size)
      BY <2>1 DEF Tidy
    <3>6. Bytes(m.din, m.data) = Flat!Written(Bytes(r.din, r.data), to, o, 0)
      BY <1>2, <2>1, <2>5, <3>3, <3>4, <3>5, WrittenBytes
    <3>7. Contents' = [Contents EXCEPT ![f] = Flat!Written(Contents[f], to, 0, 0)]
      BY <2>1, <2>5, <3>2, <3>6
    <3>8. Flat!FlatSeek(h, to)
      BY <1>1, <1>2, <1>3, <1>9, <2>2, <2>5, <2>6, <2>7, <3>7
         DEF Flat!FlatSeek, Flat!Intact
    <3> QED BY <2>5, <3>8 DEF FlatStep, Flat!FlatNext
  <2>8. CASE m.ret # "ok"
    <3>1. SameFile(r, m) /\ (Cardinality(m.free) < 2 \/ to >= MaxFileSize)
      BY <2>3, <2>8 DEF Sought
    <3>2. Contents' = Contents
      BY <2>1, <2>5, <3>1, SameContents
    <3>3. handle' = handle
      BY <1>1, <1>2, <1>3, <2>2, <2>8, Turned
    <3>4. Scarce' \/ to >= MaxFileSize
      BY <2>5, <3>1 DEF Scarce
    <3>5. Flat!FlatSeek(h, to)
      BY <1>2, <1>3, <1>9, <2>5, <2>6, <3>2, <3>3, <3>4 DEF Flat!FlatSeek, Flat!Intact
    <3> QED BY <2>5, <3>5 DEF FlatStep, Flat!FlatNext
  <2> QED BY <2>7, <2>8
<1> QED BY <1>8, <1>9

\* Writing an inode back, and letting go of it, is not seen.
LEMMA WriteBackFlat ==
  ASSUME FsInv, FlatInv, NEW f \in File, din[f] # NoInode, disk' = Flushed(f),
         din' = din \/ din' = [din EXCEPT ![f] = NoInode],
         UNCHANGED <<data, torn>>
  PROVE  FlatInv' /\ Contents' = Contents
<1>1. FsType /\ din[f] \in Din
  BY InodeIs DEF FsInv
<1>2. PICK d : d = Inode(f) /\ d = din[f]
  BY DEF Inode
<1>3. PICK e : e = disk'.din[f]
  OBVIOUS
<1>4. /\ e.size = d.size /\ e.indirect = d.indirect /\ e.direct = d.direct
      /\ e \in Din /\ e \in {d, disk.din[f]}
      /\ \A g \in File \ {f} : disk'.din[g] = disk.din[g]
  <2>1. CASE dirty[f]
    <3>1. disk' = [din |-> [disk.din EXCEPT ![f] = d], free |-> disk.free,
                   unused |-> disk.unused]
      BY <1>1, <1>2, <2>1 DEF Flushed, FsType
    <3>2. e = d /\ \A g \in File \ {f} : disk'.din[g] = disk.din[g]
      BY <1>1, <1>3, <3>1 DEF FsType
    <3> QED BY <1>1, <1>2, <3>2
  <2>2. CASE ~ dirty[f]
    <3>1. disk' = disk
      BY <2>2 DEF Flushed
    <3>2. OnDisk(d, e)
      BY <1>2, <1>3, <2>2, <3>1 DEF FsInv
    <3> QED BY <1>3, <3>1, <3>2 DEF OnDisk
  <2> QED BY <2>1, <2>2
<1>5. /\ \A g \in File \ {f} : Inode(g)' = Inode(g)
      /\ Inode(f)' \in {d, e}
  <2>1. \A g \in File \ {f} : din'[g] = din[g]
    BY <1>1 DEF FsType
  <2>2. din'[f] \in {d, NoInode}
    BY <1>1, <1>2 DEF FsType
  <2> QED BY <1>3, <1>4, <2>1, <2>2 DEF Inode
<1>6. /\ Names(e, data) = Names(d, data) /\ Seen(e, data) = Seen(d, data)
      /\ Pages(e, data) = Pages(d, data)
  BY <1>4 DEF Names, Pages, Seen, Look
<1>7. \A g \in File : Seen(Inode(g)', data') = Seen(Inode(g), data)
  BY <1>2, <1>5, <1>6
<1>8. \A g \in File : ContentOf(g)' = ContentOf(g)
  BY <1>7, ContentIs
<1>9. Contents' = Contents
  BY <1>8 DEF Contents
<1>10. ASSUME NEW g \in File, g \notin torn
       PROVE  /\ Fits(Inode(g)') /\ Fits(disk'.din[g])
              /\ ZeroFrom(Pages(Inode(g)', data), Inode(g)'.size)
  <2>1. /\ Fits(Inode(g)) /\ Fits(disk.din[g])
        /\ ZeroFrom(Pages(Inode(g), data), Inode(g).size)
    BY <1>10 DEF FlatInv
  <2>2. CASE g = f
    <3>1. Fits(d) /\ Fits(e) /\ ZeroFrom(Pages(d, data), d.size)
      BY <1>2, <1>4, <2>1, <2>2
    <3>2. ZeroFrom(Pages(e, data), e.size)
      BY <1>4, <1>6, <3>1
    <3> QED BY <1>3, <1>5, <2>2, <3>1, <3>2
  <2>3. CASE g # f
    BY <1>4, <1>5, <2>1, <2>3
  <2> QED BY <2>2, <2>3
<1>11. FlatInv'
  BY <1>10 DEF FlatInv
<1> QED BY <1>9, <1>11

LEMMA FsyncFlat ==
  ASSUME IInv, FlatInv, NEW h \in Handle, Fsync(h)
  PROVE  FlatStep
<1>1. FsInv /\ HandlesInv /\ handle[h] # Closed
  BY DEF IInv, Fsync
<1>2. PICK f \in File : f = handle[h].file /\ din[f] # NoInode
  BY <1>1, HandleIs
<1>3. /\ disk' = Flushed(f) /\ got' = <<>>
      /\ UNCHANGED <<data, din, handle, torn>>
  BY <1>2 DEF Fsync
<1>4. FlatInv' /\ Contents' = Contents
  BY <1>1, <1>2, <1>3, WriteBackFlat
<1>5. Flat!FlatSync(h)
  BY <1>1, <1>3, <1>4 DEF Flat!FlatSync
<1> QED BY <1>4, <1>5 DEF FlatStep, Flat!FlatNext

LEMMA CloseFlat ==
  ASSUME IInv, FlatInv, NEW h \in Handle, Close(h)
  PROVE  FlatStep
<1>1. FsInv /\ HandlesInv /\ handle[h] # Closed
  BY DEF IInv, Close
<1>2. PICK f \in File : f = handle[h].file /\ din[f] # NoInode
  BY <1>1, HandleIs
<1>3. handle' = [handle EXCEPT ![h] = Closed] /\ got' = <<>> /\ UNCHANGED <<data, torn>>
  BY DEF Close
<1>4. FlatInv' /\ Contents' = Contents
  <2>1. CASE \E g \in Handle \ {h} : handle[g] # Closed /\ handle[g].file = f
    <3>1. UNCHANGED <<din, dirty, disk>>
      BY <1>2, <2>1 DEF Close
    <3> QED BY <1>3, <3>1 DEF FlatInv, Contents, ContentOf, BlockOf, Inode
  <2>2. CASE ~ \E g \in Handle \ {h} : handle[g] # Closed /\ handle[g].file = f
    <3>1. disk' = Flushed(f) /\ din' = [din EXCEPT ![f] = NoInode]
      BY <1>2, <2>2 DEF Close
    <3> QED BY <1>1, <1>2, <1>3, <3>1, WriteBackFlat
  <2> QED BY <2>1, <2>2
<1>5. Flat!FlatClose(h)
  BY <1>1, <1>3, <1>4 DEF Flat!FlatClose
<1> QED BY <1>4, <1>5 DEF FlatStep, Flat!FlatNext

\* Neither a shutdown nor the next boot is seen.
LEMMA BootFlat ==
  ASSUME IInv, FlatInv, Shutdown \/ Mount \/ UNCHANGED vars
  PROVE  FlatStep
<1>1. FsType
  BY DEF IInv, FsInv
<1>2. disk'.din = disk.din /\ UNCHANGED <<data, din, handle, got, torn>>
  <2>1. CASE Shutdown
    <3>1. disk'.din = disk.din
      BY <1>1, <2>1 DEF Shutdown, FsType
    <3> QED BY <2>1, <3>1 DEF Shutdown
  <2>2. CASE Mount
    BY <2>2 DEF Mount
  <2>3. CASE UNCHANGED vars
    BY <2>3 DEF vars
  <2> QED BY <2>1, <2>2, <2>3
<1>3. \A f : Inode(f)' = Inode(f)
  BY <1>2 DEF Inode
<1>4. Contents' = Contents
  BY <1>2, <1>3, ContentIs DEF Contents
<1>5. FlatInv'
  BY <1>2, <1>3 DEF FlatInv
<1> QED BY <1>2, <1>4, <1>5 DEF FlatStep

LEMMA NextFlat == ASSUME IInv, FlatInv, [Next]_vars PROVE FlatStep
<1>1. ASSUME NEW h \in Handle, NEW f \in File, NEW t \in BOOLEAN, NEW a \in BOOLEAN,
             Open(h, f, t, a)
      PROVE  FlatStep
  BY <1>1, OpenFlat
<1>2. ASSUME NEW h \in Handle, NEW n \in Lengths, NEW b \in Byte, Write(h, n, b)
      PROVE  FlatStep
  BY <1>2, WriteFlat
<1>3. ASSUME NEW h \in Handle, NEW n \in Lengths, Read(h, n) PROVE FlatStep
  BY <1>3, ReadFlat
<1>4. ASSUME NEW h \in Handle, NEW pos \in Positions, Seek(h, pos) PROVE FlatStep
  BY <1>4, SeekFlat
<1>5. ASSUME NEW h \in Handle, Fsync(h) PROVE FlatStep
  BY <1>5, FsyncFlat
<1>6. ASSUME NEW h \in Handle, Close(h) PROVE FlatStep
  BY <1>6, CloseFlat
<1>7. CASE Shutdown \/ Mount \/ UNCHANGED vars
  BY <1>7, BootFlat
<1> QED BY <1>1, <1>2, <1>3, <1>4, <1>5, <1>6, <1>7 DEF Next

LEMMA InitFlat == ASSUME Init PROVE FlatInv /\ Flat!FlatInit
<1>1. \A f \in File : Inode(f) = EmptyDin /\ disk.din[f] = EmptyDin
  BY DEF Init, Inode
<1>2. EmptyDin.size = 0 /\ EmptyDin.blocks = 0 /\ EmptyDin.indirect = 0
  BY DEF EmptyDin
<1>3. Fits(EmptyDin)
  BY <1>2, Sizes DEF Fits
<1>4. ASSUME NEW i \in 0 .. Top - 1 PROVE Pages(EmptyDin, data)[i] = Blank
  <2>1. i \in Place /\ i # Top /\ (i < NDIRECT => i \in 0 .. NDIRECT - 1)
    BY Sizes DEF Place
  <2>2. Names(EmptyDin, data)[i] = 0
    BY <2>1 DEF Names, EmptyDin
  <2> QED BY <2>2 DEF Pages
<1>5. ZeroFrom(Pages(EmptyDin, data), EmptyDin.size)
  BY <1>4, Sizes DEF ZeroFrom, Blank, Offset
<1>6. FlatInv
  BY <1>1, <1>3, <1>5 DEF FlatInv
<1>7. ASSUME NEW f \in File PROVE Contents[f] = <<>>
  <2>1. Seen(EmptyDin, data) = <<>>
    <3>1. 1 .. EmptyDin.size = {}
      BY <1>2
    <3>2. Seen(EmptyDin, data) \in Seq({}) /\ Len(Seen(EmptyDin, data)) = 0
      BY <1>2, <3>1 DEF Seen
    <3> QED BY <3>2, EmptySeq
  <2> QED BY <1>1, <2>1, ContentIs DEF Contents
<1>8. Contents = [f \in File |-> <<>>]
  BY <1>7, ContentsAre
<1>9. Scarce \in BOOLEAN
  BY DEF Scarce
<1> QED BY <1>6, <1>8, <1>9 DEF Flat!FlatInit, Init

(* The simple file system implements flat files, for every number of files,  *)
(* handles and blocks, every shape of an inode and every size of a block: a   *)
(* write changes what it says and no other file, a gap reads as zero, a read  *)
(* gives what was written, calls fall short only on a full disk or where      *)
(* files end, and shutdown and boot are not seen.                            *)
THEOREM SfsKeepsFiles == Spec => ImplementsFlatFiles
<1>1. Init => FlatInv /\ Flat!FlatInit
  BY InitFlat
<1>2. IInv /\ FlatInv /\ [Next]_vars => FlatStep
  BY NextFlat
<1>3. FlatStep => FlatInv' /\ [Flat!FlatNext]_<<Contents, handle, got, torn>>
  BY DEF FlatStep
<1> QED BY <1>1, <1>2, <1>3, FsInvariant, PTL DEF Spec, ImplementsFlatFiles, Flat!FlatSpec

=============================================================================
