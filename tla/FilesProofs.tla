----------------------------- MODULE FilesProofs -----------------------------
(***************************************************************************)
(* What is proved of open files, for every set of processes and files and   *)
(* every size of the table: the counts of each inode are exact, and a       *)
(* program starts with the standard descriptors only.                       *)
(***************************************************************************)
EXTENDS Files, NatProofs

Open(n) == [status |-> "opened", count |-> 1, node |-> n]
File == {NoFile} \cup {Open(n) : n \in Inode}

\* States in the middle of a call.
Midway == [table : [Fd -> File], inode : [Inode -> [ref : Int, open : Int]],
           loaded : SUBSET Inode, ok : BOOLEAN, within : BOOLEAN]

\* t is s with the counts of n changed by dRef and dOpen.
Counts(s, t, n, dRef, dOpen) ==
    \A m \in Inode : /\ t.inode[m].ref = s.inode[m].ref + (IF m = n THEN dRef ELSE 0)
                     /\ t.inode[m].open = s.inode[m].open + (IF m = n THEN dOpen ELSE 0)

-----------------------------------------------------------------------------
(* What each operator of the code does to the table and to the counts.      *)

\* A count of one inode is written.
LEMMA RefWritten ==
  ASSUME NEW f \in [Inode -> [ref : Int, open : Int]], NEW n \in Inode, NEW d \in Int,
         NEW g, g = [f EXCEPT ![n].ref = f[n].ref + d]
  PROVE  /\ g \in [Inode -> [ref : Int, open : Int]]
         /\ \A m \in Inode : /\ g[m].ref = f[m].ref + (IF m = n THEN d ELSE 0)
                             /\ g[m].open = f[m].open
<1>1. g \in [Inode -> [ref : Int, open : Int]]
  OBVIOUS
<1>2. \A m \in Inode : g[m].ref = f[m].ref + (IF m = n THEN d ELSE 0)
  OBVIOUS
<1>3. \A m \in Inode : g[m].open = f[m].open
  OBVIOUS
<1> QED BY <1>1, <1>2, <1>3

LEMMA OpenWritten ==
  ASSUME NEW f \in [Inode -> [ref : Int, open : Int]], NEW n \in Inode, NEW d \in Int,
         NEW g, g = [f EXCEPT ![n].open = f[n].open + d]
  PROVE  /\ g \in [Inode -> [ref : Int, open : Int]]
         /\ \A m \in Inode : /\ g[m].open = f[m].open + (IF m = n THEN d ELSE 0)
                             /\ g[m].ref = f[m].ref
<1>1. g \in [Inode -> [ref : Int, open : Int]]
  OBVIOUS
<1>2. \A m \in Inode : g[m].open = f[m].open + (IF m = n THEN d ELSE 0)
  OBVIOUS
<1>3. \A m \in Inode : g[m].ref = f[m].ref
  OBVIOUS
<1> QED BY <1>1, <1>2, <1>3

LEMMA RefInc ==
  ASSUME NEW s \in Midway, NEW n \in Inode, NEW t, t = vop_ref_inc(s, n)
  PROVE  /\ t \in Midway /\ t.table = s.table
         /\ t.ok = s.ok
         /\ t.loaded = s.loaded \cup {n}
         /\ Counts(s, t, n, 1, 0)
<1>1. /\ t.table = s.table
      /\ t.ok = s.ok
      /\ t.loaded = s.loaded \cup {n}
      /\ t.inode = [s.inode EXCEPT ![n].ref = s.inode[n].ref + 1]
  BY DEF vop_ref_inc, Midway
<1>2. t = [table |-> t.table, inode |-> t.inode, loaded |-> t.loaded, ok |-> t.ok,
            within |-> s.within]
  BY DEF vop_ref_inc, Midway
<1>3. /\ s.inode \in [Inode -> [ref : Int, open : Int]]
      /\ s.inode[n].ref + 1 = s.inode[n].ref + (1)
  BY DEF Midway
<1>4. /\ t.inode \in [Inode -> [ref : Int, open : Int]]
      /\ \A m \in Inode : /\ t.inode[m].ref = s.inode[m].ref + (IF m = n THEN 1 ELSE 0)
                          /\ t.inode[m].open = s.inode[m].open
  BY <1>1, <1>3, RefWritten
<1>5. t \in Midway
  <2>1. t.table \in [Fd -> File] /\ t.loaded \in SUBSET Inode /\ t.ok \in BOOLEAN
        /\ s.within \in BOOLEAN
    BY <1>1 DEF Midway
  <2> QED BY <1>2, <1>4, <2>1 DEF Midway
<1>6. Counts(s, t, n, 1, 0)
  BY <1>3, <1>4 DEF Counts
<1> QED BY <1>1, <1>5, <1>6

LEMMA RefDec ==
  ASSUME NEW s \in Midway, NEW n \in Inode, NEW t, t = vop_ref_dec(s, n)
  PROVE  /\ t \in Midway /\ t.table = s.table
         /\ t.ok = (s.ok /\ s.inode[n].ref > 0
                     /\ (s.inode[n].ref = 1 => s.inode[n].open = 0))
         /\ t.loaded = (IF s.inode[n].ref = 1 THEN s.loaded \ {n} ELSE s.loaded)
         /\ Counts(s, t, n, -1, 0)
<1>1. /\ t.table = s.table
      /\ t.ok = (s.ok /\ s.inode[n].ref > 0 /\ (s.inode[n].ref = 1 => s.inode[n].open = 0))
      /\ t.loaded = (IF s.inode[n].ref = 1 THEN s.loaded \ {n} ELSE s.loaded)
      /\ t.inode = [s.inode EXCEPT ![n].ref = s.inode[n].ref - 1]
  BY DEF vop_ref_dec, Asserting, Midway
<1>2. t = [table |-> t.table, inode |-> t.inode, loaded |-> t.loaded, ok |-> t.ok,
            within |-> s.within]
  BY DEF vop_ref_dec, Asserting, Midway
<1>3. /\ s.inode \in [Inode -> [ref : Int, open : Int]]
      /\ s.inode[n].ref - 1 = s.inode[n].ref + (-1)
  BY DEF Midway
<1>4. /\ t.inode \in [Inode -> [ref : Int, open : Int]]
      /\ \A m \in Inode : /\ t.inode[m].ref = s.inode[m].ref + (IF m = n THEN -1 ELSE 0)
                          /\ t.inode[m].open = s.inode[m].open
  BY <1>1, <1>3, RefWritten
<1>5. t \in Midway
  <2>1. t.table \in [Fd -> File] /\ t.loaded \in SUBSET Inode /\ t.ok \in BOOLEAN
        /\ s.within \in BOOLEAN
    BY <1>1 DEF Midway
  <2> QED BY <1>2, <1>4, <2>1 DEF Midway
<1>6. Counts(s, t, n, -1, 0)
  BY <1>3, <1>4 DEF Counts
<1> QED BY <1>1, <1>5, <1>6

LEMMA OpenInc ==
  ASSUME NEW s \in Midway, NEW n \in Inode, NEW t, t = vop_open_inc(s, n)
  PROVE  /\ t \in Midway /\ t.table = s.table
         /\ t.ok = s.ok
         /\ t.loaded = s.loaded
         /\ Counts(s, t, n, 0, 1)
<1>1. /\ t.table = s.table
      /\ t.ok = s.ok
      /\ t.loaded = s.loaded
      /\ t.inode = [s.inode EXCEPT ![n].open = s.inode[n].open + 1]
  BY DEF vop_open_inc, Midway
<1>2. t = [table |-> t.table, inode |-> t.inode, loaded |-> t.loaded, ok |-> t.ok,
            within |-> s.within]
  BY DEF vop_open_inc, Midway
<1>3. /\ s.inode \in [Inode -> [ref : Int, open : Int]]
      /\ s.inode[n].open + 1 = s.inode[n].open + (1)
  BY DEF Midway
<1>4. /\ t.inode \in [Inode -> [ref : Int, open : Int]]
      /\ \A m \in Inode : /\ t.inode[m].open = s.inode[m].open + (IF m = n THEN 1 ELSE 0)
                          /\ t.inode[m].ref = s.inode[m].ref
  BY <1>1, <1>3, OpenWritten
<1>5. t \in Midway
  <2>1. t.table \in [Fd -> File] /\ t.loaded \in SUBSET Inode /\ t.ok \in BOOLEAN
        /\ s.within \in BOOLEAN
    BY <1>1 DEF Midway
  <2> QED BY <1>2, <1>4, <2>1 DEF Midway
<1>6. Counts(s, t, n, 0, 1)
  BY <1>3, <1>4 DEF Counts
<1> QED BY <1>1, <1>5, <1>6

LEMMA Check ==
  ASSUME NEW s \in Midway, NEW n \in Inode, NEW refs \in Int,
         NEW t, t = inode_check(s, n, refs)
  PROVE  /\ t \in Midway /\ t.table = s.table
         /\ t.ok = (s.ok /\ s.inode[n].ref + refs >= s.inode[n].open
                     /\ s.inode[n].open >= 0)
         /\ t.loaded = s.loaded /\ t.inode = s.inode
<1>1. /\ t.table = s.table /\ t.loaded = s.loaded /\ t.inode = s.inode
      /\ t.ok = (s.ok /\ s.inode[n].ref + refs >= s.inode[n].open /\ s.inode[n].open >= 0)
      /\ t.within = (s.within /\ s.inode[n].ref + refs < MAX_INODE_COUNT
                      /\ s.inode[n].open < MAX_INODE_COUNT)
  BY DEF inode_check, Asserting, Midway
<1>2. t = [table |-> t.table, inode |-> t.inode, loaded |-> t.loaded, ok |-> t.ok,
           within |-> t.within]
  BY DEF inode_check, Asserting, Midway
<1>3. /\ t.table \in [Fd -> File] /\ t.loaded \in SUBSET Inode
      /\ t.inode \in [Inode -> [ref : Int, open : Int]]
      /\ t.ok \in BOOLEAN /\ t.within \in BOOLEAN
  BY <1>1 DEF Midway
<1> QED BY <1>1, <1>2, <1>3 DEF Midway

LEMMA OpenDec ==
  ASSUME NEW s \in Midway, NEW n \in Inode, NEW t, t = vop_open_dec(s, n)
  PROVE  /\ t \in Midway /\ t.table = s.table
         /\ t.ok = (s.ok /\ s.inode[n].open > 0
                     /\ (s.inode[n].open = 1 => s.inode[n].ref >= 0))
         /\ t.loaded = s.loaded
         /\ Counts(s, t, n, 0, -1)
<1>1. PICK u : /\ u = [Asserting(s, s.inode[n].open > 0) EXCEPT !.inode[n].open = @ - 1]
               /\ t = IF u.inode[n].open = 0 THEN inode_check(u, n, 0) ELSE u
  BY DEF vop_open_dec
<1>2. /\ u.table = s.table
      /\ u.ok = (s.ok /\ s.inode[n].open > 0)
      /\ u.loaded = s.loaded
      /\ u.inode = [s.inode EXCEPT ![n].open = s.inode[n].open - 1]
  BY <1>1 DEF Asserting, Midway
<1>3. u = [table |-> u.table, inode |-> u.inode, loaded |-> u.loaded, ok |-> u.ok,
           within |-> s.within]
  BY <1>1 DEF Asserting, Midway
<1>4. /\ s.inode \in [Inode -> [ref : Int, open : Int]]
      /\ s.inode[n].open - 1 = s.inode[n].open + (-1)
  BY DEF Midway
<1>5. /\ u.inode \in [Inode -> [ref : Int, open : Int]]
      /\ \A m \in Inode : /\ u.inode[m].open = s.inode[m].open + (IF m = n THEN -1 ELSE 0)
                          /\ u.inode[m].ref = s.inode[m].ref
  BY <1>2, <1>4, OpenWritten
<1>6. u \in Midway
  <2>1. u.table \in [Fd -> File] /\ u.loaded \in SUBSET Inode /\ u.ok \in BOOLEAN
        /\ s.within \in BOOLEAN
    BY <1>2 DEF Midway
  <2> QED BY <1>3, <1>5, <2>1 DEF Midway
<1>7. Counts(s, u, n, 0, -1)
  BY <1>4, <1>5 DEF Counts
<1>8. s.inode[n].open \in Int /\ s.inode[n].ref \in Int
      /\ u.inode[n].open = s.inode[n].open - 1 /\ u.inode[n].ref = s.inode[n].ref
  BY <1>4, <1>5
<1>9. CASE u.inode[n].open = 0
  <2>1. t = inode_check(u, n, 0)
    BY <1>1, <1>9, Zenon
  <2>2. /\ t \in Midway /\ t.table = u.table /\ t.loaded = u.loaded /\ t.inode = u.inode
        /\ t.ok = (u.ok /\ u.inode[n].ref + 0 >= u.inode[n].open /\ u.inode[n].open >= 0)
    <3>1. 0 \in Int
      OBVIOUS
    <3> QED BY <1>6, <2>1, <3>1, Check
  <2>3. Counts(s, t, n, 0, -1)
    BY <1>7, <2>2 DEF Counts
  <2>4. /\ s.inode[n].open = 1 /\ u.inode[n].open >= 0
        /\ u.inode[n].ref + 0 >= u.inode[n].open <=> s.inode[n].ref >= 0
    BY <1>8, <1>9
  <2>5. t.ok = (s.ok /\ s.inode[n].open > 0
                 /\ (s.inode[n].open = 1 => s.inode[n].ref >= 0))
    BY <1>2, <2>2, <2>4, Zenon
  <2> QED BY <1>2, <2>2, <2>3, <2>5
<1>10. CASE u.inode[n].open # 0
  <2>1. t = u
    BY <1>1, <1>10, Zenon
  <2>2. s.inode[n].open # 1
    BY <1>8, <1>10
  <2> QED BY <1>2, <1>6, <1>7, <2>1, <2>2
<1> QED BY <1>9, <1>10

LEMMA ArrayOpen ==
  ASSUME NEW s \in Midway, NEW n \in Inode, NEW fd \in Fd, NEW t, t = fd_array_open(s, fd, n)
  PROVE  /\ t \in Midway /\ t.table = [s.table EXCEPT ![fd] = Open(n)]
         /\ t.ok = (s.ok /\ s.table[fd].count = 0)
         /\ t.loaded = s.loaded /\ t.inode = s.inode
BY DEF fd_array_open, Asserting, Midway, File, Open

-----------------------------------------------------------------------------
(* The counts are exact in the middle of a call too: the rest of the system *)
(* opens n o[n] times and refers to it r[n] times.                          *)

Here(t, n) == Cardinality({fd \in Fd : t[fd].node = n})

Exact(s, o, r) ==
    /\ s \in Midway /\ s.ok = TRUE
    /\ \A n \in Inode : /\ s.inode[n].open = Here(s.table, n) + o[n]
                        /\ s.inode[n].ref = Here(s.table, n) + r[n]
                        /\ n \in s.loaded <=> s.inode[n].ref > 0

\* What the rest of the system may hold: whoever opens a file refers to it.
Holds(o, r) == /\ o \in [Inode -> Int] /\ r \in [Inode -> Int]
               /\ \A n \in Inode : 0 <= o[n] /\ o[n] <= r[n]

Plus(f, n, d) == [m \in Inode |-> f[m] + (IF m = n THEN d ELSE 0)]

LEMMA NodesDiffer ==
  /\ None \notin Inode /\ NFD \in Nat /\ NFD > 2 /\ Fd = 0 .. NFD - 1
  /\ \A n \in Inode : Open(n) # NoFile /\ Open(n) \in File /\ Open(n).node = n
                      /\ Open(n).status = "opened" /\ Open(n).count = 1
  /\ NoFile \in File /\ NoFile.node = None /\ NoFile.status = "none" /\ NoFile.count = 0
  /\ \A f \in File : f = NoFile \/ \E n \in Inode : f = Open(n)
BY FilesAssumption DEF Inode, Fd, Open, NoFile, File

LEMMA HereIsNat ==
  ASSUME NEW t, NEW n
  PROVE  Here(t, n) \in Nat
<1>1. {fd \in Fd : t[fd].node = n} \in SUBSET Fd /\ IsFiniteSet(Fd)
  BY NodesDiffer, FS_Interval
<1> QED BY <1>1, FS_Subset, FS_CardinalityType DEF Here

LEMMA HereWith ==
  ASSUME NEW t \in [Fd -> File], NEW fd \in Fd, NEW n \in Inode, t[fd] = NoFile,
         NEW u, u = [t EXCEPT ![fd] = Open(n)]
  PROVE  /\ u \in [Fd -> File]
         /\ \A m \in Inode : Here(u, m) = Here(t, m) + (IF m = n THEN 1 ELSE 0)
<1>1. u \in [Fd -> File]
  BY NodesDiffer
<1>2. ASSUME NEW m \in Inode
      PROVE  Here(u, m) = Here(t, m) + (IF m = n THEN 1 ELSE 0)
  <2>1. PICK S, T : S = {x \in Fd : t[x].node = m} /\ T = {x \in Fd : u[x].node = m}
    OBVIOUS
  <2>2. IsFiniteSet(S) /\ Here(t, m) = Cardinality(S) /\ Here(u, m) = Cardinality(T)
    <3>1. S \in SUBSET Fd /\ IsFiniteSet(Fd)
      BY <2>1, NodesDiffer, FS_Interval
    <3> QED BY <3>1, <2>1, FS_Subset DEF Here
  <2>3. fd \notin S /\ Cardinality(S) \in Nat
    BY <2>1, <2>2, NodesDiffer, FS_CardinalityType
  <2>4. T = IF m = n THEN S \cup {fd} ELSE S
    <3>1. \A x \in Fd : u[x] = IF x = fd THEN Open(n) ELSE t[x]
      OBVIOUS
    <3>2. Open(n).node = n /\ NoFile.node # m
      BY NodesDiffer
    <3> QED BY <2>1, <3>1, <3>2
  <2>5. Cardinality(S \cup {fd}) = Cardinality(S) + 1
    BY <2>2, <2>3, FS_AddElement
  <2> QED BY <2>2, <2>3, <2>4, <2>5
<1> QED BY <1>1, <1>2

\* A reference taken or given back that is not a descriptor's.
LEMMA RefTaken ==
  ASSUME NEW s, NEW o, NEW r, Exact(s, o, r), Holds(o, r), NEW n \in Inode,
         NEW t, t = vop_ref_inc(s, n)
  PROVE  /\ Exact(t, o, Plus(r, n, 1)) /\ Holds(o, Plus(r, n, 1))
         /\ t.table = s.table
<1>1. s \in Midway /\ s.ok = TRUE
  BY DEF Exact
<1>2. /\ t \in Midway /\ t.table = s.table /\ t.ok = s.ok
      /\ t.loaded = s.loaded \cup {n} /\ Counts(s, t, n, 1, 0)
  BY <1>1, RefInc
<1>3. PICK q : q = Plus(r, n, 1)
  OBVIOUS
<1>4. \A m \in Inode :
        /\ s.inode[m].open = Here(s.table, m) + o[m]
        /\ s.inode[m].ref = Here(s.table, m) + r[m]
        /\ m \in s.loaded <=> s.inode[m].ref > 0
        /\ o[m] \in Int /\ r[m] \in Int /\ 0 <= o[m] /\ o[m] <= r[m]
        /\ q[m] = r[m] + (IF m = n THEN 1 ELSE 0)
        /\ Here(s.table, m) \in Nat
        /\ t.inode[m].ref = s.inode[m].ref + (IF m = n THEN 1 ELSE 0)
        /\ t.inode[m].open = s.inode[m].open + (IF m = n THEN 0 ELSE 0)
  BY <1>2, <1>3, HereIsNat DEF Exact, Holds, Plus, Counts
<1>5. Holds(o, q)
  <2>1. q \in [Inode -> Int] /\ o \in [Inode -> Int]
    BY <1>3, <1>4 DEF Plus, Holds
  <2> QED BY <2>1, <1>4 DEF Holds
<1>6. ASSUME NEW m \in Inode
      PROVE  /\ t.inode[m].open = Here(t.table, m) + o[m]
             /\ t.inode[m].ref = Here(t.table, m) + q[m]
             /\ m \in t.loaded <=> t.inode[m].ref > 0
  BY <1>2, <1>4
<1> QED BY <1>1, <1>2, <1>3, <1>5, <1>6 DEF Exact

\* No check finds less references than openings.
LEMMA Checks ==
  ASSUME NEW s, NEW o, NEW r, Exact(s, o, r), Holds(o, r), NEW n \in Inode,
         NEW refs \in Nat, NEW t, t = inode_check(s, n, refs)
  PROVE  Exact(t, o, r) /\ t.table = s.table
<1>1. s \in Midway /\ s.ok = TRUE
  BY DEF Exact
<1>2. /\ t \in Midway /\ t.table = s.table
      /\ t.ok = (s.ok /\ s.inode[n].ref + refs >= s.inode[n].open /\ s.inode[n].open >= 0)
      /\ t.loaded = s.loaded /\ t.inode = s.inode
  BY <1>1, Check
<1>3. s.inode[n].ref + refs >= s.inode[n].open /\ s.inode[n].open >= 0
  <2>1. /\ s.inode[n].open = Here(s.table, n) + o[n]
        /\ s.inode[n].ref = Here(s.table, n) + r[n]
        /\ o[n] \in Int /\ r[n] \in Int /\ 0 <= o[n] /\ o[n] <= r[n]
        /\ Here(s.table, n) \in Nat
    BY HereIsNat DEF Exact, Holds
  <2> QED BY <2>1
<1>4. t.ok = TRUE
  BY <1>1, <1>2, <1>3
<1> QED BY <1>2, <1>4 DEF Exact

\* A descriptor is opened with the reference that was taken for it.
LEMMA OpensReferred ==
  ASSUME NEW s, NEW o, NEW r, NEW n \in Inode, Exact(s, o, Plus(r, n, 1)), Holds(o, r),
         NEW fd \in Fd, s.table[fd] = NoFile,
         NEW t, t = fd_array_open(vop_open_inc(s, n), fd, n)
  PROVE  /\ Exact(t, o, r)
         /\ t.table = [s.table EXCEPT ![fd] = Open(n)]
<1>1. PICK b : b = vop_open_inc(s, n)
  OBVIOUS
<1>2. s \in Midway /\ s.ok = TRUE
  BY DEF Exact
<1>3. /\ b \in Midway /\ b.table = s.table /\ b.ok = s.ok
      /\ b.loaded = s.loaded /\ Counts(s, b, n, 0, 1)
  BY <1>1, <1>2, OpenInc
<1>4. /\ t \in Midway /\ t.table = [b.table EXCEPT ![fd] = Open(n)]
      /\ t.ok = (b.ok /\ b.table[fd].count = 0)
      /\ t.loaded = b.loaded /\ t.inode = b.inode
  BY <1>1, <1>3, ArrayOpen
<1>5. t.table = [s.table EXCEPT ![fd] = Open(n)] /\ t.ok = TRUE
  BY <1>2, <1>3, <1>4, NodesDiffer
<1>6. s.table \in [Fd -> File]
  BY <1>2 DEF Midway
<1>7. \A m \in Inode : /\ Here(t.table, m) = Here(s.table, m) + (IF m = n THEN 1 ELSE 0)
                       /\ Here(s.table, m) \in Nat
  BY <1>5, <1>6, HereWith, HereIsNat
<1>8. ASSUME NEW m \in Inode
      PROVE  /\ t.inode[m].open = Here(t.table, m) + o[m]
             /\ t.inode[m].ref = Here(t.table, m) + r[m]
             /\ m \in t.loaded <=> t.inode[m].ref > 0
  <2>1. /\ s.inode[m].open = Here(s.table, m) + o[m]
        /\ s.inode[m].ref = Here(s.table, m) + Plus(r, n, 1)[m]
        /\ m \in s.loaded <=> s.inode[m].ref > 0
    BY DEF Exact
  <2>2. /\ o[m] \in Int /\ r[m] \in Int
        /\ Plus(r, n, 1)[m] = r[m] + (IF m = n THEN 1 ELSE 0)
    BY DEF Holds, Plus
  <2>3. /\ t.inode[m].ref = s.inode[m].ref + (IF m = n THEN 0 ELSE 0)
        /\ t.inode[m].open = s.inode[m].open + (IF m = n THEN 1 ELSE 0)
        /\ t.loaded = s.loaded
    BY <1>3, <1>4 DEF Counts
  <2> QED BY <2>1, <2>2, <2>3, <1>7
<1> QED BY <1>4, <1>5, <1>8 DEF Exact

\* A descriptor is opened: by dup, by fork.
LEMMA Opens ==
  ASSUME NEW s, NEW o, NEW r, Exact(s, o, r), Holds(o, r), NEW fd \in Fd, NEW n \in Inode,
         s.table[fd] = NoFile,
         NEW t, t = fd_array_open(vop_open_inc(vop_ref_inc(s, n), n), fd, n)
  PROVE  /\ Exact(t, o, r)
         /\ t.table = [s.table EXCEPT ![fd] = Open(n)]
<1>1. PICK a : a = vop_ref_inc(s, n)
  OBVIOUS
<1>2. Exact(a, o, Plus(r, n, 1)) /\ a.table = s.table
  BY <1>1, RefTaken
<1> QED BY <1>1, <1>2, OpensReferred

\* A lookup takes a reference, whatever it looks at.
LEMMA LooksUp ==
  ASSUME NEW s, NEW o, NEW r, Exact(s, o, r), Holds(o, r), NEW n \in Inode,
         NEW t, t = vfs_lookup(s, n)
  PROVE  /\ Exact(t, o, Plus(r, n, 1)) /\ Holds(o, Plus(r, n, 1))
         /\ t.table = s.table
<1>1. PICK a : /\ a = IF n \in SfsFile THEN inode_check(s, root, 1) ELSE s
               /\ t = vop_ref_inc(a, n)
  BY DEF vfs_lookup
<1>2. root \in Inode
  BY DEF Inode
<1>3. Exact(a, o, r) /\ a.table = s.table
  BY <1>1, <1>2, Checks
<1> QED BY <1>1, <1>3, RefTaken

\* A descriptor is closed, with its open file.
LEMMA Closes ==
  ASSUME NEW s, NEW o, NEW r, Exact(s, o, r), Holds(o, r), NEW fd \in Fd, NEW n \in Inode,
         s.table[fd] = Open(n), NEW t, t = fd_array_close(s, fd)
  PROVE  /\ Exact(t, o, r)
         /\ t.table = [s.table EXCEPT ![fd] = NoFile]
<1>1. PICK a, b : /\ a = vop_open_dec(s, n) /\ b = vop_ref_dec(a, n)
                  /\ t = [b EXCEPT !.table[fd] = NoFile]
  <2>1. s.table[fd].count = 1 /\ s.table[fd].node = n
    BY NodesDiffer
  <2>2. t = fd_array_free(s, fd)
    BY <2>1 DEF fd_array_close
  <2> QED BY <2>1, <2>2 DEF fd_array_free, vfs_close
<1>2. s \in Midway /\ s.ok = TRUE
  BY DEF Exact
<1>3. /\ a \in Midway /\ a.table = s.table
      /\ s.inode[n].open > 0 /\ s.inode[n].ref >= 0 => a.ok = TRUE
      /\ a.loaded = s.loaded /\ Counts(s, a, n, 0, -1)
  BY <1>1, <1>2, OpenDec
<1>4. /\ b \in Midway /\ b.table = a.table
      /\ b.ok = (a.ok /\ a.inode[n].ref > 0 /\ (a.inode[n].ref = 1 => a.inode[n].open = 0))
      /\ b.loaded = (IF a.inode[n].ref = 1 THEN a.loaded \ {n} ELSE a.loaded)
      /\ Counts(a, b, n, -1, 0)
  BY <1>1, <1>3, RefDec
<1>5. /\ t \in Midway /\ t.table = [s.table EXCEPT ![fd] = NoFile]
      /\ t.ok = b.ok /\ t.loaded = b.loaded /\ t.inode = b.inode
  <2>1. t.table = [b.table EXCEPT ![fd] = NoFile] /\ t.ok = b.ok /\ t.loaded = b.loaded
        /\ t.inode = b.inode
    BY <1>1, <1>4 DEF Midway
  <2>2. t = [table |-> t.table, inode |-> t.inode, loaded |-> t.loaded, ok |-> t.ok,
             within |-> b.within]
    BY <1>1, <1>4 DEF Midway
  <2>3. t.table \in [Fd -> File] /\ b.within \in BOOLEAN
    BY <2>1, <1>4, NodesDiffer DEF Midway
  <2> QED BY <1>3, <1>4, <2>1, <2>2, <2>3 DEF Midway
<1>6. \A m \in Inode : /\ Here(s.table, m) = Here(t.table, m) + (IF m = n THEN 1 ELSE 0)
                       /\ Here(t.table, m) \in Nat
  <2>1. s.table \in [Fd -> File] /\ t.table \in [Fd -> File]
    BY <1>2, <1>5 DEF Midway
  <2>2. t.table[fd] = NoFile /\ s.table = [t.table EXCEPT ![fd] = Open(n)]
    BY <1>5, <2>1
  <2> QED BY <2>1, <2>2, HereWith, HereIsNat
<1>7. \A m \in Inode :
        /\ s.inode[m].open = Here(s.table, m) + o[m]
        /\ s.inode[m].ref = Here(s.table, m) + r[m]
        /\ m \in s.loaded <=> s.inode[m].ref > 0
        /\ o[m] \in Int /\ r[m] \in Int /\ 0 <= o[m] /\ o[m] <= r[m]
  BY DEF Exact, Holds
<1>8. \A m \in Inode :
        /\ a.inode[m].ref = s.inode[m].ref /\ b.inode[m].open = a.inode[m].open
        /\ a.inode[m].open = s.inode[m].open - (IF m = n THEN 1 ELSE 0)
        /\ b.inode[m].ref = s.inode[m].ref - (IF m = n THEN 1 ELSE 0)
  <2> TAKE m \in Inode
  <2>1. /\ a.inode[m].ref = s.inode[m].ref + (IF m = n THEN 0 ELSE 0)
        /\ a.inode[m].open = s.inode[m].open + (IF m = n THEN -1 ELSE 0)
    BY <1>3 DEF Counts
  <2>2. /\ b.inode[m].ref = a.inode[m].ref + (IF m = n THEN -1 ELSE 0)
        /\ b.inode[m].open = a.inode[m].open + (IF m = n THEN 0 ELSE 0)
    BY <1>4 DEF Counts
  <2>3. s.inode[m].ref \in Int /\ s.inode[m].open \in Int
    BY <1>6, <1>7
  <2> QED BY <2>1, <2>2, <2>3
<1>9. t.ok = TRUE
  <2>1. s.inode[n].open > 0 /\ s.inode[n].ref > 0
    BY <1>6, <1>7
  <2>2. s.inode[n].ref = 1 => s.inode[n].open = 1
    BY <1>6, <1>7
  <2>3. a.inode[n].ref = s.inode[n].ref /\ a.inode[n].open = s.inode[n].open - 1
    BY <1>8
  <2>4. a.inode[n].ref > 0 /\ (a.inode[n].ref = 1 => a.inode[n].open = 0)
    BY <2>1, <2>2, <2>3
  <2>5. s.inode[n].ref >= 0
    BY <1>6, <1>7
  <2> QED BY <1>3, <1>4, <1>5, <2>1, <2>4, <2>5
<1>10. ASSUME NEW m \in Inode
       PROVE  /\ t.inode[m].open = Here(t.table, m) + o[m]
              /\ t.inode[m].ref = Here(t.table, m) + r[m]
              /\ m \in t.loaded <=> t.inode[m].ref > 0
  <2>1. /\ t.inode[m].open = Here(t.table, m) + o[m]
        /\ t.inode[m].ref = Here(t.table, m) + r[m]
        /\ t.inode[m].ref = s.inode[m].ref - (IF m = n THEN 1 ELSE 0)
    BY <1>5, <1>6, <1>7, <1>8
  <2>2. m \in t.loaded <=> m \in s.loaded /\ ~ (m = n /\ s.inode[n].ref = 1)
    BY <1>3, <1>4, <1>5, <1>8
  <2> QED BY <2>1, <2>2, <1>6, <1>7
<1> QED BY <1>5, <1>9, <1>10 DEF Exact

LEMMA RefGiven ==
  ASSUME NEW s, NEW o, NEW r, Exact(s, o, r), Holds(o, r), NEW n \in Inode,
         o[n] < r[n], NEW t, t = vop_ref_dec(s, n)
  PROVE  /\ Exact(t, o, Plus(r, n, -1)) /\ Holds(o, Plus(r, n, -1))
         /\ t.table = s.table
<1>1. s \in Midway /\ s.ok = TRUE
  BY DEF Exact
<1>2. /\ t \in Midway /\ t.table = s.table
      /\ t.ok = (s.ok /\ s.inode[n].ref > 0 /\ (s.inode[n].ref = 1 => s.inode[n].open = 0))
      /\ t.loaded = (IF s.inode[n].ref = 1 THEN s.loaded \ {n} ELSE s.loaded)
      /\ Counts(s, t, n, -1, 0)
  BY <1>1, RefDec
<1>3. PICK q : q = Plus(r, n, -1)
  OBVIOUS
<1>4. \A m \in Inode :
        /\ s.inode[m].open = Here(s.table, m) + o[m]
        /\ s.inode[m].ref = Here(s.table, m) + r[m]
        /\ m \in s.loaded <=> s.inode[m].ref > 0
        /\ o[m] \in Int /\ r[m] \in Int /\ 0 <= o[m] /\ o[m] <= r[m]
        /\ q[m] = r[m] + (IF m = n THEN -1 ELSE 0)
        /\ Here(s.table, m) \in Nat
        /\ t.inode[m].ref = s.inode[m].ref + (IF m = n THEN -1 ELSE 0)
        /\ t.inode[m].open = s.inode[m].open + (IF m = n THEN 0 ELSE 0)
  BY <1>2, <1>3, HereIsNat DEF Exact, Holds, Plus, Counts
<1>5. Holds(o, q)
  <2>1. q \in [Inode -> Int] /\ o \in [Inode -> Int]
    BY <1>3, <1>4 DEF Plus, Holds
  <2> QED BY <2>1, <1>4 DEF Holds
<1>6. ASSUME NEW m \in Inode
      PROVE  /\ t.inode[m].open = Here(t.table, m) + o[m]
             /\ t.inode[m].ref = Here(t.table, m) + q[m]
             /\ m \in t.loaded <=> t.inode[m].ref > 0
  <2>1. m \in t.loaded <=> m \in s.loaded /\ ~ (m = n /\ s.inode[n].ref = 1)
    BY <1>2
  <2>2. s.inode[m].ref \in Int
    BY <1>4
  <2>3. t.inode[m].ref = IF m = n THEN s.inode[m].ref - 1 ELSE s.inode[m].ref
    BY <1>4, <2>2
  <2>4. m \in t.loaded <=> t.inode[m].ref > 0
    BY <1>4, <2>1, <2>2, <2>3
  <2> QED BY <1>2, <1>4, <2>2, <2>3, <2>4
<1>7. t.ok = TRUE
  <2>1. /\ s.inode[n].open = Here(s.table, n) + o[n]
        /\ s.inode[n].ref = Here(s.table, n) + r[n]
        /\ o[n] \in Int /\ r[n] \in Int /\ 0 <= o[n] /\ Here(s.table, n) \in Nat
    BY <1>4
  <2>2. s.inode[n].ref > 0 /\ (s.inode[n].ref = 1 => s.inode[n].open = 0)
    BY <2>1
  <2> QED BY <1>1, <1>2, <2>2
<1> QED BY <1>2, <1>3, <1>5, <1>6, <1>7 DEF Exact

-----------------------------------------------------------------------------
(* The loops over a table.                                                  *)

\* From first on the descriptors are closed, the others are as they were.
LEMMA ClosesFrom ==
  ASSUME NEW s, NEW o, NEW r, Exact(s, o, r), Holds(o, r), NEW first \in Nat,
         NEW t, t = CloseFrom(s, first)
  PROVE  /\ Exact(t, o, r)
         /\ t.table = [fd \in Fd |-> IF fd < first THEN s.table[fd] ELSE NoFile]
<1> DEFINE S == {x \in Midway : Exact(x, o, r)}
           step == [a \in S \X (0 .. NFD - 1) |->
                        IF a[2] < first THEN a[1] ELSE CloseIfOpen(a[1], a[2])]
<1>1. ASSUME NEW x \in S, NEW fd \in Fd
      PROVE  /\ CloseIfOpen(x, fd) \in S
             /\ CloseIfOpen(x, fd).table = [x.table EXCEPT ![fd] = NoFile]
  <2>1. x.table \in [Fd -> File] /\ x \in Midway /\ Exact(x, o, r)
    BY DEF Midway
  <2>2. x.table[fd] = NoFile \/ \E n \in Inode : x.table[fd] = Open(n)
    BY <2>1, NodesDiffer
  <2>3. CASE x.table[fd] = NoFile
    <3>1. CloseIfOpen(x, fd) = x
      BY <2>3, NodesDiffer DEF CloseIfOpen
    <3>2. x.table = [x.table EXCEPT ![fd] = NoFile]
      BY <2>1, <2>3
    <3> QED BY <3>1, <3>2
  <2>4. CASE \E n \in Inode : x.table[fd] = Open(n)
    <3>1. PICK n \in Inode : x.table[fd] = Open(n)
      BY <2>4
    <3>2. PICK y : y = CloseIfOpen(x, fd) /\ y = fd_array_close(x, fd)
      BY <3>1, NodesDiffer DEF CloseIfOpen
    <3>3. Exact(y, o, r) /\ y.table = [x.table EXCEPT ![fd] = NoFile]
      BY <2>1, <3>1, <3>2, Closes
    <3> QED BY <3>2, <3>3 DEF Exact
  <2> QED BY <2>2, <2>3, <2>4
<1>2. s \in S /\ NFD \in Nat
  BY NodesDiffer DEF Exact
<1>3. step \in [S \X (0 .. NFD - 1) -> S]
  <2>1. ASSUME NEW a \in S \X (0 .. NFD - 1)
        PROVE  (IF a[2] < first THEN a[1] ELSE CloseIfOpen(a[1], a[2])) \in S
    <3>1. a[1] \in S /\ a[2] \in Fd
      BY NodesDiffer
    <3> QED BY <3>1, <1>1
  <2> QED BY <2>1
<1> HIDE DEF S
<1>4. PICK f \in [0 .. NFD -> S] :
        f[0] = s /\ \A i \in 1 .. NFD : f[i] = step[<<f[i - 1], i - 1>>]
  <2>1. PICK A, st : A = S /\ st = step
    OBVIOUS
  <2> HIDE DEF step
  <2>2. s \in A /\ NFD \in Nat /\ st \in [A \X (0 .. NFD - 1) -> A]
    BY <1>2, <1>3, <2>1
  <2>3. \E f \in [0 .. NFD -> A] : Recurses(f, s, NFD, st)
    BY <2>2, Recursion
  <2> QED BY <2>1, <2>3 DEF Recurses
<1>5. \A i \in 1 .. NFD :
        f[i] = IF i <= first THEN f[i - 1] ELSE CloseIfOpen(f[i - 1], i - 1)
  <2> TAKE i \in 1 .. NFD
  <2>1. i - 1 \in 0 .. NFD - 1 /\ i - 1 \in 0 .. NFD /\ f[i - 1] \in S /\ NFD \in Nat
    BY <1>2
  <2>2. step[<<f[i - 1], i - 1>>] =
            IF i - 1 < first THEN f[i - 1] ELSE CloseIfOpen(f[i - 1], i - 1)
    BY <2>1
  <2>3. i - 1 < first <=> i <= first
    BY <2>1
  <2> QED BY <1>4, <2>2, <2>3
<1> HIDE DEF step
<1> DEFINE Loop(after) == [fd \in 0 .. NFD |->
                IF fd = 0 THEN s
                ELSE IF fd <= first THEN after[fd - 1]
                ELSE CloseIfOpen(after[fd - 1], fd - 1)]
<1>6. f = Loop(f)
  BY <1>2, <1>4, <1>5
<1>7. PICK g : g = Loop(g) /\ t = g[NFD]
  BY <1>6 DEF CloseFrom
<1> DEFINE Right(i) == /\ g[i] = f[i]
                       /\ g[i].table = [fd \in Fd |-> IF fd < first \/ fd >= i
                                                      THEN s.table[fd] ELSE NoFile]
           T == {i \in Nat : i <= NFD => Right(i)}
<1>8. 0 \in T
  <2>1. g[0] = s /\ f[0] = s
    BY <1>2, <1>4, <1>7
  <2>2. s.table \in [Fd -> File]
    BY DEF Exact, Midway
  <2>3. \A fd \in Fd : fd >= 0
    BY NodesDiffer
  <2> QED BY <2>1, <2>2, <2>3
<1>9. ASSUME NEW i \in Nat, i \in T PROVE i + 1 \in T
  <2>1. SUFFICES ASSUME i + 1 <= NFD PROVE Right(i + 1)
    OBVIOUS
  <2>2. Right(i) /\ i + 1 \in 0 .. NFD /\ i + 1 \in 1 .. NFD /\ (i + 1) - 1 = i /\ i \in Fd
    BY <1>2, <1>9, <2>1, NodesDiffer
  <2>3. g[i + 1] = IF i + 1 <= first THEN g[i] ELSE CloseIfOpen(g[i], i)
    <3>1. g[i + 1] = IF i + 1 = 0 THEN s
                     ELSE IF i + 1 <= first THEN g[(i + 1) - 1]
                     ELSE CloseIfOpen(g[(i + 1) - 1], (i + 1) - 1)
      BY <1>7, <2>2
    <3> QED BY <3>1, <2>2
  <2>4. f[i + 1] = IF i + 1 <= first THEN f[i] ELSE CloseIfOpen(f[i], i)
    BY <1>5, <2>2
  <2>5. g[i] \in S
    BY <1>4, <2>2, <1>2
  <2>6. CASE i + 1 <= first
    <3>1. \A fd \in Fd : (fd < first \/ fd >= i) <=> (fd < first \/ fd >= i + 1)
      BY <2>6, NodesDiffer
    <3> QED BY <2>2, <2>3, <2>4, <2>6, <3>1
  <2>7. CASE ~ (i + 1 <= first)
    <3>1. g[i + 1].table = [g[i].table EXCEPT ![i] = NoFile]
      BY <1>1, <2>2, <2>3, <2>5, <2>7
    <3>2. \A fd \in Fd : (fd < first \/ fd >= i + 1) <=> (fd < first \/ fd >= i) /\ fd # i
      BY <2>7, NodesDiffer
    <3>3. g[i + 1].table = [fd \in Fd |-> IF fd < first \/ fd >= i + 1
                                          THEN s.table[fd] ELSE NoFile]
      BY <2>2, <3>1, <3>2
    <3> QED BY <2>2, <2>3, <2>4, <3>3
  <2> QED BY <2>6, <2>7
<1> HIDE DEF T
<1>10. NFD \in T
  BY <1>2, <1>8, <1>9, Induct
<1>11. Right(NFD)
  BY <1>2, <1>10 DEF T
<1>12. \A fd \in Fd : (fd < first \/ fd >= NFD) <=> fd < first
  BY NodesDiffer
<1>13. t \in S
  BY <1>2, <1>4, <1>7, <1>11
<1> QED BY <1>7, <1>11, <1>12, <1>13 DEF S

\* The child of a fork gets the open files of its parent.
LEMMA Copies ==
  ASSUME NEW s, NEW o, NEW r, Exact(s, o, r), Holds(o, r), NEW from \in [Fd -> File],
         \A fd \in Fd : s.table[fd] = NoFile, NEW t, t = dup_fs(s, from)
  PROVE  Exact(t, o, r) /\ t.table = from
<1> DEFINE step == [a \in Midway \X (0 .. NFD - 1) |-> CopyIfOpen(a[1], a[2], from[a[2]])]
<1>1. ASSUME NEW x \in Midway, NEW fd \in Fd
      PROVE  CopyIfOpen(x, fd, from[fd]) \in Midway
  <2>1. CASE from[fd] = NoFile
    BY <2>1, NodesDiffer DEF CopyIfOpen
  <2>2. CASE \E n \in Inode : from[fd] = Open(n)
    <3>1. PICK n \in Inode : from[fd] = Open(n)
      BY <2>2
    <3>2. PICK a, b, y : /\ a = vop_ref_inc(x, n) /\ b = vop_open_inc(a, n)
                         /\ y = fd_array_open(b, fd, n)
      OBVIOUS
    <3>3. a \in Midway
      BY <3>2, RefInc
    <3>4. b \in Midway
      BY <3>2, <3>3, OpenInc
    <3>5. y \in Midway
      BY <3>2, <3>4, ArrayOpen
    <3>6. CopyIfOpen(x, fd, from[fd]) = y
      BY <3>1, <3>2, NodesDiffer DEF CopyIfOpen, fd_array_dup
    <3> QED BY <3>5, <3>6
  <2> QED BY <2>1, <2>2, NodesDiffer
<1>2. s \in Midway /\ NFD \in Nat
  BY NodesDiffer DEF Exact
<1>3. PICK f \in [0 .. NFD -> Midway] :
        f[0] = s /\ \A i \in 1 .. NFD : f[i] = CopyIfOpen(f[i - 1], i - 1, from[i - 1])
  <2>1. step \in [Midway \X (0 .. NFD - 1) -> Midway]
    <3>1. ASSUME NEW a \in Midway \X (0 .. NFD - 1)
          PROVE  CopyIfOpen(a[1], a[2], from[a[2]]) \in Midway
      <4>1. a[1] \in Midway /\ a[2] \in Fd
        BY NodesDiffer
      <4> QED BY <4>1, <1>1
    <3> QED BY <3>1
  <2>2. PICK A, st : A = Midway /\ st = step
    OBVIOUS
  <2> HIDE DEF step
  <2>3. s \in A /\ NFD \in Nat /\ st \in [A \X (0 .. NFD - 1) -> A]
    BY <1>2, <2>1, <2>2
  <2>4. PICK f \in [0 .. NFD -> A] : Recurses(f, s, NFD, st)
    BY <2>3, Recursion
  <2>5. ASSUME NEW i \in 1 .. NFD
        PROVE  f[i] = CopyIfOpen(f[i - 1], i - 1, from[i - 1])
    <3>1. i - 1 \in 0 .. NFD - 1 /\ f[i - 1] \in Midway
      BY <1>2, <2>2, <2>4
    <3>2. f[i] = step[<<f[i - 1], i - 1>>]
      BY <2>2, <2>4 DEF Recurses
    <3> QED BY <3>1, <3>2 DEF step
  <2>6. f \in [0 .. NFD -> Midway] /\ f[0] = s
    BY <2>2, <2>4 DEF Recurses
  <2> QED BY <2>5, <2>6
<1> HIDE DEF step
<1> DEFINE Loop(after) == [fd \in 0 .. NFD |->
                IF fd = 0 THEN s ELSE CopyIfOpen(after[fd - 1], fd - 1, from[fd - 1])]
<1>4. f = Loop(f)
  BY <1>2, <1>3
<1>5. PICK g : g = Loop(g) /\ t = g[NFD]
  BY <1>4 DEF dup_fs
<1> DEFINE Right(i) == /\ Exact(g[i], o, r)
                       /\ g[i].table = [fd \in Fd |-> IF fd < i THEN from[fd] ELSE NoFile]
           T == {i \in Nat : i <= NFD => Right(i)}
<1>6. 0 \in T
  <2>1. g[0] = s
    BY <1>2, <1>5
  <2>2. s.table \in [Fd -> File]
    BY DEF Exact, Midway
  <2>3. \A fd \in Fd : ~ (fd < 0)
    BY NodesDiffer
  <2> QED BY <2>1, <2>2, <2>3
<1>7. ASSUME NEW i \in Nat, i \in T PROVE i + 1 \in T
  <2>1. SUFFICES ASSUME i + 1 <= NFD PROVE Right(i + 1)
    OBVIOUS
  <2>2. /\ Right(i) /\ i + 1 \in 0 .. NFD /\ (i + 1) - 1 = i /\ i + 1 # 0
        /\ i \in Fd /\ ~ (i < i)
    BY <1>2, <1>7, <2>1, NodesDiffer
  <2>3. g[i + 1] = CopyIfOpen(g[i], i, from[i])
    <3>1. g[i + 1] = IF i + 1 = 0 THEN s
                     ELSE CopyIfOpen(g[(i + 1) - 1], (i + 1) - 1, from[(i + 1) - 1])
      BY <1>5, <2>2
    <3> QED BY <3>1, <2>2
  <2>4. g[i].table[i] = NoFile
    BY <2>2
  <2>5. \A fd \in Fd : fd < i + 1 <=> fd < i \/ fd = i
    BY <2>2, NodesDiffer
  <2>6. CASE from[i] = NoFile
    <3>1. g[i + 1] = g[i]
      BY <2>3, <2>6, NodesDiffer DEF CopyIfOpen
    <3> QED BY <2>2, <2>5, <2>6, <3>1
  <2>7. CASE \E n \in Inode : from[i] = Open(n)
    <3>1. PICK n \in Inode : from[i] = Open(n)
      BY <2>7
    <3>2. g[i + 1] = fd_array_open(vop_open_inc(vop_ref_inc(g[i], n), n), i, n)
      BY <2>3, <3>1, NodesDiffer DEF CopyIfOpen, fd_array_dup
    <3>3. Exact(g[i + 1], o, r) /\ g[i + 1].table = [g[i].table EXCEPT ![i] = Open(n)]
      BY <2>2, <2>4, <3>2, Opens
    <3>4. g[i + 1].table = [fd \in Fd |-> IF fd < i + 1 THEN from[fd] ELSE NoFile]
      BY <2>2, <2>5, <3>1, <3>3
    <3> QED BY <3>3, <3>4
  <2> QED BY <2>2, <2>6, <2>7, NodesDiffer
<1> HIDE DEF T
<1>8. NFD \in T
  BY <1>2, <1>6, <1>7, Induct
<1>9. Right(NFD)
  BY <1>2, <1>8 DEF T
<1>10. \A fd \in Fd : fd < NFD
  BY NodesDiffer
<1> QED BY <1>5, <1>9, <1>10

-----------------------------------------------------------------------------
(* The invariant.                                                           *)

\* A descriptor that a read sleeps on.
Acquired == [status |-> "opened", count |-> 2, node |-> stdin]

FilesTyped ==
    /\ panic # "assert"
    /\ live \in SUBSET Proc /\ IsFiniteSet(live) /\ initproc \in live
    /\ table \in [Proc -> [Fd -> File \cup {Acquired}]]
    /\ pwd \in [Proc -> {root, None}]
    /\ inode \in [Inode -> [ref : Int, open : Int]]
    /\ loaded \in SUBSET Inode
    /\ reading \in [Proc -> Fd \cup {None}]
    /\ lost \in [Inode -> Nat]

\* Between calls a count differs from its descriptor's state by the read
\* that sleeps on it; a process that is gone left nothing behind.
Slots ==
    /\ \A p \in Proc, fd \in Fd :
        IF reading[p] = fd THEN table[p][fd] = Acquired ELSE table[p][fd] \in File
    /\ \A p \in live : pwd[p] = root
    /\ \A p \in Proc \ live :
        pwd[p] = None /\ reading[p] = None /\ \A fd \in Fd : table[p][fd] = NoFile

InodeCounts ==
    \A n \in Inode :
        /\ inode[n].open = Cardinality(Naming(n))
        /\ inode[n].ref = Cardinality(Naming(n)) + Holding(n) + lost[n]
        /\ n \in loaded <=> inode[n].ref > 0

FilesInv == FilesTyped /\ Slots /\ InodeCounts

-----------------------------------------------------------------------------
(* A call of p changes what p holds: what the others hold stays.            *)

Names(t, n) == {d \in Proc \X Fd : t[d[1]][d[2]].node = n}
Others(t, p, n) == {d \in Names(t, n) : d[1] # p}

Opening(p) == [n \in Inode |-> Cardinality(Others(table, p, n))]
Referring(p) == [n \in Inode |-> Cardinality(Others(table, p, n)) + Holding(n) + lost[n]]

LEMMA Split ==
  ASSUME NEW t, NEW L \in SUBSET Proc, IsFiniteSet(L),
         \A p \in Proc \ L : \A fd \in Fd : t[p][fd] = NoFile,
         NEW p \in Proc, NEW n \in Inode
  PROVE  /\ Cardinality(Names(t, n)) = Here(t[p], n) + Cardinality(Others(t, p, n))
         /\ Cardinality(Others(t, p, n)) \in Nat
<1>1. PICK H, A, B : /\ H = {fd \in Fd : t[p][fd].node = n}
                     /\ A = Others(t, p, n) /\ B = {p} \X H
  OBVIOUS
<1>2. Names(t, n) = A \cup B /\ A \cap B = {}
  <2>1. \A d \in Proc \X Fd : d = <<d[1], d[2]>> /\ d[1] \in Proc /\ d[2] \in Fd
    OBVIOUS
  <2>2. ASSUME NEW d \in Names(t, n) PROVE d \in A \/ d \in B
    <3>1. d \in Proc \X Fd /\ t[d[1]][d[2]].node = n
      BY DEF Names
    <3>2. CASE d[1] = p
      <4>1. d[2] \in H
        BY <1>1, <2>1, <3>1, <3>2
      <4>2. d = <<p, d[2]>>
        BY <2>1, <3>1, <3>2
      <4> QED BY <1>1, <4>1, <4>2
    <3> QED BY <1>1, <3>2 DEF Others
  <2>3. A \subseteq Names(t, n)
    BY <1>1 DEF Others
  <2>4. ASSUME NEW d \in B PROVE d \in Names(t, n) /\ d \notin A
    <3>1. PICK fd \in H : d = <<p, fd>>
      BY <1>1
    <3>2. d \in Proc \X Fd /\ d[1] = p /\ d[2] = fd /\ t[d[1]][d[2]].node = n
      BY <1>1, <3>1
    <3> QED BY <1>1, <3>2 DEF Names, Others
  <2> QED BY <2>2, <2>3, <2>4
<1>3. IsFiniteSet(H) /\ Cardinality(H) = Here(t[p], n) /\ Cardinality(H) \in Nat
  <2>1. H \in SUBSET Fd /\ IsFiniteSet(Fd)
    BY <1>1, NodesDiffer, FS_Interval
  <2> QED BY <1>1, <2>1, FS_Subset, FS_CardinalityType DEF Here
<1>4. IsFiniteSet(B) /\ Cardinality(B) = Cardinality(H)
  <2>1. IsFiniteSet({p}) /\ Cardinality({p}) = 1
    BY FS_Singleton
  <2>2. IsFiniteSet({p} \X H) /\ Cardinality({p} \X H) = Cardinality({p}) * Cardinality(H)
    BY <1>3, <2>1, FS_Product
  <2> QED BY <1>1, <1>3, <2>1, <2>2
<1>5. IsFiniteSet(A) /\ Cardinality(A) \in Nat
  <2>1. IsFiniteSet(L \X Fd)
    <3>1. IsFiniteSet(Fd)
      BY NodesDiffer, FS_Interval
    <3> QED BY <3>1, FS_Product
  <2>2. ASSUME NEW d \in A PROVE d \in L \X Fd
    <3>1. d \in Proc \X Fd /\ t[d[1]][d[2]].node = n
      BY <1>1 DEF Others, Names
    <3>2. PICK q \in Proc, fd \in Fd : d = <<q, fd>>
      BY <3>1
    <3>3. t[q][fd].node = n /\ NoFile.node # n
      BY <3>1, <3>2, NodesDiffer
    <3>4. q \in L
      BY <3>3
    <3> QED BY <3>2, <3>4
  <2>3. A \in SUBSET (L \X Fd)
    BY <2>2
  <2> QED BY <2>1, <2>3, FS_Subset, FS_CardinalityType
<1>6. Cardinality(A \cup B) = Cardinality(A) + Cardinality(B)
  <2>1. Cardinality(A \cup B) = Cardinality(A) + Cardinality(B) - Cardinality(A \cap B)
    BY <1>4, <1>5, FS_Union
  <2>2. Cardinality(A \cap B) = 0
    BY <1>2, FS_EmptySet
  <2>3. Cardinality(B) \in Nat
    BY <1>3, <1>4
  <2> QED BY <1>5, <2>1, <2>2, <2>3
<1> QED BY <1>1, <1>2, <1>3, <1>4, <1>5, <1>6

\* Every process that is there has the root as its directory.
LEMMA Directories ==
  ASSUME NEW w, NEW L \in SUBSET Proc, \A p \in L : w[p] = root,
         \A p \in Proc \ L : w[p] = None, NEW n \in Inode
  PROVE  Cardinality({p \in Proc : w[p] = n}) = IF n = root THEN Cardinality(L) ELSE 0
<1>1. root # None /\ n # None
  BY FilesAssumption DEF Inode
<1>2. {p \in Proc : w[p] = n} = IF n = root THEN L ELSE {}
  BY <1>1
<1> QED BY <1>2, FS_EmptySet

LEMMA HoldingNext ==
  ASSUME live' \in SUBSET Proc, pwd' = [q \in Proc |-> IF q \in live' THEN root ELSE None],
         NEW n \in Inode
  PROVE  Holding(n)' = (IF n = root THEN Cardinality(live') ELSE 0)
                       + (IF n \in SfsFile THEN 0 ELSE 1)
<1>1. PICK w, L : w = pwd' /\ L = live'
  OBVIOUS
<1>2. L \in SUBSET Proc /\ (\A p \in L : w[p] = root) /\ \A p \in Proc \ L : w[p] = None
  BY <1>1
<1>3. Cardinality({p \in Proc : w[p] = n}) = IF n = root THEN Cardinality(L) ELSE 0
  <2>1. root # None /\ n # None
    BY FilesAssumption DEF Inode
  <2>2. {p \in Proc : w[p] = n} = IF n = root THEN L ELSE {}
    BY <1>2, <2>1
  <2> QED BY <2>2, FS_EmptySet
<1> QED BY <1>1, <1>3 DEF Holding

LEMMA HoldingIs ==
  ASSUME FilesTyped, Slots, NEW n \in Inode
  PROVE  /\ Holding(n) = (IF n = root THEN Cardinality(live) ELSE 0)
                         + (IF n \in SfsFile THEN 0 ELSE 1)
         /\ Cardinality(live) \in Nat /\ Cardinality(live) > 0
         /\ Holding(n) \in Nat /\ lost[n] \in Nat
<1>1. Cardinality(live) \in Nat /\ Cardinality(live) > 0
  <2>1. IsFiniteSet(live) /\ live # {}
    BY DEF FilesTyped
  <2> QED BY <2>1, FS_CardinalityType, FS_EmptySet
<1>2. Cardinality({p \in Proc : pwd[p] = n}) = IF n = root THEN Cardinality(live) ELSE 0
  <2>1. live \in SUBSET Proc /\ (\A p \in live : pwd[p] = root)
        /\ \A p \in Proc \ live : pwd[p] = None
    BY DEF FilesTyped, Slots
  <2> QED BY <2>1, Directories
<1>3. lost[n] \in Nat
  BY DEF FilesTyped
<1>4. Holding(n) = (IF n = root THEN Cardinality(live) ELSE 0)
                   + (IF n \in SfsFile THEN 0 ELSE 1)
  BY <1>2 DEF Holding
<1> QED BY <1>1, <1>3, <1>4

\* A call begins with exact counts.
LEMMA Begins ==
  ASSUME FilesInv, NEW p \in Proc, reading[p] = None
  PROVE  /\ Exact(Of(p), Opening(p), Referring(p))
         /\ Holds(Opening(p), Referring(p))
         /\ \A n \in Inode : Opening(p)[n] + Holding(n) <= Referring(p)[n]
         /\ Of(p).table = table[p] /\ table[p] \in [Fd -> File]
<1>1. table[p] \in [Fd -> File]
  <2>1. \A fd \in Fd : table[p][fd] \in File
    BY NodesDiffer, FilesAssumption DEF FilesInv, Slots, Fd
  <2>2. table[p] \in [Fd -> File \cup {Acquired}]
    BY DEF FilesInv, FilesTyped
  <2> QED BY <2>1, <2>2
<1>2. PICK s : s = Of(p)
  OBVIOUS
<1>3. s.table = table[p] /\ s.inode = inode /\ s.loaded = loaded /\ s.ok = TRUE
  BY <1>2 DEF Of
<1>4. s \in Midway
  BY <1>1, <1>2 DEF Of, Midway, FilesInv, FilesTyped
<1>5. ASSUME NEW n \in Inode
      PROVE  /\ Cardinality(Naming(n)) = Here(table[p], n) + Opening(p)[n]
             /\ Opening(p)[n] \in Nat
             /\ Referring(p)[n] = Opening(p)[n] + Holding(n) + lost[n]
             /\ Holding(n) \in Nat /\ lost[n] \in Nat
             /\ Here(table[p], n) \in Nat
  <2>1. live \in SUBSET Proc /\ IsFiniteSet(live)
        /\ \A q \in Proc \ live : \A fd \in Fd : table[q][fd] = NoFile
    BY DEF FilesInv, FilesTyped, Slots
  <2>2. /\ Cardinality(Names(table, n)) = Here(table[p], n) + Cardinality(Others(table, p, n))
        /\ Cardinality(Others(table, p, n)) \in Nat
    BY <2>1, Split
  <2>3. Naming(n) = Names(table, n)
    BY DEF Naming, Names
  <2>4. Holding(n) \in Nat /\ lost[n] \in Nat
    BY HoldingIs DEF FilesInv
  <2> QED BY <2>2, <2>3, <2>4, HereIsNat DEF Opening, Referring
<1>6. ASSUME NEW n \in Inode
      PROVE  /\ s.inode[n].open = Here(s.table, n) + Opening(p)[n]
             /\ s.inode[n].ref = Here(s.table, n) + Referring(p)[n]
             /\ n \in s.loaded <=> s.inode[n].ref > 0
             /\ 0 <= Opening(p)[n] /\ Opening(p)[n] <= Referring(p)[n]
             /\ Opening(p)[n] + Holding(n) <= Referring(p)[n]
             /\ Opening(p)[n] \in Int /\ Referring(p)[n] \in Int
  <2>1. /\ inode[n].open = Cardinality(Naming(n))
        /\ inode[n].ref = Cardinality(Naming(n)) + Holding(n) + lost[n]
        /\ n \in loaded <=> inode[n].ref > 0
    BY DEF FilesInv, InodeCounts
  <2> QED BY <1>3, <1>5, <2>1
<1>7. Opening(p) \in [Inode -> Int] /\ Referring(p) \in [Inode -> Int]
  <2>1. PICK o, r : o = Opening(p) /\ r = Referring(p)
    OBVIOUS
  <2>2. o = [n \in Inode |-> o[n]] /\ r = [n \in Inode |-> r[n]]
    BY <2>1 DEF Opening, Referring
  <2>3. \A n \in Inode : o[n] \in Int /\ r[n] \in Int
    BY <1>6, <2>1
  <2> QED BY <2>1, <2>2, <2>3
<1>8. Exact(s, Opening(p), Referring(p))
  BY <1>3, <1>4, <1>6 DEF Exact
<1>9. Holds(Opening(p), Referring(p))
  BY <1>6, <1>7 DEF Holds
<1> QED BY <1>1, <1>2, <1>3, <1>6, <1>8, <1>9

\* What a call may leave: s for the table of p and for the inodes, and who is
\* there, with the counts that this makes the others hold.
Leaves(p, s, r) ==
    /\ Exact(s, Opening(p), r)
    /\ live' \in SUBSET Proc /\ IsFiniteSet(live') /\ initproc \in live'
    /\ live' \ {p} = live \ {p}
    /\ pwd' = [q \in Proc |-> IF q \in live' THEN root ELSE None]
    /\ p \notin live' => \A fd \in Fd : s.table[fd] = NoFile
    /\ lost' \in [Inode -> Nat]
    /\ \A n \in Inode : r[n] = Opening(p)[n] + Holding(n)' + lost'[n]

\* A call ends with exact counts.
LEMMA Settles ==
  ASSUME FilesInv, NEW p \in Proc, reading[p] = None, NEW s, NEW r, Leaves(p, s, r),
         Becomes(p, s), reading' = reading
  PROVE  FilesInv'
<1>1. s \in Midway /\ s.ok = TRUE /\ s.table \in [Fd -> File]
  BY DEF Leaves, Exact, Midway
<1>2. /\ table' = [table EXCEPT ![p] = s.table] /\ inode' = s.inode
      /\ loaded' = s.loaded /\ panic' # "assert"
  BY <1>1 DEF Becomes, Stopping
<1>3. FilesTyped'
  <2>1. table' \in [Proc -> [Fd -> File \cup {Acquired}]]
    BY <1>1, <1>2 DEF FilesInv, FilesTyped
  <2>2. inode' \in [Inode -> [ref : Int, open : Int]] /\ loaded' \in SUBSET Inode
    BY <1>1, <1>2 DEF Midway
  <2>3. pwd' \in [Proc -> {root, None}]
    BY DEF Leaves
  <2>4. reading' \in [Proc -> Fd \cup {None}]
    BY DEF FilesInv, FilesTyped
  <2> QED BY <1>2, <2>1, <2>2, <2>3, <2>4 DEF FilesTyped, Leaves
<1>4. \A q \in Proc : table'[q] = IF q = p THEN s.table ELSE table[q]
  BY <1>2 DEF FilesInv, FilesTyped
<1>5. Slots'
  <2>1. ASSUME NEW q \in Proc, NEW fd \in Fd
        PROVE  IF reading'[q] = fd THEN table'[q][fd] = Acquired ELSE table'[q][fd] \in File
    <3>1. CASE q = p
      <4>1. reading'[q] # fd
        BY <3>1, FilesAssumption DEF Fd
      <4> QED BY <1>1, <1>4, <3>1, <4>1
    <3>2. CASE q # p
      BY <1>4, <3>2 DEF FilesInv, Slots
    <3> QED BY <3>1, <3>2
  <2>2. ASSUME NEW q \in Proc \ live'
        PROVE  pwd'[q] = None /\ reading'[q] = None /\ \A fd \in Fd : table'[q][fd] = NoFile
    <3>1. pwd'[q] = None
      BY DEF Leaves
    <3>2. CASE q = p
      BY <1>4, <3>1, <3>2 DEF Leaves
    <3>3. CASE q # p
      <4>1. q \in Proc \ live
        BY <3>3 DEF Leaves
      <4> QED BY <1>4, <3>1, <3>3, <4>1 DEF FilesInv, Slots
    <3> QED BY <3>2, <3>3
  <2>3. \A q \in live' : pwd'[q] = root
    BY DEF Leaves
  <2> QED BY <2>1, <2>2, <2>3 DEF Slots
<1>6. ASSUME NEW n \in Inode
      PROVE  /\ Cardinality(Naming(n)') = Here(s.table, n) + Opening(p)[n]
             /\ Opening(p)[n] \in Nat
  <2>1. PICK t, L : t = table' /\ L = live'
    OBVIOUS
  <2>2. L \in SUBSET Proc /\ IsFiniteSet(L)
        /\ \A q \in Proc \ L : \A fd \in Fd : t[q][fd] = NoFile
    BY <2>1, <1>5 DEF Leaves, Slots
  <2>3. /\ Cardinality(Names(t, n)) = Here(t[p], n) + Cardinality(Others(t, p, n))
        /\ Cardinality(Others(t, p, n)) \in Nat
    BY <2>2, Split
  <2>4. Naming(n)' = Names(t, n)
    BY <2>1 DEF Naming, Names
  <2>5. Others(t, p, n) = Others(table, p, n)
    <3>1. \A d \in Proc \X Fd : d[1] \in Proc /\ (d[1] # p => t[d[1]] = table[d[1]])
      BY <1>4, <2>1
    <3> QED BY <3>1 DEF Others, Names
  <2>6. t[p] = s.table
    BY <1>4, <2>1
  <2> QED BY <2>3, <2>4, <2>5, <2>6 DEF Opening
<1>7. InodeCounts'
  <2>1. ASSUME NEW n \in Inode
        PROVE  /\ inode'[n].open = Cardinality(Naming(n)')
               /\ inode'[n].ref = Cardinality(Naming(n)') + Holding(n)' + lost'[n]
               /\ n \in loaded' <=> inode'[n].ref > 0
    <3>1. /\ s.inode[n].open = Here(s.table, n) + Opening(p)[n]
          /\ s.inode[n].ref = Here(s.table, n) + r[n]
          /\ n \in s.loaded <=> s.inode[n].ref > 0
      BY DEF Leaves, Exact
    <3>2. r[n] = Opening(p)[n] + Holding(n)' + lost'[n]
      BY DEF Leaves
    <3>3. PICK h, l, k : h = Holding(n)' /\ l = lost'[n] /\ k = Here(s.table, n)
      OBVIOUS
    <3>4. h \in Nat /\ l \in Nat /\ k \in Nat
      <4>1. Holding(n)' \in Nat /\ lost'[n] \in Nat
        <5>1. lost'[n] \in Nat /\ Cardinality(live') \in Nat
          BY FS_CardinalityType DEF Leaves
        <5>2. Holding(n)' = (IF n = root THEN Cardinality(live') ELSE 0)
                            + (IF n \in SfsFile THEN 0 ELSE 1)
          BY HoldingNext DEF Leaves
        <5> QED BY <5>1, <5>2
      <4> QED BY <3>3, <4>1, HereIsNat
    <3> QED BY <1>2, <1>6, <3>1, <3>2, <3>3, <3>4
  <2> QED BY <2>1 DEF InodeCounts
<1> QED BY <1>3, <1>5, <1>7 DEF FilesInv

\* A call that neither makes a process nor ends one.
LEMMA StaysThere ==
  ASSUME FilesInv, NEW p \in Proc, Runs(p), NEW s, NEW r, Exact(s, Opening(p), r),
         Becomes(p, s), UNCHANGED <<live, pwd, reading>>, lost' \in [Inode -> Nat],
         \A n \in Inode : r[n] = Opening(p)[n] + Holding(n) + lost'[n]
  PROVE  FilesInv'
<1>1. reading[p] = None /\ p \in live
  BY DEF Runs
<1>2. pwd' = [q \in Proc |-> IF q \in live' THEN root ELSE None]
  BY DEF FilesInv, FilesTyped, Slots
<1>3. \A n \in Inode : Holding(n)' = Holding(n)
  BY DEF Holding
<1>4. live' = live /\ live \in SUBSET Proc /\ IsFiniteSet(live) /\ initproc \in live
  BY DEF FilesInv, FilesTyped
<1>5. Leaves(p, s, r)
  BY <1>1, <1>2, <1>3, <1>4 DEF Leaves
<1> QED BY <1>1, <1>5, Settles

LEMMA ReferringIs ==
  ASSUME FilesInv, NEW p \in Proc, reading[p] = None
  PROVE  /\ \A n \in Inode : /\ Referring(p)[n] = Opening(p)[n] + Holding(n) + lost[n]
                             /\ Referring(p)[n] \in Int /\ Opening(p)[n] \in Int
                             /\ Opening(p)[n] <= Referring(p)[n]
                             /\ Holding(n) \in Nat /\ lost[n] \in Nat
         /\ lost \in [Inode -> Nat]
<1>1. \A n \in Inode : Opening(p)[n] \in Int /\ Referring(p)[n] \in Int
                       /\ Opening(p)[n] <= Referring(p)[n]
  BY Begins DEF Holds
<1>2. \A n \in Inode : Referring(p)[n] = Opening(p)[n] + Holding(n) + lost[n]
  BY DEF Referring, Opening
<1> QED BY <1>1, <1>2, HoldingIs DEF FilesInv, FilesTyped

\* The lowest free descriptor.
LEMMA FreeFd ==
  ASSUME NEW s, s.table \in [Fd -> File], FreeFds(s) # {}
  PROVE  Min(FreeFds(s)) \in Fd /\ s.table[Min(FreeFds(s))] = NoFile
<1>1. FreeFds(s) \subseteq Nat /\ FreeFds(s) \subseteq Fd
  BY NodesDiffer DEF FreeFds
<1>2. Min(FreeFds(s)) \in FreeFds(s)
  BY <1>1, MinIs
<1>3. \A fd \in FreeFds(s) : s.table[fd] = NoFile
  BY NodesDiffer DEF FreeFds
<1> QED BY <1>1, <1>2, <1>3

\* file_open: into the lowest free descriptor.
LEMMA OpensFile ==
  ASSUME NEW s, NEW o, NEW r, Exact(s, o, r), Holds(o, r), NEW n \in Inode,
         FreeFds(s) # {}, NEW fd, fd = Min(FreeFds(s)), NEW t, t = FileOpen(s, n)
  PROVE  /\ Exact(t, o, r) /\ fd \in Fd /\ s.table[fd] = NoFile
         /\ t.table = [s.table EXCEPT ![fd] = Open(n)]
<1>1. fd \in Fd /\ s.table[fd] = NoFile
  BY FreeFd DEF Exact, Midway
<1>2. PICK a, b : /\ a = vfs_lookup(s, n) /\ b = inode_check(a, n, 0)
                  /\ t = fd_array_open(vop_open_inc(b, n), fd, n)
  BY DEF FileOpen, vfs_open
<1>3. Exact(a, o, Plus(r, n, 1)) /\ Holds(o, Plus(r, n, 1)) /\ a.table = s.table
  BY <1>2, LooksUp
<1>4. Exact(b, o, Plus(r, n, 1)) /\ b.table = a.table
  <2>1. 0 \in Nat
    OBVIOUS
  <2> QED BY <1>2, <1>3, <2>1, Checks
<1> QED BY <1>1, <1>2, <1>3, <1>4, OpensReferred

-----------------------------------------------------------------------------
(* The calls.                                                               *)

LEMMA SysOpenKeeps ==
  ASSUME FilesInv, NEW p \in Proc, NEW n \in Inode, SysOpen(p, n)
  PROVE  FilesInv'
<1>1. PICK s : s = FileOpen(Of(p), n)
  OBVIOUS
<1>2. Runs(p) /\ reading[p] = None /\ FreeFds(Of(p)) # {} /\ Becomes(p, s)
      /\ UNCHANGED <<live, pwd, reading, lost>>
  BY <1>1 DEF SysOpen, Runs
<1>3. Exact(s, Opening(p), Referring(p))
  BY <1>1, <1>2, Begins, OpensFile
<1>4. /\ lost' \in [Inode -> Nat]
      /\ \A m \in Inode : Referring(p)[m] = Opening(p)[m] + Holding(m) + lost'[m]
  BY <1>2, ReferringIs
<1> QED BY <1>2, <1>3, <1>4, StaysThere

LEMMA SysOpenRefusedKeeps ==
  ASSUME FilesInv, NEW p \in Proc, NEW n \in Inode, SysOpenRefused(p, n)
  PROVE  FilesInv'
<1>1. PICK o, r, q, k, a, b, s :
                              /\ a = vfs_lookup(Of(p), n) /\ b = inode_check(a, n, 0)
                              /\ s = vop_ref_dec(b, n)
                              /\ o = Opening(p) /\ r = Referring(p)
                              /\ q = Plus(r, n, 1) /\ k = Plus(q, n, -1)
  OBVIOUS
<1>2. Runs(p) /\ reading[p] = None /\ Becomes(p, s)
      /\ UNCHANGED <<live, pwd, reading, lost>>
  BY <1>1 DEF SysOpenRefused, Runs
<1>3. Exact(Of(p), o, r) /\ Holds(o, r)
  BY <1>1, <1>2, Begins
<1>4. Exact(b, o, q) /\ Holds(o, q)
  <2>1. Exact(a, o, q) /\ Holds(o, q)
    BY <1>1, <1>3, LooksUp
  <2>2. 0 \in Nat
    OBVIOUS
  <2> QED BY <1>1, <2>1, <2>2, Checks
<1>5. \A m \in Inode : /\ q[m] = r[m] + (IF m = n THEN 1 ELSE 0)
                       /\ k[m] = q[m] + (IF m = n THEN -1 ELSE 0)
                       /\ r[m] = o[m] + Holding(m) + lost[m]
                       /\ r[m] \in Int /\ o[m] \in Int /\ o[m] <= r[m]
  BY <1>1, <1>2, ReferringIs DEF Plus
<1>6. o[n] < q[n]
  BY <1>5
<1>7. Exact(s, o, k)
  BY <1>1, <1>4, <1>6, RefGiven
<1>8. /\ lost' \in [Inode -> Nat]
      /\ \A m \in Inode : k[m] = o[m] + Holding(m) + lost'[m]
  <2>1. \A m \in Inode : k[m] = r[m]
    BY <1>5
  <2> QED BY <2>1, <1>2, <1>5, ReferringIs
<1> QED BY <1>1, <1>2, <1>7, <1>8, StaysThere

LEMMA SysOpenExclKeeps ==
  ASSUME FilesInv, NEW p \in Proc, NEW n \in Inode, SysOpenExcl(p, n)
  PROVE  FilesInv'
<1>1. PICK o, r, q, s : /\ s = vfs_lookup(Of(p), n)
                        /\ o = Opening(p) /\ r = Referring(p) /\ q = Plus(r, n, 1)
  OBVIOUS
<1>2. Runs(p) /\ reading[p] = None /\ Becomes(p, s)
      /\ UNCHANGED <<live, pwd, reading>> /\ lost' = [lost EXCEPT ![n] = @ + 1]
  BY <1>1 DEF SysOpenExcl, Runs
<1>3. Exact(Of(p), o, r) /\ Holds(o, r)
  BY <1>1, <1>2, Begins
<1>4. Exact(s, o, q)
  BY <1>1, <1>3, LooksUp
<1>5. lost \in [Inode -> Nat]
      /\ \A m \in Inode : /\ q[m] = r[m] + (IF m = n THEN 1 ELSE 0)
                          /\ r[m] = o[m] + Holding(m) + lost[m]
                          /\ o[m] \in Int /\ Holding(m) \in Nat /\ lost[m] \in Nat
  BY <1>1, <1>2, ReferringIs DEF Plus
<1>6. lost' \in [Inode -> Nat]
      /\ \A m \in Inode : lost'[m] = lost[m] + (IF m = n THEN 1 ELSE 0)
  BY <1>2, <1>5
<1>7. \A m \in Inode : q[m] = o[m] + Holding(m) + lost'[m]
  BY <1>5, <1>6
<1> QED BY <1>1, <1>2, <1>4, <1>6, <1>7, StaysThere

\* What an open descriptor of a process that runs is.
LEMMA OpenedIs ==
  ASSUME FilesInv, NEW p \in Proc, reading[p] = None, NEW fd \in Fd, Opened(p, fd)
  PROVE  \E n \in Inode : table[p][fd] = Open(n)
BY Begins, NodesDiffer DEF Opened

LEMMA SysCloseKeeps ==
  ASSUME FilesInv, NEW p \in Proc, NEW fd \in Fd, SysClose(p, fd)
  PROVE  FilesInv'
<1>1. PICK s : s = fd_array_close(Of(p), fd)
  OBVIOUS
<1>2. Runs(p) /\ reading[p] = None /\ Opened(p, fd) /\ Becomes(p, s)
      /\ UNCHANGED <<live, pwd, reading, lost>>
  BY <1>1 DEF SysClose, Runs
<1>3. PICK n \in Inode : table[p][fd] = Open(n)
  BY <1>2, OpenedIs
<1>4. Exact(s, Opening(p), Referring(p))
  <2>1. Of(p).table[fd] = Open(n)
    BY <1>2, <1>3, Begins
  <2> QED BY <1>1, <1>2, <2>1, Begins, Closes
<1>5. /\ lost' \in [Inode -> Nat]
      /\ \A m \in Inode : Referring(p)[m] = Opening(p)[m] + Holding(m) + lost'[m]
  BY <1>2, ReferringIs
<1> QED BY <1>2, <1>4, <1>5, StaysThere

LEMMA SysDupKeeps ==
  ASSUME FilesInv, NEW p \in Proc, NEW from \in Fd, NEW to \in Fd, SysDup(p, from, to)
  PROVE  FilesInv'
<1>1. PICK s, m : m = table[p][from].node /\ s = fd_array_dup(Of(p), to, m)
  OBVIOUS
<1>2. Runs(p) /\ reading[p] = None /\ Opened(p, from) /\ to \in FreeFds(Of(p))
      /\ Becomes(p, s) /\ UNCHANGED <<live, pwd, reading, lost>>
  BY <1>1 DEF SysDup, Runs
<1>3. m \in Inode
  BY <1>1, <1>2, OpenedIs, NodesDiffer
<1>4. Of(p).table[to] = NoFile
  BY <1>2, Begins, NodesDiffer DEF FreeFds
<1>5. s = fd_array_open(vop_open_inc(vop_ref_inc(Of(p), m), m), to, m)
  BY <1>1 DEF fd_array_dup
<1>6. Exact(s, Opening(p), Referring(p))
  BY <1>2, <1>3, <1>4, <1>5, Begins, Opens
<1>7. /\ lost' \in [Inode -> Nat]
      /\ \A n \in Inode : Referring(p)[n] = Opening(p)[n] + Holding(n) + lost'[n]
  BY <1>2, ReferringIs
<1> QED BY <1>2, <1>6, <1>7, StaysThere

LEMMA SysLookupKeeps ==
  ASSUME FilesInv, NEW p \in Proc, SysLookup(p)
  PROVE  FilesInv'
<1>1. PICK s : s = inode_check(Of(p), root, 1)
  OBVIOUS
<1>2. Runs(p) /\ reading[p] = None /\ Becomes(p, s) /\ UNCHANGED <<live, pwd, reading, lost>>
  BY <1>1 DEF SysLookup, Runs
<1>3. Exact(s, Opening(p), Referring(p))
  <2>1. root \in Inode /\ 1 \in Nat
    BY DEF Inode
  <2> QED BY <1>1, <1>2, <2>1, Begins, Checks
<1>4. /\ lost' \in [Inode -> Nat]
      /\ \A m \in Inode : Referring(p)[m] = Opening(p)[m] + Holding(m) + lost'[m]
  BY <1>2, ReferringIs
<1> QED BY <1>2, <1>3, <1>4, StaysThere

LEMMA SysUseKeeps ==
  ASSUME FilesInv, NEW p \in Proc, NEW fd \in Fd, SysUse(p, fd)
  PROVE  FilesInv'
<1>1. PICK m, s : m = table[p][fd].node /\ s = inode_check(Of(p), m, 0)
  OBVIOUS
<1>2. Runs(p) /\ reading[p] = None /\ Opened(p, fd) /\ Becomes(p, s)
      /\ UNCHANGED <<live, pwd, reading, lost>>
  BY <1>1 DEF SysUse, Runs
<1>3. Exact(s, Opening(p), Referring(p))
  <2>1. m \in Inode /\ 0 \in Nat
    BY <1>1, <1>2, OpenedIs, NodesDiffer
  <2> QED BY <1>1, <1>2, <2>1, Begins, Checks
<1>4. /\ lost' \in [Inode -> Nat]
      /\ \A n \in Inode : Referring(p)[n] = Opening(p)[n] + Holding(n) + lost'[n]
  BY <1>2, ReferringIs
<1> QED BY <1>2, <1>3, <1>4, StaysThere

\* Nothing changes but what stopped the kernel.
LEMMA StopsOnly ==
  ASSUME FilesInv, UNCHANGED <<live, table, pwd, inode, loaded, reading, lost>>,
         panic' # "assert"
  PROVE  FilesInv'
<1>1. FilesTyped' /\ Slots'
  BY DEF FilesInv, FilesTyped, Slots
<1>2. \A n \in Inode : Naming(n)' = Naming(n) /\ Holding(n)' = Holding(n)
  BY DEF Naming, Holding
<1>3. InodeCounts'
  BY <1>2 DEF FilesInv, InodeCounts
<1> QED BY <1>1, <1>3 DEF FilesInv

LEMMA SysCreateKeeps ==
  ASSUME FilesInv, NEW p \in Proc, SysCreate(p)
  PROVE  FilesInv'
<1>1. PICK s : s = inode_check(Of(p), root, 1) /\ panic' = Stopping(s, "missing")
  BY DEF SysCreate
<1>2. Exact(s, Opening(p), Referring(p))
  <2>1. root \in Inode /\ 1 \in Nat /\ reading[p] = None
    BY DEF Inode, SysCreate, Runs
  <2> QED BY <1>1, <2>1, Begins, Checks
<1>3. panic' # "assert"
  BY <1>1, <1>2 DEF Exact, Stopping
<1> QED BY <1>3, StopsOnly DEF SysCreate

\* Neither the acquisition of a descriptor nor its release renames it.
LEMMA Renames ==
  ASSUME FilesInv, NEW p \in Proc, NEW fd \in Fd, NEW e, e.node = table[p][fd].node,
         table' = [table EXCEPT ![p] = [table[p] EXCEPT ![fd] = e]],
         UNCHANGED <<live, pwd, inode, loaded, lost>>
  PROVE  InodeCounts'
<1>1. \A q \in Proc, x \in Fd : table'[q][x].node = table[q][x].node
  BY DEF FilesInv, FilesTyped
<1>2. ASSUME NEW n \in Inode PROVE Naming(n)' = Naming(n)
  <2>1. \A d \in Proc \X Fd : table'[d[1]][d[2]].node = table[d[1]][d[2]].node
    BY <1>1
  <2> QED BY <2>1 DEF Naming
<1>3. \A n \in Inode : Holding(n)' = Holding(n)
  BY DEF Holding
<1> QED BY <1>2, <1>3 DEF FilesInv, InodeCounts

LEMMA SysReadKeeps ==
  ASSUME FilesInv, NEW p \in Proc, NEW fd \in Fd, SysRead(p, fd)
  PROVE  FilesInv'
<1>1. PICK a, s : a = fd_array_acquire(Of(p), fd) /\ s = inode_check(a, stdin, 0)
  OBVIOUS
<1>2. /\ Runs(p) /\ p \in live /\ reading[p] = None /\ Opened(p, fd)
      /\ table[p][fd].node = stdin /\ Becomes(p, s)
      /\ reading' = [reading EXCEPT ![p] = fd] /\ UNCHANGED <<live, pwd, lost>>
  BY <1>1 DEF SysRead, Runs
<1>3. table[p] \in [Fd -> File] /\ table[p][fd] = Open(stdin)
  BY <1>2, Begins, OpenedIs, NodesDiffer
<1>4. /\ s.table = [table[p] EXCEPT ![fd] = Acquired] /\ s.inode = inode
      /\ s.loaded = loaded /\ s.ok = TRUE
  <2>1. a.table = [table[p] EXCEPT ![fd].count = @ + 1] /\ a.inode = inode
        /\ a.loaded = loaded /\ a.ok = TRUE
    BY <1>1 DEF fd_array_acquire, Of
  <2>2. /\ s.table = a.table /\ s.inode = a.inode /\ s.loaded = a.loaded
        /\ s.ok = (a.ok /\ a.inode[stdin].ref + 0 >= a.inode[stdin].open
                    /\ a.inode[stdin].open >= 0)
    BY <1>1 DEF inode_check, Asserting, fd_array_acquire, Of
  <2>3. a.inode[stdin].ref + 0 >= a.inode[stdin].open /\ a.inode[stdin].open >= 0
    <3>1. stdin \in Inode
      BY DEF Inode
    <3>2. /\ Exact(Of(p), Opening(p), Referring(p)) /\ Holds(Opening(p), Referring(p))
          /\ Of(p).inode = inode
      BY <1>2, Begins DEF Of
    <3>3. /\ inode[stdin].open = Here(Of(p).table, stdin) + Opening(p)[stdin]
          /\ inode[stdin].ref = Here(Of(p).table, stdin) + Referring(p)[stdin]
          /\ Opening(p)[stdin] \in Int /\ Referring(p)[stdin] \in Int
          /\ 0 <= Opening(p)[stdin] /\ Opening(p)[stdin] <= Referring(p)[stdin]
          /\ Here(Of(p).table, stdin) \in Nat
      BY <3>1, <3>2, HereIsNat DEF Exact, Holds
    <3> QED BY <2>1, <3>3
  <2>4. s.ok = TRUE
    BY <2>1, <2>2, <2>3
  <2> QED BY <1>3, <2>1, <2>2, <2>4 DEF Open, Acquired
<1>5. /\ table' = [table EXCEPT ![p] = [table[p] EXCEPT ![fd] = Acquired]]
      /\ inode' = inode /\ loaded' = loaded /\ panic' # "assert"
  BY <1>2, <1>4 DEF Becomes, Stopping
<1>6. InodeCounts'
  <2>1. Acquired.node = table[p][fd].node
    BY <1>2 DEF Acquired
  <2> QED BY <1>2, <1>5, <2>1, Renames
<1>7. \A q \in Proc, x \in Fd :
        /\ reading'[q] = IF q = p THEN fd ELSE reading[q]
        /\ table'[q][x] = IF q = p /\ x = fd THEN Acquired ELSE table[q][x]
  BY <1>2, <1>5 DEF FilesInv, FilesTyped
<1>8. Slots'
  <2>1. ASSUME NEW q \in Proc, NEW x \in Fd
        PROVE  IF reading'[q] = x THEN table'[q][x] = Acquired ELSE table'[q][x] \in File
    <3>1. CASE q = p
      BY <1>3, <1>7, <3>1
    <3>2. CASE q # p
      BY <1>7, <3>2 DEF FilesInv, Slots
    <3> QED BY <3>1, <3>2
  <2>2. ASSUME NEW q \in Proc \ live'
        PROVE  pwd'[q] = None /\ reading'[q] = None /\ \A x \in Fd : table'[q][x] = NoFile
    BY <1>2, <1>7 DEF FilesInv, Slots
  <2> QED BY <1>2, <2>1, <2>2 DEF FilesInv, Slots
<1>9. FilesTyped'
  <2>1. table' \in [Proc -> [Fd -> File \cup {Acquired}]]
    BY <1>5 DEF FilesInv, FilesTyped
  <2>2. reading' \in [Proc -> Fd \cup {None}]
    BY <1>2 DEF FilesInv, FilesTyped
  <2> QED BY <1>2, <1>5, <2>1, <2>2 DEF FilesInv, FilesTyped
<1> QED BY <1>6, <1>8, <1>9 DEF FilesInv

LEMMA ReadEndsKeeps ==
  ASSUME FilesInv, NEW p \in Proc, ReadEnds(p)
  PROVE  FilesInv'
<1>1. PICK fd, s : fd = reading[p] /\ s = fd_array_release(Of(p), fd)
  OBVIOUS
<1>2. /\ fd # None /\ Becomes(p, s)
      /\ reading' = [reading EXCEPT ![p] = None] /\ UNCHANGED <<live, pwd, lost>>
  BY <1>1 DEF ReadEnds
<1>3. fd \in Fd /\ p \in live /\ table[p] \in [Fd -> File \cup {Acquired}]
      /\ table[p][fd] = Acquired
  BY <1>1, <1>2 DEF FilesInv, FilesTyped, Slots
<1>4. /\ s.table = [table[p] EXCEPT ![fd] = Open(stdin)] /\ s.inode = inode
      /\ s.loaded = loaded /\ s.ok = TRUE
  <2>1. Of(p).table[fd].count # 1
    BY <1>3 DEF Of, Acquired
  <2>2. s = [Of(p) EXCEPT !.table[fd].count = @ - 1]
    BY <1>1, <2>1 DEF fd_array_release
  <2>3. s.table = [table[p] EXCEPT ![fd].count = @ - 1] /\ s.inode = inode
        /\ s.loaded = loaded /\ s.ok = TRUE
    BY <2>2 DEF Of
  <2>4. [Acquired EXCEPT !.count = @ - 1] = Open(stdin)
    BY DEF Acquired, Open
  <2> QED BY <1>3, <2>3, <2>4
<1>5. /\ table' = [table EXCEPT ![p] = [table[p] EXCEPT ![fd] = Open(stdin)]]
      /\ inode' = inode /\ loaded' = loaded /\ panic' # "assert"
  BY <1>2, <1>4 DEF Becomes, Stopping
<1>6. InodeCounts'
  <2>1. Open(stdin).node = table[p][fd].node
    BY <1>3 DEF Acquired, Open
  <2> QED BY <1>2, <1>3, <1>5, <2>1, Renames
<1>7. \A q \in Proc, x \in Fd :
        /\ reading'[q] = IF q = p THEN None ELSE reading[q]
        /\ table'[q][x] = IF q = p /\ x = fd THEN Open(stdin) ELSE table[q][x]
  BY <1>2, <1>5 DEF FilesInv, FilesTyped
<1>8. Slots'
  <2>1. ASSUME NEW q \in Proc, NEW x \in Fd
        PROVE  IF reading'[q] = x THEN table'[q][x] = Acquired ELSE table'[q][x] \in File
    <3>1. CASE q = p
      <4>1. reading'[q] # x
        BY <1>7, <3>1, FilesAssumption DEF Fd
      <4>2. Open(stdin) \in File
        BY NodesDiffer DEF Inode
      <4>3. x # fd => table[q][x] \in File
        BY <1>1, <3>1 DEF FilesInv, Slots
      <4> QED BY <1>7, <3>1, <4>1, <4>2, <4>3
    <3>2. CASE q # p
      BY <1>7, <3>2 DEF FilesInv, Slots
    <3> QED BY <3>1, <3>2
  <2>2. ASSUME NEW q \in Proc \ live'
        PROVE  pwd'[q] = None /\ reading'[q] = None /\ \A x \in Fd : table'[q][x] = NoFile
    BY <1>2, <1>3, <1>7 DEF FilesInv, Slots
  <2> QED BY <1>2, <2>1, <2>2 DEF FilesInv, Slots
<1>9. FilesTyped'
  <2>1. table' \in [Proc -> [Fd -> File \cup {Acquired}]]
    <3>1. Open(stdin) \in File
      BY NodesDiffer DEF Inode
    <3> QED BY <1>5, <3>1 DEF FilesInv, FilesTyped
  <2>2. reading' \in [Proc -> Fd \cup {None}]
    BY <1>2 DEF FilesInv, FilesTyped
  <2> QED BY <1>2, <1>5, <2>1, <2>2 DEF FilesInv, FilesTyped
<1> QED BY <1>6, <1>8, <1>9 DEF FilesInv

LEMMA ForkKeeps ==
  ASSUME FilesInv, NEW p \in Proc, NEW c \in User, Fork(p, c)
  PROVE  FilesInv'
<1>1. PICK o, r, q, a, s : /\ a = vop_ref_inc(Of(c), root) /\ s = dup_fs(a, table[p])
                           /\ o = Opening(c) /\ r = Referring(c) /\ q = Plus(r, root, 1)
  OBVIOUS
<1>2. /\ p \in live /\ reading[p] = None /\ pwd[p] = root
      /\ c \in Proc \ live /\ live' = live \cup {c}
      /\ pwd' = [pwd EXCEPT ![c] = root] /\ Becomes(c, s) /\ UNCHANGED <<reading, lost>>
  <2>1. p \in live /\ reading[p] = None /\ c \in User \ live
    BY DEF Fork, Runs
  <2>2. pwd[p] = root
    BY <2>1 DEF FilesInv, Slots
  <2> QED BY <1>1, <2>1, <2>2 DEF Fork, Proc
<1>3. reading[c] = None /\ \A fd \in Fd : table[c][fd] = NoFile
  BY <1>2 DEF FilesInv, Slots
<1>4. root \in Inode
  BY DEF Inode
<1>5. Exact(Of(c), o, r) /\ Holds(o, r) /\ Of(c).table = table[c]
  BY <1>1, <1>2, <1>3, Begins
<1>6. Exact(a, o, q) /\ Holds(o, q) /\ a.table = table[c]
  BY <1>1, <1>4, <1>5, RefTaken
<1>7. table[p] \in [Fd -> File]
  BY <1>2, Begins
<1>8. Exact(s, o, q)
  <2>1. \A fd \in Fd : a.table[fd] = NoFile
    BY <1>3, <1>6
  <2> QED BY <1>1, <1>6, <1>7, <2>1, Copies
<1>9. live \in SUBSET Proc /\ IsFiniteSet(live) /\ initproc \in live
  BY DEF FilesInv, FilesTyped
<1>10. /\ live' \in SUBSET Proc /\ IsFiniteSet(live') /\ initproc \in live'
       /\ live' \ {c} = live \ {c} /\ c \in live'
       /\ Cardinality(live') = Cardinality(live) + 1
  BY <1>2, <1>9, FS_AddElement
<1>11. pwd' = [x \in Proc |-> IF x \in live' THEN root ELSE None]
  <2>1. pwd = [x \in Proc |-> IF x \in live THEN root ELSE None]
    BY DEF FilesInv, FilesTyped, Slots
  <2> QED BY <1>2, <2>1
<1>12. /\ lost' \in [Inode -> Nat]
       /\ \A n \in Inode : q[n] = o[n] + Holding(n)' + lost'[n]
  <2>1. lost \in [Inode -> Nat]
    BY DEF FilesInv, FilesTyped
  <2>2. ASSUME NEW n \in Inode PROVE q[n] = o[n] + Holding(n)' + lost'[n]
    <3>1. /\ Holding(n)' = (IF n = root THEN Cardinality(live') ELSE 0)
                           + (IF n \in SfsFile THEN 0 ELSE 1)
          /\ Holding(n) = (IF n = root THEN Cardinality(live) ELSE 0)
                          + (IF n \in SfsFile THEN 0 ELSE 1)
          /\ Cardinality(live) \in Nat
      BY <1>10, <1>11, HoldingNext, HoldingIs DEF FilesInv
    <3>2. Holding(n)' = Holding(n) + (IF n = root THEN 1 ELSE 0)
      BY <1>10, <3>1
    <3>3. /\ q[n] = r[n] + (IF n = root THEN 1 ELSE 0)
          /\ r[n] = o[n] + Holding(n) + lost[n]
          /\ o[n] \in Int /\ Holding(n) \in Nat /\ lost[n] \in Nat
      BY <1>1, <1>2, <1>3, ReferringIs DEF Plus
    <3> QED BY <1>2, <3>2, <3>3
  <2> QED BY <1>2, <2>1, <2>2
<1>13. Leaves(c, s, q)
  BY <1>1, <1>8, <1>10, <1>11, <1>12 DEF Leaves
<1> QED BY <1>2, <1>3, <1>13, Settles

\* A process ends, by exit or as an exec that fails, with s for its files.
LEMMA EndsKeeps ==
  ASSUME FilesInv, NEW p \in Proc, Runs(p), p # initproc, NEW s,
         Exact(s, Opening(p), Referring(p)), Ends(p, s)
  PROVE  FilesInv'
<1>1. PICK o, r, q, a, b, t : /\ a = vop_ref_dec(s, root) /\ b = CloseFrom(a, 0)
                              /\ t = Asserting(b, FreeFds(b) = Fd)
                              /\ o = Opening(p) /\ r = Referring(p) /\ q = Plus(r, root, -1)
  OBVIOUS
<1>2. /\ p \in live /\ reading[p] = None /\ pwd[p] = root
      /\ live' = live \ {p} /\ pwd' = [pwd EXCEPT ![p] = None]
      /\ Becomes(p, t) /\ UNCHANGED <<reading, lost>>
  <2>1. p \in live /\ reading[p] = None
    BY DEF Runs
  <2>2. pwd[p] = root
    BY <2>1 DEF FilesInv, Slots
  <2> QED BY <1>1, <2>1, <2>2 DEF Ends, files_destroy
<1>3. root \in Inode /\ root \notin SfsFile
  BY FilesAssumption DEF Inode
<1>4. Exact(s, o, r) /\ Holds(o, r)
  BY <1>1, <1>2, Begins
<1>5. \A n \in Inode : /\ q[n] = r[n] + (IF n = root THEN -1 ELSE 0)
                       /\ r[n] = o[n] + Holding(n) + lost[n]
                       /\ o[n] \in Int /\ Holding(n) \in Nat /\ lost[n] \in Nat
  BY <1>1, <1>2, ReferringIs DEF Plus
<1>6. o[root] < r[root]
  <2>1. Holding(root) > 0
    BY <1>3, HoldingIs DEF FilesInv
  <2> QED BY <1>3, <1>5, <2>1
<1>7. Exact(a, o, q) /\ Holds(o, q)
  BY <1>1, <1>3, <1>4, <1>6, RefGiven
<1>8. Exact(b, o, q) /\ \A fd \in Fd : b.table[fd] = NoFile
  <2>1. /\ Exact(b, o, q)
        /\ b.table = [fd \in Fd |-> IF fd < 0 THEN a.table[fd] ELSE NoFile]
    BY <1>1, <1>7, ClosesFrom
  <2>2. \A fd \in Fd : ~ (fd < 0)
    BY NodesDiffer
  <2> QED BY <2>1, <2>2
<1>9. t = b
  <2>1. FreeFds(b) = Fd
    BY <1>8, NodesDiffer DEF FreeFds
  <2>2. b \in Midway /\ b.ok = TRUE
    BY <1>8 DEF Exact
  <2> QED BY <1>1, <2>1, <2>2 DEF Asserting, Midway
<1>10. live \in SUBSET Proc /\ IsFiniteSet(live) /\ initproc \in live
  BY DEF FilesInv, FilesTyped
<1>11. /\ live' \in SUBSET Proc /\ IsFiniteSet(live') /\ initproc \in live'
       /\ live' \ {p} = live \ {p} /\ p \notin live'
       /\ Cardinality(live') = Cardinality(live) - 1
  BY <1>2, <1>10, FS_RemoveElement
<1>12. pwd' = [x \in Proc |-> IF x \in live' THEN root ELSE None]
  <2>1. pwd = [x \in Proc |-> IF x \in live THEN root ELSE None]
    BY DEF FilesInv, FilesTyped, Slots
  <2> QED BY <1>2, <2>1
<1>13. /\ lost' \in [Inode -> Nat]
       /\ \A n \in Inode : q[n] = o[n] + Holding(n)' + lost'[n]
  <2>1. lost \in [Inode -> Nat]
    BY DEF FilesInv, FilesTyped
  <2>2. ASSUME NEW n \in Inode PROVE q[n] = o[n] + Holding(n)' + lost'[n]
    <3>1. /\ Holding(n)' = (IF n = root THEN Cardinality(live') ELSE 0)
                           + (IF n \in SfsFile THEN 0 ELSE 1)
          /\ Holding(n) = (IF n = root THEN Cardinality(live) ELSE 0)
                          + (IF n \in SfsFile THEN 0 ELSE 1)
          /\ Cardinality(live) \in Nat
      BY <1>11, <1>12, HoldingNext, HoldingIs DEF FilesInv
    <3>2. Holding(n)' = Holding(n) - (IF n = root THEN 1 ELSE 0)
      BY <1>11, <3>1
    <3> QED BY <1>2, <1>5, <3>2
  <2> QED BY <1>2, <2>1, <2>2
<1>14. Leaves(p, t, q)
  BY <1>1, <1>8, <1>9, <1>11, <1>12, <1>13 DEF Leaves
<1> QED BY <1>2, <1>14, Settles

\* An exec that found its program: what it leaves.
LEMMA ExecLeaves ==
  ASSUME FilesInv, NEW p \in Proc, NEW n \in Inode, Exec(p, n)
  PROVE  \E s : /\ Runs(p) /\ Exact(s, Opening(p), Referring(p)) /\ Becomes(p, s)
                /\ s.table = [fd \in Fd |-> IF fd < 2 THEN table[p][fd] ELSE NoFile]
                /\ UNCHANGED <<live, pwd, reading, lost>>
<1>1. PICK o, r, a, fd, b, s :
        /\ o = Opening(p) /\ r = Referring(p)
        /\ a = files_closeall(Of(p)) /\ fd = Min(FreeFds(a))
        /\ b = FileOpen(a, n) /\ s = LoadIcode(b, fd)
  OBVIOUS
<1>2. Runs(p) /\ reading[p] = None /\ Becomes(p, s) /\ UNCHANGED <<live, pwd, reading, lost>>
  BY <1>1 DEF Exec, Runs
<1>3. Exact(Of(p), o, r) /\ Holds(o, r) /\ Of(p).table = table[p]
  BY <1>1, <1>2, Begins
<1>4. /\ Exact(a, o, r)
      /\ a.table = [x \in Fd |-> IF x < 2 THEN table[p][x] ELSE NoFile]
  <2>1. a = CloseFrom(Of(p), 2) /\ 2 \in Nat
    BY <1>1 DEF files_closeall
  <2> QED BY <1>3, <2>1, ClosesFrom
<1>5. FreeFds(a) # {}
  <2>1. 2 \in Fd /\ a.table[2] = NoFile
    BY <1>4, NodesDiffer
  <2> QED BY <2>1, NodesDiffer DEF FreeFds
<1>6. /\ Exact(b, o, r) /\ fd \in Fd /\ a.table[fd] = NoFile
      /\ b.table = [a.table EXCEPT ![fd] = Open(n)]
  BY <1>1, <1>3, <1>4, <1>5, OpensFile
<1>7. Exact(s, o, r) /\ s.table = [b.table EXCEPT ![fd] = NoFile]
  <2>1. b.table[fd] = Open(n)
    BY <1>4, <1>6
  <2>2. s = fd_array_close(b, fd)
    BY <1>1 DEF LoadIcode
  <2>3. Exact(b, o, r) /\ Holds(o, r) /\ fd \in Fd
    BY <1>3, <1>6
  <2> QED BY <2>1, <2>2, <2>3, Closes
<1>8. s.table = a.table
  BY <1>4, <1>6, <1>7
<1> QED BY <1>1, <1>2, <1>4, <1>7, <1>8

LEMMA ExecKeeps ==
  ASSUME FilesInv, NEW p \in Proc, NEW n \in Inode, Exec(p, n)
  PROVE  FilesInv'
<1>1. PICK s : /\ Runs(p) /\ Exact(s, Opening(p), Referring(p)) /\ Becomes(p, s)
               /\ UNCHANGED <<live, pwd, reading, lost>>
  BY ExecLeaves
<1>2. /\ lost' \in [Inode -> Nat]
      /\ \A m \in Inode : Referring(p)[m] = Opening(p)[m] + Holding(m) + lost'[m]
  BY <1>1, ReferringIs DEF Runs
<1> QED BY <1>1, <1>2, StaysThere

\* An exec that closed the descriptors and found no program.
LEMMA ClosesAll ==
  ASSUME FilesInv, NEW p \in Proc, Runs(p), NEW s, s = files_closeall(Of(p))
  PROVE  Exact(s, Opening(p), Referring(p)) /\ FreeFds(s) # {}
<1>1. Exact(Of(p), Opening(p), Referring(p)) /\ Holds(Opening(p), Referring(p))
  BY Begins DEF Runs
<1>2. s = CloseFrom(Of(p), 2) /\ 2 \in Nat
  BY DEF files_closeall
<1>3. /\ Exact(s, Opening(p), Referring(p))
      /\ s.table = [x \in Fd |-> IF x < 2 THEN Of(p).table[x] ELSE NoFile]
  BY <1>1, <1>2, ClosesFrom
<1>4. 2 \in Fd /\ s.table[2] = NoFile
  BY <1>3, NodesDiffer
<1> QED BY <1>3, <1>4, NodesDiffer DEF FreeFds

LEMMA ExecNotFoundKeeps ==
  ASSUME FilesInv, NEW p \in Proc, ExecNotFound(p)
  PROVE  FilesInv'
<1>1. PICK a, s : a = files_closeall(Of(p)) /\ s = inode_check(a, root, 1)
  OBVIOUS
<1>2. Runs(p) /\ p # initproc /\ Ends(p, s)
  BY <1>1 DEF ExecNotFound
<1>3. Exact(s, Opening(p), Referring(p))
  <2>1. Exact(a, Opening(p), Referring(p))
    BY <1>1, <1>2, ClosesAll
  <2>2. Holds(Opening(p), Referring(p))
    BY <1>2, Begins DEF Runs
  <2>3. root \in Inode /\ 1 \in Nat
    BY DEF Inode
  <2> QED BY <1>1, <2>1, <2>2, <2>3, Checks
<1> QED BY <1>2, <1>3, EndsKeeps

LEMMA ExecBadFileKeeps ==
  ASSUME FilesInv, NEW p \in Proc, NEW n \in Inode, ExecBadFile(p, n)
  PROVE  FilesInv'
<1>1. PICK a, b : a = files_closeall(Of(p)) /\ b = FileOpen(a, n)
  OBVIOUS
<1>2. Runs(p) /\ p # initproc /\ Ends(p, b)
  BY <1>1 DEF ExecBadFile
<1>3. Holds(Opening(p), Referring(p))
  BY <1>2, Begins DEF Runs
<1>4. Exact(a, Opening(p), Referring(p)) /\ FreeFds(a) # {}
  BY <1>1, <1>2, ClosesAll
<1>5. Exact(b, Opening(p), Referring(p))
  BY <1>1, <1>3, <1>4, OpensFile
<1> QED BY <1>2, <1>5, EndsKeeps

LEMMA ExitKeeps ==
  ASSUME FilesInv, NEW p \in Proc, Exit(p)
  PROVE  FilesInv'
<1>1. Runs(p) /\ p # initproc /\ Ends(p, Of(p)) /\ reading[p] = None
  BY DEF Exit, Runs
<1>2. Exact(Of(p), Opening(p), Referring(p))
  BY <1>1, Begins
<1> QED BY <1>1, <1>2, EndsKeeps

-----------------------------------------------------------------------------

LEMMA FilesInit ==
  Init => FilesInv
<1> SUFFICES ASSUME Init PROVE FilesInv
  OBVIOUS
<1>1. \A p \in Proc, fd \in Fd : table[p][fd] = NoFile /\ reading[p] = None
  BY DEF Init
<1>2. IsFiniteSet(live) /\ Cardinality(live) = 1
  BY FS_Singleton DEF Init
<1>3. FilesTyped
  BY <1>2, NodesDiffer DEF Init, FilesTyped, Proc, Inode
<1>4. Slots
  <2>1. \A p \in Proc, fd \in Fd : reading[p] # fd
    BY <1>1, FilesAssumption DEF Fd
  <2>2. \A p \in live : pwd[p] = root
    BY DEF Init, Proc
  <2>3. \A p \in Proc \ live : pwd[p] = None
    BY DEF Init
  <2>4. \A p \in Proc : reading[p] = None
    BY DEF Init
  <2>5. \A p \in Proc, fd \in Fd : table[p][fd] \in File
    BY <1>1, NodesDiffer
  <2> QED BY <1>1, <2>1, <2>2, <2>3, <2>4, <2>5 DEF Slots
<1>5. InodeCounts
  <2>1. ASSUME NEW n \in Inode
        PROVE  /\ inode[n].open = Cardinality(Naming(n))
               /\ inode[n].ref = Cardinality(Naming(n)) + Holding(n) + lost[n]
               /\ n \in loaded <=> inode[n].ref > 0
    <3>1. Naming(n) = {}
      <4>1. \A d \in Proc \X Fd : table[d[1]][d[2]].node # n
        BY <1>1, NodesDiffer
      <4> QED BY <4>1 DEF Naming
    <3>2. Cardinality(Naming(n)) = 0
      BY <3>1, FS_EmptySet
    <3>3. Holding(n) = (IF n = root THEN 1 ELSE 0) + (IF n \in SfsFile THEN 0 ELSE 1)
      BY <1>2, <1>3, <1>4, HoldingIs
    <3>4. /\ lost[n] = 0 /\ inode[n].open = 0 /\ loaded = {root, stdin}
          /\ inode[n].ref = IF n = root THEN 2 ELSE IF n = stdin THEN 1 ELSE 0
      BY DEF Init
    <3>5. /\ n \in SfsFile \/ n = root \/ n = stdin
          /\ root \notin SfsFile /\ stdin \notin SfsFile /\ root # stdin
      BY FilesAssumption DEF Inode
    <3> QED BY <3>2, <3>3, <3>4, <3>5
  <2> QED BY <2>1 DEF InodeCounts
<1> QED BY <1>3, <1>4, <1>5 DEF FilesInv

LEMMA FilesStep ==
  FilesInv /\ [Next]_vars => FilesInv'
<1> SUFFICES ASSUME FilesInv, [Next]_vars PROVE FilesInv'
  OBVIOUS
<1>1. ASSUME NEW p \in Proc, NEW n \in Inode, SysOpen(p, n) PROVE FilesInv'
  BY <1>1, SysOpenKeeps
<1>2. ASSUME NEW p \in Proc, NEW n \in Inode, SysOpenRefused(p, n) PROVE FilesInv'
  BY <1>2, SysOpenRefusedKeeps
<1>3. ASSUME NEW p \in Proc, NEW n \in Inode, SysOpenExcl(p, n) PROVE FilesInv'
  BY <1>3, SysOpenExclKeeps
<1>4. ASSUME NEW p \in Proc, NEW fd \in Fd, SysClose(p, fd) PROVE FilesInv'
  BY <1>4, SysCloseKeeps
<1>5. ASSUME NEW p \in Proc, NEW fd \in Fd, SysRead(p, fd) PROVE FilesInv'
  BY <1>5, SysReadKeeps
<1>6. ASSUME NEW p \in Proc, NEW from \in Fd, NEW to \in Fd, SysDup(p, from, to)
      PROVE  FilesInv'
  BY <1>6, SysDupKeeps
<1>7. ASSUME NEW p \in Proc, ReadEnds(p) PROVE FilesInv'
  BY <1>7, ReadEndsKeeps
<1>8. ASSUME NEW p \in Proc, NEW c \in User, Fork(p, c) PROVE FilesInv'
  BY <1>8, ForkKeeps
<1>9. ASSUME NEW p \in Proc, NEW n \in SfsFile, Exec(p, n) PROVE FilesInv'
  BY <1>9, ExecKeeps DEF Inode
<1>10. ASSUME NEW p \in Proc, NEW n \in SfsFile \cup {stdin}, ExecBadFile(p, n)
       PROVE  FilesInv'
  BY <1>10, ExecBadFileKeeps DEF Inode
<1>11. ASSUME NEW p \in Proc, Exit(p) PROVE FilesInv'
  BY <1>11, ExitKeeps
<1>12. ASSUME NEW p \in Proc, ExecNotFound(p) PROVE FilesInv'
  BY <1>12, ExecNotFoundKeeps
<1>13. ASSUME NEW p \in Proc, SysLookup(p) PROVE FilesInv'
  BY <1>13, SysLookupKeeps
<1>14. ASSUME NEW p \in Proc, SysCreate(p) PROVE FilesInv'
  BY <1>14, SysCreateKeeps
<1>15. ASSUME NEW p \in Proc, NEW fd \in Fd, SysUse(p, fd) PROVE FilesInv'
  BY <1>15, SysUseKeeps
<1>16. ASSUME NEW p \in Proc, NEW fd \in Fd, SysUseMissing(p, fd) PROVE FilesInv'
  BY <1>16, StopsOnly DEF SysUseMissing
<1>17. CASE UNCHANGED vars
  BY <1>17, StopsOnly DEF vars, FilesInv, FilesTyped
<1> QED
  BY <1>1, <1>2, <1>3, <1>4, <1>5, <1>6, <1>7, <1>8, <1>9, <1>10, <1>11, <1>12, <1>13,
     <1>14, <1>15, <1>16, <1>17
  DEF Next

(* The invariant holds of every reachable state: for any number of          *)
(* processes and files, and descriptor tables of any size.                  *)
THEOREM FilesInvariant == Spec => []FilesInv
BY FilesInit, FilesStep, PTL DEF Spec

LEMMA CountsFollow ==
  FilesInv => CountsExact
<1> SUFFICES ASSUME FilesInv PROVE CountsExact
  OBVIOUS
<1>1. ASSUME NEW p \in Proc, NEW fd \in Fd
      PROVE  table[p][fd].count = (IF table[p][fd].status = "opened" THEN 1 ELSE 0)
                                  + (IF reading[p] = fd THEN 1 ELSE 0)
  <2>1. CASE reading[p] = fd
    <3>1. table[p][fd] = Acquired
      BY <2>1 DEF FilesInv, Slots
    <3> QED BY <2>1, <3>1 DEF Acquired
  <2>2. CASE reading[p] # fd
    <3>1. table[p][fd] \in File
      BY <2>2 DEF FilesInv, Slots
    <3>2. table[p][fd] = NoFile \/ \E n \in Inode : table[p][fd] = Open(n)
      BY <3>1, NodesDiffer
    <3> QED BY <2>2, <3>2, NodesDiffer
  <2> QED BY <2>1, <2>2
<1> QED BY <1>1 DEF CountsExact, FilesInv, FilesTyped, InodeCounts

(* ref_count and open_count of every inode are what the descriptors, the    *)
(* working directories, bootfs, the list of devices and the references lost *)
(* by O_EXCL make them, through opens, dups, forks, execs, exits and reads  *)
(* that sleep: no inode is freed while it is named, none is kept that is    *)
(* not (but for those lost), and no assertion of inode.c, file.c or fs.c    *)
(* fails that compares the counts with each other or with 0, or is about    *)
(* descriptors.  The limit MAX_INODE_COUNT is not among them: it can be     *)
(* reached, and the kernel then stops with panic "limit".                   *)
THEOREM CountsCorrect == Spec => []CountsExact
<1>1. Spec => []FilesInv
  BY FilesInvariant
<1> QED BY <1>1, CountsFollow, PTL

(* do_execve leaves a program the standard descriptors of its caller and no *)
(* other, whichever descriptor its own file had while it was loaded.        *)
THEOREM ExecStandard == Spec => ExecKeepsStandard
<1>1. ASSUME FilesInv, NEW p \in User, NEW n \in SfsFile, Exec(p, n)
      PROVE  table'[p] = [fd \in Fd |-> IF fd < 2 THEN table[p][fd] ELSE NoFile]
  <2>1. p \in Proc /\ n \in Inode /\ table \in [Proc -> [Fd -> File \cup {Acquired}]]
    BY <1>1 DEF Proc, Inode, FilesInv, FilesTyped
  <2>2. PICK s : /\ Becomes(p, s)
                 /\ s.table = [fd \in Fd |-> IF fd < 2 THEN table[p][fd] ELSE NoFile]
    BY <1>1, <2>1, ExecLeaves
  <2> QED BY <2>1, <2>2 DEF Becomes
<1>2. FilesInv => \A p \in User, n \in SfsFile :
        Exec(p, n) /\ panic' = "no" =>
            table'[p] = [fd \in Fd |-> IF fd < 2 THEN table[p][fd] ELSE NoFile]
  BY <1>1
<1>3. Spec => []FilesInv
  BY FilesInvariant
<1> QED BY <1>2, <1>3, PTL DEF ExecKeepsStandard

=============================================================================
