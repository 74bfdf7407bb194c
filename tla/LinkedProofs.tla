----------------------------- MODULE LinkedProofs -----------------------------
(***************************************************************************)
(* What is proved of the processes that are linked to each other, for every *)
(* set of process structures.  Pids and family links, for every MAX_PROCESS *)
(* and MAX_PID the static_assert allows: no two live processes have the     *)
(* same pid, the sibling lists hold exactly the children, and every child   *)
(* is found by the process that must collect it.  The stride scheduler, for *)
(* every width of the strides: the skew heap holds exactly the queue, the   *)
(* strides of busy processes stay comparable, and the least one is picked.  *)
(* The timer list, for every set of timers and every delay: the distances   *)
(* it keeps make every timer fire at its own deadline, equal ones in order. *)
(***************************************************************************)
EXTENDS Pid, Stride, TimerList, NatProofs, SequenceTheorems

-----------------------------------------------------------------------------
(* Pids.  A walk over proc_list stops at a pid that nobody has.             *)

\* The processes in the list L have pids, all different.
Numbered(L, pids) ==
    /\ L \in Seq(Proc)
    /\ \A i, j \in DOMAIN L : L[i] = L[j] => i = j
    /\ \A i \in DOMAIN L : pids[L[i]] \in 1 .. MaxPid - 1
    /\ \A i, j \in DOMAIN L : pids[L[i]] = pids[L[j]] => i = j

\* No process has a pid above last and below safe.
Gap(L, pids, last, safe) ==
    /\ last \in 1 .. MaxPid - 1 /\ safe \in 1 .. MaxPid /\ last < safe
    /\ \A i \in DOMAIN L : pids[L[i]] <= last \/ pids[L[i]] >= safe

Unused(L, pids, g) == g \in 1 .. MaxPid - 1 /\ \A i \in DOMAIN L : pids[L[i]] # g

LiveProc == {initproc} \cup {c \in User : status[c] # "none"}

PidInv ==
    /\ pid \in [Proc -> Nat]
    /\ Numbered(procList, pid)
    /\ ToSet(procList) = LiveProc
    /\ Gap(procList, pid, lastPid, nextSafe)

LEMMA Consts ==
  /\ initproc \notin User /\ NULL \notin Proc /\ NULL \notin User /\ IsFiniteSet(User)
  /\ User \subseteq Proc /\ initproc \in Proc /\ IsFiniteSet(Proc)
  /\ \A p \in Proc : p = initproc \/ p \in User
  /\ MaxProcess \in Nat /\ MaxPid \in Nat /\ MaxPid > 2 /\ MaxPid > MaxProcess
<1>1. IsFiniteSet(User \cup {initproc})
  BY FamilyAssumption, FS_AddElement
<1> QED BY <1>1, FamilyAssumption, PidAssumption DEF Proc

\* There are more pids than processes.
LEMMA SomeUnused ==
  ASSUME NEW L, NEW pids, Numbered(L, pids), Len(L) + 1 < MaxProcess
  PROVE  \E g : Unused(L, pids, g)
<1>1. PICK n \in Nat : n = Len(L)
  BY DEF Numbered
<1>2. /\ DOMAIN L = 1 .. n /\ n < MaxPid - 1 /\ n \in Int /\ MaxPid - 1 \in Int
      /\ n >= 0 /\ MaxPid - 1 >= 1
  BY <1>1, Consts DEF Numbered
<1>3. IsFiniteSet(1 .. n) /\ Cardinality(1 .. n) = n
  BY <1>2, FS_Interval
<1>4. IsFiniteSet(1 .. MaxPid - 1) /\ Cardinality(1 .. MaxPid - 1) = MaxPid - 1
  BY <1>2, FS_Interval
<1>5. PICK f : f = [i \in 1 .. n |-> pids[L[i]]]
  OBVIOUS
<1>6. f \in Injection(1 .. n, 1 .. MaxPid - 1)
  BY <1>2, <1>5 DEF Injection, IsInjective, Numbered
<1>7. f \notin Surjection(1 .. n, 1 .. MaxPid - 1)
  BY <1>2, <1>3, <1>4, <1>6, FS_Injection
<1>8. PICK g \in 1 .. MaxPid - 1 : \A i \in 1 .. n : f[i] # g
  BY <1>6, <1>7 DEF Injection, Surjection
<1>9. Unused(L, pids, g)
  BY <1>2, <1>5, <1>8 DEF Unused
<1> QED BY <1>9

\* Where a walk may be, the pids met so far being below last or not below safe.
Walks(L, pids) ==
    {w \in [i : Nat, last : Nat, safe : Nat] :
        /\ w.i \in 1 .. Len(L) + 1 /\ w.last \in 1 .. MaxPid - 1 /\ w.safe \in 1 .. MaxPid
        /\ w.last < w.safe
        /\ \A j \in 1 .. w.i - 1 : pids[L[j]] < w.last \/ pids[L[j]] >= w.safe}

Ahead(last, g) == IF g >= last THEN g - last ELSE g - last + MaxPid - 1

\* How many rounds the walk w may still take, when pid g is free.
Rest(L, g, w) == Ahead(w.last, g) * (Len(L) + 1) + (Len(L) + 1 - w.i)

\* The round of get_pid, with the list and the pids as parameters.
Round(L, pids, w) ==
    IF w.i > Len(L) THEN w
    ELSE IF pids[L[w.i]] = w.last
    THEN IF w.last + 1 >= w.safe
         THEN [i |-> 1, last |-> IF w.last + 1 >= MaxPid THEN 1 ELSE w.last + 1,
               safe |-> MaxPid]
         ELSE [i |-> w.i + 1, last |-> w.last + 1, safe |-> w.safe]
    ELSE [i |-> w.i + 1, last |-> w.last,
          safe |-> IF pids[L[w.i]] > w.last /\ w.safe > pids[L[w.i]]
                   THEN pids[L[w.i]] ELSE w.safe]

LEMMA Product ==
  ASSUME NEW a \in Nat, NEW b \in Nat, NEW n \in Nat, a < b
  PROVE  a * n \in Nat /\ b * n \in Nat /\ a * n + n <= b * n
<1>1. PICK k \in Nat : b = a + 1 + k
  <2>1. b - a - 1 \in Nat
    OBVIOUS
  <2> QED BY <2>1
<1>2. b * n = a * n + n + k * n /\ k * n \in Nat /\ a * n \in Nat
  BY <1>1
<1> QED BY <1>2

\* A round keeps what is known of the walk and brings it nearer to its end.
LEMMA Rounds ==
  ASSUME NEW L, NEW pids, Numbered(L, pids), NEW g, Unused(L, pids, g),
         NEW w \in Walks(L, pids), NEW t, t = Round(L, pids, w)
  PROVE  /\ t \in Walks(L, pids) /\ Rest(L, g, t) \in Nat
         /\ Rest(L, g, w) \in Nat
         /\ w.i <= Len(L) => Rest(L, g, t) < Rest(L, g, w)
         /\ w.i > Len(L) => t = w
<1>0. PICK n, id : n = Len(L) /\ id = pids[L[w.i]]
  OBVIOUS
<1>1. n \in Nat /\ DOMAIN L = 1 .. n /\ MaxPid \in Nat /\ MaxPid > 2
      /\ g \in 1 .. MaxPid - 1
  BY <1>0, Consts DEF Numbered, Unused
<1>2. /\ w.i \in 1 .. n + 1 /\ w.last \in 1 .. MaxPid - 1 /\ w.safe \in 1 .. MaxPid
      /\ w.last < w.safe
  BY <1>0 DEF Walks
<1>3. /\ \A j \in 1 .. n : pids[L[j]] \in 1 .. MaxPid - 1 /\ pids[L[j]] # g
      /\ \A j \in 1 .. w.i - 1 : pids[L[j]] < w.last \/ pids[L[j]] >= w.safe
  BY <1>1 DEF Numbered, Unused, Walks
<1>id. w.i <= n => w.i \in 1 .. n /\ id \in 1 .. MaxPid - 1 /\ id # g
  BY <1>0, <1>1, <1>2, <1>3
<1>4. ASSUME NEW last \in 1 .. MaxPid - 1 PROVE Ahead(last, g) \in Nat
  BY <1>1 DEF Ahead
<1>5. ASSUME NEW v \in Walks(L, pids) PROVE Rest(L, g, v) \in Nat
  <2>1. v.i \in 1 .. n + 1 /\ v.last \in 1 .. MaxPid - 1
    BY <1>0 DEF Walks
  <2>2. PICK a \in Nat : a = Ahead(v.last, g)
    BY <1>4, <2>1
  <2>3. a * (n + 1) \in Nat /\ n + 1 - v.i \in Nat
    BY <1>1, <2>1
  <2> QED BY <1>0, <2>2, <2>3 DEF Rest
<1>6. CASE w.i > n
  <2>1. t = w
    BY <1>0, <1>1, <1>2, <1>6 DEF Round
  <2> QED BY <1>0, <1>1, <1>2, <1>5, <1>6, <2>1
<1>7. CASE w.i <= n /\ id = w.last /\ w.last + 1 >= w.safe
  <2>1. PICK last \in 1 .. MaxPid - 1 :
            last = IF w.last + 1 >= MaxPid THEN 1 ELSE w.last + 1
    BY <1>1, <1>2
  <2>2. t = [i |-> 1, last |-> last, safe |-> MaxPid]
    BY <1>0, <1>1, <1>2, <1>7, <2>1 DEF Round
  <2>3. t \in Walks(L, pids)
    BY <1>0, <1>1, <2>1, <2>2 DEF Walks
  <2>4. g # w.last
    BY <1>id, <1>7
  <2>5. PICK a, b \in Nat : a = Ahead(last, g) /\ b = Ahead(w.last, g) /\ a < b
    <3>1. Ahead(last, g) < Ahead(w.last, g)
      BY <1>0, <1>1, <1>2, <2>1, <2>4 DEF Ahead
    <3> QED BY <1>2, <1>4, <3>1
  <2>6. a * (n + 1) + (n + 1) <= b * (n + 1) /\ a * (n + 1) \in Nat /\ b * (n + 1) \in Nat
    <3>1. PICK m \in Nat : m = n + 1
      BY <1>1
    <3>2. a * m + m <= b * m /\ a * m \in Nat /\ b * m \in Nat
      BY <2>5, Product
    <3> QED BY <3>1, <3>2
  <2>7. Rest(L, g, t) = a * (n + 1) + n /\ Rest(L, g, w) = b * (n + 1) + (n + 1 - w.i)
    BY <1>0, <1>1, <1>2, <2>2, <2>5 DEF Rest
  <2>8. Rest(L, g, t) < Rest(L, g, w)
    <3>1. PICK am, bm \in Nat : am = a * (n + 1) /\ bm = b * (n + 1) /\ am + (n + 1) <= bm
      BY <2>6
    <3>2. Rest(L, g, t) = am + n /\ Rest(L, g, w) = bm + (n + 1 - w.i) /\ w.i \in 1 .. n
      BY <1>id, <1>7, <2>7, <3>1
    <3>3. am + n < bm + (n + 1 - w.i)
      BY <1>1, <3>1, <3>2
    <3> QED BY <3>2, <3>3
  <2> QED BY <1>0, <1>1, <1>2, <1>5, <1>7, <2>3, <2>8
<1>8. CASE w.i <= n /\ id = w.last /\ ~ (w.last + 1 >= w.safe)
  <2>1. t = [i |-> w.i + 1, last |-> w.last + 1, safe |-> w.safe]
    BY <1>0, <1>1, <1>2, <1>8 DEF Round
  <2>2. w.last + 1 \in 1 .. MaxPid - 1 /\ w.last + 1 < w.safe /\ w.i + 1 \in 1 .. n + 1
    <3>1. w.last + 1 < w.safe
      BY <1>1, <1>2, <1>8
    <3>2. w.last + 1 \in 1 .. MaxPid - 1
      BY <1>1, <1>2, <3>1
    <3>3. w.i + 1 \in 1 .. n + 1
      BY <1>1, <1>id, <1>8
    <3> QED BY <3>1, <3>2, <3>3
  <2>3. ASSUME NEW j \in 1 .. (w.i + 1) - 1
        PROVE  pids[L[j]] < w.last + 1 \/ pids[L[j]] >= w.safe
    <3>1. CASE j = w.i
      <4>1. pids[L[j]] = w.last /\ w.last \in Int
        <5>1. pids[L[j]] = id /\ id = w.last
          BY <1>0, <1>8, <3>1
        <5>2. w.last \in Int
          BY <1>1, <1>2
        <5> QED BY <5>1, <5>2
      <4> QED BY <4>1
    <3>2. CASE j \in 1 .. w.i - 1
      <4>1. j \in 1 .. n
        BY <1>1, <1>2, <1>8, <3>2
      <4>2. pids[L[j]] \in Int /\ (pids[L[j]] < w.last \/ pids[L[j]] >= w.safe)
        BY <1>3, <3>2, <4>1
      <4> QED BY <1>2, <4>2
    <3>3. j = w.i \/ j \in 1 .. w.i - 1
      BY <1>2
    <3> QED BY <3>1, <3>2, <3>3
  <2>4. t \in Walks(L, pids)
    BY <1>0, <1>1, <1>2, <2>1, <2>2, <2>3 DEF Walks
  <2>5. g # w.last
    BY <1>id, <1>8
  <2>6. PICK a, b \in Nat : a = Ahead(w.last + 1, g) /\ b = Ahead(w.last, g) /\ a < b
    <3>1. Ahead(w.last + 1, g) < Ahead(w.last, g)
      BY <1>0, <1>1, <1>2, <2>2, <2>5 DEF Ahead
    <3> QED BY <1>2, <1>4, <2>2, <3>1
  <2>7. a * (n + 1) + (n + 1) <= b * (n + 1) /\ a * (n + 1) \in Nat /\ b * (n + 1) \in Nat
    <3>1. PICK m \in Nat : m = n + 1
      BY <1>1
    <3>2. a * m + m <= b * m /\ a * m \in Nat /\ b * m \in Nat
      BY <2>6, Product
    <3> QED BY <3>1, <3>2
  <2>8. /\ Rest(L, g, t) = a * (n + 1) + (n + 1 - (w.i + 1))
        /\ Rest(L, g, w) = b * (n + 1) + (n + 1 - w.i)
    BY <1>0, <1>1, <1>2, <2>1, <2>6 DEF Rest
  <2>9. Rest(L, g, t) < Rest(L, g, w)
    <3>1. PICK am, bm \in Nat : am = a * (n + 1) /\ bm = b * (n + 1) /\ am + (n + 1) <= bm
      BY <2>7
    <3>2. /\ Rest(L, g, t) = am + (n + 1 - (w.i + 1))
          /\ Rest(L, g, w) = bm + (n + 1 - w.i) /\ w.i \in 1 .. n
      BY <1>id, <1>8, <2>8, <3>1
    <3>3. am + (n + 1 - (w.i + 1)) < bm + (n + 1 - w.i)
      BY <1>1, <3>1, <3>2
    <3> QED BY <3>2, <3>3
  <2> QED BY <1>0, <1>1, <1>2, <1>5, <1>8, <2>4, <2>9
<1>9. CASE w.i <= n /\ id # w.last
  <2>1. PICK safe : safe = IF id > w.last /\ w.safe > id THEN id ELSE w.safe
    OBVIOUS
  <2>2. t = [i |-> w.i + 1, last |-> w.last, safe |-> safe]
    BY <1>0, <1>1, <1>2, <1>9, <2>1 DEF Round
  <2>3. id \in 1 .. MaxPid - 1
    BY <1>id, <1>9
  <2>4. /\ safe \in 1 .. MaxPid /\ w.last < safe /\ safe <= w.safe
        /\ id < w.last \/ id >= safe
    <3>0. w.last \in 1 .. MaxPid - 1 /\ w.safe \in 1 .. MaxPid /\ w.last < w.safe /\ id # w.last
      BY <1>2, <1>9
    <3>1. CASE id > w.last /\ w.safe > id
      BY <1>1, <2>1, <2>3, <3>0, <3>1
    <3>2. CASE ~ (id > w.last /\ w.safe > id)
      BY <1>1, <2>1, <2>3, <3>0, <3>2
    <3> QED BY <3>1, <3>2
  <2>5. ASSUME NEW j \in 1 .. (w.i + 1) - 1
        PROVE  pids[L[j]] < w.last \/ pids[L[j]] >= safe
    <3>1. CASE j = w.i
      BY <1>0, <2>4, <3>1
    <3>2. CASE j \in 1 .. w.i - 1
      <4>1. j \in 1 .. n
        BY <1>1, <1>2, <1>9, <3>2
      <4>2. pids[L[j]] \in Int /\ (pids[L[j]] < w.last \/ pids[L[j]] >= w.safe)
        BY <1>3, <3>2, <4>1
      <4> QED BY <1>2, <2>4, <4>2
    <3>3. j = w.i \/ j \in 1 .. w.i - 1
      BY <1>2
    <3> QED BY <3>1, <3>2, <3>3
  <2>6. t \in Walks(L, pids)
    BY <1>0, <1>1, <1>2, <1>9, <2>2, <2>4, <2>5 DEF Walks
  <2>7. PICK b \in Nat : b = Ahead(w.last, g)
    BY <1>2, <1>4
  <2>8. /\ Rest(L, g, t) = b * (n + 1) + (n + 1 - (w.i + 1))
        /\ Rest(L, g, w) = b * (n + 1) + (n + 1 - w.i)
        /\ b * (n + 1) \in Nat
    BY <1>0, <1>1, <1>2, <2>2, <2>7 DEF Rest
  <2>9. Rest(L, g, t) < Rest(L, g, w)
    <3>1. PICK bm \in Nat : bm = b * (n + 1)
      BY <2>8
    <3>2. bm + (n + 1 - (w.i + 1)) < bm + (n + 1 - w.i)
      BY <1>1, <1>2, <3>1
    <3> QED BY <2>8, <3>1, <3>2
  <2> QED BY <1>0, <1>1, <1>2, <1>5, <1>9, <2>6, <2>9
<1> QED BY <1>0, <1>1, <1>2, <1>6, <1>7, <1>8, <1>9

\* A walk of enough rounds has ended, at a pid that nobody has.
LEMMA ScanEnds ==
  ASSUME Numbered(procList, pid), Len(procList) + 1 < MaxProcess,
         NEW last \in 1 .. MaxPid - 1, NEW w, w = Scan(last)
  PROVE  Gap(procList, pid, w.last, w.safe) /\ Unused(procList, pid, w.last)
<1>1. PICK g : Unused(procList, pid, g)
  BY SomeUnused
<1>2. PICK n \in Nat : n = Len(procList) /\ DOMAIN procList = 1 .. n
  BY DEF Numbered
<1>3. MaxPid \in Nat /\ g \in 1 .. MaxPid - 1 /\ 1 \in 1 .. n + 1
  BY <1>1, Consts DEF Unused
<1>4. PICK m \in Nat : m = MaxPid * (n + 1)
  BY <1>3
<1>5. PICK start : start = [i |-> 1, last |-> last, safe |-> MaxPid]
  OBVIOUS
<1>6. /\ start \in Walks(procList, pid)
      /\ Rest(procList, g, start) <= m /\ Rest(procList, g, start) \in Nat
  <2>1. start \in Walks(procList, pid)
    BY <1>2, <1>3, <1>5 DEF Walks
  <2>2. PICK a \in Nat : a = Ahead(last, g) /\ a < MaxPid
    <3>1. Ahead(last, g) \in Nat /\ Ahead(last, g) < MaxPid
      BY <1>3 DEF Ahead
    <3> QED BY <3>1
  <2>3. PICK k \in Nat : k = n + 1
    OBVIOUS
  <2>4. a * k + k <= MaxPid * k /\ a * k \in Nat
    BY <1>3, <2>2, <2>3, Product
  <2>5. Rest(procList, g, start) = a * k + n
    BY <1>2, <1>5, <2>2, <2>3, <2>4 DEF Rest
  <2> QED BY <1>4, <2>1, <2>3, <2>4, <2>5
<1>7. \A v \in Walks(procList, pid) : ScanStep(v) = Round(procList, pid, v)
  <2> TAKE v \in Walks(procList, pid)
  <2>1. v \in [i : Nat, last : Nat, safe : Nat]
    BY DEF Walks
  <2>2. ASSUME NEW x, NEW y, NEW t, t = [v EXCEPT !.i = x, !.last = y]
        PROVE  t = [i |-> x, last |-> y, safe |-> v.safe]
    BY <2>1, <2>2
  <2>3. ASSUME NEW x, NEW z, NEW t, t = [v EXCEPT !.i = x, !.safe = z]
        PROVE  t = [i |-> x, last |-> v.last, safe |-> z]
    BY <2>1, <2>3
  <2> DEFINE id == pid[procList[v.i]]
  <2>4. CASE v.i > Len(procList)
    BY <2>4 DEF ScanStep, Round
  <2>5. CASE ~ (v.i > Len(procList)) /\ id = v.last
    BY <2>2, <2>5 DEF ScanStep, Round
  <2>6. CASE ~ (v.i > Len(procList)) /\ id # v.last
    <3>1. PICK z, t : /\ z = IF id > v.last /\ v.safe > id THEN id ELSE v.safe
                      /\ t = [v EXCEPT !.i = v.i + 1, !.safe = z]
      OBVIOUS
    <3>2. ScanStep(v) = t
      BY <2>6, <3>1 DEF ScanStep
    <3>3. t = [i |-> v.i + 1, last |-> v.last, safe |-> z]
      BY <2>3, <3>1
    <3>4. Round(procList, pid, v) = [i |-> v.i + 1, last |-> v.last, safe |-> z]
      BY <2>6, <3>1 DEF Round
    <3> QED BY <3>2, <3>3, <3>4
  <2> QED BY <2>4, <2>5, <2>6
<1> DEFINE P == [j \in 0 .. m |-> {v \in Walks(procList, pid) :
                                      v.i > n \/ Rest(procList, g, v) + j <= m}]
           step == [x \in Walks(procList, pid) \X (0 .. m - 1) |-> Round(procList, pid, x[1])]
<1>8. ASSUME NEW j \in 0 .. m - 1, NEW v \in P[j]
      PROVE  step[<<v, j>>] = Round(procList, pid, v) /\ step[<<v, j>>] \in P[j + 1]
  <2>1. v \in Walks(procList, pid) /\ (v.i > n \/ Rest(procList, g, v) + j <= m)
    OBVIOUS
  <2>2. PICK t : t = Round(procList, pid, v)
    OBVIOUS
  <2>3. step[<<v, j>>] = t
    BY <2>1, <2>2
  <2>4. /\ t \in Walks(procList, pid) /\ Rest(procList, g, t) \in Nat
        /\ Rest(procList, g, v) \in Nat
        /\ v.i <= n => Rest(procList, g, t) < Rest(procList, g, v)
        /\ v.i > n => t = v
    BY <1>1, <1>2, <2>1, <2>2, Rounds
  <2>5. v.i \in Nat
    BY <2>1 DEF Walks
  <2>6. t.i > n \/ Rest(procList, g, t) + (j + 1) <= m
    BY <2>1, <2>4, <2>5
  <2>7. j + 1 \in 0 .. m
    OBVIOUS
  <2>8. t \in P[j + 1]
    BY <2>4, <2>6, <2>7
  <2> QED BY <2>2, <2>3, <2>8
<1>9. start \in P[0]
  <2>1. P[0] = {v \in Walks(procList, pid) : v.i > n \/ Rest(procList, g, v) + 0 <= m}
    OBVIOUS
  <2> HIDE DEF P
  <2> QED BY <1>6, <2>1
<1>10. P[m] = {v \in Walks(procList, pid) : v.i > n \/ Rest(procList, g, v) + m <= m}
  OBVIOUS
<1> HIDE DEF P, step
<1>11. Passes(start, m, P, step)
  BY <1>8, <1>9 DEF Passes
<1>12. PICK h : Iterates(h, start, m, P, step)
  BY <1>11, Iteration
<1> DEFINE After(j, f) == IF j = 0 THEN start ELSE ScanStep(f[j - 1])
<1>13. h = [j \in 0 .. m |-> After(j, h)]
  <2>1. ASSUME NEW j \in 0 .. m PROVE h[j] = After(j, h)
    <3>1. CASE j = 0
      BY <1>12, <3>1 DEF Iterates
    <3>2. CASE j # 0
      <4>1. j - 1 \in 0 .. m - 1 /\ j - 1 \in 0 .. m /\ (j - 1) + 1 = j
        BY <3>2
      <4>2. h[j - 1] \in P[j - 1] /\ h[j] = step[<<h[j - 1], j - 1>>]
        BY <1>12, <4>1 DEF Iterates
      <4>3. h[j] = Round(procList, pid, h[j - 1])
        BY <1>8, <4>1, <4>2
      <4>4. h[j - 1] \in Walks(procList, pid)
        BY <4>1, <4>2 DEF P
      <4> QED BY <1>7, <3>2, <4>3, <4>4
    <3> QED BY <3>1, <3>2
  <2>2. h = [j \in 0 .. m |-> h[j]]
    BY <1>12 DEF Iterates
  <2> QED BY <2>1, <2>2
<1>14. PICK after : /\ after = [j \in 0 .. m |-> After(j, after)]
                    /\ w = after[m]
  <2> DEFINE after == CHOOSE f : f = [j \in 0 .. m |-> After(j, f)]
  <2>1. after = [j \in 0 .. m |-> After(j, after)]
    BY <1>13
  <2>2. w = after[m]
    BY <1>2, <1>4, <1>5 DEF Scan
  <2> QED BY <2>1, <2>2
<1>15. w \in P[m]
  <2>1. after[0] = start
    BY <1>14
  <2>2. ASSUME NEW j \in 0 .. m - 1, after[j] \in P[j]
        PROVE  after[j + 1] = step[<<after[j], j>>]
    <3>1. j + 1 \in 0 .. m /\ j + 1 # 0 /\ (j + 1) - 1 = j /\ j \in 0 .. m
      OBVIOUS
    <3>2. after[j + 1] = After(j + 1, after)
      BY <1>14, <3>1
    <3>3. after[j + 1] = ScanStep(after[j])
      BY <3>1, <3>2
    <3>4. after[j] \in Walks(procList, pid)
      BY <2>2, <3>1 DEF P
    <3> QED BY <1>7, <1>8, <2>2, <3>3, <3>4
  <2>3. after[m] \in P[m]
    BY <1>11, <2>1, <2>2, IterationEnds
  <2> QED BY <1>14, <2>3
<1>16. w \in Walks(procList, pid) /\ w.i = n + 1
  <2>1. w \in Walks(procList, pid) /\ (w.i > n \/ Rest(procList, g, w) + m <= m)
    BY <1>10, <1>15
  <2>2. w.i \in 1 .. n + 1 /\ w.last \in 1 .. MaxPid - 1
    BY <1>2, <2>1 DEF Walks
  <2>3. ASSUME w.i <= n PROVE Rest(procList, g, w) > 0
    <3>1. Ahead(w.last, g) \in Nat
      BY <1>3, <2>2 DEF Ahead
    <3>2. PICK a \in Nat : a = Ahead(w.last, g)
      BY <3>1
    <3>3. a * (n + 1) \in Nat /\ n + 1 - w.i > 0
      BY <2>2, <2>3
    <3> QED BY <1>2, <2>2, <3>2, <3>3 DEF Rest
  <2>4. Rest(procList, g, w) \in Nat
    <3>1. PICK t : t = Round(procList, pid, w)
      OBVIOUS
    <3> QED BY <1>1, <2>1, <3>1, Rounds
  <2> QED BY <2>1, <2>2, <2>3, <2>4
<1>17. /\ w.last \in 1 .. MaxPid - 1 /\ w.safe \in 1 .. MaxPid /\ w.last < w.safe
       /\ \A j \in 1 .. n : pid[procList[j]] < w.last \/ pid[procList[j]] >= w.safe
  <2>1. (n + 1) - 1 = n
    OBVIOUS
  <2> QED BY <1>16, <2>1 DEF Walks
<1>18. \A j \in 1 .. n : pid[procList[j]] \in 1 .. MaxPid - 1
  BY <1>2 DEF Numbered
<1> QED BY <1>2, <1>3, <1>17, <1>18 DEF Gap, Unused

-----------------------------------------------------------------------------
(* Lists: one more in front, one less in front, one less anywhere.          *)

LEMMA PushIs ==
  ASSUME NEW S, NEW s \in Seq(S), NEW c \in S, NEW t, t = <<c>> \o s
  PROVE  /\ t \in Seq(S) /\ Len(t) = Len(s) + 1 /\ t[1] = c
         /\ DOMAIN t = 1 .. Len(s) + 1 /\ DOMAIN s = 1 .. Len(s) /\ Len(s) \in Nat
         /\ \A i \in 1 .. Len(s) : t[i + 1] = s[i]
         /\ \A i \in 2 .. Len(s) + 1 : t[i] = s[i - 1]
OBVIOUS

LEMMA TailIs ==
  ASSUME NEW S, NEW s \in Seq(S), s # <<>>, NEW t, t = Tail(s)
  PROVE  /\ t \in Seq(S) /\ Len(t) = Len(s) - 1 /\ Len(s) \in Nat \ {0}
         /\ DOMAIN t = 1 .. Len(s) - 1 /\ DOMAIN s = 1 .. Len(s) /\ 1 \in DOMAIN s
         /\ \A i \in 1 .. Len(s) - 1 : t[i] = s[i + 1]
OBVIOUS

Without(t, S, s, i) ==
    /\ t \in Seq(S) /\ Len(t) = Len(s) - 1 /\ Len(s) \in Nat
    /\ DOMAIN t = 1 .. Len(s) - 1 /\ DOMAIN s = 1 .. Len(s) /\ i \in 1 .. Len(s)
    /\ \A j \in 1 .. Len(s) - 1 : t[j] = IF j < i THEN s[j] ELSE s[j + 1]

LEMMA RemoveIs ==
  ASSUME NEW S, NEW s \in Seq(S), NEW i \in DOMAIN s, NEW t, t = RemoveAt(s, i)
  PROVE  Without(t, S, s, i)
<1>1. PICK n \in Nat : n = Len(s) /\ DOMAIN s = 1 .. n /\ i \in 1 .. n
  OBVIOUS
<1>2. PICK a : /\ a = SubSeq(s, 1, i - 1) /\ a \in Seq(S) /\ Len(a) = i - 1
               /\ \A j \in 1 .. i - 1 : a[j] = s[j]
  <2>1. PICK a : a = SubSeq(s, 1, i - 1)
    OBVIOUS
  <2>2. a \in Seq(S) /\ Len(a) = i - 1
    BY <1>1, <2>1
  <2>3. \A j \in 1 .. i - 1 : a[j] = s[j]
    BY <1>1, <2>1
  <2> QED BY <2>1, <2>2, <2>3
<1>3. PICK b : /\ b = SubSeq(s, i + 1, n) /\ b \in Seq(S) /\ Len(b) = n - i
               /\ \A j \in 1 .. n - i : b[j] = s[i + j]
  <2>1. PICK b : b = SubSeq(s, i + 1, n)
    OBVIOUS
  <2>2. b \in Seq(S) /\ Len(b) = n - i
    BY <1>1, <2>1
  <2>3. \A j \in 1 .. n - i : b[j] = s[i + j]
    BY <1>1, <2>1
  <2> QED BY <2>1, <2>2, <2>3
<1>4. t = a \o b
  BY <1>1, <1>2, <1>3 DEF RemoveAt
<1>5. /\ t \in Seq(S) /\ Len(t) = n - 1
      /\ \A j \in 1 .. n - 1 : t[j] = IF j <= i - 1 THEN a[j] ELSE b[j - (i - 1)]
  <2>0. a \in Seq(S) /\ b \in Seq(S)
    BY <1>2, <1>3
  <2>1. /\ t \in Seq(S) /\ Len(t) = Len(a) + Len(b)
        /\ \A j \in 1 .. Len(a) + Len(b) : t[j] = IF j <= Len(a) THEN a[j] ELSE b[j - Len(a)]
    <3>1. /\ a \o b \in Seq(S)
          /\ Len(a \o b) = Len(a) + Len(b)
          /\ \A j \in 1 .. Len(a) + Len(b) :
                (a \o b)[j] = IF j <= Len(a) THEN a[j] ELSE b[j - Len(a)]
      BY <2>0, ConcatProperties, Zenon
    <3> QED BY <1>4, <3>1
  <2>2. (i - 1) + (n - i) = n - 1
    BY <1>1
  <2> QED BY <1>2, <1>3, <2>1, <2>2
<1>6. ASSUME NEW j \in 1 .. n - 1 PROVE t[j] = IF j < i THEN s[j] ELSE s[j + 1]
  <2>1. t[j] = IF j <= i - 1 THEN a[j] ELSE b[j - (i - 1)]
    BY <1>5
  <2>2. CASE j < i
    BY <1>1, <1>2, <2>1, <2>2
  <2>3. CASE ~ (j < i)
    <3>1. j - (i - 1) \in 1 .. n - i /\ i + (j - (i - 1)) = j + 1 /\ ~ (j <= i - 1)
      BY <1>1, <2>3
    <3> QED BY <1>2, <1>3, <2>1, <2>3, <3>1
  <2> QED BY <2>2, <2>3
<1>7. Len(t) = Len(s) - 1 /\ DOMAIN t = 1 .. Len(s) - 1
  BY <1>1, <1>5
<1> QED BY <1>1, <1>5, <1>6, <1>7 DEF Without

-----------------------------------------------------------------------------
(* The invariant of pids.                                                   *)

StatusType == status \in [User -> {"none", "alive", "dead"}]

\* What get_pid returns nobody has, and it keeps what it remembers true.
LEMMA GetPid ==
  ASSUME PidInv, Len(procList) + 1 < MaxProcess, NEW g, g = get_pid
  PROVE  Gap(procList, pid, g.last, g.safe) /\ Unused(procList, pid, g.last)
<1>1. /\ Numbered(procList, pid) /\ Gap(procList, pid, lastPid, nextSafe)
      /\ MaxPid \in Nat /\ MaxPid > 2
      /\ lastPid \in 1 .. MaxPid - 1 /\ nextSafe \in 1 .. MaxPid
  BY Consts DEF PidInv, Gap
<1>2. CASE lastPid + 1 >= MaxPid
  <2>1. g = Scan(1) /\ 1 \in 1 .. MaxPid - 1
    BY <1>1, <1>2 DEF get_pid
  <2> QED BY <1>1, <2>1, ScanEnds
<1>3. CASE ~ (lastPid + 1 >= MaxPid) /\ lastPid + 1 >= nextSafe
  <2>1. g = Scan(lastPid + 1) /\ lastPid + 1 \in 1 .. MaxPid - 1
    BY <1>1, <1>3 DEF get_pid
  <2> QED BY <1>1, <2>1, ScanEnds
<1>4. CASE ~ (lastPid + 1 >= MaxPid) /\ ~ (lastPid + 1 >= nextSafe)
  <2>1. g = [last |-> lastPid + 1, safe |-> nextSafe]
    BY <1>4 DEF get_pid
  <2>2. g.last = lastPid + 1 /\ g.safe = nextSafe
    BY <2>1
  <2>3. \A i \in DOMAIN procList : /\ pid[procList[i]] \in 1 .. MaxPid - 1
                                   /\ pid[procList[i]] <= lastPid \/ pid[procList[i]] >= nextSafe
    BY <1>1 DEF Numbered, Gap
  <2>4. lastPid + 1 \in 1 .. MaxPid - 1 /\ lastPid + 1 < nextSafe
    BY <1>1, <1>4
  <2>5. \A i \in DOMAIN procList : /\ pid[procList[i]] <= lastPid + 1 \/ pid[procList[i]] >= nextSafe
                                   /\ pid[procList[i]] # lastPid + 1
    BY <1>1, <2>3, <2>4
  <2> QED BY <1>1, <2>2, <2>4, <2>5 DEF Gap, Unused
<1> QED BY <1>2, <1>3, <1>4

LEMMA PidFork ==
  ASSUME PidInv, StatusType, NEW p \in Proc, NEW c \in User, Fork(p, c)
  PROVE  PidInv'
<1>1. /\ Len(procList) + 1 < MaxProcess /\ status[c] = "none"
      /\ lastPid' = get_pid.last /\ nextSafe' = get_pid.safe
      /\ pid' = [pid EXCEPT ![c] = lastPid'] /\ procList' = <<c>> \o procList
      /\ status' = [status EXCEPT ![c] = "alive"]
  BY DEF Fork, set_links
<1>2. Gap(procList, pid, lastPid', nextSafe') /\ Unused(procList, pid, lastPid')
  BY <1>1, GetPid
<1>3. PICK L, M : L = procList /\ M = procList'
  OBVIOUS
<1>4. L \in Seq(Proc) /\ c \in Proc /\ M = <<c>> \o L
  BY <1>1, <1>3, Consts DEF PidInv, Numbered
<1>5. /\ M \in Seq(Proc) /\ M[1] = c
      /\ DOMAIN M = 1 .. Len(L) + 1 /\ DOMAIN L = 1 .. Len(L) /\ Len(L) \in Nat
      /\ \A i \in 1 .. Len(L) : M[i + 1] = L[i]
      /\ \A i \in 2 .. Len(L) + 1 : M[i] = L[i - 1]
  BY <1>4, PushIs
<1>6. \A i \in DOMAIN L : L[i] # c /\ L[i] \in Proc
  <2>1. \A i \in DOMAIN L : L[i] \in LiveProc
    BY <1>3 DEF PidInv, ToSet
  <2>2. c \notin LiveProc
    BY <1>1, Consts DEF LiveProc
  <2> QED BY <1>4, <1>5, <2>1, <2>2
<1>7. /\ pid' \in [Proc -> Nat] /\ pid'[c] = lastPid' /\ lastPid' \in 1 .. MaxPid - 1
      /\ \A q \in Proc : q # c => pid'[q] = pid[q]
  BY <1>1, <1>2, <1>4, Consts DEF PidInv, Unused
<1>8. \A i \in DOMAIN M : /\ i = 1 => M[i] = c /\ pid'[M[i]] = lastPid'
                          /\ i # 1 => /\ i - 1 \in DOMAIN L /\ M[i] = L[i - 1] /\ M[i] # c
                                      /\ pid'[M[i]] = pid[L[i - 1]]
  <2> TAKE i \in DOMAIN M
  <2>1. i # 1 => i - 1 \in DOMAIN L /\ i \in 2 .. Len(L) + 1
    BY <1>5
  <2> QED BY <1>5, <1>6, <1>7, <2>1
<1>9. \A i \in DOMAIN L : /\ pid[L[i]] \in 1 .. MaxPid - 1 /\ pid[L[i]] # lastPid'
                          /\ pid[L[i]] <= lastPid' \/ pid[L[i]] >= nextSafe'
  BY <1>2, <1>3 DEF PidInv, Numbered, Gap, Unused
<1>10. Numbered(M, pid')
  <2>1. \A i, j \in DOMAIN L : /\ L[i] = L[j] => i = j
                               /\ pid[L[i]] = pid[L[j]] => i = j
    BY <1>3 DEF PidInv, Numbered
  <2>2. \A i \in DOMAIN M : pid'[M[i]] \in 1 .. MaxPid - 1
    BY <1>7, <1>8, <1>9
  <2>3. ASSUME NEW i \in DOMAIN M, NEW j \in DOMAIN M, M[i] = M[j] \/ pid'[M[i]] = pid'[M[j]]
        PROVE  i = j
    <3>1. CASE i = 1 /\ j = 1
      BY <3>1
    <3>2. CASE i = 1 /\ j # 1
      BY <1>8, <1>9, <2>3, <3>2
    <3>3. CASE i # 1 /\ j = 1
      BY <1>8, <1>9, <2>3, <3>3
    <3>4. CASE i # 1 /\ j # 1
      <4>1. i - 1 = j - 1
        BY <1>8, <2>1, <2>3, <3>4
      <4> QED BY <1>5, <4>1
    <3> QED BY <3>1, <3>2, <3>3, <3>4
  <2> QED BY <1>5, <2>2, <2>3 DEF Numbered
<1>11. Gap(M, pid', lastPid', nextSafe')
  <2>1. \A i \in DOMAIN M : pid'[M[i]] <= lastPid' \/ pid'[M[i]] >= nextSafe'
    <3>1. lastPid' <= lastPid'
      BY <1>7, Consts
    <3> QED BY <1>8, <1>9, <3>1
  <2> QED BY <1>2, <2>1 DEF Gap
<1>12. ToSet(M) = LiveProc'
  <2>1. LiveProc' = LiveProc \cup {c}
    BY <1>1 DEF LiveProc, StatusType
  <2>2. ToSet(L) = LiveProc
    BY <1>3 DEF PidInv
  <2>3. ToSet(M) = ToSet(L) \cup {c}
    <3>1. \A i \in DOMAIN L : i + 1 \in DOMAIN M /\ M[i + 1] = L[i]
      BY <1>5
    <3>2. 1 \in DOMAIN M
      BY <1>5
    <3> QED BY <1>5, <1>8, <3>1, <3>2 DEF ToSet
  <2> QED BY <2>1, <2>2, <2>3
<1> QED BY <1>3, <1>7, <1>10, <1>11, <1>12 DEF PidInv

LEMMA PidReap ==
  ASSUME PidInv, StatusType, NEW p \in Proc, NEW c \in User, Reap(p, c)
  PROVE  PidInv'
<1>1. /\ pid' = [pid EXCEPT ![c] = 0] /\ lastPid' = lastPid /\ nextSafe' = nextSafe
      /\ status' = [status EXCEPT ![c] = "none"]
  BY DEF Reap, remove_links
<1>2. PICK k \in DOMAIN procList : procList[k] = c /\ procList' = RemoveAt(procList, k)
  BY DEF Reap
<1>3. PICK L, M : L = procList /\ M = procList'
  OBVIOUS
<1>4. L \in Seq(Proc) /\ c \in Proc /\ k \in DOMAIN L /\ M = RemoveAt(L, k) /\ L[k] = c
  BY <1>2, <1>3, Consts DEF PidInv, Numbered
<1>5. /\ M \in Seq(Proc) /\ Len(L) \in Nat
      /\ DOMAIN M = 1 .. Len(L) - 1 /\ DOMAIN L = 1 .. Len(L) /\ k \in 1 .. Len(L)
      /\ \A j \in 1 .. Len(L) - 1 : M[j] = IF j < k THEN L[j] ELSE L[j + 1]
  <2>1. Without(M, Proc, L, k)
    BY <1>4, RemoveIs
  <2> QED BY <2>1 DEF Without
<1> DEFINE Old(j) == IF j < k THEN j ELSE j + 1
<1>6. /\ \A j \in DOMAIN M : Old(j) \in DOMAIN L /\ Old(j) # k /\ M[j] = L[Old(j)]
      /\ \A i, j \in DOMAIN M : Old(i) = Old(j) => i = j
      /\ \A i \in DOMAIN L : i # k => \E j \in DOMAIN M : Old(j) = i
  <2>1. \A j \in DOMAIN M : Old(j) \in DOMAIN L /\ Old(j) # k /\ M[j] = L[Old(j)]
    BY <1>5
  <2>2. \A i, j \in DOMAIN M : Old(i) = Old(j) => i = j
    BY <1>5
  <2>3. ASSUME NEW i \in DOMAIN L, i # k PROVE \E j \in DOMAIN M : Old(j) = i
    <3>1. CASE i < k
      <4>1. i \in DOMAIN M /\ Old(i) = i
        BY <1>5, <3>1
      <4> QED BY <4>1
    <3>2. CASE ~ (i < k)
      <4>1. i - 1 \in DOMAIN M /\ Old(i - 1) = i
        BY <1>5, <2>3, <3>2
      <4> QED BY <4>1
    <3> QED BY <3>1, <3>2
  <2> QED BY <2>1, <2>2, <2>3
<1> HIDE DEF Old
<1>7. \A i, j \in DOMAIN L : /\ L[i] = L[j] => i = j
                             /\ pid[L[i]] = pid[L[j]] => i = j
                             /\ pid[L[i]] \in 1 .. MaxPid - 1
  BY <1>3 DEF PidInv, Numbered
<1>8. pid' \in [Proc -> Nat] /\ \A q \in Proc : q # c => pid'[q] = pid[q]
  BY <1>1, <1>4 DEF PidInv
<1>9. \A j \in DOMAIN M : M[j] # c /\ M[j] \in Proc /\ pid'[M[j]] = pid[L[Old(j)]]
  <2> TAKE j \in DOMAIN M
  <2>1. M[j] # c
    BY <1>4, <1>6, <1>7
  <2> QED BY <1>5, <1>6, <1>8, <2>1
<1>10. Numbered(M, pid')
  <2>1. ASSUME NEW i \in DOMAIN M, NEW j \in DOMAIN M, M[i] = M[j] \/ pid'[M[i]] = pid'[M[j]]
        PROVE  i = j
    BY <1>6, <1>7, <1>9, <2>1
  <2>2. \A i \in DOMAIN M : pid'[M[i]] \in 1 .. MaxPid - 1
    BY <1>6, <1>7, <1>9
  <2> QED BY <1>5, <2>1, <2>2 DEF Numbered
<1>11. Gap(M, pid', lastPid', nextSafe')
  BY <1>1, <1>3, <1>6, <1>9 DEF PidInv, Gap
<1>12. ToSet(M) = LiveProc'
  <2>1. LiveProc' = LiveProc \ {c}
    BY <1>1, Consts DEF LiveProc, StatusType
  <2>2. ToSet(L) = LiveProc
    BY <1>3 DEF PidInv
  <2>3. ToSet(M) = ToSet(L) \ {c}
    <3>1. \A i \in DOMAIN L : L[i] # c => \E j \in DOMAIN M : M[j] = L[i]
      BY <1>4, <1>6
    <3> QED BY <1>6, <1>9, <3>1 DEF ToSet
  <2> QED BY <2>1, <2>2, <2>3
<1> QED BY <1>3, <1>8, <1>10, <1>11, <1>12 DEF PidInv

LEMMA PidExit ==
  ASSUME PidInv, StatusType, NEW p \in User, Exit(p), UNCHANGED pidVars
  PROVE  PidInv'
<1>1. status[p] = "alive" /\ status' = [status EXCEPT ![p] = "dead"]
  BY DEF Exit
<1>2. LiveProc' = LiveProc
  BY <1>1 DEF LiveProc, StatusType
<1> QED BY <1>2 DEF PidInv, pidVars

LEMMA PidStart == ASSUME Init PROVE PidInv
<1>1. pid \in [Proc -> Nat] /\ pid[initproc] = 1 /\ lastPid = 1 /\ nextSafe = MaxPid
  BY Consts DEF Init, PidInit
<1>2. /\ procList \in Seq(Proc) /\ DOMAIN procList = {1} /\ procList[1] = initproc
  BY Consts DEF Init, PidInit
<1>3. 1 \in 1 .. MaxPid - 1 /\ MaxPid \in 1 .. MaxPid /\ 1 < MaxPid
  BY Consts
<1>4. ToSet(procList) = LiveProc
  <2>1. LiveProc = {initproc}
    BY DEF LiveProc, Init, FamilyInit
  <2> QED BY <1>2, <2>1 DEF ToSet
<1>5. Numbered(procList, pid)
  BY <1>1, <1>2, <1>3 DEF Numbered
<1>6. Gap(procList, pid, lastPid, nextSafe)
  BY <1>1, <1>2, <1>3 DEF Gap
<1> QED BY <1>1, <1>4, <1>5, <1>6 DEF PidInv

-----------------------------------------------------------------------------
(* Sibling lists.  K[p] are the children of p, the youngest first.          *)

Link == Proc \cup {NULL}
LinksType == [parent : [Proc -> Link], cptr : [Proc -> Link],
              optr : [Proc -> Link], yptr : [Proc -> Link]]

HeadOf(s) == IF s = <<>> THEN NULL ELSE s[1]
NextIn(s, i) == IF i = Len(s) THEN NULL ELSE s[i + 1]
PrevIn(s, i) == IF i = 1 THEN NULL ELSE s[i - 1]

Separate(K) ==
    /\ K \in [Proc -> Seq(User)]
    /\ \A q, r \in Proc : \A i \in DOMAIN K[q], j \in DOMAIN K[r] :
          K[q][i] = K[r][j] => q = r /\ i = j

Elems(K) == {c \in User : \E q \in Proc : \E i \in DOMAIN K[q] : K[q][i] = c}

(* The links l are those of the lists K, but for x, which is in the loop of *)
(* do_exit: its cptr and the yptr of its first child are not kept up there. *)
Chained(l, K, x) ==
    /\ l \in LinksType /\ Separate(K)
    /\ \A q \in Proc : q # x => l.cptr[q] = HeadOf(K[q])
    /\ \A q \in Proc : \A i \in DOMAIN K[q] :
          /\ l.parent[K[q][i]] = q
          /\ l.optr[K[q][i]] = NextIn(K[q], i)
          /\ i # 1 \/ q # x => l.yptr[K[q][i]] = PrevIn(K[q], i)

\* The links after c has become the youngest child of q.
Pushed(l, q, c) ==
    [parent |-> [l.parent EXCEPT ![c] = q],
     optr   |-> [l.optr EXCEPT ![c] = l.cptr[q]],
     yptr   |-> [y \in Proc |-> IF y = c THEN NULL
                                ELSE IF y = l.cptr[q] THEN c ELSE l.yptr[y]],
     cptr   |-> [l.cptr EXCEPT ![q] = c]]

\* The links after c is out of its list.
Dropped(l, c) ==
    [parent |-> l.parent,
     optr   |-> [y \in Proc |-> IF y = l.yptr[c] THEN l.optr[c] ELSE l.optr[y]],
     yptr   |-> [y \in Proc |-> IF y = l.optr[c] THEN l.yptr[c] ELSE l.yptr[y]],
     cptr   |-> IF l.yptr[c] = NULL THEN [l.cptr EXCEPT ![l.parent[c]] = l.optr[c]]
                ELSE l.cptr]

LEMMA LinksAre ==
  ASSUME NEW l \in LinksType
  PROVE  /\ l.parent \in [Proc -> Link] /\ l.cptr \in [Proc -> Link]
         /\ l.optr \in [Proc -> Link] /\ l.yptr \in [Proc -> Link]
BY DEF LinksType

LEMMA ListIs ==
  ASSUME NEW K, Separate(K), NEW q \in Proc
  PROVE  /\ K[q] \in Seq(User) /\ Len(K[q]) \in Nat /\ DOMAIN K[q] = 1 .. Len(K[q])
         /\ \A i \in DOMAIN K[q] : /\ K[q][i] \in User /\ K[q][i] \in Proc /\ K[q][i] # NULL
                                   /\ K[q][i] \in Elems(K)
<1>1. K[q] \in Seq(User)
  BY DEF Separate
<1>2. Len(K[q]) \in Nat /\ DOMAIN K[q] = 1 .. Len(K[q]) /\ \A i \in DOMAIN K[q] : K[q][i] \in User
  BY <1>1
<1> QED BY <1>1, <1>2, Consts DEF Elems

\* The first of the list of x leaves it.
Popped(l, K, x, M) ==
    /\ Chained(l, M, x) /\ Elems(M) = Elems(K) \ {K[x][1]} /\ M[x] = Tail(K[x])
    /\ \A q \in Proc : q # x => M[q] = K[q]

LEMMA Pops ==
  ASSUME NEW l, NEW K, NEW x \in Proc, Chained(l, K, x), K[x] # <<>>,
         NEW M, M = [K EXCEPT ![x] = Tail(K[x])]
  PROVE  Popped(l, K, x, M)
<1>0. PICK t : t = Tail(K[x])
  OBVIOUS
<1>1. Separate(K) /\ l \in LinksType /\ K \in [Proc -> Seq(User)]
  BY DEF Chained, Separate
<1>2. PICK s : s = K[x]
  OBVIOUS
<1>3. /\ s \in Seq(User) /\ t \in Seq(User) /\ Len(t) = Len(s) - 1 /\ Len(s) \in Nat \ {0}
      /\ DOMAIN t = 1 .. Len(s) - 1 /\ DOMAIN s = 1 .. Len(s) /\ 1 \in DOMAIN s
      /\ \A i \in 1 .. Len(s) - 1 : t[i] = s[i + 1]
  <2>1. s \in Seq(User) /\ s # <<>> /\ t = Tail(s)
    BY <1>0, <1>1, <1>2, ListIs
  <2> QED BY <2>1, TailIs
<1>4. /\ M \in [Proc -> Seq(User)] /\ M[x] = t
      /\ \A q \in Proc : q # x => M[q] = K[q]
  BY <1>0, <1>1, <1>3
<1>5. \A i \in DOMAIN t : i + 1 \in DOMAIN s /\ t[i] = s[i + 1] /\ i \in Nat
  BY <1>3
<1> DEFINE At(q, i) == IF q = x THEN i + 1 ELSE i
<1>6. \A q \in Proc : \A i \in DOMAIN M[q] :
        At(q, i) \in DOMAIN K[q] /\ M[q][i] = K[q][At(q, i)] /\ (q = x => At(q, i) # 1)
  BY <1>2, <1>4, <1>5
<1>7. Separate(M)
  <2>1. ASSUME NEW q \in Proc, NEW r \in Proc, NEW i \in DOMAIN M[q], NEW j \in DOMAIN M[r],
               M[q][i] = M[r][j]
        PROVE  q = r /\ i = j
    <3>1. q = r /\ At(q, i) = At(r, j)
      BY <1>1, <1>6, <2>1 DEF Separate
    <3>2. CASE q = x
      BY <1>3, <1>4, <3>1, <3>2
    <3>3. CASE q # x
      BY <3>1, <3>3
    <3> QED BY <3>1, <3>2, <3>3
  <2> QED BY <1>4, <2>1 DEF Separate
<1>8. ASSUME NEW q \in Proc, q # x PROVE l.cptr[q] = HeadOf(M[q])
  BY <1>4, <1>8 DEF Chained
<1>9. ASSUME NEW q \in Proc, NEW i \in DOMAIN M[q]
      PROVE  /\ l.parent[M[q][i]] = q /\ l.optr[M[q][i]] = NextIn(M[q], i)
             /\ i # 1 \/ q # x => l.yptr[M[q][i]] = PrevIn(M[q], i)
  <2>1. CASE q = x
    <3>1. PICK k : k = i + 1 /\ k \in DOMAIN s /\ t[i] = s[k] /\ k # 1 /\ i \in Nat
      BY <1>4, <1>5, <2>1
    <3>2. l.parent[s[k]] = x /\ l.optr[s[k]] = NextIn(s, k) /\ l.yptr[s[k]] = PrevIn(s, k)
      BY <1>2, <3>1 DEF Chained
    <3>3. NextIn(s, k) = NextIn(t, i)
      <4>0. PICK n \in Nat : n = Len(s) /\ Len(t) = n - 1 /\ DOMAIN t = 1 .. n - 1
        BY <1>3
      <4>1. i + 1 = Len(s) <=> i = Len(t)
        BY <3>1, <4>0
      <4>2. i # Len(t) => i + 1 \in DOMAIN t
        BY <1>4, <2>1, <4>0
      <4> QED BY <1>5, <3>1, <4>1, <4>2 DEF NextIn
    <3>4. i # 1 => PrevIn(s, k) = PrevIn(t, i)
      <4>1. i \in DOMAIN t /\ k - 1 = i /\ k # 1
        BY <1>4, <2>1, <3>1
      <4>2. i # 1 => i - 1 \in DOMAIN t /\ (i - 1) + 1 = i
        BY <1>3, <4>1
      <4> QED BY <1>5, <4>1, <4>2 DEF PrevIn
    <3> QED BY <1>4, <2>1, <3>1, <3>2, <3>3, <3>4
  <2>2. CASE q # x
    BY <1>4, <2>2 DEF Chained
  <2> QED BY <2>1, <2>2
<1>10. Elems(M) = Elems(K) \ {s[1]}
  <2>1. ASSUME NEW c \in Elems(M) PROVE c \in Elems(K) /\ c # s[1]
    <3>1. PICK q \in Proc : \E i \in DOMAIN M[q] : M[q][i] = c
      BY <2>1 DEF Elems
    <3>2. PICK i \in DOMAIN M[q] : M[q][i] = c
      BY <3>1
    <3>3. c = K[q][At(q, i)] /\ At(q, i) \in DOMAIN K[q] /\ (q = x => At(q, i) # 1)
      BY <1>6, <3>2
    <3>4. c # s[1]
      BY <1>1, <1>2, <1>3, <3>3 DEF Separate
    <3> QED BY <1>1, <3>3, <3>4, ListIs
  <2>2. ASSUME NEW c \in Elems(K), c # s[1] PROVE c \in Elems(M)
    <3>1. PICK q \in Proc : \E i \in DOMAIN K[q] : K[q][i] = c
      BY <2>2 DEF Elems
    <3>2. PICK i \in DOMAIN K[q] : K[q][i] = c
      BY <3>1
    <3>3. c \in User
      BY <2>2 DEF Elems
    <3>4. CASE q = x
      <4>1. i - 1 \in DOMAIN t /\ t[i - 1] = c
        BY <1>2, <1>3, <2>2, <3>2, <3>4
      <4> QED BY <1>4, <3>3, <3>4, <4>1 DEF Elems
    <3>5. CASE q # x
      BY <1>4, <3>2, <3>3, <3>5 DEF Elems
    <3> QED BY <3>4, <3>5
  <2> QED BY <2>1, <2>2
<1>11. Chained(l, M, x)
  BY <1>1, <1>7, <1>8, <1>9 DEF Chained
<1> QED BY <1>0, <1>2, <1>4, <1>10, <1>11 DEF Popped

\* A process that is in no list becomes the first of the list of q.
PushedOn(new, x, K, q, c, M) ==
    /\ Chained(new, M, x) /\ Elems(M) = Elems(K) \cup {c}
    /\ \A r \in Proc : r # q => M[r] = K[r]

LEMMA Pushes ==
  ASSUME NEW l, NEW K, NEW x, Chained(l, K, x), NEW q \in Proc, q # x,
         NEW c \in User, c \notin Elems(K), NEW M, M = [K EXCEPT ![q] = <<c>> \o K[q]],
         NEW new, new = Pushed(l, q, c)
  PROVE  PushedOn(new, x, K, q, c, M)
<1>0. PICK t : t = <<c>> \o K[q]
  OBVIOUS
<1>1. Separate(K) /\ l \in LinksType /\ K \in [Proc -> Seq(User)] /\ c \in Proc /\ c # NULL
  BY Consts DEF Chained, Separate
<1>2. PICK s : s = K[q]
  OBVIOUS
<1>3. /\ t \in Seq(User) /\ Len(t) = Len(s) + 1 /\ t[1] = c
      /\ DOMAIN t = 1 .. Len(s) + 1 /\ DOMAIN s = 1 .. Len(s) /\ Len(s) \in Nat
      /\ \A i \in 1 .. Len(s) : t[i + 1] = s[i]
      /\ \A i \in 2 .. Len(s) + 1 : t[i] = s[i - 1]
  <2>1. s \in Seq(User) /\ c \in User /\ t = <<c>> \o s
    BY <1>0, <1>1, <1>2, ListIs
  <2>2. /\ t \in Seq(User) /\ Len(t) = Len(s) + 1 /\ t[1] = c
        /\ DOMAIN t = 1 .. Len(s) + 1 /\ DOMAIN s = 1 .. Len(s) /\ Len(s) \in Nat
    <3>1. t \in Seq(User)
      <4>1. <<c>> \in Seq(User)
        OBVIOUS
      <4>2. <<c>> \o s \in Seq(User)
        BY <2>1, <4>1, ConcatProperties, Zenon
      <4> QED BY <2>1, <4>1, <4>2
    <3>2. Len(s) \in Nat /\ DOMAIN s = 1 .. Len(s)
      BY <2>1
    <3>3. Len(t) = Len(s) + 1
      BY <2>1
    <3>4. DOMAIN t = 1 .. Len(t)
      BY <3>1
    <3>5. t[1] = c
      BY <2>1
    <3> QED BY <3>1, <3>2, <3>3, <3>4, <3>5
  <2>3. \A i \in 1 .. Len(s) : t[i + 1] = s[i]
    BY <2>1
  <2>4. \A i \in 2 .. Len(s) + 1 : t[i] = s[i - 1]
    BY <2>1
  <2> QED BY <2>2, <2>3, <2>4
<1>4. /\ M \in [Proc -> Seq(User)] /\ M[q] = t
      /\ \A r \in Proc : r # q => M[r] = K[r]
  BY <1>0, <1>1, <1>3
<1>5. \A r \in Proc : \A i \in DOMAIN K[r] : /\ K[r][i] \in Proc /\ K[r][i] # c
                                              /\ K[r][i] # NULL /\ i \in Nat
  BY <1>1, ListIs
<1>6. \A i \in DOMAIN t : /\ i \in Nat
                          /\ i = 1 => t[i] = c
                          /\ i # 1 => i - 1 \in DOMAIN s /\ t[i] = s[i - 1]
  <2> TAKE i \in DOMAIN t
  <2>1. i # 1 => i - 1 \in DOMAIN s /\ i \in 2 .. Len(s) + 1
    BY <1>3
  <2> QED BY <1>3, <2>1
<1>7. Separate(M)
  <2>1. ASSUME NEW a \in Proc, NEW b \in Proc, NEW i \in DOMAIN M[a], NEW j \in DOMAIN M[b],
               M[a][i] = M[b][j]
        PROVE  a = b /\ i = j
    <3>0. \A d \in Proc : \A k \in DOMAIN M[d] :
             \/ d = q /\ k = 1 /\ M[d][k] = c
             \/ d = q /\ k \in Nat /\ k - 1 \in DOMAIN K[d] /\ M[d][k] = K[d][k - 1] /\ M[d][k] # c
             \/ d # q /\ k \in DOMAIN K[d] /\ M[d][k] = K[d][k] /\ M[d][k] # c
      BY <1>2, <1>4, <1>5, <1>6
    <3>1. CASE a = q /\ b = q
      <4>1. CASE i = 1 \/ j = 1
        BY <1>2, <1>4, <1>5, <1>6, <2>1, <3>1, <4>1
      <4>2. CASE i # 1 /\ j # 1
        <5>1. i - 1 \in DOMAIN K[q] /\ j - 1 \in DOMAIN K[q] /\ K[q][i - 1] = K[q][j - 1]
              /\ i \in Nat /\ j \in Nat
          BY <1>2, <1>4, <1>6, <2>1, <3>1, <4>2
        <5>2. i - 1 = j - 1
          BY <1>1, <5>1 DEF Separate
        <5> QED BY <3>1, <5>1, <5>2
      <4> QED BY <4>1, <4>2
    <3>2. CASE a = q /\ b # q
      BY <1>1, <2>1, <3>0, <3>2 DEF Separate
    <3>3. CASE a # q /\ b = q
      <4>1. i \in DOMAIN K[a] /\ M[a][i] = K[a][i] /\ M[a][i] # c
        BY <3>0, <3>3
      <4>2. j - 1 \in DOMAIN K[b] /\ M[b][j] = K[b][j - 1]
        BY <2>1, <3>0, <3>3, <4>1
      <4> QED BY <1>1, <2>1, <4>1, <4>2, <3>3 DEF Separate
    <3>4. CASE a # q /\ b # q
      BY <1>1, <1>4, <2>1, <3>4 DEF Separate
    <3> QED BY <3>1, <3>2, <3>3, <3>4
  <2> QED BY <1>4, <2>1 DEF Separate
<1>8. Elems(M) = Elems(K) \cup {c}
  <2>1. ASSUME NEW d \in Elems(M) PROVE d \in Elems(K) \/ d = c
    <3>1. PICK r \in Proc : \E i \in DOMAIN M[r] : M[r][i] = d
      BY <2>1 DEF Elems
    <3>2. PICK i \in DOMAIN M[r] : M[r][i] = d
      BY <3>1
    <3> QED BY <1>1, <1>2, <1>4, <1>6, <3>2, ListIs
  <2>2. c \in Elems(M)
    <3>1. 1 \in DOMAIN t
      BY <1>3
    <3> QED BY <1>3, <1>4, <3>1 DEF Elems
  <2>3. ASSUME NEW d \in Elems(K) PROVE d \in Elems(M)
    <3>1. PICK r \in Proc : \E i \in DOMAIN K[r] : K[r][i] = d
      BY DEF Elems
    <3>2. PICK i \in DOMAIN K[r] : K[r][i] = d
      BY <3>1
    <3>3. d \in User
      BY DEF Elems
    <3>4. CASE r = q
      <4>1. i + 1 \in DOMAIN t /\ t[i + 1] = d
        <5>1. i \in DOMAIN s /\ s[i] = d
          BY <1>2, <3>2, <3>4
        <5>2. i \in 1 .. Len(s) /\ Len(s) \in Nat
          BY <1>3, <5>1
        <5>3. i + 1 \in 1 .. Len(s) + 1
          BY <5>2
        <5> QED BY <1>3, <5>1, <5>2, <5>3
      <4> QED BY <1>4, <3>3, <3>4, <4>1 DEF Elems
    <3>5. CASE r # q
      BY <1>4, <3>2, <3>3, <3>5 DEF Elems
    <3> QED BY <3>4, <3>5
  <2> QED BY <2>1, <2>2, <2>3
<1>9. PICK first \in Link : first = l.cptr[q] /\ first = HeadOf(s)
  BY <1>1, <1>2, LinksAre DEF Chained, Link
<1>10. /\ new \in LinksType
       /\ \A y \in Proc : /\ new.parent[y] = IF y = c THEN q ELSE l.parent[y]
                          /\ new.optr[y] = IF y = c THEN first ELSE l.optr[y]
                          /\ new.yptr[y] = IF y = c THEN NULL
                                           ELSE IF y = first THEN c ELSE l.yptr[y]
                          /\ new.cptr[y] = IF y = q THEN c ELSE l.cptr[y]
  <2>1. /\ l.parent \in [Proc -> Link] /\ l.cptr \in [Proc -> Link]
        /\ l.optr \in [Proc -> Link] /\ l.yptr \in [Proc -> Link]
        /\ q \in Link /\ c \in Link /\ NULL \in Link
    BY <1>1, LinksAre DEF Link
  <2>2. /\ new.parent = [l.parent EXCEPT ![c] = q] /\ new.optr = [l.optr EXCEPT ![c] = first]
        /\ new.cptr = [l.cptr EXCEPT ![q] = c]
        /\ new.yptr = [y \in Proc |-> IF y = c THEN NULL ELSE IF y = first THEN c ELSE l.yptr[y]]
    BY <1>9 DEF Pushed
  <2>3. /\ new.parent \in [Proc -> Link] /\ new.cptr \in [Proc -> Link]
        /\ new.optr \in [Proc -> Link]
    BY <1>1, <1>9, <2>1, <2>2
  <2>4. new.yptr \in [Proc -> Link]
    BY <2>1, <2>2
  <2>5. new = [parent |-> new.parent, optr |-> new.optr, yptr |-> new.yptr, cptr |-> new.cptr]
    BY DEF Pushed
  <2>6. new \in LinksType
    BY <2>3, <2>4, <2>5 DEF LinksType
  <2> QED BY <1>1, <2>1, <2>2, <2>6
<1>11. \A r \in Proc : \A i \in DOMAIN K[r] : K[r][i] = first <=> r = q /\ i = 1
  <2> TAKE r \in Proc
  <2> TAKE i \in DOMAIN K[r]
  <2>1. K[r][i] = first => r = q /\ i = 1
    <3>1. ASSUME K[r][i] = first PROVE s # <<>> /\ first = s[1] /\ 1 \in DOMAIN s
      <4>1. s # <<>> /\ first = s[1]
        BY <1>5, <1>9, <3>1 DEF HeadOf
      <4>2. 1 \in DOMAIN s
        BY <1>1, <1>2, <1>3, <4>1, ListIs
      <4> QED BY <4>1, <4>2
    <3> QED BY <1>1, <1>2, <3>1 DEF Separate
  <2>2. r = q /\ i = 1 => K[r][i] = first
    BY <1>2, <1>9 DEF HeadOf
  <2> QED BY <2>1, <2>2
<1>12. ASSUME NEW r \in Proc, r # x PROVE new.cptr[r] = HeadOf(M[r])
  <2>1. CASE r = q
    <3>1. t # <<>>
      BY <1>3
    <3> QED BY <1>3, <1>4, <1>10, <2>1, <3>1 DEF HeadOf
  <2>2. CASE r # q
    BY <1>4, <1>10, <1>12, <2>2 DEF Chained
  <2> QED BY <2>1, <2>2
<1>13. ASSUME NEW r \in Proc, NEW i \in DOMAIN M[r]
       PROVE  /\ new.parent[M[r][i]] = r /\ new.optr[M[r][i]] = NextIn(M[r], i)
              /\ i # 1 \/ r # x => new.yptr[M[r][i]] = PrevIn(M[r], i)
  <2>1. CASE r # q
    <3>1. /\ M[r] = K[r] /\ i \in DOMAIN K[r] /\ K[r][i] \in Proc /\ K[r][i] # c /\ K[r][i] # first
      BY <1>4, <1>5, <1>11, <2>1
    <3>2. /\ new.parent[K[r][i]] = l.parent[K[r][i]] /\ new.optr[K[r][i]] = l.optr[K[r][i]]
          /\ new.yptr[K[r][i]] = l.yptr[K[r][i]]
      BY <1>10, <3>1
    <3>3. /\ l.parent[K[r][i]] = r /\ l.optr[K[r][i]] = NextIn(K[r], i)
          /\ i # 1 \/ r # x => l.yptr[K[r][i]] = PrevIn(K[r], i)
      BY <3>1 DEF Chained
    <3> QED BY <3>1, <3>2, <3>3
  <2>2. CASE r = q /\ i = 1
    <3>1. M[r][i] = c /\ new.parent[c] = q /\ new.optr[c] = first /\ new.yptr[c] = NULL
      BY <1>1, <1>4, <1>6, <1>10, <2>2
    <3>2. NextIn(t, 1) = first
      <4>1. CASE s = <<>>
        <5>1. Len(t) = 1
          BY <1>3, <4>1
        <5> QED BY <1>9, <4>1, <5>1 DEF NextIn, HeadOf
      <4>2. CASE s # <<>>
        <5>1. Len(s) # 0
          BY <1>1, <1>2, <4>2, ListIs
        <5>2. 1 # Len(t) /\ 1 \in 1 .. Len(s)
          BY <1>3, <5>1
        <5>3. t[1 + 1] = s[1]
          BY <1>3, <5>2
        <5> QED BY <1>9, <4>2, <5>2, <5>3 DEF NextIn, HeadOf
      <4> QED BY <4>1, <4>2
    <3> QED BY <1>4, <2>2, <3>1, <3>2 DEF PrevIn
  <2>3. CASE r = q /\ i # 1
    <3>1. PICK k : k = i - 1 /\ k \in DOMAIN s /\ t[i] = s[k] /\ i \in DOMAIN t
      BY <1>4, <1>6, <2>3
    <3>2. /\ l.parent[s[k]] = q /\ l.optr[s[k]] = NextIn(s, k)
          /\ l.yptr[s[k]] = PrevIn(s, k) /\ s[k] \in Proc /\ s[k] # c
          /\ s[k] = first <=> k = 1
      BY <1>2, <1>5, <1>11, <3>1 DEF Chained
    <3>3. /\ new.parent[s[k]] = q /\ new.optr[s[k]] = NextIn(s, k)
          /\ new.yptr[s[k]] = IF k = 1 THEN c ELSE PrevIn(s, k)
      BY <1>10, <3>2
    <3>4. NextIn(s, k) = NextIn(t, i)
      <4>0. PICK n \in Nat : n = Len(s) /\ Len(t) = n + 1 /\ DOMAIN s = 1 .. n
        BY <1>3
      <4>1. k = Len(s) <=> i = Len(t)
        <5>1. i = k + 1 /\ k \in 1 .. n
          BY <1>3, <3>1, <4>0
        <5> QED BY <4>0, <5>1
      <4>2. i # Len(t) => i + 1 \in 2 .. Len(s) + 1 /\ (i + 1) - 1 = k + 1
        BY <1>3, <3>1
      <4> QED BY <1>3, <4>1, <4>2 DEF NextIn
    <3>5. PrevIn(t, i) = IF k = 1 THEN c ELSE PrevIn(s, k)
      <4>1. k = 1 => i - 1 = 1
        BY <3>1
      <4>2. k # 1 => i - 1 \in 2 .. Len(s) + 1 /\ (i - 1) - 1 = k - 1
        BY <1>3, <3>1
      <4> QED BY <1>3, <2>3, <4>1, <4>2 DEF PrevIn
    <3> QED BY <1>4, <2>3, <3>1, <3>3, <3>4, <3>5
  <2> QED BY <2>1, <2>2, <2>3
<1>14. Chained(new, M, x)
  BY <1>7, <1>10, <1>12, <1>13 DEF Chained
<1> QED BY <1>4, <1>8, <1>14 DEF PushedOn

\* A process leaves its list.
DroppedFrom(new, K, p, c, M) ==
    /\ Chained(new, M, NULL) /\ Elems(M) = Elems(K) \ {c}
    /\ \A r \in Proc : r # p => M[r] = K[r]

LEMMA Drops ==
  ASSUME NEW l, NEW K, Chained(l, K, NULL), NEW p \in Proc, NEW k \in DOMAIN K[p],
         NEW c, c = K[p][k], NEW M, M = [K EXCEPT ![p] = RemoveAt(K[p], k)],
         NEW new, new = Dropped(l, c)
  PROVE  DroppedFrom(new, K, p, c, M)
<1>0. PICK t : t = RemoveAt(K[p], k)
  OBVIOUS
<1>1. Separate(K) /\ l \in LinksType /\ K \in [Proc -> Seq(User)]
  BY DEF Chained, Separate
<1>2. PICK s, n : s = K[p] /\ n = Len(s)
  OBVIOUS
<1>3. /\ t \in Seq(User) /\ Len(t) = n - 1 /\ n \in Nat
      /\ DOMAIN t = 1 .. n - 1 /\ DOMAIN s = 1 .. n /\ k \in 1 .. n
      /\ \A j \in 1 .. n - 1 : t[j] = IF j < k THEN s[j] ELSE s[j + 1]
  <2>1. s \in Seq(User) /\ k \in DOMAIN s /\ t = RemoveAt(s, k)
    BY <1>0, <1>1, <1>2, ListIs
  <2>2. Without(t, User, s, k)
    BY <2>1, RemoveIs
  <2> QED BY <1>2, <2>2 DEF Without
<1>4. /\ M \in [Proc -> Seq(User)] /\ M[p] = t
      /\ \A r \in Proc : r # p => M[r] = K[r]
  BY <1>0, <1>1, <1>3
<1>5. \A r \in Proc : \A i \in DOMAIN K[r] : /\ K[r][i] \in Proc /\ K[r][i] \in User
                                              /\ K[r][i] # NULL /\ i \in Nat
  BY <1>1, ListIs
<1>6. c \in User /\ c \in Proc /\ c = s[k]
  BY <1>2, <1>5
<1> DEFINE Old(i) == IF i < k THEN i ELSE i + 1
<1>7. \A i \in DOMAIN t : Old(i) \in DOMAIN s /\ Old(i) # k /\ t[i] = s[Old(i)]
  BY <1>3
<1>8. \A i, j \in DOMAIN t : Old(i) = Old(j) => i = j
  BY <1>3
<1>9. \A i \in DOMAIN s : i # k => \E j \in DOMAIN t : t[j] = s[i]
  <2> TAKE i \in DOMAIN s
  <2>1. CASE i < k
    <3>1. i \in DOMAIN t
      BY <1>3, <2>1
    <3> QED BY <1>3, <2>1, <3>1
  <2>2. CASE i > k
    <3>1. i - 1 \in DOMAIN t /\ ~ (i - 1 < k) /\ (i - 1) + 1 = i
      BY <1>3, <2>2
    <3> QED BY <1>3, <3>1
  <2> QED BY <1>3, <2>1, <2>2
<1> HIDE DEF Old
<1>10. Separate(M)
  <2>1. ASSUME NEW a \in Proc, NEW b \in Proc, NEW i \in DOMAIN M[a], NEW j \in DOMAIN M[b],
               M[a][i] = M[b][j]
        PROVE  a = b /\ i = j
    <3>0. \A d \in Proc : \A e \in DOMAIN M[d] :
             \/ d = p /\ Old(e) \in DOMAIN K[d] /\ M[d][e] = K[d][Old(e)] /\ e \in DOMAIN t
             \/ d # p /\ e \in DOMAIN K[d] /\ M[d][e] = K[d][e]
      BY <1>2, <1>4, <1>7
    <3>1. CASE a = p /\ b = p
      <4>1. Old(i) = Old(j) /\ i \in DOMAIN t /\ j \in DOMAIN t
        BY <1>1, <2>1, <3>0, <3>1 DEF Separate
      <4> QED BY <1>8, <3>1, <4>1
    <3>2. CASE a = p /\ b # p
      <4>1. Old(i) \in DOMAIN K[a] /\ K[a][Old(i)] = K[b][j] /\ j \in DOMAIN K[b]
        BY <2>1, <3>0, <3>2
      <4> QED BY <1>1, <3>2, <4>1 DEF Separate
    <3>3. CASE a # p /\ b = p
      <4>1. Old(j) \in DOMAIN K[b] /\ K[a][i] = K[b][Old(j)] /\ i \in DOMAIN K[a]
        BY <2>1, <3>0, <3>3
      <4> QED BY <1>1, <3>3, <4>1 DEF Separate
    <3>4. CASE a # p /\ b # p
      BY <1>1, <1>4, <2>1, <3>4 DEF Separate
    <3> QED BY <3>1, <3>2, <3>3, <3>4
  <2> QED BY <1>4, <2>1 DEF Separate
<1>11. Elems(M) = Elems(K) \ {c}
  <2>1. ASSUME NEW d \in Elems(M) PROVE d \in Elems(K) /\ d # c
    <3>1. PICK r \in Proc : \E i \in DOMAIN M[r] : M[r][i] = d
      BY <2>1 DEF Elems
    <3>2. PICK i \in DOMAIN M[r] : M[r][i] = d
      BY <3>1
    <3>3. CASE r = p
      <4>1. Old(i) \in DOMAIN s /\ Old(i) # k /\ d = s[Old(i)]
        BY <1>4, <1>7, <3>2, <3>3
      <4>2. d # s[k] /\ d \in Elems(K)
        BY <1>1, <1>2, <4>1, ListIs DEF Separate
      <4> QED BY <1>6, <4>2
    <3>4. CASE r # p
      <4>1. i \in DOMAIN K[r] /\ d = K[r][i]
        BY <1>4, <3>2, <3>4
      <4>2. d # K[p][k] /\ d \in Elems(K)
        BY <1>1, <3>4, <4>1, ListIs DEF Separate
      <4> QED BY <4>2
    <3> QED BY <3>3, <3>4
  <2>2. ASSUME NEW d \in Elems(K), d # c PROVE d \in Elems(M)
    <3>1. PICK r \in Proc : \E i \in DOMAIN K[r] : K[r][i] = d
      BY DEF Elems
    <3>2. PICK i \in DOMAIN K[r] : K[r][i] = d
      BY <3>1
    <3>3. d \in User
      BY DEF Elems
    <3>4. CASE r = p
      <4>1. \E j \in DOMAIN t : t[j] = d
        BY <1>2, <1>9, <2>2, <3>2, <3>4
      <4> QED BY <1>4, <3>3, <3>4, <4>1 DEF Elems
    <3>5. CASE r # p
      BY <1>4, <3>2, <3>3, <3>5 DEF Elems
    <3> QED BY <3>4, <3>5
  <2> QED BY <2>1, <2>2
<1>12. PICK older, younger \in Link :
          /\ older = l.optr[c] /\ older = NextIn(s, k)
          /\ younger = l.yptr[c] /\ younger = PrevIn(s, k)
  <2>1. l.optr[c] \in Link /\ l.yptr[c] \in Link
    BY <1>1, <1>6, LinksAre
  <2>2. p # NULL
    BY Consts
  <2>3. l.optr[c] = NextIn(s, k) /\ l.yptr[c] = PrevIn(s, k)
    BY <1>2, <2>2 DEF Chained
  <2> QED BY <2>1, <2>3
<1>13. l.parent[c] = p
  BY DEF Chained
<1>14. /\ \A i \in DOMAIN s : s[i] # NULL /\ i \in Nat
       /\ \A i, j \in DOMAIN s : s[i] = s[j] => i = j
  BY <1>1, <1>2, <1>5 DEF Separate
<1>15. /\ \A i \in DOMAIN s : s[i] = older <=> i = k + 1
       /\ \A i \in DOMAIN s : s[i] = younger <=> i = k - 1
       /\ younger = NULL <=> k = 1
       /\ k = n => older = NULL
       /\ k # n => older = s[k + 1] /\ k + 1 \in DOMAIN s
       /\ k # 1 => younger = s[k - 1] /\ k - 1 \in DOMAIN s
  <2>1. k = n => older = NULL
    BY <1>2, <1>12 DEF NextIn
  <2>2. k # n => older = s[k + 1] /\ k + 1 \in DOMAIN s
    BY <1>2, <1>3, <1>12 DEF NextIn
  <2>3. k = 1 => younger = NULL
    BY <1>12 DEF PrevIn
  <2>4. k # 1 => younger = s[k - 1] /\ k - 1 \in DOMAIN s
    BY <1>3, <1>12 DEF PrevIn
  <2>5. \A i \in DOMAIN s : i \in 1 .. n
    BY <1>3
  <2>6. k \in 1 .. n /\ n \in Nat
    BY <1>3
  <2>7. \A i \in DOMAIN s : s[i] = older <=> i = k + 1
    BY <1>14, <2>1, <2>2, <2>5, <2>6
  <2>8. \A i \in DOMAIN s : s[i] = younger <=> i = k - 1
    BY <1>14, <2>3, <2>4, <2>5, <2>6
  <2> QED BY <1>14, <2>1, <2>2, <2>3, <2>4, <2>7, <2>8
<1>16. \A r \in Proc : \A i \in DOMAIN K[r] : r # p => K[r][i] # older /\ K[r][i] # younger
  BY <1>1, <1>2, <1>5, <1>15 DEF Separate
<1>17. /\ new \in LinksType
       /\ \A y \in Proc : /\ new.parent[y] = l.parent[y]
                          /\ new.optr[y] = IF y = younger THEN older ELSE l.optr[y]
                          /\ new.yptr[y] = IF y = older THEN younger ELSE l.yptr[y]
                          /\ new.cptr[y] = IF k = 1 /\ y = p THEN older ELSE l.cptr[y]
  <2>1. /\ l.parent \in [Proc -> Link] /\ l.cptr \in [Proc -> Link]
        /\ l.optr \in [Proc -> Link] /\ l.yptr \in [Proc -> Link]
    BY <1>1, LinksAre
  <2>2. /\ new.parent = l.parent
        /\ new.cptr = IF k = 1 THEN [l.cptr EXCEPT ![p] = older] ELSE l.cptr
        /\ new.optr = [y \in Proc |-> IF y = younger THEN older ELSE l.optr[y]]
        /\ new.yptr = [y \in Proc |-> IF y = older THEN younger ELSE l.yptr[y]]
    BY <1>12, <1>13, <1>15 DEF Dropped
  <2>3. new.cptr \in [Proc -> Link] /\ new.parent \in [Proc -> Link]
    BY <1>12, <2>1, <2>2
  <2>4. new.optr \in [Proc -> Link] /\ new.yptr \in [Proc -> Link]
    BY <1>12, <2>1, <2>2
  <2>5. new = [parent |-> new.parent, optr |-> new.optr, yptr |-> new.yptr, cptr |-> new.cptr]
    BY DEF Dropped
  <2>6. new \in LinksType
    BY <2>3, <2>4, <2>5 DEF LinksType
  <2> QED BY <2>1, <2>2, <2>6
<1>18. ASSUME NEW r \in Proc, r # NULL PROVE new.cptr[r] = HeadOf(M[r])
  <2>1. l.cptr[r] = HeadOf(K[r])
    BY <1>18 DEF Chained
  <2>2. CASE r # p
    BY <1>4, <1>17, <2>1, <2>2
  <2>3. CASE r = p
    <3>1. s # <<>> /\ HeadOf(s) = s[1]
      BY <1>3 DEF HeadOf
    <3>2. HeadOf(t) = IF n = 1 THEN NULL ELSE t[1]
      <4>1. t = <<>> <=> n = 1
        BY <1>3
      <4> QED BY <4>1 DEF HeadOf
    <3>3. n # 1 => t[1] = IF k = 1 THEN s[2] ELSE s[1]
      BY <1>3
    <3>4. new.cptr[r] = IF k = 1 THEN older ELSE s[1]
      BY <1>2, <1>17, <2>1, <2>3, <3>1
    <3>5. k = 1 => older = IF n = 1 THEN NULL ELSE s[2]
      BY <1>15
    <3>6. k # 1 => n # 1
      BY <1>3
    <3> QED BY <1>4, <2>3, <3>2, <3>3, <3>4, <3>5, <3>6
  <2> QED BY <2>2, <2>3
<1>19. ASSUME NEW r \in Proc, NEW i \in DOMAIN M[r]
       PROVE  /\ new.parent[M[r][i]] = r /\ new.optr[M[r][i]] = NextIn(M[r], i)
              /\ new.yptr[M[r][i]] = PrevIn(M[r], i)
  <2>0. r # NULL
    BY Consts
  <2>1. CASE r # p
    <3>1. /\ M[r] = K[r] /\ i \in DOMAIN K[r] /\ K[r][i] \in Proc
          /\ K[r][i] # older /\ K[r][i] # younger
      BY <1>4, <1>5, <1>16, <2>1
    <3>2. /\ new.parent[K[r][i]] = l.parent[K[r][i]] /\ new.optr[K[r][i]] = l.optr[K[r][i]]
          /\ new.yptr[K[r][i]] = l.yptr[K[r][i]]
      BY <1>17, <3>1
    <3>3. /\ l.parent[K[r][i]] = r /\ l.optr[K[r][i]] = NextIn(K[r], i)
          /\ l.yptr[K[r][i]] = PrevIn(K[r], i)
      BY <2>0, <3>1 DEF Chained
    <3> QED BY <3>1, <3>2, <3>3
  <2>2. CASE r = p
    <3>1. PICK j : /\ j = Old(i) /\ j \in DOMAIN s /\ t[i] = s[j] /\ i \in DOMAIN t
                   /\ j # k /\ j = (IF i < k THEN i ELSE i + 1)
      BY <1>4, <1>7, <2>2 DEF Old
    <3>2. /\ l.parent[s[j]] = p /\ l.optr[s[j]] = NextIn(s, j) /\ l.yptr[s[j]] = PrevIn(s, j)
          /\ s[j] \in Proc
      BY <1>2, <1>5, <2>0, <2>2, <3>1 DEF Chained
    <3>3. /\ new.parent[s[j]] = p
          /\ new.optr[s[j]] = IF j = k - 1 THEN older ELSE NextIn(s, j)
          /\ new.yptr[s[j]] = IF j = k + 1 THEN younger ELSE PrevIn(s, j)
      BY <1>15, <1>17, <3>1, <3>2
    <3>4. i \in 1 .. n - 1 /\ k \in 1 .. n /\ n \in Nat /\ j \in 1 .. n
      BY <1>3, <3>1
    <3>5. NextIn(t, i) = IF i = n - 1 THEN NULL ELSE IF i + 1 < k THEN s[i + 1] ELSE s[i + 2]
      <4>1. i # n - 1 => i + 1 \in 1 .. n - 1 /\ (i + 1) + 1 = i + 2
        BY <3>4
      <4> QED BY <1>3, <4>1 DEF NextIn
    <3>6. PrevIn(t, i) = IF i = 1 THEN NULL ELSE IF i - 1 < k THEN s[i - 1] ELSE s[i]
      <4>1. i # 1 => i - 1 \in 1 .. n - 1 /\ (i - 1) + 1 = i
        BY <3>4
      <4> QED BY <1>3, <4>1 DEF PrevIn
    <3>7. NextIn(t, i) = IF j = k - 1 THEN older ELSE NextIn(s, j)
      <4>1. CASE j = k - 1
        <5>1. i = k - 1 /\ ~ (i + 1 < k) /\ i + 2 = k + 1 /\ (i = n - 1 <=> k = n)
          BY <3>1, <3>4, <4>1
        <5> QED BY <1>15, <3>5, <4>1, <5>1
      <4>2. CASE j < k - 1
        <5>1. i = j /\ i + 1 < k /\ i # n - 1 /\ j # n
          BY <3>1, <3>4, <4>2
        <5> QED BY <1>2, <3>4, <3>5, <4>2, <5>1 DEF NextIn
      <4>3. CASE j > k
        <5>1. j = i + 1 /\ ~ (i + 1 < k) /\ i + 2 = j + 1 /\ (i = n - 1 <=> j = n) /\ j # k - 1
          BY <3>1, <3>4, <4>3
        <5> QED BY <1>2, <3>5, <5>1 DEF NextIn
      <4>4. j = k - 1 \/ j < k - 1 \/ j > k
        BY <3>1, <3>4
      <4> QED BY <4>1, <4>2, <4>3, <4>4
    <3>8. PrevIn(t, i) = IF j = k + 1 THEN younger ELSE PrevIn(s, j)
      <4>1. CASE j = k + 1
        <5>1. i = k /\ (i = 1 <=> k = 1) /\ i - 1 < k
          BY <3>1, <3>4, <4>1
        <5> QED BY <1>15, <3>6, <4>1, <5>1
      <4>2. CASE j < k
        <5>1. i = j /\ i - 1 < k /\ j # k + 1
          BY <3>1, <3>4, <4>2
        <5> QED BY <3>6, <5>1 DEF PrevIn
      <4>3. CASE j > k + 1
        <5>1. j = i + 1 /\ ~ (i - 1 < k) /\ i = j - 1 /\ i # 1 /\ j # 1 /\ j # k + 1
          BY <3>1, <3>4, <4>3
        <5> QED BY <3>6, <5>1 DEF PrevIn
      <4>4. j = k + 1 \/ j < k \/ j > k + 1
        BY <3>1, <3>4
      <4> QED BY <4>1, <4>2, <4>3, <4>4
    <3> QED BY <1>4, <2>2, <3>1, <3>3, <3>7, <3>8
  <2> QED BY <2>1, <2>2
<1>20. Chained(new, M, NULL)
  BY <1>10, <1>17, <1>18, <1>19 DEF Chained
<1> QED BY <1>4, <1>11, <1>20 DEF DroppedFrom

-----------------------------------------------------------------------------
(* The walk of do_wait and do_exit over the children of p.                  *)

Links == [parent |-> parent, cptr |-> cptr, optr |-> optr, yptr |-> yptr]

\* The walk meets the list of p, no more and no less.
LEMMA KidsAre ==
  ASSUME NEW K, NEW x, Chained(Links, K, x), NEW p \in Proc, p # x
  PROVE  Kids(p) = K[p]
<1>1. PICK s, n, N : s = K[p] /\ n = Len(s) /\ N = Cardinality(Proc)
  OBVIOUS
<1>2. /\ s \in Seq(User) /\ n \in Nat /\ DOMAIN s = 1 .. n
      /\ \A i \in 1 .. n : s[i] \in Proc /\ s[i] # NULL
      /\ \A i, j \in 1 .. n : s[i] = s[j] => i = j
  <2>1. Separate(K)
    BY DEF Chained
  <2>2. \A i, j \in DOMAIN s : s[i] = s[j] => i = j
    BY <1>1, <2>1 DEF Separate
  <2> QED BY <1>1, <2>1, <2>2, ListIs
<1>3. N \in Nat /\ n <= N
  <2>1. IsFiniteSet(Proc) /\ N \in Nat
    BY <1>1, Consts, FS_CardinalityType
  <2>2. PICK f : f = [i \in 1 .. n |-> s[i]]
    OBVIOUS
  <2>3. f \in Injection(1 .. n, Proc)
    BY <1>2, <2>2 DEF Injection, IsInjective
  <2>4. Cardinality(1 .. n) <= Cardinality(Proc)
    BY <2>1, <2>3, FS_Injection
  <2>5. Cardinality(1 .. n) = n
    <3>1. Cardinality(1 .. n) = IF 1 > n THEN 0 ELSE n - 1 + 1
      BY <1>2, FS_Interval
    <3> QED BY <1>2, <3>1
  <2> QED BY <1>1, <2>1, <2>4, <2>5
<1>4. /\ cptr[p] = IF n = 0 THEN NULL ELSE s[1]
      /\ \A i \in 1 .. n : optr[s[i]] = IF i = n THEN NULL ELSE s[i + 1]
  <2>1. cptr[p] = HeadOf(s)
    BY <1>1 DEF Chained, Links
  <2>2. s = <<>> <=> n = 0
    BY <1>1, <1>2
  <2>3. \A i \in 1 .. n : optr[s[i]] = NextIn(s, i)
    BY <1>1, <1>2 DEF Chained, Links
  <2> QED BY <1>1, <2>1, <2>2, <2>3 DEF HeadOf, NextIn
<1> DEFINE Walk(j, f) == IF j = 0 THEN cptr[p]
                         ELSE IF f[j - 1] = NULL THEN NULL ELSE optr[f[j - 1]]
           At(j) == IF j < n THEN s[j + 1] ELSE NULL
           g == [j \in 0 .. N |-> At(j)]
<1>5. At(0) = cptr[p]
  <2>1. n # 0 => 0 < n /\ 0 + 1 = 1
    BY <1>2
  <2> QED BY <1>4, <2>1
<1>6. \A j \in Nat : /\ At(j) = NULL => At(j + 1) = NULL
                     /\ At(j) # NULL => At(j + 1) = optr[At(j)]
  <2> TAKE j \in Nat
  <2>1. CASE j < n
    <3>1. j + 1 \in 1 .. n /\ (j + 1 < n <=> j + 1 # n) /\ At(j) = s[j + 1]
      BY <1>2, <2>1
    <3>2. s[j + 1] # NULL /\ optr[s[j + 1]] = IF j + 1 = n THEN NULL ELSE s[(j + 1) + 1]
      BY <1>2, <1>4, <3>1
    <3> QED BY <3>1, <3>2
  <2>2. CASE ~ (j < n)
    <3>1. ~ (j + 1 < n)
      BY <1>2, <2>2
    <3> QED BY <2>2, <3>1
  <2> QED BY <2>1, <2>2
<1>7. \A j \in Nat : At(j) # NULL <=> j < n
  <2> TAKE j \in Nat
  <2>1. j < n => j + 1 \in 1 .. n
    BY <1>2
  <2> QED BY <1>2, <2>1
<1> HIDE DEF At
<1>8. g = [j \in 0 .. N |-> Walk(j, g)]
  <2>1. ASSUME NEW j \in 0 .. N PROVE At(j) = Walk(j, g)
    <3>1. CASE j = 0
      BY <1>5, <3>1
    <3>2. CASE j # 0
      <4>1. j - 1 \in 0 .. N /\ j - 1 \in Nat /\ (j - 1) + 1 = j
        BY <1>3, <3>2
      <4>2. g[j - 1] = At(j - 1)
        BY <4>1
      <4>3. /\ At(j - 1) = NULL => At(j) = NULL
            /\ At(j - 1) # NULL => At(j) = optr[At(j - 1)]
        BY <1>6, <4>1
      <4> QED BY <3>2, <4>2, <4>3
    <3> QED BY <3>1, <3>2
  <2>2. g = [j \in 0 .. N |-> At(j)]
    OBVIOUS
  <2> HIDE DEF g, Walk
  <2> QED BY <2>1, <2>2
<1>9. PICK walk : /\ walk = [j \in 0 .. N |-> Walk(j, walk)]
                  /\ Kids(p) = [i \in 1 .. Cardinality({j \in 0 .. N : walk[j] # NULL}) |->
                                   walk[i - 1]]
  <2> DEFINE walk == CHOOSE f : f = [j \in 0 .. N |-> Walk(j, f)]
  <2>1. walk = [j \in 0 .. N |-> Walk(j, walk)]
    BY <1>8
  <2>2. Kids(p) = [i \in 1 .. Cardinality({j \in 0 .. N : walk[j] # NULL}) |-> walk[i - 1]]
    BY <1>1 DEF Kids
  <2> QED BY <2>1, <2>2
<1> DEFINE T == {j \in Nat : j <= N => walk[j] = At(j)}
<1>10. 0 \in T
  BY <1>3, <1>5, <1>9
<1>11. ASSUME NEW j \in Nat, j \in T PROVE j + 1 \in T
  <2>1. SUFFICES ASSUME j + 1 <= N PROVE walk[j + 1] = At(j + 1)
    OBVIOUS
  <2>2. j + 1 \in 0 .. N /\ j + 1 # 0 /\ (j + 1) - 1 = j /\ walk[j] = At(j)
    BY <1>3, <1>11, <2>1
  <2>3. walk[j + 1] = Walk(j + 1, walk)
    BY <1>9, <2>2
  <2> QED BY <1>6, <2>2, <2>3
<1>12. \A j \in 0 .. N : walk[j] = At(j)
  <2> HIDE DEF T
  <2>1. Nat \subseteq T
    BY <1>10, <1>11, Induct
  <2>2. \A j \in T : j <= N => walk[j] = At(j)
    BY DEF T
  <2> QED BY <2>1, <2>2
<1>13. {j \in 0 .. N : walk[j] # NULL} = 0 .. n - 1
  BY <1>2, <1>3, <1>7, <1>12
<1>14. Cardinality(0 .. n - 1) = n
  <2>1. Cardinality(0 .. n - 1) = IF 0 > n - 1 THEN 0 ELSE (n - 1) - 0 + 1
    BY <1>2, FS_Interval
  <2> QED BY <1>2, <2>1
<1>15. \A i \in 1 .. n : walk[i - 1] = s[i]
  <2> TAKE i \in 1 .. n
  <2>1. i - 1 \in 0 .. N /\ i - 1 < n /\ (i - 1) + 1 = i
    BY <1>2, <1>3
  <2> QED BY <1>12, <2>1 DEF At
<1>16. Kids(p) = [i \in 1 .. n |-> s[i]]
  <2>1. Kids(p) = [i \in 1 .. n |-> walk[i - 1]]
    BY <1>9, <1>13, <1>14
  <2> QED BY <1>15, <2>1
<1>17. s = [i \in 1 .. n |-> s[i]]
  BY <1>2
<1> QED BY <1>1, <1>16, <1>17

-----------------------------------------------------------------------------
(* The loop of do_exit.                                                     *)

\* A round takes the first child of p to the front of the list of initproc.
LEMMA Adopts ==
  ASSUME NEW l, NEW K, NEW p \in User, Chained(l, K, p), K[p] # <<>>,
         NEW c, c = K[p][1], NEW new, new = Adopt(l, c)
  PROVE  /\ new \in LinksType /\ c \in User
         /\ \A y \in Proc : new.parent[y] = IF y = c THEN initproc ELSE l.parent[y]
         /\ \E M : /\ Chained(new, M, p) /\ Elems(M) = Elems(K) /\ M[p] = Tail(K[p])
                   /\ \A q \in Proc : q # p /\ q # initproc => M[q] = K[q]
<1>1. PICK H : H = [K EXCEPT ![p] = Tail(K[p])]
  OBVIOUS
<1>2. p \in Proc /\ initproc \in Proc /\ p # initproc /\ Separate(K) /\ l \in LinksType
  BY Consts DEF Chained
<1>3. /\ Chained(l, H, p) /\ Elems(H) = Elems(K) \ {c} /\ H[p] = Tail(K[p])
      /\ \A q \in Proc : q # p => H[q] = K[q]
  <2>1. Popped(l, K, p, H)
    BY <1>1, <1>2, Pops
  <2> QED BY <2>1 DEF Popped
<1>4. c \in User /\ c \in Elems(K) /\ c \in Proc
  <2>1. 1 \in DOMAIN K[p]
    <3>1. K[p] \in Seq(User)
      BY <1>2, ListIs
    <3> QED BY <3>1
  <2> QED BY <1>2, <2>1, ListIs
<1>5. PICK M : M = [H EXCEPT ![initproc] = <<c>> \o H[initproc]]
  OBVIOUS
<1>6. new = Pushed(l, initproc, c)
  BY DEF Adopt, Pushed
<1>7. c \notin Elems(H)
  BY <1>3
<1>8. /\ Chained(new, M, p) /\ Elems(M) = Elems(H) \cup {c}
      /\ \A q \in Proc : q # initproc => M[q] = H[q]
  <2>1. Chained(l, H, p)
    BY <1>3
  <2>2. PushedOn(new, p, H, initproc, c, M)
    BY <1>2, <1>4, <1>5, <1>6, <1>7, <2>1, Pushes
  <2> QED BY <2>2 DEF PushedOn
<1>9. \A y \in Proc : new.parent[y] = IF y = c THEN initproc ELSE l.parent[y]
  <2>1. l.parent \in [Proc -> Link]
    BY <1>2, LinksAre
  <2>2. new.parent = [l.parent EXCEPT ![c] = initproc]
    BY <1>6 DEF Pushed
  <2> QED BY <1>4, <2>1, <2>2
<1>10. Elems(M) = Elems(K)
  BY <1>3, <1>4, <1>8
<1>11. M[p] = Tail(K[p]) /\ \A q \in Proc : q # p /\ q # initproc => M[q] = K[q]
  BY <1>1, <1>2, <1>3, <1>8
<1>12. new \in LinksType
  BY <1>8 DEF Chained
<1> QED BY <1>4, <1>8, <1>9, <1>10, <1>11, <1>12

\* The links v, with the lists M, after the first j children of p are adopted.
Adopted(l, K, p, j, v, M) ==
    /\ Chained(v, M, p) /\ Elems(M) = Elems(K)
    /\ Len(M[p]) = Len(K[p]) - j
    /\ \A i \in 1 .. Len(K[p]) - j : M[p][i] = K[p][i + j]
    /\ \A q \in Proc : q # p /\ q # initproc => M[q] = K[q]
    /\ \A c \in Proc : v.parent[c] = IF \E i \in 1 .. j : K[p][i] = c THEN initproc
                                     ELSE l.parent[c]

LEMMA AdoptsOne ==
  ASSUME NEW l, NEW K, NEW p \in User, Separate(K), NEW j \in 0 .. Len(K[p]) - 1,
         NEW v, NEW M, Adopted(l, K, p, j, v, M), NEW new, new = Adopt(v, K[p][j + 1])
  PROVE  new \in LinksType /\ \E H : Adopted(l, K, p, j + 1, new, H)
<1>1. PICK s, n, m : s = K[p] /\ n = Len(s) /\ m = M[p]
  OBVIOUS
<1>2. /\ s \in Seq(User) /\ n \in Nat /\ DOMAIN s = 1 .. n /\ j \in 0 .. n - 1
  BY <1>1, Consts, ListIs
<1>3. /\ Chained(v, M, p) /\ Elems(M) = Elems(K) /\ m \in Seq(User) /\ Len(m) = n - j
      /\ \A i \in 1 .. n - j : m[i] = s[i + j]
      /\ \A q \in Proc : q # p /\ q # initproc => M[q] = K[q]
      /\ \A c \in Proc : v.parent[c] = IF \E i \in 1 .. j : s[i] = c THEN initproc
                                       ELSE l.parent[c]
  <2>1. Chained(v, M, p) /\ Elems(M) = Elems(K) /\ Len(m) = n - j
    BY <1>1 DEF Adopted
  <2>2. m \in Seq(User)
    BY <1>1, <2>1, Consts, ListIs DEF Chained
  <2>3. \A i \in 1 .. n - j : m[i] = s[i + j]
    BY <1>1 DEF Adopted
  <2>4. \A q \in Proc : q # p /\ q # initproc => M[q] = K[q]
    BY DEF Adopted
  <2>5. \A c \in Proc : v.parent[c] = IF \E i \in 1 .. j : s[i] = c THEN initproc
                                      ELSE l.parent[c]
    BY <1>1 DEF Adopted
  <2> QED BY <2>1, <2>2, <2>3, <2>4, <2>5
<1>4. m # <<>> /\ m[1] = s[j + 1]
  <2>1. 1 \in 1 .. n - j /\ 1 + j = j + 1 /\ n - j # 0
    BY <1>2
  <2>2. m[1 + 0] = s[1 + j]
    BY <1>3, <2>1
  <2> QED BY <1>3, <2>1, <2>2
<1>5. PICK c : c = s[j + 1]
  OBVIOUS
<1>6. M[p] # <<>> /\ c = M[p][1] /\ new = Adopt(v, c)
  BY <1>1, <1>4, <1>5
<1>7. /\ new \in LinksType /\ c \in User
      /\ \A y \in Proc : new.parent[y] = IF y = c THEN initproc ELSE v.parent[y]
      /\ \E H : /\ Chained(new, H, p) /\ Elems(H) = Elems(M) /\ H[p] = Tail(M[p])
                /\ \A q \in Proc : q # p /\ q # initproc => H[q] = M[q]
  BY <1>3, <1>6, Adopts
<1>8. PICK H : /\ Chained(new, H, p) /\ Elems(H) = Elems(M) /\ H[p] = Tail(m)
               /\ \A q \in Proc : q # p /\ q # initproc => H[q] = M[q]
  BY <1>1, <1>7
<1>9. PICK h : h = H[p] /\ h = Tail(m)
  BY <1>8
<1>10. Len(h) = n - (j + 1) /\ \A i \in 1 .. n - (j + 1) : h[i] = s[i + (j + 1)]
  <2>1. Len(h) = Len(m) - 1 /\ \A i \in 1 .. Len(m) - 1 : h[i] = m[i + 1]
    BY <1>3, <1>4, <1>9
  <2>2. Len(m) - 1 = n - (j + 1)
    BY <1>2, <1>3
  <2>3. ASSUME NEW i \in 1 .. n - (j + 1) PROVE h[i] = s[i + (j + 1)]
    <3>1. i + 1 \in 1 .. n - j /\ (i + 1) + j = i + (j + 1)
      BY <1>2
    <3>2. h[i] = m[i + 1]
      BY <2>1, <2>2
    <3> QED BY <1>3, <3>1, <3>2
  <2> QED BY <2>1, <2>2, <2>3
<1>11. ASSUME NEW y \in Proc
       PROVE  new.parent[y] = IF \E i \in 1 .. j + 1 : s[i] = y THEN initproc ELSE l.parent[y]
  <2>1. (\E i \in 1 .. j + 1 : s[i] = y) <=> y = c \/ \E i \in 1 .. j : s[i] = y
    <3>1. j + 1 \in 1 .. j + 1 /\ \A i \in 1 .. j : i \in 1 .. j + 1
      BY <1>2
    <3>2. \A i \in 1 .. j + 1 : i = j + 1 \/ i \in 1 .. j
      BY <1>2
    <3> QED BY <1>5, <3>1, <3>2
  <2> QED BY <1>3, <1>7, <2>1
<1>12. Elems(H) = Elems(K) /\ \A q \in Proc : q # p /\ q # initproc => H[q] = K[q]
  BY <1>3, <1>8
<1>13. Adopted(l, K, p, j + 1, new, H)
  BY <1>1, <1>8, <1>9, <1>10, <1>11, <1>12 DEF Adopted
<1> QED BY <1>7, <1>13

\* After the loop the children of p are children of initproc.
LEMMA AdoptsAll ==
  ASSUME NEW l, NEW K, Chained(l, K, NULL), NEW p \in User, NEW new, new = AdoptAll(l, K[p])
  PROVE  \E M : Adopted(l, K, p, Len(K[p]), new, M)
<1>1. PICK s, n : s = K[p] /\ n = Len(s)
  OBVIOUS
<1>2. Separate(K) /\ l \in LinksType /\ n \in Nat /\ p # NULL /\ s \in Seq(User)
  BY <1>1, Consts, ListIs DEF Chained
<1>3. Adopted(l, K, p, 0, l, K)
  <2>1. Chained(l, K, p)
    <3>1. \A q \in Proc : q # NULL
      BY Consts
    <3> QED BY <3>1 DEF Chained
  <2>2. n = n - 0 /\ \A i \in 1 .. n - 0 : i + 0 = i
    BY <1>2
  <2>3. \A c \in Proc : ~ \E i \in 1 .. 0 : s[i] = c
    OBVIOUS
  <2> QED BY <1>1, <2>1, <2>2, <2>3 DEF Adopted
<1> DEFINE P == [j \in 0 .. n |-> {v \in LinksType : \E M : Adopted(l, K, p, j, v, M)}]
           step == [x \in LinksType \X (0 .. n - 1) |-> Adopt(x[1], s[x[2] + 1])]
<1>4. ASSUME NEW j \in 0 .. n - 1, NEW v \in P[j]
      PROVE  step[<<v, j>>] = Adopt(v, s[j + 1]) /\ step[<<v, j>>] \in P[j + 1]
  <2>1. v \in LinksType /\ \E M : Adopted(l, K, p, j, v, M)
    BY <1>2
  <2>2. PICK M : Adopted(l, K, p, j, v, M)
    BY <2>1
  <2>3. PICK t : t = Adopt(v, s[j + 1])
    OBVIOUS
  <2>4. step[<<v, j>>] = t
    BY <2>1, <2>3
  <2>5. j \in 0 .. Len(K[p]) - 1 /\ t = Adopt(v, K[p][j + 1])
    BY <1>1, <2>3
  <2>6. t \in LinksType /\ \E H : Adopted(l, K, p, j + 1, t, H)
    BY <1>2, <2>2, <2>5, AdoptsOne
  <2>7. j + 1 \in 0 .. n
    BY <1>2
  <2>8. t \in P[j + 1]
    BY <2>6, <2>7
  <2> QED BY <2>3, <2>4, <2>8
<1>5. l \in P[0]
  <2>1. P[0] = {v \in LinksType : \E M : Adopted(l, K, p, 0, v, M)}
    BY <1>2
  <2> HIDE DEF P
  <2> QED BY <1>2, <1>3, <2>1
<1>6. P[n] = {v \in LinksType : \E M : Adopted(l, K, p, n, v, M)}
  BY <1>2
<1> HIDE DEF P, step
<1>7. Passes(l, n, P, step)
  BY <1>4, <1>5 DEF Passes
<1>8. PICK h : Iterates(h, l, n, P, step)
  BY <1>2, <1>7, Iteration
<1> DEFINE After(j, f) == IF j = 0 THEN l ELSE Adopt(f[j - 1], s[j])
<1>9. h = [j \in 0 .. n |-> After(j, h)]
  <2>1. ASSUME NEW j \in 0 .. n PROVE h[j] = After(j, h)
    <3>1. CASE j = 0
      BY <1>8, <3>1 DEF Iterates
    <3>2. CASE j # 0
      <4>1. j - 1 \in 0 .. n - 1 /\ j - 1 \in 0 .. n /\ (j - 1) + 1 = j
        BY <1>2, <3>2
      <4>2. h[j - 1] \in P[j - 1] /\ h[j] = step[<<h[j - 1], j - 1>>]
        BY <1>8, <4>1 DEF Iterates
      <4>3. h[j] = Adopt(h[j - 1], s[(j - 1) + 1])
        BY <1>4, <4>1, <4>2
      <4> QED BY <3>2, <4>1, <4>3
    <3> QED BY <3>1, <3>2
  <2>2. h = [j \in 0 .. n |-> h[j]]
    BY <1>8 DEF Iterates
  <2> QED BY <2>1, <2>2
<1>10. PICK after : after = [j \in 0 .. n |-> After(j, after)] /\ new = after[n]
  <2> DEFINE after == CHOOSE f : f = [j \in 0 .. n |-> After(j, f)]
  <2>1. after = [j \in 0 .. n |-> After(j, after)]
    BY <1>9
  <2>2. new = after[n]
    BY <1>1 DEF AdoptAll
  <2> QED BY <2>1, <2>2
<1>11. new \in P[n]
  <2>1. after[0] = l
    BY <1>2, <1>10
  <2>2. ASSUME NEW j \in 0 .. n - 1, after[j] \in P[j]
        PROVE  after[j + 1] = step[<<after[j], j>>]
    <3>1. j + 1 \in 0 .. n /\ j + 1 # 0 /\ (j + 1) - 1 = j
      BY <1>2
    <3>2. after[j + 1] = After(j + 1, after)
      BY <1>10, <3>1
    <3>3. after[j + 1] = Adopt(after[j], s[j + 1])
      BY <3>1, <3>2
    <3> QED BY <1>4, <2>2, <3>3
  <2>3. after[n] \in P[n]
    BY <1>2, <1>7, <2>1, <2>2, IterationEnds
  <2> QED BY <1>10, <2>3
<1> QED BY <1>1, <1>6, <1>11

-----------------------------------------------------------------------------
(* The invariant of the links.                                              *)

\* The lists K are those of the processes that exist, and a zombie has none.
Lists(K) ==
    /\ Chained(Links, K, NULL)
    /\ Elems(K) = {c \in User : status[c] # "none"}
    /\ \A q \in Proc : ~ Alive(q) => K[q] = <<>>

LinksInv == \E K : Lists(K)

FamilyInv == StatusType /\ LinksInv /\ PidInv

LEMMA LinksStart == ASSUME Init PROVE LinksInv
<1>1. PICK K : K = [q \in Proc |-> <<>>]
  OBVIOUS
<1>2. PICK l : l = Links
  OBVIOUS
<1>3. /\ l.parent = [p \in Proc |-> NULL] /\ l.cptr = [p \in Proc |-> NULL]
      /\ l.optr = [p \in Proc |-> NULL] /\ l.yptr = [p \in Proc |-> NULL]
      /\ l = [parent |-> l.parent, cptr |-> l.cptr, optr |-> l.optr, yptr |-> l.yptr]
  BY <1>2 DEF Init, FamilyInit, Links
<1>4. l \in LinksType
  BY <1>3 DEF LinksType, Link
<1>5. \A q \in Proc : K[q] = <<>> /\ K[q] \in Seq(User) /\ DOMAIN K[q] = {}
  BY <1>1
<1>6. K \in [Proc -> Seq(User)]
  BY <1>1, <1>5
<1>7. Separate(K)
  BY <1>5, <1>6 DEF Separate
<1>8. \A q \in Proc : l.cptr[q] = HeadOf(K[q])
  BY <1>3, <1>5 DEF HeadOf
<1>9. Chained(l, K, NULL)
  BY <1>4, <1>5, <1>7, <1>8 DEF Chained
<1>10. Elems(K) = {} /\ {c \in User : status[c] # "none"} = {}
  BY <1>5, Consts DEF Elems, Init, FamilyInit
<1>11. Lists(K)
  BY <1>2, <1>5, <1>9, <1>10 DEF Lists
<1> QED BY <1>11 DEF LinksInv

LEMMA LinksFork ==
  ASSUME StatusType, LinksInv, NEW p \in Proc, NEW c \in User, set_links(p, c)
  PROVE  LinksInv'
<1>1. PICK K : Lists(K)
  BY DEF LinksInv
<1>2. PICK l, new : l = Links /\ new = Pushed(l, p, c)
  OBVIOUS
<1>3. /\ Chained(l, K, NULL) /\ Elems(K) = {d \in User : status[d] # "none"}
      /\ \A q \in Proc : ~ Alive(q) => K[q] = <<>>
      /\ l \in LinksType
  BY <1>1, <1>2 DEF Lists, Chained
<1>4. /\ Alive(p) /\ status[c] = "none" /\ status' = [status EXCEPT ![c] = "alive"]
      /\ parent' = [parent EXCEPT ![c] = p] /\ optr' = [optr EXCEPT ![c] = cptr[p]]
      /\ yptr' = [x \in Proc |-> IF x = c THEN NULL
                                 ELSE IF x = cptr[p] THEN c ELSE yptr[x]]
      /\ cptr' = [cptr EXCEPT ![c] = NULL, ![p] = c]
  BY DEF set_links
<1>5. c \in Proc /\ p # NULL /\ c # NULL /\ c # p /\ ~ Alive(c)
  BY <1>4, Consts DEF Alive
<1>6. cptr[c] = NULL /\ cptr \in [Proc -> Link]
  <2>1. l.cptr[c] = HeadOf(K[c]) /\ K[c] = <<>>
    BY <1>3, <1>5 DEF Chained
  <2>2. l.cptr \in [Proc -> Link] /\ l.cptr = cptr
    BY <1>2, <1>3, LinksAre DEF Links
  <2> QED BY <2>1, <2>2 DEF HeadOf
<1>7. Links' = new
  <2>1. cptr' = [cptr EXCEPT ![p] = c]
    BY <1>4, <1>5, <1>6
  <2>2. l.parent = parent /\ l.cptr = cptr /\ l.optr = optr /\ l.yptr = yptr
    BY <1>2 DEF Links
  <2> QED BY <1>2, <1>4, <2>1, <2>2 DEF Links, Pushed
<1>8. PICK M : M = [K EXCEPT ![p] = <<c>> \o K[p]]
  OBVIOUS
<1>9. c \notin Elems(K)
  BY <1>3, <1>4
<1>10. PushedOn(new, NULL, K, p, c, M)
  BY <1>2, <1>3, <1>5, <1>8, <1>9, Pushes
<1>11. /\ Chained(new, M, NULL) /\ Elems(M) = Elems(K) \cup {c}
       /\ \A q \in Proc : q # p => M[q] = K[q]
  BY <1>10 DEF PushedOn
<1>12. {d \in User : status'[d] # "none"} = {d \in User : status[d] # "none"} \cup {c}
  BY <1>4 DEF StatusType
<1>13. ASSUME NEW q \in Proc, ~ (Alive(q)') PROVE q # p /\ ~ Alive(q)
  BY <1>4, <1>13 DEF Alive, StatusType
<1>14. Lists(M)'
  <2>1. Chained(Links', M, NULL)
    BY <1>7, <1>11
  <2>2. Elems(M) = {d \in User : status'[d] # "none"}
    BY <1>3, <1>11, <1>12
  <2>3. \A q \in Proc : ~ (Alive(q)') => M[q] = <<>>
    BY <1>3, <1>11, <1>13
  <2> QED BY <2>1, <2>2, <2>3 DEF Lists
<1> QED BY <1>14 DEF LinksInv

LEMMA LinksReap ==
  ASSUME StatusType, LinksInv, NEW p \in Proc, NEW c \in User, remove_links(p, c)
  PROVE  LinksInv'
<1>1. PICK K : Lists(K)
  BY DEF LinksInv
<1>2. PICK l, new : l = Links /\ new = Dropped(l, c)
  OBVIOUS
<1>3. /\ Chained(l, K, NULL) /\ Elems(K) = {d \in User : status[d] # "none"}
      /\ \A q \in Proc : ~ Alive(q) => K[q] = <<>>
      /\ Separate(K)
  BY <1>1, <1>2 DEF Lists, Chained
<1>4. /\ Alive(p) /\ status[c] = "dead" /\ status' = [status EXCEPT ![c] = "none"]
      /\ Contains(Kids(p), c) /\ parent' = parent
      /\ optr' = [x \in Proc |-> IF x = yptr[c] THEN optr[c] ELSE optr[x]]
      /\ yptr' = [x \in Proc |-> IF x = optr[c] THEN yptr[c] ELSE yptr[x]]
      /\ cptr' = IF yptr[c] = NULL THEN [cptr EXCEPT ![parent[c]] = optr[c]] ELSE cptr
  BY DEF remove_links
<1>5. PICK k \in DOMAIN K[p] : c = K[p][k]
  <2>1. p # NULL
    BY Consts
  <2>2. Kids(p) = K[p]
    BY <1>2, <1>3, <2>1, KidsAre
  <2>3. \E i \in 1 .. Len(K[p]) : K[p][i] = c
    BY <1>4, <2>2 DEF Contains
  <2> QED BY <1>3, <2>3, ListIs
<1>6. Links' = new
  <2>1. l.parent = parent /\ l.cptr = cptr /\ l.optr = optr /\ l.yptr = yptr
    BY <1>2 DEF Links
  <2> QED BY <1>2, <1>4, <2>1 DEF Links, Dropped
<1>7. PICK M : M = [K EXCEPT ![p] = RemoveAt(K[p], k)]
  OBVIOUS
<1>8. DroppedFrom(new, K, p, c, M)
  BY <1>2, <1>3, <1>5, <1>7, Drops
<1>9. /\ Chained(new, M, NULL) /\ Elems(M) = Elems(K) \ {c}
      /\ \A q \in Proc : q # p => M[q] = K[q]
  BY <1>8 DEF DroppedFrom
<1>10. {d \in User : status'[d] # "none"} = {d \in User : status[d] # "none"} \ {c}
  BY <1>4 DEF StatusType
<1>11. ASSUME NEW q \in Proc, ~ (Alive(q)') PROVE q # p /\ ~ Alive(q)
  BY <1>4, <1>11 DEF Alive, StatusType
<1>12. Lists(M)'
  <2>1. Chained(Links', M, NULL)
    BY <1>6, <1>9
  <2>2. Elems(M) = {d \in User : status'[d] # "none"}
    BY <1>3, <1>9, <1>10
  <2>3. \A q \in Proc : ~ (Alive(q)') => M[q] = <<>>
    BY <1>3, <1>9, <1>11
  <2> QED BY <2>1, <2>2, <2>3 DEF Lists
<1> QED BY <1>12 DEF LinksInv

\* After the loop of do_exit, with the lists M.
LEMMA ExitLists ==
  ASSUME NEW K, Lists(K), NEW p \in User, Exit(p)
  PROVE  \E M : /\ Chained(Links', M, NULL) /\ Elems(M) = Elems(K) /\ M[p] = <<>>
                /\ \A q \in Proc : q # p /\ q # initproc => M[q] = K[q]
                /\ \A c \in Proc : parent'[c] = IF \E i \in DOMAIN K[p] : K[p][i] = c
                                                THEN initproc ELSE parent[c]
<1>1. PICK l, new : l = Links /\ new = AdoptAll(l, K[p])
  OBVIOUS
<1>2. Chained(l, K, NULL) /\ p \in Proc /\ p # NULL /\ Separate(K)
  BY <1>1, Consts DEF Lists, Chained
<1>3. Kids(p) = K[p]
  BY <1>1, <1>2, KidsAre
<1>4. /\ parent' = new.parent /\ cptr' = [new.cptr EXCEPT ![p] = NULL]
      /\ optr' = new.optr /\ yptr' = new.yptr
  BY <1>1, <1>3 DEF Exit, Links
<1>5. PICK n : n = Len(K[p]) /\ n \in Nat /\ DOMAIN K[p] = 1 .. n
  BY <1>2, ListIs
<1>6. PICK M : Adopted(l, K, p, n, new, M)
  BY <1>1, <1>2, <1>5, AdoptsAll
<1>7. Chained(new, M, p) /\ Elems(M) = Elems(K) /\ Len(M[p]) = n - n
  BY <1>5, <1>6 DEF Adopted
<1>8. Separate(M) /\ new \in LinksType
  BY <1>7 DEF Chained
<1>9. M[p] = <<>>
  <2>1. M[p] \in Seq(User) /\ Len(M[p]) = 0
    BY <1>2, <1>5, <1>7, <1>8, ListIs
  <2> QED BY <2>1
<1>10. PICK after : after = Links'
  OBVIOUS
<1>11. /\ after.parent = new.parent /\ after.optr = new.optr /\ after.yptr = new.yptr
       /\ after.cptr = [new.cptr EXCEPT ![p] = NULL]
       /\ after = [parent |-> after.parent, cptr |-> after.cptr, optr |-> after.optr,
                   yptr |-> after.yptr]
  BY <1>4, <1>10 DEF Links
<1>12. after \in LinksType /\ \A q \in Proc : after.cptr[q] = IF q = p THEN NULL ELSE new.cptr[q]
  <2>1. /\ new.parent \in [Proc -> Link] /\ new.cptr \in [Proc -> Link]
        /\ new.optr \in [Proc -> Link] /\ new.yptr \in [Proc -> Link] /\ NULL \in Link
    BY <1>8, LinksAre DEF Link
  <2>2. after.cptr \in [Proc -> Link]
    BY <1>11, <2>1
  <2> QED BY <1>11, <2>1, <2>2 DEF LinksType
<1>13. Chained(after, M, NULL)
  <2>1. ASSUME NEW q \in Proc PROVE after.cptr[q] = HeadOf(M[q])
    <3>1. CASE q = p
      BY <1>9, <1>12, <3>1 DEF HeadOf
    <3>2. CASE q # p
      BY <1>7, <1>12, <3>2 DEF Chained
    <3> QED BY <3>1, <3>2
  <2>2. ASSUME NEW q \in Proc, NEW i \in DOMAIN M[q]
        PROVE  /\ after.parent[M[q][i]] = q /\ after.optr[M[q][i]] = NextIn(M[q], i)
               /\ after.yptr[M[q][i]] = PrevIn(M[q], i)
    <3>1. q # p
      BY <1>9
    <3> QED BY <1>7, <1>11, <3>1 DEF Chained
  <2> QED BY <1>8, <1>12, <2>1, <2>2 DEF Chained
<1>14. \A c \in Proc : parent'[c] = IF \E i \in DOMAIN K[p] : K[p][i] = c
                                    THEN initproc ELSE parent[c]
  <2>1. \A c \in Proc : new.parent[c] = IF \E i \in 1 .. n : K[p][i] = c
                                        THEN initproc ELSE l.parent[c]
    BY <1>6 DEF Adopted
  <2>2. l.parent = parent
    BY <1>1 DEF Links
  <2> QED BY <1>4, <1>5, <2>1, <2>2
<1>15. \A q \in Proc : q # p /\ q # initproc => M[q] = K[q]
  BY <1>6 DEF Adopted
<1> QED BY <1>7, <1>9, <1>10, <1>13, <1>14, <1>15

LEMMA LinksExit ==
  ASSUME StatusType, LinksInv, NEW p \in User, Exit(p)
  PROVE  LinksInv'
<1>1. PICK K : Lists(K)
  BY DEF LinksInv
<1>2. PICK M : /\ Chained(Links', M, NULL) /\ Elems(M) = Elems(K) /\ M[p] = <<>>
               /\ \A q \in Proc : q # p /\ q # initproc => M[q] = K[q]
  BY <1>1, ExitLists
<1>3. status[p] = "alive" /\ status' = [status EXCEPT ![p] = "dead"]
  BY DEF Exit
<1>4. Elems(M) = {d \in User : status'[d] # "none"}
  <2>1. Elems(K) = {d \in User : status[d] # "none"}
    BY <1>1 DEF Lists
  <2>2. {d \in User : status'[d] # "none"} = {d \in User : status[d] # "none"}
    BY <1>3 DEF StatusType
  <2> QED BY <1>2, <2>1, <2>2
<1>5. ASSUME NEW q \in Proc, ~ (Alive(q)') PROVE M[q] = <<>>
  <2>1. q # initproc /\ (q # p => ~ Alive(q))
    BY <1>3, <1>5 DEF Alive, StatusType
  <2>2. ~ Alive(q) => K[q] = <<>>
    BY <1>1 DEF Lists
  <2> QED BY <1>2, <2>1, <2>2
<1>6. Lists(M)'
  BY <1>2, <1>4, <1>5 DEF Lists
<1> QED BY <1>6 DEF LinksInv

LEMMA FamilyStep ==
  ASSUME FamilyInv, [Next]_vars
  PROVE  FamilyInv'
<1>1. StatusType /\ LinksInv /\ PidInv
  BY DEF FamilyInv
<1>2. ASSUME NEW p \in Proc, NEW c \in User, Fork(p, c) PROVE FamilyInv'
  <2>1. set_links(p, c)
    BY <1>2 DEF Fork
  <2>2. StatusType'
    BY <1>1, <2>1 DEF set_links, StatusType
  <2>3. LinksInv'
    BY <1>1, <2>1, LinksFork
  <2>4. PidInv'
    BY <1>1, <1>2, PidFork
  <2> QED BY <2>2, <2>3, <2>4 DEF FamilyInv
<1>3. ASSUME NEW p \in Proc, NEW c \in User, Reap(p, c) PROVE FamilyInv'
  <2>1. remove_links(p, c)
    BY <1>3 DEF Reap
  <2>2. StatusType'
    BY <1>1, <2>1 DEF remove_links, StatusType
  <2>3. LinksInv'
    BY <1>1, <2>1, LinksReap
  <2>4. PidInv'
    BY <1>1, <1>3, PidReap
  <2> QED BY <2>2, <2>3, <2>4 DEF FamilyInv
<1>4. ASSUME NEW p \in User, Exit(p), UNCHANGED pidVars PROVE FamilyInv'
  <2>1. StatusType'
    BY <1>1, <1>4 DEF Exit, StatusType
  <2>2. LinksInv'
    BY <1>1, <1>4, LinksExit
  <2>3. PidInv'
    BY <1>1, <1>4, PidExit
  <2> QED BY <2>1, <2>2, <2>3 DEF FamilyInv
<1>5. CASE UNCHANGED vars
  <2>1. UNCHANGED <<status, parent, cptr, optr, yptr>> /\ UNCHANGED <<procList, pid, lastPid, nextSafe>>
    BY <1>5 DEF vars, familyVars, pidVars
  <2>2. StatusType' /\ PidInv'
    BY <1>1, <2>1 DEF StatusType, PidInv, LiveProc
  <2>3. LinksInv'
    <3>1. PICK K : Lists(K)
      BY <1>1 DEF LinksInv
    <3>2. Links' = Links /\ \A q : Alive(q)' <=> Alive(q)
      BY <2>1 DEF Links, Alive
    <3>3. Lists(K)'
      BY <2>1, <3>1, <3>2 DEF Lists
    <3> QED BY <3>3 DEF LinksInv
  <2> QED BY <2>2, <2>3 DEF FamilyInv
<1> QED BY <1>2, <1>3, <1>4, <1>5 DEF Next

(* In every behaviour the pids are apart and the links are those of lists   *)
(* that hold each process that exists once (get_pid, set_links,             *)
(* remove_links, the adoption in do_exit).                                  *)
THEOREM FamilyInvariant == Spec => []FamilyInv
<1>1. Init => FamilyInv
  <2>1. ASSUME Init PROVE StatusType
    BY <2>1 DEF Init, FamilyInit, StatusType
  <2> QED BY <2>1, LinksStart, PidStart DEF FamilyInv
<1>2. FamilyInv /\ [Next]_vars => FamilyInv'
  BY FamilyStep
<1> QED BY <1>1, <1>2, PTL DEF Spec

\* The list of a process holds those that name it as parent.
LEMMA InList ==
  ASSUME NEW K, Lists(K), NEW c \in User, NEW p \in Proc
  PROVE  (\E i \in DOMAIN K[p] : K[p][i] = c) <=> status[c] # "none" /\ parent[c] = p
<1>1. /\ Separate(K) /\ Elems(K) = {d \in User : status[d] # "none"}
      /\ \A q \in Proc : \A i \in DOMAIN K[q] : parent[K[q][i]] = q
  BY DEF Lists, Chained, Links
<1>2. ASSUME NEW i \in DOMAIN K[p], K[p][i] = c PROVE status[c] # "none" /\ parent[c] = p
  <2>1. c \in Elems(K)
    BY <1>1, <1>2, ListIs
  <2> QED BY <1>1, <1>2, <2>1
<1>3. ASSUME status[c] # "none", parent[c] = p PROVE \E i \in DOMAIN K[p] : K[p][i] = c
  <2>1. c \in Elems(K)
    BY <1>1, <1>3
  <2>2. PICK q \in Proc : \E i \in DOMAIN K[q] : K[q][i] = c
    BY <2>1 DEF Elems
  <2> QED BY <1>1, <1>3, <2>2
<1> QED BY <1>2, <1>3

LEMMA WalksAre ==
  ASSUME NEW K, Lists(K), NEW p \in Proc
  PROVE  Kids(p) = K[p]
<1>1. p # NULL /\ Chained(Links, K, NULL)
  BY Consts DEF Lists
<1> QED BY <1>1, KidsAre

LEMMA LinksFollow == ASSUME FamilyInv PROVE LinksExact
<1>1. PICK K : Lists(K)
  BY DEF FamilyInv, LinksInv
<1>2. Separate(K)
  BY <1>1 DEF Lists, Chained
<1>3. ASSUME NEW p \in Proc, NEW s, s = Kids(p)
      PROVE  /\ IsInjective(s)
             /\ ToSet(s) = {c \in User : status[c] # "none" /\ parent[c] = p}
             /\ \A i \in DOMAIN s : yptr[s[i]] = IF i = 1 THEN NULL ELSE s[i - 1]
             /\ ~ Alive(p) => s = <<>>
  <2>1. s = K[p]
    BY <1>1, <1>3, WalksAre
  <2>2. IsInjective(s)
    BY <1>2, <2>1 DEF Separate, IsInjective
  <2>3. ToSet(s) = {c \in User : status[c] # "none" /\ parent[c] = p}
    <3>1. \A i \in DOMAIN s : s[i] \in User
      BY <1>2, <2>1, ListIs
    <3>2. \A c \in User : (\E i \in DOMAIN s : s[i] = c) <=> status[c] # "none" /\ parent[c] = p
      BY <1>1, <2>1, InList
    <3> QED BY <3>1, <3>2 DEF ToSet
  <2>4. \A i \in DOMAIN s : yptr[s[i]] = IF i = 1 THEN NULL ELSE s[i - 1]
    <3>1. p # NULL
      BY Consts
    <3>2. \A i \in DOMAIN s : yptr[s[i]] = PrevIn(s, i)
      BY <1>1, <2>1, <3>1 DEF Lists, Chained, Links
    <3> QED BY <3>2 DEF PrevIn
  <2>5. ~ Alive(p) => s = <<>>
    BY <1>1, <2>1 DEF Lists
  <2> QED BY <2>2, <2>3, <2>4, <2>5
<1> QED BY <1>3 DEF LinksExact

(* After any forks, exits, adoptions and waits the walk from cptr along     *)
(* optr ends and meets exactly the children, each once, and yptr leads back *)
(* (set_links, remove_links and the loop of do_exit in proc.c).             *)
THEOREM LinksCorrect == Spec => []LinksExact
<1>1. FamilyInv => LinksExact
  BY LinksFollow
<1> QED BY <1>1, FamilyInvariant, PTL

(* No two live processes have the same pid, though get_pid looks at the     *)
(* list only when last_pid has reached next_safe (get_pid in proc.c).       *)
THEOREM PidsDiffer == Spec => []PidsUnique
<1>1. ASSUME FamilyInv PROVE PidsUnique
  <2>1. PidInv
    BY <1>1 DEF FamilyInv
  <2>2. IsInjective(procList)
    BY <2>1 DEF PidInv, Numbered, IsInjective
  <2>3. ToSet(procList) = {initproc} \cup {c \in User : status[c] # "none"}
    BY <2>1 DEF PidInv, LiveProc
  <2>4. \A p, q \in ToSet(procList) : pid[p] = pid[q] => p = q
    BY <2>1 DEF PidInv, Numbered, ToSet
  <2> QED BY <2>2, <2>3, <2>4 DEF PidsUnique
<1> QED BY <1>1, FamilyInvariant, PTL

\* Who finds c is its parent.
FathersAre == \A c \in User : FoundBy(c) = IF status[c] = "none" THEN initproc ELSE parent[c]

LEMMA FoundByParent == ASSUME FamilyInv PROVE FathersAre
<1>1. PICK K : Lists(K)
  BY DEF FamilyInv, LinksInv
<1>2. Separate(K)
  BY <1>1 DEF Lists, Chained
<1>3. SUFFICES ASSUME NEW c \in User
               PROVE  FoundBy(c) = IF status[c] = "none" THEN initproc ELSE parent[c]
  BY DEF FathersAre
<1>4. CASE status[c] = "none"
  BY <1>4 DEF FoundBy
<1>5. CASE status[c] # "none"
  <2> DEFINE F == {p \in Proc : Alive(p) /\ Contains(Kids(p), c)}
  <2>1. FoundBy(c) = IF F = {} THEN c ELSE CHOOSE p \in F : TRUE
    BY <1>5 DEF FoundBy
  <2>2. \A p \in Proc : Contains(Kids(p), c) <=> parent[c] = p
    <3> TAKE p \in Proc
    <3>1. Contains(Kids(p), c) <=> \E i \in DOMAIN K[p] : K[p][i] = c
      BY <1>1, <1>2, WalksAre, ListIs DEF Contains
    <3> QED BY <1>1, <1>5, <3>1, InList
  <2>3. parent[c] \in Proc /\ Alive(parent[c])
    <3>1. c \in Elems(K)
      BY <1>1, <1>5 DEF Lists
    <3>2. PICK q \in Proc : \E i \in DOMAIN K[q] : K[q][i] = c
      BY <3>1 DEF Elems
    <3>3. parent[c] = q
      BY <1>1, <3>2, InList
    <3>4. K[q] # <<>>
      BY <3>2
    <3> QED BY <1>1, <3>2, <3>3, <3>4 DEF Lists
  <2>4. F = {parent[c]}
    BY <2>2, <2>3
  <2> HIDE DEF F
  <2>5. (CHOOSE p \in F : TRUE) = parent[c] /\ F # {}
    BY <2>4
  <2> QED BY <1>5, <2>1, <2>5
<1> QED BY <1>4, <1>5

LEMMA LifeStep ==
  ASSUME FamilyInv, FathersAre, FathersAre', [Next]_vars
  PROVE  [Life!LifeNext]_(Life!lifeVars)
<1>1. PICK father, after : /\ father = [c \in User |-> FoundBy(c)]
                           /\ after = [c \in User |-> FoundBy(c)']
  OBVIOUS
<1>2. \A c \in User : /\ father[c] = IF status[c] = "none" THEN initproc ELSE parent[c]
                      /\ after[c] = IF status'[c] = "none" THEN initproc ELSE parent'[c]
  BY <1>1 DEF FathersAre
<1>3. PICK K : Lists(K)
  BY DEF FamilyInv, LinksInv
<1>4. /\ status \in [User -> {"none", "alive", "dead"}] /\ parent \in [Proc -> Link]
      /\ father = [c \in User |-> father[c]] /\ after = [c \in User |-> after[c]]
  <2>1. Links \in LinksType
    BY <1>3 DEF Lists, Chained
  <2> QED BY <1>1, <2>1 DEF FamilyInv, StatusType, LinksType, Links
<1>5. ASSUME NEW p \in Proc, NEW c \in User, Fork(p, c) PROVE Life!LifeNext
  <2>1. /\ Alive(p) /\ status[c] = "none" /\ status' = [status EXCEPT ![c] = "alive"]
        /\ parent' = [parent EXCEPT ![c] = p]
    BY <1>5 DEF Fork, set_links
  <2>2. \A d \in User : after[d] = IF d = c THEN p ELSE father[d]
    BY <1>2, <1>4, <2>1, Consts
  <2>3. after = [father EXCEPT ![c] = p]
    BY <1>4, <2>2
  <2>4. Life!Birth(p, c)
    BY <1>1, <2>1, <2>3 DEF Life!Birth, Life!Alive, Alive
  <2> QED BY <2>4 DEF Life!LifeNext, Proc
<1>6. ASSUME NEW p \in Proc, NEW c \in User, Reap(p, c) PROVE Life!LifeNext
  <2>1. /\ Alive(p) /\ status[c] = "dead" /\ status' = [status EXCEPT ![c] = "none"]
        /\ Contains(Kids(p), c) /\ parent' = parent
    BY <1>6 DEF Reap, remove_links
  <2>2. father[c] = p
    <3>1. \E i \in DOMAIN K[p] : K[p][i] = c
      <4>1. Kids(p) = K[p] /\ Separate(K)
        BY <1>3, WalksAre DEF Lists, Chained
      <4> QED BY <2>1, <4>1, ListIs DEF Contains
    <3>2. parent[c] = p
      BY <1>3, <3>1, InList
    <3> QED BY <1>2, <2>1, <3>2
  <2>3. \A d \in User : after[d] = IF d = c THEN initproc ELSE father[d]
    BY <1>2, <1>4, <2>1
  <2>4. after = [father EXCEPT ![c] = initproc]
    BY <1>4, <2>3
  <2>5. Life!Burial(c)
    BY <1>1, <2>1, <2>2, <2>4 DEF Life!Burial, Life!Alive, Alive
  <2> QED BY <2>5 DEF Life!LifeNext
<1>7. ASSUME NEW p \in User, Exit(p) PROVE Life!LifeNext
  <2>1. status[p] = "alive" /\ status' = [status EXCEPT ![p] = "dead"]
    BY <1>7 DEF Exit
  <2>2. \A c \in Proc : parent'[c] = IF \E i \in DOMAIN K[p] : K[p][i] = c
                                     THEN initproc ELSE parent[c]
    BY <1>3, <1>7, ExitLists
  <2>3. ASSUME NEW c \in User
        PROVE  after[c] = IF father[c] = p THEN initproc ELSE father[c]
    <3>1. (\E i \in DOMAIN K[p] : K[p][i] = c) <=> status[c] # "none" /\ parent[c] = p
      BY <1>3, Consts, InList
    <3>2. status'[c] = "none" <=> status[c] = "none"
      BY <1>4, <2>1
    <3>3. p # initproc /\ c \in Proc
      BY Consts
    <3> QED BY <1>2, <2>2, <3>1, <3>2, <3>3
  <2>4. after = [c \in User |-> IF father[c] = p THEN initproc ELSE father[c]]
    BY <1>4, <2>3
  <2>5. Life!Death(p)
    BY <1>1, <2>1, <2>4 DEF Life!Death
  <2> QED BY <2>5 DEF Life!LifeNext
<1>8. CASE UNCHANGED vars
  <2>1. status' = status /\ parent' = parent
    BY <1>8 DEF vars, familyVars
  <2>2. \A c \in User : after[c] = father[c]
    BY <1>2, <2>1
  <2>3. after = father
    BY <1>4, <2>2
  <2> QED BY <1>1, <2>1, <2>3 DEF Life!lifeVars
<1> QED BY <1>5, <1>6, <1>7, <1>8 DEF Next

(* The links implement the life cycle that fork, exit and wait promise: the *)
(* walks find a child for its parent while that lives, for initproc after.  *)
THEOREM LifecycleKept == Spec => ImplementsLifecycle
<1>1. Init => Life!LifeInit
  <2>1. ASSUME Init PROVE Life!LifeInit
    <3>1. \A c \in User : status[c] = "none"
      BY <2>1 DEF Init, FamilyInit
    <3>2. \A c \in User : FoundBy(c) = initproc
      BY <3>1 DEF FoundBy
    <3> QED BY <2>1, <3>2 DEF Init, FamilyInit, Life!LifeInit
  <2> QED BY <2>1
<1>2. FamilyInv => FathersAre
  BY FoundByParent
<1>3. FamilyInv /\ FathersAre /\ FathersAre' /\ [Next]_vars => [Life!LifeNext]_(Life!lifeVars)
  BY LifeStep
<1> QED BY <1>1, <1>2, <1>3, FamilyInvariant, PTL DEF Spec, ImplementsLifecycle, Life!LifeSpec

-----------------------------------------------------------------------------
(* The stride scheduler.                                                    *)

Child(m, p, c) == p \in Task /\ c \in Task /\ (m.left[p] = c \/ m.right[p] = c)

(* Every node in Q is in one place of the trees of m: it is one of the three  *)
(* roots, or a child, on one side, of the node that it calls its parent.     *)
Placed(m, Q) ==
    /\ m \in Merging /\ Q \subseteq Task
    /\ {m.a, m.b, m.top} \subseteq Q \cup {Nil}
    /\ \A p \in Task : m.left[p] \in Q \cup {Nil} /\ m.right[p] \in Q \cup {Nil}
    /\ \A p \in Task \ Q : m.left[p] = Nil /\ m.right[p] = Nil
    /\ \A p, c \in Task : Child(m, p, c) => /\ m.parent[c] = p
                                            /\ c \notin {m.a, m.b, m.top}
    /\ \A p \in Task : m.left[p] = m.right[p] => m.left[p] = Nil
    /\ m.a = m.b => m.a = Nil
    /\ m.top \in {m.a, m.b} => m.top = Nil
    /\ \A q \in Q : q \in {m.a, m.b, m.top} \/ Child(m, m.parent[q], q)

\* No nodes go round in a circle.
Acyclic(m, Q) ==
    \A S \in SUBSET Q : S # {} => \E q \in S : \A p \in S : ~ Child(m, p, q)

Forest(m, Q) == Placed(m, Q) /\ Acyclic(m, Q)

\* A way up from q leads to top.
Climbs(m, Q, q) ==
    \A S \in SUBSET Q :
        q \in S /\ (\A c \in S, p \in Task : Child(m, p, c) => p \in S) => m.top \in S

\* The comparison lets p stay above c.
Above(p, c, s) == Before(p, c, s) \/ ~ Before(c, p, s)

Ordered(m, s) == \A p, c \in Task : Child(m, p, c) => Above(p, c, s)

\* Where the next node goes, and that it may go there.  P is what the root
\* may have for a parent.
Opened(m, Q, s, P) ==
    IF m.at = Nil
    THEN m.top = Nil /\ \A r \in {m.a, m.b} \ {Nil} : m.parent[r] \in P
    ELSE /\ m.at \in Q /\ m.top # Nil /\ m.left[m.at] = Nil
         /\ m.parent[m.top] \in P
         /\ Climbs(m, Q, m.at)
         /\ m.a # Nil \/ m.b # Nil
         /\ \A r \in {m.a, m.b} \ {Nil} : Above(m.at, r, s)

\* After n rounds a merge has n nodes on the way down to at, or has ended.
Spent(m, Q, n) ==
    \/ m.a = Nil \/ m.b = Nil
    \/ \E D \in SUBSET Q :
        /\ IsFiniteSet(D) /\ Cardinality(D) = n
        /\ m.a \notin D /\ m.b \notin D
        /\ IF m.at = Nil THEN D = {} ELSE m.at \in D
        /\ \A q \in D : q = m.top \/ \E p \in D : m.left[p] = q

Swapped(m) == [left |-> m.left, right |-> m.right, parent |-> m.parent,
               a |-> m.b, b |-> m.a, at |-> m.at, top |-> m.top]

LEMMA TaskFacts ==
  Nil \notin Task /\ IsFiniteSet(Task) /\ idle \notin Task
BY StrideAssumption

LEMMA SwapFields ==
  ASSUME NEW m \in Merging, NEW w, w = Swapped(m)
  PROVE  /\ w \in Merging /\ w.left = m.left /\ w.right = m.right /\ w.parent = m.parent
         /\ w.a = m.b /\ w.b = m.a /\ w.at = m.at /\ w.top = m.top
BY DEF Swapped, Merging

LEMMA SwapForest ==
  ASSUME NEW m, NEW Q, NEW w, w = Swapped(m), Forest(m, Q)
  PROVE  Forest(w, Q)
<1>1. /\ w \in Merging /\ w.left = m.left /\ w.right = m.right /\ w.parent = m.parent
      /\ w.a = m.b /\ w.b = m.a /\ w.at = m.at /\ w.top = m.top
  BY SwapFields DEF Forest, Placed
<1>2. \A p, c : Child(w, p, c) <=> Child(m, p, c)
  BY <1>1 DEF Child
<1>3. Placed(w, Q)
  BY <1>1, <1>2 DEF Forest, Placed
<1>4. Acyclic(w, Q)
  BY <1>2 DEF Forest, Acyclic
<1> QED BY <1>3, <1>4 DEF Forest

LEMMA SwapOpened ==
  ASSUME NEW m \in Merging, NEW Q, NEW s, NEW P, NEW w, w = Swapped(m), Opened(m, Q, s, P)
  PROVE  Opened(w, Q, s, P)
<1>1. /\ w \in Merging /\ w.left = m.left /\ w.right = m.right /\ w.parent = m.parent
      /\ w.a = m.b /\ w.b = m.a /\ w.at = m.at /\ w.top = m.top
  BY SwapFields
<1>2. \A p, c : Child(w, p, c) <=> Child(m, p, c)
  BY <1>1 DEF Child
<1>3. Climbs(m, Q, m.at) => Climbs(w, Q, w.at)
  BY <1>1, <1>2 DEF Climbs
<1> QED BY <1>1, <1>3 DEF Opened

LEMMA SwapOrdered ==
  ASSUME NEW m \in Merging, NEW s, NEW w, w = Swapped(m), Ordered(m, s)
  PROVE  Ordered(w, s)
<1>1. w.left = m.left /\ w.right = m.right
  BY SwapFields
<1> QED BY <1>1 DEF Ordered, Child

-----------------------------------------------------------------------------
(* One round of a merge.                                                    *)

\* The way up from the open node does not start at a root that still waits.
LEMMA AtIsNoRoot ==
  ASSUME NEW m, NEW Q, NEW s, NEW P, Forest(m, Q), Opened(m, Q, s, P), m.at # Nil
  PROVE  m.at # m.a /\ m.at # m.b
<1>1. /\ m.at \in Q /\ m.top # Nil /\ Climbs(m, Q, m.at) /\ Q \subseteq Task
  BY DEF Opened, Forest, Placed
<1>2. SUFFICES ASSUME m.at \in {m.a, m.b} PROVE FALSE
  OBVIOUS
<1>3. \A p \in Task : ~ Child(m, p, m.at)
  BY <1>1, <1>2 DEF Forest, Placed
<1>4. {m.at} \in SUBSET Q /\ \A c \in {m.at}, p \in Task : Child(m, p, c) => p \in {m.at}
  BY <1>1, <1>3
<1>5. m.top = m.at
  BY <1>1, <1>4 DEF Climbs
<1>6. m.top = Nil
  BY <1>2, <1>5 DEF Forest, Placed
<1> QED BY <1>1, <1>6

\* What Return does with the root a.
LEMMA ReturnFields ==
  ASSUME NEW m \in Merging, NEW t, t = [Return(m, m.a) EXCEPT !.a = Nil], m.a # Nil
  PROVE  /\ t \in Merging /\ t.right = m.right /\ t.a = Nil /\ t.b = m.b /\ t.at = m.at
         /\ m.at = Nil => t.left = m.left /\ t.parent = m.parent /\ t.top = m.a
         /\ m.at # Nil => /\ t.left = [m.left EXCEPT ![m.at] = m.a]
                          /\ t.parent = [m.parent EXCEPT ![m.a] = m.at]
                          /\ t.top = m.top
<1>1. m.a \in Task /\ Nil \in Pointer
  BY DEF Merging, Pointer
<1>2. CASE m.at = Nil
  <2>1. t = [m EXCEPT !.top = m.a, !.a = Nil]
    BY <1>2 DEF Return, Merging
  <2> QED BY <1>1, <1>2, <2>1 DEF Merging, Pointer
<1>3. CASE m.at # Nil
  <2>1. t = [m EXCEPT !.left[m.at] = m.a, !.parent[m.a] = m.at, !.a = Nil]
    BY <1>3 DEF Return, Merging
  <2>2. /\ [m.left EXCEPT ![m.at] = m.a] \in Pointers
        /\ [m.parent EXCEPT ![m.a] = m.at] \in Pointers
    BY <1>1, <1>3 DEF Merging, Pointers, Pointer
  <2> QED BY <1>1, <1>3, <2>1, <2>2 DEF Merging, Pointer
<1> QED BY <1>2, <1>3

LEMMA ReturnChildren ==
  ASSUME NEW m, NEW Q, NEW s, NEW P, Forest(m, Q), Opened(m, Q, s, P), m.a # Nil,
         NEW t, t = [Return(m, m.a) EXCEPT !.a = Nil]
  PROVE  /\ \A p, c : Child(t, p, c) <=> Child(m, p, c) \/ (m.at # Nil /\ p = m.at /\ c = m.a)
         /\ \A p \in Task : ~ Child(m, p, m.a)
<1>1. /\ m \in Merging /\ m.a \in Task
      /\ \A p \in Task : ~ Child(m, p, m.a)
  BY DEF Forest, Placed, Merging, Pointer
<1>2. CASE m.at = Nil
  <2>1. t.left = m.left /\ t.right = m.right
    BY <1>1, <1>2, ReturnFields
  <2> QED BY <1>1, <1>2, <2>1 DEF Child
<1>3. CASE m.at # Nil
  <2>1. t.left = [m.left EXCEPT ![m.at] = m.a] /\ t.right = m.right
    BY <1>1, <1>3, ReturnFields
  <2>2. m.at \in Task /\ m.left[m.at] = Nil /\ m.left \in Pointers
    BY <1>3 DEF Opened, Forest, Placed, Merging
  <2>3. \A p \in Task : t.left[p] = IF p = m.at THEN m.a ELSE m.left[p]
    BY <2>1, <2>2 DEF Pointers
  <2> QED BY <1>1, <1>3, <2>1, <2>2, <2>3, TaskFacts DEF Child
<1> QED BY <1>2, <1>3

LEMMA ReturnPlaced ==
  ASSUME NEW m, NEW Q, NEW s, NEW P, Forest(m, Q), Opened(m, Q, s, P), m.a # Nil,
         NEW t, t = [Return(m, m.a) EXCEPT !.a = Nil]
  PROVE  Placed(t, Q)
<1>1. m \in Merging /\ m.a \in Q /\ Q \subseteq Task /\ m.a \in Task
  BY DEF Forest, Placed, Merging, Pointer
<1>2. /\ t \in Merging /\ t.right = m.right /\ t.a = Nil /\ t.b = m.b /\ t.at = m.at
      /\ m.at = Nil => t.left = m.left /\ t.parent = m.parent /\ t.top = m.a
      /\ m.at # Nil => /\ t.left = [m.left EXCEPT ![m.at] = m.a]
                       /\ t.parent = [m.parent EXCEPT ![m.a] = m.at]
                       /\ t.top = m.top
  BY <1>1, ReturnFields
<1>3. /\ \A p, c : Child(t, p, c) <=> Child(m, p, c) \/ (m.at # Nil /\ p = m.at /\ c = m.a)
      /\ \A p \in Task : ~ Child(m, p, m.a)
  BY ReturnChildren
<1>4. CASE m.at = Nil
  <2>1. m.top = Nil
    BY <1>4 DEF Opened
  <2> QED BY <1>1, <1>2, <1>3, <1>4, <2>1 DEF Forest, Placed
<1>5. CASE m.at # Nil
  <2>1. m.at \in Q /\ m.at \in Task /\ m.left[m.at] = Nil /\ m.left \in Pointers /\ m.parent \in Pointers
    BY <1>1, <1>5 DEF Opened, Merging
  <2>2. /\ \A p \in Task : t.left[p] = IF p = m.at THEN m.a ELSE m.left[p]
        /\ \A c \in Task : t.parent[c] = IF c = m.a THEN m.at ELSE m.parent[c]
    BY <1>1, <1>2, <1>5, <2>1 DEF Pointers
  <2>3. {t.a, t.b, t.top} \subseteq Q \cup {Nil}
    BY <1>2, <1>5 DEF Forest, Placed
  <2>4. \A p \in Task : t.left[p] \in Q \cup {Nil} /\ t.right[p] \in Q \cup {Nil}
    BY <1>1, <1>2, <2>2 DEF Forest, Placed
  <2>5. \A p \in Task \ Q : t.left[p] = Nil /\ t.right[p] = Nil
    BY <1>2, <2>1, <2>2 DEF Forest, Placed
  <2>6. ASSUME NEW p \in Task, NEW c \in Task, Child(t, p, c)
        PROVE  t.parent[c] = p /\ c \notin {t.a, t.b, t.top}
    <3>1. CASE Child(m, p, c)
      <4>1. c # m.a
        BY <1>3, <3>1
      <4> QED BY <1>2, <1>5, <2>2, <3>1, <4>1, TaskFacts DEF Forest, Placed
    <3>2. CASE p = m.at /\ c = m.a
      <4>1. m.a # m.b /\ m.a # m.top
        BY <1>1, TaskFacts DEF Forest, Placed
      <4> QED BY <1>1, <1>2, <1>5, <2>2, <3>2, <4>1, TaskFacts
    <3> QED BY <1>3, <2>6, <3>1, <3>2
  <2>7. \A p \in Task : t.left[p] = t.right[p] => t.left[p] = Nil
    <3>1. m.right[m.at] # m.a
      BY <1>1, <1>3, <2>1 DEF Child
    <3> QED BY <1>2, <2>2, <3>1 DEF Forest, Placed
  <2>8. /\ t.a = t.b => t.a = Nil
        /\ t.top \in {t.a, t.b} => t.top = Nil
    BY <1>2, <1>5 DEF Forest, Placed
  <2>9. ASSUME NEW q \in Q PROVE q \in {t.a, t.b, t.top} \/ Child(t, t.parent[q], q)
    <3>1. CASE q = m.a
      BY <1>1, <1>3, <1>5, <2>2, <3>1
    <3>2. CASE q # m.a
      <4>1. t.parent[q] = m.parent[q]
        BY <1>1, <2>2, <3>2
      <4>2. q \in {m.b, m.top} \/ Child(m, m.parent[q], q)
        BY <3>2 DEF Forest, Placed
      <4> QED BY <1>2, <1>3, <1>5, <4>1, <4>2
    <3> QED BY <3>1, <3>2
  <2> QED BY <1>1, <1>2, <2>3, <2>4, <2>5, <2>6, <2>7, <2>8, <2>9 DEF Placed
<1> QED BY <1>4, <1>5

\* A node that is put below at makes no circle, for the way up from at ends at top.
LEMMA ReturnKeeps ==
  ASSUME NEW m, NEW Q, NEW s, NEW P, Forest(m, Q), Ordered(m, s), Opened(m, Q, s, P),
         m.a # Nil, NEW t, t = [Return(m, m.a) EXCEPT !.a = Nil]
  PROVE  /\ Forest(t, Q) /\ Ordered(t, s) /\ Climbs(t, Q, m.a)
         /\ t.top # Nil /\ t.parent[t.top] \in P
<1>1. m \in Merging /\ m.a \in Q /\ Q \subseteq Task /\ m.a \in Task
  BY DEF Forest, Placed, Merging, Pointer
<1>2. /\ t.a = Nil /\ t.b = m.b /\ t.at = m.at
      /\ m.at = Nil => t.left = m.left /\ t.parent = m.parent /\ t.top = m.a
      /\ m.at # Nil => /\ t.parent = [m.parent EXCEPT ![m.a] = m.at]
                       /\ t.top = m.top
  BY <1>1, ReturnFields
<1>3. /\ \A p, c : Child(t, p, c) <=> Child(m, p, c) \/ (m.at # Nil /\ p = m.at /\ c = m.a)
      /\ \A p \in Task : ~ Child(m, p, m.a)
  BY ReturnChildren
<1>4. Placed(t, Q)
  BY ReturnPlaced
<1>5. Climbs(t, Q, m.a)
  <2>1. SUFFICES ASSUME NEW S \in SUBSET Q, m.a \in S,
                        \A c \in S, p \in Task : Child(t, p, c) => p \in S
                 PROVE  t.top \in S
    BY DEF Climbs
  <2>2. CASE m.at = Nil
    BY <1>2, <2>1, <2>2
  <2>3. CASE m.at # Nil
    <3>1. m.at \in Task /\ Climbs(m, Q, m.at)
      BY <1>1, <2>3 DEF Opened
    <3>2. m.at \in S
      BY <1>3, <2>1, <2>3, <3>1
    <3>3. \A c \in S, p \in Task : Child(m, p, c) => p \in S
      BY <1>3, <2>1
    <3> QED BY <1>2, <2>3, <3>1, <3>2, <3>3 DEF Climbs
  <2> QED BY <2>2, <2>3
<1>6. Acyclic(t, Q)
  <2>1. SUFFICES ASSUME NEW S \in SUBSET Q, S # {},
                        \A q \in S : \E p \in S : Child(t, p, q)
                 PROVE  FALSE
    BY DEF Acyclic
  <2>2. CASE m.a \notin S
    <3>1. \A q \in S : \E p \in S : Child(m, p, q)
      BY <1>3, <2>1, <2>2
    <3> QED BY <2>1, <3>1 DEF Forest, Acyclic
  <2>3. CASE m.a \in S
    <3>1. ASSUME NEW c \in S, NEW p \in Task, Child(t, p, c) PROVE p \in S
      <4>1. PICK r \in S : Child(t, r, c)
        BY <2>1
      <4>2. r \in Task /\ c \in Task
        BY <1>1, <4>1
      <4>3. t.parent[c] = p /\ t.parent[c] = r
        BY <1>4, <3>1, <4>1, <4>2 DEF Placed
      <4> QED BY <4>3
    <3>2. t.top \in S
      BY <1>5, <2>3, <3>1 DEF Climbs
    <3>3. PICK p \in S : Child(t, p, t.top)
      BY <2>1, <3>2
    <3>4. p \in Task /\ t.top \in Task
      BY <1>1, <3>2, <3>3
    <3> QED BY <1>4, <3>3, <3>4 DEF Placed
  <2> QED BY <2>2, <2>3
<1>7. Ordered(t, s)
  <2>1. m.at # Nil => Above(m.at, m.a, s)
    BY <1>1, TaskFacts DEF Opened
  <2> QED BY <1>3, <2>1 DEF Ordered
<1>8. t.top # Nil /\ t.parent[t.top] \in P
  <2>1. CASE m.at = Nil
    BY <1>1, <1>2, <2>1, TaskFacts DEF Opened
  <2>2. CASE m.at # Nil
    <3>1. m.top # Nil /\ m.parent[m.top] \in P /\ m.parent \in Pointers /\ m.top \in Task
      BY <1>1, <2>2 DEF Opened, Merging, Pointer
    <3>2. m.top # m.a
      BY <3>1 DEF Forest, Placed
    <3>3. t.parent[m.top] = m.parent[m.top]
      BY <1>2, <2>2, <3>1, <3>2 DEF Pointers
    <3> QED BY <1>2, <2>2, <3>1, <3>3
  <2> QED BY <2>1, <2>2
<1> QED BY <1>4, <1>5, <1>6, <1>7, <1>8 DEF Forest

\* The node n, which has its place, gives up the subtree on its right, and has
\* the one on its left there instead.
Turned(t, n) ==
    [t EXCEPT !.at = n, !.right[n] = t.left[n], !.left[n] = Nil, !.a = t.right[n]]

Turns(t, Q, s, P, n) ==
    /\ n \in Q /\ Forest(t, Q) /\ Ordered(t, s) /\ Climbs(t, Q, n)
    /\ t.a = Nil /\ t.top # Nil /\ t.parent[t.top] \in P
    /\ t.b # Nil /\ Above(n, t.b, s)

LEMMA TurnKeeps ==
  ASSUME NEW t, NEW Q, NEW s, NEW P, NEW n, Turns(t, Q, s, P, n), NEW u, u = Turned(t, n)
  PROVE  /\ Forest(u, Q) /\ Ordered(u, s) /\ Opened(u, Q, s, P)
         /\ \A p \in Task : u.left[p] = IF p = n THEN Nil ELSE t.left[p]
         /\ u.top = t.top /\ u.b = t.b /\ u.a = t.right[n] /\ u.at = n
<1> USE DEF Turns
<1>1. /\ t \in Merging /\ n \in Task /\ Q \subseteq Task /\ Nil \in Pointer
      /\ t.left \in Pointers /\ t.right \in Pointers
      /\ t.left[n] \in Pointer /\ t.right[n] \in Pointer
  BY DEF Forest, Placed, Merging, Pointer, Pointers
<1>2. /\ u \in Merging /\ u.parent = t.parent /\ u.a = t.right[n] /\ u.b = t.b
      /\ u.at = n /\ u.top = t.top
      /\ u.left = [t.left EXCEPT ![n] = Nil] /\ u.right = [t.right EXCEPT ![n] = t.left[n]]
  <2>1. [t.left EXCEPT ![n] = Nil] \in Pointers /\ [t.right EXCEPT ![n] = t.left[n]] \in Pointers
    BY <1>1 DEF Pointers
  <2> QED BY <1>1, <2>1 DEF Turned, Merging, Pointer
<1>3. /\ \A p \in Task : u.left[p] = IF p = n THEN Nil ELSE t.left[p]
      /\ \A p \in Task : u.right[p] = IF p = n THEN t.left[n] ELSE t.right[p]
  BY <1>1, <1>2 DEF Pointers
<1>4. \A p, c : Child(u, p, c) => Child(t, p, c)
  BY <1>3, TaskFacts DEF Child
<1>5. \A p, c : Child(t, p, c) => Child(u, p, c) \/ (p = n /\ c = t.right[n])
  BY <1>3, TaskFacts DEF Child
<1>6. Placed(u, Q)
  <2>1. {u.a, u.b, u.top} \subseteq Q \cup {Nil}
    BY <1>1, <1>2 DEF Forest, Placed
  <2>2. \A p \in Task : u.left[p] \in Q \cup {Nil} /\ u.right[p] \in Q \cup {Nil}
    BY <1>1, <1>3 DEF Forest, Placed
  <2>3. \A p \in Task \ Q : u.left[p] = Nil /\ u.right[p] = Nil
    BY <1>3 DEF Forest, Placed
  <2>4. ASSUME NEW p \in Task, NEW c \in Task, Child(u, p, c)
        PROVE  u.parent[c] = p /\ c \notin {u.a, u.b, u.top}
    <3>1. t.parent[c] = p /\ c \notin {t.b, t.top}
      BY <1>4, <2>4 DEF Forest, Placed
    <3>2. c # t.right[n]
      <4>1. SUFFICES ASSUME c = t.right[n] PROVE FALSE
        OBVIOUS
      <4>2. Child(t, n, c)
        BY <1>1, <4>1 DEF Child
      <4>3. p = n
        BY <1>1, <3>1, <4>2 DEF Forest, Placed
      <4>4. c = t.left[n]
        BY <1>3, <2>4, <4>3, TaskFacts DEF Child
      <4> QED BY <1>1, <4>1, <4>4, TaskFacts DEF Forest, Placed
    <3> QED BY <1>2, <3>1, <3>2
  <2>5. \A p \in Task : u.left[p] = u.right[p] => u.left[p] = Nil
    BY <1>3 DEF Forest, Placed
  <2>6. u.a # Nil => u.a # u.b /\ u.a # u.top
    <3>1. SUFFICES ASSUME u.a # Nil PROVE u.a # u.b /\ u.a # u.top
      OBVIOUS
    <3>2. Child(t, n, u.a)
      BY <1>1, <1>2, <3>1 DEF Child, Pointer
    <3>3. u.a \in Task
      BY <1>1, <1>2, <3>1 DEF Pointer
    <3> QED BY <1>1, <1>2, <3>2, <3>3 DEF Forest, Placed
  <2>7. /\ u.a = u.b => u.a = Nil
        /\ u.top \in {u.a, u.b} => u.top = Nil
    BY <1>2, <2>6 DEF Forest, Placed
  <2>8. ASSUME NEW q \in Q PROVE q \in {u.a, u.b, u.top} \/ Child(u, u.parent[q], q)
    <3>1. q \in {t.b, t.top} \/ Child(t, t.parent[q], q)
      BY <1>1, TaskFacts DEF Forest, Placed
    <3> QED BY <1>2, <1>5, <3>1
  <2> QED BY <1>1, <1>2, <2>1, <2>2, <2>3, <2>4, <2>5, <2>7, <2>8 DEF Placed
<1>7. Acyclic(u, Q)
  BY <1>4 DEF Forest, Acyclic
<1>8. Ordered(u, s)
  BY <1>4 DEF Ordered
<1>9. Climbs(u, Q, n)
  <2>1. SUFFICES ASSUME NEW S \in SUBSET Q, n \in S,
                        \A c \in S, p \in Task : Child(u, p, c) => p \in S
                 PROVE  u.top \in S
    BY DEF Climbs
  <2>2. \A c \in S, p \in Task : Child(t, p, c) => p \in S
    BY <1>5, <2>1
  <2> QED BY <1>2, <2>1, <2>2 DEF Climbs
<1>10. Opened(u, Q, s, P)
  <2>1. n # Nil /\ u.left[n] = Nil
    BY <1>1, <1>3, TaskFacts
  <2>2. ASSUME NEW r \in {u.a, u.b} \ {Nil} PROVE Above(n, r, s)
    <3>1. CASE r = u.a
      <4>1. Child(t, n, r) /\ r \in Task
        BY <1>1, <1>2, <2>2, <3>1 DEF Child, Pointer
      <4> QED BY <1>1, <4>1 DEF Ordered
    <3>2. CASE r = u.b
      BY <1>2, <3>2
    <3> QED BY <3>1, <3>2
  <2> QED BY <1>2, <1>9, <2>1, <2>2 DEF Opened
<1> QED BY <1>2, <1>3, <1>6, <1>7, <1>8, <1>10 DEF Forest

\* A round in which the root a wins.
AWins(m) == [Wins(m, m.a) EXCEPT !.a = m.right[m.a]]

LEMMA RoundA ==
  ASSUME NEW m, NEW Q, NEW s, NEW P, Forest(m, Q), Ordered(m, s), Opened(m, Q, s, P),
         m.a # Nil, m.b # Nil, Above(m.a, m.b, s), NEW k \in Nat, Spent(m, Q, k), NEW u,
         u = AWins(m)
  PROVE  Forest(u, Q) /\ Ordered(u, s) /\ Opened(u, Q, s, P) /\ Spent(u, Q, k + 1)
<1> DEFINE n == m.a
<1>1. PICK t : t = [Return(m, m.a) EXCEPT !.a = Nil]
  OBVIOUS
<1>2. /\ m \in Merging /\ n \in Q /\ Q \subseteq Task /\ n \in Task /\ n # Nil
  BY TaskFacts DEF Forest, Placed, Merging, Pointer
<1>3. /\ t \in Merging /\ t.right = m.right /\ t.a = Nil /\ t.b = m.b /\ t.at = m.at
      /\ m.at = Nil => t.left = m.left /\ t.parent = m.parent /\ t.top = n
      /\ m.at # Nil => /\ t.left = [m.left EXCEPT ![m.at] = n]
                       /\ t.parent = [m.parent EXCEPT ![n] = m.at]
                       /\ t.top = m.top
  BY <1>1, <1>2, ReturnFields
<1>4. /\ Forest(t, Q) /\ Ordered(t, s) /\ Climbs(t, Q, n)
      /\ t.top # Nil /\ t.parent[t.top] \in P
  BY <1>1, ReturnKeeps
<1>5. t.left[n] = m.left[n]
  <2>1. m.at # Nil => m.at # n
    BY AtIsNoRoot
  <2> QED BY <1>2, <1>3, <2>1 DEF Merging, Pointers
<1>6. u = Turned(t, n)
  <2>2. PICK r : r = Return(m, m.a)
    OBVIOUS
  <2>3. r \in Merging
    BY <1>2, <2>2 DEF Return, Merging, Pointers, Pointer
  <2>4. r.left = t.left /\ r.right = t.right
    BY <1>1, <2>2, <2>3 DEF Merging
  <2> QED BY <1>1, <1>3, <1>5, <2>2, <2>3, <2>4 DEF Merging, AWins, Wins, Turned
<1>7. /\ Forest(u, Q) /\ Ordered(u, s) /\ Opened(u, Q, s, P)
      /\ \A p \in Task : u.left[p] = IF p = n THEN Nil ELSE t.left[p]
      /\ u.top = t.top /\ u.b = t.b /\ u.a = t.right[n] /\ u.at = n
  <2>1. Above(n, t.b, s) /\ t.b # Nil
    BY <1>3
  <2>2. t.a = Nil /\ t.b = m.b /\ n \in Q
    BY <1>2, <1>3
  <2>3. Turns(t, Q, s, P, n)
    BY <1>4, <2>1, <2>2 DEF Turns
  <2> QED BY <1>6, <2>3, TurnKeeps
<1>8. Spent(u, Q, k + 1)
  <2>1. SUFFICES ASSUME u.a # Nil PROVE Spent(u, Q, k + 1)
    BY DEF Spent
  <2>2. PICK D \in SUBSET Q :
          /\ IsFiniteSet(D) /\ Cardinality(D) = k
          /\ m.a \notin D /\ m.b \notin D
          /\ IF m.at = Nil THEN D = {} ELSE m.at \in D
          /\ \A q \in D : q = m.top \/ \E p \in D : m.left[p] = q
    BY DEF Spent
  <2> DEFINE E == D \cup {n}
  <2>3. E \in SUBSET Q /\ IsFiniteSet(E) /\ Cardinality(E) = k + 1
    BY <1>2, <2>2, FS_AddElement
  <2>4. n # m.b /\ u.b \notin E
    BY <1>2, <1>3, <1>7, <2>2 DEF Forest, Placed
  <2>5. Child(m, n, u.a) /\ u.a \in Task
    BY <1>2, <1>3, <1>7, <2>1 DEF Child, Merging, Pointers, Pointer
  <2>6. u.a # n /\ u.a # m.top /\ m.parent[u.a] = n
    BY <1>2, <2>5 DEF Forest, Placed
  <2>7. u.a \notin D
    <3>1. SUFFICES ASSUME u.a \in D PROVE FALSE
      OBVIOUS
    <3>2. PICK p \in D : m.left[p] = u.a
      BY <2>2, <2>6, <3>1
    <3>3. Child(m, p, u.a) /\ p \in Task
      BY <1>2, <2>2, <2>5, <3>2 DEF Child
    <3>4. p = n
      BY <2>5, <2>6, <3>3 DEF Forest, Placed
    <3> QED BY <2>2, <3>2, <3>4
  <2>8. u.at # Nil /\ u.at \in E
    BY <1>2, <1>7
  <2>9. ASSUME NEW q \in E PROVE q = u.top \/ \E p \in E : u.left[p] = q
    <3>1. CASE m.at = Nil
      BY <1>3, <1>7, <2>2, <3>1
    <3>2. CASE m.at # Nil
      <4>1. m.at \in D /\ m.at # n /\ m.left[m.at] = Nil
        BY <2>2, <3>2, AtIsNoRoot DEF Opened
      <4>2. \A p \in Task : u.left[p] = IF p = n THEN Nil ELSE IF p = m.at THEN n ELSE m.left[p]
        BY <1>2, <1>3, <1>7, <3>2 DEF Merging, Pointers
      <4>3. CASE q = n
        BY <1>2, <2>2, <4>1, <4>2, <4>3
      <4>4. CASE q # n
        <5>1. q \in D /\ q \in Task
          BY <1>2, <2>2, <4>4
        <5>2. CASE q = m.top
          BY <1>3, <1>7, <3>2, <5>2
        <5>3. CASE q # m.top
          <6>1. PICK p \in D : m.left[p] = q
            BY <2>2, <5>1, <5>3
          <6>2. p # n /\ p # m.at /\ p \in Task
            BY <1>2, <2>2, <4>1, <5>1, <6>1, TaskFacts
          <6> QED BY <4>2, <6>1, <6>2
        <5> QED BY <5>2, <5>3
      <4> QED BY <4>3, <4>4
    <3> QED BY <3>1, <3>2
  <2>10. u.a \notin E
    BY <2>6, <2>7
  <2> HIDE DEF E
  <2> QED BY <2>3, <2>4, <2>8, <2>9, <2>10 DEF Spent
<1> QED BY <1>7, <1>8

\* What holds after k rounds.
MergeRounds(m, Q, s, P, k) ==
    Forest(m, Q) /\ Ordered(m, s) /\ Opened(m, Q, s, P) /\ Spent(m, Q, k)

LEMMA SwapSpent ==
  ASSUME NEW m \in Merging, NEW Q, NEW k, Spent(m, Q, k), NEW w, w = Swapped(m)
  PROVE  Spent(w, Q, k)
<1>1. /\ w.left = m.left /\ w.a = m.b /\ w.b = m.a /\ w.at = m.at /\ w.top = m.top
  BY SwapFields
<1> QED BY <1>1 DEF Spent

LEMMA SwapRounds ==
  ASSUME NEW m, NEW Q, NEW s, NEW P, NEW k, MergeRounds(m, Q, s, P, k), NEW w, w = Swapped(m)
  PROVE  MergeRounds(w, Q, s, P, k)
<1>1. m \in Merging
  BY DEF MergeRounds, Forest, Placed
<1> QED BY <1>1, SwapForest, SwapOrdered, SwapOpened, SwapSpent DEF MergeRounds

LEMMA DescendKeeps ==
  ASSUME NEW m, NEW Q, NEW s, NEW P, NEW k \in Nat, MergeRounds(m, Q, s, P, k),
         NEW u, u = Descend(m, s)
  PROVE  u \in Merging /\ MergeRounds(u, Q, s, P, k + 1)
<1>1. m \in Merging
  BY DEF MergeRounds, Forest, Placed
<1>2. CASE m.a = Nil \/ m.b = Nil
  <2>1. u = m
    BY <1>2 DEF Descend
  <2>2. Spent(m, Q, k + 1)
    BY <1>2 DEF Spent
  <2> QED BY <1>1, <2>1, <2>2 DEF MergeRounds
<1>3. CASE m.a # Nil /\ m.b # Nil /\ Before(m.a, m.b, s)
  <2>1. u = AWins(m)
    BY <1>3 DEF Descend, AWins
  <2>2. Above(m.a, m.b, s)
    BY <1>3 DEF Above
  <2>3. MergeRounds(u, Q, s, P, k + 1)
    BY <1>3, <2>1, <2>2, RoundA DEF MergeRounds
  <2> QED BY <2>3 DEF MergeRounds, Forest, Placed
<1>4. CASE m.a # Nil /\ m.b # Nil /\ ~ Before(m.a, m.b, s)
  <2>1. PICK w : w = Swapped(m)
    OBVIOUS
  <2>2. MergeRounds(w, Q, s, P, k)
    BY <2>1, SwapRounds
  <2>3. /\ w \in Merging /\ w.left = m.left /\ w.right = m.right /\ w.parent = m.parent
        /\ w.a = m.b /\ w.b = m.a /\ w.at = m.at /\ w.top = m.top
    BY <1>1, <2>1, SwapFields
  <2>4. Above(w.a, w.b, s)
    BY <1>4, <2>3 DEF Above
  <2>5. PICK v : v = AWins(w)
    OBVIOUS
  <2>6. MergeRounds(v, Q, s, P, k + 1)
    BY <1>4, <2>2, <2>3, <2>4, <2>5, RoundA DEF MergeRounds
  <2>7. u = Swapped(v)
    <3>1. u = [Wins(m, m.b) EXCEPT !.b = m.right[m.b]]
      BY <1>4 DEF Descend
    <3>2. PICK x, y : x = Return(m, m.b) /\ y = Return(w, w.a)
      OBVIOUS
    <3>3. /\ y.left = x.left /\ y.right = x.right /\ y.parent = x.parent
          /\ y.a = x.b /\ y.b = x.a /\ y.at = x.at /\ y.top = x.top
          /\ x \in Merging /\ y \in Merging
      BY <1>1, <2>3, <3>2 DEF Return, Merging, Pointers, Pointer
    <3>4. v = [y EXCEPT !.at = w.a, !.right[w.a] = w.left[w.a], !.left[w.a] = Nil,
                        !.a = w.right[w.a]]
      BY <2>5, <3>2, <3>3 DEF AWins, Wins, Merging
    <3>5. u = [x EXCEPT !.at = m.b, !.right[m.b] = m.left[m.b], !.left[m.b] = Nil,
                        !.b = m.right[m.b]]
      BY <3>1, <3>2, <3>3 DEF Wins, Merging
    <3>6. v = [left |-> [y.left EXCEPT ![w.a] = Nil],
               right |-> [y.right EXCEPT ![w.a] = w.left[w.a]],
               parent |-> y.parent, a |-> w.right[w.a], b |-> y.b, at |-> w.a, top |-> y.top]
      BY <3>3, <3>4 DEF Merging
    <3>7. u = [left |-> [x.left EXCEPT ![m.b] = Nil],
               right |-> [x.right EXCEPT ![m.b] = m.left[m.b]],
               parent |-> x.parent, a |-> x.a, b |-> m.right[m.b], at |-> m.b, top |-> x.top]
      BY <3>3, <3>5 DEF Merging
    <3>8. v \in Merging
      BY <2>6 DEF MergeRounds, Forest, Placed
    <3>9. Swapped(v) = [left |-> v.left, right |-> v.right, parent |-> v.parent,
                        a |-> v.b, b |-> v.a, at |-> v.at, top |-> v.top]
      BY DEF Swapped
    <3>10. /\ v.left = [y.left EXCEPT ![w.a] = Nil]
           /\ v.right = [y.right EXCEPT ![w.a] = w.left[w.a]]
           /\ v.parent = y.parent /\ v.a = w.right[w.a] /\ v.b = y.b /\ v.at = w.a
           /\ v.top = y.top
      BY <3>6
    <3> QED BY <2>3, <3>3, <3>7, <3>9, <3>10
  <2>8. MergeRounds(u, Q, s, P, k + 1)
    BY <2>6, <2>7, SwapRounds
  <2> QED BY <2>8 DEF MergeRounds, Forest, Placed
<1> QED BY <1>2, <1>3, <1>4

\* MergeRounds enough for every merge.
LEMMA AllRounds ==
  ASSUME NEW m, NEW Q, NEW s, NEW P, MergeRounds(m, Q, s, P, Cardinality(Task))
  PROVE  m.a = Nil \/ m.b = Nil
<1>1. SUFFICES ASSUME m.a # Nil, m.b # Nil PROVE FALSE
  OBVIOUS
<1>2. Q \subseteq Task /\ m.a \in Q
  BY <1>1 DEF MergeRounds, Forest, Placed
<1>3. PICK D \in SUBSET Q : Cardinality(D) = Cardinality(Task) /\ m.a \notin D
  BY <1>1 DEF MergeRounds, Spent
<1>4. D \subseteq Task
  BY <1>2, <1>3
<1>5. D = Task
  BY <1>3, <1>4, TaskFacts, FS_Subset
<1> QED BY <1>2, <1>3, <1>5

Bare(h) == [left |-> h.left, right |-> h.right, parent |-> h.parent,
            a |-> Nil, b |-> Nil, at |-> Nil, top |-> h.root]

\* The nodes in Q are a heap whose root may have a parent in P.
Grown(h, Q, s, P) ==
    /\ h \in Heap /\ Forest(Bare(h), Q) /\ Ordered(Bare(h), s)
    /\ h.root # Nil => h.parent[h.root] \in P

LEMMA BareFields ==
  ASSUME NEW h \in Heap, NEW m, m = Bare(h)
  PROVE  /\ m \in Merging /\ m.left = h.left /\ m.right = h.right /\ m.parent = h.parent
         /\ m.a = Nil /\ m.b = Nil /\ m.at = Nil /\ m.top = h.root
BY DEF Bare, Heap, Merging, Pointer

LEMMA SameTrees ==
  ASSUME NEW m, NEW Q, NEW s, Forest(m, Q), Ordered(m, s), NEW w \in Merging,
         w.left = m.left, w.right = m.right, w.parent = m.parent,
         w.top = m.top, w.a = m.a, w.b = m.b
  PROVE  Forest(w, Q) /\ Ordered(w, s)
<1>1. \A p, c : Child(w, p, c) <=> Child(m, p, c)
  BY DEF Child
<1>2. Placed(w, Q)
  BY <1>1 DEF Forest, Placed
<1> QED BY <1>1, <1>2 DEF Forest, Acyclic, Ordered

\* One tree is left, and it is the last to be returned.
LEMMA LastReturn ==
  ASSUME NEW m, NEW Q, NEW s, NEW P, Forest(m, Q), Ordered(m, s), Opened(m, Q, s, P),
         m.a # Nil, m.b = Nil,
         NEW h, h = [root |-> Return(m, m.a).top, left |-> Return(m, m.a).left,
                     right |-> Return(m, m.a).right, parent |-> Return(m, m.a).parent]
  PROVE  Grown(h, Q, s, P)
<1>1. PICK r, t : r = Return(m, m.a) /\ t = [Return(m, m.a) EXCEPT !.a = Nil]
  OBVIOUS
<1>2. m \in Merging
  BY DEF Forest, Placed
<1>3. r \in Merging
  BY <1>1, <1>2 DEF Return, Merging, Pointers, Pointer
<1>4. t.left = r.left /\ t.right = r.right /\ t.parent = r.parent /\ t.top = r.top
  BY <1>1, <1>3 DEF Merging
<1>5. t \in Merging /\ t.a = Nil /\ t.b = Nil
  BY <1>1, <1>2, ReturnFields
<1>6. Forest(t, Q) /\ Ordered(t, s) /\ t.parent[t.top] \in P
  BY <1>1, ReturnKeeps
<1>7. h = [root |-> r.top, left |-> r.left, right |-> r.right, parent |-> r.parent]
  BY <1>1
<1>8. h \in Heap /\ h.left = t.left /\ h.right = t.right /\ h.parent = t.parent /\ h.root = t.top
  BY <1>3, <1>4, <1>7 DEF Heap, Merging
<1>9. PICK w : w = Bare(h)
  OBVIOUS
<1>10. /\ w \in Merging /\ w.left = t.left /\ w.right = t.right /\ w.parent = t.parent
       /\ w.a = t.a /\ w.b = t.b /\ w.top = t.top
  BY <1>5, <1>8, <1>9, BareFields
<1>11. Forest(w, Q) /\ Ordered(w, s)
  BY <1>6, <1>10, SameTrees
<1> QED BY <1>6, <1>8, <1>9, <1>11 DEF Grown

LEMMA MergeEnds ==
  ASSUME NEW m, NEW Q, NEW s, NEW P, MergeRounds(m, Q, s, P, Cardinality(Task)),
         NEW r, r = Return(m, IF m.a = Nil THEN m.b ELSE m.a),
         NEW h, h = [root |-> r.top, left |-> r.left, right |-> r.right, parent |-> r.parent]
  PROVE  Grown(h, Q, s, P)
<1>1. m \in Merging /\ (m.a = Nil \/ m.b = Nil)
  BY AllRounds DEF MergeRounds, Forest, Placed
<1>2. CASE m.a # Nil
  <2>1. m.b = Nil /\ r = Return(m, m.a)
    BY <1>1, <1>2
  <2> QED BY <1>2, <2>1, LastReturn DEF MergeRounds
<1>3. CASE m.a = Nil /\ m.b # Nil
  <2>1. PICK w : w = Swapped(m)
    OBVIOUS
  <2>2. MergeRounds(w, Q, s, P, Cardinality(Task))
    BY <2>1, SwapRounds
  <2>3. /\ w \in Merging /\ w.left = m.left /\ w.right = m.right /\ w.parent = m.parent
        /\ w.a = m.b /\ w.b = m.a /\ w.at = m.at /\ w.top = m.top
    BY <1>1, <2>1, SwapFields
  <2>4. PICK x : x = Return(w, w.a)
    OBVIOUS
  <2>5. x.left = r.left /\ x.right = r.right /\ x.parent = r.parent /\ x.top = r.top
    <3>1. r = Return(m, m.b)
      BY <1>3
    <3>2. x = Return(w, m.b)
      BY <2>3, <2>4
    <3>3. CASE m.at = Nil
      BY <1>1, <2>3, <3>1, <3>2, <3>3 DEF Return, Merging
    <3>4. CASE m.at # Nil
      <4>1. r = [m EXCEPT !.left[m.at] = m.b, !.parent[m.b] = m.at]
        BY <3>1, <3>4 DEF Return
      <4>2. x = [w EXCEPT !.left[m.at] = m.b, !.parent[m.b] = m.at]
        BY <2>3, <3>2, <3>4 DEF Return
      <4>3. /\ r.left = [m.left EXCEPT ![m.at] = m.b]
            /\ r.parent = [m.parent EXCEPT ![m.b] = m.at]
            /\ r.right = m.right /\ r.top = m.top
        BY <1>1, <4>1 DEF Merging
      <4>4. /\ x.left = [w.left EXCEPT ![m.at] = m.b]
            /\ x.parent = [w.parent EXCEPT ![m.b] = m.at]
            /\ x.right = w.right /\ x.top = w.top
        BY <2>3, <4>2 DEF Merging
      <4> QED BY <2>3, <4>3, <4>4
    <3> QED BY <3>3, <3>4
  <2>6. h = [root |-> x.top, left |-> x.left, right |-> x.right, parent |-> x.parent]
    BY <2>5
  <2> QED BY <1>3, <2>2, <2>3, <2>4, <2>6, LastReturn DEF MergeRounds
<1>4. CASE m.a = Nil /\ m.b = Nil
  <2>1. m.at = Nil /\ m.top = Nil
    BY <1>4 DEF MergeRounds, Opened
  <2>2. r = [m EXCEPT !.top = Nil]
    BY <1>4, <2>1 DEF Return
  <2>3. /\ h \in Heap /\ h.root = Nil /\ h.left = m.left /\ h.right = m.right
        /\ h.parent = m.parent
    BY <1>1, <2>2 DEF Heap, Merging, Pointer
  <2>4. PICK w : w = Bare(h)
    OBVIOUS
  <2>5. /\ w \in Merging /\ w.left = m.left /\ w.right = m.right /\ w.parent = m.parent
        /\ w.a = m.a /\ w.b = m.b /\ w.top = m.top
    BY <1>4, <2>1, <2>3, <2>4, BareFields
  <2>6. Forest(w, Q) /\ Ordered(w, s)
    BY <2>5, SameTrees DEF MergeRounds
  <2> QED BY <2>3, <2>4, <2>6 DEF Grown
<1> QED BY <1>2, <1>3, <1>4

\* The call of skew_heap_merge on the trees a and b.
Starts(h, a, b) == [left |-> h.left, right |-> h.right, parent |-> h.parent,
                    a |-> a, b |-> b, at |-> Nil, top |-> Nil]

LEMMA StartsFields ==
  ASSUME NEW h \in Heap, NEW a \in Pointer, NEW b \in Pointer, NEW m, m = Starts(h, a, b)
  PROVE  /\ m \in Merging /\ m.left = h.left /\ m.right = h.right /\ m.parent = h.parent
         /\ m.a = a /\ m.b = b /\ m.at = Nil /\ m.top = Nil
BY DEF Starts, Heap, Merging, Pointer

\* The merge of two heaps is a heap of their nodes.
LEMMA MergeIs ==
  ASSUME NEW h \in Heap, NEW a \in Pointer, NEW b \in Pointer, NEW Q, NEW s, NEW P,
         Forest(Starts(h, a, b), Q), Ordered(Starts(h, a, b), s),
         \A r \in {a, b} \ {Nil} : h.parent[r] \in P,
         NEW new, new = skew_heap_merge(h, a, b, s)
  PROVE  Grown(new, Q, s, P)
<1>1. PICK N : N = Cardinality(Task) /\ N \in Nat
  BY TaskFacts, FS_CardinalityType
<1>2. PICK m : m = Starts(h, a, b)
  OBVIOUS
<1>3. m \in Merging /\ MergeRounds(m, Q, s, P, 0)
  <2>1. /\ m \in Merging /\ m.left = h.left /\ m.right = h.right /\ m.parent = h.parent
        /\ m.a = a /\ m.b = b /\ m.at = Nil /\ m.top = Nil
    BY <1>2, StartsFields
  <2>2. Opened(m, Q, s, P)
    BY <2>1 DEF Opened
  <2>3. Spent(m, Q, 0)
    <3>1. {} \in SUBSET Q /\ IsFiniteSet({}) /\ Cardinality({}) = 0
      BY FS_EmptySet
    <3> QED BY <2>1, <3>1 DEF Spent
  <2> QED BY <1>2, <2>1, <2>2, <2>3 DEF MergeRounds
<1> DEFINE P1 == [j \in 0 .. N |-> {r \in Merging : MergeRounds(r, Q, s, P, j)}]
           step == [y \in Merging \X (0 .. N - 1) |-> Descend(y[1], s)]
           call == [r \in Merging |-> Descend(r, s)]
           ends == [r \in Merging |-> Return(r, IF r.a = Nil THEN r.b ELSE r.a)]
<1>4. ASSUME NEW j \in 0 .. N - 1, NEW r \in P1[j]
      PROVE  step[<<r, j>>] = call[r] /\ step[<<r, j>>] \in P1[j + 1]
  <2>1. j \in 0 .. N /\ j + 1 \in 0 .. N /\ j \in Nat
    BY <1>1
  <2>2. r \in Merging /\ MergeRounds(r, Q, s, P, j)
    BY <2>1
  <2>3. PICK t : t = Descend(r, s)
    OBVIOUS
  <2>4. step[<<r, j>>] = t /\ call[r] = t
    BY <2>2, <2>3
  <2>5. t \in Merging /\ MergeRounds(t, Q, s, P, j + 1)
    BY <2>1, <2>2, <2>3, DescendKeeps
  <2>6. t \in P1[j + 1]
    BY <2>1, <2>5
  <2> QED BY <2>4, <2>6
<1>5. m \in P1[0]
  BY <1>1, <1>3
<1>6. \A r : r \in P1[N] => r \in Merging /\ MergeRounds(r, Q, s, P, N)
  BY <1>1
<1>7. \A r \in Merging : ends[r] = Return(r, IF r.a = Nil THEN r.b ELSE r.a)
  OBVIOUS
<1> HIDE DEF P1, step
<1>8. Passes(m, N, P1, step)
  BY <1>4, <1>5 DEF Passes
<1>9. PICK f : Iterates(f, m, N, P1, step)
  BY <1>1, <1>8, Iteration
<1> DEFINE After(j, g) == IF j = 0 THEN Starts(h, a, b) ELSE call[g[j - 1]]
<1>10. f = [j \in 0 .. N |-> After(j, f)]
  <2>1. ASSUME NEW j \in 0 .. N PROVE f[j] = After(j, f)
    <3>1. CASE j = 0
      BY <1>2, <1>9, <3>1 DEF Iterates
    <3>2. CASE j # 0
      <4>1. j - 1 \in 0 .. N - 1 /\ j - 1 \in 0 .. N /\ (j - 1) + 1 = j
        BY <1>1, <3>2
      <4>2. f[j - 1] \in P1[j - 1] /\ f[j] = step[<<f[j - 1], j - 1>>]
        BY <1>9, <4>1 DEF Iterates
      <4>3. f[j] = call[f[j - 1]]
        BY <1>4, <4>1, <4>2
      <4> QED BY <3>2, <4>3
    <3> QED BY <3>1, <3>2
  <2>2. f = [j \in 0 .. N |-> f[j]]
    BY <1>9 DEF Iterates
  <2> HIDE DEF After
  <2> QED BY <2>1, <2>2
<1>11. PICK g, all : /\ g = [j \in 0 .. N |-> After(j, g)]
                     /\ all = ends[g[N]]
                     /\ new = [root |-> all.top, left |-> all.left, right |-> all.right,
                               parent |-> all.parent]
  <2> DEFINE g == CHOOSE k : k = [j \in 0 .. N |-> After(j, k)]
             all == ends[g[N]]
  <2>1. g = [j \in 0 .. N |-> After(j, g)]
    BY <1>10
  <2>2. new = [root |-> all.top, left |-> all.left, right |-> all.right,
               parent |-> all.parent]
    BY <1>1 DEF skew_heap_merge, Starts
  <2> QED BY <2>1, <2>2
<1> HIDE DEF call, ends
<1>12. g[0] = m
  BY <1>1, <1>2, <1>11
<1>13. ASSUME NEW j \in 0 .. N - 1, g[j] \in P1[j] PROVE g[j + 1] = step[<<g[j], j>>]
  <2>1. j + 1 \in 0 .. N /\ j + 1 # 0 /\ (j + 1) - 1 = j
    BY <1>1
  <2>2. g[j + 1] = call[g[j]]
    BY <1>11, <2>1
  <2> QED BY <1>4, <1>13, <2>2
<1>14. g[N] \in P1[N]
  BY <1>1, <1>8, <1>12, <1>13, IterationEnds
<1>15. g[N] \in Merging /\ MergeRounds(g[N], Q, s, P, N)
  BY <1>6, <1>14
<1>16. PICK e : e = g[N]
  OBVIOUS
<1>17. all = Return(e, IF e.a = Nil THEN e.b ELSE e.a)
  BY <1>7, <1>11, <1>15, <1>16
<1>18. MergeRounds(e, Q, s, P, Cardinality(Task))
  BY <1>1, <1>15, <1>16
<1>19. new = [root |-> all.top, left |-> all.left, right |-> all.right, parent |-> all.parent]
  BY <1>11
<1> QED BY <1>17, <1>18, <1>19, MergeEnds

\* The heap of the nodes in Q, from its root.
Tree(h, Q, s) == Grown(h, Q, s, {Nil})

LEMMA ClearedFields ==
  ASSUME NEW h \in Heap, NEW p \in Task, NEW c, c = Cleared(h, p)
  PROVE  /\ c \in Heap /\ c.root = h.root
         /\ \A q \in Task : /\ c.left[q] = IF q = p THEN Nil ELSE h.left[q]
                            /\ c.right[q] = IF q = p THEN Nil ELSE h.right[q]
                            /\ c.parent[q] = IF q = p THEN Nil ELSE h.parent[q]
<1>1. /\ c.left = [h.left EXCEPT ![p] = Nil] /\ c.right = [h.right EXCEPT ![p] = Nil]
      /\ c.parent = [h.parent EXCEPT ![p] = Nil] /\ c.root = h.root
      /\ c = [root |-> h.root, left |-> [h.left EXCEPT ![p] = Nil],
              right |-> [h.right EXCEPT ![p] = Nil], parent |-> [h.parent EXCEPT ![p] = Nil]]
  BY DEF Cleared, Heap
<1>2. h.left \in Pointers /\ h.right \in Pointers /\ h.parent \in Pointers /\ Nil \in Pointer
  BY DEF Heap, Pointer
<1>3. c.left \in Pointers /\ c.right \in Pointers /\ c.parent \in Pointers /\ c.root \in Pointer
  BY <1>1, <1>2 DEF Pointers, Heap
<1>4. c \in Heap
  BY <1>1, <1>3 DEF Heap
<1> QED BY <1>1, <1>2, <1>4 DEF Pointers

LEMMA InsertKeeps ==
  ASSUME NEW h, NEW Q, NEW s, Tree(h, Q, s), NEW p \in Task, p \notin Q,
         NEW new, new = skew_heap_insert(h, p, s)
  PROVE  Tree(new, Q \cup {p}, s)
<1>1. /\ h \in Heap /\ Forest(Bare(h), Q) /\ Ordered(Bare(h), s)
      /\ h.root # Nil => h.parent[h.root] = Nil
  BY DEF Tree, Grown
<1>2. PICK t, c, m : t = Bare(h) /\ c = Cleared(h, p) /\ m = Starts(c, h.root, p)
  OBVIOUS
<1>3. /\ t \in Merging /\ t.left = h.left /\ t.right = h.right /\ t.parent = h.parent
      /\ t.a = Nil /\ t.b = Nil /\ t.at = Nil /\ t.top = h.root
  BY <1>1, <1>2, BareFields
<1>4. /\ c \in Heap /\ c.root = h.root
      /\ \A q \in Task : /\ c.left[q] = IF q = p THEN Nil ELSE h.left[q]
                         /\ c.right[q] = IF q = p THEN Nil ELSE h.right[q]
                         /\ c.parent[q] = IF q = p THEN Nil ELSE h.parent[q]
  BY <1>1, <1>2, ClearedFields
<1>5. h.root \in Pointer /\ p \in Pointer
  BY <1>1 DEF Heap, Pointer
<1>6. /\ m \in Merging /\ m.left = c.left /\ m.right = c.right /\ m.parent = c.parent
      /\ m.a = h.root /\ m.b = p /\ m.at = Nil /\ m.top = Nil
  BY <1>2, <1>4, <1>5, StartsFields
<1>7. Placed(t, Q) /\ Acyclic(t, Q) /\ Ordered(t, s)
  BY <1>1, <1>2 DEF Forest
<1>8. Q \subseteq Task /\ h.root # p /\ p # Nil
  BY <1>3, <1>7, TaskFacts DEF Placed
<1>9. \A q \in Task : m.left[q] = t.left[q] /\ m.right[q] = t.right[q]
  BY <1>3, <1>4, <1>6, <1>7 DEF Placed
<1>10. \A q, r : Child(m, q, r) <=> Child(t, q, r)
  BY <1>9 DEF Child
<1>11. \A q \in Task : ~ Child(m, q, p)
  BY <1>7, <1>8, <1>10 DEF Placed, Child
<1>12. Placed(m, Q \cup {p})
  <2>1. ASSUME NEW q \in Task, NEW r \in Task, Child(m, q, r)
        PROVE  m.parent[r] = q /\ r \notin {m.a, m.b, m.top}
    <3>1. r # p
      BY <1>11, <2>1
    <3>2. t.parent[r] = q /\ r # t.top
      BY <1>7, <1>10, <2>1 DEF Placed
    <3> QED BY <1>3, <1>4, <1>6, <3>1, <3>2, TaskFacts
  <2>2. ASSUME NEW q \in Q PROVE q \in {m.a, m.b, m.top} \/ Child(m, m.parent[q], q)
    <3>1. q \in {h.root, Nil} \/ Child(t, t.parent[q], q)
      BY <1>3, <1>7 DEF Placed
    <3>2. q \in Task /\ q # Nil /\ q # p
      BY <1>8, TaskFacts
    <3> QED BY <1>3, <1>4, <1>6, <1>10, <3>1, <3>2
  <2>3. {m.a, m.b, m.top} \subseteq (Q \cup {p}) \cup {Nil}
    BY <1>3, <1>6, <1>7 DEF Placed
  <2>4. \A q \in Task : m.left[q] \in Q \cup {Nil} /\ m.right[q] \in Q \cup {Nil}
    BY <1>7, <1>9 DEF Placed
  <2>5. \A q \in Task \ (Q \cup {p}) : m.left[q] = Nil /\ m.right[q] = Nil
    BY <1>7, <1>9 DEF Placed
  <2>6. \A q \in Task : m.left[q] = m.right[q] => m.left[q] = Nil
    BY <1>7, <1>9 DEF Placed
  <2> QED BY <1>6, <1>8, <2>1, <2>2, <2>3, <2>4, <2>5, <2>6 DEF Placed
<1>13. Acyclic(m, Q \cup {p})
  <2>1. SUFFICES ASSUME NEW S \in SUBSET (Q \cup {p}), S # {}
                 PROVE  \E q \in S : \A r \in S : ~ Child(m, r, q)
    BY DEF Acyclic
  <2>2. CASE p \in S
    BY <1>8, <1>11, <2>2
  <2>3. CASE p \notin S
    BY <1>7, <1>10, <2>1, <2>3 DEF Acyclic
  <2> QED BY <2>2, <2>3
<1>14. Ordered(m, s)
  BY <1>7, <1>10 DEF Ordered
<1>15. \A r \in {h.root, p} \ {Nil} : c.parent[r] \in {Nil}
  BY <1>1, <1>4, <1>5, <1>8 DEF Pointer
<1>16. new = skew_heap_merge(c, h.root, p, s)
  BY <1>2 DEF skew_heap_insert
<1>17. Forest(Starts(c, h.root, p), Q \cup {p}) /\ Ordered(Starts(c, h.root, p), s)
  BY <1>2, <1>12, <1>13, <1>14 DEF Forest
<1>18. Grown(new, Q \cup {p}, s, {Nil})
  BY <1>4, <1>5, <1>15, <1>16, <1>17, MergeIs
<1> QED BY <1>18 DEF Tree

\* The merge that takes the place of the root.
LEMMA RemoveMerges ==
  ASSUME NEW h, NEW Q, NEW s, Tree(h, Q, s), NEW p, p = h.root, p # Nil,
         NEW w, \A q \in Q \ {p} : w[q] = s[q],
         NEW rep, rep = skew_heap_merge(Cleared(h, p), h.left[p], h.right[p], w)
  PROVE  Grown(rep, Q \ {p}, w, Task)
<1>1. /\ h \in Heap /\ Forest(Bare(h), Q) /\ Ordered(Bare(h), s)
      /\ h.parent[h.root] = Nil
  BY DEF Tree, Grown
<1>2. PICK t, c, m, a, b : /\ t = Bare(h) /\ c = Cleared(h, p) /\ m = Starts(c, a, b)
                           /\ a = h.left[p] /\ b = h.right[p]
  OBVIOUS
<1>3. /\ t \in Merging /\ t.left = h.left /\ t.right = h.right /\ t.parent = h.parent
      /\ t.a = Nil /\ t.b = Nil /\ t.at = Nil /\ t.top = p
  BY <1>1, <1>2, BareFields
<1>4. p \in Task /\ a \in Pointer /\ b \in Pointer
  BY <1>1, <1>2 DEF Heap, Pointer, Pointers
<1>5. /\ c \in Heap /\ c.root = h.root
      /\ \A q \in Task : /\ c.left[q] = IF q = p THEN Nil ELSE h.left[q]
                         /\ c.right[q] = IF q = p THEN Nil ELSE h.right[q]
                         /\ c.parent[q] = IF q = p THEN Nil ELSE h.parent[q]
  BY <1>1, <1>2, <1>4, ClearedFields
<1>6. /\ m \in Merging /\ m.left = c.left /\ m.right = c.right /\ m.parent = c.parent
      /\ m.a = a /\ m.b = b /\ m.at = Nil /\ m.top = Nil
  BY <1>2, <1>4, <1>5, StartsFields
<1>7. Placed(t, Q) /\ Acyclic(t, Q) /\ Ordered(t, s)
  BY <1>1, <1>2 DEF Forest
<1>8. Q \subseteq Task /\ p \in Q /\ \A q \in Task : ~ Child(t, q, p)
  BY <1>3, <1>4, <1>7 DEF Placed
<1>9. \A q \in Task : /\ m.left[q] = IF q = p THEN Nil ELSE t.left[q]
                      /\ m.right[q] = IF q = p THEN Nil ELSE t.right[q]
  BY <1>3, <1>5, <1>6
<1>10. \A q, r : Child(m, q, r) <=> Child(t, q, r) /\ q # p
  BY <1>9, TaskFacts DEF Child
<1>11. /\ a # Nil => Child(t, p, a) /\ a \in Q
       /\ b # Nil => Child(t, p, b) /\ b \in Q
  BY <1>2, <1>3, <1>4, <1>7 DEF Child, Pointer, Placed
<1>12. a # p /\ b # p
  BY <1>8, <1>11
<1>13. Placed(m, Q \ {p})
  <2>1. ASSUME NEW q \in Task, NEW r \in Task, Child(m, q, r)
        PROVE  m.parent[r] = q /\ r \notin {m.a, m.b, m.top}
    <3>1. Child(t, q, r) /\ q # p
      BY <1>10, <2>1
    <3>2. t.parent[r] = q /\ r # p /\ r # Nil
      BY <1>8, <3>1, <1>7, TaskFacts DEF Placed
    <3>3. ASSUME r \in {a, b} PROVE FALSE
      <4>1. Child(t, p, r)
        BY <1>11, <3>2, <3>3
      <4> QED BY <1>4, <1>7, <3>1, <3>2, <4>1 DEF Placed
    <3> QED BY <1>3, <1>5, <1>6, <3>2, <3>3
  <2>2. ASSUME NEW q \in Q \ {p} PROVE q \in {m.a, m.b, m.top} \/ Child(m, m.parent[q], q)
    <3>1. q \in Task /\ q # Nil
      BY <1>8, TaskFacts
    <3>2. Child(t, t.parent[q], q)
      BY <1>3, <1>7, <3>1 DEF Placed
    <3>3. m.parent[q] = t.parent[q]
      BY <1>3, <1>5, <1>6, <3>1
    <3>4. CASE t.parent[q] = p
      BY <1>2, <1>3, <1>6, <3>2, <3>4 DEF Child
    <3>5. CASE t.parent[q] # p
      BY <1>10, <3>2, <3>3, <3>5
    <3> QED BY <3>4, <3>5
  <2>3. {m.a, m.b, m.top} \subseteq (Q \ {p}) \cup {Nil}
    BY <1>6, <1>11, <1>12
  <2>4. ASSUME NEW q \in Task PROVE m.left[q] \in (Q \ {p}) \cup {Nil}
                                    /\ m.right[q] \in (Q \ {p}) \cup {Nil}
    <3>1. t.left[q] # p /\ t.right[q] # p
      BY <1>4, <1>8 DEF Child
    <3> QED BY <1>7, <1>9, <3>1 DEF Placed
  <2>5. \A q \in Task \ (Q \ {p}) : m.left[q] = Nil /\ m.right[q] = Nil
    BY <1>7, <1>9 DEF Placed
  <2>6. \A q \in Task : m.left[q] = m.right[q] => m.left[q] = Nil
    BY <1>7, <1>9 DEF Placed
  <2>7. m.a = m.b => m.a = Nil
    <3>1. t.left[p] = t.right[p] => t.left[p] = Nil
      BY <1>4, <1>7 DEF Placed
    <3> QED BY <1>2, <1>3, <1>6, <3>1
  <2> QED BY <1>6, <1>8, <2>1, <2>2, <2>3, <2>4, <2>5, <2>6, <2>7 DEF Placed
<1>14. Acyclic(m, Q \ {p})
  <2>1. SUFFICES ASSUME NEW S \in SUBSET (Q \ {p}), S # {}
                 PROVE  \E q \in S : \A r \in S : ~ Child(m, r, q)
    BY DEF Acyclic
  <2>2. S \in SUBSET Q
    OBVIOUS
  <2> QED BY <1>7, <1>10, <2>1, <2>2 DEF Acyclic
<1>15. Ordered(m, w)
  <2>1. SUFFICES ASSUME NEW q \in Task, NEW r \in Task, Child(m, q, r) PROVE Above(q, r, w)
    BY DEF Ordered
  <2>2. Child(t, q, r) /\ q # p /\ Above(q, r, s)
    BY <1>7, <1>10, <2>1 DEF Ordered
  <2>3. q \in Q /\ r \in Q /\ r # p
    BY <1>7, <1>8, <2>2, TaskFacts DEF Placed, Child
  <2> QED BY <2>2, <2>3 DEF Above, Before
<1>16. \A r \in {a, b} \ {Nil} : c.parent[r] \in Task
  <2>1. \A r \in {a, b} \ {Nil} : Child(t, p, r) /\ r \in Task /\ r # p
    BY <1>8, <1>11, <1>12
  <2> QED BY <1>3, <1>4, <1>5, <1>7, <2>1 DEF Placed
<1>17. rep = skew_heap_merge(c, a, b, w)
  BY <1>2
<1>18. Forest(Starts(c, a, b), Q \ {p}) /\ Ordered(Starts(c, a, b), w)
  BY <1>2, <1>13, <1>14, <1>15 DEF Forest
<1> QED BY <1>4, <1>5, <1>16, <1>17, <1>18, MergeIs

LEMMA RemoveKeeps ==
  ASSUME NEW h, NEW Q, NEW s, Tree(h, Q, s), NEW p, p = h.root, p # Nil,
         NEW w, \A q \in Q \ {p} : w[q] = s[q],
         NEW new, new = skew_heap_remove(h, p, w)
  PROVE  Tree(new, Q \ {p}, w) /\ p \in Q
<1>1. h \in Heap /\ h.parent[p] = Nil /\ p \in Q /\ Q \subseteq Task
  <2>1. h \in Heap /\ h.parent[p] = Nil /\ Placed(Bare(h), Q)
    BY DEF Tree, Grown, Forest
  <2> QED BY <2>1, BareFields DEF Placed
<1>2. PICK rep : rep = skew_heap_merge(Cleared(h, p), h.left[p], h.right[p], w)
  OBVIOUS
<1>3. Grown(rep, Q \ {p}, w, Task)
  BY <1>2, RemoveMerges
<1>4. rep \in Heap
  BY <1>3 DEF Grown
<1>5. new = [root |-> rep.root, left |-> rep.left, right |-> rep.right,
             parent |-> IF rep.root = Nil THEN rep.parent
                        ELSE [rep.parent EXCEPT ![rep.root] = Nil]]
  BY <1>1, <1>2, <1>4 DEF skew_heap_remove
<1>6. /\ new \in Heap /\ new.root = rep.root /\ new.left = rep.left /\ new.right = rep.right
      /\ \A q \in Task : new.parent[q] = IF q = rep.root THEN Nil ELSE rep.parent[q]
  <2>1. rep.parent \in Pointers /\ rep.root \in Pointer /\ Nil \in Pointer
    BY <1>4 DEF Heap, Pointer
  <2>2. PICK up : up = IF rep.root = Nil THEN rep.parent
                       ELSE [rep.parent EXCEPT ![rep.root] = Nil]
    OBVIOUS
  <2>3. up \in Pointers /\ \A q \in Task : up[q] = IF q = rep.root THEN Nil ELSE rep.parent[q]
    BY <2>1, <2>2, TaskFacts DEF Pointers
  <2>4. new = [root |-> rep.root, left |-> rep.left, right |-> rep.right, parent |-> up]
    BY <1>5, <2>2
  <2> QED BY <1>4, <2>3, <2>4 DEF Heap
<1>7. PICK t, m : t = Bare(rep) /\ m = Bare(new)
  OBVIOUS
<1>8. /\ t \in Merging /\ t.left = rep.left /\ t.right = rep.right /\ t.parent = rep.parent
      /\ t.a = Nil /\ t.b = Nil /\ t.at = Nil /\ t.top = rep.root
  BY <1>4, <1>7, BareFields
<1>9. /\ m \in Merging /\ m.left = new.left /\ m.right = new.right /\ m.parent = new.parent
      /\ m.a = Nil /\ m.b = Nil /\ m.at = Nil /\ m.top = new.root
  BY <1>6, <1>7, BareFields
<1>10. Placed(t, Q \ {p}) /\ Acyclic(t, Q \ {p}) /\ Ordered(t, w)
  BY <1>3, <1>7 DEF Grown, Forest
<1>11. \A q, r : Child(m, q, r) <=> Child(t, q, r)
  BY <1>6, <1>8, <1>9 DEF Child
<1>12. Placed(m, Q \ {p})
  <2>1. ASSUME NEW q \in Task, NEW r \in Task, Child(m, q, r)
        PROVE  m.parent[r] = q /\ r \notin {m.a, m.b, m.top}
    BY <1>6, <1>8, <1>9, <1>10, <1>11, <2>1 DEF Placed
  <2>2. ASSUME NEW q \in Q \ {p} PROVE q \in {m.a, m.b, m.top} \/ Child(m, m.parent[q], q)
    <3>1. q \in {t.a, t.b, t.top} \/ Child(t, t.parent[q], q)
      BY <1>10 DEF Placed
    <3> QED BY <1>1, <1>6, <1>8, <1>9, <1>11, <3>1
  <2>3. m.left = t.left /\ m.right = t.right /\ m.a = t.a /\ m.b = t.b /\ m.top = t.top
    BY <1>6, <1>8, <1>9
  <2> QED BY <1>9, <1>10, <2>1, <2>2, <2>3 DEF Placed
<1>13. Acyclic(m, Q \ {p}) /\ Ordered(m, w)
  BY <1>10, <1>11 DEF Acyclic, Ordered
<1>14. new.root # Nil => new.parent[new.root] = Nil
  BY <1>4, <1>6 DEF Heap, Pointer
<1> QED BY <1>1, <1>6, <1>7, <1>12, <1>13, <1>14 DEF Tree, Grown, Forest

-----------------------------------------------------------------------------
(* What is in a heap, and which node is its root.                           *)

LEMMA TreeFacts ==
  ASSUME NEW h, NEW Q, NEW s, Tree(h, Q, s), NEW t, t = Bare(h)
  PROVE  /\ h \in Heap /\ Q \subseteq Task /\ h.root \in Q \cup {Nil}
         /\ h.root # Nil => h.parent[h.root] = Nil
         /\ t.left = h.left /\ t.right = h.right /\ t.parent = h.parent
         /\ Acyclic(t, Q) /\ Ordered(t, s)
         /\ \A p \in Task : t.left[p] \in Q \cup {Nil} /\ t.right[p] \in Q \cup {Nil}
         /\ \A p \in Task : t.left[p] = t.right[p] => t.left[p] = Nil
         /\ \A p, c \in Task : Child(t, p, c) => p \in Q /\ c \in Q /\ t.parent[c] = p
         /\ \A q \in Q : q # h.root => t.parent[q] \in Q /\ Child(t, t.parent[q], q)
<1>1. h \in Heap /\ Placed(t, Q) /\ (h.root # Nil => h.parent[h.root] = Nil)
      /\ Acyclic(t, Q) /\ Ordered(t, s)
  BY DEF Tree, Grown, Forest
<1>2. /\ t \in Merging /\ t.left = h.left /\ t.right = h.right /\ t.parent = h.parent
      /\ t.a = Nil /\ t.b = Nil /\ t.at = Nil /\ t.top = h.root
  BY <1>1, BareFields
<1>3. Q \subseteq Task /\ h.root \in Q \cup {Nil}
  BY <1>1, <1>2 DEF Placed
<1>4. \A p, c \in Task : Child(t, p, c) => p \in Q /\ c \in Q /\ t.parent[c] = p
  BY <1>1, TaskFacts DEF Placed, Child
<1>5. ASSUME NEW q \in Q, q # h.root PROVE t.parent[q] \in Q /\ Child(t, t.parent[q], q)
  <2>1. Child(t, t.parent[q], q)
    BY <1>1, <1>2, <1>3, <1>5, TaskFacts DEF Placed
  <2> QED BY <1>3, <1>4, <2>1 DEF Child
<1>6. \A p \in Task : t.left[p] \in Q \cup {Nil} /\ t.right[p] \in Q \cup {Nil}
  BY <1>1 DEF Placed
<1>7. \A p \in Task : t.left[p] = t.right[p] => t.left[p] = Nil
  BY <1>1 DEF Placed
<1> QED BY <1>1, <1>2, <1>3, <1>4, <1>5, <1>6, <1>7

\* A heap without a root is empty.
LEMMA TreeEmpty ==
  ASSUME NEW h, NEW Q, NEW s, Tree(h, Q, s), h.root = Nil
  PROVE  Q = {}
<1>1. PICK t : t = Bare(h)
  OBVIOUS
<1>2. SUFFICES ASSUME Q # {} PROVE FALSE
  OBVIOUS
<1>3. PICK q \in Q : \A p \in Q : ~ Child(t, p, q)
  BY <1>1, <1>2, TreeFacts DEF Acyclic
<1>4. q # Nil
  BY TreeFacts, TaskFacts
<1> QED BY <1>1, <1>3, <1>4, TreeFacts

\* Every set that holds the root and what is below its members holds all.
LEMMA TreeReached ==
  ASSUME NEW h, NEW Q, NEW s, Tree(h, Q, s), h.root # Nil, NEW p \in Task
  PROVE  p \in Q <=> \A S \in SUBSET Task :
            h.root \in S /\ (\A q \in S : {h.left[q], h.right[q]} \ {Nil} \subseteq S) => p \in S
<1>1. PICK t : t = Bare(h)
  OBVIOUS
<1>2. /\ Q \subseteq Task /\ h.root \in Q
      /\ t.left = h.left /\ t.right = h.right
      /\ \A q \in Task : t.left[q] \in Q \cup {Nil} /\ t.right[q] \in Q \cup {Nil}
      /\ Acyclic(t, Q)
      /\ \A q \in Q : q # h.root => t.parent[q] \in Q /\ Child(t, t.parent[q], q)
  BY <1>1, TreeFacts
<1>3. ASSUME \A S \in SUBSET Task :
                h.root \in S /\ (\A q \in S : {h.left[q], h.right[q]} \ {Nil} \subseteq S) => p \in S
      PROVE  p \in Q
  <2>1. \A q \in Q : {h.left[q], h.right[q]} \ {Nil} \subseteq Q
    BY <1>2
  <2> QED BY <1>2, <1>3, <2>1
<1>4. ASSUME p \in Q, NEW S \in SUBSET Task, h.root \in S,
             \A q \in S : {h.left[q], h.right[q]} \ {Nil} \subseteq S
      PROVE  p \in S
  <2>1. SUFFICES ASSUME p \notin S PROVE FALSE
    OBVIOUS
  <2>2. Q \ S \in SUBSET Q /\ Q \ S # {}
    BY <1>4, <2>1
  <2>3. PICK q \in Q \ S : \A r \in Q \ S : ~ Child(t, r, q)
    BY <1>2, <2>2 DEF Acyclic
  <2>4. t.parent[q] \in S /\ Child(t, t.parent[q], q)
    BY <1>2, <1>4, <2>3
  <2>5. q \in {h.left[t.parent[q]], h.right[t.parent[q]]} \ {Nil}
    BY <1>2, <2>4, TaskFacts DEF Child
  <2>6. q \in S
    BY <1>4, <2>4, <2>5
  <2> QED BY <2>3, <2>6
<1> QED BY <1>3, <1>4

StrideValue == 0 .. Wrap - 1

LEMMA WrapFacts ==
  /\ Wrap \in Nat /\ Wrap >= 4 /\ BIG_STRIDE \in Nat /\ BIG_STRIDE >= 1
  /\ 2 * (BIG_STRIDE + 1) = Wrap
<1>1. Wrap \in Nat /\ Wrap >= 4 /\ Wrap % 2 = 0
  BY StrideAssumption
<1>2. Wrap \div 2 \in Int /\ Wrap = 2 * (Wrap \div 2)
  BY <1>1
<1> QED BY <1>1, <1>2 DEF BIG_STRIDE

\* A number of Wrap or less from 0 keeps its remainder, but for its sign.
LEMMA Remainder ==
  ASSUME NEW x \in Int, - Wrap <= x, x < 2 * Wrap
  PROVE  x % Wrap = IF x < 0 THEN x + Wrap ELSE IF x < Wrap THEN x ELSE x - Wrap
<1>1. Wrap \in Int /\ Wrap > 0
  BY WrapFacts
<1>2. PICK r, k : r = x % Wrap /\ k = x \div Wrap
  OBVIOUS
<1>3. r \in Int /\ k \in Int /\ 0 <= r /\ r < Wrap /\ x = Wrap * k + r
  BY <1>1, <1>2
<1>4. k >= -1
  <2>1. SUFFICES ASSUME k <= -2 PROVE FALSE
    BY <1>3
  <2>2. Wrap * k <= Wrap * (-2)
    BY <1>1, <1>3, <2>1
  <2> QED BY <1>1, <1>3, <2>2
<1>5. k <= 1
  <2>1. SUFFICES ASSUME k >= 2 PROVE FALSE
    BY <1>3
  <2>2. Wrap * k >= Wrap * 2
    BY <1>1, <1>3, <2>1
  <2> QED BY <1>1, <1>3, <2>2
<1>6. k = -1 \/ k = 0 \/ k = 1
  BY <1>3, <1>4, <1>5
<1>7. CASE k = -1
  <2>1. x = r - Wrap
    BY <1>1, <1>3, <1>7
  <2> QED BY <1>1, <1>2, <1>3, <2>1
<1>8. CASE k = 0
  <2>1. x = r
    BY <1>1, <1>3, <1>8
  <2> QED BY <1>1, <1>2, <1>3, <2>1
<1>9. CASE k = 1
  <2>1. x = r + Wrap
    BY <1>1, <1>3, <1>9
  <2> QED BY <1>1, <1>2, <1>3, <2>1
<1> QED BY <1>6, <1>7, <1>8, <1>9

\* Differences of strides from their distances to a third one.
LEMMA Distances ==
  ASSUME NEW v \in StrideValue, NEW x \in StrideValue, NEW y \in StrideValue
  PROVE  /\ (x - v) % Wrap \in StrideValue
         /\ (x - y) % Wrap = IF (x - v) % Wrap >= (y - v) % Wrap
                             THEN ((x - v) % Wrap) - ((y - v) % Wrap)
                             ELSE ((x - v) % Wrap) - ((y - v) % Wrap) + Wrap
<1> USE DEF StrideValue
<1>1. Wrap \in Nat /\ Wrap >= 4
  BY WrapFacts
<1>2. PICK a, b, c : a = (x - v) % Wrap /\ b = (y - v) % Wrap /\ c = (x - y) % Wrap
  OBVIOUS
<1>3. /\ a = IF x - v < 0 THEN x - v + Wrap ELSE x - v
      /\ b = IF y - v < 0 THEN y - v + Wrap ELSE y - v
      /\ c = IF x - y < 0 THEN x - y + Wrap ELSE x - y
  <2>1. \A z \in Int : - Wrap <= z /\ z < Wrap
                         => z % Wrap = IF z < 0 THEN z + Wrap ELSE z
    BY <1>1, Remainder
  <2>2. /\ x - v \in Int /\ - Wrap <= x - v /\ x - v < Wrap
        /\ y - v \in Int /\ - Wrap <= y - v /\ y - v < Wrap
        /\ x - y \in Int /\ - Wrap <= x - y /\ x - y < Wrap
    BY <1>1
  <2> QED BY <1>2, <2>1, <2>2
<1>4. a \in StrideValue /\ c = IF a >= b THEN a - b ELSE a - b + Wrap
  BY <1>1, <1>3
<1> QED BY <1>2, <1>4

\* The strides of Q lie within BIG_STRIDE above v.
Over(Q, s, v) == \A q \in Q : (s[q] - v) % Wrap <= BIG_STRIDE

Near(Q, s) == Q # {} => \E b \in Q : Over(Q, s, s[b])

\* The member of Q with the least distance to v comes before all others.
LEMMA SomeLeast ==
  ASSUME NEW Q, NEW s, \A q \in Q : s[q] \in StrideValue,
         NEW v \in StrideValue, Over(Q, s, v)
  PROVE  Near(Q, s)
<1>1. SUFFICES ASSUME Q # {} PROVE \E b \in Q : Over(Q, s, s[b])
  BY DEF Near
<1> DEFINE d == [q \in Q |-> (s[q] - v) % Wrap]
           T == {d[q] : q \in Q}
<1>2. \A q \in Q : d[q] \in Nat /\ d[q] <= BIG_STRIDE /\ d[q] = (s[q] - v) % Wrap
  BY Distances, WrapFacts DEF Over, StrideValue
<1>3. T \subseteq Nat /\ T # {}
  BY <1>1, <1>2
<1> HIDE DEF T
<1>4. PICK k \in T : \A j \in T : k <= j
  BY <1>3, Least
<1>5. PICK b \in Q : k = d[b]
  BY DEF T
<1>6. \A q \in Q : d[b] <= d[q]
  BY <1>4, <1>5 DEF T
<1> HIDE DEF d
<1>7. ASSUME NEW q \in Q PROVE (s[q] - s[b]) % Wrap <= BIG_STRIDE
  <2>1. (s[q] - s[b]) % Wrap = d[q] - d[b]
    BY <1>2, <1>6, Distances
  <2> QED BY <1>2, <1>6, <2>1, WrapFacts
<1> QED BY <1>7 DEF Over

\* In a heap of strides that can be compared the root is the least.
LEMMA RootLeast ==
  ASSUME NEW h, NEW Q, NEW s, Tree(h, Q, s), h.root # Nil,
         \A q \in Q : s[q] \in StrideValue, Near(Q, s)
  PROVE  h.root \in Q /\ Over(Q, s, s[h.root])
<1>1. PICK t, root : t = Bare(h) /\ root = h.root
  OBVIOUS
<1>2. /\ Q \subseteq Task /\ root \in Q
      /\ Acyclic(t, Q) /\ Ordered(t, s)
      /\ \A q \in Q : q # root => t.parent[q] \in Q /\ Child(t, t.parent[q], q)
  BY <1>1, TreeFacts
<1>3. PICK b \in Q : Over(Q, s, s[b])
  BY <1>2 DEF Near
<1> DEFINE d == [q \in Q |-> (s[q] - s[b]) % Wrap]
<1>4. \A q \in Q : d[q] \in Nat /\ d[q] <= BIG_STRIDE /\ d[q] = (s[q] - s[b]) % Wrap
  BY <1>3, Distances, WrapFacts DEF Over, StrideValue
<1> HIDE DEF d
<1>5. ASSUME NEW p \in Q, NEW c \in Q
      PROVE  (s[p] - s[c]) % Wrap = IF d[p] >= d[c] THEN d[p] - d[c] ELSE d[p] - d[c] + Wrap
  BY <1>4, Distances
<1>6. ASSUME NEW p \in Q, NEW c \in Q, Above(p, c, s) PROVE d[p] <= d[c]
  <2>1. Before(p, c, s) => d[p] < d[c]
    <3>1. (s[p] - s[c]) % Wrap = IF d[p] >= d[c] THEN d[p] - d[c] ELSE d[p] - d[c] + Wrap
      BY <1>5
    <3> QED BY <1>4, <3>1, WrapFacts DEF Before
  <2>2. d[c] < d[p] => Before(c, p, s)
    <3>1. (s[c] - s[p]) % Wrap = IF d[c] >= d[p] THEN d[c] - d[p] ELSE d[c] - d[p] + Wrap
      BY <1>5
    <3> QED BY <1>4, <3>1, WrapFacts DEF Before
  <2> QED BY <1>4, <1>6, <2>1, <2>2 DEF Above
<1>7. \A q \in Q : d[root] <= d[q]
  <2>1. SUFFICES ASSUME NEW x \in Q, d[x] < d[root] PROVE FALSE
    BY <1>2, <1>4
  <2> DEFINE S == {q \in Q : d[q] < d[root]}
  <2>2. S \in SUBSET Q /\ S # {}
    BY <2>1
  <2>3. PICK q \in S : \A p \in S : ~ Child(t, p, q)
    BY <1>2, <2>2 DEF Acyclic
  <2>4. PICK p : p = t.parent[q]
    OBVIOUS
  <2>5. q \in Q /\ d[q] < d[root] /\ q # root
    BY <1>2, <1>4, <2>3
  <2>6. p \in Q /\ Child(t, p, q)
    BY <1>2, <2>4, <2>5
  <2>7. Above(p, q, s)
    BY <1>2, <2>5, <2>6 DEF Ordered
  <2>8. d[p] < d[root]
    BY <1>2, <1>4, <1>6, <2>5, <2>6, <2>7
  <2> QED BY <2>3, <2>6, <2>8
<1>8. ASSUME NEW q \in Q PROVE (s[q] - s[root]) % Wrap <= BIG_STRIDE
  <2>1. (s[q] - s[root]) % Wrap = d[q] - d[root]
    BY <1>2, <1>4, <1>5, <1>7
  <2> QED BY <1>2, <1>4, <1>7, <2>1, WrapFacts
<1> QED BY <1>1, <1>2, <1>8 DEF Over

\* A pass added to the least stride leaves all strides comparable.
LEMMA PassKeeps ==
  ASSUME NEW Q, NEW s, \A q \in Q : s[q] \in StrideValue, NEW r \in Q, Over(Q, s, s[r]),
         NEW k \in 0 .. BIG_STRIDE, NEW w, w[r] = (s[r] + k) % Wrap,
         \A q \in Q \ {r} : w[q] = s[q]
  PROVE  w[r] \in StrideValue /\ Near(Q, w)
<1>1. PICK v : v = s[r]
  OBVIOUS
<1>2. v \in 0 .. Wrap - 1 /\ v \in StrideValue
  BY <1>1 DEF StrideValue
<1>3. w[r] = IF v + k < Wrap THEN v + k ELSE v + k - Wrap
  <2>1. PICK x : x = v + k
    OBVIOUS
  <2>2. x \in Int /\ - Wrap <= x /\ x < 2 * Wrap /\ ~ x < 0
    BY <1>2, <2>1, WrapFacts
  <2>3. x % Wrap = IF x < Wrap THEN x ELSE x - Wrap
    BY <2>2, Remainder
  <2>4. w[r] = x % Wrap
    BY <1>1, <2>1
  <2> QED BY <1>2, <2>1, <2>2, <2>3, <2>4, WrapFacts
<1>4. w[r] \in StrideValue /\ w[r] \in Int
  BY <1>2, <1>3, WrapFacts DEF StrideValue
<1>5. (w[r] - v) % Wrap = k
  <2>1. w[r] - v \in Int /\ - Wrap <= w[r] - v /\ w[r] - v < Wrap
    BY <1>2, <1>4, WrapFacts DEF StrideValue
  <2>2. (w[r] - v) % Wrap = IF w[r] - v < 0 THEN (w[r] - v) + Wrap ELSE w[r] - v
    <3>1. PICK x : x = w[r] - v
      OBVIOUS
    <3>2. x \in Int /\ - Wrap <= x /\ x < Wrap /\ x < 2 * Wrap
      BY <2>1, <3>1, WrapFacts
    <3>3. x % Wrap = IF x < 0 THEN x + Wrap ELSE x
      BY <3>2, Remainder
    <3> QED BY <3>1, <3>3
  <2>3. w[r] - v = IF v + k < Wrap THEN k ELSE k - Wrap
    BY <1>2, <1>3, WrapFacts
  <2>4. k < Wrap /\ ~ k < 0 /\ k \in Int
    BY WrapFacts
  <2> QED BY <1>2, <2>1, <2>2, <2>3, <2>4, WrapFacts
<1>6. Over(Q, w, v)
  BY <1>1, <1>5 DEF Over
<1>7. \A q \in Q : w[q] \in StrideValue
  BY <1>4
<1> QED BY <1>2, <1>4, <1>6, <1>7, SomeLeast

LEMMA PassType ==
  ASSUME NEW p \in Task, priority \in [Task -> Nat]
  PROVE  Pass(p) \in 0 .. BIG_STRIDE
<1>1. priority[p] \in Nat
  OBVIOUS
<1>2. CASE priority[p] = 0
  BY <1>2, WrapFacts DEF Pass
<1>3. CASE priority[p] # 0
  <2>1. PICK n, b, k : n = priority[p] /\ b = BIG_STRIDE /\ k = b \div n
    OBVIOUS
  <2>2. n \in Nat /\ n >= 1 /\ b \in Nat
    BY <1>1, <1>3, <2>1, WrapFacts
  <2>3. k \in Int /\ n * k <= b /\ b < n * k + n
    BY <2>1, <2>2
  <2>4. k >= 0
    <3>1. SUFFICES ASSUME k <= -1 PROVE FALSE
      BY <2>3
    <3>2. n * k <= n * (-1)
      BY <2>2, <2>3, <3>1
    <3> QED BY <2>2, <2>3, <3>2
  <2>5. k <= b
    <3>1. n * k >= 1 * k
      BY <2>2, <2>3, <2>4
    <3> QED BY <2>2, <2>3, <3>1
  <2> QED BY <1>3, <2>1, <2>2, <2>3, <2>4, <2>5 DEF Pass
<1> QED BY <1>1, <1>2, <1>3

-----------------------------------------------------------------------------
(* The inductive invariant.                                                 *)

Runnable == {p \in Task : state[p] = "runnable"}

StrideTypes ==
    /\ current \in Task \cup {idle}
    /\ state \in [Task -> {"none", "runnable", "sleeping"}]
    /\ stride \in [Task -> StrideValue]
    /\ priority \in [Task -> Nat]
    /\ slice \in [Task -> 0 .. Slices]
    /\ needResched \in BOOLEAN
    /\ busy \in BOOLEAN

\* Nobody sleeps among busy processes, and their strides can be compared.
BusyRuns == busy => /\ \A p \in Task : state[p] # "sleeping"
                    /\ Near(Runnable, stride)

StrideInv ==
    /\ StrideTypes
    /\ current # idle => state[current] = "runnable"
    /\ Tree(heap, Queued, stride)
    /\ procNum = Cardinality(Queued)
    /\ BusyRuns

LEMMA StrideInitially ==
  ASSUME StrideInit
  PROVE  StrideInv
<1> USE DEF StrideInit
<1>1. StrideTypes
  BY StrideAssumption, WrapFacts DEF StrideTypes, StrideValue
<1>2. Queued = {} /\ Runnable = {}
  BY DEF Queued, Runnable
<1>3. PICK h, m : h = heap /\ m = Bare(h)
  OBVIOUS
<1>4. Unlinked \in Pointers /\ Nil \in Pointer /\ \A p \in Task : Unlinked[p] = Nil
  BY DEF Unlinked, Pointers, Pointer
<1>5. /\ h \in Heap /\ h.root = Nil /\ h.left = Unlinked /\ h.right = Unlinked
      /\ h.parent = Unlinked
  BY <1>3, <1>4 DEF EmptyHeap, Heap
<1>6. /\ m \in Merging /\ m.left = h.left /\ m.right = h.right /\ m.parent = h.parent
      /\ m.a = Nil /\ m.b = Nil /\ m.at = Nil /\ m.top = h.root
  BY <1>3, <1>5, BareFields
<1>7. \A p, c : ~ Child(m, p, c)
  BY <1>4, <1>5, <1>6, TaskFacts DEF Child
<1>8. Placed(m, {})
  BY <1>4, <1>5, <1>6, <1>7 DEF Placed
<1>9. Acyclic(m, {}) /\ Ordered(m, stride)
  BY <1>7 DEF Acyclic, Ordered
<1>10. Tree(heap, {}, stride)
  BY <1>3, <1>5, <1>8, <1>9 DEF Tree, Grown, Forest
<1>11. procNum = Cardinality({})
  BY FS_EmptySet
<1>12. BusyRuns
  BY <1>2 DEF BusyRuns, Near
<1> QED BY <1>1, <1>2, <1>10, <1>11, <1>12 DEF StrideInv

LEMMA QueuedFinite ==
  IsFiniteSet(Queued) /\ Queued \subseteq Task /\ current \notin Queued
<1>1. Queued \subseteq Task /\ current \notin Queued
  BY DEF Queued
<1> QED BY <1>1, TaskFacts, FS_Subset

LEMMA SliceType ==
  ASSUME NEW p \in Task, NEW sl \in [Task -> 0 .. Slices]
  PROVE  SliceAfterEnqueue(p, sl) \in [Task -> 0 .. Slices]
BY StrideAssumption DEF SliceAfterEnqueue

\* A heap depends on the strides of its nodes alone.
LEMMA TreeStrides ==
  ASSUME NEW h, NEW Q, NEW s, Tree(h, Q, s), NEW w, \A q \in Q : w[q] = s[q]
  PROVE  Tree(h, Q, w)
<1>1. PICK t : t = Bare(h)
  OBVIOUS
<1>2. Ordered(t, w)
  <2>1. SUFFICES ASSUME NEW p \in Task, NEW c \in Task, Child(t, p, c) PROVE Above(p, c, w)
    BY DEF Ordered
  <2>2. Above(p, c, s)
    BY <1>1, <2>1, TreeFacts DEF Ordered
  <2>3. p \in Q /\ c \in Q
    BY <1>1, <2>1, TreeFacts
  <2> QED BY <2>2, <2>3 DEF Above, Before
<1> QED BY <1>1, <1>2 DEF Tree, Grown

\* wakeup_proc of a process that is off the CPU.
LEMMA EnqueueKeeps ==
  ASSUME StrideInv, NEW p \in Task, p \notin Runnable, NEW s, NEW sl \in [Task -> 0 .. Slices],
         \A q \in Queued : s[q] = stride[q], Enqueue(p, s, sl), current' = current
  PROVE  /\ Tree(heap', Queued', s)
         /\ procNum' = Cardinality(Queued')
         /\ Queued' = Queued \cup {p} /\ Runnable' = Runnable \cup {p}
         /\ slice' \in [Task -> 0 .. Slices]
         /\ state' = [state EXCEPT ![p] = "runnable"]
         /\ current # idle => p # current
<1> USE DEF StrideInv, StrideTypes
<1>1. state' = [state EXCEPT ![p] = "runnable"] /\ current' = current
  BY DEF Enqueue
<1>2. \A q \in Task : state'[q] = IF q = p THEN "runnable" ELSE state[q]
  BY <1>1
<1>3. p # current /\ p \notin Queued
  BY StrideAssumption DEF Queued, Runnable
<1>4. Queued' = Queued \cup {p} /\ Runnable' = Runnable \cup {p}
  BY <1>1, <1>2, <1>3 DEF Queued, Runnable
<1>5. PICK h, new : h = heap /\ new = heap'
  OBVIOUS
<1>6. Tree(h, Queued, s)
  BY <1>5, TreeStrides
<1>7. new = skew_heap_insert(h, p, s)
  BY <1>5 DEF Enqueue
<1>8. Tree(new, Queued \cup {p}, s)
  BY <1>3, <1>6, <1>7, InsertKeeps
<1>9. procNum' = Cardinality(Queued \cup {p})
  BY <1>3, QueuedFinite, FS_AddElement DEF Enqueue
<1>10. slice' \in [Task -> 0 .. Slices]
  BY SliceType DEF Enqueue
<1> QED BY <1>1, <1>3, <1>4, <1>5, <1>8, <1>9, <1>10

LEMMA CreateKeeps ==
  ASSUME StrideInv, NEW p \in Task, Create(p)
  PROVE  StrideInv'
<1> USE DEF StrideInv, StrideTypes
<1>1. /\ stride' = [stride EXCEPT ![p] = 0] /\ priority' = [priority EXCEPT ![p] = 0]
      /\ Enqueue(p, stride', [slice EXCEPT ![p] = 0])
      /\ current' = current /\ needResched' = needResched /\ busy' = busy
      /\ state[p] = "none" /\ (busy => \A q \in Task : stride[q] = 0)
  BY DEF Create
<1>2. p \notin Runnable /\ p \notin Queued
  BY <1>1 DEF Runnable, Queued
<1>3. 0 \in StrideValue /\ 0 \in 0 .. Slices
  BY StrideAssumption, WrapFacts DEF StrideValue
<1>4. PICK s, sl : s = stride' /\ sl = [slice EXCEPT ![p] = 0]
  OBVIOUS
<1>5. /\ s \in [Task -> StrideValue] /\ sl \in [Task -> 0 .. Slices]
      /\ \A q \in Task : s[q] = IF q = p THEN 0 ELSE stride[q]
  BY <1>1, <1>3, <1>4
<1>6. \A q \in Queued : s[q] = stride[q]
  BY <1>2, <1>5 DEF Queued
<1>7. Enqueue(p, s, sl)
  BY <1>1, <1>4
<1>8. /\ Tree(heap', Queued', s) /\ procNum' = Cardinality(Queued')
      /\ Runnable' = Runnable \cup {p} /\ slice' \in [Task -> 0 .. Slices]
      /\ state' = [state EXCEPT ![p] = "runnable"]
      /\ current # idle => p # current
  BY <1>1, <1>2, <1>5, <1>6, <1>7, EnqueueKeeps
<1>9. StrideTypes'
  BY <1>1, <1>4, <1>5, <1>8
<1>10. current' # idle => state'[current'] = "runnable"
  BY <1>1, <1>8
<1>11. BusyRuns'
  <2>1. SUFFICES ASSUME busy
                 PROVE  /\ \A q \in Task : state'[q] # "sleeping"
                        /\ Near(Runnable', stride')
    BY <1>1 DEF BusyRuns
  <2>2. \A q \in Task : s[q] = 0
    BY <1>1, <1>5, <2>1
  <2>3. \A q \in Runnable' : q \in Task
    BY <1>8 DEF Runnable
  <2>4. (0 - 0) % Wrap = 0 /\ 0 <= BIG_STRIDE
    BY WrapFacts, Remainder
  <2>5. Near(Runnable', s)
    BY <2>2, <2>3, <2>4 DEF Near, Over
  <2> QED BY <1>4, <1>8, <2>1, <2>5 DEF BusyRuns
<1> QED BY <1>4, <1>8, <1>9, <1>10, <1>11

LEMMA WakeKeeps ==
  ASSUME StrideInv, NEW p \in Task, Wake(p)
  PROVE  StrideInv'
<1> USE DEF StrideInv, StrideTypes
<1>1. /\ stride' = stride /\ priority' = priority
      /\ Enqueue(p, stride, slice)
      /\ current' = current /\ needResched' = needResched /\ busy' = busy
      /\ state[p] = "sleeping"
  BY DEF Wake
<1>2. p \notin Runnable
  BY <1>1 DEF Runnable
<1>3. /\ Tree(heap', Queued', stride) /\ procNum' = Cardinality(Queued')
      /\ slice' \in [Task -> 0 .. Slices]
      /\ state' = [state EXCEPT ![p] = "runnable"]
      /\ current # idle => p # current
  BY <1>1, <1>2, EnqueueKeeps
<1>4. StrideTypes'
  BY <1>1, <1>3
<1>5. current' # idle => state'[current'] = "runnable"
  BY <1>1, <1>3
<1>6. BusyRuns'
  BY <1>1 DEF BusyRuns
<1> QED BY <1>1, <1>3, <1>4, <1>5, <1>6

LEMMA TickKeeps ==
  ASSUME StrideInv, Tick
  PROVE  StrideInv'
<1> USE DEF StrideInv, StrideTypes
<1>1. /\ UNCHANGED <<current, state, stride, priority, heap, procNum, busy>>
      /\ slice' = [slice EXCEPT ![current] = IF @ > 0 THEN @ - 1 ELSE @]
      /\ needResched' = (needResched \/ slice'[current] = 0) /\ current \in Task
  BY DEF Tick
<1>2. slice' \in [Task -> 0 .. Slices] /\ needResched' \in BOOLEAN
  BY <1>1, StrideAssumption
<1>3. StrideTypes'
  BY <1>1, <1>2
<1>4. Queued' = Queued /\ Runnable' = Runnable
  BY <1>1 DEF Queued, Runnable
<1>5. BusyRuns'
  BY <1>1, <1>4 DEF BusyRuns
<1> QED BY <1>1, <1>3, <1>4, <1>5

LEMMA PriorityKeeps ==
  ASSUME StrideInv, NEW v \in Priorities, lab6_set_priority(v)
  PROVE  StrideInv'
<1> USE DEF StrideInv, StrideTypes
<1>1. /\ UNCHANGED <<current, state, stride, slice, needResched, heap, procNum, busy>>
      /\ priority' = [priority EXCEPT ![current] = IF v = 0 THEN 1 ELSE v]
      /\ current \in Task
  BY DEF lab6_set_priority
<1>2. priority' \in [Task -> Nat]
  BY <1>1, StrideAssumption
<1>3. StrideTypes'
  BY <1>1, <1>2
<1>4. Queued' = Queued /\ Runnable' = Runnable
  BY <1>1 DEF Queued, Runnable
<1>5. BusyRuns'
  BY <1>1, <1>4 DEF BusyRuns
<1> QED BY <1>1, <1>3, <1>4, <1>5

-----------------------------------------------------------------------------
(* schedule().                                                              *)

\* The queue from which the next process is picked.
Pool(st) == IF current # idle /\ st = "runnable" THEN Queued \cup {current} ELSE Queued

\* The heap of that queue, when the current process has been put back.
Refilled(st) == IF current # idle /\ st = "runnable"
                THEN skew_heap_insert(heap, current, stride) ELSE heap

LEMMA RefilledKeeps ==
  ASSUME StrideInv, NEW st, NEW pool, pool = Refilled(st)
  PROVE  /\ Tree(pool, Pool(st), stride)
         /\ Cardinality(Pool(st)) = IF current # idle /\ st = "runnable"
                                    THEN procNum + 1 ELSE procNum
         /\ IsFiniteSet(Pool(st)) /\ Pool(st) \subseteq Task
         /\ current # idle /\ st # "runnable" => current \notin Pool(st)
<1> USE DEF StrideInv, StrideTypes
<1>1. IsFiniteSet(Queued) /\ Queued \subseteq Task /\ current \notin Queued
  BY QueuedFinite
<1>2. CASE current # idle /\ st = "runnable"
  <2>1. PICK h, s, p : h = heap /\ s = stride /\ p = current
    OBVIOUS
  <2>2. pool = skew_heap_insert(h, p, s) /\ p \in Task /\ p \notin Queued
    BY <1>1, <1>2, <2>1 DEF Refilled
  <2>3. Tree(h, Queued, s)
    BY <2>1
  <2>4. Tree(pool, Queued \cup {p}, s)
    BY <2>2, <2>3, InsertKeeps
  <2>5. Pool(st) = Queued \cup {p}
    BY <1>2, <2>1 DEF Pool
  <2>6. IsFiniteSet(Queued \cup {p}) /\ Cardinality(Queued \cup {p}) = procNum + 1
    BY <1>1, <2>2, FS_AddElement
  <2> QED BY <1>1, <1>2, <2>1, <2>2, <2>4, <2>5, <2>6
<1>3. CASE ~ (current # idle /\ st = "runnable")
  <2>1. Pool(st) = Queued /\ pool = heap
    BY <1>3 DEF Pool, Refilled
  <2> QED BY <1>1, <1>3, <2>1
<1> QED BY <1>2, <1>3

\* What schedule does with the root of that heap, and what it keeps.
LEMMA ScheduleIs ==
  ASSUME StrideInv, NEW st \in {"runnable", "sleeping", "none"},
         current = idle => st = "runnable", Schedule(st), NEW pool, pool = Refilled(st)
  PROVE  /\ state' = IF current = idle THEN state ELSE [state EXCEPT ![current] = st]
         /\ IF pool.root = Nil
            THEN /\ current' = idle /\ heap' = pool
                 /\ procNum' = Cardinality(Pool(st))
            ELSE /\ current' = pool.root
                 /\ heap' = skew_heap_remove(pool, pool.root, stride')
                 /\ procNum' = Cardinality(Pool(st)) - 1
                 /\ pool.root \in Pool(st)
                 /\ \E k \in 0 .. BIG_STRIDE :
                      stride'[pool.root] = (stride[pool.root] + k) % Wrap
         /\ stride' \in [Task -> StrideValue]
         /\ \A q \in Pool(st) : q # current' => stride'[q] = stride[q]
         /\ priority' \in [Task -> Nat] /\ slice' \in [Task -> 0 .. Slices]
         /\ needResched' = (current' = idle) /\ busy' = busy
<1> USE DEF StrideInv, StrideTypes
<1> DEFINE Kept(f) == IF st = "none" THEN [f EXCEPT ![current] = 0] ELSE f
           again == current # idle /\ st = "runnable"
           n     == IF again THEN procNum + 1 ELSE procNum
<1>1. /\ state' = IF current = idle THEN state ELSE [state EXCEPT ![current] = st]
      /\ slice' = IF again THEN SliceAfterEnqueue(current, slice) ELSE Kept(slice)
      /\ IF pool.root = Nil
         THEN /\ current' = idle
              /\ heap' = pool
              /\ procNum' = n
              /\ stride' = Kept(stride)
         ELSE /\ current' = pool.root
              /\ stride' = [Kept(stride) EXCEPT ![pool.root] = (@ + Pass(pool.root)) % Wrap]
              /\ heap' = skew_heap_remove(pool, pool.root, stride')
              /\ procNum' = n - 1
      /\ needResched' = (current' = idle)
      /\ priority' = Kept(priority)
      /\ busy' = busy
  BY DEF Schedule, Refilled
<1>2. /\ Tree(pool, Pool(st), stride) /\ Cardinality(Pool(st)) = n /\ Pool(st) \subseteq Task
      /\ st = "none" => current \in Task /\ current \notin Pool(st)
  BY RefilledKeeps
<1>3. 0 \in StrideValue /\ 0 \in 0 .. Slices /\ 0 \in Nat
  BY StrideAssumption, WrapFacts DEF StrideValue
<1>4. PICK ks : ks = Kept(stride)
  OBVIOUS
<1>5. ks \in [Task -> StrideValue] /\ \A q \in Pool(st) : ks[q] = stride[q]
  BY <1>2, <1>3, <1>4
<1>6. Kept(slice) \in [Task -> 0 .. Slices] /\ Kept(priority) \in [Task -> Nat]
  BY <1>3
<1>7. slice' \in [Task -> 0 .. Slices]
  BY <1>1, <1>6, SliceType
<1>8. CASE pool.root = Nil
  BY <1>1, <1>2, <1>4, <1>5, <1>6, <1>7, <1>8
<1>9. CASE pool.root # Nil
  <2>1. PICK r, k, x : r = pool.root /\ k = Pass(r) /\ x = (ks[r] + k) % Wrap
    OBVIOUS
  <2>2. r \in Pool(st) /\ r \in Task
    BY <1>2, <1>9, <2>1, TreeFacts
  <2>3. k \in 0 .. BIG_STRIDE
    BY <2>1, <2>2, PassType
  <2>4. x \in StrideValue /\ x = (stride[r] + k) % Wrap
    <3>1. ks[r] \in Int /\ k \in Int /\ ks[r] = stride[r]
      BY <1>5, <2>2, <2>3, WrapFacts DEF StrideValue
    <3>2. PICK y : y = ks[r] + k
      OBVIOUS
    <3>3. y \in Int /\ x = y % Wrap
      BY <2>1, <3>1, <3>2
    <3> QED BY <2>1, <3>1, <3>3, WrapFacts DEF StrideValue
  <2>5. stride' = [ks EXCEPT ![r] = x]
    BY <1>1, <1>4, <1>9, <2>1
  <2>6. stride' \in [Task -> StrideValue] /\ stride'[r] = x
        /\ \A q \in Task : q # r => stride'[q] = ks[q]
    BY <1>5, <2>2, <2>4, <2>5
  <2>7. stride'[pool.root] = (stride[pool.root] + k) % Wrap
    BY <2>1, <2>4, <2>6
  <2> HIDE DEF Kept
  <2> QED BY <1>1, <1>2, <1>5, <1>6, <1>7, <1>9, <2>1, <2>2, <2>3, <2>6, <2>7
<1> QED BY <1>8, <1>9

LEMMA ScheduleKeeps ==
  ASSUME StrideInv, NEW st \in {"runnable", "sleeping", "none"},
         current = idle => st = "runnable", busy => st = "runnable", Schedule(st)
  PROVE  StrideInv'
<1> USE DEF StrideInv, StrideTypes
<1>1. PICK pool, new : pool = Refilled(st) /\ new = heap'
  OBVIOUS
<1>2. /\ state' = IF current = idle THEN state ELSE [state EXCEPT ![current] = st]
      /\ IF pool.root = Nil
         THEN /\ current' = idle /\ heap' = pool
              /\ procNum' = Cardinality(Pool(st))
         ELSE /\ current' = pool.root
              /\ heap' = skew_heap_remove(pool, pool.root, stride')
              /\ procNum' = Cardinality(Pool(st)) - 1
              /\ pool.root \in Pool(st)
              /\ \E k \in 0 .. BIG_STRIDE :
                   stride'[pool.root] = (stride[pool.root] + k) % Wrap
      /\ stride' \in [Task -> StrideValue]
      /\ \A q \in Pool(st) : q # current' => stride'[q] = stride[q]
      /\ priority' \in [Task -> Nat] /\ slice' \in [Task -> 0 .. Slices]
      /\ needResched' = (current' = idle) /\ busy' = busy
  BY <1>1, ScheduleIs
<1>3. /\ Tree(pool, Pool(st), stride) /\ IsFiniteSet(Pool(st)) /\ Pool(st) \subseteq Task
      /\ current # idle /\ st # "runnable" => current \notin Pool(st)
  BY <1>1, RefilledKeeps
<1>4. PICK r, s, w : r = pool.root /\ s = stride /\ w = stride'
  OBVIOUS
<1>5. \A q \in Task : state'[q] = IF q = current THEN st ELSE state[q]
  BY <1>2, StrideAssumption
<1>6. Runnable' = Pool(st)
  <2>1. ASSUME NEW q \in Task PROVE state'[q] = "runnable" <=> q \in Pool(st)
    <3>1. q \in Queued <=> state[q] = "runnable" /\ q # current
      BY DEF Queued
    <3>2. current = idle => q # current
      BY StrideAssumption
    <3>3. CASE current # idle /\ st = "runnable"
      BY <1>5, <3>1, <3>3 DEF Pool
    <3>4. CASE ~ (current # idle /\ st = "runnable")
      BY <1>5, <3>1, <3>2, <3>4 DEF Pool
    <3> QED BY <3>3, <3>4
  <2> QED BY <1>3, <2>1 DEF Runnable
<1>7. Queued' = Pool(st) \ {current'}
  BY <1>6 DEF Runnable, Queued
<1>8. state' \in [Task -> {"none", "runnable", "sleeping"}]
  BY <1>2
<1>9. CASE r = Nil
  <2>1. Pool(st) = {}
    BY <1>3, <1>4, <1>9, TreeEmpty
  <2>2. Tree(new, Pool(st), w)
    <3>1. Tree(new, Pool(st), s) /\ \A q \in Pool(st) : w[q] = s[q]
      BY <1>1, <1>2, <1>3, <1>4, <1>9, <2>1
    <3> QED BY <3>1, TreeStrides
  <2>3. BusyRuns'
    <3>1. busy => \A q \in Task : state'[q] # "sleeping"
      BY <1>5 DEF BusyRuns
    <3> QED BY <1>2, <1>6, <2>1, <3>1 DEF BusyRuns, Near
  <2>4. StrideTypes'
    BY <1>2, <1>4, <1>8, <1>9
  <2>5. Queued' = Pool(st) /\ current' = idle /\ procNum' = Cardinality(Pool(st))
    BY <1>2, <1>4, <1>7, <1>9, <2>1
  <2> QED BY <1>1, <1>4, <2>2, <2>3, <2>4, <2>5
<1>10. CASE r # Nil
  <2>1. /\ current' = r /\ r \in Pool(st) /\ r \in Task
        /\ new = skew_heap_remove(pool, r, w)
        /\ procNum' = Cardinality(Pool(st)) - 1
        /\ \A q \in Pool(st) \ {r} : w[q] = s[q]
    BY <1>1, <1>2, <1>3, <1>4, <1>10
  <2>2. Tree(pool, Pool(st), s)
    BY <1>3, <1>4
  <2>3. Tree(new, Pool(st) \ {r}, w)
    BY <1>4, <1>10, <2>1, <2>2, RemoveKeeps
  <2>4. procNum' = Cardinality(Pool(st) \ {r})
    BY <1>3, <2>1, FS_RemoveElement
  <2>5. StrideTypes'
    BY <1>2, <1>8, <2>1
  <2>6. state'[current'] = "runnable"
    BY <1>6, <2>1 DEF Runnable
  <2>7. BusyRuns'
    <3>1. SUFFICES ASSUME busy
                   PROVE  /\ \A q \in Task : state'[q] # "sleeping"
                          /\ Near(Runnable', stride')
      BY <1>2 DEF BusyRuns
    <3>2. \A q \in Task : state'[q] # "sleeping"
      BY <1>5, <3>1 DEF BusyRuns
    <3>3. Runnable = Pool(st)
      <4>1. ASSUME NEW q \in Task PROVE state[q] = "runnable" <=> q \in Pool(st)
        <5>1. q \in Queued <=> state[q] = "runnable" /\ q # current
          BY DEF Queued
        <5>2. st = "runnable"
          BY <3>1
        <5>3. CASE current = idle
          BY <5>1, <5>3, StrideAssumption DEF Pool
        <5>4. CASE current # idle
          BY <5>1, <5>2, <5>4 DEF Pool
        <5> QED BY <5>3, <5>4
      <4> QED BY <1>3, <4>1 DEF Runnable
    <3>4. Near(Pool(st), s)
      BY <1>4, <3>1, <3>3 DEF BusyRuns
    <3>5. \A q \in Pool(st) : s[q] \in StrideValue
      BY <1>3, <1>4
    <3>6. Over(Pool(st), s, s[r])
      BY <1>4, <1>10, <2>2, <3>4, <3>5, RootLeast
    <3>7. PICK k \in 0 .. BIG_STRIDE : w[r] = (s[r] + k) % Wrap
      BY <1>2, <1>4, <1>10
    <3>8. Near(Pool(st), w)
      BY <2>1, <3>5, <3>6, <3>7, PassKeeps
    <3> QED BY <1>4, <1>6, <3>2, <3>8
  <2>8. Queued' = Pool(st) \ {r}
    BY <1>7, <2>1
  <2> QED BY <1>1, <1>4, <2>3, <2>4, <2>5, <2>6, <2>7, <2>8
<1> QED BY <1>9, <1>10

LEMMA StrideStep ==
  ASSUME StrideInv, [StrideNext]_strideVars
  PROVE  StrideInv'
<1>1. ASSUME NEW p \in Task, Create(p) PROVE StrideInv'
  BY <1>1, CreateKeeps
<1>2. ASSUME NEW p \in Task, Wake(p) PROVE StrideInv'
  BY <1>2, WakeKeeps
<1>3. ASSUME Yield PROVE StrideInv'
  BY <1>3, ScheduleKeeps DEF Yield
<1>4. ASSUME Sleep PROVE StrideInv'
  BY <1>4, ScheduleKeeps DEF Sleep
<1>5. ASSUME Leave PROVE StrideInv'
  BY <1>5, ScheduleKeeps DEF Leave
<1>6. ASSUME Tick PROVE StrideInv'
  BY <1>6, TickKeeps
<1>7. ASSUME NEW v \in Priorities, lab6_set_priority(v) PROVE StrideInv'
  BY <1>7, PriorityKeeps
<1>8. ASSUME UNCHANGED strideVars PROVE StrideInv'
  <2> USE <1>8 DEF strideVars
  <2>1. Queued' = Queued /\ Runnable' = Runnable
    BY DEF Queued, Runnable
  <2>2. BusyRuns'
    BY <2>1 DEF StrideInv, BusyRuns
  <2> QED BY <2>1, <2>2 DEF StrideInv, StrideTypes
<1> QED BY <1>1, <1>2, <1>3, <1>4, <1>5, <1>6, <1>7, <1>8 DEF StrideNext

\* What the processes, the heap and proc_num are in every state.
THEOREM StrideInductive ==
  StrideSpec => []StrideInv
<1>1. StrideInit => StrideInv
  BY StrideInitially
<1>2. StrideInv /\ [StrideNext]_strideVars => StrideInv'
  BY StrideStep
<1> QED BY <1>1, <1>2, PTL DEF StrideSpec

\* The heap holds every runnable process off the CPU exactly once, its links up
\* agree with those down, its root has none, and proc_num counts its nodes.
THEOREM StrideHeapExact ==
  StrideSpec => []HeapExact
<1>1. StrideInv => HeapExact
  <2>1. SUFFICES ASSUME StrideInv PROVE HeapExact
    OBVIOUS
  <2>2. PICK h, s, t : h = heap /\ s = stride /\ t = Bare(h)
    OBVIOUS
  <2>3. Tree(h, Queued, s) /\ procNum = Cardinality(Queued) /\ Queued \subseteq Task
    BY <2>1, <2>2, QueuedFinite DEF StrideInv
  <2>4. /\ h.root # Nil => h.parent[h.root] = Nil
        /\ t.left = h.left /\ t.right = h.right /\ t.parent = h.parent
        /\ \A p \in Task : t.left[p] \in Queued \cup {Nil} /\ t.right[p] \in Queued \cup {Nil}
        /\ \A p \in Task : t.left[p] = t.right[p] => t.left[p] = Nil
        /\ \A p, c \in Task : Child(t, p, c) => t.parent[c] = p
    BY <2>2, <2>3, TreeFacts
  <2>5. heap.root = Nil => Queued = {}
    BY <2>2, <2>3, TreeEmpty
  <2>6. ASSUME heap.root # Nil PROVE Reached = Queued
    <3>1. ASSUME NEW p \in Task
          PROVE  p \in Queued <=> \A S \in SUBSET Task :
                    (heap.root \in S /\ \A q \in S : Below(q) \subseteq S) => p \in S
      BY <2>2, <2>3, <2>6, TreeReached DEF Below
    <3> QED BY <2>3, <3>1 DEF Reached
  <2>7. ASSUME NEW p \in Queued
        PROVE  /\ heap.left[p] = heap.right[p] => heap.left[p] = Nil
               /\ \A c \in Below(p) : heap.parent[c] = p
    <3>1. \A c \in Below(p) : c \in Task /\ Child(t, p, c)
      BY <2>2, <2>3, <2>4 DEF Below, Child
    <3> QED BY <2>2, <2>3, <2>4, <3>1
  <2> QED BY <2>2, <2>3, <2>4, <2>5, <2>6, <2>7 DEF HeapExact
<1> QED BY <1>1, StrideInductive, PTL

\* Strides of busy processes never drift apart by more than BIG_STRIDE.
THEOREM StridesClose ==
  StrideSpec => []SpreadBounded
<1>1. StrideInv => SpreadBounded
  BY DEF StrideInv, BusyRuns, SpreadBounded, Comparable, Near, Over, Runnable
<1> QED BY <1>1, StrideInductive, PTL

\* schedule picks the least stride of the queue while strides can be compared.
THEOREM StridePicksLeast ==
  StrideSpec => PicksLeast
<1> DEFINE Picks == (Yield \/ Sleep \/ Leave) /\ current' # idle =>
              LET pool == Queued \cup {p \in {current} \ {idle} : state'[p] = "runnable"}
              IN  Comparable(pool) =>
                     \A q \in pool : (stride[q] - stride[current']) % Wrap <= BIG_STRIDE
<1>1. ASSUME StrideInv, NEW st \in {"runnable", "sleeping", "none"},
             current = idle => st = "runnable", Schedule(st), current' # idle,
             NEW Q, Q = Queued \cup {p \in {current} \ {idle} : state'[p] = "runnable"},
             Comparable(Q), NEW q \in Q
      PROVE  (stride[q] - stride[current']) % Wrap <= BIG_STRIDE
  <2>1. PICK pool, s, r : pool = Refilled(st) /\ s = stride /\ r = current'
    OBVIOUS
  <2>2. /\ state' = IF current = idle THEN state ELSE [state EXCEPT ![current] = st]
        /\ pool.root # Nil /\ r = pool.root
    BY <1>1, <2>1, ScheduleIs
  <2>3. Tree(pool, Pool(st), s) /\ Pool(st) \subseteq Task
    BY <1>1, <2>1, RefilledKeeps
  <2>4. Q = Pool(st)
    <3>1. current # idle => state'[current] = st
      BY <1>1, <2>2 DEF StrideInv, StrideTypes
    <3> QED BY <1>1, <3>1 DEF Pool
  <2>5. Near(Q, s)
    BY <1>1, <2>1 DEF Comparable, Near, Over
  <2>6. \A x \in Q : s[x] \in StrideValue
    BY <1>1, <2>1, <2>3, <2>4 DEF StrideInv, StrideTypes
  <2>7. Over(Q, s, s[r])
    BY <2>2, <2>3, <2>4, <2>5, <2>6, RootLeast
  <2> QED BY <1>1, <2>1, <2>7 DEF Over
<1>2. ASSUME StrideInv PROVE Picks
  <2>1. SUFFICES ASSUME Yield \/ Sleep \/ Leave, current' # idle, NEW Q,
                        Q = Queued \cup {p \in {current} \ {idle} : state'[p] = "runnable"},
                        Comparable(Q), NEW q \in Q
                 PROVE  (stride[q] - stride[current']) % Wrap <= BIG_STRIDE
    OBVIOUS
  <2>2. PICK st \in {"runnable", "sleeping", "none"} :
           (current = idle => st = "runnable") /\ Schedule(st)
    BY <2>1 DEF Yield, Sleep, Leave
  <2> QED BY <1>1, <1>2, <2>1, <2>2
<1>3. StrideInv => [Picks]_strideVars
  BY <1>2
<1> QED BY <1>3, StrideInductive, PTL DEF PicksLeast

-----------------------------------------------------------------------------
(* Timers.  A list L of timers at the distances e is a chain; it stays one   *)
(* when a timer is put in or taken out or the head comes nearer, and the     *)
(* sums along it change then as what is left of the timers of AlarmClock.    *)

\* t is s with x put before its i-th element.
With(t, S, s, i, x) ==
    /\ t \in Seq(S) /\ Len(t) = Len(s) + 1 /\ Len(s) \in Nat
    /\ DOMAIN t = 1 .. Len(s) + 1 /\ DOMAIN s = 1 .. Len(s)
    /\ \A j \in 1 .. Len(s) + 1 : t[j] = IF j < i THEN s[j] ELSE IF j = i THEN x ELSE s[j - 1]

LEMMA InsertIs ==
  ASSUME NEW S, NEW s \in Seq(S), NEW i \in 1 .. Len(s) + 1, NEW x \in S,
         NEW t, t = InsertAt(s, i, x)
  PROVE  With(t, S, s, i, x)
<1>1. PICK n \in Nat : n = Len(s) /\ DOMAIN s = 1 .. n /\ i \in 1 .. n + 1
  OBVIOUS
<1>2. PICK a : a = SubSeq(s, 1, i - 1)
  OBVIOUS
<1>3. a \in Seq(S) /\ Len(a) = i - 1 /\ \A j \in 1 .. i - 1 : a[j] = s[j]
  <2>1. a \in Seq(S) /\ Len(a) = i - 1
    BY <1>1, <1>2
  <2>2. \A j \in 1 .. i - 1 : a[j] = s[j]
    BY <1>1, <1>2
  <2> QED BY <2>1, <2>2
<1>4. PICK b : b = SubSeq(s, i, n)
  OBVIOUS
<1>5. b \in Seq(S) /\ Len(b) = n + 1 - i /\ \A j \in 1 .. n + 1 - i : b[j] = s[i + j - 1]
  <2>1. b \in Seq(S) /\ Len(b) = n + 1 - i
    BY <1>1, <1>4
  <2>2. \A j \in 1 .. n + 1 - i : b[j] = s[i + j - 1]
    BY <1>1, <1>4
  <2> QED BY <2>1, <2>2
<1>6. PICK c : c = Append(a, x)
  OBVIOUS
<1>7. c \in Seq(S) /\ Len(c) = i /\ \A j \in 1 .. i : c[j] = IF j < i THEN s[j] ELSE x
  <2>1. c \in Seq(S) /\ Len(c) = i /\ c[i] = x
    BY <1>1, <1>3, <1>6
  <2>2. \A j \in 1 .. i - 1 : c[j] = a[j]
    BY <1>1, <1>3, <1>6
  <2> QED BY <1>1, <1>3, <2>1, <2>2
<1>8. t = c \o b
  <2>1. a \o <<x>> = Append(a, x)
    BY <1>3
  <2> QED BY <1>1, <1>2, <1>4, <1>6, <2>1 DEF InsertAt
<1>9. /\ t \in Seq(S) /\ Len(t) = n + 1
      /\ \A j \in 1 .. n + 1 : t[j] = IF j <= i THEN c[j] ELSE b[j - i]
  <2>1. c \in Seq(S) /\ b \in Seq(S)
    BY <1>5, <1>7
  <2>2. /\ c \o b \in Seq(S)
        /\ Len(c \o b) = Len(c) + Len(b)
        /\ \A j \in 1 .. Len(c) + Len(b) :
              (c \o b)[j] = IF j <= Len(c) THEN c[j] ELSE b[j - Len(c)]
    BY <2>1, ConcatProperties, Zenon
  <2>3. Len(c) = i /\ Len(c) + Len(b) = n + 1
    BY <1>1, <1>5, <1>7
  <2> QED BY <1>8, <2>2, <2>3
<1>10. ASSUME NEW j \in 1 .. n + 1
       PROVE  t[j] = IF j < i THEN s[j] ELSE IF j = i THEN x ELSE s[j - 1]
  <2>1. CASE j <= i
    <3>1. j \in 1 .. i /\ t[j] = c[j]
      BY <1>1, <1>9, <1>10, <2>1
    <3> QED BY <1>1, <1>7, <3>1
  <2>2. CASE j > i
    <3>1. j - i \in 1 .. n + 1 - i /\ i + (j - i) - 1 = j - 1 /\ t[j] = b[j - i]
      BY <1>1, <1>9, <1>10, <2>2
    <3>2. b[j - i] = s[i + (j - i) - 1]
      BY <1>5, <3>1
    <3> QED BY <1>1, <2>2, <3>1, <3>2
  <2> QED BY <1>1, <2>1, <2>2
<1>11. DOMAIN t = 1 .. n + 1
  BY <1>1, <1>9
<1> QED BY <1>1, <1>9, <1>10, <1>11 DEF With

\* The sums of the distances e along the list L.
DueOf(L, e) ==
    LET sum[i \in 0 .. Len(L)] == IF i = 0 THEN 0 ELSE sum[i - 1] + e[L[i]]
    IN  sum

Sums(d, L, e) ==
    /\ d \in [0 .. Len(L) -> Nat] /\ d[0] = 0
    /\ \A i \in 1 .. Len(L) : d[i] = d[i - 1] + e[L[i]]

LEMMA SumIs ==
  ASSUME NEW L \in Seq(Timer), NEW e \in [Timer -> Nat], NEW d, d = DueOf(L, e)
  PROVE  Sums(d, L, e)
<1>1. PICK N : N = Len(L) /\ N \in Nat
  OBVIOUS
<1>2. \A i \in 1 .. N : L[i] \in Timer /\ e[L[i]] \in Nat
  BY <1>1
<1> DEFINE step == [y \in Nat \X (0 .. N - 1) |-> y[1] + e[L[y[2] + 1]]]
<1>3. step \in [Nat \X (0 .. N - 1) -> Nat]
  <2>1. ASSUME NEW y \in Nat \X (0 .. N - 1) PROVE y[1] + e[L[y[2] + 1]] \in Nat
    <3>1. y[1] \in Nat /\ y[2] + 1 \in 1 .. N
      BY <1>1
    <3> QED BY <1>2, <3>1
  <2> QED BY <2>1
<1>4. \A v \in Nat, i \in 1 .. N : step[<<v, i - 1>>] = v + e[L[i]]
  <2>1. ASSUME NEW v \in Nat, NEW i \in 1 .. N PROVE step[<<v, i - 1>>] = v + e[L[i]]
    <3>1. <<v, i - 1>> \in Nat \X (0 .. N - 1) /\ (i - 1) + 1 = i
      BY <1>1
    <3> QED BY <3>1
  <2> QED BY <2>1
<1> HIDE DEF step
<1>5. PICK f \in [0 .. N -> Nat] : Recurses(f, 0, N, step)
  BY <1>1, <1>3, Recursion
<1>6. \A i \in 1 .. N : f[i] = f[i - 1] + e[L[i]]
  <2>1. ASSUME NEW i \in 1 .. N PROVE f[i] = f[i - 1] + e[L[i]]
    <3>1. f[i] = step[<<f[i - 1], i - 1>>]
      BY <1>5 DEF Recurses
    <3>2. f[i - 1] \in Nat
      <4>1. i - 1 \in 0 .. N
        BY <1>1
      <4> QED BY <1>5, <4>1
    <3> QED BY <1>4, <3>1, <3>2
  <2> QED BY <2>1
<1> DEFINE After(i, g) == IF i = 0 THEN 0 ELSE g[i - 1] + e[L[i]]
<1>7. f = [i \in 0 .. N |-> After(i, f)]
  <2>1. ASSUME NEW i \in 0 .. N PROVE f[i] = After(i, f)
    BY <1>1, <1>5, <1>6 DEF Recurses
  <2>2. f = [i \in 0 .. N |-> f[i]]
    BY <1>5
  <2> HIDE DEF After
  <2> QED BY <2>1, <2>2
<1>8. d = [i \in 0 .. N |-> After(i, d)]
  <2> DEFINE g == CHOOSE g : g = [i \in 0 .. N |-> After(i, g)]
  <2>1. g = [i \in 0 .. N |-> After(i, g)]
    BY <1>7
  <2>2. d = g
    BY <1>1 DEF DueOf
  <2> QED BY <2>1, <2>2
<1>9. d[0] = 0 /\ \A i \in 1 .. N : d[i] = d[i - 1] + e[L[i]]
  <2>1. \A i \in 0 .. N : d[i] = After(i, d)
    BY <1>8
  <2> QED BY <1>1, <2>1
<1>10. \A i \in 0 .. N : d[i] \in Nat
  <2> DEFINE T == {k \in Nat : k <= N => d[k] \in Nat}
  <2>1. 0 \in T
    BY <1>9
  <2>2. ASSUME NEW k \in Nat, k \in T PROVE k + 1 \in T
    <3>1. SUFFICES ASSUME k + 1 <= N PROVE d[k + 1] \in Nat
      OBVIOUS
    <3>2. k + 1 \in 1 .. N /\ (k + 1) - 1 = k /\ d[k] \in Nat
      BY <1>1, <2>2, <3>1
    <3>3. d[k + 1] = d[k] + e[L[k + 1]]
      BY <1>9, <3>2
    <3> QED BY <1>2, <3>2, <3>3
  <2> HIDE DEF T
  <2>3. Nat \subseteq T
    BY <2>1, <2>2, Induct
  <2> QED BY <1>1, <2>3 DEF T
<1>11. d \in [0 .. N -> Nat]
  BY <1>8, <1>10
<1> QED BY <1>1, <1>9, <1>11 DEF Sums

\* What is left of each timer, from the sums along the list.
LeftOf(L, d) ==
    [t \in Timer |-> IF \E i \in DOMAIN L : L[i] = t
                     THEN d[CHOOSE i \in DOMAIN L : L[i] = t] ELSE 0]

Listed(L) == {L[i] : i \in DOMAIN L}

Ascends(d, N) == \A i, j \in 0 .. N : i <= j => d[i] <= d[j]

\* No timer is in the list twice.
Apart(L) == \A i, j \in 1 .. Len(L) : L[i] = L[j] => i = j

\* h sums the distances f along the list M.
Adds(h, M, f) == h[0] = 0 /\ \A i \in 1 .. Len(M) : h[i] = h[i - 1] + f[M[i]]

\* The ticks l left of the timers of M are those that h says.
Shows(l, M, h) ==
    /\ l \in [Timer -> Nat]
    /\ \A i \in 1 .. Len(M) : l[M[i]] = h[i]
    /\ \A t \in Timer \ Listed(M) : l[t] = 0

\* Timers of the same deadline stand in the order R.
InTurn(L, d, R) == \A i, j \in 1 .. Len(L) : i < j /\ d[i] = d[j] => <<L[i], L[j]>> \in R

\* A list of timers at the distances e that are due after d.
Chain(L, e, R) ==
    /\ L \in Seq(Timer) /\ e \in [Timer -> Nat]
    /\ Apart(L)
    /\ \A t \in Timer \ Listed(L) : e[t] = 0
    /\ L # <<>> => e[L[1]] # 0
    /\ InTurn(L, DueOf(L, e), R)

LEMMA SumsAscend ==
  ASSUME NEW L \in Seq(Timer), NEW e \in [Timer -> Nat], NEW d, Sums(d, L, e)
  PROVE  Ascends(d, Len(L))
<1>1. PICK N : N = Len(L) /\ N \in Nat
  OBVIOUS
<1>2. ASSUME NEW i \in 0 .. N PROVE \A j \in 0 .. N : i <= j => d[i] <= d[j]
  <2> DEFINE T == {k \in Nat : i <= k /\ k <= N => d[i] <= d[k]}
  <2>1. 0 \in T
    BY <1>1 DEF Sums
  <2>2. ASSUME NEW k \in Nat, k \in T PROVE k + 1 \in T
    <3>1. SUFFICES ASSUME i <= k + 1, k + 1 <= N PROVE d[i] <= d[k + 1]
      OBVIOUS
    <3>2. k + 1 \in 1 .. N /\ (k + 1) - 1 = k /\ L[k + 1] \in Timer
          /\ d[k] \in Nat /\ d[k + 1] \in Nat /\ d[i] \in Nat
      <4>1. k + 1 \in 1 .. N /\ (k + 1) - 1 = k /\ k \in 0 .. N /\ k + 1 \in 0 .. N
        BY <1>1, <3>1
      <4>2. d \in [0 .. N -> Nat]
        BY <1>1 DEF Sums
      <4> QED BY <1>1, <4>1, <4>2
    <3>3. d[k + 1] = d[k] + e[L[k + 1]] /\ e[L[k + 1]] \in Nat
      BY <1>1, <3>2 DEF Sums
    <3>4. CASE i = k + 1
      BY <3>2, <3>4
    <3>5. CASE i # k + 1
      <4>1. d[i] <= d[k]
        BY <1>1, <2>2, <3>1, <3>5
      <4> QED BY <3>2, <3>3, <4>1
    <3> QED BY <3>4, <3>5
  <2> HIDE DEF T
  <2>3. Nat \subseteq T
    BY <2>1, <2>2, Induct
  <2> QED BY <2>3 DEF T
<1> QED BY <1>1, <1>2 DEF Ascends

LEMMA LeftIs ==
  ASSUME NEW L \in Seq(Timer), Apart(L), NEW d \in [0 .. Len(L) -> Nat], NEW l, l = LeftOf(L, d)
  PROVE  Shows(l, L, d)
<1>1. PICK N : N = Len(L) /\ N \in Nat /\ DOMAIN L = 1 .. N
  OBVIOUS
<1>2. ASSUME NEW i \in 1 .. N PROVE L[i] \in Timer /\ l[L[i]] = d[i]
  <2>1. L[i] \in Timer
    BY <1>1
  <2>2. PICK t, k : t = L[i] /\ k = CHOOSE j \in DOMAIN L : L[j] = t
    OBVIOUS
  <2>3. k \in 1 .. N /\ L[k] = t
    BY <1>1, <2>2
  <2>4. k = i
    BY <1>1, <2>2, <2>3 DEF Apart
  <2>5. l[t] = d[k]
    BY <1>1, <2>1, <2>2 DEF LeftOf
  <2> QED BY <2>1, <2>2, <2>4, <2>5
<1>3. \A t \in Timer \ Listed(L) : l[t] = 0
  BY DEF LeftOf, Listed
<1>4. \A t \in Timer : l[t] \in Nat
  BY <1>1, <1>2, <1>3 DEF Listed
<1>5. l = [t \in Timer |-> l[t]]
  BY DEF LeftOf
<1>6. l \in [Timer -> Nat]
  BY <1>4, <1>5
<1> QED BY <1>1, <1>2, <1>3, <1>6 DEF Shows

\* Everything that is known of a chain.
LEMMA ChainFacts ==
  ASSUME NEW L, NEW e, NEW R, Chain(L, e, R), NEW d, d = DueOf(L, e), NEW l, l = LeftOf(L, d)
  PROVE  /\ Len(L) \in Nat /\ DOMAIN L = 1 .. Len(L) /\ Sums(d, L, e) /\ Ascends(d, Len(L))
         /\ \A i \in 1 .. Len(L) : /\ L[i] \in Timer /\ L[i] \in Listed(L) /\ d[i] \in Nat
                                   /\ d[i] >= 1 /\ l[L[i]] = d[i] /\ d[i - 1] \in Nat
         /\ l \in [Timer -> Nat] /\ Listed(L) \subseteq Timer
         /\ \A t \in Timer : l[t] = 0 <=> t \notin Listed(L)
<1>1. L \in Seq(Timer) /\ e \in [Timer -> Nat]
      /\ Apart(L)
  BY DEF Chain
<1>2. PICK N : N = Len(L) /\ N \in Nat /\ DOMAIN L = 1 .. N
  BY <1>1
<1>3. Sums(d, L, e)
  BY <1>1, SumIs
<1>4. Ascends(d, N)
  BY <1>1, <1>2, <1>3, SumsAscend
<1>5. d \in [0 .. N -> Nat]
  BY <1>2, <1>3 DEF Sums
<1>6. /\ l \in [Timer -> Nat] /\ \A i \in 1 .. N : l[L[i]] = d[i]
      /\ \A t \in Timer \ Listed(L) : l[t] = 0
  <2>1. d \in [0 .. Len(L) -> Nat]
    BY <1>2, <1>5
  <2>2. /\ l \in [Timer -> Nat] /\ \A i \in 1 .. Len(L) : l[L[i]] = d[i]
        /\ \A t \in Timer \ Listed(L) : l[t] = 0
    BY <1>1, <2>1, LeftIs DEF Shows
  <2> QED BY <1>2, <2>2
<1>7. ASSUME NEW i \in 1 .. N
      PROVE  /\ L[i] \in Timer /\ L[i] \in Listed(L) /\ d[i] \in Nat
             /\ d[i] >= 1 /\ l[L[i]] = d[i] /\ d[i - 1] \in Nat
  <2>1. L[i] \in Timer /\ L[i] \in Listed(L) /\ i \in 0 .. N /\ i - 1 \in 0 .. N
    BY <1>1, <1>2 DEF Listed
  <2>2. 1 \in 1 .. N /\ 1 \in 0 .. N /\ L # <<>> /\ 1 - 1 = 0 /\ 1 <= i
    BY <1>1, <1>2
  <2>3. e[L[1]] \in Nat /\ e[L[1]] # 0
    BY <1>1, <1>2, <2>2 DEF Chain
  <2>4. d[1] = d[0] + e[L[1]] /\ d[0] = 0
    BY <1>2, <1>3, <2>2 DEF Sums
  <2>5. d[1] <= d[i] /\ d[i] \in Nat /\ d[i - 1] \in Nat
    BY <1>4, <1>5, <2>1, <2>2 DEF Ascends
  <2> QED BY <1>6, <2>1, <2>3, <2>4, <2>5
<1>8. Listed(L) \subseteq Timer
  BY <1>2, <1>7 DEF Listed
<1>9. \A t \in Timer : l[t] = 0 <=> t \notin Listed(L)
  <2>1. ASSUME NEW t \in Listed(L) PROVE l[t] # 0
    <3>1. PICK i \in 1 .. N : L[i] = t
      BY <1>2 DEF Listed
    <3> QED BY <1>7, <3>1
  <2> QED BY <1>6, <2>1
<1> QED BY <1>2, <1>3, <1>4, <1>6, <1>7, <1>8, <1>9

\* The sums are the only function that sums.
LEMMA SumUnique ==
  ASSUME NEW M \in Seq(Timer), NEW f \in [Timer -> Nat], NEW g, Sums(g, M, f),
         NEW h, Adds(h, M, f)
  PROVE  \A i \in 0 .. Len(M) : g[i] = h[i]
<1>1. PICK N : N = Len(M) /\ N \in Nat
  OBVIOUS
<1> DEFINE T == {k \in Nat : k <= N => g[k] = h[k]}
<1>2. 0 \in T
  BY DEF Sums, Adds
<1>3. ASSUME NEW k \in Nat, k \in T PROVE k + 1 \in T
  <2>1. SUFFICES ASSUME k + 1 <= N PROVE g[k + 1] = h[k + 1]
    OBVIOUS
  <2>2. k + 1 \in 1 .. N /\ (k + 1) - 1 = k /\ g[k] = h[k]
    BY <1>1, <1>3, <2>1
  <2>3. g[k + 1] = g[k] + f[M[k + 1]]
    BY <1>1, <2>2 DEF Sums
  <2>4. h[k + 1] = h[k] + f[M[k + 1]]
    BY <1>1, <2>2 DEF Adds
  <2> QED BY <2>2, <2>3, <2>4
<1> HIDE DEF T
<1>4. Nat \subseteq T
  BY <1>2, <1>3, Induct
<1> QED BY <1>1, <1>4 DEF T

\* h sums the distances f along the list M, and l says so of its timers.
Measured(M, f, h, l) ==
    M \in Seq(Timer) /\ f \in [Timer -> Nat] /\ Apart(M) /\ Adds(h, M, f) /\ Shows(l, M, h)

\* The ticks of the timers of a list from any function h that sums its distances.
LEMMA SumsAre ==
  ASSUME NEW M, NEW f, NEW h, NEW l, Measured(M, f, h, l)
  PROVE  /\ \A i \in 1 .. Len(M) : DueOf(M, f)[i] = h[i]
         /\ LeftOf(M, DueOf(M, f)) = l
<1>0. M \in Seq(Timer) /\ f \in [Timer -> Nat] /\ Apart(M) /\ Adds(h, M, f) /\ Shows(l, M, h)
  BY DEF Measured
<1>1. PICK N, g, k : N = Len(M) /\ g = DueOf(M, f) /\ k = LeftOf(M, g)
  OBVIOUS
<1>2. Sums(g, M, f)
  BY <1>0, <1>1, SumIs
<1>3. \A i \in 0 .. Len(M) : g[i] = h[i]
  BY <1>0, <1>2, SumUnique
<1>4. N \in Nat /\ DOMAIN M = 1 .. N /\ \A i \in 1 .. N : g[i] = h[i]
  BY <1>0, <1>1, <1>3
<1>5. g \in [0 .. Len(M) -> Nat]
  BY <1>2 DEF Sums
<1>6. Shows(k, M, g)
  BY <1>0, <1>1, <1>5, LeftIs
<1>7. ASSUME NEW t \in Timer PROVE k[t] = l[t]
  <2>1. CASE t \in Listed(M)
    <3>1. PICK i \in 1 .. N : M[i] = t
      BY <1>4, <2>1 DEF Listed
    <3> QED BY <1>0, <1>1, <1>4, <1>6, <3>1 DEF Shows
  <2>2. CASE t \notin Listed(M)
    BY <1>0, <1>6, <2>2 DEF Shows
  <2> QED BY <2>1, <2>2
<1>8. k = l
  BY <1>0, <1>6, <1>7 DEF Shows
<1> QED BY <1>1, <1>4, <1>8

\* The walk of add_timer stops at the at-th timer, and f are the distances then.
PutAt(L, e, d, t, n, at, f) ==
    /\ t \in Timer \ Listed(L) /\ n \in Nat /\ n >= 1 /\ at \in 1 .. Len(L) + 1
    /\ at <= Len(L) => n - d[at - 1] < e[L[at]]
    /\ \A i \in 1 .. at - 1 : ~ (i <= Len(L) => n - d[i - 1] < e[L[i]])
    /\ f = [u \in Timer |->
              IF u = t THEN n - d[at - 1]
              ELSE IF at <= Len(L) /\ u = L[at] THEN e[u] - (n - d[at - 1])
              ELSE e[u]]

\* add_timer.
LEMMA TimerAddKeeps ==
  ASSUME NEW L, NEW e, NEW R, Chain(L, e, R), NEW d, d = DueOf(L, e), NEW l, l = LeftOf(L, d),
         NEW t, NEW n, NEW at, NEW f, PutAt(L, e, d, t, n, at, f), NEW M, M = InsertAt(L, at, t),
         NEW Q, Q = R \cup {<<u, t>> : u \in Listed(L)}
  PROVE  /\ Chain(M, f, Q) /\ LeftOf(M, DueOf(M, f)) = [l EXCEPT ![t] = n]
         /\ Listed(M) = Listed(L) \cup {t}
<1>1. PICK N : N = Len(L)
  OBVIOUS
<1>put. t \in Timer \ Listed(L) /\ n \in Nat /\ n >= 1 /\ at \in 1 .. N + 1
  BY <1>1 DEF PutAt
<1>stop. at <= N => n - d[at - 1] < e[L[at]]
  BY <1>1 DEF PutAt
<1>walk. \A i \in 1 .. at - 1 : ~ (i <= N => n - d[i - 1] < e[L[i]])
  BY <1>1 DEF PutAt
<1>2. /\ N \in Nat /\ DOMAIN L = 1 .. N /\ Sums(d, L, e) /\ Ascends(d, N)
      /\ \A i \in 1 .. N : /\ L[i] \in Timer /\ L[i] \in Listed(L) /\ d[i] \in Nat
                           /\ d[i] >= 1 /\ l[L[i]] = d[i] /\ d[i - 1] \in Nat
      /\ l \in [Timer -> Nat] /\ Listed(L) \subseteq Timer
      /\ \A u \in Timer : l[u] = 0 <=> u \notin Listed(L)
  BY <1>1, ChainFacts
<1>3. /\ L \in Seq(Timer) /\ e \in [Timer -> Nat]
      /\ \A i, j \in 1 .. N : L[i] = L[j] => i = j
      /\ \A u \in Timer \ Listed(L) : e[u] = 0
      /\ L # <<>> => e[L[1]] # 0
      /\ \A i, j \in 1 .. N : i < j /\ d[i] = d[j] => <<L[i], L[j]>> \in R
  BY <1>1 DEF Chain, InTurn, Apart
<1>4. /\ d[0] = 0 /\ \A i \in 1 .. N : d[i] = d[i - 1] + e[L[i]]
      /\ \A i, j \in 0 .. N : i <= j => d[i] <= d[j]
      /\ \A i \in 0 .. N : d[i] \in Nat
  BY <1>1, <1>2 DEF Sums, Ascends
<1>5. /\ M \in Seq(Timer) /\ Len(M) = N + 1 /\ DOMAIN M = 1 .. N + 1 /\ at \in 1 .. N + 1
      /\ \A j \in 1 .. N + 1 : M[j] = IF j < at THEN L[j] ELSE IF j = at THEN t ELSE L[j - 1]
  <2>1. With(M, Timer, L, at, t)
    BY <1>1, <1>3, <1>put, InsertIs
  <2> QED BY <1>1, <1>put, <2>1 DEF With
<1>6. PICK r : r = n - d[at - 1]
  OBVIOUS
<1>7. r \in Nat /\ at - 1 \in 0 .. N /\ d[at - 1] \in Nat /\ n = d[at - 1] + r
  <2>1. at - 1 \in 0 .. N /\ d[at - 1] \in Nat
    BY <1>2, <1>4, <1>5
  <2>2. d[at - 1] <= n
    <3>1. CASE at = 1
      BY <1>4, <1>put, <3>1
    <3>2. CASE at # 1
      <4>1. PICK i : i = at - 1
        OBVIOUS
      <4>2. i \in 1 .. at - 1 /\ i \in 1 .. N
        BY <1>2, <1>5, <3>2, <4>1
      <4>3. ~ (n - d[i - 1] < e[L[i]])
        BY <1>2, <1>walk, <4>2
      <4>4. d[i - 1] \in Nat /\ e[L[i]] \in Nat /\ d[i] = d[i - 1] + e[L[i]]
        BY <1>2, <1>3, <1>4, <4>2
      <4> QED BY <1>put, <4>1, <4>3, <4>4
    <3> QED BY <3>1, <3>2
  <2> QED BY <1>6, <1>put, <2>1, <2>2
<1>8. ASSUME at <= N
      PROVE  /\ at \in 1 .. N /\ L[at] \in Timer /\ L[at] # t /\ e[L[at]] \in Nat
             /\ r < e[L[at]] /\ n < d[at] /\ d[at] = d[at - 1] + e[L[at]]
  <2>1. at \in 1 .. N /\ L[at] \in Timer /\ L[at] # t /\ e[L[at]] \in Nat
    BY <1>2, <1>3, <1>5, <1>8, <1>put
  <2>2. d[at] = d[at - 1] + e[L[at]] /\ r < e[L[at]]
    BY <1>stop, <1>4, <1>6, <1>8, <2>1
  <2> QED BY <1>7, <2>1, <2>2
<1>9. \A u \in Timer : f[u] = IF u = t THEN r
                              ELSE IF at <= N /\ u = L[at] THEN e[u] - r ELSE e[u]
  BY <1>1, <1>6 DEF PutAt
<1>10. f \in [Timer -> Nat]
  <2>1. \A u \in Timer : f[u] \in Nat
    <3>1. ASSUME NEW u \in Timer PROVE f[u] \in Nat
      <4>1. CASE at <= N /\ u = L[at] /\ u # t
        BY <1>7, <1>8, <1>9, <4>1
      <4>2. CASE ~ (at <= N /\ u = L[at] /\ u # t)
        BY <1>3, <1>7, <1>9, <4>2
      <4> QED BY <4>1, <4>2
    <3> QED BY <3>1
  <2> QED BY <2>1 DEF PutAt
<1> DEFINE Old(i) == IF i < at THEN i ELSE i - 1
<1>11. PICK h : h = [i \in 0 .. N + 1 |-> IF i < at THEN d[i] ELSE IF i = at THEN n ELSE d[i - 1]]
  OBVIOUS
<1>12. M[at] = t /\ h[at] = n /\ h[0] = 0 /\ at \in 0 .. N + 1
  <2>1. 0 \in 0 .. N + 1 /\ 0 < at /\ at \in 0 .. N + 1 /\ ~ (at < at)
    BY <1>2, <1>5
  <2> QED BY <1>4, <1>5, <1>11, <2>1
<1>13. ASSUME NEW i \in 0 .. N + 1, i # at
       PROVE  Old(i) \in 0 .. N /\ h[i] = d[Old(i)] /\ d[Old(i)] \in Nat
  <2>1. Old(i) \in 0 .. N
    BY <1>2, <1>5, <1>13
  <2> QED BY <1>4, <1>11, <1>13, <2>1
<1>14. ASSUME NEW i \in 1 .. N + 1, i # at
       PROVE  Old(i) \in 1 .. N /\ M[i] = L[Old(i)] /\ M[i] # t /\ h[i] = d[Old(i)]
  <2>1. Old(i) \in 1 .. N /\ i \in 0 .. N + 1
    BY <1>2, <1>5, <1>14
  <2>2. M[i] = L[Old(i)]
    BY <1>5, <1>14
  <2> QED BY <1>2, <1>13, <1>14, <1>put, <2>1, <2>2
<1>15. ASSUME NEW i \in 1 .. N + 1, NEW j \in 1 .. N + 1, i # at, j # at
       PROVE  /\ i < j => Old(i) < Old(j)
              /\ Old(i) = Old(j) => i = j
              /\ i > at => Old(i) >= at
  BY <1>2, <1>5, <1>15
<1>16. Apart(M)
  <2>1. ASSUME NEW i \in 1 .. N + 1, NEW j \in 1 .. N + 1, M[i] = M[j] PROVE i = j
    <3>1. CASE i # at /\ j # at
      <4>1. Old(i) \in 1 .. N /\ Old(j) \in 1 .. N /\ L[Old(i)] = L[Old(j)]
        BY <1>14, <2>1, <3>1
      <4> HIDE DEF Old
      <4> QED BY <1>3, <1>15, <3>1, <4>1
    <3> HIDE DEF Old
    <3> QED BY <1>12, <1>14, <2>1, <3>1
  <2> QED BY <1>5, <2>1 DEF Apart
<1>17. Listed(M) = Listed(L) \cup {t}
  <2>1. ASSUME NEW u \in Listed(M) PROVE u \in Listed(L) \cup {t}
    <3>1. PICK i \in 1 .. N + 1 : M[i] = u
      BY <1>5 DEF Listed
    <3> HIDE DEF Old
    <3> QED BY <1>2, <1>12, <1>14, <3>1
  <2>2. t \in Listed(M)
    BY <1>5, <1>12 DEF Listed
  <2>3. ASSUME NEW u \in Listed(L) PROVE u \in Listed(M)
    <3>1. PICK i \in 1 .. N : L[i] = u
      BY <1>2 DEF Listed
    <3>2. CASE i < at
      <4>1. i \in 1 .. N + 1 /\ M[i] = u
        BY <1>2, <1>5, <3>1, <3>2
      <4> QED BY <1>5, <4>1 DEF Listed
    <3>3. CASE ~ (i < at)
      <4>1. i + 1 \in 1 .. N + 1 /\ ~ (i + 1 < at) /\ i + 1 # at /\ (i + 1) - 1 = i
        BY <1>2, <1>5, <3>3
      <4>2. M[i + 1] = u
        BY <1>5, <3>1, <4>1
      <4> QED BY <1>5, <4>1, <4>2 DEF Listed
    <3> QED BY <3>2, <3>3
  <2> QED BY <2>1, <2>2, <2>3
<1>18. ASSUME NEW i \in 1 .. N, i # at PROVE f[L[i]] = e[L[i]]
  <2>1. L[i] \in Timer /\ L[i] # t
    BY <1>2, <1>put
  <2>2. at <= N => L[i] # L[at]
    BY <1>3, <1>8, <1>18
  <2> QED BY <1>9, <2>1, <2>2
<1>19. ASSUME NEW i \in 1 .. N + 1 PROVE h[i] = h[i - 1] + f[M[i]]
  <2>1. i - 1 \in 0 .. N + 1 /\ i \in 0 .. N + 1 /\ i \in Nat /\ at \in Nat
    BY <1>2, <1>5
  <2>2. CASE i = at
    <3>1. M[i] = t /\ h[i] = n /\ i - 1 # at /\ Old(i - 1) = at - 1
      BY <1>12, <2>1, <2>2
    <3>2. h[i - 1] = d[at - 1]
      BY <1>13, <2>1, <3>1
    <3>3. f[M[i]] = r
      BY <1>9, <1>put, <3>1
    <3> QED BY <1>7, <3>1, <3>2, <3>3
  <2>3. CASE i = at + 1
    <3>1. at <= N /\ i # at /\ Old(i) = at /\ i - 1 = at
      BY <1>2, <2>1, <2>3
    <3>2. M[i] = L[at] /\ h[i] = d[at] /\ h[i - 1] = n
      BY <1>12, <1>14, <3>1
    <3>3. f[M[i]] = e[L[at]] - r
      BY <1>8, <1>9, <3>1, <3>2
    <3>4. PICK x, y : x = e[L[at]] /\ y = d[at]
      OBVIOUS
    <3>5. x \in Nat /\ y = d[at - 1] + x
      BY <1>8, <3>1, <3>4
    <3>6. PICK z, w : z = d[at - 1] /\ w = f[M[i]]
      OBVIOUS
    <3>7. z \in Nat /\ r \in Nat /\ n = z + r /\ y = z + x /\ w = x - r
      BY <1>7, <3>3, <3>4, <3>5, <3>6
    <3>8. y = n + w
      BY <3>5, <3>7
    <3> QED BY <3>2, <3>4, <3>6, <3>8
  <2>4. CASE i # at /\ i # at + 1
    <3>1. PICK j : j = Old(i)
      OBVIOUS
    <3>2. Old(i - 1) = j - 1 /\ i - 1 # at /\ j # at
      BY <2>1, <2>4, <3>1
    <3>3. j \in 1 .. N /\ M[i] = L[j] /\ h[i] = d[j]
      BY <1>14, <2>4, <3>1
    <3>4. h[i - 1] = d[j - 1]
      BY <1>13, <2>1, <3>2
    <3>5. f[M[i]] = e[L[j]]
      BY <1>18, <3>2, <3>3
    <3> QED BY <1>4, <3>3, <3>4, <3>5
  <2> QED BY <2>2, <2>3, <2>4
<1>20. PICK k : k = [l EXCEPT ![t] = n]
  OBVIOUS
<1>21. k \in [Timer -> Nat] /\ k[t] = n /\ \A u \in Timer : u # t => k[u] = l[u]
  BY <1>2, <1>put, <1>20
<1>22. Shows(k, M, h)
  <2>1. ASSUME NEW i \in 1 .. N + 1 PROVE k[M[i]] = h[i]
    <3>1. CASE i = at
      BY <1>12, <1>21, <3>1
    <3>2. CASE i # at
      <4>1. Old(i) \in 1 .. N /\ M[i] = L[Old(i)] /\ M[i] # t /\ h[i] = d[Old(i)]
        BY <1>14, <3>2
      <4> HIDE DEF Old
      <4> QED BY <1>2, <1>21, <4>1
    <3> QED BY <3>1, <3>2
  <2>2. \A u \in Timer \ Listed(M) : k[u] = 0
    BY <1>2, <1>17, <1>21
  <2> QED BY <1>5, <1>21, <2>1, <2>2 DEF Shows
<1>23. Adds(h, M, f)
  BY <1>5, <1>12, <1>19 DEF Adds
<1>24. /\ \A i \in 1 .. Len(M) : DueOf(M, f)[i] = h[i]
       /\ LeftOf(M, DueOf(M, f)) = k
  <2>1. Measured(M, f, h, k)
    BY <1>5, <1>10, <1>16, <1>22, <1>23 DEF Measured
  <2> QED BY <2>1, SumsAre
<1>25. ASSUME NEW i \in 1 .. N + 1, NEW j \in 1 .. N + 1, i < j, h[i] = h[j]
       PROVE  <<M[i], M[j]>> \in Q
  <2>1. CASE j = at
    <3>1. i # at
      BY <1>25, <1>2, <1>5, <2>1
    <3>2. Old(i) \in 1 .. N /\ M[i] = L[Old(i)]
      BY <1>14, <3>1
    <3> HIDE DEF Old
    <3> QED BY <1>2, <1>12, <2>1, <3>2
  <2>2. CASE i = at
    <3>1. j # at /\ j > at /\ at <= N
      BY <1>2, <1>5, <1>25, <2>2
    <3>2. Old(j) \in 1 .. N /\ h[j] = d[Old(j)] /\ at <= Old(j)
      BY <1>14, <1>15, <3>1
    <3>3. PICK x : x = Old(j)
      OBVIOUS
    <3>4. x \in 0 .. N /\ at \in 0 .. N /\ at <= x
      BY <1>2, <1>8, <3>1, <3>2, <3>3
    <3>5. d[at] <= d[x] /\ d[at] \in Nat /\ d[x] \in Nat
      BY <1>4, <3>4
    <3>6. n < d[at] /\ n = d[x]
      BY <1>8, <1>12, <1>25, <2>2, <3>1, <3>2, <3>3
    <3> QED BY <3>5, <3>6
  <2>3. CASE i # at /\ j # at
    <3>1. PICK x, y : x = Old(i) /\ y = Old(j)
      OBVIOUS
    <3>2. /\ x \in 1 .. N /\ y \in 1 .. N /\ x < y /\ d[x] = d[y]
          /\ M[i] = L[x] /\ M[j] = L[y]
      BY <1>14, <1>15, <1>25, <2>3, <3>1
    <3> QED BY <1>3, <3>2
  <2> QED BY <2>1, <2>2, <2>3
<1>26. M # <<>> => f[M[1]] # 0
  <2>1. 1 \in 1 .. N + 1
    BY <1>2
  <2>2. CASE at = 1
    <3>1. M[1] = t /\ r = n
      BY <1>4, <1>5, <1>7, <2>1, <2>2
    <3> QED BY <1>9, <1>put, <3>1
  <2>3. CASE at # 1
    <3>1. 1 < at /\ Old(1) = 1 /\ 1 # at
      BY <1>5, <2>3
    <3>2. 1 \in 1 .. N /\ M[1] = L[1]
      BY <1>14, <2>1, <3>1
    <3>3. L # <<>>
      BY <1>2, <3>2
    <3> QED BY <1>3, <1>18, <3>1, <3>2, <3>3
  <2> QED BY <2>2, <2>3
<1>27. \A u \in Timer \ Listed(M) : f[u] = 0
  BY <1>2, <1>3, <1>8, <1>9, <1>17
<1>28. InTurn(M, DueOf(M, f), Q)
  <2>1. PICK g : g = DueOf(M, f)
    OBVIOUS
  <2>2. \A i \in 1 .. N + 1 : g[i] = h[i]
    BY <1>5, <1>24, <2>1
  <2>3. InTurn(M, g, Q)
    BY <1>5, <1>25, <2>2 DEF InTurn
  <2> QED BY <2>1, <2>3
<1>29. Chain(M, f, Q)
  BY <1>5, <1>10, <1>16, <1>26, <1>27, <1>28 DEF Chain
<1> QED BY <1>17, <1>20, <1>24, <1>29

\* The pairs of R without a member of S are in Q.
Keeps(Q, R, S) == \A a, b : <<a, b>> \in R /\ a \notin S /\ b \notin S => <<a, b>> \in Q

\* del_timer.
LEMMA TimerDelKeeps ==
  ASSUME NEW L, NEW e, NEW R, Chain(L, e, R), NEW d, d = DueOf(L, e), NEW l, l = LeftOf(L, d),
         NEW at \in DOMAIN L, NEW M, M = RemoveAt(L, at),
         NEW f, f = [u \in Timer |->
                       IF u = L[at] THEN 0
                       ELSE IF at < Len(L) /\ u = L[at + 1] THEN e[u] + e[L[at]]
                       ELSE e[u]],
         NEW Q, Keeps(Q, R, {L[at]})
  PROVE  /\ Chain(M, f, Q) /\ LeftOf(M, DueOf(M, f)) = [l EXCEPT ![L[at]] = 0]
         /\ Listed(M) = Listed(L) \ {L[at]}
<1>1. PICK N, t : N = Len(L) /\ t = L[at]
  OBVIOUS
<1>2. /\ N \in Nat /\ DOMAIN L = 1 .. N /\ Sums(d, L, e) /\ Ascends(d, N)
      /\ \A i \in 1 .. N : /\ L[i] \in Timer /\ L[i] \in Listed(L) /\ d[i] \in Nat
                           /\ d[i] >= 1 /\ l[L[i]] = d[i] /\ d[i - 1] \in Nat
      /\ l \in [Timer -> Nat] /\ Listed(L) \subseteq Timer
      /\ \A u \in Timer : l[u] = 0 <=> u \notin Listed(L)
  BY <1>1, ChainFacts
<1>3. /\ L \in Seq(Timer) /\ e \in [Timer -> Nat]
      /\ \A i, j \in 1 .. N : L[i] = L[j] => i = j
      /\ \A u \in Timer \ Listed(L) : e[u] = 0
      /\ \A i, j \in 1 .. N : i < j /\ d[i] = d[j] => <<L[i], L[j]>> \in R
  BY <1>1 DEF Chain, InTurn, Apart
<1>4. /\ d[0] = 0 /\ \A i \in 1 .. N : d[i] = d[i - 1] + e[L[i]]
      /\ \A i \in 0 .. N : d[i] \in Nat
  BY <1>1, <1>2 DEF Sums
<1>5. /\ M \in Seq(Timer) /\ Len(M) = N - 1 /\ DOMAIN M = 1 .. N - 1 /\ at \in 1 .. N
      /\ \A j \in 1 .. N - 1 : M[j] = IF j < at THEN L[j] ELSE L[j + 1]
  <2>1. Without(M, Timer, L, at)
    BY <1>3, RemoveIs
  <2> QED BY <1>1, <2>1 DEF Without
<1>6. t \in Timer /\ t \in Listed(L) /\ e[t] \in Nat
  BY <1>1, <1>2, <1>3, <1>5
<1>7. \A u \in Timer : f[u] = IF u = t THEN 0
                              ELSE IF at < N /\ u = L[at + 1] THEN e[u] + e[t] ELSE e[u]
  BY <1>1
<1>8. f \in [Timer -> Nat]
  <2>1. \A u \in Timer : f[u] \in Nat
    BY <1>3, <1>6, <1>7
  <2> QED BY <2>1
<1> DEFINE Old(i) == IF i < at THEN i ELSE i + 1
<1>9. PICK h : h = [i \in 0 .. N - 1 |-> IF i < at THEN d[i] ELSE d[i + 1]]
  OBVIOUS
<1>10. ASSUME NEW i \in 0 .. N - 1
       PROVE  h[i] = d[Old(i)] /\ Old(i) \in 0 .. N /\ Old(0) = 0
  BY <1>2, <1>5, <1>9
<1>11. ASSUME NEW i \in 1 .. N - 1
       PROVE  /\ Old(i) \in 1 .. N /\ M[i] = L[Old(i)] /\ M[i] # t /\ h[i] = d[Old(i)]
              /\ Old(i) # at
  <2>1. Old(i) \in 1 .. N /\ i \in 0 .. N - 1 /\ Old(i) # at
    <3>1. N \in Nat /\ at \in 1 .. N /\ i \in 1 .. N - 1
      BY <1>2, <1>5
    <3> QED BY <3>1
  <2>2. M[i] = L[Old(i)]
    BY <1>5
  <2>3. h[i] = d[Old(i)]
    BY <1>10, <2>1
  <2> HIDE DEF Old
  <2> QED BY <1>1, <1>3, <1>5, <2>1, <2>2, <2>3
<1>12. ASSUME NEW i \in 1 .. N - 1, NEW j \in 1 .. N - 1
       PROVE  (i < j => Old(i) < Old(j)) /\ (Old(i) = Old(j) => i = j)
  BY <1>2, <1>5
<1>13. Apart(M)
  <2>1. ASSUME NEW i \in 1 .. N - 1, NEW j \in 1 .. N - 1, M[i] = M[j] PROVE i = j
    <3>1. Old(i) \in 1 .. N /\ Old(j) \in 1 .. N /\ L[Old(i)] = L[Old(j)]
      BY <1>11, <2>1
    <3>2. Old(i) = Old(j) => i = j
      BY <1>12
    <3> HIDE DEF Old
    <3> QED BY <1>3, <3>1, <3>2
  <2> QED BY <1>5, <2>1 DEF Apart
<1>14. Listed(M) = Listed(L) \ {t}
  <2>1. ASSUME NEW u \in Listed(M) PROVE u \in Listed(L) \ {t}
    <3>1. PICK i \in 1 .. N - 1 : M[i] = u
      BY <1>5 DEF Listed
    <3> HIDE DEF Old
    <3> QED BY <1>2, <1>11, <3>1
  <2>2. ASSUME NEW u \in Listed(L), u # t PROVE u \in Listed(M)
    <3>1. PICK i \in 1 .. N : L[i] = u
      BY <1>2 DEF Listed
    <3>2. CASE i < at
      <4>1. i \in 1 .. N - 1 /\ M[i] = u
        BY <1>2, <1>5, <3>1, <3>2
      <4> QED BY <1>5, <4>1 DEF Listed
    <3>3. CASE ~ (i < at)
      <4>1. i # at
        BY <1>1, <2>2, <3>1
      <4>2. i - 1 \in 1 .. N - 1 /\ ~ (i - 1 < at) /\ (i - 1) + 1 = i
        BY <1>2, <1>5, <3>3, <4>1
      <4>3. M[i - 1] = u
        BY <1>5, <3>1, <4>2
      <4> QED BY <1>5, <4>2, <4>3 DEF Listed
    <3> QED BY <3>2, <3>3
  <2> QED BY <2>1, <2>2
<1>15. ASSUME NEW i \in 1 .. N, i # at, i # at + 1 PROVE f[L[i]] = e[L[i]]
  <2>1. L[i] \in Timer /\ L[i] # t
    BY <1>1, <1>2, <1>3, <1>5, <1>15
  <2>2. at < N => L[i] # L[at + 1]
    <3>1. SUFFICES ASSUME at < N PROVE L[i] # L[at + 1]
      OBVIOUS
    <3>2. at + 1 \in 1 .. N
      BY <1>2, <1>5, <3>1
    <3> QED BY <1>3, <1>15, <3>2
  <2> QED BY <1>7, <2>1, <2>2
<1>16. ASSUME NEW i \in 1 .. N - 1 PROVE h[i] = h[i - 1] + f[M[i]]
  <2>1. i - 1 \in 0 .. N - 1 /\ i \in Nat /\ at \in Nat
    BY <1>2, <1>5
  <2>2. CASE i = at
    <3>1. Old(i) = at + 1 /\ Old(i - 1) = at - 1 /\ at < N /\ at + 1 \in 1 .. N
          /\ at - 1 \in 0 .. N /\ (at + 1) - 1 = at
      <4>1. N \in Nat /\ at \in 1 .. N - 1
        BY <1>2, <2>2
      <4> QED BY <2>2, <4>1
    <3>2. M[i] = L[at + 1] /\ M[i] # t /\ h[i] = d[at + 1]
      BY <1>11, <3>1
    <3>3. h[i - 1] = d[at - 1]
      BY <1>10, <2>1, <3>1
    <3>4. PICK x, y : x = e[L[at + 1]] /\ y = e[t]
      OBVIOUS
    <3>5. f[M[i]] = x + y /\ L[at + 1] \in Timer
      BY <1>2, <1>7, <3>1, <3>2, <3>4
    <3>6. d[at + 1] = d[at] + x /\ d[at] = d[at - 1] + y
      BY <1>1, <1>4, <1>5, <3>1, <3>4
    <3>7. PICK z : z = d[at - 1]
      OBVIOUS
    <3>8. x \in Nat /\ y \in Nat /\ z \in Nat
      BY <1>3, <1>4, <1>6, <3>1, <3>4, <3>5, <3>7
    <3>9. h[i] = (z + y) + x /\ h[i - 1] = z /\ f[M[i]] = x + y
      BY <3>2, <3>3, <3>5, <3>6, <3>7
    <3>10. (z + y) + x = z + (x + y)
      BY <3>8
    <3> QED BY <3>9, <3>10
  <2>3. CASE i # at
    <3>1. PICK j : j = Old(i)
      OBVIOUS
    <3>2. Old(i - 1) = j - 1 /\ j # at /\ j # at + 1
      BY <2>1, <2>3, <3>1
    <3>3. j \in 1 .. N /\ M[i] = L[j] /\ h[i] = d[j]
      BY <1>11, <3>1
    <3>4. h[i - 1] = d[j - 1]
      BY <1>10, <2>1, <3>2
    <3>5. f[M[i]] = e[L[j]]
      BY <1>15, <3>2, <3>3
    <3> QED BY <1>4, <3>3, <3>4, <3>5
  <2> QED BY <2>2, <2>3
<1>17. PICK k : k = [l EXCEPT ![t] = 0]
  OBVIOUS
<1>18. k \in [Timer -> Nat] /\ k[t] = 0 /\ \A u \in Timer : u # t => k[u] = l[u]
  BY <1>2, <1>6, <1>17
<1>19. Shows(k, M, h)
  <2>1. ASSUME NEW i \in 1 .. N - 1 PROVE k[M[i]] = h[i]
    <3>1. Old(i) \in 1 .. N /\ M[i] = L[Old(i)] /\ M[i] # t /\ h[i] = d[Old(i)]
      BY <1>11
    <3> HIDE DEF Old
    <3> QED BY <1>2, <1>18, <3>1
  <2>2. \A u \in Timer \ Listed(M) : k[u] = 0
    BY <1>2, <1>14, <1>18
  <2> QED BY <1>5, <1>18, <2>1, <2>2 DEF Shows
<1>20. h[0] = 0
  <2>1. 0 \in 0 .. N - 1 \/ N = 0
    BY <1>2
  <2> QED BY <1>2, <1>4, <1>5, <1>10, <2>1
<1>21. Adds(h, M, f)
  BY <1>5, <1>16, <1>20 DEF Adds
<1>22. /\ \A i \in 1 .. Len(M) : DueOf(M, f)[i] = h[i]
       /\ LeftOf(M, DueOf(M, f)) = k
  <2>1. Measured(M, f, h, k)
    BY <1>5, <1>8, <1>13, <1>19, <1>21 DEF Measured
  <2> QED BY <2>1, SumsAre
<1>23. ASSUME NEW i \in 1 .. N - 1, NEW j \in 1 .. N - 1, i < j, h[i] = h[j]
       PROVE  <<M[i], M[j]>> \in Q
  <2>1. PICK x, y : x = Old(i) /\ y = Old(j)
    OBVIOUS
  <2>2. /\ x \in 1 .. N /\ y \in 1 .. N /\ x < y /\ d[x] = d[y]
        /\ M[i] = L[x] /\ M[j] = L[y] /\ M[i] # t /\ M[j] # t
    BY <1>11, <1>12, <1>23, <2>1
  <2>3. <<M[i], M[j]>> \in R
    BY <1>3, <2>2
  <2> QED BY <1>1, <2>2, <2>3 DEF Keeps
<1>24. M # <<>> => f[M[1]] # 0
  <2>1. SUFFICES ASSUME M # <<>> PROVE f[M[1]] # 0
    OBVIOUS
  <2>2. 1 \in 1 .. N - 1 /\ 1 - 1 = 0
    BY <1>2, <1>5, <2>1
  <2>3. h[1] = h[0] + f[M[1]]
    BY <1>16, <2>2
  <2>4. h[1] >= 1 /\ h[1] \in Nat
    <3>1. Old(1) \in 1 .. N /\ h[1] = d[Old(1)]
      BY <1>11, <2>2
    <3> HIDE DEF Old
    <3> QED BY <1>2, <3>1
  <2>5. M[1] \in Timer /\ f[M[1]] \in Nat
    BY <1>5, <1>8, <2>2
  <2> QED BY <1>20, <2>3, <2>4, <2>5
<1>25. \A u \in Timer \ Listed(M) : f[u] = 0
  <2>1. ASSUME NEW u \in Timer \ Listed(M) PROVE f[u] = 0
    <3>1. CASE u = t
      BY <1>7, <3>1
    <3>2. CASE u # t
      <4>1. u \notin Listed(L)
        BY <1>14, <2>1, <3>2
      <4>2. at < N => u # L[at + 1]
        <5>1. at < N => at + 1 \in 1 .. N
          BY <1>2, <1>5
        <5> QED BY <1>2, <4>1, <5>1
      <4> QED BY <1>3, <1>7, <3>2, <4>1, <4>2
    <3> QED BY <3>1, <3>2
  <2> QED BY <2>1
<1>26. InTurn(M, DueOf(M, f), Q)
  <2>1. PICK g : g = DueOf(M, f)
    OBVIOUS
  <2>2. \A i \in 1 .. N - 1 : g[i] = h[i]
    BY <1>5, <1>22, <2>1
  <2>3. InTurn(M, g, Q)
    BY <1>5, <1>23, <2>2 DEF InTurn
  <2> QED BY <2>1, <2>3
<1>27. Chain(M, f, Q)
  BY <1>5, <1>8, <1>13, <1>24, <1>25, <1>26 DEF Chain
<1> QED BY <1>1, <1>14, <1>17, <1>22, <1>27

\* The timers after the first n of L.
Trailing(M, L, n) ==
    /\ M \in Seq(Timer) /\ Len(M) = Len(L) - n /\ DOMAIN M = 1 .. Len(L) - n
    /\ \A j \in 1 .. Len(L) - n : M[j] = L[n + j]

\* The first n timers of L.
Leading(F, L, n) ==
    /\ F \in Seq(Timer) /\ Len(F) = n /\ DOMAIN F = 1 .. n
    /\ \A j \in 1 .. n : F[j] = L[j]

LEMMA SplitIs ==
  ASSUME NEW L \in Seq(Timer), NEW n \in 0 .. Len(L),
         NEW F, F = SubSeq(L, 1, n), NEW M, M = SubSeq(L, n + 1, Len(L))
  PROVE  Leading(F, L, n) /\ Trailing(M, L, n)
<1>1. PICK N : N = Len(L) /\ N \in Nat
  OBVIOUS
<1>2. F \in Seq(Timer) /\ Len(F) = n /\ M \in Seq(Timer) /\ Len(M) = N - n
  BY <1>1
<1>3. DOMAIN F = 1 .. n /\ DOMAIN M = 1 .. N - n
  BY <1>1, <1>2
<1>4. \A j \in 1 .. n : F[j] = L[j]
  BY <1>1
<1>5. \A j \in 1 .. N - n : M[j] = L[n + j]
  BY <1>1
<1> QED BY <1>1, <1>2, <1>3, <1>4, <1>5 DEF Leading, Trailing

\* The first timer comes one tick nearer, and no tick is left of the first n.
Ticks(L, e, f, n) ==
    /\ L # <<>> /\ n \in 0 .. Len(L)
    /\ f = [e EXCEPT ![L[1]] = @ - 1]
    /\ \A i \in 1 .. n : f[L[i]] = 0
    /\ n < Len(L) => f[L[n + 1]] # 0

IsFired(S, L, n) == S = {L[i] : i \in 1 .. n}

\* After the tick M is left of L, and F are the timers that fired, those of S in turn.
Ticked(L, R, l, M, f, Q, F, S) ==
    /\ Chain(M, f, Q)
    /\ LeftOf(M, DueOf(M, f)) = [t \in Timer |-> IF l[t] = 0 THEN 0 ELSE l[t] - 1]
    /\ Listed(M) = Listed(L) \ S
    /\ S = {t \in Timer : l[t] = 1}
    /\ {F[i] : i \in DOMAIN F} = S
    /\ \A i, j \in DOMAIN F : i < j => <<F[i], F[j]>> \in R

\* run_timer_list.
LEMMA TimerTickKeeps ==
  ASSUME NEW L, NEW e, NEW R, Chain(L, e, R), NEW d, d = DueOf(L, e), NEW l, l = LeftOf(L, d),
         NEW f, NEW n, Ticks(L, e, f, n),
         NEW F, F = SubSeq(L, 1, n), NEW M, M = SubSeq(L, n + 1, Len(L)),
         NEW S, IsFired(S, L, n), NEW Q, Keeps(Q, R, S)
  PROVE  Ticked(L, R, l, M, f, Q, F, S)
<1>1. PICK N : N = Len(L)
  OBVIOUS
<1>tick. /\ L # <<>> /\ f = [e EXCEPT ![L[1]] = @ - 1] /\ n \in 0 .. N
  BY <1>1 DEF Ticks
<1>zero. \A i \in 1 .. n : f[L[i]] = 0
  BY DEF Ticks
<1>next. n < N => f[L[n + 1]] # 0
  BY <1>1 DEF Ticks
<1>2. /\ N \in Nat /\ DOMAIN L = 1 .. N /\ Sums(d, L, e) /\ Ascends(d, N)
      /\ \A i \in 1 .. N : /\ L[i] \in Timer /\ L[i] \in Listed(L) /\ d[i] \in Nat
                           /\ d[i] >= 1 /\ l[L[i]] = d[i] /\ d[i - 1] \in Nat
      /\ l \in [Timer -> Nat] /\ Listed(L) \subseteq Timer
      /\ \A u \in Timer : l[u] = 0 <=> u \notin Listed(L)
  BY <1>1, ChainFacts
<1>3. /\ L \in Seq(Timer) /\ e \in [Timer -> Nat]
      /\ \A i, j \in 1 .. N : L[i] = L[j] => i = j
      /\ \A u \in Timer \ Listed(L) : e[u] = 0
      /\ \A i, j \in 1 .. N : i < j /\ d[i] = d[j] => <<L[i], L[j]>> \in R
      /\ e[L[1]] # 0
  BY <1>1, <1>tick DEF Chain, InTurn, Apart
<1>4. /\ d[0] = 0 /\ \A i \in 1 .. N : d[i] = d[i - 1] + e[L[i]]
      /\ \A i \in 0 .. N : d[i] \in Nat
      /\ \A i, j \in 0 .. N : i <= j => d[i] <= d[j]
  BY <1>1, <1>2 DEF Sums, Ascends
<1>5. 1 \in 1 .. N /\ L[1] \in Timer /\ e[L[1]] \in Nat /\ e[L[1]] >= 1 /\ n \in 0 .. N
  <2>1. 1 \in 1 .. N
    BY <1>1, <1>2, <1>3, <1>tick
  <2>2. L[1] \in Timer /\ e[L[1]] \in Nat
    BY <1>2, <1>3, <2>1
  <2> QED BY <1>3, <1>tick, <2>1, <2>2
<1>6. Leading(F, L, n) /\ Trailing(M, L, n)
  BY <1>1, <1>3, <1>tick, SplitIs
<1>len. N \in Nat /\ n \in 0 .. N /\ 1 \in 1 .. N
  BY <1>2, <1>5
<1>tim. \A i \in 1 .. N : L[i] \in Timer /\ L[i] \in Listed(L)
  BY <1>2
<1>due. \A i \in 1 .. N : d[i] \in Nat /\ d[i] >= 1 /\ d[i - 1] \in Nat
  BY <1>2
<1>left. \A i \in 1 .. N : l[L[i]] = d[i]
  BY <1>2
<1>type. /\ l \in [Timer -> Nat] /\ Listed(L) \subseteq Timer
        /\ \A u \in Timer : l[u] = 0 <=> u \notin Listed(L)
  BY <1>2
<1>at. \A u \in Listed(L) : \E i \in 1 .. N : L[i] = u
  BY <1>2 DEF Listed
<1>apart. \A i, j \in 1 .. N : L[i] = L[j] => i = j
  BY <1>3
<1>fired. \A u : u \in S <=> \E i \in 1 .. n : L[i] = u
  BY DEF IsFired
<1>7. /\ M \in Seq(Timer) /\ Len(M) = N - n /\ DOMAIN M = 1 .. N - n
      /\ \A j \in 1 .. N - n : M[j] = L[n + j]
  BY <1>1, <1>6 DEF Trailing
<1>8. DOMAIN F = 1 .. n /\ \A j \in 1 .. n : F[j] = L[j]
  BY <1>6 DEF Leading
<1>9. f[L[1]] = e[L[1]] - 1 /\ \A u \in Timer : u # L[1] => f[u] = e[u]
  BY <1>3, <1>5, <1>tick
<1>10. f \in [Timer -> Nat]
  <2>1. \A u \in Timer : f[u] \in Nat
    BY <1>3, <1>5, <1>9
  <2> QED BY <1>3, <1>tick, <2>1
<1>11. PICK c : c = [i \in 0 .. N |-> IF i = 0 THEN 0 ELSE d[i] - 1]
  OBVIOUS
<1>12. c[0] = 0 /\ \A i \in 1 .. N : c[i] = d[i] - 1 /\ c[i] \in Nat
  BY <1>2, <1>11
<1>13. ASSUME NEW i \in 1 .. N PROVE c[i] = c[i - 1] + f[L[i]]
  <2>1. CASE i = 1
    <3>1. d[1] = d[0] + e[L[1]] /\ d[0] = 0 /\ c[1] = d[1] - 1 /\ c[1 - 1] = 0
      BY <1>4, <1>5, <1>12
    <3> QED BY <1>5, <1>9, <2>1, <3>1
  <2>2. CASE i # 1
    <3>1. i - 1 \in 1 .. N /\ L[i] # L[1] /\ L[i] \in Timer
      BY <1>len, <1>tim, <1>apart, <2>2
    <3>2. d[i] = d[i - 1] + e[L[i]] /\ c[i] = d[i] - 1 /\ c[i - 1] = d[i - 1] - 1
      BY <1>4, <1>12, <3>1
    <3>3. f[L[i]] = e[L[i]] /\ e[L[i]] \in Nat /\ d[i - 1] \in Nat
      <4>1. e[L[i]] \in Nat
        BY <1>3, <3>1
      <4> QED BY <1>9, <1>due, <3>1, <4>1
    <3>4. PICK x, y : x = d[i - 1] /\ y = e[L[i]]
      OBVIOUS
    <3>5. x \in Nat /\ y \in Nat /\ (x + y) - 1 = (x - 1) + y
      BY <3>3, <3>4
    <3> QED BY <3>2, <3>3, <3>4, <3>5
  <2> QED BY <2>1, <2>2
<1>14. \A i \in 0 .. n : c[i] = 0
  <2> DEFINE T == {k \in Nat : k <= n => c[k] = 0}
  <2>1. 0 \in T
    BY <1>12
  <2>2. ASSUME NEW k \in Nat, k \in T PROVE k + 1 \in T
    <3>1. SUFFICES ASSUME k + 1 <= n PROVE c[k + 1] = 0
      OBVIOUS
    <3>2. k + 1 \in 1 .. n /\ k + 1 \in 1 .. N /\ (k + 1) - 1 = k /\ c[k] = 0
      BY <1>2, <1>5, <2>2, <3>1
    <3>3. c[k + 1] = c[k] + f[L[k + 1]]
      BY <1>13, <3>2
    <3> QED BY <1>zero, <3>2, <3>3
  <2> HIDE DEF T
  <2>3. Nat \subseteq T
    BY <2>1, <2>2, Induct
  <2> QED BY <2>3 DEF T
<1>15. ASSUME NEW i \in n + 1 .. N PROVE i \in 1 .. N /\ d[i] >= 2
  <2>1. n + 1 \in 1 .. N /\ i \in 1 .. N /\ (n + 1) - 1 = n /\ n + 1 <= i /\ n < N
    BY <1>2, <1>5
  <2>2. c[n + 1] = c[n] + f[L[n + 1]] /\ f[L[n + 1]] # 0 /\ f[L[n + 1]] \in Nat
    <3>1. L[n + 1] \in Timer
      BY <1>tim, <2>1
    <3> QED BY <1>next, <1>10, <1>13, <2>1, <3>1
  <2>3. c[n] = 0
    BY <1>5, <1>14
  <2>4. c[n + 1] = d[n + 1] - 1 /\ d[n + 1] \in Nat /\ d[i] \in Nat
    BY <1>2, <1>12, <2>1
  <2>5. d[n + 1] <= d[i]
    BY <1>4, <2>1
  <2>6. PICK x, y : x = d[n + 1] /\ y = f[L[n + 1]]
    OBVIOUS
  <2>7. x \in Nat /\ y \in Nat /\ x - 1 = 0 + y /\ y # 0 /\ x <= d[i] /\ d[i] \in Nat
    BY <2>2, <2>3, <2>4, <2>5, <2>6
  <2> QED BY <2>1, <2>7
<1>16. \A i \in 1 .. n : i \in 1 .. N /\ d[i] = 1
  <2>1. ASSUME NEW i \in 1 .. n PROVE i \in 1 .. N /\ d[i] = 1
    <3>1. i \in 1 .. N /\ c[i] = 0
      BY <1>2, <1>5, <1>14
    <3> QED BY <1>2, <1>12, <3>1
  <2> QED BY <2>1
<1>17. S = {t \in Timer : l[t] = 1}
  <2>1. ASSUME NEW t \in S PROVE t \in Timer /\ l[t] = 1
    BY <1>tim, <1>left, <1>16, <1>fired, <2>1
  <2>2. ASSUME NEW t \in Timer, l[t] = 1 PROVE t \in S
    <3>1. PICK i \in 1 .. N : L[i] = t
      BY <1>type, <1>at, <2>2
    <3>2. i \in 1 .. n
      <4>1. d[i] = 1
        BY <1>left, <2>2, <3>1
      <4>2. ~ (i \in n + 1 .. N)
        BY <1>15, <4>1
      <4> QED BY <1>len, <4>2
    <3> QED BY <1>fired, <3>1, <3>2
  <2> QED BY <2>1, <2>2
<1>18. ASSUME NEW j \in 1 .. N - n
       PROVE  n + j \in 1 .. N /\ n + j \in n + 1 .. N /\ M[j] = L[n + j] /\ M[j] \notin S
  <2>1. n + j \in 1 .. N /\ n + j \in n + 1 .. N /\ M[j] = L[n + j]
    BY <1>2, <1>5, <1>7
  <2>2. d[n + j] >= 2 /\ l[L[n + j]] = d[n + j]
    BY <1>15, <1>left, <2>1
  <2>3. l[L[n + j]] # 1
    BY <2>2
  <2> QED BY <1>17, <2>1, <2>3
<1>19. Listed(M) = Listed(L) \ S
  <2>1. ASSUME NEW u \in Listed(M) PROVE u \in Listed(L) \ S
    <3>1. PICK i \in 1 .. N - n : M[i] = u
      BY <1>7 DEF Listed
    <3> QED BY <1>tim, <1>18, <3>1
  <2>2. ASSUME NEW u \in Listed(L), u \notin S PROVE u \in Listed(M)
    <3>1. PICK i \in 1 .. N : L[i] = u
      BY <1>2 DEF Listed
    <3>2. ~ (i \in 1 .. n)
      BY <1>fired, <2>2, <3>1
    <3>3. i - n \in 1 .. N - n /\ n + (i - n) = i
      BY <1>2, <1>5, <3>2
    <3>4. M[i - n] = u
      BY <1>7, <3>1, <3>3
    <3> QED BY <1>7, <3>3, <3>4 DEF Listed
  <2> QED BY <2>1, <2>2
<1>20. Apart(M)
  <2>1. ASSUME NEW i \in 1 .. N - n, NEW j \in 1 .. N - n, M[i] = M[j] PROVE i = j
    <3>1. n + i = n + j
      BY <1>apart, <1>18, <2>1
    <3> QED BY <1>2, <1>5, <3>1
  <2> QED BY <1>7, <2>1 DEF Apart
<1>21. PICK h : h = [k \in 0 .. N - n |-> c[n + k]]
  OBVIOUS
<1>22. h[0] = 0 /\ \A j \in 1 .. N - n : h[j] = c[n + j] /\ h[j] = d[n + j] - 1
  <2>1. 0 \in 0 .. N - n /\ n + 0 = n /\ n \in 0 .. n
    BY <1>2, <1>5
  <2>2. h[0] = 0
    BY <1>14, <1>21, <2>1
  <2>3. ASSUME NEW j \in 1 .. N - n PROVE h[j] = c[n + j] /\ h[j] = d[n + j] - 1
    <3>1. j \in 0 .. N - n /\ n + j \in 1 .. N
      BY <1>2, <1>5
    <3> QED BY <1>12, <1>21, <3>1
  <2> QED BY <2>2, <2>3
<1>23. Adds(h, M, f)
  <2>1. ASSUME NEW j \in 1 .. N - n PROVE h[j] = h[j - 1] + f[M[j]]
    <3>1. /\ j - 1 \in 0 .. N - n /\ j \in 0 .. N - n /\ n + j \in 1 .. N
          /\ n + (j - 1) = (n + j) - 1 /\ M[j] = L[n + j]
      BY <1>2, <1>5, <1>7
    <3>2. h[j] = c[n + j] /\ h[j - 1] = c[(n + j) - 1]
      BY <1>21, <3>1
    <3> QED BY <1>13, <3>1, <3>2
  <2> QED BY <1>7, <1>22, <2>1 DEF Adds
<1>24. PICK k : k = [t \in Timer |-> IF l[t] = 0 THEN 0 ELSE l[t] - 1]
  OBVIOUS
<1>25. k \in [Timer -> Nat] /\ \A t \in Timer : k[t] = IF l[t] = 0 THEN 0 ELSE l[t] - 1
  <2>1. \A t \in Timer : k[t] = IF l[t] = 0 THEN 0 ELSE l[t] - 1
    BY <1>24
  <2>2. \A t \in Timer : k[t] \in Nat
    BY <1>type, <2>1
  <2> QED BY <1>24, <2>1, <2>2
<1>26. Shows(k, M, h)
  <2>1. ASSUME NEW j \in 1 .. N - n PROVE k[M[j]] = h[j]
    <3>1. n + j \in 1 .. N /\ M[j] = L[n + j]
      BY <1>18
    <3>2. l[M[j]] = d[n + j] /\ d[n + j] >= 1 /\ M[j] \in Timer /\ d[n + j] \in Nat
      BY <1>tim, <1>left, <1>due, <3>1
    <3>3. h[j] = d[n + j] - 1
      BY <1>22
    <3>4. k[M[j]] = d[n + j] - 1
      <4>1. PICK u \in Timer : u = M[j]
        BY <3>2
      <4>2. l[u] # 0
        <5>1. PICK v : v = d[n + j]
          OBVIOUS
        <5>2. v # 0
          BY <3>2, <5>1
        <5> QED BY <3>2, <4>1, <5>1, <5>2
      <4>3. k[u] = l[u] - 1
        BY <1>25, <4>2
      <4> QED BY <3>2, <4>1, <4>3
    <3> QED BY <3>3, <3>4
  <2>2. ASSUME NEW u \in Timer \ Listed(M) PROVE k[u] = 0
    <3>1. l[u] = 0 \/ l[u] = 1
      BY <1>2, <1>17, <1>19, <2>2
    <3> QED BY <1>25, <3>1
  <2> QED BY <1>7, <1>25, <2>1, <2>2 DEF Shows
<1>27. /\ \A j \in 1 .. Len(M) : DueOf(M, f)[j] = h[j]
       /\ LeftOf(M, DueOf(M, f)) = k
  <2>1. Measured(M, f, h, k)
    BY <1>7, <1>10, <1>20, <1>23, <1>26 DEF Measured
  <2> QED BY <2>1, SumsAre
<1>28. ASSUME NEW i \in 1 .. N - n, NEW j \in 1 .. N - n, i < j, h[i] = h[j]
       PROVE  <<M[i], M[j]>> \in Q
  <2>1. PICK x, y : x = n + i /\ y = n + j
    OBVIOUS
  <2>2. /\ x \in 1 .. N /\ y \in 1 .. N /\ M[i] = L[x] /\ M[j] = L[y]
        /\ M[i] \notin S /\ M[j] \notin S
    BY <1>18, <2>1
  <2>3. h[i] = d[x] - 1 /\ h[j] = d[y] - 1 /\ x < y
    BY <1>2, <1>5, <1>22, <1>28, <2>1
  <2>4. d[x] = d[y]
    <3>1. PICK v, w : v = d[x] /\ w = d[y]
      OBVIOUS
    <3>2. v \in Nat /\ w \in Nat /\ v - 1 = w - 1
      BY <1>due, <1>28, <2>2, <2>3, <3>1
    <3> QED BY <3>1, <3>2
  <2>5. <<M[i], M[j]>> \in R
    BY <1>3, <2>2, <2>3, <2>4
  <2> QED BY <1>1, <2>2, <2>5 DEF Keeps
<1>29. InTurn(M, DueOf(M, f), Q)
  <2>1. PICK g : g = DueOf(M, f)
    OBVIOUS
  <2>2. \A i \in 1 .. N - n : g[i] = h[i]
    BY <1>7, <1>27, <2>1
  <2>3. InTurn(M, g, Q)
    <3>1. ASSUME NEW i \in 1 .. N - n, NEW j \in 1 .. N - n, i < j, g[i] = g[j]
          PROVE  <<M[i], M[j]>> \in Q
      BY <1>28, <2>2, <3>1
    <3> QED BY <1>7, <3>1 DEF InTurn
  <2> QED BY <2>1, <2>3
<1>30. M # <<>> => f[M[1]] # 0
  <2>1. SUFFICES ASSUME M # <<>> PROVE f[M[1]] # 0
    OBVIOUS
  <2>2. 1 \in 1 .. N - n /\ n < N
    BY <1>2, <1>5, <1>7, <2>1
  <2> QED BY <1>next, <1>7, <2>2
<1>31. \A u \in Timer \ Listed(M) : f[u] = 0
  <2>1. ASSUME NEW u \in Timer \ Listed(M) PROVE f[u] = 0
    <3>1. CASE u \in S
      BY <1>fired, <1>zero, <3>1
    <3>2. CASE u \notin S
      <4>1. u \notin Listed(L) /\ u # L[1]
        BY <1>2, <1>5, <1>19, <2>1, <3>2
      <4> QED BY <1>3, <1>9, <4>1
    <3> QED BY <3>1, <3>2
  <2> QED BY <2>1
<1>32. Chain(M, f, Q)
  BY <1>7, <1>10, <1>20, <1>29, <1>30, <1>31 DEF Chain
<1>33. {F[i] : i \in DOMAIN F} = S
  BY <1>fired, <1>8
<1>34. ASSUME NEW i \in DOMAIN F, NEW j \in DOMAIN F, i < j PROVE <<F[i], F[j]>> \in R
  <2>1. i \in 1 .. n /\ j \in 1 .. n /\ F[i] = L[i] /\ F[j] = L[j]
    BY <1>8
  <2>2. i \in 1 .. N /\ j \in 1 .. N /\ d[i] = d[j]
    BY <1>16, <2>1
  <2> QED BY <1>3, <1>34, <2>1, <2>2
<1> QED BY <1>17, <1>19, <1>24, <1>27, <1>32, <1>33, <1>34 DEF Ticked

\* What is pending is what the distances say, and the history knows of pending timers only.
TimerInv == Chain(list, expires, earlier) /\ earlier \subseteq Listed(list) \X Listed(list)

\* A step of the timers keeps the invariant and is one of the alarm clock.
Steps == TimerInv' /\ Clock!ClockNext

LEMMA LeftNow ==
  /\ Due = DueOf(list, expires) /\ Left = LeftOf(list, Due)
  /\ Left' = LeftOf(list', DueOf(list', expires'))
  /\ \A t \in Timer : Linked(t) <=> t \in Listed(list)
<1>1. Due = DueOf(list, expires)
  BY DEF Due, DueOf
<1>2. Left = LeftOf(list, Due)
  BY DEF Left, LeftOf, Linked
<1>3. Due' = DueOf(list', expires')
  BY DEF Due, DueOf
<1>4. Left' = LeftOf(list', Due')
  BY DEF Left, LeftOf, Linked
<1>5. \A t \in Timer : Linked(t) <=> t \in Listed(list)
  BY DEF Linked, Listed
<1> QED BY <1>1, <1>2, <1>3, <1>4, <1>5

LEMMA StepAdd ==
  ASSUME TimerInv, NEW t \in Timer, NEW n \in 1 .. MaxDelay, add_timer(t, n)
  PROVE  Steps
<1>1. Chain(list, expires, earlier) /\ earlier \subseteq Listed(list) \X Listed(list)
  BY DEF TimerInv
<1>2. PICK L, e, R, d, l : /\ L = list /\ e = expires /\ R = earlier
                           /\ d = DueOf(L, e) /\ l = LeftOf(L, d)
  OBVIOUS
<1>3. Due = d /\ Left = l
  BY <1>2, LeftNow
<1>4. /\ Listed(L) \subseteq Timer /\ l \in [Timer -> Nat]
      /\ \A u \in Timer : l[u] = 0 <=> u \notin Listed(L)
  BY <1>1, <1>2, ChainFacts
<1>5. t \notin Listed(L)
  BY <1>2, LeftNow DEF add_timer
<1>6. PICK at \in 1 .. Len(L) + 1 :
        /\ Stops(at, n) /\ \A i \in 1 .. at - 1 : ~ Stops(i, n)
        /\ list' = InsertAt(L, at, t)
        /\ expires' = [u \in Timer |->
              IF u = t THEN n - d[at - 1]
              ELSE IF at <= Len(L) /\ u = L[at] THEN e[u] - (n - d[at - 1])
              ELSE e[u]]
  BY <1>2, <1>3 DEF add_timer
<1>7. /\ at <= Len(L) => n - d[at - 1] < e[L[at]]
      /\ \A i \in 1 .. at - 1 : ~ (i <= Len(L) => n - d[i - 1] < e[L[i]])
  BY <1>2, <1>3, <1>6 DEF Stops
<1>8. {u \in Timer : Linked(u)} = Listed(L) /\ {u \in Timer : Left[u] # 0} = Listed(L)
  BY <1>2, <1>3, <1>4, LeftNow
<1>9. earlier' = R \cup {<<u, t>> : u \in Listed(L)} /\ rang' = <<>>
  BY <1>2, <1>8 DEF add_timer
<1>10. n \in Nat /\ n >= 1
  BY TimerAssumption
<1>11. PICK M, f, Q : M = list' /\ f = expires' /\ Q = earlier'
  OBVIOUS
<1>12. /\ Chain(M, f, Q) /\ LeftOf(M, DueOf(M, f)) = [l EXCEPT ![t] = n]
       /\ Listed(M) = Listed(L) \cup {t}
  <2>1. PutAt(L, e, d, t, n, at, f)
    BY <1>5, <1>6, <1>7, <1>10, <1>11 DEF PutAt
  <2>2. /\ Chain(L, e, R) /\ d = DueOf(L, e) /\ l = LeftOf(L, d)
        /\ M = InsertAt(L, at, t) /\ Q = R \cup {<<u, t>> : u \in Listed(L)}
    BY <1>1, <1>2, <1>6, <1>9, <1>11
  <2> QED BY <2>1, <2>2, TimerAddKeeps
<1>13. TimerInv'
  BY <1>1, <1>2, <1>9, <1>11, <1>12 DEF TimerInv
<1>14. Left' = [Left EXCEPT ![t] = n]
  BY <1>3, <1>11, <1>12, LeftNow
<1>15. Left[t] = 0
  BY <1>3, <1>4, <1>5
<1>16. earlier' = earlier \cup {<<u, t>> : u \in {u \in Timer : Left[u] # 0}}
  BY <1>2, <1>8, <1>9
<1>17. Clock!Arm(t, n)
  BY <1>9, <1>14, <1>15, <1>16 DEF Clock!Arm
<1> QED BY <1>13, <1>17 DEF Steps, Clock!ClockNext

LEMMA StepDel ==
  ASSUME TimerInv, NEW t \in Timer, del_timer(t)
  PROVE  Steps
<1>1. Chain(list, expires, earlier) /\ earlier \subseteq Listed(list) \X Listed(list)
  BY DEF TimerInv
<1>2. PICK L, e, R, d, l : /\ L = list /\ e = expires /\ R = earlier
                           /\ d = DueOf(L, e) /\ l = LeftOf(L, d)
  OBVIOUS
<1>3. Left = l
  BY <1>2, LeftNow
<1>4. /\ Listed(L) \subseteq Timer /\ l \in [Timer -> Nat]
      /\ \A u \in Timer : l[u] = 0 <=> u \notin Listed(L)
  BY <1>1, <1>2, ChainFacts
<1>5. rang' = <<>>
  BY DEF del_timer
<1>6. CASE ~ Linked(t) /\ UNCHANGED <<list, expires, earlier>>
  <2>1. t \notin Listed(L)
    BY <1>2, <1>6, LeftNow
  <2>2. TimerInv'
    BY <1>1, <1>6 DEF TimerInv
  <2>3. Left' = LeftOf(L, d)
    BY <1>2, <1>6, LeftNow
  <2>4. Left' = [Left EXCEPT ![t] = 0]
    BY <1>2, <1>3, <1>4, <2>1, <2>3
  <2>5. earlier' = {p \in earlier : p[1] # t /\ p[2] # t}
    BY <1>1, <1>2, <1>6, <2>1
  <2>6. Clock!Disarm(t)
    BY <1>5, <2>4, <2>5 DEF Clock!Disarm
  <2> QED BY <2>2, <2>6 DEF Steps, Clock!ClockNext
<1>7. CASE \E i \in DOMAIN list : /\ list[i] = t /\ list' = RemoveAt(list, i)
                                  /\ expires' = Unlink(i) /\ earlier' = Forgetting({t})
  <2>1. PICK at \in DOMAIN L : /\ L[at] = t /\ list' = RemoveAt(L, at)
                               /\ expires' = Unlink(at) /\ earlier' = Forgetting({t})
    BY <1>2, <1>7
  <2>2. expires' = [u \in Timer |->
                      IF u = L[at] THEN 0
                      ELSE IF at < Len(L) /\ u = L[at + 1] THEN e[u] + e[L[at]]
                      ELSE e[u]]
    BY <1>2, <2>1 DEF Unlink
  <2>3. PICK M, f, Q : M = list' /\ f = expires' /\ Q = earlier'
    OBVIOUS
  <2>4. Q = {p \in R : p[1] # t /\ p[2] # t}
    BY <1>2, <2>1, <2>3 DEF Forgetting
  <2>5. Keeps(Q, R, {L[at]})
    BY <2>1, <2>4 DEF Keeps
  <2>6. /\ Chain(M, f, Q) /\ LeftOf(M, DueOf(M, f)) = [l EXCEPT ![L[at]] = 0]
        /\ Listed(M) = Listed(L) \ {L[at]}
    BY <1>1, <1>2, <2>1, <2>2, <2>3, <2>5, TimerDelKeeps
  <2>7. Q \subseteq Listed(M) \X Listed(M)
    BY <1>1, <1>2, <2>1, <2>4, <2>6
  <2>8. TimerInv'
    BY <2>3, <2>6, <2>7 DEF TimerInv
  <2>9. Left' = [Left EXCEPT ![t] = 0]
    BY <1>3, <2>1, <2>3, <2>6, LeftNow
  <2>10. Clock!Disarm(t)
    BY <1>2, <1>5, <2>3, <2>4, <2>9 DEF Clock!Disarm
  <2> QED BY <2>8, <2>10 DEF Steps, Clock!ClockNext
<1> QED BY <1>6, <1>7 DEF del_timer

LEMMA StepTick ==
  ASSUME TimerInv, run_timer_list
  PROVE  Steps
<1>1. Chain(list, expires, earlier) /\ earlier \subseteq Listed(list) \X Listed(list)
  BY DEF TimerInv
<1>2. PICK L, e, R, d, l : /\ L = list /\ e = expires /\ R = earlier
                           /\ d = DueOf(L, e) /\ l = LeftOf(L, d)
  OBVIOUS
<1>3. Left = l
  BY <1>2, LeftNow
<1>4. /\ Listed(L) \subseteq Timer /\ l \in [Timer -> Nat] /\ DOMAIN L = 1 .. Len(L)
      /\ \A u \in Timer : l[u] = 0 <=> u \notin Listed(L)
  BY <1>1, <1>2, ChainFacts
<1>5. CASE list = <<>> /\ rang' = <<>> /\ UNCHANGED <<list, expires, earlier>>
  <2>1. Listed(L) = {}
    BY <1>2, <1>5 DEF Listed
  <2>2. TimerInv'
    BY <1>1, <1>5 DEF TimerInv
  <2>3. Left' = LeftOf(L, d)
    BY <1>2, <1>5, LeftNow
  <2>4. l = [t \in Timer |-> 0]
    BY <1>4, <2>1
  <2>5. Left' = [t \in Timer |-> IF Left[t] = 0 THEN 0 ELSE Left[t] - 1]
    BY <1>2, <1>3, <2>3, <2>4
  <2>6. {t \in Timer : Left[t] = 1} = {}
    BY <1>3, <2>4
  <2>7. earlier' = {p \in earlier : p[1] \notin {} /\ p[2] \notin {}}
    BY <1>5
  <2>8. DOMAIN rang' = {}
    BY <1>5
  <2>9. /\ {rang'[i] : i \in DOMAIN rang'} = {}
        /\ \A i, j \in DOMAIN rang' : i < j => <<rang'[i], rang'[j]>> \in earlier
    BY <2>8
  <2>10. Clock!Strike
    BY <2>5, <2>6, <2>7, <2>9 DEF Clock!Strike
  <2> QED BY <2>2, <2>10 DEF Steps, Clock!ClockNext
<1>6. CASE list # <<>>
  <2>0. PICK n \in 0 .. Len(list) :
          /\ \A i \in 1 .. n : expires'[list[i]] = 0
          /\ n < Len(list) => expires'[list[n + 1]] # 0
          /\ rang' = SubSeq(list, 1, n)
          /\ list' = SubSeq(list, n + 1, Len(list))
          /\ earlier' = Forgetting({list[i] : i \in 1 .. n})
    BY <1>6 DEF run_timer_list
  <2>1. /\ \A i \in 1 .. n : expires'[L[i]] = 0
        /\ n < Len(L) => expires'[L[n + 1]] # 0
        /\ rang' = SubSeq(L, 1, n)
        /\ list' = SubSeq(L, n + 1, Len(L))
        /\ earlier' = Forgetting({L[i] : i \in 1 .. n})
        /\ n \in 0 .. Len(L)
    BY <1>2, <2>0
  <2>2. expires' = [e EXCEPT ![L[1]] = @ - 1]
    BY <1>2, <1>6 DEF run_timer_list
  <2>3. PICK M, f, F, Q, S : /\ M = list' /\ f = expires' /\ F = rang' /\ Q = earlier'
                             /\ S = {L[i] : i \in 1 .. n}
    OBVIOUS
  <2>4. Ticks(L, e, f, n) /\ IsFired(S, L, n)
    BY <1>2, <1>6, <2>1, <2>2, <2>3 DEF Ticks, IsFired
  <2>5. Q = {p \in R : p[1] \notin S /\ p[2] \notin S}
    BY <1>2, <2>1, <2>3 DEF Forgetting
  <2>6. Keeps(Q, R, S)
    BY <2>5 DEF Keeps
  <2>7. /\ Chain(M, f, Q)
        /\ LeftOf(M, DueOf(M, f)) = [t \in Timer |-> IF l[t] = 0 THEN 0 ELSE l[t] - 1]
        /\ Listed(M) = Listed(L) \ S
        /\ S = {t \in Timer : l[t] = 1}
        /\ {F[i] : i \in DOMAIN F} = S
        /\ \A i, j \in DOMAIN F : i < j => <<F[i], F[j]>> \in R
    <3>1. /\ Chain(L, e, R) /\ d = DueOf(L, e) /\ l = LeftOf(L, d)
          /\ F = SubSeq(L, 1, n) /\ M = SubSeq(L, n + 1, Len(L))
      BY <1>1, <1>2, <2>1, <2>3
    <3>2. Ticked(L, R, l, M, f, Q, F, S)
      BY <2>4, <2>6, <3>1, TimerTickKeeps
    <3> QED BY <3>2 DEF Ticked
  <2>8. Q \subseteq Listed(M) \X Listed(M)
    BY <1>1, <1>2, <2>5, <2>7
  <2>9. TimerInv'
    BY <2>3, <2>7, <2>8 DEF TimerInv
  <2>10. Left' = [t \in Timer |-> IF Left[t] = 0 THEN 0 ELSE Left[t] - 1]
    BY <1>3, <2>3, <2>7, LeftNow
  <2>11. Clock!Strike
    <3>1. S = {t \in Timer : Left[t] = 1}
      BY <1>3, <2>7
    <3>2. earlier' = {p \in earlier : p[1] \notin S /\ p[2] \notin S}
      BY <1>2, <2>3, <2>5
    <3>3. /\ {rang'[i] : i \in DOMAIN rang'} = S
          /\ \A i, j \in DOMAIN rang' : i < j => <<rang'[i], rang'[j]>> \in earlier
      BY <1>2, <2>3, <2>7
    <3> QED BY <2>10, <3>1, <3>2, <3>3 DEF Clock!Strike
  <2> QED BY <2>9, <2>11 DEF Steps, Clock!ClockNext
<1> QED BY <1>5, <1>6 DEF run_timer_list

LEMMA TimersStart ==
  ASSUME TimerInit
  PROVE  TimerInv /\ Clock!ClockInit
<1>1. list = <<>> /\ expires = [t \in Timer |-> 0] /\ earlier = {} /\ rang = <<>>
  BY DEF TimerInit
<1>2. Len(list) = 0 /\ DOMAIN list = {} /\ list \in Seq(Timer)
  BY <1>1
<1>3. Listed(list) = {} /\ Apart(list)
  BY <1>2 DEF Listed, Apart
<1>4. InTurn(list, DueOf(list, expires), earlier)
  BY <1>2 DEF InTurn
<1>5. expires \in [Timer -> Nat] /\ \A t \in Timer : expires[t] = 0
  BY <1>1
<1>6. Chain(list, expires, earlier)
  BY <1>1, <1>2, <1>3, <1>4, <1>5 DEF Chain
<1>7. Left = [t \in Timer |-> 0]
  BY <1>3, LeftNow DEF Left
<1> QED BY <1>1, <1>6, <1>7 DEF TimerInv, Clock!ClockInit

LEMMA TimersStep ==
  ASSUME TimerInv, [TimerNext]_timerVars
  PROVE  TimerInv' /\ [Clock!ClockNext]_Clock!clockVars
<1>1. ASSUME NEW t \in Timer, del_timer(t) PROVE Steps
  BY <1>1, StepDel
<1>2. ASSUME NEW t \in Timer, NEW n \in 1 .. MaxDelay, add_timer(t, n) PROVE Steps
  BY <1>2, StepAdd
<1>3. CASE run_timer_list
  BY <1>3, StepTick DEF Steps
<1>4. CASE UNCHANGED timerVars
  <2>1. list' = list /\ expires' = expires /\ earlier' = earlier /\ rang' = rang
    BY <1>4 DEF timerVars
  <2>2. Left' = Left
    BY <2>1, LeftNow
  <2> QED BY <2>1, <2>2 DEF TimerInv, Clock!clockVars
<1> QED BY <1>1, <1>2, <1>3, <1>4 DEF TimerNext, Steps

\* The list is a chain of distances in every state: no timer twice, none at distance
\* nothing at the head, none behind one that it was armed before with the same deadline.
THEOREM TimersInductive == TimerSpec => []TimerInv
<1>1. TimerInit => TimerInv
  BY TimersStart
<1>2. TimerInv /\ [TimerNext]_timerVars => TimerInv'
  BY TimersStep
<1> QED BY <1>1, <1>2, PTL DEF TimerSpec

\* Each timer fires at its own deadline, and equal deadlines in the order of add_timer,
\* for every number of timers and every sequence of insertions, deletions and ticks.
THEOREM TimersKeepDeadlines == TimerSpec => ImplementsAlarmClock
<1>1. TimerInit => Clock!ClockInit
  BY TimersStart
<1>2. TimerInv /\ [TimerNext]_timerVars => [Clock!ClockNext]_Clock!clockVars
  BY TimersStep
<1> QED BY <1>1, <1>2, TimersInductive, PTL DEF TimerSpec, ImplementsAlarmClock, Clock!ClockSpec

\* The assertion of run_timer_list on the first timer of the list never fails.
THEOREM TimersFirstAhead == TimerSpec => []FirstAhead
<1>1. TimerInv => FirstAhead
  BY DEF TimerInv, Chain, FirstAhead
<1> QED BY <1>1, TimersInductive, PTL

===============================================================================
