---------------------------- MODULE StdinProofs ----------------------------
(***************************************************************************)
(* What is proved of console input, for every set of processes, size of the *)
(* buffer, length of the reads and number of keys: the wait queue holds     *)
(* exactly the readers asleep, nobody sleeps while there is a key to read,  *)
(* keys are read once each and in order, and no assertion fails.            *)
(***************************************************************************)
EXTENDS Stdin, SequenceTheorems, TLAPS

\* The results of wakeup_proc are well typed.
LEMMA WakeupType ==
  ASSUME SchedTypeOK, NEW W \in SUBSET Proc
  PROVE  /\ StateAfterWakeup(W) \in [Proc -> ProcState]
         /\ WaitAfterWakeup(W) \in [Proc -> WaitState]
         /\ QueueAfterWakeup(W) \subseteq Proc \ {idleproc}
  BY DEF SchedTypeOK, StateAfterWakeup, WaitAfterWakeup, QueueAfterWakeup,
         NotRunnable, ProcState, WaitState

\* So are those of schedule.
LEMMA ScheduleType ==
  ASSUME SchedTypeOK, NEW q \in Proc, Schedule(q)
  PROVE  SchedTypeOK'
  BY DEF SchedTypeOK, Schedule, Requeued

\* Places of a reader inside dev_stdin_read that has called schedule().
WaitPlaces == {"read_sched", "read_woken"}

Queued(p) == \E i \in DOMAIN queue : queue[i] = p

Typed ==
    /\ SchedTypeOK
    /\ buffer \in [0 .. BufSize - 1 -> Nat]
    /\ rpos \in Nat /\ wpos \in Nat /\ pressed \in Nat
    /\ queue \in Seq(User)
    /\ wakeFlags \in [User -> {"interrupted", "kbd"}]
    /\ want \in [User -> Nat]
    /\ exiting \in [User -> BOOLEAN]
    /\ DOMAIN pc = Proc
    /\ read \in Seq(Nat)

\* A reader marked as waiting for a key is asleep, on the queue, and has not
\* got the CPU back.
Parked ==
    \A p \in User : waitState[p] = "kbd" =>
        /\ state[p] = "sleeping"
        /\ p \notin runq
        /\ Queued(p)
        /\ pc[p] = "read_sched" \/ (pc[p] = "read_woken" /\ current # p)

\* The queue holds readers that have not been woken by a key, each once.
Linked ==
    /\ \A p \in User : Queued(p) => pc[p] \in WaitPlaces /\ wakeFlags[p] # "kbd"
    /\ \A i, j \in DOMAIN queue : queue[i] = queue[j] => i = j

\* Users wait for keys only, no timer is set, and the dead are at their last
\* call of schedule().
Placed ==
    /\ timers = {}
    /\ current \notin runq
    /\ \A p \in User : /\ waitState[p] \in {"none", "kbd"}
                       /\ state[p] # "unused"
                       /\ state[p] = "zombie" => pc[p] = "exit_sched"
    /\ panic = "no"

\* The positions of the keys that wait in the buffer, and the key at each.
Filled == rpos .. wpos - 1
Key(k) == buffer[k % BufSize]

\* The keys read and the keys that wait are different keys, all pressed; as
\* long as none was lost, key number k is at position k - 1.
Ring ==
    /\ rpos <= wpos /\ wpos <= rpos + BufSize /\ wpos <= pressed
    /\ Len(read) = rpos
    /\ \A i \in DOMAIN read : read[i] <= pressed
    /\ \A k \in Filled : Key(k) <= pressed
    /\ \A i, j \in DOMAIN read : read[i] = read[j] => i = j
    /\ \A j, k \in Filled : Key(j) = Key(k) => j = k
    /\ \A i \in DOMAIN read, k \in Filled : read[i] # Key(k)
    /\ pressed = wpos => /\ \A i \in DOMAIN read : read[i] = i
                         /\ \A k \in Filled : Key(k) = k + 1

Inv == /\ Typed /\ Parked /\ Linked /\ Placed /\ Ring
       /\ NoReaderForgotten /\ RunQueueExact

-----------------------------------------------------------------------------
(* Lemmas about the operators.                                              *)

LEMMA Division ==
  ASSUME NEW j \in Int, NEW n \in Int, n > 0
  PROVE  j \div n \in Int /\ j % n = j - n * (j \div n)
<1>1. j \div n \in Int
  OBVIOUS
<1>2. j % n = j - n * (j \div n)
  BY SMTT(30)
<1> QED BY <1>1, <1>2

\* Positions less than a buffer apart have different slots.
LEMMA SlotsApart ==
  ASSUME NEW j \in Nat, NEW k \in Nat, j < k, k < j + BufSize
  PROVE  j % BufSize # k % BufSize
<1> DEFINE a == j \div BufSize
           b == k \div BufSize
<1>1. BufSize \in Nat /\ BufSize > 0
  BY StdinAssumption
<1>2. /\ a \in Int /\ b \in Int
      /\ j % BufSize = j - BufSize * a
      /\ k % BufSize = k - BufSize * b
  BY <1>1, Division
<1>3. SUFFICES ASSUME j % BufSize = k % BufSize PROVE FALSE
  OBVIOUS
<1> HIDE DEF a, b
<1>4. k - j = BufSize * (b - a)
  BY <1>1, <1>2, <1>3
<1>5. CASE b - a <= 0
  <2>1. BufSize * (b - a) <= 0
    BY <1>1, <1>2, <1>5
  <2> QED BY <1>4, <2>1
<1>6. CASE b - a >= 1
  <2>1. BufSize * (b - a) >= BufSize
    BY <1>1, <1>2, <1>6
  <2> QED BY <1>1, <1>4, <2>1
<1> QED BY <1>2, <1>5, <1>6

LEMMA SlotType ==
  ASSUME NEW k \in Nat
  PROVE  k % BufSize \in 0 .. BufSize - 1
  BY StdinAssumption

LEMMA MinOfTwo ==
  ASSUME NEW a \in Nat, NEW b \in Nat
  PROVE  /\ Min({a, b}) \in {a, b}
         /\ Min({a, b}) <= a /\ Min({a, b}) <= b
<1>1. \E x \in {a, b} : \A y \in {a, b} : x <= y
  BY a <= b \/ b <= a
<1> QED BY <1>1 DEF Min

\* RemoveAt closes the gap.
LEMMA RemoveAtProperties ==
  ASSUME NEW S, NEW t \in Seq(S), NEW m \in 1 .. Len(t)
  PROVE  /\ RemoveAt(t, m) \in Seq(S)
         /\ DOMAIN RemoveAt(t, m) = 1 .. Len(t) - 1
         /\ \A i \in 1 .. Len(t) - 1 :
               RemoveAt(t, m)[i] = IF i < m THEN t[i] ELSE t[i + 1]
<1> DEFINE n == Len(t)
           u == SubSeq(t, 1, m - 1)
           v == SubSeq(t, m + 1, n)
<1>1. n \in Nat /\ m \in 1 .. n /\ \A i \in 1 .. n : t[i] \in S
  OBVIOUS
<1>2. RemoveAt(t, m) = u \o v
  BY DEF RemoveAt
<1> HIDE DEF n
<1>3. /\ u \in Seq(S)
      /\ Len(u) = IF 1 <= m - 1 THEN m - 1 - 1 + 1 ELSE 0
      /\ \A i \in 1 .. m - 1 - 1 + 1 : u[i] = t[1 + i - 1]
  <2>1. \A i \in 1 .. m - 1 : t[i] \in S
    BY <1>1
  <2> QED BY <1>1, <2>1, SubSeqProperties
<1>4. /\ v \in Seq(S)
      /\ Len(v) = IF m + 1 <= n THEN n - (m + 1) + 1 ELSE 0
      /\ \A i \in 1 .. n - (m + 1) + 1 : v[i] = t[m + 1 + i - 1]
  <2>1. \A i \in m + 1 .. n : t[i] \in S
    BY <1>1
  <2> QED BY <1>1, <2>1, SubSeqProperties
<1> HIDE DEF u, v
<1>5. Len(u) = m - 1 /\ \A i \in 1 .. m - 1 : u[i] = t[i]
  BY <1>1, <1>3
<1>6. Len(v) = n - m /\ \A i \in 1 .. n - m : v[i] = t[i + m]
  BY <1>1, <1>4
<1> DEFINE w == u \o v
<1>7. /\ w \in Seq(S)
      /\ Len(w) = Len(u) + Len(v)
      /\ \A i \in 1 .. Len(u) + Len(v) :
            w[i] = IF i <= Len(u) THEN u[i] ELSE v[i - Len(u)]
  BY <1>3, <1>4, ConcatProperties
<1> HIDE DEF w
<1>8. w \in Seq(S) /\ DOMAIN w = 1 .. n - 1
  BY <1>1, <1>5, <1>6, <1>7
<1>9. ASSUME NEW i \in 1 .. n - 1
      PROVE  w[i] = IF i < m THEN t[i] ELSE t[i + 1]
  <2>1. CASE i < m
    BY <1>1, <1>5, <1>6, <1>7, <2>1
  <2>2. CASE i >= m
    <3>1. w[i] = v[i - (m - 1)]
      BY <1>1, <1>5, <1>6, <1>7, <2>2
    <3>2. i - (m - 1) \in 1 .. n - m /\ (i - (m - 1)) + m = i + 1
      BY <1>1, <2>2
    <3> QED BY <1>1, <1>6, <2>2, <3>1, <3>2
  <2> QED BY <1>1, <2>1, <2>2
<1> QED BY <1>2, <1>8, <1>9 DEF n, w

\* wait_current_del takes p out of the queue and leaves the others on it.
LEMMA WithoutOne ==
  ASSUME Typed, Linked, NEW p \in User
  PROVE  LET w == Without(p) IN
         /\ w \in Seq(User)
         /\ \A q \in User : (\E i \in DOMAIN w : w[i] = q) <=> Queued(q) /\ q # p
         /\ \A i, j \in DOMAIN w : w[i] = w[j] => i = j
<1>1. CASE ~ Queued(p)
  BY <1>1 DEF Queued, Typed, Linked, Without, wait_in_queue
<1>2. CASE Queued(p)
  <2> DEFINE m == CHOOSE i \in DOMAIN queue : queue[i] = p
             w == RemoveAt(queue, m)
  <2>1. m \in DOMAIN queue /\ queue[m] = p
    BY <1>2 DEF Queued
  <2>2. Without(p) = w
    BY <1>2 DEF Queued, Without, wait_in_queue
  <2> HIDE DEF m
  <2>3. /\ queue \in Seq(User) /\ Len(queue) \in Nat /\ m \in 1 .. Len(queue)
        /\ DOMAIN queue = 1 .. Len(queue)
    BY <2>1 DEF Typed
  <2>4. /\ w \in Seq(User)
        /\ DOMAIN w = 1 .. Len(queue) - 1
        /\ \A i \in 1 .. Len(queue) - 1 :
              w[i] = IF i < m THEN queue[i] ELSE queue[i + 1]
    BY <2>3, RemoveAtProperties
  <2> HIDE DEF w
  <2>5. \A i, j \in DOMAIN queue : queue[i] = queue[j] => i = j
    BY DEF Linked
  <2>6. ASSUME NEW q \in User
        PROVE  (\E i \in DOMAIN w : w[i] = q) <=> Queued(q) /\ q # p
    <3>1. ASSUME NEW i \in DOMAIN w, w[i] = q
          PROVE  Queued(q) /\ q # p
      BY <2>1, <2>3, <2>4, <2>5, <3>1 DEF Queued
    <3>2. ASSUME NEW i \in DOMAIN queue, queue[i] = q, q # p
          PROVE  \E k \in DOMAIN w : w[k] = q
      <4>1. CASE i < m
        BY <2>3, <2>4, <3>2, <4>1
      <4>2. CASE i > m
        <5>1. i - 1 \in DOMAIN w /\ w[i - 1] = q
          BY <2>3, <2>4, <3>2, <4>2
        <5> QED BY <5>1
      <4> QED BY <2>1, <2>3, <3>2, <4>1, <4>2
    <3> QED BY <3>1, <3>2 DEF Queued
  <2>7. ASSUME NEW i \in DOMAIN w, NEW j \in DOMAIN w, w[i] = w[j]
        PROVE  i = j
    <3> DEFINE Old(k) == IF k < m THEN k ELSE k + 1
    <3>1. \A k \in DOMAIN w : Old(k) \in DOMAIN queue /\ w[k] = queue[Old(k)]
      BY <2>3, <2>4
    <3>2. Old(i) = Old(j)
      BY <2>5, <2>7, <3>1
    <3> QED BY <2>3, <2>4, <3>2
  <2> QED BY <2>2, <2>4, <2>6, <2>7
<1> QED BY <1>1, <1>2

-----------------------------------------------------------------------------
(* What the kinds of steps do to the processes.                             *)

\* wakeup_proc of a set of readers that are not dead.
LEMMA Wakes ==
  ASSUME Inv, NEW W \in SUBSET User, \A q \in W : state[q] # "zombie",
         Asserted(WakeupAsserts(W)),
         state' = StateAfterWakeup(W), waitState' = WaitAfterWakeup(W),
         runq' = QueueAfterWakeup(W), UNCHANGED <<current, timers>>,
         needResched' \in [Proc -> BOOLEAN]
  PROVE  /\ SchedTypeOK' /\ RunQueueExact' /\ panic' = "no" /\ current \notin runq'
         /\ \A q \in User :
               /\ state'[q] # "unused"
               /\ state'[q] = "zombie" <=> state[q] = "zombie"
               /\ waitState'[q] \in {"none", "kbd"}
               /\ waitState'[q] = "kbd" => /\ waitState[q] = "kbd" /\ q \notin W
                                           /\ state'[q] = state[q] /\ q \notin runq'
<1> USE DEF Inv
<1>1. W \in SUBSET Proc /\ idleproc \notin W /\ panic' = "no"
  BY ProcAssumption DEF Proc, Asserted, WakeupAsserts, Placed
<1>2. SchedTypeOK'
  <2>1. /\ state' \in [Proc -> ProcState]
        /\ waitState' \in [Proc -> WaitState]
        /\ runq' \subseteq Proc \ {idleproc}
    BY <1>1, WakeupType DEF Typed
  <2> QED BY <1>1, <2>1 DEF Typed, SchedTypeOK
<1>3. /\ \A q \in Proc : state'[q] = IF q \in W THEN "runnable" ELSE state[q]
      /\ \A q \in Proc : waitState'[q] = IF q \in W /\ state[q] # "runnable"
                                          THEN "none" ELSE waitState[q]
      /\ \A q : q \in runq' <=> q \in runq \/ /\ q \in W /\ state[q] # "runnable"
                                               /\ q # current /\ q # idleproc
  BY DEF StateAfterWakeup, WaitAfterWakeup, QueueAfterWakeup, NotRunnable
<1>4. RunQueueExact'
  BY <1>1, <1>3 DEF RunQueueExact, Placed
<1>5. current \notin runq'
  BY <1>3 DEF Placed
<1>6. ASSUME NEW q \in User
      PROVE  /\ state'[q] # "unused"
             /\ state'[q] = "zombie" <=> state[q] = "zombie"
             /\ waitState'[q] \in {"none", "kbd"}
             /\ waitState'[q] = "kbd" => /\ waitState[q] = "kbd" /\ q \notin W
                                         /\ state'[q] = state[q] /\ q \notin runq'
  <2>1. q \in Proc
    BY DEF Proc
  <2> QED BY <1>3, <2>1 DEF Placed, Parked
<1> QED BY <1>1, <1>2, <1>4, <1>5, <1>6

\* A user process in the kernel, not woken yet, is off every queue.
LEMMA RunnerIsFree ==
  ASSUME Inv, NEW p \in User, current = p, pc[p] # "read_sched"
  PROVE  /\ waitState[p] # "kbd"
         /\ p \notin runq
         /\ Queued(p) => pc[p] = "read_woken"
  BY DEF Inv, Parked, Linked, Placed, WaitPlaces

\* Steps that leave the queue, the marks of waiting and the ring alone, and
\* move no process out of or into the places of a waiting reader.
LEMMA PlaceKeeps ==
  ASSUME Inv,
         UNCHANGED <<schedVars, buffer, rpos, wpos, queue, wakeFlags, exiting,
                     pressed, read>>,
         want' \in [User -> Nat], NEW p \in Proc, current = p, NEW l, Goto(p, l),
         pc[p] \notin WaitPlaces \cup {"exit_sched"}
  PROVE  Inv'
<1> USE DEF Inv, Goto, schedVars
<1>1. \A q \in User : Queued(q)' <=> Queued(q)
  BY DEF Queued
<1>2. Typed'
  BY DEF Typed, SchedTypeOK
<1>3. Parked' /\ Linked' /\ Placed'
  BY <1>1 DEF Typed, Parked, Linked, Placed, WaitPlaces, Proc
<1>4. NoReaderForgotten' /\ RunQueueExact'
  BY DEF NoReaderForgotten, RunQueueExact
<1>5. Ring'
  BY DEF Ring, Filled, Key
<1> QED BY <1>2, <1>3, <1>4, <1>5

-----------------------------------------------------------------------------
(* What a key and a read do to the ring.                                    *)

PutKey ==
    /\ pressed' = pressed + 1
    /\ buffer' = [buffer EXCEPT ![wpos % BufSize] = pressed']
    /\ wpos' = NextWpos
    /\ UNCHANGED <<rpos, read>>

GetKeys(n) ==
    /\ read' = read \o [i \in 1 .. n |-> buffer[(rpos + i - 1) % BufSize]]
    /\ rpos' = rpos + n
    /\ UNCHANGED <<buffer, wpos, pressed>>

LEMMA RingTyped ==
  ASSUME Inv
  PROVE  /\ rpos \in Nat /\ wpos \in Nat /\ pressed \in Nat /\ BufSize \in Nat \ {0}
         /\ DOMAIN read = 1 .. rpos
         /\ \A i \in 1 .. rpos : read[i] \in Nat
         /\ \A k \in Nat : Key(k) \in Nat
<1>1. /\ rpos \in Nat /\ wpos \in Nat /\ pressed \in Nat
      /\ read \in Seq(Nat) /\ Len(read) = rpos
      /\ buffer \in [0 .. BufSize - 1 -> Nat]
  BY DEF Inv, Typed, Ring
<1>2. \A k \in Nat : Key(k) \in Nat
  BY <1>1, SlotType DEF Key
<1>3. DOMAIN read = 1 .. rpos /\ \A i \in 1 .. rpos : read[i] \in Nat
  BY <1>1
<1> QED BY <1>1, <1>2, <1>3, StdinAssumption

\* Ring, with Filled and the domain of read spelled out.
LEMMA RingSpelledOut ==
  ASSUME Inv
  PROVE  /\ rpos <= wpos /\ wpos <= rpos + BufSize /\ wpos <= pressed
         /\ Len(read) = rpos
         /\ \A i \in 1 .. rpos : read[i] <= pressed
         /\ \A k \in rpos .. wpos - 1 : Key(k) <= pressed
         /\ \A i, j \in 1 .. rpos : read[i] = read[j] => i = j
         /\ \A j, k \in rpos .. wpos - 1 : Key(j) = Key(k) => j = k
         /\ \A i \in 1 .. rpos, k \in rpos .. wpos - 1 : read[i] # Key(k)
         /\ pressed = wpos => /\ \A i \in 1 .. rpos : read[i] = i
                              /\ \A k \in rpos .. wpos - 1 : Key(k) = k + 1
<1>1. DOMAIN read = 1 .. rpos /\ Filled = rpos .. wpos - 1
  BY RingTyped DEF Filled
<1>2. Ring
  BY DEF Inv
<1> QED BY <1>1, <1>2 DEF Ring

\* A key overwrites no key that waits, unless the buffer is full.
LEMMA KeyIntoRing ==
  ASSUME Inv, PutKey
  PROVE  Ring' /\ buffer' \in [0 .. BufSize - 1 -> Nat] /\ wpos' \in Nat
<1>1. /\ rpos \in Nat /\ wpos \in Nat /\ pressed \in Nat /\ BufSize \in Nat \ {0}
      /\ DOMAIN read = 1 .. rpos
      /\ \A i \in 1 .. rpos : read[i] \in Nat
  BY RingTyped
<1>2. wpos' = NextWpos /\ wpos' \in Nat /\ pressed' = pressed + 1
      /\ rpos' = rpos /\ read' = read
  BY <1>1 DEF PutKey, NextWpos
<1> DEFINE KeyAfter(k) == buffer'[k % BufSize]
<1>3. /\ buffer' \in [0 .. BufSize - 1 -> Nat]
      /\ \A k \in Nat :
            KeyAfter(k) = IF k % BufSize = wpos % BufSize THEN pressed + 1 ELSE Key(k)
  <2>1. /\ buffer \in [0 .. BufSize - 1 -> Nat]
        /\ \A k \in Nat : k % BufSize \in 0 .. BufSize - 1
    BY SlotType DEF Inv, Typed
  <2>2. pressed' \in Nat
    BY <1>1, <1>2
  <2>3. wpos % BufSize \in 0 .. BufSize - 1
    BY <1>1, <2>1
  <2>4. buffer' \in [0 .. BufSize - 1 -> Nat]
    BY <2>1, <2>2, <2>3 DEF PutKey
  <2>5. ASSUME NEW k \in Nat
        PROVE  KeyAfter(k) = IF k % BufSize = wpos % BufSize THEN pressed + 1 ELSE Key(k)
    BY <1>2, <2>1, <2>3 DEF Key, PutKey
  <2> QED BY <2>4, <2>5
<1> HIDE DEF KeyAfter
<1>4. \A j, k \in Nat : j < k /\ k < j + BufSize => j % BufSize # k % BufSize
  BY SlotsApart
<1>5. /\ rpos <= wpos /\ wpos <= rpos + BufSize /\ wpos <= pressed
      /\ \A i \in 1 .. rpos : read[i] <= pressed
      /\ \A k \in rpos .. wpos - 1 : Key(k) \in Nat /\ Key(k) <= pressed
      /\ \A i, j \in 1 .. rpos : read[i] = read[j] => i = j
      /\ \A j, k \in rpos .. wpos - 1 : Key(j) = Key(k) => j = k
      /\ \A i \in 1 .. rpos, k \in rpos .. wpos - 1 : read[i] # Key(k)
      /\ pressed = wpos => /\ \A i \in 1 .. rpos : read[i] = i
                           /\ \A k \in rpos .. wpos - 1 : Key(k) = k + 1
  <2>1. \A k \in rpos .. wpos - 1 : k \in Nat
    BY <1>1
  <2>2. \A k \in rpos .. wpos - 1 : Key(k) \in Nat
    BY <2>1, RingTyped
  <2> QED BY <1>1, <2>2, RingSpelledOut
<1>6. /\ wpos - rpos < BufSize => wpos' = wpos + 1
      /\ wpos - rpos >= BufSize => wpos' = wpos /\ wpos = rpos + BufSize
  BY <1>1, <1>2, <1>5 DEF NextWpos
<1>7. /\ rpos <= wpos' /\ wpos' <= rpos + BufSize /\ wpos' <= pressed + 1
      /\ pressed + 1 = wpos' => wpos' = wpos + 1 /\ pressed = wpos
  BY <1>1, <1>2, <1>5, <1>6
<1>8. ASSUME NEW k \in rpos .. wpos' - 1
      PROVE  /\ k \in Nat
             /\ KeyAfter(k) = pressed + 1 \/ (k < wpos /\ KeyAfter(k) = Key(k))
             /\ pressed + 1 = wpos' => KeyAfter(k) = k + 1
  <2>1. k \in Nat
    BY <1>1, <1>2
  <2>2. CASE k = wpos
    BY <1>1, <1>3, <1>7, <2>1, <2>2
  <2>3. CASE k < wpos
    <3>1. KeyAfter(k) = pressed + 1 \/ KeyAfter(k) = Key(k)
      BY <1>3, <2>1
    <3>2. ASSUME pressed + 1 = wpos' PROVE KeyAfter(k) = k + 1
      <4>1. wpos < rpos + BufSize
        BY <1>1, <1>6, <1>7, <3>2
      <4>2. k % BufSize # wpos % BufSize
        <5>1. wpos < k + BufSize
          BY <1>1, <1>2, <2>1, <4>1
        <5> QED BY <1>1, <1>4, <2>1, <2>3, <5>1
      <4>3. KeyAfter(k) = Key(k)
        BY <1>3, <2>1, <4>2
      <4> QED BY <1>1, <1>5, <1>7, <2>3, <3>2, <4>3
    <3> QED BY <2>1, <2>3, <3>1, <3>2
  <2> QED BY <1>1, <1>2, <1>6, <2>1, <2>2, <2>3
<1>9. ASSUME NEW j \in rpos .. wpos' - 1, NEW k \in rpos .. wpos' - 1,
             KeyAfter(j) = KeyAfter(k), j < k
      PROVE  FALSE
  <2>1. j \in Nat /\ k \in Nat /\ j < k /\ k < j + BufSize
    BY <1>1, <1>2, <1>7, <1>9
  <2>2. j % BufSize # k % BufSize
    BY <1>4, <2>1
  <2>3. \/ KeyAfter(j) = Key(j) /\ j < wpos
        \/ KeyAfter(k) = Key(k) /\ k < wpos
    <3>1. j < wpos /\ k <= wpos
      BY <1>1, <1>2, <1>6, <1>9, <2>1
    <3>2. CASE j % BufSize # wpos % BufSize
      BY <1>3, <2>1, <3>1, <3>2
    <3>3. CASE k % BufSize # wpos % BufSize
      <4>1. k # wpos
        BY <3>3
      <4>2. KeyAfter(k) = Key(k)
        BY <1>3, <2>1, <3>3
      <4> QED BY <1>1, <2>1, <3>1, <4>1, <4>2
    <3> QED BY <2>2, <3>2, <3>3
  <2>4. ~ (KeyAfter(j) = Key(j) /\ j < wpos /\ KeyAfter(k) = Key(k) /\ k < wpos)
    BY <1>1, <1>5, <1>9, <2>1
  <2>5. \A i \in rpos .. wpos - 1 : Key(i) # pressed + 1
    BY <1>1, <1>5
  <2> QED BY <1>1, <1>8, <1>9, <2>1, <2>3, <2>4, <2>5
<1>10. \A j, k \in rpos .. wpos' - 1 : KeyAfter(j) = KeyAfter(k) => j = k
  BY <1>1, <1>2, <1>9
<1>11. \A k \in rpos .. wpos' - 1 :
          KeyAfter(k) <= pressed + 1 /\ \A i \in 1 .. rpos : read[i] # KeyAfter(k)
  <2> SUFFICES ASSUME NEW k \in rpos .. wpos' - 1
               PROVE  /\ KeyAfter(k) <= pressed + 1
                      /\ \A i \in 1 .. rpos : read[i] # KeyAfter(k)
    OBVIOUS
  <2>1. \A i \in 1 .. rpos : read[i] \in Nat /\ read[i] <= pressed
    BY <1>1, <1>5
  <2>2. CASE KeyAfter(k) = pressed + 1
    <3>1. \A i \in 1 .. rpos : read[i] # pressed + 1
      BY <2>1, <1>1
    <3> QED BY <2>2, <3>1, <1>1
  <2>3. CASE k < wpos /\ KeyAfter(k) = Key(k)
    <3>1. k \in rpos .. wpos - 1
      BY <2>3, <1>1, <1>8
    <3>2. /\ Key(k) \in Nat /\ Key(k) <= pressed
          /\ \A i \in 1 .. rpos : read[i] # Key(k)
      BY <3>1, <1>5
    <3> QED BY <2>3, <3>2, <1>1
  <2> QED BY <2>2, <2>3, <1>8
<1>12. /\ \A i \in 1 .. rpos : read[i] <= pressed + 1
       /\ pressed + 1 = wpos' => \A i \in 1 .. rpos : read[i] = i
  BY <1>1, <1>5, <1>7
<1>13. /\ Filled' = rpos .. wpos' - 1 /\ DOMAIN read' = 1 .. rpos
       /\ \A k : Key(k)' = KeyAfter(k)
  BY <1>1, <1>2 DEF Filled, Key, KeyAfter
<1>14. Ring'
  BY RingSpelledOut, <1>2, <1>5, <1>7, <1>8, <1>10, <1>11, <1>12, <1>13 DEF Ring
<1> QED BY <1>2, <1>3, <1>14

\* The reader gets the keys at the n positions from rpos on.
LEMMA KeysOutOfRing ==
  ASSUME Inv, NEW n \in Nat, n <= wpos - rpos, GetKeys(n)
  PROVE  Ring' /\ read' \in Seq(Nat) /\ rpos' \in Nat
<1>1. /\ rpos \in Nat /\ wpos \in Nat /\ pressed \in Nat /\ BufSize \in Nat \ {0}
      /\ DOMAIN read = 1 .. rpos
      /\ \A i \in 1 .. rpos : read[i] \in Nat
  BY RingTyped
<1> DEFINE more == [i \in 1 .. n |-> buffer[(rpos + i - 1) % BufSize]]
<1>2. more \in Seq(Nat) /\ Len(more) = n /\ \A i \in 1 .. n : more[i] = Key(rpos + i - 1)
  <2>1. \A i \in 1 .. n : rpos + i - 1 \in Nat /\ more[i] = Key(rpos + i - 1)
    BY <1>1 DEF Key
  <2>2. \A i \in 1 .. n : buffer[(rpos + i - 1) % BufSize] \in Nat
    BY <2>1, RingTyped DEF Key
  <2> QED BY <2>1, <2>2
<1> HIDE DEF more
<1>3. /\ read' \in Seq(Nat) /\ Len(read') = rpos + n
      /\ \A i \in 1 .. rpos + n :
            read'[i] = IF i <= rpos THEN read[i] ELSE more[i - rpos]
  <2>1. read \in Seq(Nat) /\ Len(read) = rpos
    BY DEF Inv, Typed, Ring
  <2>2. read' = read \o more
    BY DEF GetKeys, more
  <2> QED BY <1>2, <2>1, <2>2, ConcatProperties
<1>4. /\ DOMAIN read' = 1 .. rpos + n
      /\ \A i \in 1 .. rpos : read'[i] = read[i]
      /\ \A i \in rpos + 1 .. rpos + n : read'[i] = Key(i - 1)
  <2>1. ASSUME NEW i \in rpos + 1 .. rpos + n PROVE read'[i] = Key(i - 1)
    <3>1. i - rpos \in 1 .. n /\ rpos + (i - rpos) - 1 = i - 1
      BY <1>1
    <3>2. read'[i] = more[i - rpos]
      BY <1>1, <1>3
    <3> QED BY <1>2, <3>1, <3>2
  <2> QED BY <1>1, <1>3, <2>1
<1>5. /\ rpos <= wpos /\ wpos <= rpos + BufSize /\ wpos <= pressed
      /\ \A i \in 1 .. rpos : read[i] <= pressed
      /\ \A k \in rpos .. wpos - 1 : Key(k) <= pressed
      /\ \A i, j \in 1 .. rpos : read[i] = read[j] => i = j
      /\ \A j, k \in rpos .. wpos - 1 : Key(j) = Key(k) => j = k
      /\ \A i \in 1 .. rpos, k \in rpos .. wpos - 1 : read[i] # Key(k)
      /\ pressed = wpos => /\ \A i \in 1 .. rpos : read[i] = i
                           /\ \A k \in rpos .. wpos - 1 : Key(k) = k + 1
  BY RingSpelledOut
<1>6. ASSUME NEW i \in 1 .. rpos + n
      PROVE  \/ i \in 1 .. rpos /\ read'[i] = read[i]
             \/ i \notin 1 .. rpos /\ i - 1 \in rpos .. rpos + n - 1
                /\ i - 1 \in rpos .. wpos - 1 /\ read'[i] = Key(i - 1)
  BY <1>1, <1>4
<1>7. \A i, j \in 1 .. rpos + n : read'[i] = read'[j] => i = j
  BY <1>1, <1>5, <1>6
<1>8. \A i \in 1 .. rpos + n : read'[i] <= pressed
  BY <1>1, <1>5, <1>6
<1>9. \A i \in 1 .. rpos + n, k \in rpos + n .. wpos - 1 : read'[i] # Key(k)
  BY <1>1, <1>5, <1>6
<1>10. pressed = wpos => \A i \in 1 .. rpos + n : read'[i] = i
  BY <1>1, <1>5, <1>6
<1>11. rpos + n .. wpos - 1 \subseteq rpos .. wpos - 1
  BY <1>1
<1>12. /\ Filled' = rpos + n .. wpos - 1 /\ \A k : Key(k)' = Key(k)
       /\ wpos' = wpos /\ pressed' = pressed /\ rpos' = rpos + n
  BY DEF GetKeys, Filled, Key
<1>13. Ring'
  <2>1. rpos + n <= wpos /\ wpos <= rpos + n + BufSize
    BY <1>1, <1>5
  <2> QED BY <1>3, <1>4, <1>5, <1>7, <1>8, <1>9, <1>10, <1>11, <1>12, <2>1 DEF Ring
<1> QED BY <1>1, <1>3, <1>12, <1>13

LEMMA RingUntouched ==
  ASSUME Inv, UNCHANGED <<buffer, rpos, wpos, pressed, read>>
  PROVE  Ring'
  BY DEF Inv, Ring, Filled, Key

-----------------------------------------------------------------------------
(* One lemma for each kind of step.                                         *)

\* The key wakes all who wait for one.
LEMMA WriteKeeps ==
  ASSUME Inv, dev_stdin_write
  PROVE  Inv'
<1> USE DEF Inv
<1>1. /\ queue' = <<>>
      /\ Asserted(WakeupAsserts(Woken))
      /\ state' = StateAfterWakeup(Woken) /\ waitState' = WaitAfterWakeup(Woken)
      /\ runq' = QueueAfterWakeup(Woken)
      /\ wakeFlags' = [p \in User |-> IF p \in Woken THEN "kbd" ELSE wakeFlags[p]]
      /\ pc' = AfterInterrupt
      /\ UNCHANGED <<current, needResched, timers, want, exiting>>
  BY DEF dev_stdin_write
<1>2. Woken \in SUBSET User /\ \A p \in User : p \in Woken <=> Queued(p)
  BY DEF Woken, ToSet, Typed, Queued
<1>3. \A p \in Woken : state[p] # "zombie"
  BY <1>2 DEF Linked, Placed, WaitPlaces
<1>4. needResched' \in [Proc -> BOOLEAN]
  BY <1>1 DEF Typed, SchedTypeOK
<1>5. /\ SchedTypeOK' /\ RunQueueExact' /\ panic' = "no" /\ current \notin runq'
      /\ \A q \in User : /\ state'[q] # "unused"
                         /\ state'[q] = "zombie" <=> state[q] = "zombie"
                         /\ waitState'[q] \in {"none", "kbd"}
                         /\ waitState'[q] = "kbd" => waitState[q] = "kbd" /\ q \notin Woken
  BY <1>1, <1>2, <1>3, <1>4, Wakes
<1>6. PutKey
  BY DEF dev_stdin_write, PutKey
<1>7. Ring' /\ buffer' \in [0 .. BufSize - 1 -> Nat] /\ wpos' \in Nat
  BY <1>6, KeyIntoRing
<1>8. DOMAIN pc' = Proc /\ \A q \in Proc : pc[q] = "exit_sched" => pc'[q] = pc[q]
  BY <1>1 DEF AfterInterrupt, Typed
<1>9. Typed'
  <2>1. /\ pressed' \in Nat /\ read' \in Seq(Nat) /\ rpos' \in Nat
        /\ want' \in [User -> Nat] /\ exiting' \in [User -> BOOLEAN]
    BY <1>1, <1>6 DEF PutKey, Typed
  <2>2. queue' \in Seq(User)
    BY <1>1
  <2>3. wakeFlags' \in [User -> {"interrupted", "kbd"}]
    BY <1>1 DEF Typed
  <2> QED BY <1>5, <1>7, <1>8, <2>1, <2>2, <2>3 DEF Typed
<1>10. \A q \in User : waitState'[q] # "kbd"
  BY <1>2, <1>5 DEF Parked
<1>11. Parked' /\ NoReaderForgotten'
  BY <1>10 DEF Parked, NoReaderForgotten
<1>12. Linked'
  BY <1>1 DEF Linked, Queued
<1>13. Placed'
  BY <1>1, <1>5, <1>8 DEF Placed, Proc
<1> QED BY <1>5, <1>7, <1>9, <1>11, <1>12, <1>13

\* A round of a reader that is on no queue: it joins q, or returns.
LEMMA TakeKeeps ==
  ASSUME Inv, NEW p \in User, panic = "no", current = p,
         pc[p] \in {"read", "read_woken"}, NEW w \in Seq(User), Take(p, w),
         \A r \in User : (\E i \in DOMAIN w : w[i] = r) <=> Queued(r) /\ r # p,
         \A i, j \in DOMAIN w : w[i] = w[j] => i = j
  PROVE  Inv'
<1> DEFINE n == Min({want[p], wpos - rpos})
<1> USE DEF Inv
<1>1. /\ n \in Nat /\ n <= want[p] /\ n <= wpos - rpos
      /\ n = want[p] \/ n = wpos - rpos
  <2>1. want[p] \in Nat /\ wpos - rpos \in Nat
    BY DEF Typed, Ring
  <2> QED BY <2>1, MinOfTwo
<1>2. /\ GetKeys(n)
      /\ UNCHANGED <<current, needResched, runq, timers, panic, exiting>>
      /\ \/ /\ want[p] = n /\ want' = [want EXCEPT ![p] = 0]
            /\ queue' = w /\ Goto(p, "trap_ret")
            /\ UNCHANGED <<state, waitState, wakeFlags>>
         \/ /\ want[p] # n /\ want' = [want EXCEPT ![p] = want[p] - n]
            /\ state' = [state EXCEPT ![p] = "sleeping"]
            /\ waitState' = [waitState EXCEPT ![p] = "kbd"]
            /\ wakeFlags' = [wakeFlags EXCEPT ![p] = "interrupted"]
            /\ queue' = Append(w, p) /\ Goto(p, "read_sched")
  BY DEF Take, GetKeys
<1> HIDE DEF n
<1>3. Ring' /\ read' \in Seq(Nat) /\ rpos' \in Nat
  BY <1>1, <1>2, KeysOutOfRing
<1>4. p \in Proc /\ waitState[p] # "kbd" /\ p \notin runq /\ state[p] # "zombie"
  BY RunnerIsFree DEF Proc, Placed
<1>5. UNCHANGED <<buffer, wpos, pressed>> /\ rpos' = rpos + n
  BY <1>2 DEF GetKeys
<1>6. CASE want[p] = n
  <2>1. /\ queue' = w /\ Goto(p, "trap_ret")
        /\ UNCHANGED <<state, waitState, wakeFlags>>
        /\ want' \in [User -> Nat]
    <3>1. /\ want' = [want EXCEPT ![p] = 0]
          /\ queue' = w /\ Goto(p, "trap_ret")
          /\ UNCHANGED <<state, waitState, wakeFlags>>
      BY <1>2, <1>6
    <3> QED BY <3>1 DEF Typed
  <2>2. \A r \in User : Queued(r)' <=> Queued(r) /\ r # p
    BY <2>1 DEF Queued
  <2>3. DOMAIN pc' = Proc /\ \A r \in Proc \ {p} : pc'[r] = pc[r]
    BY <2>1 DEF Goto, Typed
  <2>4. Typed'
    BY <1>2, <1>3, <1>5, <2>1, <2>3 DEF Typed, SchedTypeOK
  <2>5. Parked'
    BY <1>2, <1>4, <2>1, <2>2, <2>3 DEF Parked, Proc
  <2>6. Linked'
    BY <2>1, <2>2, <2>3 DEF Linked, Proc
  <2>7. Placed' /\ RunQueueExact'
    BY <1>2, <1>4, <2>1, <2>3 DEF Placed, Proc, RunQueueExact
  <2>8. NoReaderForgotten'
    BY <1>1, <1>5, <2>1 DEF NoReaderForgotten, Typed
  <2> QED BY <1>3, <2>4, <2>5, <2>6, <2>7, <2>8
<1>7. CASE want[p] # n
  <2>1. /\ state' = [state EXCEPT ![p] = "sleeping"]
        /\ waitState' = [waitState EXCEPT ![p] = "kbd"]
        /\ wakeFlags' = [wakeFlags EXCEPT ![p] = "interrupted"]
        /\ queue' = Append(w, p) /\ Goto(p, "read_sched")
        /\ want' = [want EXCEPT ![p] = want[p] - n]
    BY <1>2, <1>7
  <2>2. queue' \in Seq(User) /\ want' \in [User -> Nat]
    BY <1>1, <2>1 DEF Typed
  <2>3. /\ \A r \in User : Queued(r)' <=> Queued(r) \/ r = p
        /\ \A i, j \in DOMAIN queue' : queue'[i] = queue'[j] => i = j
    <3>1. /\ Len(w) \in Nat /\ DOMAIN w = 1 .. Len(w)
          /\ DOMAIN queue' = 1 .. Len(w) + 1
          /\ \A i \in 1 .. Len(w) : queue'[i] = w[i]
          /\ queue'[Len(w) + 1] = p
      BY <2>1
    <3>2. ASSUME NEW r \in User
          PROVE  (\E i \in DOMAIN queue' : queue'[i] = r) <=> Queued(r) \/ r = p
      BY <3>1
    <3>3. \A i \in DOMAIN w : w[i] # p
      OBVIOUS
    <3>4. \A i, j \in DOMAIN queue' : queue'[i] = queue'[j] => i = j
      BY <3>1, <3>3
    <3> QED BY <3>2, <3>4 DEF Queued
  <2>4. /\ DOMAIN pc' = Proc /\ pc'[p] = "read_sched"
        /\ \A r \in Proc \ {p} : pc'[r] = pc[r]
    BY <1>4, <2>1 DEF Goto, Typed
  <2>5. /\ state'[p] = "sleeping" /\ waitState'[p] = "kbd" /\ wakeFlags'[p] # "kbd"
        /\ \A r \in Proc \ {p} : state'[r] = state[r] /\ waitState'[r] = waitState[r]
        /\ \A r \in User \ {p} : wakeFlags'[r] = wakeFlags[r]
    BY <1>4, <2>1 DEF Typed, SchedTypeOK
  <2>6. Typed'
    <3>1. /\ state' \in [Proc -> ProcState]
          /\ waitState' \in [Proc -> WaitState]
          /\ wakeFlags' \in [User -> {"interrupted", "kbd"}]
      BY <2>1 DEF Typed, SchedTypeOK, ProcState, WaitState, Interruptible
    <3> QED BY <1>2, <1>3, <1>5, <2>2, <2>4, <3>1 DEF Typed, SchedTypeOK
  <2>7. Parked'
    BY <1>2, <1>4, <2>3, <2>4, <2>5 DEF Parked, Proc
  <2>8. Linked'
    BY <2>3, <2>4, <2>5 DEF Linked, Proc, WaitPlaces
  <2>9. Placed' /\ RunQueueExact'
    BY <1>2, <1>4, <2>4, <2>5 DEF Placed, Proc, RunQueueExact
  <2>10. NoReaderForgotten'
    BY <1>1, <1>5, <1>7 DEF NoReaderForgotten, Typed
  <2> QED BY <1>3, <2>6, <2>7, <2>8, <2>9, <2>10
<1> QED BY <1>6, <1>7

LEMMA ReadKeeps ==
  ASSUME Inv, NEW p \in User, Read(p) \/ ReadAgain(p)
  PROVE  Inv'
<1>1. panic = "no" /\ current = p
  BY DEF Read, ReadAgain, At
<1>2. CASE Read(p)
  <2>1. pc[p] = "read" /\ Take(p, queue)
    BY <1>2 DEF Read, At
  <2>2. ~ Queued(p) /\ queue \in Seq(User) /\ Linked
    BY <2>1 DEF Inv, Linked, WaitPlaces, Typed
  <2> QED BY <1>1, <2>1, <2>2, TakeKeeps DEF Queued, Linked
<1>3. CASE ReadAgain(p)
  <2>1. pc[p] = "read_woken" /\ Take(p, Without(p))
    BY <1>3 DEF ReadAgain, At
  <2>2. Typed /\ Linked
    BY DEF Inv
  <2> QED BY <1>1, <2>1, <2>2, TakeKeeps, WithoutOne
<1> QED BY <1>2, <1>3

LEMMA ReadInterruptedKeeps ==
  ASSUME Inv, NEW p \in User, ReadInterrupted(p)
  PROVE  Inv'
<1> USE DEF Inv
<1>1. /\ current = p /\ pc[p] = "read_woken" /\ queue' = Without(p)
      /\ want' = [want EXCEPT ![p] = 0] /\ Goto(p, "trap_ret")
      /\ UNCHANGED <<schedVars, buffer, rpos, wpos, wakeFlags, exiting, pressed, read>>
  BY DEF ReadInterrupted, At
<1>2. p \in Proc /\ waitState[p] # "kbd" /\ state[p] # "zombie"
  BY <1>1, RunnerIsFree DEF Proc, Placed
<1>3. /\ queue' \in Seq(User)
      /\ \A r \in User : Queued(r)' <=> Queued(r) /\ r # p
      /\ \A i, j \in DOMAIN queue' : queue'[i] = queue'[j] => i = j
  <2>1. /\ Without(p) \in Seq(User)
        /\ \A q \in User : (\E i \in DOMAIN Without(p) : Without(p)[i] = q) <=> Queued(q) /\ q # p
        /\ \A i, j \in DOMAIN Without(p) : Without(p)[i] = Without(p)[j] => i = j
    <3>1. Typed /\ Linked
      BY DEF Inv
    <3> QED BY <3>1, WithoutOne
  <2>2. \A r : Queued(r)' <=> \E i \in DOMAIN queue' : queue'[i] = r
    BY DEF Queued
  <2> QED BY <2>1, <2>2, <1>1
<1>4. DOMAIN pc' = Proc /\ \A r \in Proc \ {p} : pc'[r] = pc[r]
  BY <1>1 DEF Goto, Typed
<1>5. Typed'
  BY <1>1, <1>3, <1>4 DEF Typed, SchedTypeOK, schedVars
<1>6. Parked' /\ Linked' /\ Placed'
  BY <1>1, <1>2, <1>3, <1>4 DEF Parked, Linked, Placed, Proc, schedVars
<1>7. NoReaderForgotten' /\ RunQueueExact'
  BY <1>1 DEF NoReaderForgotten, RunQueueExact, schedVars
<1> QED BY <1>1, <1>5, <1>6, <1>7, RingUntouched

\* do_kill wakes a sleeping reader and leaves it on the queue.
LEMMA KillKeeps ==
  ASSUME Inv, NEW p \in User, NEW q \in User, SysKill(p, q)
  PROVE  Inv'
<1> DEFINE W == {x \in {q} : ~ exiting[x] /\ waitState[x] \in Interruptible}
<1> USE DEF Inv
<1>1. /\ current = p /\ pc[p] = "user"
      /\ Asserted(WakeupAsserts(W))
      /\ exiting' = [exiting EXCEPT ![q] = TRUE]
      /\ state' = StateAfterWakeup(W) /\ waitState' = WaitAfterWakeup(W)
      /\ runq' = QueueAfterWakeup(W) /\ Goto(p, "trap_ret")
      /\ UNCHANGED <<current, needResched, timers, buffer, rpos, wpos, queue,
                     wakeFlags, want, pressed, read>>
  BY DEF SysKill, At
<1>2. W \in SUBSET User /\ \A x \in W : state[x] # "zombie"
  BY DEF Placed, Parked, Interruptible
<1> HIDE DEF W
<1>3. needResched' \in [Proc -> BOOLEAN]
  BY <1>1 DEF Typed, SchedTypeOK
<1>4. /\ SchedTypeOK' /\ RunQueueExact' /\ panic' = "no" /\ current \notin runq'
      /\ \A r \in User :
            /\ state'[r] # "unused"
            /\ state'[r] = "zombie" <=> state[r] = "zombie"
            /\ waitState'[r] \in {"none", "kbd"}
            /\ waitState'[r] = "kbd" => /\ waitState[r] = "kbd" /\ r \notin W
                                        /\ state'[r] = state[r] /\ r \notin runq'
  BY <1>1, <1>2, <1>3, Wakes
<1>5. /\ DOMAIN pc' = Proc /\ \A r \in Proc \ {p} : pc'[r] = pc[r]
      /\ state[p] # "zombie" /\ waitState[p] # "kbd"
  BY <1>1, RunnerIsFree DEF Goto, Typed, Placed
<1>6. \A r \in User : Queued(r)' <=> Queued(r)
  BY <1>1 DEF Queued
<1>7. Typed'
  BY <1>1, <1>4, <1>5 DEF Typed
<1>8. Parked' /\ NoReaderForgotten'
  BY <1>1, <1>4, <1>5, <1>6 DEF Parked, NoReaderForgotten, Proc
<1>9. Linked'
  BY <1>1, <1>5, <1>6 DEF Linked, Proc, WaitPlaces
<1>10. Placed'
  BY <1>1, <1>4, <1>5 DEF Placed, Proc
<1> QED BY <1>1, <1>4, <1>7, <1>8, <1>9, <1>10, RingUntouched

LEMMA TrapReturnKeeps ==
  ASSUME Inv, NEW p \in User, TrapReturn(p)
  PROVE  Inv'
<1> USE DEF Inv
<1>1. /\ current = p /\ pc[p] = "trap_ret" /\ p \in Proc
      /\ \/ state' = [state EXCEPT ![p] = "zombie"] /\ Goto(p, "exit_sched")
         \/ (\E l : Goto(p, l)) /\ UNCHANGED state
      /\ UNCHANGED <<current, waitState, needResched, runq, timers, panic,
                     buffer, rpos, wpos, queue, wakeFlags, want, exiting, pressed, read>>
  BY DEF TrapReturn, At, Proc
<1>2. waitState[p] # "kbd" /\ p \notin runq /\ ~ Queued(p) /\ state[p] # "zombie"
  BY <1>1, RunnerIsFree DEF Placed
<1>3. /\ DOMAIN pc' = Proc /\ \A r \in Proc \ {p} : pc'[r] = pc[r]
      /\ state' \in [Proc -> ProcState]
      /\ \A r \in Proc \ {p} : state'[r] = state[r]
      /\ state'[p] # "unused" /\ (state'[p] = "zombie" => pc'[p] = "exit_sched")
  BY <1>1, <1>2 DEF Goto, Typed, SchedTypeOK, ProcState, Placed
<1>4. \A r \in User : Queued(r)' <=> Queued(r)
  BY <1>1 DEF Queued
<1>5. Typed'
  BY <1>1, <1>3 DEF Typed, SchedTypeOK
<1>6. Parked' /\ Linked' /\ Placed'
  BY <1>1, <1>2, <1>3, <1>4 DEF Parked, Linked, Placed, Proc
<1>7. NoReaderForgotten' /\ RunQueueExact'
  BY <1>1, <1>3 DEF NoReaderForgotten, RunQueueExact
<1> QED BY <1>1, <1>5, <1>6, <1>7, RingUntouched

LEMMA SwitchKeeps ==
  ASSUME Inv, NEW p \in Proc, NEW q \in Proc, Switch(p, q)
  PROVE  Inv'
<1> USE DEF Inv
<1>1. /\ current = p /\ current' = q /\ Schedule(q)
      /\ runq' = Requeued \ {q}
      /\ q = idleproc \/ q \in Requeued
      /\ Requeued # {} => q \in Requeued
      /\ pc' = [pc EXCEPT ![p] = StdinResume[pc[p]]]
      /\ pc[p] \in {"read_sched", "preempt", "exit_sched", "idle_sched"}
      /\ UNCHANGED <<state, waitState, timers, panic, buffer, rpos, wpos, queue,
                     wakeFlags, want, exiting, pressed, read>>
  BY DEF Switch, Schedule, Goto, StdinResume
<1>2. /\ StdinResume["read_sched"] = "read_woken"
      /\ StdinResume["exit_sched"] = "exit_sched"
  BY DEF StdinResume
<1>3. Typed'
  BY <1>1, ScheduleType DEF Typed
<1>4. \A r \in Proc : /\ pc[r] = "exit_sched" => pc'[r] = "exit_sched"
                      /\ pc[r] \in WaitPlaces => pc'[r] \in WaitPlaces
  BY <1>1, <1>2 DEF Typed, WaitPlaces
<1>5. \A r : r \in Requeued <=> r \in runq \/ /\ r = current /\ r # idleproc
                                               /\ state[r] = "runnable"
  BY DEF Requeued
<1>6. \A r \in User : Queued(r)' <=> Queued(r)
  BY <1>1 DEF Queued
<1>7. ASSUME NEW r \in User, waitState[r] = "kbd"
      PROVE  /\ r \notin runq' /\ r # q
             /\ pc'[r] = "read_sched" \/ pc'[r] = "read_woken"
  <2>1. state[r] = "sleeping" /\ r \notin runq /\ pc[r] \in WaitPlaces /\ r # idleproc
    BY <1>7, ProcAssumption DEF Parked, WaitPlaces
  <2> QED BY <1>1, <1>4, <1>5, <2>1 DEF WaitPlaces, Proc
<1>8. Parked'
  BY <1>1, <1>6, <1>7 DEF Parked
<1>9. Linked' /\ Placed'
  BY <1>1, <1>4, <1>6 DEF Linked, Placed, Proc
<1>10. RunQueueExact'
  BY <1>1, <1>5 DEF RunQueueExact, Placed, Typed, SchedTypeOK
<1>11. NoReaderForgotten'
  BY <1>1 DEF NoReaderForgotten
<1> QED BY <1>1, <1>3, <1>8, <1>9, <1>10, <1>11, RingUntouched

LEMMA TickKeeps ==
  ASSUME Inv, NEW sliceUsed \in BOOLEAN, Tick(sliceUsed)
  PROVE  Inv'
<1> USE DEF Inv
<1>1. /\ UNCHANGED <<current, timers, buffer, rpos, wpos, queue, wakeFlags, want,
                     exiting, pressed, read>>
      /\ Asserted(WakeupAsserts({}))
      /\ state' = StateAfterWakeup({}) /\ waitState' = WaitAfterWakeup({})
      /\ runq' = QueueAfterWakeup({})
      /\ needResched' \in [Proc -> BOOLEAN]
      /\ pc' = AfterInterrupt
  BY DEF Tick, ClockTick, Asserted, WakeupAsserts, Typed, SchedTypeOK
<1>2. /\ SchedTypeOK' /\ RunQueueExact' /\ panic' = "no" /\ current \notin runq'
      /\ \A r \in User :
            /\ state'[r] # "unused"
            /\ state'[r] = "zombie" <=> state[r] = "zombie"
            /\ waitState'[r] \in {"none", "kbd"}
            /\ waitState'[r] = "kbd" => /\ waitState[r] = "kbd"
                                        /\ state'[r] = state[r] /\ r \notin runq'
  BY <1>1, Wakes
<1>3. DOMAIN pc' = Proc /\ \A r \in Proc : pc[r] # "user" => pc'[r] = pc[r]
  BY <1>1 DEF AfterInterrupt, Typed
<1>4. \A r \in User : Queued(r)' <=> Queued(r)
  BY <1>1 DEF Queued
<1>5. Typed'
  BY <1>1, <1>2, <1>3 DEF Typed
<1>6. Parked' /\ NoReaderForgotten'
  BY <1>1, <1>2, <1>3, <1>4 DEF Parked, NoReaderForgotten, Proc
<1>7. Linked' /\ Placed'
  BY <1>1, <1>2, <1>3, <1>4 DEF Linked, Placed, Proc, WaitPlaces
<1> QED BY <1>1, <1>2, <1>5, <1>6, <1>7, RingUntouched

-----------------------------------------------------------------------------

LEMMA InitInv == Init => Inv
<1> SUFFICES ASSUME Init PROVE Inv
  OBVIOUS
<1> USE ProcAssumption, StdinAssumption DEF Init
<1>1. Typed
  BY DEF Typed, SchedTypeOK, Proc, ProcState, WaitState, Interruptible
<1>2. Parked /\ Linked /\ Placed
  BY DEF Parked, Linked, Placed, Queued, Proc
<1>3. Ring
  BY DEF Ring, Filled
<1>4. NoReaderForgotten /\ RunQueueExact
  BY DEF NoReaderForgotten, RunQueueExact, Proc
<1> QED BY <1>1, <1>2, <1>3, <1>4 DEF Inv

LEMMA NextInv == Inv /\ [Next]_vars => Inv'
<1> SUFFICES ASSUME Inv, [Next]_vars PROVE Inv'
  OBVIOUS
<1>1. CASE dev_stdin_write
  BY <1>1, WriteKeeps
<1>2. ASSUME NEW p \in User, UserStep(p)
      PROVE  Inv'
  <2>1. ASSUME NEW n \in 1 .. MaxLen, SysRead(p, n)
        PROVE  Inv'
    <3>1. want' \in [User -> Nat]
      BY <2>1, StdinAssumption DEF SysRead, Inv, Typed
    <3>2. /\ p \in Proc /\ current = p /\ pc[p] \notin WaitPlaces \cup {"exit_sched"}
          /\ Goto(p, "read")
          /\ UNCHANGED <<schedVars, buffer, rpos, wpos, queue, wakeFlags, exiting,
                         pressed, read>>
      BY <2>1 DEF SysRead, At, WaitPlaces, Proc
    <3> QED BY <3>1, <3>2, PlaceKeeps
  <2>2. CASE Read(p) \/ ReadAgain(p)
    BY <2>2, ReadKeeps
  <2>3. CASE ReadInterrupted(p)
    BY <2>3, ReadInterruptedKeeps
  <2>4. ASSUME NEW q \in User, SysKill(p, q)
        PROVE  Inv'
    BY <2>4, KillKeeps
  <2>5. CASE TrapReturn(p)
    BY <2>5, TrapReturnKeeps
  <2> QED BY <1>2, <2>1, <2>2, <2>3, <2>4, <2>5 DEF UserStep
<1>3. CASE IdleLoop
  <2>1. want' \in [User -> Nat]
    BY <1>3 DEF IdleLoop, Inv, Typed
  <2>2. /\ idleproc \in Proc /\ current = idleproc
        /\ pc[idleproc] \notin WaitPlaces \cup {"exit_sched"}
        /\ Goto(idleproc, "idle_sched")
        /\ UNCHANGED <<schedVars, buffer, rpos, wpos, queue, wakeFlags, exiting,
                       pressed, read>>
    BY <1>3 DEF IdleLoop, At, WaitPlaces, Proc
  <2> QED BY <2>1, <2>2, PlaceKeeps
<1>4. ASSUME NEW p \in Proc, NEW q \in Proc, Switch(p, q)
      PROVE  Inv'
  BY <1>4, SwitchKeeps
<1>5. ASSUME NEW sliceUsed \in BOOLEAN, Tick(sliceUsed)
      PROVE  Inv'
  BY <1>5, TickKeeps
<1>6. CASE UNCHANGED vars
  <2>1. \A q \in User : Queued(q)' <=> Queued(q)
    BY <1>6 DEF vars, stdinVars, Queued
  <2>2. Typed'
    BY <1>6 DEF vars, schedVars, stdinVars, Inv, Typed, SchedTypeOK
  <2>3. Parked' /\ Linked' /\ Placed'
    BY <1>6, <2>1 DEF vars, schedVars, stdinVars, Inv, Parked, Linked, Placed
  <2>4. NoReaderForgotten' /\ RunQueueExact'
    BY <1>6 DEF vars, schedVars, stdinVars, Inv, NoReaderForgotten, RunQueueExact
  <2>5. Ring'
    BY <1>6, RingUntouched DEF vars, stdinVars
  <2> QED BY <2>2, <2>3, <2>4, <2>5 DEF Inv
<1> QED BY <1>1, <1>2, <1>3, <1>4, <1>5, <1>6 DEF Next

LEMMA InvHolds == Spec => []Inv
  BY InitInv, NextInv, PTL DEF Spec

(* The wait queue of the console holds exactly the readers asleep for a key, *)
(* each once, and no wait_t of a read that has ended, whatever the keyboard  *)
(* interrupt and do_kill do at whatever moment.                              *)
THEOREM WaitQueueExact == Spec => []QueueExact
<1>1. Inv => QueueExact
  BY DEF Inv, Typed, Parked, Linked, Queued, QueueExact, IsInjective, ToSet, WaitPlaces
<1> QED BY <1>1, InvHolds, PTL

(* No reader sleeps while the buffer holds a key: the key that comes between *)
(* the test of the buffer and schedule() is not lost.                        *)
THEOREM ReadersWoken == Spec => []NoReaderForgotten
<1>1. Inv => NoReaderForgotten
  BY DEF Inv
<1> QED BY <1>1, InvHolds, PTL

(* No key is read twice, and as long as the buffer has held all that were    *)
(* pressed, they are read in the order of the keyboard.                      *)
THEOREM KeysInOrder == Spec => []ReadInOrder
<1>1. Inv => ReadInOrder
  BY DEF Inv, Ring, ReadInOrder, IsInjective
<1> QED BY <1>1, InvHolds, PTL

(* The run queue is exact here too, with an interrupt between any two        *)
(* sections of the kernel, and no assertion of wakeup_proc fails.            *)
THEOREM ConsoleKeepsRunQueue == Spec => [](RunQueueExact /\ NoAssertFails)
<1>1. Inv => RunQueueExact /\ NoAssertFails
  BY DEF Inv, Placed, NoAssertFails
<1> QED BY <1>1, InvHolds, PTL

=============================================================================
