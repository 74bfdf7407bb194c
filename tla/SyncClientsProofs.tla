-------------------------- MODULE SyncClientsProofs --------------------------
(***************************************************************************)
(* What is proved of semaphores, of the monitor and of the dinners, for    *)
(* every set of threads, number of philosophers, number of meals and bound *)
(* on the values.  Whatever the three programs of SyncClients do, no       *)
(* wakeup is lost or duplicated, the queues are first come first served,   *)
(* and semaphores count.  One thread at most is inside the monitor, the    *)
(* counts of monitor.c are right, a signalled philosopher finds its forks, *)
(* neighbours never eat together and no hungry philosopher is forgotten.   *)
(*                                                                         *)
(* ThreadStep and KernelStep sort the steps by the one operation of the    *)
(* kernel each performs; a lemma for each kind shows that it keeps the     *)
(* invariant and what it does to the queues.  The invariant of the dinners *)
(* is a table: for each philosopher, what phil, its semaphore and the      *)
(* counts are at each stage of its thread.                                 *)
(***************************************************************************)
EXTENDS SyncClients, FiniteSetTheorems, TLAPS

\* The results of wakeup_proc are well typed.
LEMMA WakeupType ==
  ASSUME SchedTypeOK, NEW W \in SUBSET Proc
  PROVE  /\ StateAfterWakeup(W) \in [Proc -> ProcState]
         /\ WaitAfterWakeup(W) \in [Proc -> WaitState]
         /\ QueueAfterWakeup(W) \subseteq Proc \ {idleproc}
  BY DEF SchedTypeOK, StateAfterWakeup, WaitAfterWakeup, QueueAfterWakeup,
         NotRunnable, ProcState, WaitState

\* So are those of schedule.
LEMMA ScheduleType ==
  ASSUME SchedTypeOK, NEW q \in Proc, Schedule(q)
  PROVE  SchedTypeOK'
  BY DEF SchedTypeOK, Schedule, Requeued

\* Places in which a thread is inside down or do_sleep.
DownPlaces == {"down_sched", "down_woken"}
SleepPlaces == {"sleep_sched", "sleep_woken"}

InQueue(p, x) == \E k \in DOMAIN waiters[x] : waiters[x][k] = p

Typed ==
    /\ SchedTypeOK
    /\ value \in [Sem -> Nat]
    /\ waiters \in [Sem -> Seq(User)]
    /\ semOf \in [User -> Sem \cup {NoSem}]
    /\ DOMAIN pc = Proc
    /\ cvp \in [User -> Cv]

\* A thread marked as waiting for a semaphore is asleep inside down, and has
\* not got the CPU back.
Parked ==
    \A p \in User : waitState[p] = "ksem" =>
        /\ state[p] = "sleeping"
        /\ p \notin runq
        /\ pc[p] = "down_sched" \/ (pc[p] = "down_woken" /\ current # p)

\* Timers are armed, and semaphores asked for, only by threads inside do_sleep
\* and down.
Placed ==
    /\ \A p \in timers : pc[p] \in SleepPlaces
    /\ \A p \in User : semOf[p] # NoSem => pc[p] \in DownPlaces
    /\ current \notin runq

\* The queue of x holds the threads asleep for x, each of them once.
Queued ==
    \A x \in Sem :
        /\ \A p \in User : InQueue(p, x) <=> waitState[p] = "ksem" /\ semOf[p] = x
        /\ \A i, j \in DOMAIN waiters[x] : waiters[x][i] = waiters[x][j] => i = j
        /\ value[x] > 0 => waiters[x] = <<>>

\* Units are with finitely many threads.
Finite == \A x \in Sem : IsFiniteSet(Granted(x))

Inv == Typed /\ Parked /\ Placed /\ Queued /\ Finite

-----------------------------------------------------------------------------
(* The kinds of steps.                                                      *)

\* Thread p has the CPU and is in a program, not inside down or do_sleep.
Free(p) == panic = "no" /\ current = p /\ pc[p] \notin DownPlaces \cup SleepPlaces

\* One call of the kernel, and the place where p goes on.
Calls(p) ==
    /\ Free(p)
    /\ cvp' \in [User -> Cv]
    /\ \/ \E x \in Sem : \E l : Up(p, x, l) \/ Down(p, x, l)
       \/ \E x \in Sem : TryDown(p, x)
       \/ \E l : Sleep(p, l)
       \/ Quit(p)
       \/ \E l : Goto(p, l) /\ UNCHANGED <<schedVars, semVars, cont, semOf>>

LEMMA SemsAreSems ==
  /\ mutex \in Sem /\ next \in Sem
  /\ \A c \in Cv : cvSem(c) \in Sem
  /\ Seat = Cv
  BY MonitorAssumption, TableAssumption DEF Seat

LEMMA NoSemIsNone == NoSem \notin Sem
  BY MonitorAssumption DEF NoSem, mutex, next, cvSem

LEMMA SeatsAround ==
  ASSUME NEW i \in Seat
  PROVE  LEFT(i) \in Seat /\ RIGHT(i) \in Seat /\ Who[i] \in User
  BY TableAssumption DEF Seat, LEFT, RIGHT

-----------------------------------------------------------------------------
(* What the parts of the invariant need from a step.                        *)

\* A thread in a program waits for nothing.
LEMMA FreeWaitsForNothing ==
  ASSUME Inv, NEW p \in User, Free(p)
  PROVE  /\ waitState[p] # "ksem"
         /\ p \notin runq
         /\ p \notin timers
         /\ semOf[p] = NoSem
         /\ \A x \in Sem : ~ InQueue(p, x)
  BY NoSemIsNone
  DEF Inv, Typed, Parked, Placed, Queued, Free, DownPlaces, SleepPlaces

\* Whoever waits goes on waiting, and nobody else starts: the queues stay exact.
LEMMA QueuesUntouched ==
  ASSUME Inv, UNCHANGED waiters,
         \A x \in Sem : value'[x] > 0 => value[x] > 0,
         \A p \in User : /\ waitState'[p] = "ksem" <=> waitState[p] = "ksem"
                         /\ waitState[p] = "ksem" => semOf'[p] = semOf[p]
  PROVE  Queued'
<1>1. \A p \in User, x \in Sem : InQueue(p, x)' <=> InQueue(p, x)
  BY DEF InQueue
<1> QED
  BY <1>1 DEF Inv, Queued

\* Nor does anybody get a unit, or take it.
LEMMA GrantedUntouched ==
  ASSUME UNCHANGED <<waiters, semOf>>
  PROVE  \A x \in Sem : Granted(x)' = Granted(x)
  BY DEF Granted

-----------------------------------------------------------------------------
(* One lemma for each kind of step.                                         *)

LEMMA PlainKeeps ==
  ASSUME Inv, NEW p \in User, Free(p), NEW l, Goto(p, l),
         UNCHANGED <<schedVars, semVars, cont, semOf>>, cvp' \in [User -> Cv]
  PROVE  Inv'
<1> USE DEF Inv, schedVars, semVars
<1>1. p \in Proc
  BY DEF Proc
<1>2. Typed'
  BY <1>1 DEF Typed, SchedTypeOK, Goto
<1>3. Parked' /\ Placed'
  BY <1>1, FreeWaitsForNothing DEF Typed, Parked, Placed, Goto, SchedTypeOK, Proc
<1>4. Queued' /\ Finite'
  BY QueuesUntouched, GrantedUntouched DEF Finite
<1> QED BY <1>2, <1>3, <1>4

LEMMA TryDownKeeps ==
  ASSUME Inv, NEW p \in User, Free(p), NEW x \in Sem, TryDown(p, x),
         cvp' \in [User -> Cv]
  PROVE  Inv'
<1> USE DEF Inv, schedVars, threadVars
<1>1. value' \in [Sem -> Nat] /\ \A y \in Sem : value'[y] > 0 => value[y] > 0
  BY DEF Typed, TryDown
<1>2. Typed'
  BY <1>1 DEF Typed, SchedTypeOK, TryDown
<1>3. Parked' /\ Placed'
  BY DEF Parked, Placed, TryDown
<1>4. Queued' /\ Finite'
  BY <1>1, QueuesUntouched, GrantedUntouched DEF Finite, TryDown
<1> QED BY <1>2, <1>3, <1>4

LEMMA SleepKeeps ==
  ASSUME Inv, NEW p \in User, Free(p), NEW l, Sleep(p, l), cvp' \in [User -> Cv]
  PROVE  Inv'
<1> USE DEF Inv, semVars, Sleep, StartSleep, Goto
<1>1. p \in Proc
  BY DEF Proc
<1>2. Typed'
  BY <1>1 DEF Typed, SchedTypeOK, ProcState, WaitState, Interruptible
<1>3. /\ waitState[p] # "ksem" /\ waitState'[p] = "timer"
      /\ \A q \in User \ {p} : waitState'[q] = waitState[q] /\ state'[q] = state[q]
      /\ pc'[p] = "sleep_sched" /\ \A q \in User \ {p} : pc'[q] = pc[q]
      /\ semOf[p] = NoSem
  BY <1>1, FreeWaitsForNothing DEF Typed, SchedTypeOK, Proc
<1>4. Parked'
  BY <1>3 DEF Parked
<1>5. Placed'
  BY <1>3 DEF Typed, SchedTypeOK, Placed, SleepPlaces
<1>6. Queued' /\ Finite'
  BY <1>3, QueuesUntouched, GrantedUntouched DEF Finite
<1> QED BY <1>2, <1>4, <1>5, <1>6

\* The one whom do_exit may wake is initproc, no user.
LEMMA QuitKeeps ==
  ASSUME Inv, NEW p \in User, Free(p), Quit(p), cvp' \in [User -> Cv]
  PROVE  Inv'
<1> DEFINE W == {q \in {initproc} : waitState[q] = "child"}
<1> USE DEF Inv
<1>1. p \in Proc /\ W \in SUBSET Proc /\ W \cap User = {}
  BY ProcAssumption DEF Proc
<1>2. /\ state' = [StateAfterWakeup(W) EXCEPT ![p] = "zombie"]
      /\ waitState' = WaitAfterWakeup(W)
      /\ runq' = QueueAfterWakeup(W)
      /\ pc' = [pc EXCEPT ![p] = "quit_sched"]
      /\ UNCHANGED <<current, needResched, timers, panic, value, waiters, semOf>>
  BY DEF Quit, Goto, semVars
<1> HIDE DEF W
<1>3. Typed'
  <2>1. /\ StateAfterWakeup(W) \in [Proc -> ProcState]
        /\ waitState' \in [Proc -> WaitState]
        /\ runq' \subseteq Proc \ {idleproc}
    BY <1>1, <1>2, WakeupType DEF Typed
  <2>2. SchedTypeOK'
    BY <1>1, <1>2, <2>1 DEF Typed, SchedTypeOK, ProcState
  <2> QED BY <1>2, <2>2 DEF Typed
<1>4. /\ \A q \in User : waitState'[q] = waitState[q] /\ (q \in runq' => q \in runq)
      /\ \A q \in User \ {p} : state'[q] = state[q] /\ pc'[q] = pc[q]
      /\ waitState[p] # "ksem" /\ semOf[p] = NoSem /\ p \notin timers
  BY <1>1, <1>2, FreeWaitsForNothing
  DEF Typed, SchedTypeOK, StateAfterWakeup, WaitAfterWakeup, QueueAfterWakeup,
      NotRunnable, Proc
<1>5. Parked'
  BY <1>2, <1>4 DEF Parked
<1>6. Placed'
  BY <1>2, <1>4 DEF Typed, SchedTypeOK, Placed, QueueAfterWakeup
<1>7. Queued' /\ Finite'
  BY <1>2, <1>4, QueuesUntouched, GrantedUntouched DEF Finite
<1> QED BY <1>3, <1>5, <1>6, <1>7


\* __up with nobody waiting: the unit is counted.
LEMMA UpCountsKeeps ==
  ASSUME Inv, NEW p \in User, Free(p), NEW x \in Sem, NEW l, UpCounts(x),
         Goto(p, l), UNCHANGED <<cont, semOf>>, cvp' \in [User -> Cv]
  PROVE  Inv'
<1> USE DEF Inv, UpCounts, schedVars
<1>1. p \in Proc
  BY DEF Proc
<1>2. Typed'
  BY <1>1 DEF Typed, SchedTypeOK, Goto
<1>3. Parked' /\ Placed'
  BY <1>1, FreeWaitsForNothing DEF Typed, Parked, Placed, Goto, SchedTypeOK, Proc
<1>4. \A q \in User, y \in Sem : InQueue(q, y)' <=> InQueue(q, y)
  BY DEF InQueue
<1>5. Queued'
  BY <1>4 DEF Typed, Queued
<1>6. Finite'
  BY GrantedUntouched DEF Finite
<1> QED BY <1>2, <1>3, <1>5, <1>6

\* What __up leaves when it hands the unit to the first of the queue.
LEMMA HandsOver ==
  ASSUME Inv, NEW x \in Sem, UpWakes(x), UNCHANGED semOf
  PROVE  LET f == Head(waiters[x]) IN
         /\ f \in User
         /\ waiters' = [waiters EXCEPT ![x] = Tail(waiters[x])]
         /\ waitState[f] = "ksem" /\ semOf[f] = x /\ state[f] = "sleeping"
         /\ state' = StateAfterWakeup({f})
         /\ waitState' = WaitAfterWakeup({f})
         /\ runq' = QueueAfterWakeup({f})
         /\ panic' \in {panic, "assert"}
         /\ UNCHANGED <<value, current, needResched, timers>>
         /\ \A q \in User, y \in Sem :
               InQueue(q, y)' <=> InQueue(q, y) /\ q # f
         /\ Granted(x)' = Granted(x) \cup {f} /\ f \notin Granted(x)
         /\ \A y \in Sem \ {x} : Granted(y)' = Granted(y)
<1> DEFINE f == Head(waiters[x])
<1>1. /\ waiters[x] \in Seq(User) /\ waiters[x] # <<>>
      /\ waiters \in [Sem -> Seq(User)]
  BY DEF Inv, Typed, UpWakes
<1>2. f \in User /\ InQueue(f, x)
  <2>1. Len(waiters[x]) > 0 /\ 1 \in DOMAIN waiters[x] /\ f = waiters[x][1]
    BY <1>1
  <2> QED BY <1>1, <2>1 DEF InQueue
<1>3. waitState[f] = "ksem" /\ semOf[f] = x /\ state[f] = "sleeping"
  BY <1>2 DEF Inv, Queued, Parked
<1>4. /\ waiters' = [waiters EXCEPT ![x] = Tail(waiters[x])]
      /\ state' = StateAfterWakeup({f})
      /\ waitState' = WaitAfterWakeup({f})
      /\ runq' = QueueAfterWakeup({f})
      /\ panic' \in {panic, "assert"}
      /\ UNCHANGED <<value, current, needResched, timers>>
  BY DEF UpWakes, Asserted
<1>5. \A q \in User : InQueue(q, x)' <=> InQueue(q, x) /\ q # f
  <2> DEFINE w == waiters[x]
  <2>1. w \in Seq(User) /\ w # <<>> /\ f = w[1] /\ waiters'[x] = Tail(w)
    BY <1>1, <1>4
  <2>2. \A i, j \in DOMAIN w : w[i] = w[j] => i = j
    BY DEF Inv, Queued
  <2>3. /\ DOMAIN w = 1 .. Len(w) /\ Len(w) \in Nat \ {0}
        /\ DOMAIN Tail(w) = 1 .. Len(w) - 1
        /\ \A i \in 1 .. Len(w) - 1 : Tail(w)[i] = w[i + 1]
    BY <2>1
  <2> HIDE DEF w
  <2>4. ASSUME NEW q \in User, NEW k \in DOMAIN Tail(w), Tail(w)[k] = q
        PROVE  q # f /\ \E i \in DOMAIN w : w[i] = q
    BY <2>1, <2>2, <2>3, <2>4
  <2>5. ASSUME NEW q \in User, NEW k \in DOMAIN w, w[k] = q, q # f
        PROVE  \E i \in DOMAIN Tail(w) : Tail(w)[i] = q
    <3>1. k - 1 \in DOMAIN Tail(w) /\ Tail(w)[k - 1] = w[k]
      BY <2>1, <2>3, <2>5
    <3> QED BY <3>1, <2>5
  <2> QED BY <2>1, <2>4, <2>5 DEF InQueue, w
<1>6. \A q \in User, y \in Sem \ {x} : InQueue(q, y)' <=> InQueue(q, y) /\ q # f
  <2>1. \A y \in Sem \ {x} : waiters'[y] = waiters[y] /\ ~ InQueue(f, y)
    BY <1>1, <1>2, <1>3, <1>4 DEF Inv, Queued
  <2> QED BY <2>1 DEF InQueue
<1>7. \A y \in Sem : Granted(y) = {q \in User : semOf[q] = y /\ ~ InQueue(q, y)}
  BY DEF Granted, InQueue
<1>8. \A y \in Sem : Granted(y)' = {q \in User : semOf[q] = y /\ ~ InQueue(q, y)'}
  BY DEF Granted, InQueue
<1>9. Granted(x)' = Granted(x) \cup {f} /\ f \notin Granted(x)
  BY <1>2, <1>3, <1>5, <1>7, <1>8
<1>10. \A y \in Sem \ {x} : Granted(y)' = Granted(y)
  BY <1>2, <1>3, <1>6, <1>7, <1>8
<1> QED BY <1>2, <1>3, <1>4, <1>5, <1>6, <1>9, <1>10


LEMMA UpWakesKeeps ==
  ASSUME Inv, NEW p \in User, Free(p), NEW x \in Sem, NEW l, UpWakes(x),
         Goto(p, l), UNCHANGED <<cont, semOf>>, cvp' \in [User -> Cv]
  PROVE  Inv'
<1> DEFINE f == Head(waiters[x])
<1> USE DEF Inv
<1>1. /\ f \in User /\ f \in Proc /\ p \in Proc /\ {f} \in SUBSET Proc
      /\ waiters' = [waiters EXCEPT ![x] = Tail(waiters[x])]
      /\ waitState[f] = "ksem" /\ semOf[f] = x /\ state[f] = "sleeping"
      /\ state' = StateAfterWakeup({f})
      /\ waitState' = WaitAfterWakeup({f})
      /\ runq' = QueueAfterWakeup({f})
      /\ panic' \in {panic, "assert"}
      /\ UNCHANGED <<value, current, needResched, timers>>
      /\ \A q \in User, y \in Sem : InQueue(q, y)' <=> InQueue(q, y) /\ q # f
      /\ Granted(x)' = Granted(x) \cup {f}
      /\ \A y \in Sem \ {x} : Granted(y)' = Granted(y)
  BY HandsOver DEF Proc
<1>2. waiters[x] \in Seq(User) /\ waiters[x] # <<>>
  BY DEF Typed, UpWakes
<1> HIDE DEF f
<1>3. Typed'
  <2>1. /\ StateAfterWakeup({f}) \in [Proc -> ProcState]
        /\ WaitAfterWakeup({f}) \in [Proc -> WaitState]
        /\ QueueAfterWakeup({f}) \subseteq Proc \ {idleproc}
    BY <1>1, WakeupType DEF Typed
  <2>2. SchedTypeOK'
    BY <1>1, <2>1 DEF Typed, SchedTypeOK
  <2>3. waiters' \in [Sem -> Seq(User)]
    BY <1>1, <1>2 DEF Typed
  <2> QED BY <1>1, <2>2, <2>3 DEF Typed, Goto
<1>4. /\ waitState'[f] = "none" /\ waitState[p] # "ksem" /\ p # f
      /\ \A q \in User \ {f} : waitState'[q] = waitState[q] /\ state'[q] = state[q]
      /\ runq' = runq \cup {f}
      /\ current = p /\ semOf[p] = NoSem /\ p \notin timers
      /\ \A q \in User \ {p} : pc'[q] = pc[q]
  BY <1>1, FreeWaitsForNothing, ProcAssumption
  DEF Typed, StateAfterWakeup, WaitAfterWakeup, QueueAfterWakeup, NotRunnable,
      Proc, Free, Goto
<1>5. Parked'
  <2> SUFFICES ASSUME NEW q \in User, waitState'[q] = "ksem"
               PROVE  /\ state'[q] = "sleeping" /\ q \notin runq'
                      /\ pc'[q] = "down_sched" \/ (pc'[q] = "down_woken" /\ current' # q)
    BY DEF Parked
  <2>1. q # f /\ q # p /\ waitState[q] = "ksem"
    BY <1>4
  <2>2. /\ state[q] = "sleeping" /\ q \notin runq
        /\ pc[q] = "down_sched" \/ (pc[q] = "down_woken" /\ current # q)
    BY <2>1 DEF Parked
  <2>3. pc'[q] = pc[q] /\ state'[q] = state[q] /\ q \notin runq' /\ current' = current
    BY <1>1, <1>4, <2>1, <2>2
  <2> QED BY <2>2, <2>3
<1>6. Placed'
  BY <1>1, <1>4 DEF Typed, SchedTypeOK, Placed
<1>7. Queued'
  <2>1. \A q \in User, y \in Sem :
           InQueue(q, y)' <=> waitState'[q] = "ksem" /\ semOf'[q] = y
    <3> TAKE q \in User, y \in Sem
    <3>1. InQueue(q, y) <=> waitState[q] = "ksem" /\ semOf[q] = y
      BY DEF Queued
    <3>2. InQueue(q, y)' <=> InQueue(q, y) /\ q # f
      BY <1>1
    <3>3. waitState'[q] = "ksem" <=> waitState[q] = "ksem" /\ q # f
      BY <1>1, <1>4
    <3> QED BY <3>1, <3>2, <3>3
  <2>2. \A i, j \in DOMAIN Tail(waiters[x]) :
           Tail(waiters[x])[i] = Tail(waiters[x])[j] => i = j
    <3>1. \A i, j \in DOMAIN waiters[x] :
             waiters[x][i] = waiters[x][j] => i = j
      BY DEF Queued
    <3> QED BY <1>2, <3>1
  <2>3. \A y \in Sem \ {x} : waiters'[y] = waiters[y]
    BY <1>1 DEF Typed
  <2>4. waiters'[x] = Tail(waiters[x]) /\ ~ value[x] > 0
    BY <1>1, <1>2 DEF Typed, Queued
  <2>5. \A y \in Sem :
           /\ \A i, j \in DOMAIN waiters'[y] :
                 waiters'[y][i] = waiters'[y][j] => i = j
           /\ value'[y] > 0 => waiters'[y] = <<>>
    BY <1>1, <2>2, <2>3, <2>4 DEF Queued
  <2> QED BY <2>1, <2>5 DEF Queued
<1>8. Finite'
  BY <1>1, FS_AddElement DEF Finite
<1> QED BY <1>3, <1>5, <1>6, <1>7, <1>8

LEMMA DownTakesKeeps ==
  ASSUME Inv, NEW p \in User, Free(p), NEW x \in Sem, NEW l, DownTakes(p, x, l),
         cvp' \in [User -> Cv]
  PROVE  Inv'
<1> USE DEF Inv, DownTakes, schedVars
<1>1. p \in Proc
  BY DEF Proc
<1>2. value' \in [Sem -> Nat] /\ \A y \in Sem : value'[y] > 0 => value[y] > 0
  BY DEF Typed
<1>3. Typed'
  BY <1>1, <1>2 DEF Typed, SchedTypeOK, Goto
<1>4. Parked' /\ Placed'
  BY <1>1, FreeWaitsForNothing DEF Typed, Parked, Placed, Goto, SchedTypeOK, Proc
<1>5. Queued' /\ Finite'
  BY <1>2, QueuesUntouched, GrantedUntouched DEF Finite
<1> QED BY <1>3, <1>4, <1>5

\* __down of zero puts p at the end of the queue of x and asks for x.
LEMMA JoinsQueue ==
  ASSUME Inv, NEW p \in User, Free(p), NEW x \in Sem, NEW l, DownSleeps(p, x, l)
  PROVE  /\ waiters' = [waiters EXCEPT ![x] = Append(waiters[x], p)]
         /\ semOf' = [semOf EXCEPT ![p] = x] /\ semOf[p] = NoSem
         /\ UNCHANGED value
         /\ \A q \in User, y \in Sem :
               InQueue(q, y)' <=> InQueue(q, y) \/ (q = p /\ y = x)
         /\ \A y \in Sem : Granted(y)' = Granted(y)
<1>1. /\ waiters' = [waiters EXCEPT ![x] = Append(waiters[x], p)]
      /\ semOf' = [semOf EXCEPT ![p] = x] /\ semOf[p] = NoSem
      /\ UNCHANGED value
      /\ waiters \in [Sem -> Seq(User)] /\ semOf \in [User -> Sem \cup {NoSem}]
  BY FreeWaitsForNothing DEF DownSleeps, Inv, Typed
<1>2. \A q \in User : InQueue(q, x)' <=> InQueue(q, x) \/ q = p
  <2> DEFINE w == waiters[x]
  <2>1. w \in Seq(User) /\ waiters'[x] = Append(w, p)
    BY <1>1
  <2>2. /\ DOMAIN w = 1 .. Len(w) /\ Len(w) \in Nat
        /\ DOMAIN Append(w, p) = 1 .. Len(w) + 1
        /\ \A i \in 1 .. Len(w) : Append(w, p)[i] = w[i]
        /\ Append(w, p)[Len(w) + 1] = p
    BY <2>1
  <2> HIDE DEF w
  <2>3. \A q \in User : (\E k \in DOMAIN Append(w, p) : Append(w, p)[k] = q)
                          <=> (\E k \in DOMAIN w : w[k] = q) \/ q = p
    BY <2>2
  <2> QED BY <2>1, <2>3 DEF InQueue, w
<1>3. \A q \in User, y \in Sem \ {x} : InQueue(q, y)' <=> InQueue(q, y)
  BY <1>1 DEF InQueue
<1>4. \A y \in Sem : Granted(y) = {q \in User : semOf[q] = y /\ ~ InQueue(q, y)}
  BY DEF Granted, InQueue
<1>5. \A y \in Sem : Granted(y)' = {q \in User : semOf'[q] = y /\ ~ InQueue(q, y)'}
  BY DEF Granted, InQueue
<1>6. \A y \in Sem : Granted(y)' = Granted(y)
  <2> SUFFICES ASSUME NEW y \in Sem, NEW q \in User
               PROVE  q \in Granted(y)' <=> q \in Granted(y)
    BY <1>4, <1>5
  <2>1. CASE q = p
    <3>1. semOf'[q] = x /\ semOf[q] # y
      BY <1>1, <2>1, NoSemIsNone
    <3>2. x = y => InQueue(q, y)'
      BY <1>2, <2>1
    <3> QED BY <1>4, <1>5, <3>1, <3>2
  <2>2. CASE q # p
    <3>1. semOf'[q] = semOf[q]
      BY <1>1, <2>2
    <3>2. InQueue(q, y)' <=> InQueue(q, y)
      BY <1>2, <1>3, <2>2
    <3> QED BY <1>4, <1>5, <3>1, <3>2
  <2> QED BY <2>1, <2>2
<1> QED BY <1>1, <1>2, <1>3, <1>6

LEMMA DownSleepsKeeps ==
  ASSUME Inv, NEW p \in User, Free(p), NEW x \in Sem, NEW l, DownSleeps(p, x, l),
         cvp' \in [User -> Cv]
  PROVE  Inv'
<1> USE DEF Inv, DownSleeps
<1>1. p \in Proc
  BY DEF Proc
<1>2. Typed'
  <2>1. waiters' \in [Sem -> Seq(User)]
    BY DEF Typed
  <2> QED BY <1>1, <2>1 DEF Typed, SchedTypeOK, ProcState, WaitState
<1>3. /\ waitState[p] # "ksem" /\ waitState'[p] = "ksem" /\ state'[p] = "sleeping"
      /\ \A q \in User \ {p} : waitState'[q] = waitState[q] /\ state'[q] = state[q]
      /\ pc'[p] = "down_sched" /\ \A q \in User \ {p} : pc'[q] = pc[q]
      /\ p \notin runq /\ p \notin timers
      /\ semOf'[p] = x /\ \A q \in User \ {p} : semOf'[q] = semOf[q]
      /\ \A y \in Sem : ~ InQueue(p, y)
  BY <1>1, FreeWaitsForNothing DEF Typed, SchedTypeOK, Proc
<1>4. Parked'
  BY <1>3 DEF Parked
<1>5. Placed'
  BY <1>3 DEF Typed, SchedTypeOK, Placed, DownPlaces
<1>6. Queued'
  <2>1. \A q \in User, y \in Sem :
           InQueue(q, y)' <=> waitState'[q] = "ksem" /\ semOf'[q] = y
    <3> TAKE q \in User, y \in Sem
    <3>1. InQueue(q, y) <=> waitState[q] = "ksem" /\ semOf[q] = y
      BY DEF Queued
    <3>2. InQueue(q, y)' <=> InQueue(q, y) \/ (q = p /\ y = x)
      BY JoinsQueue
    <3>3. CASE q = p
      BY <1>3, <3>2, <3>3
    <3>4. CASE q # p
      BY <1>3, <3>1, <3>2, <3>4
    <3> QED BY <3>3, <3>4
  <2>2. \A i, j \in DOMAIN Append(waiters[x], p) :
           Append(waiters[x], p)[i] = Append(waiters[x], p)[j] => i = j
    <3> DEFINE w == waiters[x]
    <3>1. /\ \A i, j \in DOMAIN w : w[i] = w[j] => i = j
          /\ \A k \in DOMAIN w : w[k] # p
          /\ w \in Seq(User)
      BY <1>3 DEF Queued, InQueue, Typed
    <3> HIDE DEF w
    <3>2. /\ DOMAIN w = 1 .. Len(w) /\ Len(w) \in Nat
          /\ DOMAIN Append(w, p) = 1 .. Len(w) + 1
          /\ \A i \in 1 .. Len(w) : Append(w, p)[i] = w[i]
          /\ Append(w, p)[Len(w) + 1] = p
      BY <3>1
    <3>3. \A i, j \in DOMAIN Append(w, p) :
             Append(w, p)[i] = Append(w, p)[j] => i = j
      BY <3>1, <3>2
    <3> QED BY <3>3 DEF w
  <2>3. /\ waiters'[x] = Append(waiters[x], p) /\ ~ value'[x] > 0
        /\ \A y \in Sem \ {x} : waiters'[y] = waiters[y] /\ value'[y] = value[y]
    BY DEF Typed
  <2>4. \A y \in Sem :
           /\ \A i, j \in DOMAIN waiters'[y] :
                 waiters'[y][i] = waiters'[y][j] => i = j
           /\ value'[y] > 0 => waiters'[y] = <<>>
    BY <2>2, <2>3 DEF Queued
  <2> QED BY <2>1, <2>4 DEF Queued
<1>7. Finite'
  BY JoinsQueue DEF Finite
<1> QED BY <1>2, <1>4, <1>5, <1>6, <1>7


\* A thread woken inside down is in no queue any more: it takes its unit.
LEMMA LeavesDown ==
  ASSUME Inv, NEW p \in User, DownWoken(p)
  PROVE  /\ UNCHANGED <<value, waiters>>
         /\ semOf' = [semOf EXCEPT ![p] = NoSem]
         /\ waitState[p] # "ksem"
         /\ \A x \in Sem : Granted(x)' = Granted(x) \ {p}
         /\ \A x \in Sem : semOf[p] = x => p \in Granted(x)
<1>1. waitState[p] # "ksem" /\ current = p
  BY DEF DownWoken, At, Inv, Parked
<1>2. \A x \in Sem : ~ InQueue(p, x)
  BY <1>1 DEF Inv, Queued
<1>3. waiters' = waiters
  <2>1. semOf[p] \in Sem \cup {NoSem} /\ DOMAIN waiters = Sem
    BY DEF Inv, Typed
  <2>2. CASE semOf[p] \in Sem
    <3>1. ~ wait_in_queue(p)
      BY <1>2, <2>2 DEF InQueue, wait_in_queue
    <3> QED BY <3>1 DEF DownWoken
  <2>3. CASE semOf[p] \notin Sem
    <3>1. wait_queue_del(p) = waiters
      BY <2>1, <2>3 DEF wait_queue_del, Inv, Typed
    <3> QED BY <3>1 DEF DownWoken
  <2> QED BY <2>2, <2>3
<1>4. semOf' = [semOf EXCEPT ![p] = NoSem] /\ value' = value
  BY DEF DownWoken
<1>5. semOf \in [User -> Sem \cup {NoSem}]
  BY DEF Inv, Typed
<1>6. \A x \in Sem : Granted(x)' = Granted(x) \ {p}
  BY <1>3, <1>4, <1>5, NoSemIsNone DEF Granted
<1>7. \A x \in Sem : semOf[p] = x => p \in Granted(x)
  BY <1>2 DEF InQueue, Granted
<1> QED BY <1>1, <1>3, <1>4, <1>6, <1>7

LEMMA DownWokenKeeps ==
  ASSUME Inv, NEW p \in User, DownWoken(p), UNCHANGED cvp
  PROVE  Inv'
<1> USE DEF Inv
<1>1. /\ p \in Proc
      /\ UNCHANGED <<value, waiters, current, state, waitState, needResched, runq, timers>>
      /\ semOf' = [semOf EXCEPT ![p] = NoSem]
      /\ panic' \in {panic, "assert"}
      /\ pc' = [pc EXCEPT ![p] = cont[p]]
      /\ waitState[p] # "ksem" /\ pc[p] = "down_woken"
      /\ \A x \in Sem : Granted(x)' = Granted(x) \ {p}
  BY LeavesDown DEF DownWoken, At, Asserted, Goto, Proc
<1>2. Typed'
  BY <1>1 DEF Typed, SchedTypeOK
<1>3. Parked'
  BY <1>1 DEF Parked, Typed
<1>4. Placed'
  BY <1>1 DEF Placed, Typed, SchedTypeOK, SleepPlaces
<1>5. Queued'
  BY <1>1, QueuesUntouched DEF Typed
<1>6. Finite'
  BY <1>1, FS_Subset DEF Finite
<1> QED BY <1>2, <1>3, <1>4, <1>5, <1>6

LEMMA SleepEndsKeeps ==
  ASSUME Inv, NEW p \in User, SleepEnds(p), UNCHANGED cvp
  PROVE  Inv'
<1> USE DEF Inv, SleepEnds, EndSleep, At, Goto, semVars
<1>1. p \in Proc
  BY DEF Proc
<1>2. waitState[p] # "ksem" /\ semOf[p] = NoSem
  BY DEF Parked, Placed, DownPlaces
<1>3. Typed'
  BY <1>1 DEF Typed, SchedTypeOK
<1>4. Parked' /\ Placed'
  BY <1>1, <1>2 DEF Typed, Parked, Placed, SchedTypeOK, Proc
<1>5. Queued' /\ Finite'
  BY QueuesUntouched, GrantedUntouched DEF Finite
<1> QED BY <1>3, <1>4, <1>5

LEMMA ReapKeeps ==
  ASSUME Inv, UNCHANGED cvp, (\E p \in User : Reap(p)) \/ ReapSleeps \/ ReapDone
  PROVE  Inv'
<1> USE DEF Inv
<1> DEFINE Frame ==
      /\ UNCHANGED <<value, waiters, semOf, current, needResched, runq, timers>>
      /\ waitState' \in [Proc -> WaitState]
      /\ state' \in [Proc -> ProcState]
      /\ panic' \in {panic, "init_exit"}
      /\ DOMAIN pc' = Proc
      /\ \A q \in User : /\ waitState'[q] = waitState[q] /\ pc'[q] = pc[q]
                         /\ state[q] = "sleeping" => state'[q] = "sleeping"
<1>1. Frame
  <2> USE ProcAssumption
      DEF semVars, threadVars, Goto, Typed, SchedTypeOK, Proc, ProcState
  <2>1. ASSUME NEW p \in User, Reap(p) PROVE Frame
    BY <2>1 DEF Reap
  <2>2. CASE ReapSleeps
    BY <2>2 DEF ReapSleeps, WaitState, Interruptible
  <2>3. CASE ReapDone
    BY <2>3 DEF ReapDone
  <2> QED BY <2>1, <2>2, <2>3
<1>2. Typed'
  BY <1>1 DEF Typed, SchedTypeOK
<1>3. Parked' /\ Placed'
  BY <1>1 DEF Typed, Parked, Placed, SchedTypeOK
<1>4. Queued' /\ Finite'
  BY <1>1, QueuesUntouched, GrantedUntouched DEF Finite
<1> QED BY <1>2, <1>3, <1>4

LEMMA IdleKeeps ==
  ASSUME Inv, UNCHANGED cvp, Idle
  PROVE  Inv'
<1> USE DEF Inv, Idle, Goto, schedVars, semVars
<1>1. \A q \in User : pc'[q] = pc[q]
  BY ProcAssumption DEF Typed, Proc
<1>2. Typed'
  BY DEF Typed, SchedTypeOK
<1>3. Parked' /\ Placed'
  BY <1>1 DEF Typed, Parked, Placed, SchedTypeOK
<1>4. Queued' /\ Finite'
  BY QueuesUntouched, GrantedUntouched DEF Finite
<1> QED BY <1>2, <1>3, <1>4

LEMMA SwitchKeeps ==
  ASSUME Inv, UNCHANGED cvp, NEW p \in Proc, NEW q \in Proc, Switch(p, q)
  PROVE  Inv'
<1> USE DEF Inv, semVars
<1>1. /\ UNCHANGED <<value, waiters, semOf, state, waitState, timers>>
      /\ current = p /\ current' = q
      /\ Schedule(q)
      /\ runq' = Requeued \ {q}
      /\ pc' = [pc EXCEPT ![p] = KResume[pc[p]]]
      /\ pc[p] \in {"down_sched", "sleep_sched", "quit_sched", "idle_sched",
                    "reap_sched"}
  BY DEF Switch, Schedule, Goto, KResume
<1>2. /\ KResume["down_sched"] = "down_woken"
      /\ KResume["sleep_sched"] = "sleep_woken"
  BY DEF KResume
<1>3. Typed'
  BY <1>1, ScheduleType DEF Typed
<1>4. ASSUME NEW r \in User, waitState[r] = "ksem"
      PROVE  /\ r \notin Requeued /\ r # q /\ r \notin runq'
             /\ pc'[r] = "down_sched" \/ pc'[r] = "down_woken"
  <2>1. state[r] = "sleeping" /\ r \notin runq /\ pc[r] \in DownPlaces
    BY <1>4 DEF Parked, DownPlaces
  <2>2. r \notin Requeued
    BY <2>1 DEF Requeued
  <2>3. q = idleproc \/ q \in Requeued
    BY <1>1 DEF Schedule
  <2>4. pc'[r] \in DownPlaces
    BY <1>1, <1>2, <2>1 DEF Typed, DownPlaces, Proc
  <2> QED BY <1>1, <2>2, <2>3, <2>4, ProcAssumption DEF DownPlaces
<1>5. Parked'
  BY <1>1, <1>4 DEF Parked
<1>6. Placed'
  <2>1. \A r \in Proc : pc[r] \in SleepPlaces => pc'[r] \in SleepPlaces
    BY <1>1, <1>2 DEF Typed, SleepPlaces
  <2>2. \A r \in Proc : pc[r] \in DownPlaces => pc'[r] \in DownPlaces
    BY <1>1, <1>2 DEF Typed, DownPlaces
  <2> QED BY <1>1, <2>1, <2>2 DEF Placed, Typed, SchedTypeOK, Proc
<1>7. Queued' /\ Finite'
  BY <1>1, QueuesUntouched, GrantedUntouched DEF Finite
<1> QED BY <1>3, <1>5, <1>6, <1>7

\* Timers wake threads inside do_sleep, never one that waits for a semaphore.
LEMMA TickKeeps ==
  ASSUME Inv, UNCHANGED cvp, NEW E \in SUBSET timers, Tick(E)
  PROVE  Inv'
<1> USE DEF Inv
<1>1. /\ UNCHANGED <<value, waiters, semOf, current, pc>>
      /\ state' = StateAfterWakeup(E)
      /\ waitState' = WaitAfterWakeup(E)
      /\ runq' = QueueAfterWakeup(E)
      /\ timers' = timers \ E
      /\ panic' \in {panic, "assert"}
      /\ E \in SUBSET Proc /\ E \subseteq User
  BY DEF Tick, ClockTick, Asserted, semVars, threadVars, Typed, SchedTypeOK, Proc
<1>2. needResched' \in [Proc -> BOOLEAN]
  BY DEF Tick, ClockTick, Typed, SchedTypeOK
<1>3. Typed'
  <2>1. SchedTypeOK'
    <3>1. /\ StateAfterWakeup(E) \in [Proc -> ProcState]
          /\ WaitAfterWakeup(E) \in [Proc -> WaitState]
          /\ QueueAfterWakeup(E) \subseteq Proc \ {idleproc}
      BY <1>1, WakeupType DEF Typed
    <3> QED BY <1>1, <1>2, <3>1 DEF Typed, SchedTypeOK
  <2> QED BY <1>1, <2>1 DEF Typed
<1>4. \A q \in E : waitState[q] # "ksem"
  BY <1>1 DEF Parked, Placed, SleepPlaces
<1>5. \A q \in User : /\ waitState'[q] = "ksem" <=> waitState[q] = "ksem"
                      /\ q \notin E => state'[q] = state[q]
                      /\ q \in runq' => q \in runq \cup E
  BY <1>1, <1>4
  DEF StateAfterWakeup, WaitAfterWakeup, QueueAfterWakeup, NotRunnable, Proc
<1>6. Parked'
  BY <1>1, <1>4, <1>5 DEF Parked
<1>7. Placed'
  BY <1>1 DEF Placed, QueueAfterWakeup
<1>8. Queued' /\ Finite'
  BY <1>1, <1>5, QueuesUntouched, GrantedUntouched DEF Finite
<1> QED BY <1>3, <1>6, <1>7, <1>8


-----------------------------------------------------------------------------
(* The invariant.                                                           *)

LEMMA InitInv == Init => Inv
<1> SUFFICES ASSUME Init PROVE Inv
  OBVIOUS
<1> USE DEF Init, ThreadInit
<1>1. SchedTypeOK
  BY ProcAssumption DEF SchedTypeOK, Proc, ProcState, WaitState, Interruptible
<1>2. cvp \in [User -> Cv]
  <2>1. 0 \in Cv
    BY TableAssumption
  <2>2. (CHOOSE c \in Cv : TRUE) \in Cv
    BY <2>1
  <2> QED BY <2>2 DEF monitor_init
<1>3. Typed
  BY <1>1, <1>2 DEF Typed, InitialValue
<1>4. Parked /\ Placed
  BY ProcAssumption DEF Parked, Placed, Proc
<1>5. Queued
  BY ProcAssumption DEF Queued, InQueue, Proc
<1>6. \A x \in Sem : Granted(x) = {}
  BY NoSemIsNone DEF Granted
<1>7. Finite
  BY <1>6, FS_EmptySet DEF Finite
<1> QED BY <1>3, <1>4, <1>5, <1>7 DEF Inv

\* Every step of a program is one call of the kernel.
LEMMA MonitorCalls ==
  ASSUME Typed, NEW p \in User, MonitorStep(p)
  PROVE  Calls(p)
<1> USE SemsAreSems DEF Free, At, DownPlaces, SleepPlaces, Typed
<1>1. CASE SignalDown(p)
  BY <1>1 DEF SignalDown, Calls, monVars
<1>2. CASE SignalEnd(p)
  BY <1>2 DEF SignalEnd, Calls
<1>3. CASE WaitDown(p)
  BY <1>3 DEF WaitDown, Calls, monVars
<1>4. CASE WaitEnd(p)
  BY <1>4 DEF WaitEnd, Calls
<1> QED BY <1>1, <1>2, <1>3, <1>4 DEF MonitorStep

LEMMA TestCalls ==
  ASSUME Typed, NEW i \in Seat, NEW j \in Seat, NEW seated, NEW l,
         Free(Who[i]), Test(i, j, seated, l)
  PROVE  Calls(Who[i])
<1> USE SemsAreSems, SeatsAround DEF Typed
<1>1. CASE Pass(i, l)
  BY <1>1 DEF Pass, Calls, monVars
<1>2. CASE Call(i, j, l)
  <2>1. CASE Up(Who[i], s(j), l) /\ UNCHANGED monVars
    BY <2>1 DEF s, Calls, monVars
  <2>2. CASE cond_signal(Who[i], j, l)
    <3>1. CASE Up(Who[i], cvSem(j), "signal_down") /\ UNCHANGED cvp
      BY <3>1 DEF Calls
    <3>2. CASE Goto(Who[i], l) /\ UNCHANGED <<schedVars, semVars, cont, semOf, monVars>>
      BY <3>2 DEF Calls, monVars
    <3> QED BY <2>2, <3>1, <3>2 DEF cond_signal
  <2> QED BY <1>2, <2>1, <2>2 DEF Call
<1> QED BY <1>1, <1>2 DEF Test

LEMMA PhilosopherCalls ==
  ASSUME Typed, NEW i \in Seat, Philosopher(i)
  PROVE  Calls(Who[i])
<1> USE SemsAreSems, SeatsAround DEF Typed
<1>1. \A l : At(Who[i], l) /\ l \notin DownPlaces \cup SleepPlaces => Free(Who[i])
  BY DEF At, Free
<1>2. CASE Loop(i)
  BY <1>1, <1>2 DEF Loop, Calls, monVars, DownPlaces, SleepPlaces
<1>3. CASE TakeEnters(i) \/ PutEnters(i)
  BY <1>1, <1>3 DEF TakeEnters, PutEnters, Enter, Calls, monVars, DownPlaces, SleepPlaces
<1>4. CASE TakeTests(i) \/ PutLeft(i) \/ PutRight(i)
  BY <1>1, <1>4, TestCalls
  DEF TakeTests, PutLeft, PutRight, DownPlaces, SleepPlaces
<1>5. CASE TakeLeaves(i)
  BY <1>1, <1>5 DEF TakeLeaves, Calls, monVars, DownPlaces, SleepPlaces
<1>6. CASE TakeWaits(i)
  BY <1>1, <1>6 DEF TakeWaits, Calls, s, monVars, DownPlaces, SleepPlaces
<1>7. CASE WaitsInside(i)
  BY <1>1, <1>7 DEF WaitsInside, cond_wait, ToLeave, Calls, DownPlaces, SleepPlaces
<1>8. CASE LeavesToEat(i)
  BY <1>1, <1>8 DEF LeavesToEat, Leave, ToLeave, Calls, monVars, DownPlaces, SleepPlaces
<1>9. CASE Eat(i)
  BY <1>1, <1>9 DEF Eat, Calls, monVars, DownPlaces, SleepPlaces
<1>10. CASE PutLeaves(i)
  BY <1>1, <1>10 DEF PutLeaves, Leave, ToLeave, Calls, monVars, DownPlaces, SleepPlaces
<1> QED
  BY <1>2, <1>3, <1>4, <1>5, <1>6, <1>7, <1>8, <1>9, <1>10, MonitorCalls
  DEF Philosopher

LEMMA AnyCalls ==
  ASSUME Typed, NEW p \in User, AnyCall(p)
  PROVE  Calls(p)
  BY SemsAreSems
  DEF AnyCall, Typed, At, Free, Calls, monVars, DownPlaces, SleepPlaces

LEMMA CallsKeep ==
  ASSUME Inv, NEW p \in User, Calls(p)
  PROVE  Inv'
<1>1. Free(p) /\ cvp' \in [User -> Cv]
  BY DEF Calls
<1>2. ASSUME NEW x \in Sem, NEW l, Up(p, x, l) PROVE Inv'
  BY <1>1, <1>2, UpCountsKeeps, UpWakesKeeps DEF Up
<1>3. ASSUME NEW x \in Sem, NEW l, Down(p, x, l) PROVE Inv'
  BY <1>1, <1>3, DownTakesKeeps, DownSleepsKeeps DEF Down
<1>4. ASSUME NEW x \in Sem, TryDown(p, x) PROVE Inv'
  BY <1>1, <1>4, TryDownKeeps
<1>5. ASSUME NEW l, Sleep(p, l) PROVE Inv'
  BY <1>1, <1>5, SleepKeeps
<1>6. CASE Quit(p)
  BY <1>1, <1>6, QuitKeeps
<1>7. ASSUME NEW l, Goto(p, l), UNCHANGED <<schedVars, semVars, cont, semOf>>
      PROVE  Inv'
  BY <1>1, <1>7, PlainKeeps
<1> QED BY <1>2, <1>3, <1>4, <1>5, <1>6, <1>7 DEF Calls

LEMMA NextInv == Inv /\ [Next]_vars => Inv'
<1> SUFFICES ASSUME Inv, [Next]_vars PROVE Inv'
  OBVIOUS
<1>1. CASE KernelNext /\ UNCHANGED monVars
  <2>1. UNCHANGED cvp
    BY <1>1 DEF monVars
  <2> QED
    BY <1>1, <2>1, DownWokenKeeps, SleepEndsKeeps, ReapKeeps, IdleKeeps,
       SwitchKeeps, TickKeeps DEF KernelNext
<1>2. ASSUME NEW i \in Seat, Philosopher(i) PROVE Inv'
  BY <1>2, PhilosopherCalls, CallsKeep, SeatsAround DEF Inv
<1>3. ASSUME NEW p \in User, AnyCall(p) PROVE Inv'
  BY <1>3, AnyCalls, CallsKeep DEF Inv
<1>4. CASE UNCHANGED vars
  <2>1. UNCHANGED <<schedVars, semVars, pc, semOf, cvp>>
    BY <1>4 DEF vars, allVars, threadVars, monVars
  <2>2. Typed' /\ Parked' /\ Placed'
    BY <2>1 DEF Inv, Typed, Parked, Placed, SchedTypeOK, schedVars, semVars
  <2>3. Queued' /\ Finite'
    BY <2>1, QueuesUntouched, GrantedUntouched DEF Inv, Finite, schedVars, semVars
  <2> QED BY <2>2, <2>3 DEF Inv
<1> QED BY <1>1, <1>2, <1>3, <1>4 DEF Next

LEMMA InvHolds == Spec => []Inv
  BY InitInv, NextInv, PTL DEF Spec

\* A thread counted once in its queue, and no other.
LEMMA InvImplies == Inv => NoUnitHeldBack
<1> SUFFICES ASSUME Inv, NEW x \in Sem, NEW p \in User
             PROVE  Cardinality({i \in DOMAIN waiters[x] : waiters[x][i] = p}) =
                      IF waitState[p] = "ksem" /\ semOf[p] = x THEN 1 ELSE 0
  BY DEF NoUnitHeldBack, Inv, Queued
<1>1. CASE waitState[p] = "ksem" /\ semOf[p] = x
  <2>1. PICK k \in DOMAIN waiters[x] : waiters[x][k] = p
    BY <1>1 DEF Inv, Queued, InQueue
  <2>2. {i \in DOMAIN waiters[x] : waiters[x][i] = p} = {k}
    BY <2>1 DEF Inv, Queued
  <2> QED BY <1>1, <2>2, FS_Singleton
<1>2. CASE ~ (waitState[p] = "ksem" /\ semOf[p] = x)
  <2>1. {i \in DOMAIN waiters[x] : waiters[x][i] = p} = {}
    BY <1>2 DEF Inv, Queued, InQueue
  <2> QED BY <1>2, <2>1, FS_EmptySet
<1> QED BY <1>1, <1>2

(* No semaphore holds a unit back while a thread waits for it, and its      *)
(* queue holds the threads asleep for it, each once, whatever threads call: *)
(* __up and __down lose and duplicate no wakeup.                            *)
THEOREM NothingHeldBack == Spec => []NoUnitHeldBack
  BY InvHolds, InvImplies, PTL


-----------------------------------------------------------------------------
(* What a step does to the semaphores.                                      *)

QueueStep ==
    \/ UNCHANGED <<value, waiters, semOf>>
    \/ \E x \in Sem : (UpCounts(x) \/ UpWakes(x)) /\ UNCHANGED semOf
    \/ \E p \in User, x \in Sem : Free(p) /\ TryDown(p, x)
    \/ \E p \in User, x \in Sem : \E l : Free(p) /\ Down(p, x, l)
    \/ \E p \in User : DownWoken(p)

LEMMA StepsOfQueues ==
  ASSUME Inv, [Next]_vars
  PROVE  QueueStep
<1>1. ASSUME NEW p \in User, Calls(p) PROVE QueueStep
  <2>1. CASE (\E l : Sleep(p, l)) \/ Quit(p)
    BY <2>1 DEF Sleep, Quit, semVars, QueueStep
  <2>2. CASE \E l : Goto(p, l) /\ UNCHANGED <<schedVars, semVars, cont, semOf>>
    BY <2>2 DEF semVars, QueueStep
  <2>3. CASE \E x \in Sem : \E l : Up(p, x, l)
    BY <2>3 DEF Up, QueueStep
  <2>4. CASE \E x \in Sem : (\E l : Down(p, x, l)) \/ TryDown(p, x)
    BY <1>1, <2>4 DEF Calls, QueueStep
  <2> QED BY <1>1, <2>1, <2>2, <2>3, <2>4 DEF Calls
<1>2. CASE KernelNext
  <2>1. CASE \E p \in User : DownWoken(p)
    BY <2>1 DEF QueueStep
  <2>2. CASE ~ \E p \in User : DownWoken(p)
    BY <1>2, <2>2
    DEF KernelNext, SleepEnds, Reap, ReapSleeps, ReapDone, Idle, Switch, Tick,
        semVars, threadVars, QueueStep
  <2> QED BY <2>1, <2>2
<1>3. CASE UNCHANGED vars
  BY <1>3 DEF vars, allVars, semVars, threadVars, QueueStep
<1> QED
  BY <1>1, <1>2, <1>3, PhilosopherCalls, AnyCalls, SeatsAround DEF Next, Inv

(* up serves waiters in the order in which they came.                       *)
THEOREM ServesInOrder == Spec => FirstComeFirstServed
<1> DEFINE InOrder ==
      \A x \in Sem :
         \/ waiters'[x] = waiters[x]
         \/ waiters[x] # <<>> /\ waiters'[x] = Tail(waiters[x])
         \/ \E p \in User : waiters'[x] = Append(waiters[x], p)
<1>1. Inv /\ [Next]_vars => InOrder
  <2> SUFFICES ASSUME Inv, [Next]_vars PROVE InOrder
    OBVIOUS
  <2>1. DOMAIN waiters = Sem
    BY DEF Inv, Typed
  <2>2. CASE UNCHANGED waiters
    BY <2>2
  <2>3. ASSUME NEW y \in Sem, UpWakes(y) PROVE InOrder
    BY <2>1, <2>3 DEF UpWakes
  <2>4. ASSUME NEW p \in User, NEW y \in Sem, NEW l, DownSleeps(p, y, l)
        PROVE  InOrder
    BY <2>1, <2>4 DEF DownSleeps
  <2> HIDE DEF InOrder
  <2> QED
    BY StepsOfQueues, <2>2, <2>3, <2>4, LeavesDown
    DEF QueueStep, UpCounts, Down, DownTakes, TryDown
<1> QED BY <1>1, InvHolds, PTL DEF Spec, FirstComeFirstServed

-----------------------------------------------------------------------------
(* The refinement of CountingSemaphore.                                     *)

Units == [x \in Sem |-> value[x] + Cardinality(Granted(x))]
Waiting == [x \in Sem |-> {p \in User : semOf[p] = x}]

\* Each kind of step as a step of the counting semaphore, on Units and Waiting.
Counts ==
    \/ UNCHANGED <<Units, Waiting>>
    \/ \E x \in Sem :
         /\ Units' = [Units EXCEPT ![x] = @ + 1]
         /\ UNCHANGED Waiting
    \/ \E x \in Sem, p \in User :
         /\ \A y \in Sem : p \notin Waiting[y]
         /\ Waiting' = [Waiting EXCEPT ![x] = @ \cup {p}]
         /\ UNCHANGED Units
    \/ \E x \in Sem, p \in User :
         /\ Units[x] > 0
         /\ \A y \in Sem \ {x} : p \notin Waiting[y]
         /\ Units' = [Units EXCEPT ![x] = @ - 1]
         /\ Waiting' = [Waiting EXCEPT ![x] = @ \ {p}]

LEMMA UnitsAt ==
  /\ \A x \in Sem : /\ Units[x] = value[x] + Cardinality(Granted(x))
                    /\ Units'[x] = value'[x] + Cardinality(Granted(x)')
  /\ Units = [x \in Sem |-> Units[x]]
  /\ Units' = [x \in Sem |-> Units'[x]]
  BY DEF Units

LEMMA StepsCount ==
  ASSUME Inv, QueueStep
  PROVE  Counts
<1> USE DEF Inv
<1>1. \A x \in Sem : Cardinality(Granted(x)) \in Nat /\ value[x] \in Nat
  BY FS_CardinalityType DEF Finite, Typed
<1>2. value \in [Sem -> Nat] /\ semOf \in [User -> Sem \cup {NoSem}]
  BY DEF Typed
<1>3. CASE UNCHANGED <<value, waiters, semOf>>
  BY <1>3, GrantedUntouched DEF Units, Waiting, Counts
<1>4. ASSUME NEW x \in Sem, UpCounts(x), UNCHANGED semOf PROVE Counts
  <2>1. \A y \in Sem : Granted(y)' = Granted(y)
    BY <1>4, GrantedUntouched DEF UpCounts
  <2>2. Units' = [Units EXCEPT ![x] = @ + 1]
    <3>1. \A y \in Sem : Units'[y] = IF y = x THEN Units[y] + 1 ELSE Units[y]
      <4>1. \A y \in Sem : value'[y] = IF y = x THEN value[y] + 1 ELSE value[y]
        BY <1>2, <1>4 DEF UpCounts
      <4> QED BY <1>1, <2>1, <4>1, UnitsAt
    <3> QED BY <3>1, UnitsAt
  <2>3. UNCHANGED Waiting
    BY <1>4 DEF Waiting
  <2> QED BY <2>2, <2>3 DEF Counts
<1>5. ASSUME NEW x \in Sem, UpWakes(x), UNCHANGED semOf PROVE Counts
  <2> DEFINE f == Head(waiters[x])
  <2>1. /\ Granted(x)' = Granted(x) \cup {f} /\ f \notin Granted(x)
        /\ \A y \in Sem \ {x} : Granted(y)' = Granted(y)
        /\ value' = value
    BY <1>5, HandsOver
  <2>2. Cardinality(Granted(x)') = Cardinality(Granted(x)) + 1
    BY <2>1, FS_AddElement DEF Finite
  <2>3. Units' = [Units EXCEPT ![x] = @ + 1]
    <3>1. \A y \in Sem : Units'[y] = IF y = x THEN Units[y] + 1 ELSE Units[y]
      <4>1. Units'[x] = Units[x] + 1
        <5>1. /\ Units'[x] = value'[x] + Cardinality(Granted(x)')
              /\ Units[x] = value[x] + Cardinality(Granted(x))
          BY DEF Units
        <5> QED BY <1>1, <2>1, <2>2, <5>1
      <4>2. \A y \in Sem \ {x} : Units'[y] = Units[y]
        BY <2>1, UnitsAt
      <4> QED BY <4>1, <4>2
    <3> QED BY <3>1, UnitsAt
  <2>4. UNCHANGED Waiting
    BY <1>5 DEF Waiting
  <2> QED BY <2>3, <2>4 DEF Counts
<1>6. ASSUME NEW p \in User, NEW x \in Sem, Free(p), value[x] > 0,
             value' = [value EXCEPT ![x] = @ - 1], UNCHANGED <<waiters, semOf>>
      PROVE  Counts
  <2>1. \A y \in Sem : Granted(y)' = Granted(y) /\ p \notin Waiting[y]
    BY <1>6, GrantedUntouched, FreeWaitsForNothing, NoSemIsNone DEF Waiting
  <2>2. Units[x] > 0 /\ Units' = [Units EXCEPT ![x] = @ - 1]
    <3>1. \A y \in Sem : Units'[y] = IF y = x THEN Units[y] - 1 ELSE Units[y]
      <4>1. \A y \in Sem : value'[y] = IF y = x THEN value[y] - 1 ELSE value[y]
        BY <1>2, <1>6
      <4> QED BY <1>1, <2>1, <4>1, UnitsAt
    <3>2. Units[x] > 0
      BY <1>1, <1>6, UnitsAt
    <3> QED BY <3>1, <3>2, UnitsAt
  <2>3. Waiting' = [Waiting EXCEPT ![x] = @ \ {p}]
    BY <1>6, <2>1 DEF Waiting
  <2> QED BY <2>1, <2>2, <2>3 DEF Counts
<1>7. ASSUME NEW p \in User, NEW x \in Sem, NEW l, Free(p), DownSleeps(p, x, l)
      PROVE  Counts
  <2>1. /\ UNCHANGED value /\ semOf' = [semOf EXCEPT ![p] = x] /\ semOf[p] = NoSem
        /\ \A y \in Sem : Granted(y)' = Granted(y)
    BY <1>7, JoinsQueue
  <2>2. UNCHANGED Units
    BY <2>1 DEF Units
  <2>3. \A y \in Sem : p \notin Waiting[y]
    BY <2>1, NoSemIsNone DEF Waiting
  <2>4. Waiting' = [Waiting EXCEPT ![x] = @ \cup {p}]
    BY <1>2, <2>1, NoSemIsNone DEF Waiting
  <2> QED BY <2>2, <2>3, <2>4 DEF Counts
<1>8. ASSUME NEW p \in User, DownWoken(p) PROVE Counts
  <2>1. /\ UNCHANGED value /\ semOf' = [semOf EXCEPT ![p] = NoSem]
        /\ \A x \in Sem : Granted(x)' = Granted(x) \ {p}
        /\ \A x \in Sem : semOf[p] = x => p \in Granted(x)
    BY <1>8, LeavesDown
  <2>2. \A x \in Sem : semOf[p] # x => Granted(x)' = Granted(x)
    BY <2>1 DEF Granted
  <2>3. CASE semOf[p] \notin Sem
    <3>1. UNCHANGED Units
      BY <2>1, <2>2, <2>3 DEF Units
    <3>2. UNCHANGED Waiting
      BY <1>2, <2>1, <2>3, NoSemIsNone DEF Waiting
    <3> QED BY <3>1, <3>2 DEF Counts
  <2>4. CASE semOf[p] \in Sem
    <3> PICK x \in Sem : x = semOf[p]
      BY <2>4
    <3>1. /\ Cardinality(Granted(x) \ {p}) = Cardinality(Granted(x)) - 1
          /\ Cardinality(Granted(x)) > 0
      <4>1. IsFiniteSet(Granted(x)) /\ p \in Granted(x)
        BY <2>1, <2>4 DEF Finite
      <4>2. Cardinality(Granted(x) \ {p}) = Cardinality(Granted(x)) - 1
        BY <4>1, FS_RemoveElement
      <4>3. Cardinality(Granted(x)) # 0
        BY <4>1, FS_EmptySet
      <4> QED BY <1>1, <2>4, <4>2, <4>3
    <3>2. Units[x] > 0 /\ Units' = [Units EXCEPT ![x] = @ - 1]
      <4>1. \A y \in Sem : Units'[y] = IF y = x THEN Units[y] - 1 ELSE Units[y]
        <5>1. Units'[x] = Units[x] - 1
          <6>1. /\ Units'[x] = value'[x] + Cardinality(Granted(x)')
                /\ Units[x] = value[x] + Cardinality(Granted(x))
            BY <2>4 DEF Units
          <6>2. Granted(x)' = Granted(x) \ {p}
            BY <2>1, <2>4
          <6> QED BY <1>1, <2>1, <2>4, <3>1, <6>1, <6>2
        <5>2. \A y \in Sem \ {x} : Units'[y] = Units[y]
          BY <2>1, <2>2, UnitsAt
        <5> QED BY <5>1, <5>2
      <4>2. Units[x] > 0
        BY <1>1, <2>4, <3>1, UnitsAt
      <4> QED BY <4>1, <4>2, UnitsAt
    <3>3. \A y \in Sem \ {x} : p \notin Waiting[y]
      BY DEF Waiting
    <3>4. Waiting' = [Waiting EXCEPT ![x] = @ \ {p}]
      BY <1>2, <2>1, <2>4, NoSemIsNone DEF Waiting
    <3> QED BY <2>4, <3>2, <3>3, <3>4 DEF Counts
  <2> QED BY <2>3, <2>4
<1>9. ASSUME NEW p \in User, NEW x \in Sem, Free(p), TryDown(p, x) PROVE Counts
  <2>1. UNCHANGED <<waiters, semOf>>
    BY <1>9 DEF TryDown, threadVars
  <2> QED BY <1>3, <1>6, <1>9, <2>1 DEF TryDown
<1>10. ASSUME NEW p \in User, NEW x \in Sem, NEW l, Free(p), DownTakes(p, x, l)
       PROVE Counts
  BY <1>6, <1>10 DEF DownTakes
<1> QED
  BY <1>3, <1>4, <1>5, <1>7, <1>8, <1>9, <1>10 DEF QueueStep, Down

LEMMA CountNextStep ==
  Counts => [Count!CountNext]_(Count!countVars)
  BY DEF Counts, Units, Waiting, Count!CountNext, Count!Release, Count!Request,
         Count!Acquire, Count!countVars

LEMMA CountInitially == Init => Count!CountInit
<1> SUFFICES ASSUME Init PROVE Count!CountInit
  OBVIOUS
<1>1. \A x \in Sem : Granted(x) = {}
  BY NoSemIsNone DEF Init, ThreadInit, Granted
<1>2. /\ program \in Program /\ value = InitialValue(program)
      /\ \A x \in Sem : value[x] \in Nat
  BY DEF Init, ThreadInit, InitialValue
<1>3. Units = InitialValue(program)
  BY <1>1, <1>2, FS_EmptySet DEF Units, InitialValue
<1>4. Waiting = [x \in Sem |-> {}]
  BY NoSemIsNone DEF Init, ThreadInit, Waiting
<1> QED BY <1>2, <1>3, <1>4 DEF Count!CountInit, Units, Waiting

(* Direct hand-off is a counting semaphore: what up gave and down has not   *)
(* yet taken counts as free.                                                *)
THEOREM SemaphoresCount == Spec => ImplementsCounting
<1>1. Inv /\ [Next]_vars => [Count!CountNext]_(Count!countVars)
  BY StepsOfQueues, StepsCount, CountNextStep
<1> QED
  BY <1>1, InvHolds, CountInitially, PTL DEF Spec, ImplementsCounting, Count!CountSpec

-----------------------------------------------------------------------------
(* The monitor and the dinners.                                             *)

\* p is asleep in the queue of semOf[p].
Blocked(p) == waitState[p] = "ksem"

\* The label p goes on at once it is out of down or do_sleep.
Stage(p) == IF pc[p] \in DownPlaces \cup SleepPlaces THEN cont[p] ELSE pc[p]

MealStages == {"loop", "take", "take_test", "eat", "put", "put_left", "put_right",
               "put_leave", "quit_sched"}
SemaStages == MealStages \cup {"take_leave", "take_wait"}
Condition == {"wait_down", "wait_end"}
Signalling == {"signal_down", "signal_end"}
CondvarStages == MealStages \cup {"take_while"} \cup Condition \cup Signalling

\* Stages in which a philosopher neither has its forks nor wants them.
Thinking == {"loop", "take", "take_test", "put_right", "put_leave", "quit_sched"}
               \cup Signalling

InsideStages == {"take_test", "take_leave", "take_while", "put_left",
                 "put_right", "put_leave", "signal_end", "wait_end"}

DinnerTyped ==
    /\ DOMAIN cont = User /\ DOMAIN ret = User
    /\ program \in Program
    /\ phil \in [Seat -> {"thinking", "hungry", "eating"}]
    /\ cvCount \in [Cv -> Nat] /\ nextCount \in Nat

\* A thread that has not got the CPU is in schedule(), or has not begun.
Solo == \A p \in User :
           current # p => pc[p] \in {"loop", "down_woken", "sleep_woken", "quit_sched"}

\* The threads of "any", and those no philosopher is.
NoDinner ==
    /\ program = "any" =>
          /\ \A p \in User : Stage(p) \in {"loop", "quit_sched"}
          /\ nextCount = 0 /\ \A c \in Cv : cvCount[c] = 0
    /\ program # "any" =>
          \A p \in User : (\A i \in Seat : Who[i] # p) => pc[p] = "loop"

\* Inside down and do_sleep: for which semaphore, and where to afterwards.
Asks(i) ==
    LET w == Who[i]
    IN  /\ pc[w] \in DownPlaces =>
              \/ cont[w] \in {"take_test", "put_left"} /\ semOf[w] = mutex
              \/ cont[w] = "signal_end" /\ semOf[w] = next
              \/ cont[w] = "eat" /\ program = "sema" /\ semOf[w] = s(i)
              \/ cont[w] = "wait_end" /\ semOf[w] = s(i)
        /\ pc[w] \in SleepPlaces => cont[w] \in {"take", "put"}

\* The row of philosopher i, whose thread is at stage d.
Row(i) ==
    LET w == Who[i]
        d == Stage(w)
    IN  /\ d \in (IF program = "sema" THEN SemaStages ELSE CondvarStages)
        /\ phil[i] = "thinking" <=> d \in Thinking
        /\ d \in {"put", "put_left"} => phil[i] = "eating"
        /\ d = "wait_down" => phil[i] = "hungry"
        /\ d \in {"eat", "wait_end"} =>
              phil[i] = IF Blocked(w) THEN "hungry" ELSE "eating"
        /\ value[s(i)] = IF d \in {"take_leave", "take_wait"} /\ phil[i] = "eating"
                         THEN 1 ELSE 0
        /\ cvCount[i] = IF d \in Condition THEN 1 ELSE 0
        /\ d \in Condition => ret[w] = "take_while" /\ cvp[w] = i
        /\ d \in Signalling => ret[w] \in {"put_right", "put_leave"}

Table == program # "any" => \A i \in Seat : Asks(i) /\ Row(i)

\* The monitor is with one thread, or open.
In(p) == ~ Blocked(p) /\ Stage(p) \in InsideStages

One ==
    program # "any" =>
        /\ \A p, q \in User : In(p) /\ In(q) => p = q
        /\ value[mutex] > 0 =>
              value[mutex] = 1 /\ nextCount = 0 /\ \A p \in User : ~ In(p)
        /\ value[next] = 0

\* The threads that next_count counts.
Signallers == {p \in User : Stage(p) \in Signalling}

Counted == IsFiniteSet(Signallers) /\ nextCount = Cardinality(Signallers)

Apart == \A i \in Seat : phil[i] = "eating" => phil[RIGHT(i)] # "eating"

\* Philosopher i has yet to test the right neighbour.
Pending(i) ==
    \/ Stage(Who[i]) = "put_right"
    \/ Stage(Who[i]) \in Signalling /\ ret[Who[i]] = "put_right"

Reasons ==
    program # "any" =>
        \A i \in Seat : phil[i] = "hungry" =>
            \/ phil[LEFT(i)] = "eating" \/ phil[RIGHT(i)] = "eating"
            \/ Pending(LEFT(i))

Dinner == /\ DinnerTyped /\ Solo /\ NoDinner /\ Table
          /\ One /\ Counted /\ Apart /\ Reasons

-----------------------------------------------------------------------------
(* Semaphores and seats.                                                    *)

LEMMA SemsApart ==
  /\ mutex \in Sem /\ next \in Sem /\ mutex # next
  /\ \A i \in Seat : s(i) \in Sem /\ s(i) # mutex /\ s(i) # next /\ s(i) = cvSem(i)
  /\ \A i, j \in Seat : s(i) = s(j) => i = j
<1>1. mutex # next /\ \A i : cvSem(i) # mutex /\ cvSem(i) # next
  BY DEF mutex, next, cvSem
<1>2. \A i, j \in Seat : cvSem(i) = cvSem(j) => i = j
  BY DEF cvSem
<1> QED BY <1>1, <1>2, SemsAreSems DEF s

LEMMA Remainder ==
  ASSUME NEW n \in Nat, n > 0, NEW x \in Nat, x < 2 * n
  PROVE  x % n = IF x < n THEN x ELSE x - n
<1> DEFINE q == x \div n
<1>1. q \in Int /\ x % n \in 0 .. n - 1
  OBVIOUS
<1>2. x % n = x - n * q
  BY SMTT(30)
<1> HIDE DEF q
<1>3. q < 2
  <2>1. SUFFICES ASSUME q >= 2 PROVE FALSE
    BY <1>1
  <2>2. n * q >= n * 2
    BY <1>1, <2>1
  <2> QED BY <1>1, <1>2, <2>2
<1>4. q >= 0
  <2>1. SUFFICES ASSUME q <= -1 PROVE FALSE
    BY <1>1
  <2>2. n * q <= n * (-1)
    BY <1>1, <2>1
  <2> QED BY <1>1, <1>2, <2>2
<1>5. q = 0 \/ q = 1
  BY <1>1, <1>3, <1>4
<1> QED BY <1>1, <1>2, <1>5

LEMMA Circle ==
  ASSUME NEW i \in Seat
  PROVE  /\ LEFT(i) \in Seat /\ RIGHT(i) \in Seat
         /\ LEFT(i) # i /\ RIGHT(i) # i
         /\ LEFT(RIGHT(i)) = i /\ RIGHT(LEFT(i)) = i
<1>1. N \in Nat /\ N >= 3 /\ i \in 0 .. N - 1
  BY TableAssumption DEF Seat
<1>2. \A j \in 0 .. N - 1 : RIGHT(j) = IF j = N - 1 THEN 0 ELSE j + 1
  <2> SUFFICES ASSUME NEW j \in 0 .. N - 1
               PROVE  (j + 1) % N = IF j = N - 1 THEN 0 ELSE j + 1
    BY DEF RIGHT
  <2>1. j + 1 \in Nat /\ j + 1 < 2 * N
    BY <1>1
  <2>2. (j + 1) % N = IF j + 1 < N THEN j + 1 ELSE (j + 1) - N
    BY <1>1, <2>1, Remainder
  <2> QED BY <1>1, <2>2
<1>3. \A j \in 0 .. N - 1 : LEFT(j) = IF j = 0 THEN N - 1 ELSE j - 1
  <2> SUFFICES ASSUME NEW j \in 0 .. N - 1
               PROVE  (j + N - 1) % N = IF j = 0 THEN N - 1 ELSE j - 1
    BY DEF LEFT
  <2>1. j + N - 1 \in Nat /\ j + N - 1 < 2 * N
    BY <1>1
  <2>2. (j + N - 1) % N = IF j + N - 1 < N THEN j + N - 1 ELSE (j + N - 1) - N
    BY <1>1, <2>1, Remainder
  <2> QED BY <1>1, <2>2
<1> QED BY <1>1, <1>2, <1>3 DEF Seat

LEMMA Threads ==
  /\ \A i \in Seat : Who[i] \in User
  /\ \A i, j \in Seat : Who[i] = Who[j] => i = j
  BY TableAssumption DEF Seat

-----------------------------------------------------------------------------
(* What the calls of the kernel do to the queues, in terms of Blocked.      *)

LEMMA BlockedInDown ==
  ASSUME Inv, NEW p \in User, Blocked(p)
  PROVE  /\ pc[p] \in DownPlaces /\ (pc[p] = "down_woken" => current # p)
         /\ \A x \in Sem : InQueue(p, x) <=> semOf[p] = x
  BY DEF Inv, Parked, Queued, Blocked, DownPlaces

\* up counts the unit when nobody waits, and wakes somebody who does otherwise.
LEMMA UpEffect ==
  ASSUME Inv, NEW p \in User, Free(p), NEW x \in Sem, NEW l, Up(p, x, l)
  PROVE  /\ UNCHANGED <<current, cont, semOf>>
         /\ pc' = [pc EXCEPT ![p] = l] /\ DOMAIN pc = Proc
         /\ value \in [Sem -> Nat]
         /\ \/ /\ \A q \in User : ~ (Blocked(q) /\ semOf[q] = x)
               /\ value' = [value EXCEPT ![x] = value[x] + 1]
               /\ \A q \in User : Blocked(q)' <=> Blocked(q)
            \/ \E f \in User :
                  /\ f # p /\ Blocked(f) /\ semOf[f] = x /\ UNCHANGED value
                  /\ \A q \in User : Blocked(q)' <=> Blocked(q) /\ q # f
<1>1. /\ UNCHANGED <<cont, semOf>> /\ pc' = [pc EXCEPT ![p] = l]
      /\ DOMAIN pc = Proc /\ value \in [Sem -> Nat]
  BY DEF Up, Goto, Inv, Typed
<1>2. CASE UpCounts(x)
  <2>1. \A q \in User : ~ InQueue(q, x)
    BY <1>2 DEF UpCounts, InQueue
  <2>2. \A q \in User : ~ (Blocked(q) /\ semOf[q] = x)
    BY <2>1, BlockedInDown
  <2> QED BY <1>1, <1>2, <2>2 DEF UpCounts, schedVars, Blocked
<1>3. CASE UpWakes(x)
  <2> DEFINE f == Head(waiters[x])
  <2>1. /\ f \in User /\ waitState[f] = "ksem" /\ semOf[f] = x
        /\ state[f] = "sleeping" /\ waitState' = WaitAfterWakeup({f})
        /\ UNCHANGED <<value, current>>
    BY <1>1, <1>3, HandsOver
  <2> HIDE DEF f
  <2>2. f # p
    BY <2>1, FreeWaitsForNothing
  <2>3. \A q \in User : Blocked(q)' <=> Blocked(q) /\ q # f
    BY <2>1 DEF WaitAfterWakeup, NotRunnable, Blocked, Proc
  <2> QED BY <1>1, <2>1, <2>2, <2>3 DEF Blocked
<1> QED BY <1>2, <1>3 DEF Up

\* The threads other than p stay where they are.
Elsewhere(p) ==
    \A q \in User \ {p} : /\ pc'[q] = pc[q] /\ cont'[q] = cont[q]
                          /\ semOf'[q] = semOf[q]
                          /\ Stage(q)' = Stage(q)

LEMMA DownEffect ==
  ASSUME Inv, DinnerTyped, NEW p \in User, Free(p), NEW x \in Sem,
         NEW l, l \notin DownPlaces \cup SleepPlaces, Down(p, x, l)
  PROVE  /\ UNCHANGED current /\ DOMAIN cont' = User /\ Elsewhere(p)
         /\ \A q \in User \ {p} : Blocked(q)' <=> Blocked(q)
         /\ Stage(p)' = l /\ ~ Blocked(p) /\ value \in [Sem -> Nat]
         /\ \/ /\ value[x] > 0 /\ value' = [value EXCEPT ![x] = value[x] - 1]
               /\ ~ Blocked(p)' /\ pc'[p] = l
            \/ /\ ~ value[x] > 0 /\ UNCHANGED value
               /\ Blocked(p)' /\ pc'[p] = "down_sched" /\ cont'[p] = l
               /\ semOf'[p] = x
<1>1. p \in Proc /\ ~ Blocked(p) /\ value \in [Sem -> Nat]
  BY FreeWaitsForNothing DEF Proc, Blocked, Inv, Typed
<1>2. CASE DownTakes(p, x, l)
  <2>1. /\ \A q \in User \ {p} : pc'[q] = pc[q] /\ cont'[q] = cont[q] /\ semOf'[q] = semOf[q]
        /\ pc'[p] = l /\ UNCHANGED <<current, waitState, cont>>
        /\ value[x] > 0 /\ value' = [value EXCEPT ![x] = value[x] - 1]
    BY <1>1, <1>2 DEF DownTakes, Goto, schedVars, Inv, Typed
  <2> QED BY <1>1, <2>1 DEF Elsewhere, Stage, Blocked, DinnerTyped
<1>3. CASE DownSleeps(p, x, l)
  <2>1. /\ \A q \in User \ {p} : /\ pc'[q] = pc[q] /\ cont'[q] = cont[q]
                                 /\ semOf'[q] = semOf[q] /\ waitState'[q] = waitState[q]
        /\ pc'[p] = "down_sched" /\ cont'[p] = l /\ semOf'[p] = x
        /\ waitState'[p] = "ksem" /\ DOMAIN cont' = User
        /\ ~ value[x] > 0 /\ UNCHANGED <<value, current>>
    BY <1>1, <1>3 DEF DownSleeps, Inv, Typed, SchedTypeOK, DinnerTyped
  <2> QED BY <1>1, <2>1 DEF Elsewhere, Stage, Blocked, DownPlaces
<1> QED BY <1>2, <1>3 DEF Down

-----------------------------------------------------------------------------
(* What the parts of Dinner need from a step of philosopher i.              *)

\* The step leaves the row of philosopher k alone.
Calm(k) ==
    LET w == Who[k]
    IN  /\ phil'[k] = phil[k] /\ value'[s(k)] = value[s(k)]
        /\ cvCount'[k] = cvCount[k] /\ ret'[w] = ret[w] /\ cvp'[w] = cvp[w]
        /\ Stage(w) \in {"eat", "wait_end"} => (Blocked(w)' <=> Blocked(w))

LEMMA RowKept ==
  ASSUME NEW k \in Seat, Asks(k), Row(k), Calm(k), UNCHANGED program,
         NEW p, Elsewhere(p), Who[k] # p
  PROVE  Asks(k)' /\ Row(k)'
<1> DEFINE w == Who[k]
<1>1. w \in User \ {p}
  BY Threads
<1>2. /\ pc'[w] = pc[w] /\ cont'[w] = cont[w] /\ semOf'[w] = semOf[w]
      /\ Stage(w)' = Stage(w)
  BY <1>1 DEF Elsewhere
<1>3. Asks(k)'
  BY <1>2 DEF Asks
<1>4. Row(k)'
  BY <1>2 DEF Row, Calm
<1> QED BY <1>3, <1>4

LEMMA Mover ==
  ASSUME Dinner, program # "any", UNCHANGED <<program, current>>,
         NEW i \in Seat, current = Who[i], Elsewhere(Who[i]),
         NEW j \in Seat, \A k \in Seat \ {i, j} : Calm(k),
         Asks(i)', Row(i)', Asks(j)', Row(j)'
  PROVE  Solo' /\ NoDinner' /\ Table'
<1>1. Solo'
  BY DEF Dinner, Solo, Elsewhere
<1>2. NoDinner'
  BY DEF Dinner, NoDinner, Elsewhere
<1>3. ASSUME NEW k \in Seat \ {i, j} PROVE Asks(k)' /\ Row(k)'
  <2>1. Asks(k) /\ Row(k) /\ Calm(k) /\ Who[k] # Who[i]
    BY Threads DEF Dinner, Table
  <2> QED BY <2>1, RowKept
<1> QED BY <1>1, <1>2, <1>3 DEF Table

LEMMA CountedKept ==
  ASSUME Counted, NEW p \in User, Elsewhere(p),
         Stage(p) \in Signalling <=> Stage(p)' \in Signalling, UNCHANGED nextCount
  PROVE  Counted'
<1>1. Signallers' = Signallers
  BY DEF Signallers, Elsewhere
<1> QED BY <1>1 DEF Counted

LEMMA CountedMore ==
  ASSUME Counted, NEW p \in User, Elsewhere(p),
         Stage(p) \notin Signalling, Stage(p)' \in Signalling,
         nextCount' = nextCount + 1
  PROVE  Counted'
<1>1. Signallers' = Signallers \cup {p} /\ p \notin Signallers
  BY DEF Signallers, Elsewhere
<1> QED BY <1>1, FS_AddElement DEF Counted

LEMMA CountedFewer ==
  ASSUME Counted, NEW p \in User, Elsewhere(p),
         Stage(p) \in Signalling, Stage(p)' \notin Signalling,
         nextCount' = nextCount - 1
  PROVE  Counted' /\ nextCount' \in Nat
<1>1. Signallers' = Signallers \ {p} /\ p \in Signallers
  BY DEF Signallers, Elsewhere
<1>2. /\ IsFiniteSet(Signallers') /\ Cardinality(Signallers') = Cardinality(Signallers) - 1
      /\ Cardinality(Signallers') \in Nat
  BY <1>1, FS_RemoveElement, FS_CardinalityType DEF Counted
<1> QED BY <1>2 DEF Counted

\* The monitor is closed, and with f if with anybody.
LEMMA OneHeld ==
  ASSUME value'[mutex] = 0, value'[next] = 0,
         NEW f, \A q \in User : In(q)' => q = f
  PROVE  One'
  BY DEF One

LEMMA OneOpen ==
  ASSUME value'[mutex] = 1, value'[next] = 0, nextCount' = 0,
         \A q \in User : ~ In(q)'
  PROVE  One'
  BY DEF One

\* Nobody comes in.
LEMMA OneLess ==
  ASSUME One, UNCHANGED program, \A q \in User : In(q)' => In(q),
         value'[mutex] = value[mutex], value'[next] = value[next],
         UNCHANGED nextCount
  PROVE  One'
  BY DEF One

LEMMA HeldByMover ==
  ASSUME Dinner, Inv, program # "any", NEW p \in User, In(p)
  PROVE  /\ value[mutex] = 0 /\ value[next] = 0
         /\ \A q \in User : In(q) => q = p
<1>1. value[mutex] \in Nat
  BY SemsApart DEF Inv, Typed
<1> QED BY <1>1 DEF Dinner, One

\* As long as phil stays, what is owed to hungry philosophers has to.
LEMMA PhilKept ==
  ASSUME Dinner, UNCHANGED <<phil, program>>,
         \A k \in Seat : Pending(k) => Pending(k)'
  PROVE  Apart' /\ Reasons'
<1>1. Apart'
  BY DEF Dinner, Apart
<1>2. Reasons'
  BY Circle DEF Dinner, Reasons
<1> QED BY <1>1, <1>2

LEMMA PendingKept ==
  ASSUME NEW i \in Seat, Elsewhere(Who[i]), NEW k \in Seat, k # i, ret'[Who[k]] = ret[Who[k]]
  PROVE  Pending(k)' <=> Pending(k)
<1>1. Stage(Who[k])' = Stage(Who[k])
  BY Threads DEF Elsewhere
<1> QED BY <1>1 DEF Pending

-----------------------------------------------------------------------------
(* Calls of the kernel, as far as the dinners see them.                     *)

\* p has moved to label l, and nothing else is seen of the step.
Moved(p, l) ==
    /\ UNCHANGED <<current, value>> /\ DOMAIN cont' = User
    /\ Elsewhere(p) /\ Stage(p)' = l
    /\ \A q \in User : Blocked(q)' <=> Blocked(q)

LEMMA GotoEffect ==
  ASSUME Inv, DinnerTyped, NEW p \in User, Free(p),
         NEW l, l \notin DownPlaces \cup SleepPlaces, Goto(p, l),
         UNCHANGED <<schedVars, semVars, cont, semOf>>
  PROVE  Moved(p, l) /\ pc'[p] = l
<1>1. p \in Proc /\ DOMAIN pc = Proc
  BY DEF Proc, Inv, Typed
<1>2. pc'[p] = l /\ \A q \in User \ {p} : pc'[q] = pc[q]
  BY <1>1 DEF Goto
<1> QED BY <1>2 DEF Moved, Elsewhere, Stage, Blocked, DinnerTyped, schedVars, semVars

LEMMA SleepEffect ==
  ASSUME Inv, DinnerTyped, NEW p \in User, Free(p), NEW l, Sleep(p, l)
  PROVE  Moved(p, l) /\ pc'[p] = "sleep_sched" /\ cont'[p] = l
<1>1. /\ p \in Proc /\ DOMAIN pc = Proc /\ DOMAIN waitState = Proc
      /\ DOMAIN cont = User /\ ~ Blocked(p)
  BY FreeWaitsForNothing DEF Proc, Inv, Typed, SchedTypeOK, DinnerTyped, Blocked
<1>2. /\ UNCHANGED <<current, value, semOf>> /\ DOMAIN cont' = User
      /\ pc'[p] = "sleep_sched" /\ cont'[p] = l /\ waitState'[p] = "timer"
      /\ \A q \in User \ {p} : /\ pc'[q] = pc[q] /\ cont'[q] = cont[q]
                               /\ waitState'[q] = waitState[q]
  BY <1>1 DEF Sleep, StartSleep, Goto, semVars, Proc
<1>3. Stage(p)' = l /\ Elsewhere(p)
  BY <1>2 DEF Stage, SleepPlaces, Elsewhere
<1> QED BY <1>1, <1>2, <1>3 DEF Moved, Blocked

LEMMA QuitEffect ==
  ASSUME Inv, DinnerTyped, NEW p \in User, Free(p), Quit(p)
  PROVE  Moved(p, "quit_sched") /\ pc'[p] = "quit_sched"
<1> DEFINE W == {q \in {initproc} : waitState[q] = "child"}
<1>1. /\ p \in Proc /\ DOMAIN pc = Proc /\ W \cap User = {}
      /\ waitState' = WaitAfterWakeup(W)
  BY ProcAssumption DEF Proc, Inv, Typed, Quit
<1> HIDE DEF W
<1>2. /\ UNCHANGED <<current, value, semOf, cont>>
      /\ pc'[p] = "quit_sched" /\ \A q \in User \ {p} : pc'[q] = pc[q]
  BY <1>1 DEF Quit, Goto, semVars
<1>3. \A q \in User : waitState'[q] = waitState[q]
  BY <1>1 DEF WaitAfterWakeup, NotRunnable, Proc
<1>4. Stage(p)' = "quit_sched" /\ Elsewhere(p)
  BY <1>2 DEF Stage, DownPlaces, SleepPlaces, Elsewhere
<1> QED BY <1>2, <1>3, <1>4 DEF Moved, Blocked, DinnerTyped

\* Who of the philosophers waits for what.
LEMMA WhoWaits ==
  ASSUME Inv, Dinner, program # "any", NEW q \in User, Blocked(q)
  PROVE  \E k \in Seat :
            /\ q = Who[k] /\ pc[q] \in DownPlaces /\ Stage(q) = cont[q]
            /\ \/ semOf[q] = mutex /\ Stage(q) \in {"take_test", "put_left"}
               \/ semOf[q] = next /\ Stage(q) = "signal_end"
               \/ semOf[q] = s(k) /\ Stage(q) \in {"eat", "wait_end"}
<1>1. pc[q] \in DownPlaces
  BY BlockedInDown
<1>2. PICK k \in Seat : q = Who[k]
  BY <1>1 DEF Dinner, NoDinner, DownPlaces
<1>3. Asks(k) /\ Stage(q) = cont[q]
  BY <1>1 DEF Dinner, Table, Stage
<1> QED BY <1>1, <1>2, <1>3 DEF Asks

\* On the semaphore of philosopher j only j waits.
LEMMA WaitsOnOwn ==
  ASSUME Inv, Dinner, program # "any", NEW q \in User, Blocked(q),
         NEW j \in Seat, semOf[q] = s(j)
  PROVE  q = Who[j] /\ Stage(q) \in {"eat", "wait_end"}
  BY WhoWaits, SemsApart

LEMMA SemaSignalsNobody ==
  ASSUME Dinner, program = "sema"
  PROVE  nextCount = 0
<1>1. ASSUME NEW q \in User PROVE Stage(q) \notin Signalling
  <2>1. CASE \E k \in Seat : q = Who[k]
    BY <2>1 DEF Dinner, Table, Row, SemaStages, MealStages, Signalling
  <2>2. CASE \A k \in Seat : Who[k] # q
    BY <2>2 DEF Dinner, NoDinner, Stage, Signalling, DownPlaces, SleepPlaces
  <2> QED BY <2>1, <2>2
<1>2. Signallers = {}
  BY <1>1 DEF Signallers
<1> QED BY <1>2, FS_EmptySet DEF Dinner, Counted

\* The signaller that next is raised for is there and waits.
LEMMA NextTarget ==
  ASSUME Inv, Dinner, program # "any", NEW p \in User, current = p, In(p),
         Stage(p) \notin Signalling, nextCount > 0
  PROVE  \E q \in User : Blocked(q) /\ semOf[q] = next
<1>1. PICK q \in User : Stage(q) \in Signalling
  <2>1. Signallers # {}
    BY FS_EmptySet DEF Dinner, Counted
  <2> QED BY <2>1 DEF Signallers
<1>2. PICK k \in Seat : q = Who[k]
  BY <1>1 DEF Dinner, NoDinner, Stage, Signalling, DownPlaces, SleepPlaces
<1>3. Asks(k)
  BY DEF Dinner, Table
<1>4. pc[q] \in DownPlaces /\ Stage(q) = "signal_end" /\ semOf[q] = next
  <2>1. \/ q # p /\ pc[q] \in {"loop", "down_woken", "sleep_woken", "quit_sched"}
        \/ pc[q] \in DownPlaces \cup SleepPlaces
    BY <1>1 DEF Dinner, Solo
  <2> QED BY <1>1, <1>2, <1>3, <2>1 DEF Asks, Stage, Signalling, DownPlaces, SleepPlaces
<1>5. Blocked(q)
  BY <1>1, <1>4, HeldByMover DEF In, InsideStages
<1> QED BY <1>4, <1>5

\* The next one comes in or the monitor opens, and the rows of the others stay.
LEMMA LeaveEffect ==
  ASSUME Inv, Dinner, program # "any", UNCHANGED <<program, nextCount>>,
         NEW i \in Seat, Free(Who[i]), In(Who[i]), Stage(Who[i]) \notin Signalling,
         NEW l, l \notin DownPlaces \cup SleepPlaces \cup InsideStages,
         Up(Who[i], ToLeave, l)
  PROVE  /\ One' /\ UNCHANGED current /\ DOMAIN cont' = User /\ Elsewhere(Who[i])
         /\ pc'[Who[i]] = l /\ Stage(Who[i])' = l /\ ~ Blocked(Who[i])'
         /\ \A k \in Seat : value'[s(k)] = value[s(k)]
         /\ \A k \in Seat : Stage(Who[k]) \in {"eat", "wait_end"} =>
               (Blocked(Who[k])' <=> Blocked(Who[k]))
<1> DEFINE p == Who[i]
           x == ToLeave
<1>1. /\ p \in User /\ p \in Proc /\ x \in {mutex, next} /\ x \in Sem
      /\ mutex \in Sem /\ next \in Sem /\ mutex # next
      /\ current = p /\ ~ Blocked(p)
  BY Threads, SemsApart, FreeWaitsForNothing DEF ToLeave, Proc, Free, Blocked
<1>2. /\ UNCHANGED <<current, cont, semOf>> /\ DOMAIN cont' = User
      /\ pc' = [pc EXCEPT ![p] = l] /\ DOMAIN pc = Proc /\ value \in [Sem -> Nat]
  BY <1>1, UpEffect DEF Dinner, DinnerTyped
<1>3. Elsewhere(p) /\ pc'[p] = l /\ Stage(p)' = l
  BY <1>1, <1>2 DEF Elsewhere, Stage
<1>4. /\ value[mutex] = 0 /\ value[next] = 0
      /\ \A q \in User : q # p => ~ In(q)
  BY <1>1, HeldByMover
<1>5. ~ In(p)'
  BY <1>3 DEF In
<1>6. CASE /\ \A q \in User : ~ (Blocked(q) /\ semOf[q] = x)
           /\ value' = [value EXCEPT ![x] = value[x] + 1]
           /\ \A q \in User : Blocked(q)' <=> Blocked(q)
  <2>1. nextCount = 0 /\ x = mutex
    <3>1. ~ nextCount > 0
      BY <1>1, <1>6, NextTarget DEF ToLeave
    <3> QED BY <3>1 DEF ToLeave, Dinner, DinnerTyped
  <2>2. \A q \in User : ~ In(q)'
    BY <1>3, <1>4, <1>5, <1>6 DEF In, Elsewhere
  <2>3. value'[mutex] = 1 /\ value'[next] = 0
    BY <1>1, <1>2, <1>4, <1>6, <2>1
  <2>4. One'
    BY <2>1, <2>2, <2>3, OneOpen
  <2>5. \A k \in Seat : value'[s(k)] = value[s(k)]
    BY <1>2, <1>6, <2>1, SemsApart
  <2> QED BY <1>1, <1>2, <1>3, <1>6, <2>4, <2>5, Threads
<1>7. ASSUME NEW f \in User, f # p, Blocked(f), semOf[f] = x, UNCHANGED value,
             \A q \in User : Blocked(q)' <=> Blocked(q) /\ q # f
      PROVE  /\ One' /\ ~ Blocked(p)'
             /\ \A k \in Seat : Stage(Who[k]) \in {"eat", "wait_end"} =>
                   (Blocked(Who[k])' <=> Blocked(Who[k]))
  <2>1. \A q \in User : In(q)' => q = f
    BY <1>3, <1>4, <1>5, <1>7 DEF In, Elsewhere
  <2>2. One'
    BY <1>4, <1>7, <2>1, OneHeld
  <2>3. Stage(f) \notin {"eat", "wait_end"}
    BY <1>1, <1>7, WhoWaits, SemsApart
  <2> QED BY <1>1, <1>7, <2>2, <2>3, Threads
<1>8. \/ /\ \A q \in User : ~ (Blocked(q) /\ semOf[q] = x)
         /\ value' = [value EXCEPT ![x] = value[x] + 1]
         /\ \A q \in User : Blocked(q)' <=> Blocked(q)
      \/ \E f \in User :
            /\ f # p /\ Blocked(f) /\ semOf[f] = x /\ UNCHANGED value
            /\ \A q \in User : Blocked(q)' <=> Blocked(q) /\ q # f
  <2> HIDE DEF x
  <2> QED BY <1>1, UpEffect DEF x
<1> QED BY <1>2, <1>3, <1>6, <1>7, <1>8

\* Taking the semaphore enters the monitor, waiting for it does not.
LEMMA DownKeepsOne ==
  ASSUME Inv, Dinner, program # "any", UNCHANGED <<program, nextCount>>,
         NEW i \in Seat, Free(Who[i]),
         NEW x \in Sem, NEW l, l \notin DownPlaces \cup SleepPlaces,
         Down(Who[i], x, l), x = mutex \/ l \notin InsideStages \/ value[x] = 0
  PROVE  One'
<1> DEFINE p == Who[i]
<1>1. p \in User /\ mutex \in Sem /\ next \in Sem /\ mutex # next
  BY Threads, SemsApart
<1>2. /\ Elsewhere(p) /\ \A q \in User \ {p} : Blocked(q)' <=> Blocked(q)
      /\ Stage(p)' = l /\ value \in [Sem -> Nat]
      /\ \/ /\ value[x] > 0 /\ value' = [value EXCEPT ![x] = value[x] - 1]
         \/ /\ ~ value[x] > 0 /\ UNCHANGED value /\ Blocked(p)'
  BY <1>1, DownEffect DEF Dinner
<1>3. \A q \in User \ {p} : In(q)' <=> In(q)
  BY <1>2 DEF In, Elsewhere
<1>4. value[next] = 0 /\ (value[mutex] > 0 => value[mutex] = 1 /\ \A q \in User : ~ In(q))
  BY DEF Dinner, One
<1>5. CASE value[x] > 0 /\ x = mutex
  <2>1. value'[mutex] = 0 /\ value'[next] = 0 /\ \A q \in User : In(q)' => q = p
    BY <1>1, <1>2, <1>3, <1>4, <1>5
  <2> QED BY <2>1, OneHeld
<1>6. CASE value[x] > 0 /\ x # mutex
  <2>1. ~ In(p)'
    BY <1>2, <1>6 DEF In
  <2>2. value'[mutex] = value[mutex] /\ value'[next] = value[next]
    BY <1>1, <1>2, <1>4, <1>6
  <2> QED BY <1>3, <2>1, <2>2, OneLess DEF Dinner
<1>7. CASE ~ value[x] > 0
  <2>1. ~ In(p)'
    BY <1>2, <1>7 DEF In
  <2> QED BY <1>2, <1>3, <1>7, <2>1, OneLess DEF Dinner
<1> QED BY <1>2, <1>5, <1>6, <1>7

\* A step in which only p moves, and does not come in.
LEMMA MovedKeepsOne ==
  ASSUME Inv, Dinner, program # "any", UNCHANGED program, NEW p \in User,
         NEW l, Moved(p, l), ~ Blocked(p), l \in InsideStages => In(p),
         In(p) \/ UNCHANGED nextCount
  PROVE  One'
<1>1. \A q \in User : In(q)' => In(q)
  BY DEF In, Moved, Elsewhere
<1>2. CASE In(p)
  <2>1. value[mutex] = 0 /\ value[next] = 0 /\ \A q \in User : In(q) => q = p
    BY <1>2, HeldByMover
  <2> QED BY <1>1, <2>1, OneHeld DEF Moved
<1>3. CASE UNCHANGED nextCount
  BY <1>1, <1>3, OneLess DEF Dinner, Moved
<1> QED BY <1>2, <1>3

-----------------------------------------------------------------------------
(* The steps of philosopher i, one lemma for each.                          *)

\* Steps that leave phil alone.
LEMMA Quiet ==
  ASSUME Dinner, program # "any", UNCHANGED <<program, current, phil>>,
         NEW i \in Seat, current = Who[i], Elsewhere(Who[i]),
         DOMAIN cont' = User, DOMAIN ret' = User, cvCount' \in [Cv -> Nat],
         nextCount' \in Nat, Counted', One',
         \A k \in Seat \ {i} : Calm(k), Asks(i)', Row(i)',
         Pending(i) => Pending(i)'
  PROVE  Dinner'
<1>1. DinnerTyped'
  BY DEF Dinner, DinnerTyped
<1>2. Solo' /\ NoDinner' /\ Table'
  BY Mover
<1>3. ASSUME NEW k \in Seat, Pending(k) PROVE Pending(k)'
  BY <1>3, PendingKept DEF Calm
<1>4. Apart' /\ Reasons'
  BY <1>3, PhilKept
<1> QED BY <1>1, <1>2, <1>4 DEF Dinner

\* The same, of steps that leave the counts alone too and signal nobody.
LEMMA Quieter ==
  ASSUME Dinner, program # "any", UNCHANGED <<program, current, phil, monVars>>,
         NEW i \in Seat, current = Who[i], Elsewhere(Who[i]), DOMAIN cont' = User,
         One', \A k \in Seat \ {i} : value'[s(k)] = value[s(k)],
         \A k \in Seat \ {i} : Stage(Who[k]) \in {"eat", "wait_end"} =>
            (Blocked(Who[k])' <=> Blocked(Who[k])),
         Asks(i)', Row(i)',
         Stage(Who[i]) \in Signalling <=> Stage(Who[i])' \in Signalling,
         Stage(Who[i]) # "put_right"
  PROVE  Dinner'
<1>1. UNCHANGED <<cvCount, nextCount, cvp, ret>>
  BY DEF monVars
<1>2. Counted'
  BY <1>1, CountedKept, Threads DEF Dinner
<1>3. \A k \in Seat \ {i} : Calm(k)
  BY <1>1 DEF Calm
<1>4. Pending(i) => Pending(i)'
  BY <1>1 DEF Pending
<1> HIDE DEF Calm
<1>5. /\ DOMAIN ret' = User /\ cvCount' \in [Cv -> Nat] /\ nextCount' \in Nat
  BY <1>1 DEF Dinner, DinnerTyped
<1> QED BY <1>2, <1>3, <1>4, <1>5, Quiet

\* What is known of a philosopher about to call the kernel.
LEMMA AtStage ==
  ASSUME Inv, Dinner, program # "any", NEW i \in Seat, NEW l, At(Who[i], l),
         l \notin DownPlaces \cup SleepPlaces
  PROVE  /\ Free(Who[i]) /\ Stage(Who[i]) = l /\ ~ Blocked(Who[i])
         /\ current = Who[i] /\ Row(i) /\ Who[i] \in User
         /\ l \in InsideStages => In(Who[i])
<1>1. Free(Who[i]) /\ Stage(Who[i]) = l /\ current = Who[i] /\ Who[i] \in User
  BY Threads DEF At, Free, Stage
<1>2. ~ Blocked(Who[i])
  BY <1>1, FreeWaitsForNothing DEF Blocked
<1> QED BY <1>1, <1>2 DEF Dinner, Table, In

LEMMA LoopKeeps ==
  ASSUME Inv, Dinner, program # "any", UNCHANGED program, NEW i \in Seat, Loop(i)
  PROVE  Dinner'
<1> DEFINE p == Who[i]
<1>1. /\ Free(p) /\ Stage(p) = "loop" /\ ~ Blocked(p) /\ current = p /\ p \in User
      /\ Row(i) /\ DinnerTyped
  BY AtStage DEF Loop, DownPlaces, SleepPlaces, Dinner
<1>2. UNCHANGED <<phil, monVars>>
  BY DEF Loop
<1>3. PICK l \in {"take", "quit_sched"} :
         /\ Moved(p, l) /\ pc'[p] \in {"sleep_sched", "quit_sched"}
         /\ pc'[p] = "sleep_sched" => cont'[p] = "take"
  BY <1>1, SleepEffect, QuitEffect DEF Loop
<1>4. One'
  BY <1>1, <1>2, <1>3, MovedKeepsOne DEF InsideStages, monVars
<1>5. Asks(i)'
  BY <1>3 DEF Asks, DownPlaces, SleepPlaces
<1>6. Row(i)'
  BY <1>1, <1>2, <1>3
  DEF Row, Moved, SemaStages, CondvarStages, MealStages, Thinking, Condition,
      Signalling, monVars
<1> QED BY <1>1, <1>2, <1>3, <1>4, <1>5, <1>6, Quieter, Threads DEF Moved, Signalling

LEMMA EatKeeps ==
  ASSUME Inv, Dinner, program # "any", UNCHANGED program, NEW i \in Seat, Eat(i)
  PROVE  Dinner'
<1> DEFINE p == Who[i]
<1>1. /\ Free(p) /\ Stage(p) = "eat" /\ ~ Blocked(p) /\ current = p /\ p \in User
      /\ Row(i) /\ DinnerTyped
  BY AtStage DEF Eat, DownPlaces, SleepPlaces, Dinner
<1>2. UNCHANGED <<phil, monVars>>
  BY DEF Eat, dinnerVars
<1>3. Moved(p, "put") /\ pc'[p] = "sleep_sched" /\ cont'[p] = "put"
  BY <1>1, SleepEffect DEF Eat
<1>4. One'
  BY <1>1, <1>2, <1>3, MovedKeepsOne DEF InsideStages, monVars
<1>5. Asks(i)'
  BY <1>3 DEF Asks, DownPlaces, SleepPlaces
<1>6. Row(i)'
  BY <1>1, <1>2, <1>3
  DEF Row, Moved, SemaStages, CondvarStages, MealStages, Thinking, Condition,
      Signalling, monVars
<1> QED BY <1>1, <1>2, <1>3, <1>4, <1>5, <1>6, Quieter, Threads DEF Moved, Signalling

\* Both ways into the monitor, from take and from put.
LEMMA EntersKeeps ==
  ASSUME Inv, Dinner, program # "any", UNCHANGED program, NEW i \in Seat,
         NEW a, NEW l,
         (a = "take" /\ l = "take_test") \/ (a = "put" /\ l = "put_left"),
         At(Who[i], a), Enter(Who[i], l), UNCHANGED dinnerVars
  PROVE  Dinner'
<1> DEFINE p == Who[i]
<1>1. /\ Free(p) /\ Stage(p) = a /\ current = p /\ p \in User
      /\ Row(i) /\ DinnerTyped /\ l \notin DownPlaces \cup SleepPlaces
  BY AtStage DEF DownPlaces, SleepPlaces, Dinner
<1>2. UNCHANGED <<phil, monVars>> /\ Down(p, mutex, l) /\ mutex \in Sem
  BY SemsApart DEF Enter, dinnerVars
<1>3. /\ UNCHANGED current /\ DOMAIN cont' = User /\ Elsewhere(p)
      /\ \A q \in User \ {p} : Blocked(q)' <=> Blocked(q)
      /\ Stage(p)' = l /\ value \in [Sem -> Nat]
      /\ value' = [value EXCEPT ![mutex] = value[mutex] - 1] \/ UNCHANGED value
      /\ pc'[p] = l \/ (pc'[p] = "down_sched" /\ cont'[p] = l /\ semOf'[p] = mutex)
  BY <1>1, <1>2, DownEffect
<1>4. One'
  BY <1>1, <1>2, DownKeepsOne DEF monVars
<1>5. \A k \in Seat : value'[s(k)] = value[s(k)]
  BY <1>3, SemsApart
<1>6. Asks(i)'
  BY <1>3 DEF Asks, DownPlaces, SleepPlaces
<1>7. Row(i)'
  BY <1>1, <1>2, <1>3, <1>5
  DEF Row, SemaStages, CondvarStages, MealStages, Thinking, Condition,
      Signalling, monVars
<1>8. \A k \in Seat \ {i} : Blocked(Who[k])' <=> Blocked(Who[k])
  BY <1>3, Threads
<1> QED
  BY <1>1, <1>2, <1>3, <1>4, <1>5, <1>6, <1>7, <1>8, Quieter DEF Signalling

LEMMA TakeWaitsKeeps ==
  ASSUME Inv, Dinner, program # "any", UNCHANGED program, NEW i \in Seat, TakeWaits(i)
  PROVE  Dinner'
<1> DEFINE p == Who[i]
<1>1. /\ Free(p) /\ Stage(p) = "take_wait" /\ current = p /\ p \in User
      /\ Row(i) /\ DinnerTyped
      /\ {"take_wait", "eat"} \cap (DownPlaces \cup SleepPlaces) = {}
  BY AtStage DEF DownPlaces, SleepPlaces, Dinner, TakeWaits
<1>2. UNCHANGED <<phil, monVars>> /\ Down(p, s(i), "eat") /\ s(i) \in Sem
  BY SemsApart DEF TakeWaits, dinnerVars
<1>3. /\ UNCHANGED current /\ DOMAIN cont' = User /\ Elsewhere(p)
      /\ \A q \in User \ {p} : Blocked(q)' <=> Blocked(q)
      /\ Stage(p)' = "eat" /\ value \in [Sem -> Nat]
      /\ \/ /\ value[s(i)] > 0 /\ value' = [value EXCEPT ![s(i)] = value[s(i)] - 1]
            /\ ~ Blocked(p)' /\ pc'[p] = "eat"
         \/ /\ ~ value[s(i)] > 0 /\ UNCHANGED value
            /\ Blocked(p)' /\ pc'[p] = "down_sched" /\ cont'[p] = "eat"
            /\ semOf'[p] = s(i)
  BY <1>1, <1>2, DownEffect
<1>4. One'
  BY <1>1, <1>2, DownKeepsOne DEF monVars, InsideStages
<1>5. \A k \in Seat \ {i} : value'[s(k)] = value[s(k)]
  BY <1>2, <1>3, SemsApart
<1>6. program = "sema" /\ phil[i] \in {"hungry", "eating"}
      /\ value[s(i)] = IF phil[i] = "eating" THEN 1 ELSE 0
  BY <1>1 DEF Row, CondvarStages, MealStages, Condition, Signalling, Thinking, DinnerTyped
<1>7. Asks(i)'
  BY <1>3, <1>6 DEF Asks, DownPlaces, SleepPlaces
<1>8. Row(i)'
  <2>1. value'[s(i)] = 0 /\ (phil[i] = "eating" <=> ~ Blocked(p)')
    BY <1>2, <1>3, <1>6
  <2> QED
    BY <1>1, <1>2, <1>3, <1>6, <2>1
    DEF Row, SemaStages, MealStages, Thinking, Condition, Signalling, monVars
<1>9. \A k \in Seat \ {i} : Blocked(Who[k])' <=> Blocked(Who[k])
  BY <1>3, Threads
<1> QED BY <1>1, <1>2, <1>3, <1>4, <1>5, <1>7, <1>8, <1>9, Quieter DEF Signalling

LEMMA WaitDownKeeps ==
  ASSUME Inv, Dinner, program # "any", UNCHANGED program, NEW i \in Seat,
         WaitDown(Who[i]), UNCHANGED dinnerVars
  PROVE  Dinner'
<1> DEFINE p == Who[i]
<1>1. /\ Free(p) /\ Stage(p) = "wait_down" /\ current = p /\ p \in User
      /\ Row(i) /\ DinnerTyped
      /\ {"wait_down", "wait_end"} \cap (DownPlaces \cup SleepPlaces) = {}
  BY AtStage DEF DownPlaces, SleepPlaces, Dinner, WaitDown
<1>2. /\ program = "condvar" /\ phil[i] = "hungry" /\ cvp[p] = i /\ value[s(i)] = 0
      /\ cvCount[i] = 1 /\ ret[p] = "take_while"
  BY <1>1 DEF Row, SemaStages, MealStages, Condition, DinnerTyped, Program
<1>3. UNCHANGED <<phil, monVars>> /\ Down(p, s(i), "wait_end") /\ s(i) \in Sem
  BY <1>2, SemsApart DEF WaitDown, dinnerVars
<1>4. /\ UNCHANGED current /\ DOMAIN cont' = User /\ Elsewhere(p)
      /\ \A q \in User \ {p} : Blocked(q)' <=> Blocked(q)
      /\ Stage(p)' = "wait_end" /\ UNCHANGED value /\ Blocked(p)'
      /\ pc'[p] = "down_sched" /\ cont'[p] = "wait_end" /\ semOf'[p] = s(i)
  BY <1>1, <1>2, <1>3, DownEffect
<1>5. One'
  BY <1>1, <1>2, <1>3, DownKeepsOne DEF monVars
<1>6. Asks(i)'
  BY <1>4 DEF Asks, DownPlaces, SleepPlaces
<1>7. Row(i)'
  BY <1>1, <1>2, <1>3, <1>4
  DEF Row, CondvarStages, MealStages, Thinking, Condition, Signalling, monVars
<1>8. \A k \in Seat \ {i} : Blocked(Who[k])' <=> Blocked(Who[k])
  BY <1>4, Threads
<1> QED BY <1>1, <1>3, <1>4, <1>5, <1>6, <1>7, <1>8, Quieter DEF Signalling

LEMMA SignalDownKeeps ==
  ASSUME Inv, Dinner, program # "any", UNCHANGED program, NEW i \in Seat,
         SignalDown(Who[i]), UNCHANGED dinnerVars
  PROVE  Dinner'
<1> DEFINE p == Who[i]
<1>1. /\ Free(p) /\ Stage(p) = "signal_down" /\ current = p /\ p \in User
      /\ Row(i) /\ DinnerTyped
      /\ {"signal_down", "signal_end"} \cap (DownPlaces \cup SleepPlaces) = {}
  BY AtStage DEF DownPlaces, SleepPlaces, Dinner, SignalDown
<1>2. /\ UNCHANGED <<phil, monVars>> /\ Down(p, next, "signal_end")
      /\ next \in Sem /\ value[next] = 0
  BY SemsApart DEF SignalDown, dinnerVars, Dinner, One
<1>3. /\ UNCHANGED current /\ DOMAIN cont' = User /\ Elsewhere(p)
      /\ \A q \in User \ {p} : Blocked(q)' <=> Blocked(q)
      /\ Stage(p)' = "signal_end" /\ UNCHANGED value
      /\ pc'[p] = "down_sched" /\ cont'[p] = "signal_end" /\ semOf'[p] = next
  BY <1>1, <1>2, DownEffect
<1>4. One'
  BY <1>1, <1>2, DownKeepsOne DEF monVars
<1>5. Asks(i)'
  BY <1>3 DEF Asks, DownPlaces, SleepPlaces
<1>6. Row(i)'
  BY <1>1, <1>2, <1>3
  DEF Row, SemaStages, CondvarStages, MealStages, Thinking, Condition, Signalling, monVars
<1>7. \A k \in Seat \ {i} : Blocked(Who[k])' <=> Blocked(Who[k])
  BY <1>3, Threads
<1> QED BY <1>1, <1>2, <1>3, <1>4, <1>5, <1>6, <1>7, Quieter DEF Signalling

\* Out of the monitor for a label l that is not signalling.
LEMMA LeavesKeeps ==
  ASSUME Inv, Dinner, program # "any", UNCHANGED program, NEW i \in Seat,
         NEW a \in {"take_leave", "take_while", "put_leave"}, At(Who[i], a),
         NEW l \in {"take_wait", "eat", "loop"}, Up(Who[i], ToLeave, l),
         UNCHANGED <<monVars, dinnerVars>>,
         \/ a = "take_leave" /\ l = "take_wait"
         \/ a = "put_leave" /\ l = "loop"
         \/ a = "take_while" /\ l = "eat" /\ phil[i] = "eating"
  PROVE  Dinner'
<1> DEFINE p == Who[i]
<1>1. /\ Free(p) /\ Stage(p) = a /\ current = p /\ p \in User
      /\ Row(i) /\ DinnerTyped /\ In(p)
  BY AtStage DEF DownPlaces, SleepPlaces, InsideStages, Dinner
<1>2. UNCHANGED <<phil, monVars, nextCount>>
  BY DEF dinnerVars, monVars
<1>3. /\ a \notin Signalling /\ l \notin Signalling
      /\ l \notin DownPlaces \cup SleepPlaces \cup InsideStages
  BY DEF Signalling, DownPlaces, SleepPlaces, InsideStages
<1>4. /\ One' /\ UNCHANGED current /\ DOMAIN cont' = User /\ Elsewhere(p)
      /\ pc'[p] = l /\ Stage(p)' = l /\ ~ Blocked(p)'
      /\ \A k \in Seat : value'[s(k)] = value[s(k)]
      /\ \A k \in Seat : Stage(Who[k]) \in {"eat", "wait_end"} =>
            (Blocked(Who[k])' <=> Blocked(Who[k]))
  BY <1>1, <1>2, <1>3, LeaveEffect
<1>5. Asks(i)'
  BY <1>3, <1>4 DEF Asks
<1>6. Row(i)'
  BY <1>1, <1>2, <1>4
  DEF Row, SemaStages, CondvarStages, MealStages, Thinking, Condition,
      Signalling, monVars
<1> QED BY <1>1, <1>2, <1>3, <1>4, <1>5, <1>6, Quieter

LEMMA LeavingKeeps ==
  ASSUME Inv, Dinner, program # "any", UNCHANGED program, NEW i \in Seat,
         TakeLeaves(i) \/ LeavesToEat(i) \/ PutLeaves(i)
  PROVE  Dinner'
<1>1. CASE TakeLeaves(i)
  <2>1. program = "sema"
    <3>1. Row(i) /\ Stage(Who[i]) = "take_leave"
      BY <1>1, AtStage DEF TakeLeaves, DownPlaces, SleepPlaces
    <3> QED BY <3>1 DEF Row, CondvarStages, MealStages, Condition, Signalling
  <2>2. ToLeave = mutex
    BY <2>1, SemaSignalsNobody DEF ToLeave
  <2>3. /\ At(Who[i], "take_leave") /\ Up(Who[i], ToLeave, "take_wait")
        /\ UNCHANGED <<monVars, dinnerVars>>
    BY <1>1, <2>2 DEF TakeLeaves
  <2> QED BY <2>3, LeavesKeeps
<1>2. CASE LeavesToEat(i)
  BY <1>2, LeavesKeeps DEF LeavesToEat, Leave
<1>3. CASE PutLeaves(i)
  <2>1. Up(Who[i], ToLeave, "loop")
    BY <1>3, SemaSignalsNobody DEF PutLeaves, Leave, ToLeave
  <2>2. At(Who[i], "put_leave") /\ UNCHANGED <<monVars, dinnerVars>>
    BY <1>3 DEF PutLeaves, Leave
  <2> QED BY <2>1, <2>2, LeavesKeeps
<1> QED BY <1>1, <1>2, <1>3

LEMMA WaitsInsideKeeps ==
  ASSUME Inv, Dinner, program # "any", UNCHANGED program, NEW i \in Seat, WaitsInside(i)
  PROVE  Dinner'
<1> DEFINE p == Who[i]
           l == "wait_down"
<1>1. /\ Free(p) /\ Stage(p) = "take_while" /\ current = p /\ p \in User
      /\ Row(i) /\ DinnerTyped /\ In(p) /\ i \in Cv
  BY AtStage, SemsAreSems DEF DownPlaces, SleepPlaces, InsideStages, Dinner, WaitsInside
<1>2. /\ UNCHANGED <<phil, nextCount>>
      /\ cvCount' = [cvCount EXCEPT ![i] = cvCount[i] + 1]
      /\ cvp' = [cvp EXCEPT ![p] = i] /\ ret' = [ret EXCEPT ![p] = "take_while"]
      /\ phil[i] # "eating" /\ Up(p, ToLeave, l)
  BY DEF WaitsInside, cond_wait, dinnerVars
<1>3. l \notin DownPlaces \cup SleepPlaces \cup InsideStages
  BY DEF DownPlaces, SleepPlaces, InsideStages
<1>4. /\ One' /\ UNCHANGED current /\ DOMAIN cont' = User /\ Elsewhere(p)
      /\ pc'[p] = l /\ Stage(p)' = l /\ ~ Blocked(p)'
      /\ \A k \in Seat : value'[s(k)] = value[s(k)]
      /\ \A k \in Seat : Stage(Who[k]) \in {"eat", "wait_end"} =>
            (Blocked(Who[k])' <=> Blocked(Who[k]))
  BY <1>1, <1>2, <1>3, LeaveEffect DEF Signalling
<1>5. Asks(i)'
  BY <1>4 DEF Asks, DownPlaces, SleepPlaces
<1>6. /\ cvCount' \in [Cv -> Nat] /\ DOMAIN ret' = User
      /\ cvCount'[i] = cvCount[i] + 1 /\ cvp'[p] = i /\ ret'[p] = "take_while"
      /\ \A q \in User \ {p} : cvp'[q] = cvp[q] /\ ret'[q] = ret[q]
      /\ \A k \in Seat \ {i} : cvCount'[k] = cvCount[k]
  BY <1>1, <1>2 DEF DinnerTyped, Inv, Typed
<1>7. Row(i)'
  BY <1>1, <1>2, <1>4, <1>6
  DEF Row, SemaStages, CondvarStages, MealStages, Thinking, Condition,
      Signalling, DinnerTyped
<1>8. \A k \in Seat \ {i} : Calm(k)
  BY <1>2, <1>4, <1>6, Threads DEF Calm
<1>9. Counted' /\ nextCount' \in Nat
  BY <1>1, <1>2, <1>4, CountedKept DEF Signalling, Dinner, DinnerTyped
<1>10. ~ Pending(i)
  BY <1>1 DEF Pending, Signalling
<1> HIDE DEF p, l
<1>11. current = Who[i] /\ Elsewhere(Who[i])
  BY <1>1, <1>4 DEF p
<1> QED BY <1>2, <1>4, <1>5, <1>6, <1>7, <1>8, <1>9, <1>10, <1>11, Quiet

LEMMA SignalEndKeeps ==
  ASSUME Inv, Dinner, program # "any", UNCHANGED program, NEW i \in Seat,
         SignalEnd(Who[i]), UNCHANGED dinnerVars
  PROVE  Dinner'
<1> DEFINE p == Who[i]
           l == ret[p]
<1>1. /\ Free(p) /\ Stage(p) = "signal_end" /\ current = p /\ p \in User
      /\ ~ Blocked(p) /\ Row(i) /\ DinnerTyped /\ In(p)
  BY AtStage DEF DownPlaces, SleepPlaces, InsideStages, Dinner, SignalEnd
<1>2. /\ UNCHANGED <<phil, cvCount, cvp>> /\ nextCount' = nextCount - 1
      /\ Goto(p, l) /\ ret' = [ret EXCEPT ![p] = NoLabel]
      /\ UNCHANGED <<schedVars, semVars, cont, semOf>>
  BY DEF SignalEnd, dinnerVars
<1>3. l \in {"put_right", "put_leave"}
  BY <1>1 DEF Row, Signalling
<1> HIDE DEF l
<1>4. Moved(p, l) /\ pc'[p] = l
  BY <1>1, <1>2, <1>3, GotoEffect DEF DownPlaces, SleepPlaces
<1>5. One'
  BY <1>1, <1>4, MovedKeepsOne
<1>6. Asks(i)'
  BY <1>3, <1>4 DEF Asks, DownPlaces, SleepPlaces
<1>7. Row(i)'
  BY <1>1, <1>2, <1>3, <1>4
  DEF Row, Moved, SemaStages, CondvarStages, MealStages, Thinking, Condition, Signalling
<1>8. Counted' /\ nextCount' \in Nat
  BY <1>1, <1>2, <1>3, <1>4, CountedFewer DEF Moved, Dinner, Signalling
<1>9. \A k \in Seat \ {i} : Calm(k)
  BY <1>1, <1>2, <1>4, Threads DEF Calm, Moved, DinnerTyped
<1>10. Pending(i) => Pending(i)'
  BY <1>1, <1>4 DEF Pending, Moved, l
<1>11. cvCount' \in [Cv -> Nat] /\ DOMAIN ret' = User
  BY <1>1, <1>2 DEF DinnerTyped
<1>12. UNCHANGED <<phil, current>> /\ DOMAIN cont' = User /\ Elsewhere(p)
  BY <1>2, <1>4 DEF Moved
<1> QED BY <1>1, <1>5, <1>6, <1>7, <1>8, <1>9, <1>10, <1>11, <1>12, Quiet

LEMMA WaitEndKeeps ==
  ASSUME Inv, Dinner, program # "any", UNCHANGED program, NEW i \in Seat,
         WaitEnd(Who[i]), UNCHANGED dinnerVars
  PROVE  Dinner'
<1> DEFINE p == Who[i]
           l == "take_while"
<1>1. /\ Free(p) /\ Stage(p) = "wait_end" /\ current = p /\ p \in User
      /\ ~ Blocked(p) /\ Row(i) /\ DinnerTyped /\ In(p) /\ i \in Cv
  BY AtStage, SemsAreSems DEF DownPlaces, SleepPlaces, InsideStages, Dinner, WaitEnd
<1>2. cvp[p] = i /\ ret[p] = l /\ cvCount[i] = 1 /\ phil[i] = "eating"
  BY <1>1 DEF Row, Condition
<1>3. /\ UNCHANGED <<phil, nextCount, cvp>>
      /\ cvCount' = [cvCount EXCEPT ![i] = cvCount[i] - 1]
      /\ Goto(p, l) /\ ret' = [ret EXCEPT ![p] = NoLabel]
      /\ UNCHANGED <<schedVars, semVars, cont, semOf>>
  BY <1>2 DEF WaitEnd, dinnerVars
<1>4. Moved(p, l) /\ pc'[p] = l
  BY <1>1, <1>3, GotoEffect DEF DownPlaces, SleepPlaces
<1>5. One'
  BY <1>1, <1>4, MovedKeepsOne
<1>6. Asks(i)'
  BY <1>4 DEF Asks, DownPlaces, SleepPlaces
<1>7. /\ cvCount' \in [Cv -> Nat] /\ DOMAIN ret' = User /\ cvCount'[i] = 0
      /\ \A q \in User \ {p} : ret'[q] = ret[q]
      /\ \A k \in Seat \ {i} : cvCount'[k] = cvCount[k]
  BY <1>1, <1>2, <1>3 DEF DinnerTyped
<1>8. Row(i)'
  BY <1>1, <1>2, <1>3, <1>4, <1>7
  DEF Row, Moved, SemaStages, CondvarStages, MealStages, Thinking, Condition, Signalling
<1>9. Counted' /\ nextCount' \in Nat
  BY <1>1, <1>3, <1>4, CountedKept DEF Moved, Dinner, DinnerTyped, Signalling
<1>10. \A k \in Seat \ {i} : Calm(k)
  BY <1>1, <1>3, <1>4, <1>7, Threads DEF Calm, Moved
<1>11. ~ Pending(i)
  BY <1>1 DEF Pending, Signalling
<1>12. UNCHANGED <<phil, current>> /\ DOMAIN cont' = User /\ Elsewhere(p)
  BY <1>3, <1>4 DEF Moved
<1> HIDE DEF p, l
<1>13. current = Who[i] /\ Elsewhere(Who[i])
  BY <1>1, <1>12 DEF p
<1> QED BY <1>1, <1>5, <1>6, <1>7, <1>8, <1>9, <1>10, <1>11, <1>12, <1>13, Quiet

-----------------------------------------------------------------------------
(* The tests.                                                               *)

\* A test that tells nobody to eat: only the stage changes.
LEMMA PassEffect ==
  ASSUME Inv, Dinner, program # "any", UNCHANGED program, NEW i \in Seat,
         NEW a \in {"take_test", "put_left", "put_right"}, At(Who[i], a),
         NEW l \in {"take_leave", "take_while", "put_right", "put_leave"},
         Goto(Who[i], l), UNCHANGED <<schedVars, semVars, cont, semOf, monVars>>
  PROVE  Moved(Who[i], l) /\ pc'[Who[i]] = l /\ One' /\ Counted'
<1> DEFINE p == Who[i]
<1>1. /\ Free(p) /\ Stage(p) = a /\ ~ Blocked(p) /\ p \in User /\ In(p) /\ DinnerTyped
  BY AtStage DEF DownPlaces, SleepPlaces, InsideStages, Dinner
<1>2. l \notin DownPlaces \cup SleepPlaces /\ l \notin Signalling /\ a \notin Signalling
  BY DEF DownPlaces, SleepPlaces, Signalling
<1>3. Moved(p, l) /\ pc'[p] = l
  BY <1>1, <1>2, GotoEffect
<1>4. One'
  BY <1>1, <1>3, MovedKeepsOne
<1>5. Counted'
  BY <1>1, <1>2, <1>3, CountedKept DEF Moved, monVars, Dinner
<1> QED BY <1>3, <1>4, <1>5

\* Telling oneself: the semaphore is raised for take_wait to find.
LEMMA CallSelf ==
  ASSUME Inv, Dinner, program # "any", UNCHANGED program, NEW i \in Seat,
         At(Who[i], "take_test"), NEW l,
         l = IF program = "sema" THEN "take_leave" ELSE "take_while", Call(i, i, l)
  PROVE  /\ UNCHANGED <<current, monVars>> /\ DOMAIN cont' = User
         /\ Elsewhere(Who[i]) /\ One' /\ Counted'
         /\ pc'[Who[i]] = l /\ Stage(Who[i])' = l
         /\ \A q \in User : Blocked(q)' <=> Blocked(q)
         /\ value'[s(i)] = IF program = "sema" THEN 1 ELSE 0
         /\ \A k \in Seat \ {i} : value'[s(k)] = value[s(k)]
<1> DEFINE p == Who[i]
<1>1. /\ Free(p) /\ Stage(p) = "take_test" /\ ~ Blocked(p) /\ p \in User /\ In(p)
      /\ DinnerTyped /\ Row(i) /\ p \in Proc
  BY AtStage DEF DownPlaces, SleepPlaces, InsideStages, Dinner, Proc
<1>2. /\ cvCount[i] = 0 /\ value[s(i)] = 0 /\ s(i) \in Sem
      /\ s(i) # mutex /\ s(i) # next /\ mutex \in Sem /\ next \in Sem
  BY <1>1, SemsApart DEF Row, Condition
<1>3. CASE program = "sema"
  <2>1. l = "take_leave" /\ Up(p, s(i), l) /\ UNCHANGED monVars
    BY <1>3 DEF Call
  <2>2. \A q \in User : ~ (Blocked(q) /\ semOf[q] = s(i))
    BY <1>1, WaitsOnOwn
  <2>3. /\ UNCHANGED <<current, cont, semOf>>
        /\ pc' = [pc EXCEPT ![p] = l] /\ DOMAIN pc = Proc /\ value \in [Sem -> Nat]
        /\ value' = [value EXCEPT ![s(i)] = value[s(i)] + 1]
        /\ \A q \in User : Blocked(q)' <=> Blocked(q)
    BY <1>1, <1>2, <2>1, <2>2, UpEffect
  <2>4. Elsewhere(p) /\ pc'[p] = l /\ Stage(p)' = l
    BY <1>1, <2>1, <2>3 DEF Elsewhere, Stage, DownPlaces, SleepPlaces
  <2>5. value[mutex] = 0 /\ value[next] = 0 /\ \A q \in User : In(q) => q = p
    BY <1>1, HeldByMover
  <2>6. \A q \in User : In(q)' => q = p
    BY <2>3, <2>4, <2>5 DEF In, Elsewhere
  <2>7. One'
    BY <1>2, <2>3, <2>5, <2>6, OneHeld
  <2>8. Counted'
    BY <1>1, <2>1, <2>4, CountedKept DEF Signalling, monVars, Dinner
  <2>9. \A k \in Seat \ {i} : value'[s(k)] = value[s(k)]
    BY <2>3, SemsApart
  <2>10. value'[s(i)] = 1 /\ DOMAIN cont' = User
    BY <1>1, <1>2, <2>3 DEF DinnerTyped
  <2> QED BY <1>3, <2>1, <2>3, <2>4, <2>7, <2>8, <2>9, <2>10
<1>4. CASE program # "sema"
  <2>1. /\ l = "take_while" /\ Goto(p, l)
        /\ UNCHANGED <<schedVars, semVars, cont, semOf, monVars>>
    BY <1>2, <1>4 DEF Call, cond_signal
  <2>2. Moved(p, l) /\ pc'[p] = l /\ One' /\ Counted'
    BY <2>1, PassEffect
  <2> QED BY <1>2, <1>4, <2>1, <2>2 DEF Moved
<1> QED BY <1>3, <1>4

\* What a call leaves that tells another philosopher, j: the row of j apart,
\* either p is still inside at label l, or it has given the monitor to j.
Told(p, j, l) ==
    /\ UNCHANGED <<current, cvCount, cvp>>
    /\ DOMAIN cont' = User /\ DOMAIN ret' = User /\ nextCount' \in Nat
    /\ Elsewhere(p) /\ One' /\ Counted'
    /\ pc'[p] = Stage(p)' /\ Stage(p)' \in {l, "signal_down"}
    /\ Stage(p)' = "signal_down" => program = "condvar" /\ ret'[p] = l
    /\ \A q \in User \ {p} : ret'[q] = ret[q]
    /\ \A k \in Seat \ {j} : value'[s(k)] = value[s(k)]
    /\ \A k \in Seat \ {j} : Blocked(Who[k])' <=> Blocked(Who[k])

LEMMA CallOtherSema ==
  ASSUME Inv, Dinner, program = "sema", UNCHANGED program, NEW i \in Seat,
         NEW a \in {"put_left", "put_right"}, At(Who[i], a),
         NEW l \in {"put_right", "put_leave"},
         NEW j \in Seat, j # i, phil[j] = "hungry", phil'[j] = "eating",
         Up(Who[i], s(j), l), UNCHANGED monVars
  PROVE  Told(Who[i], j, l) /\ Asks(j)' /\ Row(j)'
<1> DEFINE p == Who[i]
           w == Who[j]
<1>1. /\ Free(p) /\ Stage(p) = a /\ ~ Blocked(p) /\ p \in User /\ In(p)
      /\ DinnerTyped /\ p \in Proc
  BY AtStage DEF DownPlaces, SleepPlaces, InsideStages, Dinner, Proc
<1>2. /\ w \in User /\ w # p /\ s(j) \in Sem /\ s(j) # mutex /\ s(j) # next
      /\ mutex \in Sem /\ next \in Sem
  BY Threads, SemsApart
<1>3. /\ Asks(j) /\ Row(j)
      /\ Stage(w) \in {"eat", "take_leave", "take_wait"} /\ value[s(j)] = 0
      /\ Stage(w) = "eat" => Blocked(w)
      /\ cvCount[j] = 0
  BY DEF Dinner, Table, Row, SemaStages, MealStages, Thinking, Condition
<1>4. /\ UNCHANGED <<current, cont, semOf, cvCount, cvp, ret, nextCount>>
      /\ pc' = [pc EXCEPT ![p] = l] /\ DOMAIN pc = Proc /\ value \in [Sem -> Nat]
  BY <1>1, <1>2, UpEffect DEF monVars
<1>5. /\ Elsewhere(p) /\ pc'[p] = l /\ Stage(p)' = l /\ l \notin Signalling
      /\ a \notin Signalling
  BY <1>1, <1>4 DEF Elsewhere, Stage, DownPlaces, SleepPlaces, Signalling
<1>6. Counted'
  BY <1>1, <1>4, <1>5, CountedKept DEF Dinner
<1>7. value[mutex] = 0 /\ value[next] = 0 /\ \A q \in User : In(q) => q = p
  BY <1>1, HeldByMover
<1>8. pc'[w] = pc[w] /\ cont'[w] = cont[w] /\ semOf'[w] = semOf[w] /\ Stage(w)' = Stage(w)
  BY <1>2, <1>5 DEF Elsewhere
<1>9. Asks(j)' /\ Stage(w) # "take_leave"
  <2>1. Asks(j)'
    BY <1>3, <1>8 DEF Asks
  <2>2. SUFFICES ASSUME Stage(w) = "take_leave" PROVE FALSE
    BY <2>1
  <2>3. ~ Blocked(w)
    BY <1>2, <2>2, WhoWaits
  <2> QED BY <1>2, <1>7, <2>2, <2>3 DEF In, InsideStages
<1>10. ASSUME value'[mutex] = 0, value'[next] = 0,
              \A k \in Seat \ {j} : value'[s(k)] = value[s(k)],
              \A q \in User \ {w} : Blocked(q)' <=> Blocked(q)
       PROVE  Told(p, j, l)
  <2>1. \A q \in User : In(q)' => q = p
    BY <1>3, <1>5, <1>7, <1>8, <1>9, <1>10 DEF In, Elsewhere, InsideStages
  <2>2. One'
    BY <1>10, <2>1, OneHeld
  <2>3. \A k \in Seat \ {j} : Blocked(Who[k])' <=> Blocked(Who[k])
    BY <1>10, Threads
  <2> QED BY <1>1, <1>4, <1>5, <1>6, <1>10, <2>2, <2>3 DEF Told, Dinner, DinnerTyped
<1>11. CASE /\ \A q \in User : ~ (Blocked(q) /\ semOf[q] = s(j))
            /\ value' = [value EXCEPT ![s(j)] = value[s(j)] + 1]
            /\ \A q \in User : Blocked(q)' <=> Blocked(q)
  <2>1. Stage(w) # "eat"
    <3>1. SUFFICES ASSUME Stage(w) = "eat" PROVE FALSE
      OBVIOUS
    <3>2. Blocked(w) /\ pc[w] \in DownPlaces /\ cont[w] = "eat"
      BY <1>2, <1>3, <3>1, BlockedInDown DEF Stage
    <3> QED BY <1>2, <1>3, <1>11, <3>2 DEF Asks
  <2>2. /\ value'[mutex] = 0 /\ value'[next] = 0 /\ value'[s(j)] = 1
        /\ \A k \in Seat \ {j} : value'[s(k)] = value[s(k)]
    BY <1>2, <1>3, <1>4, <1>7, <1>11, SemsApart
  <2>3. Row(j)'
    BY <1>3, <1>4, <1>8, <2>1, <2>2
    DEF Row, SemaStages, MealStages, Thinking, Condition, Signalling
  <2> QED BY <1>9, <1>10, <1>11, <2>2, <2>3
<1>12. ASSUME NEW f \in User, f # p, Blocked(f), semOf[f] = s(j), UNCHANGED value,
              \A q \in User : Blocked(q)' <=> Blocked(q) /\ q # f
       PROVE  Told(p, j, l) /\ Row(j)'
  <2>1. f = w /\ Stage(w) = "eat"
    BY <1>3, <1>12, WaitsOnOwn
  <2>2. Row(j)'
    BY <1>2, <1>3, <1>4, <1>8, <1>12, <2>1
    DEF Row, SemaStages, MealStages, Thinking, Condition, Signalling
  <2> QED BY <1>7, <1>10, <1>12, <2>1, <2>2
<1> QED BY <1>1, <1>2, <1>9, <1>11, <1>12, UpEffect

LEMMA CallOtherCondvar ==
  ASSUME Inv, Dinner, program = "condvar", UNCHANGED program, NEW i \in Seat,
         NEW a \in {"put_left", "put_right"}, At(Who[i], a),
         NEW l \in {"put_right", "put_leave"},
         NEW j \in Seat, j # i, phil[j] = "hungry", phil'[j] = "eating",
         cond_signal(Who[i], j, l)
  PROVE  Told(Who[i], j, l) /\ Asks(j)' /\ Row(j)'
<1> DEFINE p == Who[i]
           w == Who[j]
<1>1. /\ Free(p) /\ Stage(p) = a /\ ~ Blocked(p) /\ p \in User /\ In(p)
      /\ DinnerTyped /\ p \in Proc /\ current = p /\ a \notin Signalling
  BY AtStage DEF DownPlaces, SleepPlaces, InsideStages, Signalling, Dinner, Proc
<1>2. /\ w \in User /\ w # p /\ s(j) \in Sem /\ s(j) # mutex /\ s(j) # next
      /\ mutex \in Sem /\ next \in Sem /\ s(j) = cvSem(j)
  BY Threads, SemsApart
<1>3. /\ Asks(j) /\ Row(j)
      /\ Stage(w) \in {"eat", "take_while", "wait_down", "wait_end"} /\ value[s(j)] = 0
      /\ Stage(w) \in {"eat", "wait_end"} => Blocked(w)
  BY DEF Dinner, Table, Row, CondvarStages, MealStages, Thinking, Condition, Signalling
<1>4. Stage(w) \in {"take_while", "wait_end"}
  <2>1. pc[w] \in {"loop", "quit_sched"} \cup DownPlaces \cup SleepPlaces
    BY <1>1, <1>2 DEF Dinner, Solo, DownPlaces, SleepPlaces
  <2>2. Stage(w) # "wait_down"
    BY <1>3, <2>1 DEF Asks, Stage
  <2>3. Stage(w) = "eat" => pc[w] \in DownPlaces
    BY <1>2, <1>3, BlockedInDown
  <2>4. Stage(w) # "eat"
    BY <1>3, <2>3 DEF Asks, Stage
  <2> QED BY <1>3, <2>2, <2>4
<1>5. value[mutex] = 0 /\ value[next] = 0 /\ \A q \in User : In(q) => q = p
  BY <1>1, HeldByMover
<1>6. CASE cvCount[j] > 0
  <2>1. /\ UNCHANGED <<cvCount, cvp>> /\ nextCount' = nextCount + 1
        /\ ret' = [ret EXCEPT ![p] = l] /\ Up(p, s(j), "signal_down")
    BY <1>2, <1>6 DEF cond_signal
  <2>2. Stage(w) = "wait_end" /\ Blocked(w)
    BY <1>3, <1>4, <1>6 DEF Row, Condition
  <2>3. semOf[w] = s(j)
    <3>1. pc[w] \in DownPlaces /\ cont[w] = "wait_end"
      BY <1>2, <2>2, BlockedInDown DEF Stage
    <3> QED BY <1>3, <3>1 DEF Asks
  <2>4. /\ UNCHANGED <<current, cont, semOf, value>>
        /\ pc' = [pc EXCEPT ![p] = "signal_down"] /\ DOMAIN pc = Proc
        /\ \A q \in User : Blocked(q)' <=> Blocked(q) /\ q # w
    <3>1. ~ \A q \in User : ~ (Blocked(q) /\ semOf[q] = s(j))
      BY <1>2, <2>2, <2>3
    <3>2. \A q \in User : Blocked(q) /\ semOf[q] = s(j) => q = w
      BY <1>3, WaitsOnOwn
    <3> HIDE DEF p, w
    <3>3. /\ UNCHANGED <<current, cont, semOf>>
          /\ pc' = [pc EXCEPT ![p] = "signal_down"] /\ DOMAIN pc = Proc
          /\ \E f \in User :
                  /\ f # p /\ Blocked(f) /\ semOf[f] = s(j) /\ UNCHANGED value
                  /\ \A q \in User : Blocked(q)' <=> Blocked(q) /\ q # f
      BY <1>1, <1>2, <2>1, <3>1, UpEffect
    <3> QED BY <3>2, <3>3
  <2>5. Elsewhere(p) /\ pc'[p] = "signal_down" /\ Stage(p)' = "signal_down"
    BY <1>1, <2>4 DEF Elsewhere, Stage, DownPlaces, SleepPlaces
  <2>6. pc'[w] = pc[w] /\ cont'[w] = cont[w] /\ semOf'[w] = semOf[w] /\ Stage(w)' = Stage(w)
    BY <1>2, <2>5 DEF Elsewhere
  <2>7. Asks(j)'
    BY <1>3, <2>6 DEF Asks
  <2>8. \A q \in User \ {p} : ret'[q] = ret[q]
    BY <2>1
  <2>9. ret'[p] = l /\ DOMAIN ret' = User
    BY <1>1, <2>1 DEF DinnerTyped
  <2>10. Row(j)'
    BY <1>2, <1>3, <2>1, <2>2, <2>4, <2>6, <2>8
    DEF Row, CondvarStages, MealStages, Thinking, Condition, Signalling
  <2>11. \A q \in User : In(q)' => q = w
    BY <1>5, <2>4, <2>5 DEF In, Elsewhere, InsideStages
  <2>12. One'
    BY <1>5, <2>4, <2>11, OneHeld
  <2>13. Counted' /\ nextCount' \in Nat
    BY <1>1, <2>1, <2>5, CountedMore DEF Dinner, DinnerTyped, Signalling
  <2>14. \A k \in Seat \ {j} : Blocked(Who[k])' <=> Blocked(Who[k])
    BY <2>4, Threads
  <2>15. DOMAIN cont' = User
    BY <1>1, <2>4 DEF DinnerTyped
  <2>16. Told(p, j, l)
    BY <2>1, <2>4, <2>5, <2>8, <2>9, <2>12, <2>13, <2>14, <2>15 DEF Told
  <2> QED BY <2>7, <2>10, <2>16
<1>7. CASE ~ cvCount[j] > 0
  <2>1. Goto(p, l) /\ UNCHANGED <<schedVars, semVars, cont, semOf, monVars>>
    BY <1>7 DEF cond_signal
  <2>2. Moved(p, l) /\ pc'[p] = l /\ One' /\ Counted'
    BY <2>1, PassEffect
  <2>3. Stage(w) = "take_while"
    BY <1>3, <1>4, <1>7 DEF Row, Condition
  <2>4. pc'[w] = pc[w] /\ cont'[w] = cont[w] /\ semOf'[w] = semOf[w] /\ Stage(w)' = Stage(w)
    BY <1>2, <2>2 DEF Moved, Elsewhere
  <2>5. Asks(j)'
    BY <1>3, <2>4 DEF Asks
  <2>6. Row(j)'
    BY <1>3, <2>1, <2>2, <2>3, <2>4
    DEF Row, CondvarStages, MealStages, Thinking, Condition, Signalling, Moved, monVars
  <2>7. Told(p, j, l)
    BY <1>1, <2>1, <2>2, Threads DEF Told, Moved, monVars, DinnerTyped, Signalling
  <2> QED BY <2>5, <2>6, <2>7
<1> QED BY <1>6, <1>7

\* The forks that philosopher j looks at, by the states in seated.
MayEat(j, seated) == /\ seated[j] = "hungry"
                     /\ seated[LEFT(j)] # "eating"
                     /\ seated[RIGHT(j)] # "eating"

\* The states after philosopher i has put its forks down.
ForksDown(i) == [phil EXCEPT ![i] = "thinking"]

LEMMA TestOther ==
  ASSUME Inv, Dinner, program # "any", UNCHANGED program, NEW i \in Seat,
         NEW a \in {"put_left", "put_right"}, At(Who[i], a),
         NEW l \in {"put_right", "put_leave"}, NEW j \in Seat, j # i,
         Test(i, j, ForksDown(i), l)
  PROVE  /\ Told(Who[i], j, l) /\ Asks(j)' /\ Row(j)'
         /\ phil' \in [Seat -> {"thinking", "hungry", "eating"}]
         /\ \A k \in Seat \ {j} : phil'[k] = ForksDown(i)[k]
         /\ phil'[j] = IF MayEat(j, ForksDown(i)) THEN "eating" ELSE ForksDown(i)[j]
<1> DEFINE seated == ForksDown(i)
<1>1. /\ seated \in [Seat -> {"thinking", "hungry", "eating"}]
      /\ seated[j] = phil[j] /\ DinnerTyped
  BY DEF Dinner, DinnerTyped, ForksDown
<1> HIDE DEF seated
<1>0. Test(i, j, seated, l)
  BY DEF seated
<1>2. CASE MayEat(j, seated)
  <2>1. /\ phil' = [seated EXCEPT ![j] = "eating"] /\ Call(i, j, l)
        /\ phil[j] = "hungry"
    BY <1>0, <1>1, <1>2 DEF Test, MayEat
  <2>2. phil'[j] = "eating"
    BY <1>1, <2>1
  <2>3. Told(Who[i], j, l) /\ Asks(j)' /\ Row(j)'
    BY <2>1, <2>2, CallOtherSema, CallOtherCondvar DEF Call
  <2> QED BY <1>1, <1>2, <2>1, <2>3 DEF seated
<1>3. CASE ~ MayEat(j, seated)
  <2>1. /\ phil' = seated /\ Goto(Who[i], l)
        /\ UNCHANGED <<schedVars, semVars, cont, semOf, monVars>>
    BY <1>0, <1>3 DEF Test, MayEat, Pass
  <2>2. Moved(Who[i], l) /\ pc'[Who[i]] = l /\ One' /\ Counted'
    BY <2>1, PassEffect
  <2>3. Told(Who[i], j, l)
    BY <1>1, <2>1, <2>2, Threads DEF Told, Moved, monVars, DinnerTyped, Signalling
  <2>4. Calm(j)
    BY <1>1, <2>1, <2>2, Threads DEF Calm, Moved, monVars
  <2>5. Asks(j) /\ Row(j) /\ Elsewhere(Who[i]) /\ Who[j] # Who[i]
    BY <2>2, Threads DEF Dinner, Table, Moved
  <2>6. Asks(j)' /\ Row(j)'
    BY <2>4, <2>5, RowKept
  <2> QED BY <1>1, <1>3, <2>1, <2>3, <2>6 DEF seated
<1> QED BY <1>2, <1>3 DEF seated

\* Putting the forks down, to the left and then to the right.
LEMMA PutKeeps ==
  ASSUME Inv, Dinner, program # "any", UNCHANGED program, NEW i \in Seat,
         NEW a, NEW l, NEW j,
         \/ a = "put_left" /\ l = "put_right" /\ j = LEFT(i)
         \/ a = "put_right" /\ l = "put_leave" /\ j = RIGHT(i),
         At(Who[i], a), Test(i, j, ForksDown(i), l)
  PROVE  Dinner'
<1> DEFINE p == Who[i]
           seated == ForksDown(i)
<1>1. /\ Stage(p) = a /\ current = p /\ p \in User /\ Row(i) /\ DinnerTyped
      /\ a \in {"put_left", "put_right"} /\ l \in {"put_right", "put_leave"}
      /\ j \in Seat /\ j # i
  BY AtStage, Circle DEF DownPlaces, SleepPlaces, Dinner
<1>2. /\ seated \in [Seat -> {"thinking", "hungry", "eating"}] /\ seated[i] = "thinking"
      /\ \A k \in Seat \ {i} : seated[k] = phil[k]
      /\ a = "put_right" => phil[i] = "thinking"
      /\ a = "put_left" => phil[i] = "eating"
  BY <1>1 DEF DinnerTyped, Row, Thinking, ForksDown
<1> HIDE DEF seated
<1>4. /\ Told(p, j, l) /\ Asks(j)' /\ Row(j)'
      /\ phil' \in [Seat -> {"thinking", "hungry", "eating"}]
      /\ \A k \in Seat \ {j} : phil'[k] = seated[k]
      /\ phil'[j] = IF MayEat(j, seated) THEN "eating" ELSE seated[j]
  BY <1>1, TestOther DEF seated
<1>5. DinnerTyped'
  BY <1>1, <1>4 DEF Told, DinnerTyped
<1>6. Asks(i)'
  BY <1>1, <1>4 DEF Told, Asks, DownPlaces, SleepPlaces
<1>7. Row(i)'
  BY <1>1, <1>2, <1>4
  DEF Told, Row, SemaStages, CondvarStages, MealStages, Thinking, Condition, Signalling
<1>8. \A k \in Seat \ {i, j} : Calm(k)
  BY <1>1, <1>2, <1>4, Threads DEF Told, Calm
<1>9. Solo' /\ NoDinner' /\ Table'
  BY <1>1, <1>4, <1>6, <1>7, <1>8, Mover DEF Told
<1>10. \A k \in Seat : k # i => LEFT(k) \in Seat /\ RIGHT(k) \in Seat /\ LEFT(k) # k
                          /\ RIGHT(k) # k /\ LEFT(RIGHT(k)) = k /\ RIGHT(LEFT(k)) = k
  BY Circle
<1>11. /\ LEFT(i) \in Seat /\ RIGHT(i) \in Seat /\ LEFT(RIGHT(i)) = i /\ RIGHT(LEFT(i)) = i
       /\ LEFT(i) # i /\ RIGHT(i) # i
  BY Circle
<1>12. Apart'
  <2>1. \A k \in Seat : seated[k] = "eating" => seated[RIGHT(k)] # "eating"
    BY <1>2, <1>10, <1>11 DEF Dinner, Apart
  <2>2. SUFFICES ASSUME NEW k \in Seat, phil'[k] = "eating", phil'[RIGHT(k)] = "eating"
                 PROVE  FALSE
    BY DEF Apart
  <2>3. k = j \/ RIGHT(k) = j
    BY <1>4, <1>10, <1>11, <2>1, <2>2
  <2>4. CASE k = j
    <3>1. seated[RIGHT(j)] = "eating" /\ RIGHT(j) # j
      BY <1>1, <1>4, <1>10, <2>2, <2>4
    <3> QED BY <1>4, <2>1, <2>2, <2>4, <3>1 DEF MayEat
  <2>5. CASE RIGHT(k) = j
    <3>1. LEFT(j) = k /\ k # j /\ seated[k] = "eating"
      BY <1>1, <1>4, <1>10, <1>11, <2>2, <2>5
    <3> QED BY <1>4, <2>1, <2>2, <2>5, <3>1 DEF MayEat
  <2> QED BY <2>3, <2>4, <2>5
<1>13. ASSUME NEW k \in Seat, k # i PROVE Pending(k) => Pending(k)'
  <2>1. ret'[Who[k]] = ret[Who[k]] /\ Elsewhere(p)
    BY <1>4, <1>13, Threads DEF Told
  <2> QED BY <1>13, <2>1, PendingKept
<1>14. a = "put_left" => Pending(i)'
  BY <1>1, <1>4 DEF Told, Pending, Signalling
<1>15. Reasons'
  <2>1. SUFFICES ASSUME NEW k \in Seat, phil'[k] = "hungry"
                 PROVE  \/ phil'[LEFT(k)] = "eating" \/ phil'[RIGHT(k)] = "eating"
                        \/ Pending(LEFT(k))'
    BY DEF Reasons
  <2>2. k # i
    BY <1>1, <1>2, <1>4, <2>1
  <2>3. \A m \in Seat : seated[m] = "eating" => phil'[m] = "eating"
    BY <1>4 DEF MayEat
  <2>4. CASE k = j
    <3>1. seated[LEFT(j)] = "eating" \/ seated[RIGHT(j)] = "eating"
      BY <1>4, <2>1, <2>4 DEF MayEat
    <3> QED BY <1>10, <2>2, <2>3, <2>4, <3>1
  <2>5. CASE k # j
    <3>1. seated[k] = "hungry" /\ phil[k] = "hungry"
      BY <1>2, <1>4, <2>1, <2>2, <2>5
    <3>2. phil[LEFT(k)] = "eating" \/ phil[RIGHT(k)] = "eating" \/ Pending(LEFT(k))
      BY <3>1 DEF Dinner, Reasons
    <3>3. CASE LEFT(k) = i
      <4>1. k = RIGHT(i)
        BY <1>10, <2>2, <3>3
      <4>2. a = "put_left"
        BY <2>5, <4>1
      <4> QED BY <1>14, <3>3, <4>2
    <3>4. CASE RIGHT(k) = i /\ LEFT(k) # i
      <4>1. k = LEFT(i) /\ LEFT(k) \in Seat
        BY <1>10, <2>2, <3>4
      <4>2. a = "put_right"
        BY <2>5, <4>1
      <4>3. phil[RIGHT(k)] # "eating"
        BY <1>2, <3>4, <4>2
      <4> QED BY <1>2, <1>13, <2>3, <3>2, <3>4, <4>1, <4>3
    <3>5. CASE LEFT(k) # i /\ RIGHT(k) # i
      BY <1>2, <1>10, <1>13, <2>2, <2>3, <3>2, <3>5
    <3> QED BY <3>3, <3>4, <3>5
  <2> QED BY <2>4, <2>5
<1> QED BY <1>4, <1>5, <1>9, <1>12, <1>15 DEF Told, Dinner

LEMMA TakeTestsKeeps ==
  ASSUME Inv, Dinner, program # "any", UNCHANGED program, NEW i \in Seat, TakeTests(i)
  PROVE  Dinner'
<1> DEFINE p == Who[i]
           seated == [phil EXCEPT ![i] = "hungry"]
           l == IF program = "sema" THEN "take_leave" ELSE "take_while"
<1>1. /\ Stage(p) = "take_test" /\ current = p /\ p \in User /\ Row(i) /\ DinnerTyped
      /\ At(p, "take_test")
  BY AtStage DEF DownPlaces, SleepPlaces, Dinner, TakeTests
<1>2. /\ seated \in [Seat -> {"thinking", "hungry", "eating"}] /\ seated[i] = "hungry"
      /\ \A k \in Seat \ {i} : seated[k] = phil[k]
      /\ phil[i] = "thinking" /\ value[s(i)] = 0 /\ cvCount[i] = 0
  BY <1>1 DEF DinnerTyped, Row, Thinking, Condition
<1>3. Test(i, i, seated, l)
  BY DEF TakeTests
<1>4. l \in {"take_leave", "take_while"} /\ (l = "take_leave" <=> program = "sema")
  OBVIOUS
<1> HIDE DEF seated
<1>5. /\ UNCHANGED <<current, monVars>> /\ DOMAIN cont' = User
      /\ Elsewhere(p) /\ One' /\ Counted' /\ pc'[p] = l /\ Stage(p)' = l
      /\ \A q \in User : Blocked(q)' <=> Blocked(q)
      /\ \A k \in Seat \ {i} : value'[s(k)] = value[s(k)]
      /\ phil' \in [Seat -> {"thinking", "hungry", "eating"}]
      /\ \A k \in Seat \ {i} : phil'[k] = phil[k]
      /\ phil'[i] = IF MayEat(i, seated) THEN "eating" ELSE "hungry"
      /\ value'[s(i)] = IF program = "sema" /\ MayEat(i, seated) THEN 1 ELSE 0
  <2>1. CASE MayEat(i, seated)
    <3>1. phil' = [seated EXCEPT ![i] = "eating"] /\ Call(i, i, l)
      BY <1>3, <2>1 DEF Test, MayEat
    <3>2. /\ UNCHANGED <<current, monVars>> /\ DOMAIN cont' = User
          /\ Elsewhere(p) /\ One' /\ Counted' /\ pc'[p] = l /\ Stage(p)' = l
          /\ \A q \in User : Blocked(q)' <=> Blocked(q)
          /\ \A k \in Seat \ {i} : value'[s(k)] = value[s(k)]
          /\ value'[s(i)] = IF program = "sema" THEN 1 ELSE 0
      BY <1>1, <3>1, CallSelf
    <3> QED BY <1>2, <2>1, <3>1, <3>2
  <2>2. CASE ~ MayEat(i, seated)
    <3>1. /\ phil' = seated /\ Goto(p, l)
          /\ UNCHANGED <<schedVars, semVars, cont, semOf, monVars>>
      BY <1>3, <2>2 DEF Test, MayEat, Pass
    <3>2. Moved(p, l) /\ pc'[p] = l /\ One' /\ Counted'
      BY <1>1, <1>4, <3>1, PassEffect
    <3> QED BY <1>2, <2>2, <3>1, <3>2 DEF Moved
  <2> QED BY <2>1, <2>2
<1> HIDE DEF l
<1>6. UNCHANGED <<cvCount, nextCount, cvp, ret>>
  BY <1>5 DEF monVars
<1>7. DinnerTyped'
  BY <1>1, <1>5, <1>6 DEF DinnerTyped
<1>8. Asks(i)'
  BY <1>4, <1>5 DEF Asks, DownPlaces, SleepPlaces
<1>9. Row(i)'
  BY <1>2, <1>4, <1>5, <1>6
  DEF Row, SemaStages, CondvarStages, MealStages, Thinking, Condition, Signalling
<1>10. \A k \in Seat \ {i} : Calm(k)
  BY <1>5, <1>6, Threads DEF Calm
<1>11. Solo' /\ NoDinner' /\ Table'
  BY <1>1, <1>5, <1>8, <1>9, <1>10, Mover
<1>12. \A k \in Seat : /\ LEFT(k) \in Seat /\ RIGHT(k) \in Seat /\ LEFT(RIGHT(k)) = k
                       /\ LEFT(k) # k /\ RIGHT(k) # k
  BY Circle
<1>13. Apart'
  <2>1. phil'[i] = "eating" =>
           phil[LEFT(i)] # "eating" /\ phil[RIGHT(i)] # "eating"
    BY <1>2, <1>5, <1>12 DEF MayEat
  <2> QED BY <1>5, <1>12, <2>1 DEF Dinner, Apart
<1>14. ASSUME NEW k \in Seat, Pending(k) PROVE Pending(k)'
  <2>1. k # i
    BY <1>1, <1>14 DEF Pending, Signalling
  <2> QED BY <1>5, <1>6, <1>14, <2>1, PendingKept
<1>15. Reasons'
  <2>1. SUFFICES ASSUME NEW k \in Seat, phil'[k] = "hungry"
                 PROVE  \/ phil'[LEFT(k)] = "eating" \/ phil'[RIGHT(k)] = "eating"
                        \/ Pending(LEFT(k))'
    BY DEF Reasons
  <2>2. CASE k = i
    BY <1>2, <1>5, <1>12, <2>1, <2>2 DEF MayEat
  <2>3. CASE k # i
    <3>1. phil[LEFT(k)] = "eating" \/ phil[RIGHT(k)] = "eating" \/ Pending(LEFT(k))
      BY <1>5, <2>1, <2>3 DEF Dinner, Reasons
    <3> QED BY <1>2, <1>5, <1>12, <1>14, <3>1
  <2> QED BY <2>2, <2>3
<1> QED BY <1>5, <1>7, <1>11, <1>13, <1>15 DEF Dinner

LEMMA PutsKeep ==
  ASSUME Inv, Dinner, program # "any", UNCHANGED program, NEW i \in Seat,
         PutLeft(i) \/ PutRight(i)
  PROVE  Dinner'
<1>1. CASE PutLeft(i)
  <2>1. At(Who[i], "put_left") /\ Test(i, LEFT(i), ForksDown(i), "put_right")
    BY <1>1 DEF PutLeft, ForksDown
  <2> QED BY <2>1, PutKeeps
<1>2. CASE PutRight(i)
  <2>1. At(Who[i], "put_right") /\ Test(i, RIGHT(i), phil, "put_leave")
    BY <1>2 DEF PutRight
  <2>2. phil[i] = "thinking" /\ DinnerTyped
    BY <2>1, AtStage DEF DownPlaces, SleepPlaces, Row, Thinking, Dinner
  <2>3. ForksDown(i) = phil
    BY <2>2 DEF ForksDown, DinnerTyped
  <2> QED BY <2>1, <2>3, PutKeeps
<1> QED BY <1>1, <1>2

LEMMA PhilosopherKeeps ==
  ASSUME Inv, Dinner, program # "any", UNCHANGED program, NEW i \in Seat, Philosopher(i)
  PROVE  Dinner'
<1>1. CASE TakeEnters(i) \/ PutEnters(i)
  BY <1>1, EntersKeeps DEF TakeEnters, PutEnters
<1>2. CASE MonitorStep(Who[i]) /\ UNCHANGED dinnerVars
  BY <1>2, SignalDownKeeps, SignalEndKeeps, WaitDownKeeps, WaitEndKeeps DEF MonitorStep
<1> QED
  BY <1>1, <1>2, LoopKeeps, TakeTestsKeeps, TakeWaitsKeeps, LeavingKeeps,
     WaitsInsideKeeps, EatKeeps, PutsKeep
  DEF Philosopher

-----------------------------------------------------------------------------
(* The steps of the kernel, which no stage shows.                           *)

Still ==
    \A p \in User :
        /\ Stage(p)' = Stage(p) /\ (Blocked(p)' <=> Blocked(p))
        /\ pc[p] = "loop" => pc'[p] = "loop"
        /\ pc'[p] \in DownPlaces =>
              pc[p] \in DownPlaces /\ cont'[p] = cont[p] /\ semOf'[p] = semOf[p]
        /\ pc'[p] \in SleepPlaces => pc[p] \in SleepPlaces /\ cont'[p] = cont[p]

LEMMA StillKeeps ==
  ASSUME Dinner, UNCHANGED <<program, phil, monVars, value>>, DOMAIN cont' = User,
         Still, Solo'
  PROVE  Dinner'
<1>1. UNCHANGED <<cvCount, nextCount, cvp, ret>>
  BY DEF monVars
<1>2. DinnerTyped'
  BY <1>1 DEF Dinner, DinnerTyped
<1>3. NoDinner'
  BY <1>1 DEF Dinner, NoDinner, Still
<1>4. ASSUME NEW i \in Seat, Asks(i), Row(i) PROVE Asks(i)' /\ Row(i)'
  <2> DEFINE w == Who[i]
  <2>1. /\ Stage(w)' = Stage(w) /\ (Blocked(w)' <=> Blocked(w))
        /\ pc'[w] \in DownPlaces =>
              pc[w] \in DownPlaces /\ cont'[w] = cont[w] /\ semOf'[w] = semOf[w]
        /\ pc'[w] \in SleepPlaces => pc[w] \in SleepPlaces /\ cont'[w] = cont[w]
    BY Threads DEF Still
  <2>2. Asks(i)'
    BY <1>4, <2>1 DEF Asks
  <2>3. Row(i)'
    BY <1>1, <1>4, <2>1 DEF Row
  <2> QED BY <2>2, <2>3
<1>5. Table'
  BY <1>4 DEF Dinner, Table
<1>6. \A p \in User : In(p)' <=> In(p)
  BY DEF In, Still
<1>7. One'
  BY <1>1, <1>6 DEF Dinner, One
<1>8. Signallers' = Signallers
  BY DEF Signallers, Still
<1>9. Counted'
  BY <1>1, <1>8 DEF Dinner, Counted
<1>10. \A k \in Seat : Pending(k)' <=> Pending(k)
  BY <1>1, Threads DEF Pending, Still
<1>11. Apart'
  BY DEF Dinner, Apart
<1>12. Reasons'
  BY <1>10, Circle DEF Dinner, Reasons
<1> QED BY <1>2, <1>3, <1>5, <1>7, <1>9, <1>11, <1>12 DEF Dinner

\* What the threads of every program go on at after down and do_sleep.
LEMMA GoesOn ==
  ASSUME Dinner, NEW p \in User, pc[p] \in DownPlaces \cup SleepPlaces
  PROVE  cont[p] \notin DownPlaces \cup SleepPlaces /\ Stage(p) = cont[p]
<1>1. Stage(p) = cont[p]
  BY DEF Stage
<1>2. CASE program = "any"
  BY <1>1, <1>2 DEF Dinner, NoDinner, DownPlaces, SleepPlaces
<1>3. CASE program # "any"
  <2>1. PICK i \in Seat : p = Who[i]
    BY <1>3 DEF Dinner, NoDinner, DownPlaces, SleepPlaces
  <2> QED BY <1>1, <1>3, <2>1 DEF Dinner, Table, Asks, DownPlaces, SleepPlaces
<1> QED BY <1>1, <1>2, <1>3

\* Back from down or do_sleep: the thread is where its stage says.
LEMMA ReturnsKeep ==
  ASSUME Inv, Dinner, UNCHANGED <<program, phil, monVars>>, NEW p \in User,
         DownWoken(p) \/ SleepEnds(p)
  PROVE  Dinner'
<1>1. /\ current = p /\ p \in Proc /\ pc[p] \in {"down_woken", "sleep_woken"}
      /\ DOMAIN pc = Proc /\ DOMAIN cont = User /\ DOMAIN semOf = User
  BY DEF DownWoken, SleepEnds, At, Proc, Inv, Typed, Dinner, DinnerTyped
<1>2. /\ UNCHANGED <<current, waitState, value>>
      /\ pc' = [pc EXCEPT ![p] = cont[p]] /\ cont' = [cont EXCEPT ![p] = NoLabel]
      /\ semOf' = semOf \/ semOf' = [semOf EXCEPT ![p] = NoSem]
  BY DEF DownWoken, SleepEnds, EndSleep, Goto, semVars
<1>3. cont[p] \notin DownPlaces \cup SleepPlaces /\ Stage(p) = cont[p]
  BY <1>1, GoesOn DEF DownPlaces, SleepPlaces
<1>4. /\ pc'[p] = cont[p] /\ DOMAIN cont' = User
      /\ \A q \in User \ {p} : pc'[q] = pc[q] /\ cont'[q] = cont[q] /\ semOf'[q] = semOf[q]
  BY <1>1, <1>2
<1>5. Still
  BY <1>1, <1>2, <1>3, <1>4 DEF Still, Stage, Blocked
<1>6. Solo'
  BY <1>1, <1>2, <1>4 DEF Dinner, Solo
<1> QED BY <1>2, <1>4, <1>5, <1>6, StillKeeps

\* Steps of initproc and idleproc.
LEMMA OthersKeep ==
  ASSUME Inv, Dinner, UNCHANGED <<program, phil, monVars>>,
         \/ \E p \in User : Reap(p)
         \/ ReapSleeps \/ ReapDone \/ Idle
  PROVE  Dinner'
<1>1. /\ UNCHANGED <<current, value, cont, semOf>>
      /\ \A q \in User : pc'[q] = pc[q] /\ (Blocked(q)' <=> Blocked(q))
      /\ DOMAIN cont' = User
  <2>1. initproc \notin User /\ idleproc \notin User
    BY ProcAssumption
  <2> QED
    BY <2>1
    DEF Reap, ReapSleeps, ReapDone, Idle, Goto, Blocked, semVars, threadVars, schedVars,
        Inv, Typed, SchedTypeOK, Proc, Dinner, DinnerTyped
<1>2. Still
  BY <1>1 DEF Still, Stage
<1>3. Solo'
  BY <1>1 DEF Dinner, Solo
<1> QED BY <1>1, <1>2, <1>3, StillKeeps

LEMMA SwitchesKeep ==
  ASSUME Inv, Dinner, UNCHANGED <<program, phil, monVars>>,
         NEW p \in Proc, NEW q \in Proc, Switch(p, q)
  PROVE  Dinner'
<1>1. /\ current = p /\ current' = q /\ UNCHANGED <<value, cont, semOf, waitState>>
      /\ DOMAIN cont' = User /\ DOMAIN pc = Proc
      /\ pc' = [pc EXCEPT ![p] = KResume[pc[p]]] /\ pc[p] \in DOMAIN KResume
  BY DEF Switch, Schedule, Goto, semVars, Inv, Typed, Dinner, DinnerTyped
<1>2. \/ pc[p] = "down_sched" /\ pc'[p] = "down_woken"
      \/ pc[p] = "sleep_sched" /\ pc'[p] = "sleep_woken"
      \/ pc[p] = "quit_sched" /\ pc'[p] = "quit_sched"
      \/ pc[p] = "idle_sched" /\ pc'[p] = "idle"
      \/ pc[p] = "reap_sched" /\ pc'[p] = "reap"
  BY <1>1 DEF KResume
<1>3. \A r \in Proc \ {p} : pc'[r] = pc[r]
  BY <1>1
<1>4. p \in User => pc[p] \notin {"idle_sched", "reap_sched"}
  <2>1. SUFFICES ASSUME p \in User, pc[p] \in {"idle_sched", "reap_sched"} PROVE FALSE
    OBVIOUS
  <2>2. Stage(p) = pc[p]
    BY <2>1 DEF Stage, DownPlaces, SleepPlaces
  <2>3. CASE program = "any"
    BY <2>1, <2>2, <2>3 DEF Dinner, NoDinner
  <2>4. CASE program # "any"
    <3>1. PICK i \in Seat : p = Who[i]
      BY <2>1, <2>4 DEF Dinner, NoDinner
    <3> QED
      BY <2>1, <2>2, <2>4, <3>1
      DEF Dinner, Table, Row, SemaStages, CondvarStages, MealStages, Condition, Signalling
  <2> QED BY <2>3, <2>4
<1>5. Still
  BY <1>1, <1>2, <1>3, <1>4 DEF Still, Stage, Blocked, DownPlaces, SleepPlaces, Proc
<1>6. Solo'
  BY <1>1, <1>2, <1>3, <1>4 DEF Dinner, Solo, Proc
<1> QED BY <1>1, <1>5, <1>6, StillKeeps

LEMMA TicksKeep ==
  ASSUME Inv, Dinner, UNCHANGED <<program, phil, monVars>>,
         NEW E \in SUBSET timers, Tick(E)
  PROVE  Dinner'
<1>1. /\ UNCHANGED <<current, value, pc, cont, semOf>> /\ DOMAIN cont' = User
      /\ waitState' = WaitAfterWakeup(E)
  BY DEF Tick, ClockTick, semVars, threadVars, Dinner, DinnerTyped
<1>2. ASSUME NEW r \in User PROVE Blocked(r)' <=> Blocked(r)
  <2>1. r \in E => ~ Blocked(r)
    BY BlockedInDown DEF Inv, Placed, DownPlaces, SleepPlaces
  <2> QED BY <1>1, <2>1 DEF Blocked, WaitAfterWakeup, NotRunnable, Proc
<1>3. Still
  BY <1>1, <1>2 DEF Still, Stage
<1>4. Solo'
  BY <1>1 DEF Dinner, Solo
<1> QED BY <1>1, <1>3, <1>4, StillKeeps

LEMMA KernelKeeps ==
  ASSUME Inv, Dinner, UNCHANGED <<program, phil, monVars>>, KernelNext
  PROVE  Dinner'
  BY ReturnsKeep, OthersKeep, SwitchesKeep, TicksKeep DEF KernelNext

-----------------------------------------------------------------------------
(* The program that is no dinner, and the initial state.                    *)

LEMMA AnyKeeps ==
  ASSUME Inv, Dinner, UNCHANGED program, NEW p \in User, AnyCall(p)
  PROVE  Dinner'
<1>1. /\ program = "any" /\ Free(p) /\ current = p /\ Stage(p) = "loop"
      /\ UNCHANGED <<phil, monVars>> /\ DinnerTyped
  BY DEF AnyCall, At, Free, Stage, DownPlaces, SleepPlaces, dinnerVars, Dinner
<1>2. "loop" \notin DownPlaces \cup SleepPlaces /\ mutex \in Sem /\ next \in Sem
  BY SemsApart DEF DownPlaces, SleepPlaces
<1>3. /\ UNCHANGED current /\ Elsewhere(p) /\ DOMAIN cont' = User
      /\ Stage(p)' \in {"loop", "quit_sched"}
  <2>1. ASSUME NEW x \in {mutex, next}, Down(p, x, "loop") PROVE <1>3!:
    BY <1>1, <1>2, <2>1, DownEffect
  <2>2. ASSUME NEW x \in {mutex, next}, TryDown(p, x) PROVE <1>3!:
    BY <1>1, <2>2 DEF TryDown, schedVars, threadVars, Elsewhere, Stage, DinnerTyped
  <2>3. ASSUME NEW x \in {mutex, next}, Up(p, x, "loop") PROVE <1>3!:
    <3>1. /\ UNCHANGED <<current, cont, semOf>> /\ pc' = [pc EXCEPT ![p] = "loop"]
          /\ DOMAIN pc = Proc /\ p \in Proc
      BY <1>1, <1>2, <2>3, UpEffect DEF Proc
    <3> QED BY <1>1, <1>2, <3>1 DEF Elsewhere, Stage, DinnerTyped
  <2>4. CASE Sleep(p, "loop")
    BY <1>1, <2>4, SleepEffect DEF Moved
  <2>5. CASE Quit(p)
    BY <1>1, <2>5, QuitEffect DEF Moved
  <2> QED BY <2>1, <2>2, <2>3, <2>4, <2>5 DEF AnyCall
<1>4. UNCHANGED <<cvCount, nextCount, cvp, ret>>
  BY <1>1 DEF monVars
<1>5. DinnerTyped'
  BY <1>1, <1>3, <1>4 DEF DinnerTyped
<1>6. Solo'
  BY <1>1, <1>3 DEF Dinner, Solo, Elsewhere
<1>7. NoDinner'
  BY <1>1, <1>3, <1>4 DEF Dinner, NoDinner, Elsewhere
<1>8. Table' /\ One' /\ Reasons'
  BY <1>1 DEF Table, One, Reasons
<1>9. Counted'
  BY <1>1, <1>3, <1>4, CountedKept DEF Dinner, Signalling
<1>10. Apart'
  BY <1>1 DEF Dinner, Apart
<1> QED BY <1>5, <1>6, <1>7, <1>8, <1>9, <1>10 DEF Dinner

\* No philosopher takes part in it.
LEMMA AnyHasNone ==
  ASSUME Dinner, program = "any", NEW i \in Seat, Philosopher(i)
  PROVE  FALSE
<1>1. Stage(Who[i]) \in {"loop", "quit_sched"}
  BY Threads DEF Dinner, NoDinner
<1> QED
  BY <1>1
  DEF Philosopher, Loop, TakeEnters, TakeTests, TakeLeaves, TakeWaits, WaitsInside,
      LeavesToEat, Eat, PutEnters, PutLeft, PutRight, PutLeaves, MonitorStep,
      SignalDown, SignalEnd, WaitDown, WaitEnd, At, Stage, DownPlaces, SleepPlaces

LEMMA InitDinner == Init => Dinner
<1> SUFFICES ASSUME Init PROVE Dinner
  OBVIOUS
<1>1. /\ program \in Program /\ phil = [i \in Seat |-> "thinking"]
      /\ cvCount = [c \in Cv |-> 0] /\ nextCount = 0
      /\ DOMAIN ret = User /\ DOMAIN cont = User /\ current = idleproc
      /\ value = InitialValue(program)
      /\ \A p \in User : pc[p] = "loop" /\ waitState[p] = "none"
  BY ProcAssumption DEF Init, ThreadInit, monitor_init, Proc
<1>2. \A p \in User : Stage(p) = "loop" /\ ~ Blocked(p) /\ ~ In(p)
  BY <1>1 DEF Stage, Blocked, In, InsideStages, DownPlaces, SleepPlaces
<1>3. DinnerTyped /\ Solo /\ NoDinner
  BY <1>1, <1>2 DEF DinnerTyped, Solo, NoDinner
<1>4. program # "any" => value[mutex] = 1 /\ value[next] = 0
                            /\ \A i \in Seat : value[s(i)] = 0
  BY <1>1, SemsApart DEF InitialValue
<1>5. ASSUME program # "any", NEW i \in Seat PROVE Asks(i) /\ Row(i)
  <2>1. pc[Who[i]] = "loop" /\ Stage(Who[i]) = "loop" /\ i \in Cv
    BY <1>1, <1>2, Threads, SemsAreSems
  <2> QED
    BY <1>1, <1>4, <1>5, <2>1
    DEF Asks, Row, DownPlaces, SleepPlaces, SemaStages, CondvarStages, MealStages,
        Thinking, Condition, Signalling
<1>6. Table /\ One
  BY <1>1, <1>2, <1>4, <1>5 DEF Table, One
<1>7. Signallers = {}
  BY <1>2 DEF Signallers, Signalling
<1>8. Counted
  BY <1>1, <1>7, FS_EmptySet DEF Counted
<1>9. Apart /\ Reasons
  BY <1>1 DEF Apart, Reasons
<1> QED BY <1>3, <1>6, <1>8, <1>9 DEF Dinner

LEMMA NextDinner == Inv /\ Dinner /\ [Next]_vars => Dinner'
<1> SUFFICES ASSUME Inv, Dinner, [Next]_vars PROVE Dinner'
  OBVIOUS
<1>1. CASE KernelNext /\ UNCHANGED <<monVars, dinnerVars, program>>
  BY <1>1, KernelKeeps DEF dinnerVars
<1>2. CASE (\E i \in Seat : Philosopher(i)) /\ UNCHANGED program
  BY <1>2, PhilosopherKeeps, AnyHasNone
<1>3. CASE (\E p \in User : AnyCall(p)) /\ UNCHANGED program
  BY <1>3, AnyKeeps
<1>4. CASE UNCHANGED vars
  <2>1. /\ UNCHANGED <<program, phil, monVars, value, current, pc, cont, semOf, waitState>>
    BY <1>4 DEF vars, clientVars, allVars, schedVars, semVars, threadVars
  <2>2. Still /\ Solo' /\ DOMAIN cont' = User
    BY <2>1 DEF Still, Stage, Blocked, Dinner, Solo, DinnerTyped
  <2> QED BY <2>1, <2>2, StillKeeps
<1> QED BY <1>1, <1>2, <1>3, <1>4 DEF Next

LEMMA DinnerHolds == Spec => [](Inv /\ Dinner)
<1>1. Init => Inv /\ Dinner
  BY InitInv, InitDinner
<1>2. Inv /\ Dinner /\ [Next]_vars => (Inv /\ Dinner)'
  BY NextInv, NextDinner
<1> QED BY <1>1, <1>2, PTL DEF Spec

-----------------------------------------------------------------------------
(* What follows from the table.                                             *)

\* The properties ask for Dest, the table for Stage: they differ in do_sleep.
LEMMA DestStage ==
  ASSUME Inv, Dinner, NEW p \in User
  PROVE  \/ Dest(p) = Stage(p) /\ pc[p] \notin SleepPlaces
         \/ /\ Dest(p) \in SleepPlaces /\ pc[p] \in SleepPlaces
            /\ Stage(p) \in {"loop", "quit_sched", "take", "put"}
<1>1. pc[p] \notin SleepPlaces => Dest(p) = Stage(p)
  BY DEF Dest, Stage, DownPlaces, SleepPlaces
<1>2. ASSUME pc[p] \in SleepPlaces
      PROVE  Dest(p) \in SleepPlaces /\ Stage(p) \in {"loop", "quit_sched", "take", "put"}
  <2>1. Dest(p) \in SleepPlaces /\ Stage(p) = cont[p]
    BY <1>2 DEF Dest, Stage, SleepPlaces
  <2>2. CASE program = "any"
    BY <2>1, <2>2 DEF Dinner, NoDinner
  <2>3. CASE program # "any"
    <3>1. PICK i \in Seat : p = Who[i]
      BY <1>2, <2>3 DEF Dinner, NoDinner, SleepPlaces
    <3> QED BY <1>2, <2>1, <2>3, <3>1 DEF Dinner, Table, Asks
  <2> QED BY <2>1, <2>2, <2>3
<1> QED BY <1>1, <1>2

LEMMA InsideIsIn ==
  ASSUME Inv, Dinner, program # "any", NEW p \in User, Inside(p)
  PROVE  In(p)
<1>1. Stage(p) \in InsideStages
  BY DestStage DEF Inside, InsideStages, SleepPlaces
<1>2. SUFFICES ASSUME Blocked(p) PROVE FALSE
  BY <1>1 DEF In
<1>3. semOf[p] \in Sem
  BY <1>2, WhoWaits, SemsApart
<1>4. InQueue(p, semOf[p])
  BY <1>2, <1>3, BlockedInDown
<1> QED BY <1>3, <1>4 DEF Inside, InQueue

\* One thread at most may go on inside the monitor of kern/sync/monitor.c, or
\* inside the critical section that mutex makes in check_sync.c, and mutex is
\* open only when none may and none waits to be let in again by next.
THEOREM OneThreadInside == Spec => []OneInMonitor
<1>1. Inv /\ Dinner => OneInMonitor
  BY InsideIsIn DEF OneInMonitor, Dinner, One
<1> QED BY <1>1, DinnerHolds, PTL

LEMMA EatingIsMarked ==
  ASSUME Inv, Dinner, NEW i \in Seat, Eating(i)
  PROVE  program # "any" /\ phil[i] = "eating"
<1> DEFINE w == Who[i]
<1>1. \/ Stage(w) \in {"put", "put_left"}
      \/ Stage(w) = "eat" /\ pc[w] \notin DownPlaces
  BY DEF Eating, Stage, DownPlaces, SleepPlaces
<1>2. program # "any"
  BY <1>1, Threads DEF Dinner, NoDinner
<1>3. Row(i)
  BY <1>2 DEF Dinner, Table
<1>4. pc[w] \notin DownPlaces => ~ Blocked(w)
  BY Threads, BlockedInDown
<1> QED BY <1>1, <1>2, <1>3, <1>4 DEF Row

\* No two neighbours are at their plates at the same time, whatever the test of
\* phi_test_sema and phi_test_condvar finds in the states of the others.
THEOREM NeighboursNeverEat == Spec => []NeighboursExclude
<1>1. Inv /\ Dinner => NeighboursExclude
  BY EatingIsMarked, Circle DEF NeighboursExclude, Dinner, Apart
<1> QED BY <1>1, DinnerHolds, PTL

\* A philosopher that cond_signal has woken in cond_wait has its forks: nothing
\* between the signal and the wakeup takes them away.
THEOREM SignalledEats == Spec => []SignalledIsSeated
<1>1. ASSUME Inv, Dinner, NEW i \in Seat, Dest(Who[i]) = "wait_end",
             \A k \in DOMAIN waiters[cvSem(i)] : waiters[cvSem(i)][k] # Who[i]
      PROVE  phil[i] = "eating"
  <2> DEFINE w == Who[i]
  <2>1. w \in User /\ Stage(w) = "wait_end"
    BY <1>1, Threads, DestStage DEF SleepPlaces
  <2>2. program # "any"
    BY <1>1, <2>1 DEF Dinner, NoDinner
  <2>3. ~ Blocked(w)
    <3>1. SUFFICES ASSUME Blocked(w) PROVE FALSE
      OBVIOUS
    <3>2. semOf[w] = s(i) /\ s(i) \in Sem /\ s(i) = cvSem(i)
      <4>1. PICK k \in Seat : w = Who[k] /\ semOf[w] = s(k)
        BY <1>1, <2>1, <2>2, <3>1, WhoWaits
      <4> QED BY <1>1, <4>1, Threads, SemsApart
    <3>3. InQueue(w, cvSem(i))
      BY <1>1, <2>1, <3>1, <3>2, BlockedInDown
    <3> QED BY <1>1, <3>3 DEF InQueue
  <2>4. Row(i)
    BY <1>1, <2>2 DEF Dinner, Table
  <2> QED BY <2>1, <2>3, <2>4 DEF Row
<1>2. Inv /\ Dinner => SignalledIsSeated
  BY <1>1 DEF SignalledIsSeated
<1> QED BY <1>2, DinnerHolds, PTL

\* count of a condition variable and next_count are the numbers of threads that
\* are in cond_wait for it and in cond_signal, at every moment.
THEOREM CountsAreRight == Spec => []CountsAgree
<1>1. ASSUME Inv, Dinner, NEW c \in Cv
      PROVE  cvCount[c] = Cardinality({p \in User :
                Dest(p) \in {"wait_down", "wait_end"} /\ cvp[p] = c})
  <2> DEFINE S == {p \in User : Dest(p) \in {"wait_down", "wait_end"} /\ cvp[p] = c}
  <2>1. S = {p \in User : Stage(p) \in Condition /\ cvp[p] = c}
    BY <1>1, DestStage DEF Condition, SleepPlaces
  <2> HIDE DEF S
  <2>2. c \in Seat /\ Who[c] \in User
    BY SemsAreSems, Threads
  <2>3. CASE program = "any"
    <3>1. S = {}
      BY <1>1, <2>1, <2>3 DEF Dinner, NoDinner, Condition
    <3> QED BY <1>1, <2>3, <3>1, FS_EmptySet DEF S, Dinner, NoDinner
  <2>4. CASE program # "any"
    <3>1. ASSUME NEW p \in User, Stage(p) \in Condition PROVE p = Who[cvp[p]] /\ cvp[p] \in Seat
      <4>1. PICK k \in Seat : p = Who[k]
        BY <1>1, <2>4, <3>1
        DEF Dinner, NoDinner, Stage, Condition, DownPlaces, SleepPlaces
      <4> QED BY <1>1, <2>4, <3>1, <4>1 DEF Dinner, Table, Row
    <3>2. Row(c)
      BY <1>1, <2>2, <2>4 DEF Dinner, Table
    <3>3. CASE Stage(Who[c]) \in Condition
      <4>1. S = {Who[c]}
        BY <2>1, <2>2, <3>1, <3>2, <3>3 DEF Row
      <4> QED BY <3>2, <3>3, <4>1, FS_Singleton DEF S, Row
    <3>4. CASE Stage(Who[c]) \notin Condition
      <4>1. S = {}
        BY <2>1, <3>1, <3>4
      <4> QED BY <3>2, <3>4, <4>1, FS_EmptySet DEF S, Row
    <3> QED BY <3>3, <3>4
  <2> QED BY <2>3, <2>4 DEF S
<1>2. ASSUME Inv, Dinner
      PROVE  nextCount =
                Cardinality({p \in User : Dest(p) \in {"signal_down", "signal_end"}})
  <2>1. Signallers = {p \in User : Dest(p) \in {"signal_down", "signal_end"}}
    BY <1>2, DestStage DEF Signallers, Signalling, SleepPlaces
  <2> QED BY <1>2, <2>1 DEF Dinner, Counted
<1>3. Inv /\ Dinner => CountsAgree
  BY <1>1, <1>2 DEF CountsAgree
<1> QED BY <1>3, DinnerHolds, PTL

\* Whenever mutex is free, a hungry philosopher has a neighbour that eats and
\* will test it: no test of put_forks is missed.
THEOREM HungryHaveReason == Spec => []HungryForAReason
<1>1. ASSUME Inv, Dinner, program # "any", value[mutex] = 1, NEW k \in Seat
      PROVE  ~ Pending(k)
  <2> DEFINE w == Who[k]
  <2>1. w \in User /\ nextCount = 0 /\ ~ In(w)
    BY <1>1, Threads DEF Dinner, One
  <2>2. Stage(w) \notin Signalling
    <3>1. Signallers = {}
      BY <1>1, <2>1, FS_EmptySet DEF Dinner, Counted
    <3> QED BY <2>1, <3>1 DEF Signallers
  <2>3. Stage(w) # "put_right"
    <3>1. SUFFICES ASSUME Stage(w) = "put_right" PROVE FALSE
      OBVIOUS
    <3>2. Blocked(w)
      BY <2>1, <3>1 DEF In, InsideStages
    <3> QED BY <1>1, <2>1, <3>1, <3>2, WhoWaits
  <2> QED BY <2>2, <2>3 DEF Pending
<1>2. Inv /\ Dinner => HungryForAReason
  BY <1>1, Circle DEF HungryForAReason, Dinner, Reasons
<1> QED BY <1>2, DinnerHolds, PTL

=============================================================================
