---------------------------- MODULE ProcessProofs ----------------------------
(***************************************************************************)
(* Type correctness, the inductive invariant of Process and what follows    *)
(* from it, for every set of users, every MaxProcess and every Killable.    *)
(*                                                                          *)
(* StepKinds sorts the actions of Process by what they do to the state; one *)
(* lemma for each part of the invariant then goes through these kinds.      *)
(***************************************************************************)
EXTENDS Process, FiniteSetTheorems, TLAPS

\* The results of wakeup_proc are well typed.
LEMMA WakeupType ==
  ASSUME SchedTypeOK, NEW W \in SUBSET Proc
  PROVE  /\ StateAfterWakeup(W) \in [Proc -> ProcState]
         /\ WaitAfterWakeup(W) \in [Proc -> WaitState]
         /\ QueueAfterWakeup(W) \subseteq Proc \ {idleproc}
  BY DEF SchedTypeOK, StateAfterWakeup, WaitAfterWakeup, QueueAfterWakeup,
         NotRunnable, ProcState, WaitState

\* So are those of schedule.
LEMMA ScheduleType ==
  ASSUME SchedTypeOK, NEW q \in Proc, Schedule(q)
  PROVE  SchedTypeOK'
  BY DEF SchedTypeOK, Schedule, Requeued

(* Type correctness: every step leaves every variable in its range, and     *)
(* idleproc is never put on the run queue.                                  *)
LEMMA InitTypeOK == Init => TypeOK
  BY ProcAssumption, AnyChildAssumption
  DEF Init, TypeOK, SchedTypeOK, Proc, ProcState, WaitState, Interruptible,
      Place, UserPlace, InitPlace, IdlePlace

\* Every place a switch resumes at is a place.
LEMMA PlaceType ==
  /\ Place = {"user", "trap_ret", "wait", "wait_sched", "wait_woken",
              "sleep_sched", "sleep_woken", "preempt", "exit_sched",
              "init_start", "init_done", "loop_sched", "idle", "idle_sched"}
  /\ \A l \in DOMAIN Resume : Resume[l] \in Place
  BY DEF Resume, Place, UserPlace, InitPlace, IdlePlace

\* do_fork keeps the types.
LEMMA DoForkType ==
  ASSUME TypeOK, NEW p \in User \cup {initproc}, NEW c \in User, NEW l \in Place,
         current = p, DoFork(p, c, l)
  PROVE  TypeOK'
<1>1. {c} \in SUBSET Proc /\ p \in Proc /\ c \in Proc
  BY DEF Proc
<1>2. pc' \in [Proc -> Place] /\ parent' \in [Proc -> Proc]
  BY <1>1, PlaceType DEF DoFork, TypeOK
<1>3. SchedTypeOK'
  BY <1>1, WakeupType DEF DoFork, TypeOK, SchedTypeOK, Asserted
<1> QED
  BY <1>1, <1>2, <1>3 DEF DoFork, TypeOK

\* do_exit keeps the types.
LEMMA DoExitType ==
  ASSUME TypeOK, NEW p \in Proc, DoExit(p)
  PROVE  TypeOK'
<1>1. WokenByExit(p) \in SUBSET Proc
  BY DEF WokenByExit
<1>2. ParentAfterExit(p) \in [Proc -> Proc]
  BY DEF ParentAfterExit, TypeOK, Proc
<1> QED
  BY <1>1, <1>2, WakeupType, PlaceType
  DEF DoExit, TypeOK, SchedTypeOK, Asserted, Goto, ProcState, Proc

\* Every step keeps the types.
LEMMA NextTypeOK == TypeOK /\ [Next]_vars => TypeOK'
<1> SUFFICES ASSUME TypeOK, [Next]_vars PROVE TypeOK'
  OBVIOUS
<1> USE DEF TypeOK, SchedTypeOK
<1>1. ASSUME NEW p \in User, UserStep(p) PROVE TypeOK'
  <2>1. ASSUME NEW c \in User, SysFork(p, c) PROVE TypeOK'
    BY <2>1, PlaceType, DoForkType DEF SysFork, At
  <2>2. CASE SysExit(p)
    BY <2>2, PlaceType, DoExitType DEF SysExit, Proc
  <2>3. ASSUME NEW t \in User \cup {AnyChild}, SysWait(p, t) PROVE TypeOK'
    BY <2>3, PlaceType DEF SysWait, Goto, Proc, schedVars
  <2>4. ASSUME NEW q \in Killable, SysKill(p, q) PROVE TypeOK'
    <3>1. {x \in {q} : waitState[x] \in Interruptible} \in SUBSET Proc
      BY KillableAssumption DEF Proc
    <3> QED BY <2>4, PlaceType, <3>1, WakeupType, PlaceType DEF SysKill, Asserted, Goto, Proc
  <2>5. CASE SysSleep(p)
    BY <2>5, PlaceType DEF SysSleep, StartSleep, Goto, Proc, ProcState, WaitState, Interruptible
  <2>6. CASE SysYield(p)
    BY <2>6, PlaceType DEF SysYield, Goto, Proc
  <2>7. CASE SysReturns(p)
    BY <2>7, PlaceType DEF SysReturns, Goto, Proc, schedVars
  <2> QED BY <1>1, <2>1, <2>2, <2>3, <2>4, <2>5, <2>6, <2>7 DEF UserStep
<1>2. ASSUME NEW p \in Proc, KernelStep(p) PROVE TypeOK'
  <2>1. ASSUME NEW q \in User, WaitReaps(p, q) PROVE TypeOK'
    <3>1. pc' \in [Proc -> Place]
      BY <2>1, PlaceType DEF WaitReaps, AfterReap, Proc
    <3>2. SchedTypeOK'
      BY <2>1 DEF WaitReaps, Proc, ProcState
    <3>3. /\ parent' \in [Proc -> Proc]
          /\ exiting' \in [Proc -> BOOLEAN]
          /\ waitFor' \in [Proc -> User \cup {AnyChild}]
      BY <2>1 DEF WaitReaps, Proc
    <3>4. nrProcess' \in Int
      BY <2>1 DEF WaitReaps
    <3> QED BY <3>1, <3>2, <3>3, <3>4
  <2>2. CASE WaitSleeps(p)
    BY <2>2, PlaceType DEF WaitSleeps, Goto, ProcState, WaitState, Interruptible
  <2>3. CASE WaitFails(p)
    BY <2>3, PlaceType DEF WaitFails, Goto, AfterNoChild, schedVars
  <2>4. CASE WaitWoken(p)
    BY <2>4, PlaceType, DoExitType DEF WaitWoken, InitExit, Goto, Proc, procVars, schedVars
  <2>5. CASE SleepWoken(p)
    BY <2>5, PlaceType DEF SleepWoken, EndSleep, Goto
  <2>6. CASE TrapReturn(p)
    BY <2>6, PlaceType, DoExitType DEF TrapReturn, Goto, Proc, schedVars
  <2> QED BY <1>2, <2>1, <2>2, <2>3, <2>4, <2>5, <2>6 DEF KernelStep
<1>3. CASE ThreadStep
  <2>1. CASE IdleLoop
    BY <2>1, PlaceType DEF IdleLoop, Goto, schedVars
  <2>2. ASSUME NEW g \in BOOLEAN, InitDone(g) PROVE TypeOK'
    BY <2>2, PlaceType DEF InitDone, procVars
  <2>3. ASSUME NEW c \in User, InitStart(c) PROVE TypeOK'
    BY <2>3, PlaceType, DoForkType DEF InitStart, At
  <2> QED BY <1>3, <2>1, <2>2, <2>3 DEF ThreadStep
<1>4. ASSUME NEW p \in Proc, NEW q \in Proc, Switch(p, q) PROVE TypeOK'
  BY <1>4, ScheduleType, PlaceType DEF Switch, Goto
<1>5. ASSUME NEW E \in SUBSET timers, NEW u \in BOOLEAN, Tick(E, u) PROVE TypeOK'
  <2>1. E \in SUBSET Proc
    BY DEF Proc
  <2> QED BY <1>5, <2>1, WakeupType, PlaceType DEF Tick, ClockTick, Asserted
<1>6. CASE UNCHANGED vars
  BY <1>6 DEF vars, schedVars, procVars
<1> QED BY <1>1, <1>2, <1>3, <1>4, <1>5, <1>6 DEF Next

(* The kernel's variables keep their types, and idleproc is never queued.   *)
THEOREM TypeCorrect == Spec => []TypeOK
  BY InitTypeOK, NextTypeOK, PTL DEF Spec

-----------------------------------------------------------------------------

LiveUsers == {p \in User : Live(p)}

\* initproc waits for any child, and parents are users or initproc.
Lineage ==
    /\ waitFor[initproc] = AnyChild
    /\ \A p \in LiveUsers : parent[p] \in User \cup {initproc}

\* nr_process counts the users next to idleproc and initproc.
Counted ==
    /\ IsFiniteSet(LiveUsers)
    /\ nrProcess = 2 + Cardinality(LiveUsers)

Inv == /\ TypeOK
       /\ Places
       /\ RunQueueExact
       /\ NoAssertFails
       /\ Lineage
       /\ Counted
       /\ ParentAlive
       /\ Rooted
       /\ NoLostWakeup
       /\ AllQuit

-----------------------------------------------------------------------------
(* The kinds of steps.                                                      *)

\* p goes from one place to another; nothing the invariant speaks of changes
\* but the argument of do_wait and need_resched.
Moves == {<<"user", "wait">>, <<"user", "trap_ret">>, <<"wait", "trap_ret">>,
          <<"wait_woken", "wait">>, <<"trap_ret", "user">>,
          <<"trap_ret", "preempt">>, <<"idle", "idle_sched">>}

Walks(p, l) ==
    /\ <<pc[p], l>> \in Moves
    /\ Goto(p, l)
    /\ p = initproc => l = "wait" /\ waitFor' = waitFor
    /\ \A q \in Proc \ {p} : waitFor'[q] = waitFor[q]
    /\ UNCHANGED <<current, state, waitState, runq, panic, timers,
                   parent, exiting, nrProcess>>

\* initproc learns from do_wait that it has no child.
Ends ==
    /\ At(initproc, "wait")
    /\ Children(initproc) = {}
    /\ Goto(initproc, "init_done")
    /\ UNCHANGED <<schedVars, parent, exiting, nrProcess>>
    /\ waitFor' = waitFor

\* The kernel stops, with all its state as it is.
Stops ==
    /\ panic' \in {"init_exit", "pages_missing"}
    /\ UNCHANGED <<current, state, waitState, needResched, runq, timers, procVars>>

Forks(p, c, l) ==
    /\ <<pc[p], l>> \in {<<"user", "trap_ret">>, <<"init_start", "wait">>}
    /\ DoFork(p, c, l)

\* p wakes the processes of W and goes on.
Kills(p, W) ==
    /\ pc[p] = "user"
    /\ \A x \in W : waitState[x] \in Interruptible
    /\ panic' = panic
    /\ state' = StateAfterWakeup(W)
    /\ waitState' = WaitAfterWakeup(W)
    /\ runq' = QueueAfterWakeup(W)
    /\ Goto(p, "trap_ret")
    /\ UNCHANGED <<current, parent, waitFor, timers, nrProcess>>

StepOf(p) ==
    /\ panic = "no"
    /\ current = p
    /\ \/ \E l \in Place : Walks(p, l)
       \/ p \in User \cup {initproc} /\ \E c \in User, l \in Place : Forks(p, c, l)
       \/ p \in User /\ pc[p] \in {"user", "wait_woken", "trap_ret"} /\ DoExit(p)
       \/ \E q \in User : WaitReaps(p, q)
       \/ WaitSleeps(p)
       \/ p \in User /\ SysSleep(p)
       \/ SleepWoken(p)
       \/ p \in User /\ \E W \in SUBSET Proc : Kills(p, W)

\* What Places says about the places of the three kinds of processes.
LEMMA PlacesOf ==
  ASSUME Places
  PROVE  /\ \A p \in User : pc[p] \in UserPlace
         /\ pc[initproc] \in InitPlace
         /\ pc[idleproc] \in IdlePlace
  BY ProcAssumption DEF Places, PlaceInv, IdleInv

\* No wakeup of the code meets a zombie, and no process that forks waits.
LEMMA NoAssertion ==
  ASSUME Inv
  PROVE  /\ \A p \in User \cup {initproc} :
               waitState[p] # "none" => state[p] = "sleeping"
         /\ \A p \in User \cup {initproc} :
               pc[p] \in {"user", "init_start"} /\ current = p => waitState[p] = "none"
         /\ \A p \in Proc : waitState[p] \in {"none", "child", "timer"}
         /\ \A p \in Proc : waitState[p] # "none" => state[p] # "zombie"
  BY ProcAssumption DEF Inv, Places, PlaceInv, IdleInv, Proc

\* Every step of a user process is of one of the kinds above.
LEMMA UserStepKinds ==
  ASSUME Inv, NEW p \in User, UserStep(p)
  PROVE  StepOf(p)
<1> USE DEF At
<1>1. ASSUME NEW c \in User, SysFork(p, c) PROVE StepOf(p)
  BY <1>1, PlaceType DEF SysFork, Forks, StepOf
<1>2. CASE SysExit(p)
  BY <1>2 DEF SysExit, StepOf
<1>3. ASSUME NEW t \in User \cup {AnyChild}, SysWait(p, t) PROVE StepOf(p)
  <2>1. Walks(p, "wait")
    BY <1>3, ProcAssumption DEF SysWait, Walks, Moves, schedVars, Inv, TypeOK
  <2> QED BY <1>3, <2>1, PlaceType DEF SysWait, StepOf
<1>4. ASSUME NEW q \in Killable, SysKill(p, q) PROVE StepOf(p)
  <2> DEFINE W == {x \in {q} : waitState[x] \in Interruptible}
  <2>1. W \in SUBSET Proc
    BY KillableAssumption DEF Proc
  <2>2. WakeupAsserts(W)
    BY <2>1, NoAssertion DEF WakeupAsserts, Interruptible
  <2>3. Kills(p, W)
    BY <1>4, <2>2 DEF SysKill, Kills, Asserted
  <2> QED BY <1>4, <2>1, <2>3 DEF SysKill, StepOf
<1>5. CASE SysSleep(p)
  BY <1>5 DEF SysSleep, StepOf
<1>6. CASE SysYield(p)
  <2>1. Walks(p, "trap_ret")
    BY <1>6, ProcAssumption DEF SysYield, Walks, Moves
  <2> QED BY <1>6, <2>1, PlaceType DEF SysYield, StepOf
<1>7. CASE SysReturns(p)
  <2>1. Walks(p, "trap_ret")
    BY <1>7, ProcAssumption DEF SysReturns, Walks, Moves, schedVars
  <2> QED BY <1>7, <2>1, PlaceType DEF SysReturns, StepOf
<1> QED BY <1>1, <1>2, <1>3, <1>4, <1>5, <1>6, <1>7 DEF UserStep

\* So is every step of the kernel on behalf of the process it runs.
LEMMA KernelStepKinds ==
  ASSUME Inv, NEW p \in Proc, KernelStep(p)
  PROVE  StepOf(p) \/ Ends \/ Stops
<1> USE DEF At
<1>0. /\ pc[p] = "trap_ret" => p \in User
      /\ pc[p] \in {"wait", "wait_woken"} => p \in User \cup {initproc}
  BY PlacesOf, ProcAssumption DEF Inv, InitPlace, IdlePlace, Proc
<1>1. ASSUME NEW q \in User, WaitReaps(p, q) PROVE StepOf(p)
  BY <1>1 DEF WaitReaps, StepOf
<1>2. CASE WaitSleeps(p)
  BY <1>2 DEF WaitSleeps, StepOf
<1>3. CASE WaitFails(p)
  <2>1. CASE p = initproc
    BY <1>3, <2>1 DEF WaitFails, Ends, Awaited, AfterNoChild, Inv, Lineage,
                      TypeOK, schedVars
  <2>2. CASE p # initproc
    <3>1. Walks(p, "trap_ret")
      BY <1>3, <2>2 DEF WaitFails, Walks, Moves, AfterNoChild, Inv, TypeOK, schedVars
    <3> QED BY <1>3, <3>1, PlaceType DEF WaitFails, StepOf
  <2> QED BY <2>1, <2>2
<1>4. CASE WaitWoken(p)
  <2>1. CASE exiting[p] /\ p = initproc
    BY <1>4, <2>1 DEF WaitWoken, InitExit, Stops
  <2>2. CASE exiting[p] /\ p # initproc
    BY <1>0, <1>4, <2>2 DEF WaitWoken, StepOf
  <2>3. CASE ~ exiting[p]
    <3>1. Walks(p, "wait")
      BY <1>4, <2>3 DEF WaitWoken, Walks, Moves, schedVars
    <3> QED BY <1>4, <3>1, PlaceType DEF WaitWoken, StepOf
  <2> QED BY <2>1, <2>2, <2>3
<1>5. CASE SleepWoken(p)
  BY <1>5 DEF SleepWoken, StepOf
<1>6. CASE TrapReturn(p)
  <2>1. CASE exiting[p]
    BY <1>0, <1>6, <2>1 DEF TrapReturn, StepOf
  <2>2. CASE ~ exiting[p]
    <3>1. \E l \in {"user", "preempt"} : Walks(p, l)
      BY <1>0, <1>6, <2>2, ProcAssumption DEF TrapReturn, Walks, Moves, schedVars
    <3> QED BY <1>6, <3>1, PlaceType DEF TrapReturn, StepOf
  <2> QED BY <2>1, <2>2
<1> QED BY <1>1, <1>2, <1>3, <1>4, <1>5, <1>6 DEF KernelStep

\* So is every step of the process on the CPU, whichever it is.
LEMMA ThreadStepKinds ==
  ASSUME Inv, ThreadStep
  PROVE  (\E p \in Proc : StepOf(p)) \/ Stops
<1> USE DEF At
<1>1. CASE IdleLoop
  <2>1. Walks(idleproc, "idle_sched")
    BY <1>1, ProcAssumption DEF IdleLoop, Walks, Moves, schedVars
  <2> QED BY <1>1, <2>1, PlaceType DEF IdleLoop, StepOf, Proc
<1>2. ASSUME NEW g \in BOOLEAN, InitDone(g) PROVE Stops
  <2>1. Children(initproc) = {} /\ nrProcess = 2 /\ \A p \in User : ~ Live(p)
    BY <1>2 DEF InitDone, Inv, AllQuit, Children
  <2> QED BY <1>2, <2>1 DEF InitDone, Stops
<1>3. ASSUME NEW c \in User, InitStart(c) PROVE StepOf(initproc)
  BY <1>3, PlaceType DEF InitStart, Forks, StepOf
<1> QED BY <1>1, <1>2, <1>3 DEF ThreadStep, Proc

\* A step of the kernel is of one of these kinds, a switch, a tick or none.
LEMMA StepKinds ==
  ASSUME Inv, [Next]_vars
  PROVE  \/ \E p \in Proc : StepOf(p)
         \/ Ends
         \/ Stops
         \/ \E p, q \in Proc : Switch(p, q)
         \/ \E E \in SUBSET timers, u \in BOOLEAN : Tick(E, u)
         \/ UNCHANGED vars
<1>1. ASSUME NEW p \in User, UserStep(p) PROVE \E x \in Proc : StepOf(x)
  BY <1>1, UserStepKinds DEF Proc
<1> QED BY <1>1, KernelStepKinds, ThreadStepKinds DEF Next

-----------------------------------------------------------------------------
(* Places is preserved: one step for each kind of step.                     *)

\* The processes that a wakeup finds asleep or free are runnable after it.
LEMMA WakeupPlaces ==
  ASSUME Inv, NEW W \in SUBSET Proc, \A x \in W : state[x] # "zombie",
         NEW x \in Proc
  PROVE  /\ x \in W => StateAfterWakeup(W)[x] = "runnable"
         /\ x \notin W => StateAfterWakeup(W)[x] = state[x]
         /\ x \in W /\ state[x] # "runnable" => WaitAfterWakeup(W)[x] = "none"
         /\ ~ (x \in W /\ state[x] # "runnable") => WaitAfterWakeup(W)[x] = waitState[x]
         /\ waitState[x] = "none" => WaitAfterWakeup(W)[x] = "none"
  BY DEF StateAfterWakeup, WaitAfterWakeup, NotRunnable

\* Every process stays at a place that agrees with its state.
LEMMA NextPlaces ==
  ASSUME Inv, [Next]_vars
  PROVE  Places'
<1> USE ProcAssumption DEF Proc
<1>0. /\ pc \in [Proc -> Place] /\ state \in [Proc -> ProcState]
      /\ waitState \in [Proc -> WaitState] /\ timers \subseteq User
  BY DEF Inv, TypeOK, SchedTypeOK
<1>1. ASSUME NEW p \in Proc, StepOf(p) PROVE Places'
  <2>0. panic = "no" /\ current = p
    BY <1>1 DEF StepOf
  <2>1. ASSUME NEW l \in Place, Walks(p, l) PROVE Places'
    <3>1. IdleInv'
      BY <1>0, <2>0, <2>1 DEF Walks, Moves, Goto, Inv, Places, IdleInv, IdlePlace
    <3>2. /\ pc[p] \in {"user", "wait", "wait_woken", "trap_ret", "idle"}
          /\ l \in {"user", "wait", "trap_ret", "preempt", "idle_sched"}
          /\ pc[p] = "idle" <=> l = "idle_sched"
          /\ p = initproc => l = "wait"
      BY <2>1, PlacesOf DEF Walks, Moves, Inv, InitPlace
    <3>3. ASSUME NEW x \in User \cup {initproc} PROVE PlaceInv(x)'
      <4>1. PlaceInv(x)
        BY DEF Inv, Places
      <4>2. CASE x # p
        BY <1>0, <2>0, <2>1, <4>1, <4>2 DEF Walks, Goto, PlaceInv
      <4>3. CASE x = p
        BY <1>0, <2>0, <2>1, <3>2, <4>1, <4>3
        DEF Walks, Goto, PlaceInv, UserPlace, InitPlace
      <4> QED BY <4>2, <4>3
    <3> QED BY <3>1, <3>3 DEF Places
  <2>2. ASSUME p \in User \cup {initproc}, NEW c \in User, NEW l \in Place,
               Forks(p, c, l)
        PROVE  Places'
    <3>1. /\ p # c /\ c # current /\ state[c] = "unused"
          /\ <<pc[p], l>> \in {<<"user", "trap_ret">>, <<"init_start", "wait">>}
      BY <2>0, <2>2 DEF Forks, DoFork, Inv, Places, PlaceInv
    <3>2. /\ pc[p] = "user" => l = "trap_ret"
          /\ pc[p] # "user" => pc[p] = "init_start" /\ l = "wait"
      BY <3>1
    <3>3. \A x \in Proc : /\ state'[x] = IF x = c THEN "runnable" ELSE state[x]
                          /\ waitState'[x] = IF x = c THEN "none" ELSE waitState[x]
                          /\ pc'[x] = IF x = c THEN "user" ELSE IF x = p THEN l ELSE pc[x]
      BY <1>0, <2>2, <3>1
      DEF Forks, DoFork, StateAfterWakeup, WaitAfterWakeup, NotRunnable
    <3>4. IdleInv'
      BY <2>0, <2>2, <3>1, <3>3 DEF Forks, DoFork, Inv, Places, IdleInv
    <3>5. ASSUME NEW x \in User \cup {initproc} PROVE PlaceInv(x)'
      <4>1. PlaceInv(x)
        BY DEF Inv, Places
      <4>2. current' = current /\ timers' = timers
        BY <2>2 DEF Forks, DoFork
      <4>3. CASE x = c
        BY <3>1, <3>3, <4>1, <4>2, <4>3 DEF PlaceInv, UserPlace, OffCPU
      <4>4. CASE x = p
        BY <2>0, <3>1, <3>2, <3>3, <4>1, <4>2, <4>4
        DEF PlaceInv, UserPlace, InitPlace
      <4>5. CASE x # p /\ x # c
        BY <3>3, <4>1, <4>2, <4>5 DEF PlaceInv
      <4> QED BY <4>3, <4>4, <4>5
    <3> QED BY <3>4, <3>5 DEF Places
  <2>3. ASSUME p \in User, pc[p] \in {"user", "wait_woken", "trap_ret"}, DoExit(p)
        PROVE  Places'
    <3> DEFINE W == WokenByExit(p)
    <3>1. /\ W \in SUBSET Proc
          /\ \A x \in W : waitState[x] = "child" /\ state[x] = "sleeping" /\ x # p
      <4>1. W \in SUBSET Proc /\ \A x \in W : waitState[x] = "child"
        BY DEF WokenByExit
      <4> QED BY <2>0, <2>3, <4>1 DEF Inv, Places, PlaceInv, IdleInv
    <3>2. \A x \in Proc :
             /\ state'[x] = IF x = p THEN "zombie" ELSE IF x \in W THEN "runnable" ELSE state[x]
             /\ waitState'[x] = IF x \in W THEN "none" ELSE waitState[x]
             /\ pc'[x] = IF x = p THEN "exit_sched" ELSE pc[x]
      BY <1>0, <2>3, <3>1
      DEF DoExit, StateAfterWakeup, WaitAfterWakeup, NotRunnable, Goto
    <3>3. IdleInv'
      BY <2>0, <2>3, <3>1, <3>2 DEF DoExit, Inv, Places, IdleInv
    <3>4. ASSUME NEW x \in User \cup {initproc} PROVE PlaceInv(x)'
      <4>1. PlaceInv(x) /\ current' = current /\ timers' = timers
        BY <2>3 DEF Inv, Places, DoExit
      <4>2. CASE x = p
        BY <2>0, <2>3, <3>1, <3>2, <4>1, <4>2 DEF PlaceInv, UserPlace
      <4>3. CASE x # p
        BY <2>0, <3>1, <3>2, <4>1, <4>3 DEF PlaceInv
      <4> QED BY <4>2, <4>3
    <3> QED BY <3>3, <3>4 DEF Places
  <2>4. ASSUME NEW q \in User, WaitReaps(p, q) PROVE Places'
    <3>1. pc[p] = "wait" /\ state[q] = "zombie" /\ q # p
      BY <2>4, PlacesOf DEF WaitReaps, At, Inv, Places, PlaceInv
    <3>2. p # idleproc
      BY <3>1, PlacesOf DEF Inv, IdlePlace
    <3>3. IdleInv'
      BY <1>0, <2>0, <2>4, <3>1, <3>2 DEF WaitReaps, Inv, Places, IdleInv
    <3>4. ASSUME NEW x \in User \cup {initproc} PROVE PlaceInv(x)'
      <4>1. PlaceInv(x) /\ current' = current /\ timers' = timers /\ waitState' = waitState
        BY <2>4 DEF Inv, Places, WaitReaps
      <4>2. CASE x = p
        BY <1>0, <2>0, <2>4, <3>1, <3>2, <4>1, <4>2
        DEF WaitReaps, AfterReap, PlaceInv, UserPlace, InitPlace
      <4>3. CASE x = q
        BY <1>0, <2>0, <2>4, <3>1, <4>1, <4>3 DEF WaitReaps, PlaceInv, UserPlace, OffCPU
      <4>4. CASE x # p /\ x # q
        BY <1>0, <2>4, <4>1, <4>4 DEF WaitReaps, PlaceInv
      <4> QED BY <4>2, <4>3, <4>4
    <3> QED BY <3>3, <3>4 DEF Places
  <2>5. CASE WaitSleeps(p)
    <3>1. p # idleproc /\ pc[p] = "wait"
      BY <2>5, PlacesOf DEF WaitSleeps, At, Inv, IdlePlace
    <3>2. IdleInv'
      BY <2>0, <2>5, <3>1 DEF WaitSleeps, Goto, Inv, Places, IdleInv
    <3>3. ASSUME NEW x \in User \cup {initproc} PROVE PlaceInv(x)'
      <4>1. PlaceInv(x) /\ current' = current /\ timers' = timers
        BY <2>5 DEF Inv, Places, WaitSleeps
      <4>2. CASE x = p
        BY <1>0, <2>0, <2>5, <3>1, <4>1, <4>2
        DEF WaitSleeps, Goto, PlaceInv, UserPlace, InitPlace
      <4>3. CASE x # p
        BY <1>0, <2>5, <4>1, <4>3 DEF WaitSleeps, Goto, PlaceInv
      <4> QED BY <4>2, <4>3
    <3> QED BY <3>2, <3>3 DEF Places
  <2>6. ASSUME p \in User, SysSleep(p) PROVE Places'
    <3>1. IdleInv'
      BY <2>0, <2>6 DEF SysSleep, StartSleep, Goto, Inv, Places, IdleInv
    <3>2. ASSUME NEW x \in User \cup {initproc} PROVE PlaceInv(x)'
      <4>1. PlaceInv(x) /\ current' = current /\ timers' = timers \cup {p}
        BY <2>6 DEF Inv, Places, SysSleep, StartSleep
      <4>2. CASE x = p
        BY <1>0, <2>0, <2>6, <4>1, <4>2
        DEF SysSleep, StartSleep, Goto, At, PlaceInv, UserPlace
      <4>3. CASE x # p
        BY <1>0, <2>6, <4>1, <4>3 DEF SysSleep, StartSleep, Goto, PlaceInv
      <4> QED BY <4>2, <4>3
    <3> QED BY <3>1, <3>2 DEF Places
  <2>7. CASE SleepWoken(p)
    <3>1. p \in User /\ pc[p] = "sleep_woken"
      BY <2>7, PlacesOf DEF SleepWoken, At, Inv, IdlePlace, InitPlace
    <3>2. IdleInv'
      BY <2>0, <2>7, <3>1 DEF SleepWoken, EndSleep, Goto, Inv, Places, IdleInv
    <3>3. ASSUME NEW x \in User \cup {initproc} PROVE PlaceInv(x)'
      <4>1. /\ PlaceInv(x) /\ current' = current /\ timers' = timers \ {p}
            /\ state' = state /\ waitState' = waitState
        BY <2>7 DEF Inv, Places, SleepWoken, EndSleep
      <4>2. CASE x = p
        BY <1>0, <2>0, <2>7, <3>1, <4>1, <4>2
        DEF SleepWoken, Goto, PlaceInv, UserPlace
      <4>3. CASE x # p
        BY <1>0, <2>7, <4>1, <4>3 DEF SleepWoken, Goto, PlaceInv
      <4> QED BY <4>2, <4>3
    <3> QED BY <3>2, <3>3 DEF Places
  <2>8. ASSUME p \in User, NEW W \in SUBSET Proc, Kills(p, W) PROVE Places'
    <3>1. \A x \in W : waitState[x] # "none" /\ state[x] = "sleeping"
      BY <2>8 DEF Kills, Interruptible, Inv, Places, PlaceInv, IdleInv
    <3>2. \A x \in Proc :
             /\ state'[x] = IF x \in W THEN "runnable" ELSE state[x]
             /\ waitState'[x] = IF x \in W THEN "none" ELSE waitState[x]
             /\ pc'[x] = IF x = p THEN "trap_ret" ELSE pc[x]
      BY <1>0, <2>8, <3>1
      DEF Kills, StateAfterWakeup, WaitAfterWakeup, NotRunnable, Goto
    <3>3. IdleInv'
      BY <2>0, <2>8, <3>1, <3>2 DEF Kills, Inv, Places, IdleInv
    <3>4. ASSUME NEW x \in User \cup {initproc} PROVE PlaceInv(x)'
      <4>1. PlaceInv(x) /\ current' = current /\ timers' = timers
        BY <2>8 DEF Inv, Places, Kills
      <4>2. CASE x = p
        BY <2>0, <2>8, <3>1, <3>2, <4>1, <4>2 DEF Kills, PlaceInv, UserPlace
      <4>3. CASE x # p
        BY <3>1, <3>2, <4>1, <4>3 DEF PlaceInv
      <4> QED BY <4>2, <4>3
    <3> QED BY <3>3, <3>4 DEF Places
  <2> QED BY <1>1, <2>1, <2>2, <2>3, <2>4, <2>5, <2>6, <2>7, <2>8 DEF StepOf
<1>2. CASE Ends
  <2>1. IdleInv'
    BY <1>0, <1>2 DEF Ends, At, Goto, schedVars, Inv, Places, IdleInv
  <2>2. ASSUME NEW x \in User \cup {initproc} PROVE PlaceInv(x)'
    <3>1. PlaceInv(x) /\ UNCHANGED <<current, state, waitState, timers>>
      BY <1>2 DEF Inv, Places, Ends, schedVars
    <3>2. CASE x = initproc
      BY <1>0, <1>2, <3>1, <3>2 DEF Ends, At, Goto, PlaceInv, InitPlace
    <3>3. CASE x # initproc
      BY <1>0, <1>2, <3>1, <3>3 DEF Ends, At, Goto, PlaceInv
    <3> QED BY <3>2, <3>3
  <2> QED BY <2>1, <2>2 DEF Places
<1>3. CASE Stops
  BY <1>3 DEF Stops, procVars, Inv, Places, IdleInv, PlaceInv
<1>4. ASSUME NEW p \in Proc, NEW q \in Proc, Switch(p, q) PROVE Places'
  <2>1. /\ q = idleproc \/ state[q] = "runnable"
        /\ current = p /\ current' = q /\ pc' = [pc EXCEPT ![p] = Resume[pc[p]]]
        /\ UNCHANGED <<state, waitState, timers>>
    BY <1>4 DEF Switch, Schedule, Requeued, Goto, Inv, RunQueueExact
  <2>2. /\ pc[p] = "idle_sched" => pc'[p] = "idle"
        /\ pc[p] = "preempt" => pc'[p] = "user"
        /\ pc[p] = "loop_sched" => pc'[p] = "wait"
        /\ pc[p] = "wait_sched" => pc'[p] = "wait_woken"
        /\ pc[p] = "sleep_sched" => pc'[p] = "sleep_woken"
        /\ pc[p] = "exit_sched" => pc'[p] = "exit_sched"
        /\ pc[p] \in {"idle_sched", "preempt", "loop_sched", "wait_sched",
                      "sleep_sched", "exit_sched"}
    BY <1>0, <1>4, <2>1 DEF Switch, Resume
  <2>3. \A x \in Proc \ {p} : pc'[x] = pc[x]
    BY <1>0, <2>1
  <2>4. IdleInv'
    BY <2>1, <2>2, <2>3 DEF Inv, Places, IdleInv, IdlePlace
  <2>5. ASSUME NEW x \in User \cup {initproc} PROVE PlaceInv(x)'
    <3>1. PlaceInv(x)
      BY DEF Inv, Places
    <3>2. CASE x = p
      BY <2>1, <2>2, <3>1, <3>2 DEF PlaceInv, UserPlace, InitPlace, OffCPU
    <3>3. CASE x # p
      BY <2>1, <2>3, <3>1, <3>3 DEF PlaceInv, OffCPU
    <3> QED BY <3>2, <3>3
  <2> QED BY <2>4, <2>5 DEF Places
<1>5. ASSUME NEW E \in SUBSET timers, NEW u \in BOOLEAN, Tick(E, u) PROVE Places'
  <2>1. /\ \A x \in E :
              /\ x \in User
              /\ pc[x] \in {"sleep_sched", "sleep_woken"}
              /\ state[x] # "zombie"
              /\ state[x] = "sleeping" \/ waitState[x] = "none"
        /\ current' = current /\ timers' = timers \ E
    BY <1>0, <1>5 DEF Tick, ClockTick, Inv, Places, PlaceInv
  <2>2. \A x \in Proc :
           /\ state'[x] = IF x \in E THEN "runnable" ELSE state[x]
           /\ waitState'[x] = IF x \in E THEN "none" ELSE waitState[x]
    BY <1>5, <2>1
    DEF Tick, ClockTick, StateAfterWakeup, WaitAfterWakeup, NotRunnable, Inv, Places, PlaceInv
  <2>3. \A x \in Proc :
           \/ pc'[x] = pc[x]
           \/ x = current /\ pc[x] = "user" /\ pc'[x] = "trap_ret"
    BY <1>0, <1>5 DEF Tick
  <2>4. IdleInv'
    BY <2>1, <2>2, <2>3 DEF Inv, Places, IdleInv, IdlePlace
  <2>5. ASSUME NEW x \in User \cup {initproc} PROVE PlaceInv(x)'
    <3>1. PlaceInv(x)
      BY DEF Inv, Places
    <3>2. CASE x \in E
      BY <2>1, <2>2, <2>3, <3>1, <3>2 DEF PlaceInv
    <3>3. CASE x \notin E
      BY <2>1, <2>2, <2>3, <3>1, <3>3 DEF PlaceInv, UserPlace, InitPlace
    <3> QED BY <3>2, <3>3
  <2> QED BY <2>4, <2>5 DEF Places
<1>6. CASE UNCHANGED vars
  BY <1>6 DEF vars, schedVars, procVars, Inv, Places, IdleInv, PlaceInv
<1> QED BY <1>1, <1>2, <1>3, <1>4, <1>5, <1>6, StepKinds

-----------------------------------------------------------------------------
(* What the kinds of steps do to the family tree, the states and the run    *)
(* queue: all that the other parts of the invariant speak of.               *)

Family == User \cup {initproc}

\* Only the argument of do_wait of a process that is awake may change.
Unmoved ==
    /\ panic' \in {panic, "init_exit", "pages_missing"}
    /\ waitFor'[initproc] = waitFor[initproc]
    /\ \A x \in Proc : state[x] = "sleeping" => waitFor'[x] = waitFor[x]
    /\ UNCHANGED <<current, state, waitState, runq, parent, nrProcess>>

Born(p, c) ==
    /\ panic = "no" /\ panic' = "no" /\ current = p
    /\ state[p] \in {"runnable", "sleeping"} /\ state[c] = "unused" /\ p # c
    /\ \A x \in Proc :
          /\ state'[x] = IF x = c THEN "runnable" ELSE state[x]
          /\ waitState'[x] = IF x = c THEN "none" ELSE waitState[x]
          /\ parent'[x] = IF x = c THEN p ELSE parent[x]
    /\ runq' = runq \cup {c}
    /\ nrProcess' = nrProcess + 1
    /\ UNCHANGED <<current, waitFor>>

Dies(p, W) ==
    /\ panic = "no" /\ panic' = "no" /\ current = p
    /\ state[p] \in {"runnable", "sleeping"} /\ p \notin W
    /\ W = WokenByExit(p) /\ W \subseteq Family
    /\ \A x \in W : waitState[x] = "child" /\ state[x] = "sleeping"
    /\ \A x \in Proc :
          /\ state'[x] = IF x = p THEN "zombie"
                         ELSE IF x \in W THEN "runnable" ELSE state[x]
          /\ waitState'[x] = IF x \in W THEN "none" ELSE waitState[x]
          /\ parent'[x] = IF x \in LiveUsers /\ parent[x] = p
                          THEN initproc ELSE parent[x]
          /\ x # p => waitFor'[x] = waitFor[x]
    /\ runq' = runq \cup W
    /\ UNCHANGED <<current, nrProcess>>

Reaps(p, q) ==
    /\ panic = "no" /\ panic' = "no" /\ current = p
    /\ state[p] \notin {"sleeping", "zombie"} /\ state[q] = "zombie" /\ p # q
    /\ parent[q] = p
    /\ \A x \in Proc :
          /\ state'[x] = IF x = q THEN "unused" ELSE state[x]
          /\ parent'[x] = IF x = q THEN idleproc ELSE parent[x]
          /\ waitFor'[x] = IF x = p THEN AnyChild ELSE waitFor[x]
    /\ nrProcess' = nrProcess - 1
    /\ UNCHANGED <<current, waitState, runq>>

Sleeps(p) ==
    /\ panic = "no" /\ panic' = "no" /\ current = p
    /\ state[p] = "runnable"
    /\ \/ waitState'[p] # "child"
       \/ Awaited(p) # {} /\ \A q \in Awaited(p) : state[q] # "zombie"
    /\ \A x \in Proc :
          /\ state'[x] = IF x = p THEN "sleeping" ELSE state[x]
          /\ x # p => waitState'[x] = waitState[x]
    /\ UNCHANGED <<current, runq, parent, waitFor, nrProcess>>

Wakes(W) ==
    /\ panic = "no" /\ panic' = "no" /\ W \subseteq Family
    /\ \A x \in W : state[x] \in {"runnable", "sleeping"}
    /\ \A x \in Proc :
          /\ state'[x] = IF x \in W THEN "runnable" ELSE state[x]
          /\ waitState'[x] = IF x \in W THEN "none" ELSE waitState[x]
    /\ runq' = runq \cup {x \in W : state[x] # "runnable" /\ x # current}
    /\ UNCHANGED <<current, parent, waitFor, nrProcess>>

Switches(p, q) ==
    /\ panic = "no" /\ panic' = "no" /\ current = p
    /\ Requeued = {x \in Family : state[x] = "runnable"}
    /\ IF Requeued = {} THEN q = idleproc ELSE q \in Requeued
    /\ current' = q
    /\ runq' = Requeued \ {q}
    /\ UNCHANGED <<state, waitState, parent, waitFor, nrProcess>>

\* What a step does to the life of processes, as one of eight effects.
LEMMA Effects ==
  ASSUME Inv, [Next]_vars
  PROVE  \/ Unmoved
         \/ \E p \in Family, c \in User : Born(p, c)
         \/ \E p \in User, W \in SUBSET Family : Dies(p, W)
         \/ \E p \in Family, q \in User : Reaps(p, q)
         \/ \E p \in Family : Sleeps(p)
         \/ \E W \in SUBSET Family : Wakes(W)
         \/ \E p, q \in Proc : Switches(p, q)
<1> DEFINE Goal == \/ Unmoved
                   \/ \E p \in Family, c \in User : Born(p, c)
                   \/ \E p \in User, W \in SUBSET Family : Dies(p, W)
                   \/ \E p \in Family, q \in User : Reaps(p, q)
                   \/ \E p \in Family : Sleeps(p)
                   \/ \E W \in SUBSET Family : Wakes(W)
                   \/ \E p, q \in Proc : Switches(p, q)
<1> USE ProcAssumption DEF Proc, Family
<1>0. /\ pc \in [Proc -> Place] /\ state \in [Proc -> ProcState]
      /\ waitState \in [Proc -> WaitState] /\ timers \subseteq User
      /\ parent \in [Proc -> Proc] /\ waitFor \in [Proc -> User \cup {AnyChild}]
      /\ runq \subseteq Proc \ {idleproc}
  BY DEF Inv, TypeOK, SchedTypeOK
<1>1. ASSUME NEW p \in Proc, StepOf(p) PROVE Goal
  <2>0. panic = "no" /\ current = p
    BY <1>1 DEF StepOf
  <2>a. \A x \in Family : waitState[x] # "none" <=> state[x] = "sleeping"
    BY DEF Inv, Places, PlaceInv
  <2>b. pc[p] \in {"user", "init_start", "wait", "wait_woken", "trap_ret", "sleep_woken", "idle"}
            => state[p] # "sleeping" /\ (p \in Family => state[p] # "zombie" /\ state[p] # "unused")
    BY <2>0 DEF Inv, Places, PlaceInv, IdleInv
  <2>1. ASSUME NEW l \in Place, Walks(p, l) PROVE Unmoved
    <3>1. pc[p] \in {"user", "wait", "wait_woken", "trap_ret", "idle"}
      BY <2>1 DEF Walks, Moves
    <3> QED BY <2>0, <2>1, <2>b, <3>1 DEF Walks, Unmoved
  <2>2. ASSUME p \in Family, NEW c \in User, NEW l \in Place, Forks(p, c, l)
        PROVE  Born(p, c)
    <3>1. pc[p] \in {"user", "init_start"}
      BY <2>2 DEF Forks
    <3>2. state[c] = "unused" /\ c # p /\ waitState[p] = "none"
      BY <2>0, <2>2, <2>a, <2>b, <3>1 DEF Forks, DoFork
    <3>3. panic' = "no"
      BY <2>0, <2>2, <3>2 DEF Forks, DoFork, Asserted
    <3>4. runq' = runq \cup {c}
      BY <2>0, <2>2, <3>2 DEF Forks, DoFork, QueueAfterWakeup, NotRunnable
    <3> QED
      BY <1>0, <2>0, <2>2, <2>b, <3>1, <3>2, <3>3, <3>4
      DEF Forks, DoFork, Born, StateAfterWakeup, WaitAfterWakeup, NotRunnable,
          Inv, TypeOK, SchedTypeOK, ProcState
  <2>3. ASSUME p \in User, pc[p] \in {"user", "wait_woken", "trap_ret"}, DoExit(p)
        PROVE  Dies(p, WokenByExit(p)) /\ WokenByExit(p) \in SUBSET Family
    <3> DEFINE W == WokenByExit(p)
    <3>1. /\ W \in SUBSET Family
          /\ \A x \in W : waitState[x] = "child" /\ state[x] = "sleeping" /\ x # p
      <4>1. W \in SUBSET Proc /\ \A x \in W : waitState[x] = "child"
        BY DEF WokenByExit
      <4>2. waitState[idleproc] = "none"
        BY DEF Inv, Places, IdleInv
      <4> QED BY <2>3, <2>a, <2>b, <4>1, <4>2
    <3>2. WakeupAsserts(W) /\ NotRunnable(W) = W
      BY <3>1 DEF WakeupAsserts, NotRunnable
    <3>3. panic' = "no" /\ runq' = runq \cup W
      BY <2>0, <2>3, <3>1, <3>2 DEF DoExit, Asserted, QueueAfterWakeup
    <3>4. \A x \in Proc :
             /\ state'[x] = IF x = p THEN "zombie" ELSE IF x \in W THEN "runnable" ELSE state[x]
             /\ waitState'[x] = IF x \in W THEN "none" ELSE waitState[x]
             /\ x # p => waitFor'[x] = waitFor[x]
      BY <1>0, <2>3, <3>1, <3>2 DEF DoExit, StateAfterWakeup, WaitAfterWakeup
    <3>5. \A x \in Proc : parent'[x] = IF x \in LiveUsers /\ parent[x] = p
                                      THEN initproc ELSE parent[x]
      BY <2>3 DEF DoExit, ParentAfterExit, Children, LiveUsers, Live
    <3>6. state[p] \in {"runnable", "sleeping"}
      BY <1>0, <2>3, <2>b DEF ProcState
    <3>7. UNCHANGED <<current, nrProcess>>
      BY <2>3 DEF DoExit
    <3> QED BY <2>0, <3>1, <3>3, <3>4, <3>5, <3>6, <3>7 DEF Dies
  <2>4. ASSUME NEW q \in User, WaitReaps(p, q)
        PROVE  p \in Family /\ Reaps(p, q)
    <3>1. pc[p] = "wait" /\ state[q] = "zombie" /\ parent[q] = p
      BY <2>4 DEF WaitReaps, At, Awaited, Children
    <3>2. p \in Family
      BY <3>1, PlacesOf DEF Inv, IdlePlace
    <3> QED BY <1>0, <2>0, <2>4, <2>b, <3>1, <3>2 DEF WaitReaps, Reaps
  <2>5. ASSUME WaitSleeps(p) PROVE p \in Family /\ Sleeps(p)
    <3>1. pc[p] = "wait"
      BY <2>5 DEF WaitSleeps, At
    <3>2. p \in Family
      BY <3>1, PlacesOf DEF Inv, IdlePlace
    <3>3. state[p] = "runnable"
      BY <1>0, <2>b, <3>1, <3>2 DEF ProcState
    <3> QED BY <1>0, <2>0, <2>5, <3>2, <3>3 DEF WaitSleeps, Sleeps
  <2>6. ASSUME p \in User, SysSleep(p) PROVE p \in Family /\ Sleeps(p)
    <3>1. state[p] = "runnable"
      BY <1>0, <2>6, <2>b DEF SysSleep, At, ProcState
    <3> QED BY <1>0, <2>0, <2>6, <3>1 DEF SysSleep, StartSleep, Sleeps
  <2>7. ASSUME SleepWoken(p) PROVE Unmoved
    BY <2>7 DEF SleepWoken, EndSleep, Unmoved
  <2>8. ASSUME p \in User, NEW W \in SUBSET Proc, Kills(p, W)
        PROVE  W \in SUBSET Family /\ Wakes(W)
    <3>1. \A x \in W : waitState[x] # "none"
      BY <2>8 DEF Kills, Interruptible
    <3>2. waitState[idleproc] = "none"
      BY DEF Inv, Places, IdleInv
    <3>3. W \in SUBSET Family /\ \A x \in W : state[x] = "sleeping"
      BY <2>a, <3>1, <3>2
    <3> QED BY <1>0, <2>0, <2>8, <3>3
            DEF Kills, Wakes, StateAfterWakeup, WaitAfterWakeup, QueueAfterWakeup, NotRunnable
  <2> QED BY <1>1, <2>1, <2>2, <2>3, <2>4, <2>5, <2>6, <2>7, <2>8 DEF StepOf
<1>2. ASSUME Ends PROVE Unmoved
  BY <1>2 DEF Ends, schedVars, Unmoved
<1>3. ASSUME Stops PROVE Unmoved
  BY <1>3 DEF Stops, procVars, Unmoved
<1>4. ASSUME NEW p \in Proc, NEW q \in Proc, Switch(p, q) PROVE Switches(p, q)
  <2>1. Requeued = {x \in Family : state[x] = "runnable"}
    BY <1>4 DEF Switch, Requeued, Inv, RunQueueExact, TypeOK, SchedTypeOK
  <2> QED BY <1>4, <2>1 DEF Switch, Schedule, Switches
<1>5. ASSUME NEW E \in SUBSET timers, NEW u \in BOOLEAN, Tick(E, u) PROVE Wakes(E)
  <2>1. \A x \in E :
           /\ x \in User
           /\ state[x] \in {"runnable", "sleeping"}
           /\ waitState[x] \in {"none", "child", "timer"}
           /\ state[x] = "runnable" => waitState[x] = "none"
    BY <1>0 DEF Inv, Places, PlaceInv, ProcState
  <2>a. WakeupAsserts(E) /\ \A x \in E : waitState[x] \in Interruptible \cup {"none"}
    BY <2>1 DEF WakeupAsserts, Interruptible
  <2>2. /\ panic = "no"
        /\ panic' = "no"
        /\ state' = StateAfterWakeup(E)
        /\ waitState' = WaitAfterWakeup(E)
        /\ runq' = QueueAfterWakeup(E)
        /\ UNCHANGED <<current, parent, waitFor, nrProcess>>
    BY <1>5, <2>a DEF Tick, ClockTick, Asserted
  <2>4. QueueAfterWakeup(E) = runq \cup {x \in E : state[x] # "runnable" /\ x # current}
    BY <2>1 DEF QueueAfterWakeup, NotRunnable
  <2>5. \A x \in Proc :
           /\ state'[x] = IF x \in E THEN "runnable" ELSE state[x]
           /\ waitState'[x] = IF x \in E THEN "none" ELSE waitState[x]
    BY <2>1, <2>2 DEF StateAfterWakeup, WaitAfterWakeup, NotRunnable
  <2> QED
    BY <2>1, <2>2, <2>4, <2>5 DEF Wakes
<1>6. ASSUME UNCHANGED vars PROVE Unmoved
  BY <1>6 DEF vars, schedVars, procVars, Unmoved
<1> HIDE DEF Goal
<1>7. timers \in SUBSET Family
  BY <1>0
<1>8. ASSUME Unmoved PROVE Goal
  BY <1>8 DEF Goal
<1>9. ASSUME NEW E \in SUBSET timers, NEW u \in BOOLEAN, Tick(E, u) PROVE Goal
  BY <1>5, <1>7, <1>9 DEF Goal
<1>10. ASSUME NEW p \in Proc, NEW q \in Proc, Switch(p, q) PROVE Goal
  BY <1>4, <1>10 DEF Goal
<1>11. Goal
  BY <1>1, <1>2, <1>3, <1>6, <1>8, <1>9, <1>10, StepKinds
<1> QED BY <1>11 DEF Goal

-----------------------------------------------------------------------------
(* The other parts of the invariant.                                        *)

\* Every step keeps the run queue exact.
LEMMA NextRunQueue ==
  ASSUME Inv, [Next]_vars
  PROVE  RunQueueExact' /\ NoAssertFails'
<1> USE ProcAssumption DEF Proc, Family, Inv, RunQueueExact, NoAssertFails
<1>1. CASE Unmoved
  BY <1>1 DEF Unmoved
<1>2. ASSUME NEW p \in Family, NEW c \in User, Born(p, c)
      PROVE  RunQueueExact' /\ NoAssertFails'
  BY <1>2 DEF Born
<1>3. ASSUME NEW p \in User, NEW W \in SUBSET Family, Dies(p, W)
      PROVE  RunQueueExact' /\ NoAssertFails'
  BY <1>3 DEF Dies
<1>4. ASSUME NEW p \in Family, NEW q \in User, Reaps(p, q)
      PROVE  RunQueueExact' /\ NoAssertFails'
  BY <1>4 DEF Reaps
<1>5. ASSUME NEW p \in Family, Sleeps(p) PROVE RunQueueExact' /\ NoAssertFails'
  BY <1>5 DEF Sleeps
<1>6. ASSUME NEW W \in SUBSET Family, Wakes(W) PROVE RunQueueExact' /\ NoAssertFails'
  BY <1>6 DEF Wakes
<1>7. ASSUME NEW p \in Proc, NEW q \in Proc, Switches(p, q)
      PROVE  RunQueueExact' /\ NoAssertFails'
  BY <1>7 DEF Switches
<1> QED BY <1>1, <1>2, <1>3, <1>4, <1>5, <1>6, <1>7, Effects

\* The live users after each kind of step.
LEMMA NextLive ==
  ASSUME Inv, [Next]_vars
  PROVE  \/ LiveUsers' = LiveUsers /\ nrProcess' = nrProcess
         \/ \E p \in Family, c \in User :
               Born(p, c) /\ c \notin LiveUsers /\ LiveUsers' = LiveUsers \cup {c}
         \/ \E p \in Family, q \in User :
               Reaps(p, q) /\ q \in LiveUsers /\ LiveUsers' = LiveUsers \ {q}
<1> USE ProcAssumption DEF Proc, Family, LiveUsers, Live
<1>1. CASE Unmoved
  BY <1>1 DEF Unmoved
<1>2. ASSUME NEW p \in Family, NEW c \in User, Born(p, c)
      PROVE  c \notin LiveUsers /\ LiveUsers' = LiveUsers \cup {c}
  BY <1>2 DEF Born
<1>3. ASSUME NEW p \in User, NEW W \in SUBSET Family, Dies(p, W)
      PROVE  LiveUsers' = LiveUsers /\ nrProcess' = nrProcess
  BY <1>3 DEF Dies
<1>4. ASSUME NEW p \in Family, NEW q \in User, Reaps(p, q)
      PROVE  q \in LiveUsers /\ LiveUsers' = LiveUsers \ {q}
  BY <1>4 DEF Reaps
<1>5. ASSUME NEW p \in Family, Sleeps(p)
      PROVE  LiveUsers' = LiveUsers /\ nrProcess' = nrProcess
  BY <1>5 DEF Sleeps
<1>6. ASSUME NEW W \in SUBSET Family, Wakes(W)
      PROVE  LiveUsers' = LiveUsers /\ nrProcess' = nrProcess
  BY <1>6 DEF Wakes
<1>7. ASSUME NEW p \in Proc, NEW q \in Proc, Switches(p, q)
      PROVE  LiveUsers' = LiveUsers /\ nrProcess' = nrProcess
  BY <1>7 DEF Switches
<1> QED BY <1>1, <1>2, <1>3, <1>4, <1>5, <1>6, <1>7, Effects

\* nr_process goes on counting the live processes.
LEMMA NextCounted ==
  ASSUME Inv, [Next]_vars
  PROVE  Counted'
<1>0. IsFiniteSet(LiveUsers) /\ nrProcess = 2 + Cardinality(LiveUsers)
  BY DEF Inv, Counted
<1>1. CASE LiveUsers' = LiveUsers /\ nrProcess' = nrProcess
  BY <1>0, <1>1 DEF Counted
<1>2. ASSUME NEW p \in Family, NEW c \in User, Born(p, c),
             c \notin LiveUsers, LiveUsers' = LiveUsers \cup {c}
      PROVE  Counted'
  <2>1. nrProcess' = nrProcess + 1
    BY <1>2 DEF Born
  <2>2. IsFiniteSet(LiveUsers') /\ Cardinality(LiveUsers') = Cardinality(LiveUsers) + 1
    BY <1>0, <1>2, FS_AddElement
  <2>3. Cardinality(LiveUsers) \in Nat
    BY <1>0, FS_CardinalityType
  <2> QED BY <1>0, <2>1, <2>2, <2>3 DEF Counted
<1>3. ASSUME NEW p \in Family, NEW q \in User, Reaps(p, q),
             q \in LiveUsers, LiveUsers' = LiveUsers \ {q}
      PROVE  Counted'
  <2>1. nrProcess' = nrProcess - 1
    BY <1>3 DEF Reaps
  <2>2. IsFiniteSet(LiveUsers') /\ Cardinality(LiveUsers') = Cardinality(LiveUsers) - 1
    BY <1>0, <1>3, FS_RemoveElement
  <2>3. Cardinality(LiveUsers) \in Nat
    BY <1>0, FS_CardinalityType
  <2> QED BY <1>0, <2>1, <2>2, <2>3 DEF Counted
<1> QED BY <1>1, <1>2, <1>3, NextLive

\* Parents go on being live members of the family.
LEMMA NextLineage ==
  ASSUME Inv, [Next]_vars
  PROVE  Lineage' /\ ParentAlive'
<1> USE ProcAssumption DEF Proc, Family, LiveUsers, Live
<1>0. /\ \A p \in User : state[p] # "unused" =>
             parent[p] \in Family /\ state[parent[p]] \in {"runnable", "sleeping"}
      /\ waitFor[initproc] = AnyChild
      /\ state[initproc] \in {"runnable", "sleeping"}
  <2>1. state[initproc] # "zombie" /\ state[initproc] # "unused"
    BY DEF Inv, Places, PlaceInv, InitPlace
  <2>2. state[initproc] \in ProcState
    BY DEF Inv, TypeOK, SchedTypeOK
  <2> QED BY <2>1, <2>2 DEF Inv, Lineage, ParentAlive, ProcState
<1> DEFINE Goal == /\ \A x \in User : state'[x] # "unused" =>
                         /\ parent'[x] \in Family
                         /\ state'[parent'[x]] \in {"runnable", "sleeping"}
                   /\ waitFor'[initproc] = AnyChild
<1> SUFFICES Goal
  BY DEF Lineage, ParentAlive
<1>1. CASE Unmoved
  BY <1>0, <1>1 DEF Unmoved
<1>2. ASSUME NEW p \in Family, NEW c \in User, Born(p, c) PROVE Goal
  BY <1>0, <1>2 DEF Born
<1>3. ASSUME NEW p \in User, NEW W \in SUBSET Family, Dies(p, W) PROVE Goal
  BY <1>0, <1>3 DEF Dies
<1>4. ASSUME NEW p \in Family, NEW q \in User, Reaps(p, q) PROVE Goal
  BY <1>0, <1>4 DEF Reaps
<1>5. ASSUME NEW p \in Family, Sleeps(p) PROVE Goal
  BY <1>0, <1>5 DEF Sleeps
<1>6. ASSUME NEW W \in SUBSET Family, Wakes(W) PROVE Goal
  BY <1>0, <1>6 DEF Wakes
<1>7. ASSUME NEW p \in Proc, NEW q \in Proc, Switches(p, q) PROVE Goal
  BY <1>0, <1>7 DEF Switches
<1> QED BY <1>1, <1>2, <1>3, <1>4, <1>5, <1>6, <1>7, Effects

\* Every live process goes on descending from initproc.
LEMMA NextRooted ==
  ASSUME Inv, [Next]_vars
  PROVE  Rooted'
<1> USE ProcAssumption DEF Proc, Family
<1>0. /\ \A p \in LiveUsers :
             parent[p] \in Family /\ state[parent[p]] \in {"runnable", "sleeping"}
      /\ \A S \in SUBSET LiveUsers : S # {} => \E p \in S : parent[p] \notin S
  BY DEF Inv, Lineage, ParentAlive, Rooted, LiveUsers
<1> SUFFICES ASSUME NEW S \in SUBSET LiveUsers', S # {}
             PROVE  \E p \in S : parent'[p] \notin S
  BY DEF Rooted, LiveUsers
<1>1. ASSUME S \subseteq LiveUsers, \A x \in S : parent'[x] \in {parent[x], initproc}
      PROVE  \E p \in S : parent'[p] \notin S
  BY <1>0, <1>1 DEF LiveUsers
<1>2. CASE Unmoved
  BY <1>1, <1>2 DEF Unmoved, LiveUsers, Live
<1>3. ASSUME NEW p \in Family, NEW c \in User, Born(p, c)
      PROVE  \E x \in S : parent'[x] \notin S
  <2>1. S \subseteq LiveUsers \cup {c}
    BY <1>3 DEF Born, LiveUsers, Live
  <2>2. CASE p \notin S /\ c \in S
    BY <1>3, <2>2 DEF Born
  <2>3. CASE c \notin S
    BY <1>1, <1>3, <2>1, <2>3 DEF Born, LiveUsers
  <2>4. CASE p \in S /\ c \in S
    <3>1. PICK x \in S \ {c} : parent[x] \notin S \ {c}
      BY <1>0, <1>3, <2>1, <2>4 DEF Born
    <3>2. parent[x] # c
      BY <1>0, <1>3, <2>1 DEF Born
    <3> QED BY <1>3, <2>1, <3>1, <3>2 DEF Born, LiveUsers
  <2> QED BY <2>2, <2>3, <2>4
<1>4. ASSUME NEW p \in User, NEW W \in SUBSET Family, Dies(p, W)
      PROVE  \E x \in S : parent'[x] \notin S
  BY <1>1, <1>4 DEF Dies, LiveUsers, Live
<1>5. ASSUME NEW p \in Family, NEW q \in User, Reaps(p, q)
      PROVE  \E x \in S : parent'[x] \notin S
  <2>1. S \subseteq LiveUsers /\ q \notin S
    BY <1>5 DEF Reaps, LiveUsers, Live
  <2> QED BY <1>1, <1>5, <2>1 DEF Reaps, LiveUsers
<1>6. ASSUME NEW p \in Family, Sleeps(p) PROVE \E x \in S : parent'[x] \notin S
  BY <1>1, <1>6 DEF Sleeps, LiveUsers, Live
<1>7. ASSUME NEW W \in SUBSET Family, Wakes(W) PROVE \E x \in S : parent'[x] \notin S
  BY <1>1, <1>7 DEF Wakes, LiveUsers, Live
<1>8. ASSUME NEW p \in Proc, NEW q \in Proc, Switches(p, q)
      PROVE  \E x \in S : parent'[x] \notin S
  BY <1>1, <1>8 DEF Switches, LiveUsers, Live
<1> QED BY <1>2, <1>3, <1>4, <1>5, <1>6, <1>7, <1>8, Effects

\* The children a process p looks at, spelled out.
LEMMA AwaitedIs ==
  ASSUME NEW p
  PROVE  /\ Awaited(p) = {q \in User : /\ state[q] # "unused"
                                      /\ parent[q] = p
                                      /\ waitFor[p] \in {AnyChild, q}}
         /\ Awaited(p)' = {q \in User : /\ state'[q] # "unused"
                                       /\ parent'[q] = p
                                       /\ waitFor'[p] \in {AnyChild, q}}
  BY DEF Awaited, Children, Live

\* No step loses a wakeup of do_wait.
LEMMA NextNoLostWakeup ==
  ASSUME Inv, [Next]_vars
  PROVE  NoLostWakeup'
<1> USE ProcAssumption DEF Proc, Family
<1> SUFFICES ASSUME NEW p \in Proc, state'[p] = "sleeping", waitState'[p] = "child"
             PROVE  Awaited(p)' # {} /\ \A q \in Awaited(p)' : state'[q] # "zombie"
  BY DEF NoLostWakeup
<1> DEFINE Goal == Awaited(p)' # {} /\ \A q \in Awaited(p)' : state'[q] # "zombie"
<1>0. /\ state[p] = "sleeping" /\ waitState[p] = "child" =>
             Awaited(p) # {} /\ \A q \in Awaited(p) : state[q] # "zombie"
      /\ waitFor[initproc] = AnyChild
  BY DEF Inv, NoLostWakeup, Lineage
<1>2. CASE Unmoved
  BY <1>0, <1>2, AwaitedIs DEF Unmoved
<1>3. ASSUME NEW x \in Family, NEW c \in User, Born(x, c) PROVE Goal
  <2>1. state[p] = "sleeping" /\ waitState[p] = "child"
    BY <1>3 DEF Born
  <2>2. /\ Awaited(p) \subseteq Awaited(p)'
        /\ Awaited(p)' \subseteq Awaited(p) \cup {c}
    BY <1>3, AwaitedIs DEF Born
  <2>3. \A q \in Awaited(p)' : state'[q] # "zombie"
    BY <1>0, <1>3, <2>1, <2>2, AwaitedIs DEF Born
  <2> QED BY <1>0, <2>1, <2>2, <2>3
<1>4. ASSUME NEW x \in User, NEW W \in SUBSET Family, Dies(x, W) PROVE Goal
  <2>1. /\ p # x /\ p \notin W /\ state[p] = "sleeping" /\ waitState[p] = "child"
        /\ waitFor'[p] = waitFor[p]
    BY <1>4 DEF Dies
  <2>2. p # parent[x]
    BY <1>4, <2>1 DEF Dies, WokenByExit
  <2>3. Awaited(p) \subseteq Awaited(p)'
    BY <1>4, <2>1, AwaitedIs DEF Dies
  <2>4. ASSUME NEW q \in Awaited(p)' PROVE state'[q] # "zombie"
    <3>1. CASE q \in Awaited(p)
      BY <1>0, <1>4, <2>1, <2>2, <3>1, AwaitedIs DEF Dies
    <3>2. CASE q \notin Awaited(p)
      <4>1. p = initproc /\ q \in LiveUsers /\ parent[q] = x
        BY <1>4, <2>1, <3>2, AwaitedIs DEF Dies
      <4>2. state[q] # "zombie"
        BY <1>4, <2>1, <4>1 DEF Dies, WokenByExit, Children, LiveUsers
      <4>3. parent[x] # x
        <5>1. {x} \in SUBSET {y \in User : Live(y)}
          BY <1>4 DEF Dies, Live
        <5> QED BY <5>1 DEF Inv, Rooted
      <4> QED BY <1>4, <4>1, <4>2, <4>3 DEF Dies, LiveUsers
    <3> QED BY <3>1, <3>2
  <2> QED BY <1>0, <2>1, <2>3, <2>4
<1>5. ASSUME NEW x \in Family, NEW q \in User, Reaps(x, q) PROVE Goal
  <2>1. p # x /\ p # q /\ state[p] = "sleeping" /\ waitState[p] = "child"
    BY <1>5 DEF Reaps
  <2>2. Awaited(p)' \subseteq Awaited(p) /\ Awaited(p) \subseteq Awaited(p)'
    BY <1>5, <2>1, AwaitedIs DEF Reaps
  <2> QED BY <1>0, <1>5, <2>1, <2>2, AwaitedIs DEF Reaps
<1>6. ASSUME NEW x \in Family, Sleeps(x) PROVE Goal
  <2>1. Awaited(p)' \subseteq Awaited(p) /\ Awaited(p) \subseteq Awaited(p)'
    BY <1>6, AwaitedIs DEF Sleeps
  <2> QED BY <1>0, <1>6, <2>1, AwaitedIs DEF Sleeps
<1>7. ASSUME NEW W \in SUBSET Family, Wakes(W) PROVE Goal
  <2>1. /\ Awaited(p)' \subseteq Awaited(p) /\ Awaited(p) \subseteq Awaited(p)'
        /\ p \notin W
    BY <1>7, AwaitedIs DEF Wakes
  <2> QED BY <1>0, <1>7, <2>1, AwaitedIs DEF Wakes
<1>8. ASSUME NEW x \in Proc, NEW q \in Proc, Switches(x, q) PROVE Goal
  BY <1>0, <1>8, AwaitedIs DEF Switches
<1> QED BY <1>2, <1>3, <1>4, <1>5, <1>6, <1>7, <1>8, Effects

\* An initproc without children is alone with idleproc.
LEMMA ChildlessAlone ==
  ASSUME Inv, Children(initproc) = {}
  PROVE  LiveUsers = {} /\ nrProcess = 2
<1>1. LiveUsers = {}
  <2> SUFFICES ASSUME LiveUsers # {} PROVE FALSE
    OBVIOUS
  <2>1. PICK x \in LiveUsers : parent[x] \notin LiveUsers
    BY DEF Inv, Rooted, LiveUsers
  <2>2. parent[x] = initproc
    BY <2>1 DEF Inv, Lineage, ParentAlive, LiveUsers, Live
  <2> QED BY <2>1, <2>2 DEF Children, LiveUsers
<1> QED BY <1>1, FS_EmptySet DEF Inv, Counted

\* The kernel stops only when every user process is gone.
LEMMA NextAllQuit ==
  ASSUME Inv, [Next]_vars
  PROVE  AllQuit'
<1> USE ProcAssumption DEF Proc
<1> SUFFICES ASSUME pc'[initproc] = "init_done"
             PROVE  nrProcess' = 2 /\ LiveUsers' = {}
  BY DEF AllQuit, LiveUsers
<1>0. /\ pc \in [Proc -> Place]
      /\ pc[initproc] = "init_done" => current = initproc /\ nrProcess = 2 /\ LiveUsers = {}
  BY DEF Inv, TypeOK, AllQuit, Places, PlaceInv, OffCPU, LiveUsers
<1>1. ASSUME NEW p \in Proc, StepOf(p) PROVE FALSE
  <2>1. current = p
    BY <1>1 DEF StepOf
  <2>2. CASE p = initproc
    <3>1. ~ WaitSleeps(p) /\ ~ SleepWoken(p)
      BY <1>0, <2>2 DEF WaitSleeps, SleepWoken, At, Goto, Inv, Places, PlaceInv, InitPlace
    <3>2. ~ \E q \in User : WaitReaps(p, q)
      BY <1>0, <2>2 DEF WaitReaps, AfterReap
    <3>3. ~ \E l \in Place : Walks(p, l)
      BY <1>0, <2>2 DEF Walks, Goto
    <3>4. ASSUME NEW c \in User, NEW l \in Place, Forks(p, c, l) PROVE FALSE
      <4>1. l \in {"trap_ret", "wait"}
        BY <3>4 DEF Forks
      <4> QED BY <1>0, <2>2, <3>4, <4>1 DEF Forks, DoFork
    <3> QED BY <1>1, <2>2, <3>1, <3>2, <3>3, <3>4 DEF StepOf
  <2>3. CASE p # initproc
    <3>1. pc'[initproc] = pc[initproc]
      <4>1. ASSUME NEW l \in Place, Walks(p, l) PROVE pc'[initproc] = pc[initproc]
        BY <1>0, <2>3, <4>1 DEF Walks, Goto
      <4>2. ASSUME NEW c \in User, NEW l \in Place, Forks(p, c, l)
            PROVE  pc'[initproc] = pc[initproc]
        BY <1>0, <2>3, <4>2 DEF Forks, DoFork
      <4>3. ASSUME DoExit(p) PROVE pc'[initproc] = pc[initproc]
        BY <1>0, <2>3, <4>3 DEF DoExit, Goto
      <4>4. ASSUME NEW q \in User, WaitReaps(p, q) PROVE pc'[initproc] = pc[initproc]
        BY <1>0, <2>3, <4>4 DEF WaitReaps
      <4>5. ASSUME WaitSleeps(p) PROVE pc'[initproc] = pc[initproc]
        BY <1>0, <2>3, <4>5 DEF WaitSleeps, Goto
      <4>6. ASSUME SysSleep(p) PROVE pc'[initproc] = pc[initproc]
        BY <1>0, <2>3, <4>6 DEF SysSleep, Goto
      <4>7. ASSUME SleepWoken(p) PROVE pc'[initproc] = pc[initproc]
        BY <1>0, <2>3, <4>7 DEF SleepWoken, Goto
      <4>8. ASSUME NEW W \in SUBSET Proc, Kills(p, W) PROVE pc'[initproc] = pc[initproc]
        BY <1>0, <2>3, <4>8 DEF Kills, Goto
      <4> QED BY <1>1, <4>1, <4>2, <4>3, <4>4, <4>5, <4>6, <4>7, <4>8 DEF StepOf
    <3> QED BY <1>0, <2>1, <2>3, <3>1
  <2> QED BY <2>2, <2>3
<1>2. CASE Ends
  BY <1>2, ChildlessAlone DEF Ends, schedVars, LiveUsers, Live
<1>3. CASE Stops
  BY <1>0, <1>3 DEF Stops, procVars, LiveUsers, Live
<1>4. ASSUME NEW p \in Proc, NEW q \in Proc, Switch(p, q) PROVE FALSE
  <2>1. pc[p] \in DOMAIN Resume /\ Resume[pc[p]] # "init_done"
    BY <1>4 DEF Switch, Resume
  <2>2. pc[initproc] = "init_done" /\ current = p
    BY <1>0, <1>4, <2>1 DEF Switch, Goto
  <2> QED BY <1>0, <1>4, <2>1, <2>2 DEF Switch, Resume
<1>5. ASSUME NEW E \in SUBSET timers, NEW u \in BOOLEAN, Tick(E, u)
      PROVE  nrProcess' = 2 /\ LiveUsers' = {}
  <2>1. pc[initproc] = "init_done"
    BY <1>0, <1>5 DEF Tick
  <2>2. \A x \in E : FALSE
    BY <1>0, <2>1 DEF Inv, TypeOK, SchedTypeOK, Places, PlaceInv, LiveUsers, Live
  <2>3. \A x \in User : state'[x] = state[x]
    BY <1>5, <2>2 DEF Tick, ClockTick, StateAfterWakeup
  <2> QED BY <1>0, <1>5, <2>1, <2>3 DEF Tick, LiveUsers, Live
<1>6. CASE UNCHANGED vars
  BY <1>0, <1>6 DEF vars, schedVars, procVars, LiveUsers, Live
<1> QED BY <1>1, <1>2, <1>3, <1>4, <1>5, <1>6, StepKinds

-----------------------------------------------------------------------------
(* The invariant, and the theorems.                                         *)

\* The invariant holds when idleproc starts.
LEMMA InitInv == Init => Inv
<1> SUFFICES ASSUME Init PROVE Inv
  OBVIOUS
<1> USE ProcAssumption DEF Proc
<1>1. \A p \in User : state[p] = "unused"
  BY DEF Init
<1>2. LiveUsers = {}
  BY <1>1 DEF LiveUsers, Live
<1>3. Counted
  BY <1>2, FS_EmptySet DEF Init, Counted
<1>4. Places
  BY DEF Init, Places, PlaceInv, IdleInv, UserPlace, InitPlace, IdlePlace, OffCPU
<1>5. RunQueueExact /\ NoAssertFails /\ AllQuit
  BY <1>1 DEF Init, RunQueueExact, NoAssertFails, AllQuit
<1>6. Lineage /\ ParentAlive /\ Rooted /\ NoLostWakeup
  BY <1>1, <1>2 DEF Init, Lineage, ParentAlive, Rooted, NoLostWakeup, LiveUsers, Live
<1> QED BY <1>3, <1>4, <1>5, <1>6, InitTypeOK DEF Inv

\* Every step preserves the invariant.
LEMMA NextInv == Inv /\ [Next]_vars => Inv'
  BY NextTypeOK, NextPlaces, NextRunQueue, NextLineage, NextCounted, NextRooted,
     NextNoLostWakeup, NextAllQuit DEF Inv

(* The inductive invariant holds in every state the kernel reaches.         *)
THEOREM InvHolds == Spec => []Inv
  BY InitInv, NextInv, PTL DEF Spec

(* The run queue holds exactly the runnable processes off the CPU: none is  *)
(* dropped by an interrupt between going to sleep and schedule().           *)
THEOREM RunQueueCorrect == Spec => []RunQueueExact
<1>1. Inv => RunQueueExact
  BY DEF Inv
<1> QED BY <1>1, InvHolds, PTL

(* No wakeup of do_wait is lost.                                            *)
THEOREM WakeupsKept == Spec => []NoLostWakeup
<1>1. Inv => NoLostWakeup
  BY DEF Inv
<1> QED BY <1>1, InvHolds, PTL

(* current->parent names a process that lives, and the processes form a     *)
(* tree under initproc.                                                     *)
THEOREM FamilyTree == Spec => [](ParentAlive /\ Rooted)
<1>1. Inv => ParentAlive /\ Rooted
  BY DEF Inv
<1> QED BY <1>1, InvHolds, PTL

(* timer_list points only into live frames of do_sleep.                     *)
THEOREM TimersCorrect == Spec => []TimerFrames
<1>1. Inv => TimerFrames
  BY ProcAssumption
  DEF Inv, TypeOK, SchedTypeOK, Places, PlaceInv, IdleInv, TimerFrames, Proc
<1> QED BY <1>1, InvHolds, PTL

(* A structure is freed only while its process is off the CPU, and a        *)
(* process past do_exit never runs.                                         *)
THEOREM FreedSafely == Spec => []FreedOffCPU
<1>1. Inv => FreedOffCPU
  BY ProcAssumption
  DEF Inv, TypeOK, SchedTypeOK, Places, PlaceInv, IdleInv, RunQueueExact,
      FreedOffCPU, Proc, Live
<1> QED BY <1>1, InvHolds, PTL

(* The assertions of wakeup_proc, run_timer_list and do_fork never fail,    *)
(* nor do those of init_main about processes: initproc is left without      *)
(* children, with nr_process 2 and alone on proc_list.  Nothing is said of  *)
(* the count of free pages init_main asserts next, which can differ.        *)
THEOREM AssertionsHold == Spec => []NoAssertFails
<1>1. Inv => NoAssertFails
  BY DEF Inv
<1> QED BY <1>1, InvHolds, PTL

(* When init_main leaves its loop every user process is gone.               *)
THEOREM ShutdownClean == Spec => []AllQuit
<1>1. Inv => AllQuit
  BY DEF Inv
<1> QED BY <1>1, InvHolds, PTL

-----------------------------------------------------------------------------
(* Refinement: the kernel's processes live as Lifecycle says.               *)

Status == [p \in User |-> StatusOf(state[p])]
Father == [p \in User |-> IF Live(p) THEN parent[p] ELSE initproc]

\* The initial states map to initial states of Lifecycle.
LEMMA InitRefines == Init => Life!LifeInit
  BY DEF Init, Life!LifeInit, StatusOf, Live, Proc

\* Every step maps to a step of Lifecycle or to none.
LEMMA StepRefines ==
  ASSUME Inv, [Next]_vars
  PROVE  [Life!LifeNext]_Life!lifeVars
<1> DEFINE Goal == Life!LifeNext \/ (Status' = Status /\ Father' = Father)
<1> USE ProcAssumption DEF Proc, Family
<1>0. state \in [Proc -> ProcState] /\ parent \in [Proc -> Proc]
  BY DEF Inv, TypeOK, SchedTypeOK
<1>1. ASSUME Unmoved PROVE Goal
  BY <1>1 DEF Unmoved, Status, Father, Live
<1>2. ASSUME NEW p \in Family, NEW c \in User, Born(p, c) PROVE Goal
  <2>1. Life!Alive(p)
    BY <1>2 DEF Born, Life!Alive, StatusOf
  <2>2. Status[c] = "none"
    BY <1>2 DEF Born, Status, StatusOf
  <2>3. Status' = [Status EXCEPT ![c] = "alive"]
    BY <1>0, <1>2 DEF Born, Status, StatusOf
  <2>4. Father' = [Father EXCEPT ![c] = p]
    BY <1>0, <1>2 DEF Born, Father, Live
  <2> QED BY <2>1, <2>2, <2>3, <2>4 DEF Life!LifeNext, Life!Birth, Status, Father
<1>3. ASSUME NEW p \in User, NEW W \in SUBSET Family, Dies(p, W) PROVE Goal
  <2>1. Status[p] = "alive"
    BY <1>3 DEF Dies, Status, StatusOf
  <2>2. Status' = [Status EXCEPT ![p] = "dead"]
    BY <1>0, <1>3 DEF Dies, Status, StatusOf
  <2>3. Father' = [c \in User |-> IF Father[c] = p THEN initproc ELSE Father[c]]
    BY <1>0, <1>3 DEF Dies, Father, Live, LiveUsers
  <2> QED BY <2>1, <2>2, <2>3 DEF Life!LifeNext, Life!Death, Status, Father
<1>4. ASSUME NEW p \in Family, NEW q \in User, Reaps(p, q) PROVE Goal
  <2>1. Status[q] = "dead"
    BY <1>4 DEF Reaps, Status, StatusOf
  <2>2. Life!Alive(p) /\ Father[q] = p
    <3>1. state[p] = "runnable" \/ p = initproc
      BY <1>0, <1>4 DEF Reaps, ProcState, Inv, Places, PlaceInv
    <3> QED BY <1>4, <3>1 DEF Reaps, Life!Alive, StatusOf, Father, Live
  <2>3. Status' = [Status EXCEPT ![q] = "none"]
    BY <1>0, <1>4 DEF Reaps, Status, StatusOf
  <2>4. Father' = [Father EXCEPT ![q] = initproc]
    BY <1>0, <1>4 DEF Reaps, Father, Live
  <2> QED BY <2>1, <2>2, <2>3, <2>4 DEF Life!LifeNext, Life!Burial, Status, Father
<1>5. ASSUME NEW p \in Family, Sleeps(p) PROVE Goal
  BY <1>0, <1>5 DEF Sleeps, Status, Father, StatusOf, Live
<1>6. ASSUME NEW W \in SUBSET Family, Wakes(W) PROVE Goal
  BY <1>0, <1>6 DEF Wakes, Status, Father, StatusOf, Live
<1>7. ASSUME NEW p \in Proc, NEW q \in Proc, Switches(p, q) PROVE Goal
  BY <1>7 DEF Switches, Status, Father, Live
<1>8. Goal
  BY <1>1, <1>2, <1>3, <1>4, <1>5, <1>6, <1>7, Effects
<1> QED BY <1>8 DEF Life!lifeVars, Status, Father

(* fork, do_exit and do_wait implement the life cycle programs rely on.     *)
THEOREM LifecycleImplemented == Spec => ImplementsLifecycle
<1>1. Inv /\ [Next]_vars => [Life!LifeNext]_Life!lifeVars
  BY StepRefines
<1> QED BY <1>1, InitRefines, InvHolds, PTL
        DEF Spec, ImplementsLifecycle, Life!LifeSpec

=============================================================================
