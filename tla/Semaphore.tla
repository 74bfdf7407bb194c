------------------------------ MODULE Semaphore ------------------------------
(***************************************************************************)
(* Kernel threads that sleep and use semaphores (kern/sync/sem.c, wait.c)   *)
(* on the scheduling core.  A kernel thread keeps the CPU until it calls    *)
(* schedule(): in down, in do_sleep, or when it quits; only the timer       *)
(* interrupt comes in between.  What the threads do with the semaphores is  *)
(* left to the modules that extend this one, as labels of pc.               *)
(*                                                                          *)
(* Kernel threads are not preempted, so the slice a tick takes from them is *)
(* of no consequence and left out.                                          *)
(***************************************************************************)
EXTENDS Sched, Sequences

CONSTANT Sem  \* the semaphores, each a tuple that names it

VARIABLES value,        \* value[s]
          waiters,      \* the wait queue of s, first come first
          wakeupFlags,  \* wakeup_flags of the wait_t that p has in down
          pc,           \* where p is: a label of the client, or one below
          cont,         \* the label p goes to when down or do_sleep returns
          semOf         \* the semaphore p called down for

semVars == <<value, waiters, wakeupFlags>>
threadVars == <<pc, cont, semOf>>
allVars == <<schedVars, semVars, threadVars>>

NoSem == <<>>
NoLabel == "no label"

\* Calls of schedule(), and where p is when they return.
KResume == [down_sched  |-> "down_woken",
            sleep_sched |-> "sleep_woken",
            quit_sched  |-> "quit_sched",
            idle_sched  |-> "idle",
            reap_sched  |-> "reap"]

ThreadInit(initial, start) ==
    /\ current = idleproc
    /\ state = [p \in Proc |-> IF p = initproc THEN "sleeping" ELSE "runnable"]
    /\ waitState = [p \in Proc |-> IF p = initproc THEN "child" ELSE "none"]
    /\ needResched = [p \in Proc |-> p = idleproc]
    /\ runq = User
    /\ timers = {}
    /\ panic = "no"
    /\ value = initial
    /\ waiters = [s \in Sem |-> <<>>]
    /\ wakeupFlags = [p \in User |-> "interrupted"]
    /\ pc = [p \in Proc |-> IF p = idleproc THEN "idle"
                            ELSE IF p = initproc THEN "reap" ELSE start]
    /\ cont = [p \in User |-> NoLabel]
    /\ semOf = [p \in User |-> NoSem]

At(p, l) == panic = "no" /\ current = p /\ pc[p] = l

Goto(p, l) == pc' = [pc EXCEPT ![p] = l]

-----------------------------------------------------------------------------
(* up and down, for the current thread p, which goes on at label to.        *)

\* Mutant: the unit is counted whether or not somebody waits.
UpCounts_Always(s) ==
    /\ value' = [value EXCEPT ![s] = @ + 1]
    /\ UNCHANGED <<schedVars, waiters, wakeupFlags>>

\* __up with nobody waiting.
UpCounts(s) ==
    /\ waiters[s] = <<>>
    /\ value' = [value EXCEPT ![s] = @ + 1]
    /\ UNCHANGED <<schedVars, waiters, wakeupFlags>>

\* Mutant: the unit handed over is counted as well.
UpWakes_AlsoCounts(s) ==
    /\ waiters[s] # <<>>
    /\ LET first == Head(waiters[s])
       IN  /\ waiters' = [waiters EXCEPT ![s] = Tail(@)]
           /\ wakeupFlags' = [wakeupFlags EXCEPT ![first] = "ksem"]
           /\ state' = StateAfterWakeup({first})
           /\ waitState' = WaitAfterWakeup({first})
           /\ runq' = QueueAfterWakeup({first})
    /\ value' = [value EXCEPT ![s] = @ + 1]
    /\ UNCHANGED <<current, needResched, timers, panic>>

\* __up hands the unit to the first waiter: value stays as it is.
UpWakes(s) ==
    /\ waiters[s] # <<>>
    /\ LET first == Head(waiters[s])
       IN  /\ Asserted(waitState[first] = "ksem" /\ WakeupAsserts({first}))
           /\ waiters' = [waiters EXCEPT ![s] = Tail(@)]
           /\ wakeupFlags' = [wakeupFlags EXCEPT ![first] = "ksem"]
           /\ state' = StateAfterWakeup({first})
           /\ waitState' = WaitAfterWakeup({first})
           /\ runq' = QueueAfterWakeup({first})
    /\ UNCHANGED <<value, current, needResched, timers>>

Up(p, s, to) ==
    /\ UpCounts(s) \/ UpWakes(s)
    /\ Goto(p, to)
    /\ UNCHANGED <<cont, semOf>>

\* __down of a positive value.
DownTakes(p, s, to) ==
    /\ value[s] > 0
    /\ value' = [value EXCEPT ![s] = @ - 1]
    /\ Goto(p, to)
    /\ UNCHANGED <<schedVars, waiters, wakeupFlags, cont, semOf>>

\* Mutant: list_add instead of list_add_before puts p at the head of the queue.
DownSleeps_AtHead(p, s, to) ==
    /\ ~ value[s] > 0
    /\ state' = [state EXCEPT ![p] = "sleeping"]
    /\ waitState' = [waitState EXCEPT ![p] = "ksem"]
    /\ wakeupFlags' = [wakeupFlags EXCEPT ![p] = "interrupted"]
    /\ waiters' = [waiters EXCEPT ![s] = <<p>> \o @]
    /\ pc' = [pc EXCEPT ![p] = "down_sched"]
    /\ cont' = [cont EXCEPT ![p] = to]
    /\ semOf' = [semOf EXCEPT ![p] = s]
    /\ UNCHANGED <<current, needResched, runq, timers, panic, value>>

\* __down of zero: wait_current_set, then schedule().
DownSleeps(p, s, to) ==
    /\ ~ value[s] > 0
    /\ state' = [state EXCEPT ![p] = "sleeping"]
    /\ waitState' = [waitState EXCEPT ![p] = "ksem"]
    /\ wakeupFlags' = [wakeupFlags EXCEPT ![p] = "interrupted"]
    /\ waiters' = [waiters EXCEPT ![s] = Append(@, p)]
    /\ pc' = [pc EXCEPT ![p] = "down_sched"]
    /\ cont' = [cont EXCEPT ![p] = to]
    /\ semOf' = [semOf EXCEPT ![p] = s]
    /\ UNCHANGED <<current, needResched, runq, timers, panic, value>>

Down(p, s, to) == DownTakes(p, s, to) \/ DownSleeps(p, s, to)

wait_in_queue(p) ==
    \E k \in DOMAIN waiters[semOf[p]] : waiters[semOf[p]][k] = p

wait_queue_del(p) ==
    [waiters EXCEPT ![semOf[p]] = SelectSeq(@, LAMBDA q : q # p)]

(* Back from schedule() in __down: wait_current_del, and the assertion of   *)
(* down that nothing but an up has woken it.                                *)
DownWoken(p) ==
    /\ At(p, "down_woken")
    /\ Asserted(wakeupFlags[p] = "ksem")
    /\ waiters' = IF wait_in_queue(p) THEN wait_queue_del(p) ELSE waiters
    /\ Goto(p, cont[p])
    /\ cont' = [cont EXCEPT ![p] = NoLabel]
    /\ semOf' = [semOf EXCEPT ![p] = NoSem]
    /\ wakeupFlags' = [wakeupFlags EXCEPT ![p] = "interrupted"]
    /\ UNCHANGED <<current, state, waitState, needResched, runq, timers, value>>

-----------------------------------------------------------------------------
(* Sleeping, quitting, and the other threads of the kernel.                 *)

Sleep(p, to) ==
    /\ StartSleep(p)
    /\ Goto(p, "sleep_sched")
    /\ cont' = [cont EXCEPT ![p] = to]
    /\ UNCHANGED <<semVars, semOf>>

SleepEnds(p) ==
    /\ At(p, "sleep_woken")
    /\ EndSleep(p)
    /\ Goto(p, cont[p])
    /\ cont' = [cont EXCEPT ![p] = NoLabel]
    /\ UNCHANGED <<semVars, semOf>>

\* The thread's function returns: do_exit wakes initproc, its parent.
Quit(p) ==
    LET W == {q \in {initproc} : waitState[q] = "child"}
    IN  /\ state' = [StateAfterWakeup(W) EXCEPT ![p] = "zombie"]
        /\ waitState' = WaitAfterWakeup(W)
        /\ runq' = QueueAfterWakeup(W)
        /\ Goto(p, "quit_sched")
        /\ UNCHANGED <<current, needResched, timers, panic, semVars, cont, semOf>>

\* initproc in its loop of do_wait: it reaps a zombie,
Reap(p) ==
    /\ At(initproc, "reap")
    /\ state[p] = "zombie"
    /\ state' = [state EXCEPT ![p] = "unused"]
    /\ Goto(initproc, "reap_sched")
    /\ UNCHANGED <<current, waitState, needResched, runq, timers, panic,
                   semVars, cont, semOf>>

\* sleeps while there are threads and none is a zombie,
ReapSleeps ==
    /\ At(initproc, "reap")
    /\ \E p \in User : Live(p)
    /\ \A p \in User : state[p] # "zombie"
    /\ state' = [state EXCEPT ![initproc] = "sleeping"]
    /\ waitState' = [waitState EXCEPT ![initproc] = "child"]
    /\ Goto(initproc, "reap_sched")
    /\ UNCHANGED <<current, needResched, runq, timers, panic,
                   semVars, cont, semOf>>

\* and shuts the kernel down when all are gone.
ReapDone ==
    /\ At(initproc, "reap")
    /\ \A p \in User : ~ Live(p)
    /\ panic' = "init_exit"
    /\ UNCHANGED <<current, state, waitState, needResched, runq, timers,
                   semVars, threadVars>>

Idle ==
    /\ At(idleproc, "idle")
    /\ needResched[idleproc]
    /\ Goto(idleproc, "idle_sched")
    /\ UNCHANGED <<schedVars, semVars, cont, semOf>>

Switch(p, next) ==
    /\ panic = "no"
    /\ current = p
    /\ pc[p] \in DOMAIN KResume
    /\ Schedule(next)
    /\ Goto(p, KResume[pc[p]])
    /\ UNCHANGED <<semVars, cont, semOf>>

Tick(E) ==
    /\ panic = "no"
    /\ ClockTick(E, FALSE)
    /\ UNCHANGED <<semVars, threadVars>>

\* The steps of the kernel that a client module adds its own to.
KernelNext ==
    \/ \E p \in User : DownWoken(p) \/ SleepEnds(p) \/ Reap(p)
    \/ ReapSleeps
    \/ ReapDone
    \/ Idle
    \/ \E p, q \in Proc : Switch(p, q)
    \/ \E E \in SUBSET timers : Tick(E)

-----------------------------------------------------------------------------

(* A semaphore never holds a unit back while somebody waits for one, and    *)
(* its queue holds exactly the threads asleep for it, each of them once:    *)
(* __up and __down lose no wakeup and duplicate none.                       *)
NoUnitHeldBack ==
    \A s \in Sem :
        /\ value[s] > 0 => waiters[s] = <<>>
        /\ \A p \in User :
              Cardinality({i \in DOMAIN waiters[s] : waiters[s][i] = p}) =
                  IF waitState[p] = "ksem" /\ semOf[p] = s THEN 1 ELSE 0

=============================================================================
