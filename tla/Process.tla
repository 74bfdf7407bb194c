------------------------------- MODULE Process -------------------------------
(***************************************************************************)
(* The life cycle of processes (kern/process/proc.c) over the scheduling    *)
(* core: fork, exit, wait, kill, sleep and yield, the return path of a trap *)
(* (kern/trap/trap.c) and the timer interrupt.                              *)
(*                                                                          *)
(* A step of the current process runs from one point where it can be seen   *)
(* by others to the next: from user mode or from a return of schedule() up  *)
(* to the next call of schedule() or the return to user mode.  The timer    *)
(* interrupt may hit between any two steps, in particular after a process   *)
(* marked itself sleeping and before it calls schedule().                   *)
(***************************************************************************)
EXTENDS Sched

CONSTANTS MaxProcess,  \* MAX_PROCESS
          AnyChild,    \* the pid 0 of do_wait: wait for any child
          Killable     \* processes the programs send kill to

ASSUME MaxProcessAssumption == MaxProcess \in Nat /\ MaxProcess >= 3
ASSUME AnyChildAssumption == AnyChild \notin Proc
ASSUME KillableAssumption == Killable \subseteq User \cup {initproc}

VARIABLES parent,     \* parent[p], meaningful for a live p
          exiting,    \* PF_EXITING of flags[p]
          pc,         \* where p is, see Place
          waitFor,    \* argument of p's do_wait
          nrProcess   \* nr_process

procVars == <<parent, exiting, pc, waitFor, nrProcess>>
vars == <<schedVars, procVars>>

(* Points of the code a process is at.  The *_sched ones are the calls of   *)
(* schedule(), and Resume says where the process goes on after the call.    *)
Resume == [idle_sched  |-> "idle",
           preempt     |-> "user",
           loop_sched  |-> "wait",
           wait_sched  |-> "wait_woken",
           sleep_sched |-> "sleep_woken",
           exit_sched  |-> "exit_sched"]

UserPlace == {"user", "trap_ret", "wait", "wait_sched", "wait_woken",
              "sleep_sched", "sleep_woken", "preempt", "exit_sched"}

InitPlace == {"init_start", "init_done", "wait", "wait_sched", "wait_woken",
              "loop_sched"}

IdlePlace == {"idle", "idle_sched"}

Place == UserPlace \cup InitPlace \cup IdlePlace

\* Where a process can be that does not have the CPU.
OffCPU == {"idle", "user", "wait_woken", "sleep_woken", "exit_sched",
           "init_start", "wait"}

TypeOK ==
    /\ SchedTypeOK
    /\ parent \in [Proc -> Proc]
    /\ exiting \in [Proc -> BOOLEAN]
    /\ pc \in [Proc -> Place]
    /\ waitFor \in [Proc -> User \cup {AnyChild}]
    /\ nrProcess \in Int

\* proc_init has run: idleproc is current and initproc was just forked.
Init ==
    /\ current = idleproc
    /\ state = [p \in Proc |-> IF p \in User THEN "unused" ELSE "runnable"]
    /\ waitState = [p \in Proc |-> "none"]
    /\ needResched = [p \in Proc |-> p = idleproc]
    /\ runq = {initproc}
    /\ panic = "no"
    /\ parent = [p \in Proc |-> idleproc]
    /\ exiting = [p \in Proc |-> FALSE]
    /\ pc = [p \in Proc |-> IF p = idleproc THEN "idle"
                            ELSE IF p = initproc THEN "init_start" ELSE "user"]
    /\ waitFor = [p \in Proc |-> AnyChild]
    /\ timers = {}
    /\ nrProcess = 2

Children(p) == {q \in User : Live(q) /\ parent[q] = p}

\* The current process p is at l, and the kernel has not stopped.
At(p, l) == panic = "no" /\ current = p /\ pc[p] = l

Goto(p, l) == pc' = [pc EXCEPT ![p] = l]

-----------------------------------------------------------------------------
(* Processes coming and going.                                              *)

(* do_fork with every allocation succeeding: c becomes a child of p, starts *)
(* in user mode and is woken; p goes on at l.                               *)
DoFork(p, c, l) ==
    /\ state[c] = "unused"
    /\ nrProcess < MaxProcess
    /\ Asserted(waitState[p] = "none")
    /\ parent' = [parent EXCEPT ![c] = p]
    /\ exiting' = [exiting EXCEPT ![c] = FALSE]
    /\ needResched' = [needResched EXCEPT ![c] = FALSE]
    /\ pc' = [pc EXCEPT ![p] = l, ![c] = "user"]
    /\ nrProcess' = nrProcess + 1
    /\ state' = StateAfterWakeup({c})
    /\ waitState' = WaitAfterWakeup({c})
    /\ runq' = QueueAfterWakeup({c})
    /\ UNCHANGED <<current, waitFor, timers>>

SysFork(p, c) == At(p, "user") /\ DoFork(p, c, "trap_ret")

\* Mutants: do_exit does not wake an initproc that adopts a zombie; it wakes none
\* but such an initproc; nobody adopts.
WokenByExit_ParentOnly(p) == {q \in {parent[p]} : waitState[q] = "child"}
WokenByExit_AdopterOnly(p) ==
    {q \in {initproc} : /\ waitState[q] = "child"
                        /\ \E c \in Children(p) : state[c] = "zombie"}
ParentAfterExit_NoAdoption(p) == parent

(* do_exit of the current process p: it becomes a zombie, wakes the parent  *)
(* that waits for children, and hands its own children to initproc, waking  *)
(* initproc when it waits and one of them is a zombie.                      *)
WokenByExit(p) ==
    {q \in Proc : /\ waitState[q] = "child"
                  /\ \/ q = parent[p]
                     \/ q = initproc /\ \E c \in Children(p) : state[c] = "zombie"}

ParentAfterExit(p) ==
    [q \in Proc |-> IF q \in Children(p) THEN initproc ELSE parent[q]]

DoExit(p) ==
    LET W == WokenByExit(p)
    IN  /\ Asserted(WakeupAsserts(W))
        /\ state' = [StateAfterWakeup(W) EXCEPT ![p] = "zombie"]
        /\ waitState' = WaitAfterWakeup(W)
        /\ runq' = QueueAfterWakeup(W)
        /\ parent' = ParentAfterExit(p)
        /\ waitFor' = [waitFor EXCEPT ![p] = AnyChild]
        /\ Goto(p, "exit_sched")
        /\ UNCHANGED <<current, needResched, exiting, timers, nrProcess>>

\* do_exit called by initproc: panic("initproc exit.") stops the kernel.
InitExit ==
    /\ panic' = "init_exit"
    /\ UNCHANGED <<current, state, waitState, needResched, runq, timers, procVars>>

SysExit(p) == At(p, "user") /\ DoExit(p)

-----------------------------------------------------------------------------
(* do_wait.                                                                 *)

SysWait(p, target) ==
    /\ At(p, "user")
    /\ waitFor' = [waitFor EXCEPT ![p] = target]
    /\ Goto(p, "wait")
    /\ UNCHANGED <<schedVars, parent, exiting, nrProcess>>

\* The children of p that its do_wait looks at.
Awaited(p) == {q \in Children(p) : waitFor[p] \in {AnyChild, q}}

\* Where p goes when its do_wait returns.
AfterReap(p)    == IF p = initproc THEN "loop_sched" ELSE "trap_ret"
AfterNoChild(p) == IF p = initproc THEN "init_done" ELSE "trap_ret"

(* Label found: a zombie child is unlinked and its structure freed.  What a *)
(* freed structure holds is of no consequence; it is cleared, as is waitFor *)
(* when do_wait returns.                                                    *)
WaitReaps(p, q) ==
    /\ At(p, "wait")
    /\ q \in Awaited(p)
    /\ state[q] = "zombie"
    /\ state' = [state EXCEPT ![q] = "unused"]
    /\ nrProcess' = nrProcess - 1
    /\ parent' = [parent EXCEPT ![q] = idleproc]
    /\ exiting' = [exiting EXCEPT ![q] = FALSE]
    /\ waitFor' = [waitFor EXCEPT ![p] = AnyChild]
    /\ pc' = [pc EXCEPT ![p] = AfterReap(p), ![q] = "user"]
    /\ UNCHANGED <<current, waitState, needResched, runq, panic, timers>>

\* There are children to wait for and none is a zombie: p goes to sleep.
WaitSleeps(p) ==
    /\ At(p, "wait")
    /\ Awaited(p) # {}
    /\ \A q \in Awaited(p) : state[q] # "zombie"
    /\ state' = [state EXCEPT ![p] = "sleeping"]
    /\ waitState' = [waitState EXCEPT ![p] = "child"]
    /\ Goto(p, "wait_sched")
    /\ UNCHANGED <<current, needResched, runq, panic,
                   parent, exiting, waitFor, timers, nrProcess>>

WaitFails(p) ==
    /\ At(p, "wait")
    /\ Awaited(p) = {}
    /\ waitFor' = [waitFor EXCEPT ![p] = AnyChild]
    /\ Goto(p, AfterNoChild(p))
    /\ UNCHANGED <<schedVars, parent, exiting, nrProcess>>

\* Back from schedule() in do_wait: a killed process exits, others look again.
WaitWoken(p) ==
    /\ At(p, "wait_woken")
    /\ IF exiting[p]
       THEN IF p = initproc THEN InitExit ELSE DoExit(p)
       ELSE /\ Goto(p, "wait")
            /\ UNCHANGED <<schedVars, parent, exiting, waitFor, nrProcess>>

-----------------------------------------------------------------------------
(* The other system calls.                                                  *)

\* do_kill of a process that is found and is not already exiting.
SysKill(p, q) ==
    /\ At(p, "user")
    /\ Live(q)
    /\ ~ exiting[q]
    /\ exiting' = [exiting EXCEPT ![q] = TRUE]
    /\ LET W == {x \in {q} : waitState[x] \in Interruptible}
       IN  /\ Asserted(WakeupAsserts(W))
           /\ state' = StateAfterWakeup(W)
           /\ waitState' = WaitAfterWakeup(W)
           /\ runq' = QueueAfterWakeup(W)
    /\ Goto(p, "trap_ret")
    /\ UNCHANGED <<current, needResched, parent, waitFor, timers, nrProcess>>

SysSleep(p) ==
    /\ At(p, "user")
    /\ StartSleep(p)
    /\ Goto(p, "sleep_sched")
    /\ UNCHANGED <<parent, exiting, waitFor, nrProcess>>

\* Mutant: no del_timer.
SleepWoken_KeepsTimer(p) ==
    /\ At(p, "sleep_woken")
    /\ Goto(p, "trap_ret")
    /\ UNCHANGED <<schedVars, parent, exiting, waitFor, nrProcess>>

SleepWoken(p) ==
    /\ At(p, "sleep_woken")
    /\ EndSleep(p)
    /\ Goto(p, "trap_ret")
    /\ UNCHANGED <<parent, exiting, waitFor, nrProcess>>

SysYield(p) ==
    /\ At(p, "user")
    /\ needResched' = [needResched EXCEPT ![p] = TRUE]
    /\ Goto(p, "trap_ret")
    /\ UNCHANGED <<current, state, waitState, runq, panic,
                   parent, exiting, waitFor, timers, nrProcess>>

(* A call that returns without touching any of this state: an error return  *)
(* of do_fork (too many processes, no memory), do_kill of a process that is *)
(* gone or already exiting, do_sleep(0).                                    *)
SysReturns(p) ==
    /\ At(p, "user")
    /\ Goto(p, "trap_ret")
    /\ UNCHANGED <<schedVars, parent, exiting, waitFor, nrProcess>>

\* Mutant: PF_EXITING is not checked.
TrapReturn_NoExitCheck(p) ==
    /\ At(p, "trap_ret")
    /\ Goto(p, IF needResched[p] THEN "preempt" ELSE "user")
    /\ UNCHANGED <<schedVars, parent, exiting, waitFor, nrProcess>>

(* The end of trap() for a trap from user mode: first the check of          *)
(* PF_EXITING, then the one of need_resched.                                *)
TrapReturn(p) ==
    /\ At(p, "trap_ret")
    /\ IF exiting[p]
       THEN DoExit(p)
       ELSE /\ Goto(p, IF needResched[p] THEN "preempt" ELSE "user")
            /\ UNCHANGED <<schedVars, parent, exiting, waitFor, nrProcess>>

-----------------------------------------------------------------------------
(* The two kernel threads.                                                  *)

\* cpu_idle.
IdleLoop ==
    /\ At(idleproc, "idle")
    /\ needResched[idleproc]
    /\ Goto(idleproc, "idle_sched")
    /\ UNCHANGED <<schedVars, parent, exiting, waitFor, nrProcess>>

\* init_main starts user_main, then waits for any child in a loop.
InitStart(c) == At(initproc, "init_start") /\ DoFork(initproc, c, "wait")

(* The end of init_main: its assertions, then its return into do_exit.      *)
(* initproc must be alone: without children, one of two in nr_process, and  *)
(* the only one on proc_list.  There must also be as many free pages as     *)
(* before user_main was started.  They are fewer if kmalloc took a page for *)
(* its heap meanwhile, since kfree gives none of those back (heapPages of   *)
(* Slob only grows): memory is not state here, so heapGrew is either.       *)
(* kallocated(), compared last, is 0 at all times.  fs_cleanup before them  *)
(* waits for nobody and is Shutdown of Sfs.                                 *)
InitDone(heapGrew) ==
    /\ At(initproc, "init_done")
    /\ panic' = IF \/ Children(initproc) # {}
                   \/ nrProcess # 2
                   \/ \E p \in User : Live(p)
                THEN "assert"
                ELSE IF heapGrew THEN "pages_missing" ELSE "init_exit"
    /\ UNCHANGED <<current, state, waitState, needResched, runq, timers, procVars>>

-----------------------------------------------------------------------------
(* Calls of schedule() and the timer interrupt.                             *)

Switch(p, next) ==
    /\ panic = "no"
    /\ current = p
    /\ pc[p] \in DOMAIN Resume
    /\ Schedule(next)
    /\ Goto(p, Resume[pc[p]])
    /\ UNCHANGED <<parent, exiting, waitFor, nrProcess>>

(* The timer interrupt.  From user mode the trap returns through            *)
(* TrapReturn, from kernel mode it resumes what it interrupted.             *)
Tick(E, sliceUsed) ==
    /\ panic = "no"
    /\ ClockTick(E, sliceUsed)
    /\ pc' = IF pc[current] = "user" THEN [pc EXCEPT ![current] = "trap_ret"]
                                     ELSE pc
    /\ UNCHANGED <<parent, exiting, waitFor, nrProcess>>

-----------------------------------------------------------------------------
(* What a program chooses to do.                                            *)
UserStep(p) ==
    \/ \E c \in User : SysFork(p, c)
    \/ SysExit(p)
    \/ \E t \in User \cup {AnyChild} : SysWait(p, t)
    \/ \E q \in Killable : SysKill(p, q)
    \/ SysSleep(p)
    \/ SysYield(p)
    \/ SysReturns(p)

\* What the kernel does on its own for the process it runs.
KernelStep(p) ==
    \/ \E q \in User : WaitReaps(p, q)
    \/ WaitSleeps(p)
    \/ WaitFails(p)
    \/ WaitWoken(p)
    \/ SleepWoken(p)
    \/ TrapReturn(p)

ThreadStep ==
    \/ IdleLoop
    \/ \E c \in User : InitStart(c)
    \/ \E heapGrew \in BOOLEAN : InitDone(heapGrew)

Next ==
    \/ \E p \in User : UserStep(p)
    \/ \E p \in Proc : KernelStep(p)
    \/ ThreadStep
    \/ \E p, q \in Proc : Switch(p, q)
    \/ \E E \in SUBSET timers, sliceUsed \in BOOLEAN : Tick(E, sliceUsed)

Spec == Init /\ [][Next]_vars

(* The CPU goes on executing kernel code; a process that is in the run      *)
(* queue again and again is picked (every pick adds to its stride, so it    *)
(* cannot be the largest for ever); the clock ticks, every timer runs down  *)
(* and every slice is used up.  Nothing is assumed of programs.             *)
Dispatch(q)   == \E p \in Proc : Switch(p, q) /\ q # p
SomeSwitch    == \E p, q \in Proc : Switch(p, q)
Expire(p)     == \E E \in SUBSET timers : p \in E /\ Tick(E, FALSE)
SliceUsed     == Tick({}, TRUE)

Fairness ==
    /\ WF_vars((\E p \in Proc : KernelStep(p)) \/ ThreadStep \/ SomeSwitch)
    /\ \A q \in Proc : SF_vars(Dispatch(q))
    /\ \A p \in User : WF_vars(Expire(p))
    /\ WF_vars(SliceUsed)

FairSpec == Spec /\ Fairness

-----------------------------------------------------------------------------
(* Safety.                                                                  *)

(* No wakeup of do_wait is lost: a process asleep in do_wait still has a    *)
(* child to wait for and none that is a zombie already, also when the       *)
(* zombie came to it as an orphan while it slept.                           *)
NoLostWakeup ==
    \A p \in Proc :
        state[p] = "sleeping" /\ waitState[p] = "child" =>
            /\ Awaited(p) # {}
            /\ \A q \in Awaited(p) : state[q] # "zombie"

(* The parent pointer of a process never names a structure that is freed or *)
(* only waits to be: do_exit follows current->parent without a check.       *)
ParentAlive ==
    \A p \in User : Live(p) => state[parent[p]] \in {"runnable", "sleeping"}

(* The processes form a tree under initproc: no set of them is its own      *)
(* ancestry, even when structures are freed and used again.                 *)
Rooted ==
    \A S \in SUBSET {p \in User : Live(p)} :
        S # {} => \E p \in S : parent[p] \notin S

(* A timer lives in the stack frame of do_sleep: timer_list never points to *)
(* the timer of a process that has left do_sleep, and a process that sleeps *)
(* there has its timer on the list.                                         *)
TimerFrames ==
    /\ \A p \in timers : pc[p] \in {"sleep_sched", "sleep_woken"}
    /\ \A p \in Proc : waitState[p] = "timer" => p \in timers

(* When do_wait tells init_main that it has no child left, every user       *)
(* process is gone and nr_process is back at 2.                             *)
AllQuit ==
    pc[initproc] = "init_done" => nrProcess = 2 /\ \A p \in User : ~ Live(p)

(* The structure and kernel stack of a process are freed only while it is   *)
(* off the CPU, and a process past do_exit never runs again.                *)
FreedOffCPU ==
    panic = "no" => /\ Live(current)
                    /\ state[current] = "zombie" => pc[current] = "exit_sched"
                    /\ \A p \in Proc : p \in runq => state[p] = "runnable"

-----------------------------------------------------------------------------
(* How the place of a process, its state, its wait_state and its timer go   *)
(* together: the part of the inductive invariant that the properties above  *)
(* need and do not say.                                                     *)

PlaceInv(p) ==
    /\ pc[p] \in IF p = initproc THEN InitPlace ELSE UserPlace
    /\ p # current => pc[p] \in OffCPU
    /\ state[p] = "zombie" <=> pc[p] = "exit_sched"
    /\ state[p] = "sleeping" <=> waitState[p] # "none"
    /\ waitState[p] \in {"none", "child", "timer"}
    /\ waitState[p] = "child" =>
           pc[p] = IF p = current THEN "wait_sched" ELSE "wait_woken"
    /\ waitState[p] = "timer" =>
           /\ p \in timers
           /\ pc[p] = IF p = current THEN "sleep_sched" ELSE "sleep_woken"
    /\ p \in timers => pc[p] \in {"sleep_sched", "sleep_woken"}
    /\ state[p] = "unused" => p \in User /\ p # current /\ pc[p] = "user"

IdleInv ==
    /\ state[idleproc] = "runnable"
    /\ waitState[idleproc] = "none"
    /\ pc[idleproc] \in IdlePlace
    /\ current # idleproc => pc[idleproc] = "idle"

Places == IdleInv /\ \A p \in User \cup {initproc} : PlaceInv(p)

-----------------------------------------------------------------------------
(* The process life cycle as programs see it, recovered from the kernel's   *)
(* state, and the claim that the kernel implements it.                      *)

StatusOf(s) == CASE s = "unused" -> "none"
                 [] s = "zombie" -> "dead"
                 [] OTHER -> "alive"

Life == INSTANCE Lifecycle WITH
            Member <- User,
            Root <- initproc,
            status <- [p \in User |-> StatusOf(state[p])],
            father <- [p \in User |-> IF Live(p) THEN parent[p] ELSE initproc]

(* fork, do_exit and do_wait, spread over sleeping, waking and scheduling,  *)
(* keep the promise: every process is collected exactly once, by a parent   *)
(* that lives, and orphans pass to initproc in the step that orphans them.  *)
ImplementsLifecycle == Life!LifeSpec

-----------------------------------------------------------------------------
(* Liveness, as long as the kernel has not stopped.                         *)

Stopped == panic # "no"

(* Once programs stop forking, every zombie that belongs to initproc, an     *)
(* orphan in particular, is reaped.  While they go on, the search of do_wait *)
(* may find a younger zombie each time and leave an old one for ever.        *)
NoFork == \A p, c \in User : ~ SysFork(p, c)

OrphansReaped ==
    <>[][NoFork]_vars =>
        \A p \in User :
            (state[p] = "zombie" /\ parent[p] = initproc) ~> (~ Live(p) \/ Stopped)

(* A process that sleeps in do_sleep gets out of it: its wakeup is neither  *)
(* lost in the window before schedule() nor is it left out of the queue.    *)
SleepReturns ==
    \A p \in User : (pc[p] = "sleep_sched") ~> (pc[p] = "trap_ret" \/ Stopped)

(* What do_kill promises, "kill process with pid by set this process's      *)
(* flags with PF_EXITING" (proc.c:938): a process that was killed exits.    *)
KilledExits ==
    \A p \in User : exiting[p] ~> (state[p] \in {"zombie", "unused"} \/ Stopped)

(* A killed process does not go on in user mode: it exits, or it is caught  *)
(* in the sleep of a system call it made before it noticed.                 *)
KilledStopsRunning ==
    \A p \in User :
        exiting[p] ~> (state[p] # "runnable" \/ Stopped)

=============================================================================
