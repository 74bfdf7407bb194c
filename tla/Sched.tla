-------------------------------- MODULE Sched --------------------------------
(***************************************************************************)
(* The scheduling core of the kernel (kern/schedule/sched.c and proc_run of *)
(* kern/process/proc.c): which process owns the one CPU, the state of every *)
(* process structure, the run queue, and the two primitives everything else *)
(* is built from, wakeup_proc and schedule.  The order in which the         *)
(* scheduling class picks processes is abstracted here to a choice from the *)
(* run queue.                                                               *)
(*                                                                          *)
(* The kernel is not preemptible: code in kernel mode keeps the CPU until   *)
(* it calls schedule, and only interrupt handlers run in between.           *)
(***************************************************************************)
EXTENDS Integers, FiniteSets

CONSTANTS User,      \* process structures of user processes
          idleproc,  \* pid 0, never on the run queue
          initproc   \* pid 1, adopts orphans

ASSUME ProcAssumption == /\ idleproc \notin User
                         /\ initproc \notin User
                         /\ idleproc # initproc

Proc == User \cup {idleproc, initproc}

VARIABLES current,      \* the process that owns the CPU
          state,        \* state[p], "unused" for a structure not allocated
          waitState,    \* wait_state[p]
          needResched,  \* need_resched[p]
          runq,         \* processes linked in the run queue rq
          timers,       \* processes with a timer on timer_list
          panic         \* "no", or why the kernel stopped

schedVars == <<current, state, waitState, needResched, runq, timers, panic>>

ProcState == {"unused", "runnable", "sleeping", "zombie"}

\* wait_state values that carry the bit WT_INTERRUPTED.
Interruptible == {"child", "timer", "kbd"}

WaitState == Interruptible \cup {"none", "ksem"}

SchedTypeOK ==
    /\ current \in Proc
    /\ state \in [Proc -> ProcState]
    /\ waitState \in [Proc -> WaitState]
    /\ needResched \in [Proc -> BOOLEAN]
    /\ runq \subseteq Proc \ {idleproc}
    /\ timers \subseteq User
    /\ panic \in {"no", "assert", "init_exit", "pages_missing"}

Live(p) == state[p] # "unused"

-----------------------------------------------------------------------------
(* wakeup_proc, for every process of W within one interrupts-off section.   *)
(* A runnable process is left as it is (the code warns); a zombie fails     *)
(* the assertion.                                                           *)

NotRunnable(W) == {p \in W : state[p] # "runnable"}

StateAfterWakeup(W) ==
    [p \in Proc |-> IF p \in W THEN "runnable" ELSE state[p]]

WaitAfterWakeup(W) ==
    [p \in Proc |-> IF p \in NotRunnable(W) THEN "none" ELSE waitState[p]]

\* Mutant: no check that the woken process is not the current one.
QueueAfterWakeup_NoCurrentCheck(W) == runq \cup (NotRunnable(W) \ {idleproc})

QueueAfterWakeup(W) == runq \cup (NotRunnable(W) \ {current, idleproc})

WakeupAsserts(W) == \A p \in W : state[p] # "zombie"

(* An assertion of the code.  When it fails the kernel stops, and what else *)
(* the step changes is of no consequence.                                   *)
Asserted(ok) == panic' = IF ok THEN panic ELSE "assert"

(* schedule: a runnable current goes back to the run queue, the class picks *)
(* one of the queue, and idleproc runs when the queue is empty.             *)

\* Mutant: a process that gives up the CPU is not queued.
Requeued_Never == runq

Requeued == IF state[current] = "runnable" /\ current # idleproc
            THEN runq \cup {current}
            ELSE runq

Schedule(next) ==
    /\ IF Requeued = {} THEN next = idleproc ELSE next \in Requeued
    /\ current' = next
    /\ runq' = Requeued \ {next}
    /\ needResched' = [needResched EXCEPT ![current] = FALSE]
    /\ UNCHANGED <<state, waitState, timers, panic>>

-----------------------------------------------------------------------------
(* do_sleep up to its call of schedule(): p arms a timer and marks itself   *)
(* asleep.                                                                  *)
StartSleep(p) ==
    /\ state' = [state EXCEPT ![p] = "sleeping"]
    /\ waitState' = [waitState EXCEPT ![p] = "timer"]
    /\ timers' = timers \cup {p}
    /\ UNCHANGED <<current, needResched, runq, panic>>

\* do_sleep after schedule(): del_timer, which finds it armed after a kill.
EndSleep(p) ==
    /\ timers' = timers \ {p}
    /\ UNCHANGED <<current, state, waitState, needResched, runq, panic>>

(* The timer interrupt: run_timer_list wakes the owners E of the timers     *)
(* that expire and unlinks these, and proc_tick marks the current process   *)
(* when its slice is used up.  Which timers expire is left open here.       *)
ClockTick(E, sliceUsed) ==
    /\ E \subseteq timers
    /\ Asserted(/\ WakeupAsserts(E)
                /\ \A p \in E : waitState[p] \in Interruptible \cup {"none"})
    /\ state' = StateAfterWakeup(E)
    /\ waitState' = WaitAfterWakeup(E)
    /\ runq' = QueueAfterWakeup(E)
    /\ timers' = timers \ E
    /\ needResched' = [needResched EXCEPT ![current] =
                          @ \/ sliceUsed \/ current = idleproc]
    /\ UNCHANGED current

-----------------------------------------------------------------------------

(* The run queue holds exactly the runnable processes other than the one on *)
(* the CPU and idleproc, whatever interrupt hits between marking a process  *)
(* sleeping and schedule(): none is queued while it runs, none is dropped.  *)
RunQueueExact ==
    panic = "no" =>
        runq = {p \in Proc \ {idleproc, current} : state[p] = "runnable"}

(* No assertion of wakeup_proc or run_timer_list fails, nor any of those    *)
(* the modules that extend this one state.  The count of free pages that    *)
(* init_main asserts at its end is not among them: see Process!InitDone.    *)
NoAssertFails == panic # "assert"

=============================================================================
