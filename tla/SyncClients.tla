---------------------------- MODULE SyncClients ----------------------------
(***************************************************************************)
(* Kernel threads on semaphores.  In each behaviour they run one of three   *)
(* programs: the dining philosophers of kern/sync/check_sync.c in their     *)
(* version with semaphores ("sema") or with a monitor ("condvar"), one      *)
(* thread for each philosopher; or ("any") calls of down, try_down, up and  *)
(* do_sleep in any order, on semaphores that sem_init set to 1.             *)
(***************************************************************************)
EXTENDS Monitor

CONSTANTS N,        \* philosophers are numbered 0 .. N-1
          TIMES,    \* meals of each
          Who,      \* Who[i], the thread of philosopher i
          MaxValue  \* bound on the value "any" raises a semaphore to

ASSUME TableAssumption == /\ N \in Nat /\ N >= 3
                          /\ TIMES \in Nat /\ TIMES > 0
                          /\ Cv = 0 .. N - 1
                          /\ Who \in [0 .. N - 1 -> User]
                          /\ \A i, j \in 0 .. N - 1 : Who[i] = Who[j] => i = j
                          /\ MaxValue \in Nat /\ MaxValue > 0

Seat == 0 .. N - 1
LEFT(i) == (i + N - 1) % N
RIGHT(i) == (i + 1) % N

\* s[i] of one dinner, cv[i].sem of the other: a behaviour has only one.
s(i) == cvSem(i)

VARIABLES program,  \* what the threads run
          phil,     \* state_sema[i] or state_condvar[i]
          iter      \* iter[i], meals begun by philosopher i

dinnerVars == <<phil, iter>>
clientVars == <<program, phil, iter>>
vars == <<allVars, monVars, clientVars>>

Program == {"sema", "condvar", "any"}

InitialValue(prog) == [x \in Sem |-> IF prog = "any" \/ x = mutex THEN 1 ELSE 0]

Init == /\ program \in Program
        /\ ThreadInit(InitialValue(program), "loop")
        /\ monitor_init
        /\ phil = [i \in Seat |-> "thinking"]
        /\ iter = [i \in Seat |-> 0]

-----------------------------------------------------------------------------
(* The body of philosopher i, each label up to the next call of the kernel. *)

Pass(i, to) ==
    Goto(Who[i], to) /\ UNCHANGED <<schedVars, semVars, cont, semOf, monVars>>

\* What tells philosopher j that it may eat: up(&s[j]) or cond_signal(&cv[j]).
Call(i, j, to) ==
    \/ program = "sema" /\ Up(Who[i], s(j), to) /\ UNCHANGED monVars
    \/ program = "condvar" /\ cond_signal(Who[i], j, to)

\* Mutants: the right neighbour is not looked at; the one called is not marked.
Test_LeftOnly(i, j, seated, to) ==
    IF seated[j] = "hungry" /\ seated[LEFT(j)] # "eating"
    THEN phil' = [seated EXCEPT ![j] = "eating"] /\ Call(i, j, to)
    ELSE phil' = seated /\ Pass(i, to)

Test_NotMarked(i, j, seated, to) ==
    IF /\ seated[j] = "hungry"
       /\ seated[LEFT(j)] # "eating"
       /\ seated[RIGHT(j)] # "eating"
    THEN /\ phil' = IF i = j THEN [seated EXCEPT ![j] = "eating"] ELSE seated
         /\ Call(i, j, to)
    ELSE phil' = seated /\ Pass(i, to)

\* phi_test_sema(j) and phi_test_condvar(j), called by philosopher i.
Test(i, j, seated, to) ==
    IF /\ seated[j] = "hungry"
       /\ seated[LEFT(j)] # "eating"
       /\ seated[RIGHT(j)] # "eating"
    THEN phil' = [seated EXCEPT ![j] = "eating"] /\ Call(i, j, to)
    ELSE phil' = seated /\ Pass(i, to)

\* while (iter ++ < TIMES): think for a while, or quit.
Loop(i) ==
    /\ program # "any"
    /\ At(Who[i], "loop")
    /\ IF iter[i] < TIMES
       THEN iter' = [iter EXCEPT ![i] = @ + 1] /\ Sleep(Who[i], "take")
       ELSE iter' = iter /\ Quit(Who[i])
    /\ UNCHANGED <<phil, monVars>>

\* phi_take_forks_sema and phi_take_forks_condvar, up to the test,
TakeEnters(i) == At(Who[i], "take") /\ Enter(Who[i], "take_test") /\ UNCHANGED dinnerVars
TakeTests(i)  == /\ At(Who[i], "take_test")
                 /\ Test(i, i, [phil EXCEPT ![i] = "hungry"],
                         IF program = "sema" THEN "take_leave" ELSE "take_while")
                 /\ UNCHANGED iter

\* the rest of the one: leave, then wait for the forks,
TakeLeaves(i) == /\ At(Who[i], "take_leave")
                 /\ Up(Who[i], mutex, "take_wait")
                 /\ UNCHANGED <<monVars, dinnerVars>>

TakeWaits(i)  == /\ At(Who[i], "take_wait")
                 /\ Down(Who[i], s(i), "eat")
                 /\ UNCHANGED <<monVars, dinnerVars>>

\* and of the other: wait for the forks inside the monitor, then leave.
WaitsInside(i)  == /\ At(Who[i], "take_while")
                   /\ phil[i] # "eating"
                   /\ cond_wait(Who[i], i, "take_while")
                   /\ UNCHANGED dinnerVars

LeavesToEat(i) == /\ At(Who[i], "take_while")
                  /\ phil[i] = "eating"
                  /\ Leave(Who[i], "eat")
                  /\ UNCHANGED dinnerVars

Eat(i) == At(Who[i], "eat") /\ Sleep(Who[i], "put") /\ UNCHANGED <<dinnerVars, monVars>>

\* phi_put_forks_sema and phi_put_forks_condvar.
PutEnters(i) == At(Who[i], "put") /\ Enter(Who[i], "put_left") /\ UNCHANGED dinnerVars
PutLeft(i)   == /\ At(Who[i], "put_left")
                /\ Test(i, LEFT(i), [phil EXCEPT ![i] = "thinking"], "put_right")
                /\ UNCHANGED iter

\* Mutant: the right neighbour is not tested, only the left one.
PutRight_Skipped(i) == /\ At(Who[i], "put_right")
                       /\ Pass(i, "put_leave")
                       /\ UNCHANGED dinnerVars

PutRight(i)  == /\ At(Who[i], "put_right")
                /\ Test(i, RIGHT(i), phil, "put_leave")
                /\ UNCHANGED iter

PutLeaves(i) ==
    /\ At(Who[i], "put_leave")
    /\ \/ program = "sema" /\ Up(Who[i], mutex, "loop") /\ UNCHANGED monVars
       \/ program = "condvar" /\ Leave(Who[i], "loop")
    /\ UNCHANGED dinnerVars

Philosopher(i) ==
    \/ Loop(i)
    \/ TakeEnters(i) \/ TakeTests(i) \/ TakeLeaves(i) \/ TakeWaits(i)
    \/ WaitsInside(i) \/ LeavesToEat(i)
    \/ Eat(i)
    \/ PutEnters(i) \/ PutLeft(i) \/ PutRight(i) \/ PutLeaves(i)
    \/ MonitorStep(Who[i]) /\ UNCHANGED dinnerVars

-----------------------------------------------------------------------------
(* Threads that call anything, on two of the semaphores.                    *)

\* try_down: takes a unit when there is one, never waits.
TryDown(p, x) ==
    /\ value' = IF value[x] > 0 THEN [value EXCEPT ![x] = @ - 1] ELSE value
    /\ UNCHANGED <<schedVars, waiters, wakeupFlags, threadVars>>

AnyCall(p) ==
    /\ program = "any"
    /\ At(p, "loop")
    /\ \/ \E x \in {mutex, next} : Down(p, x, "loop") \/ TryDown(p, x)
       \/ \E x \in {mutex, next} : value[x] < MaxValue /\ Up(p, x, "loop")
       \/ Sleep(p, "loop")
       \/ Quit(p)
    /\ UNCHANGED <<monVars, dinnerVars>>

Next == /\ \/ KernelNext /\ UNCHANGED <<monVars, dinnerVars>>
           \/ \E i \in Seat : Philosopher(i)
           \/ \E p \in User : AnyCall(p)
        /\ UNCHANGED program

Spec == Init /\ [][Next]_vars

(* The CPU goes on with the kernel code of the current thread, a thread in  *)
(* the run queue is picked in the end, every timer expires, and the clock   *)
(* ticks while the kernel idles.                                            *)
Alone == UNCHANGED <<monVars, clientVars>>

RunsOn == \/ (\E i \in Seat : Philosopher(i)) /\ UNCHANGED program
          \/ /\ \/ \E p \in User : DownWoken(p) \/ SleepEnds(p) \/ Reap(p)
                \/ ReapSleeps \/ ReapDone \/ Idle
                \/ \E p, q \in Proc : Switch(p, q)
             /\ Alone

FairSpec ==
    /\ Spec
    /\ WF_vars(RunsOn)
    /\ \A q \in User \cup {initproc} : SF_vars(\E p \in Proc : Switch(p, q) /\ Alone)
    /\ \A p \in User : WF_vars((\E E \in SUBSET timers : p \in E /\ Tick(E)) /\ Alone)
    /\ WF_vars(Tick({}) /\ Alone)

-----------------------------------------------------------------------------
(* What semaphores promise, whatever their users do.                        *)

\* Threads to which up has given a unit and that have not returned from down.
Granted(x) ==
    {p \in User : semOf[p] = x /\ \A i \in DOMAIN waiters[x] : waiters[x][i] # p}

Count == INSTANCE CountingSemaphore WITH
    Thread <- User,
    Semaphores <- Sem,
    Initial <- {InitialValue(prog) : prog \in Program},
    units <- [x \in Sem |-> value[x] + Cardinality(Granted(x))],
    waiting <- [x \in Sem |-> {p \in User : semOf[p] = x}]

(* Direct hand-off, in which up leaves value alone and the unit lives in    *)
(* the wakeup until its receiver runs, is a counting semaphore to users.    *)
ImplementsCounting == Count!CountSpec

(* up serves waiters first come first served: as long as two threads are in *)
(* a queue they stay in the order in which they came, and the one ahead     *)
(* leaves first.                                                            *)
FirstComeFirstServed ==
    [][\A x \in Sem :
         \/ waiters'[x] = waiters[x]
         \/ waiters[x] # <<>> /\ waiters'[x] = Tail(waiters[x])
         \/ \E p \in User : waiters'[x] = Append(waiters[x], p)]_vars

-----------------------------------------------------------------------------
(* The dinners.                                                             *)

\* Philosopher i is at its plate: between getting its forks and putting them
\* down.
Eating(i) ==
    \/ pc[Who[i]] \in {"eat", "put", "put_left"}
    \/ pc[Who[i]] \in {"sleep_sched", "sleep_woken"} /\ cont[Who[i]] = "put"
    \/ /\ pc[Who[i]] \in {"down_sched", "down_woken"}
       /\ cont[Who[i]] = "put_left"

(* No two neighbours eat at the same time, told from where the threads are, *)
(* not from state_sema or state_condvar.                                    *)
NeighboursExclude == \A i \in Seat : ~ (Eating(i) /\ Eating(RIGHT(i)))

(* Nobody hungry is forgotten: outside the critical section a philosopher   *)
(* waits for its forks only while a neighbour has one of them.              *)
HungryForAReason ==
    program # "any" /\ value[mutex] = 1 =>
        \A i \in Seat : phil[i] = "hungry" =>
            phil[LEFT(i)] = "eating" \/ phil[RIGHT(i)] = "eating"

\* p may go on inside the monitor as soon as it gets the CPU.
Inside(p) ==
    /\ \A x \in Sem : \A k \in DOMAIN waiters[x] : waiters[x][k] # p
    /\ Dest(p) \in {"take_test", "take_leave", "take_while", "put_left",
                    "put_right", "put_leave", "signal_end", "wait_end"}

(* One thread at most may go on between entering and leaving, and mutex is  *)
(* open only while none may and none is parked in cond_signal: the monitor  *)
(* is handed on by exactly one of mutex, next and the condition variables.  *)
OneInMonitor ==
    program # "any" =>
        /\ \A p, q \in User : Inside(p) /\ Inside(q) => p = q
        /\ value[mutex] = 1 => nextCount = 0 /\ \A p \in User : ~ Inside(p)

(* The signalled thread enters before anything can change what it waited    *)
(* for: it never goes round the loop of phi_take_forks_condvar again.       *)
SignalledIsSeated ==
    \A i \in Seat :
        /\ Dest(Who[i]) = "wait_end"
        /\ \A k \in DOMAIN waiters[cvSem(i)] : waiters[cvSem(i)][k] # Who[i]
        => phil[i] = "eating"

(* Every philosopher eats TIMES times, the threads end, and initproc shuts  *)
(* the kernel down.                                                         *)
DinnerEnds ==
    program # "any" =>
        <>(panic = "init_exit" /\ \A i \in Seat : iter[i] = TIMES)

=============================================================================
