------------------------------- MODULE Monitor -------------------------------
(***************************************************************************)
(* Condition variables (kern/sync/monitor.c) on semaphores: a semaphore     *)
(* mutex for the monitor, a semaphore next for the threads that signalled   *)
(* and gave the monitor away, and one semaphore for each variable.          *)
(***************************************************************************)
EXTENDS Semaphore

CONSTANT Cv  \* the condition variables of the monitor

mutex == <<"mutex">>
next == <<"next">>
cvSem(c) == <<"cv", c>>

ASSUME MonitorAssumption == Sem = {mutex, next} \cup {cvSem(c) : c \in Cv}

VARIABLES cvCount,    \* cv[c].count
          nextCount,  \* next_count
          cvp,        \* the variable p called cond_wait for
          ret         \* the label p goes to when cond_wait or cond_signal returns

monVars == <<cvCount, nextCount, cvp, ret>>

monitor_init ==
    /\ cvCount = [c \in Cv |-> 0]
    /\ nextCount = 0
    /\ cvp \in [User -> {CHOOSE c \in Cv : TRUE}]
    /\ ret = [p \in User |-> NoLabel]

\* Mutant: mutex is given back although a thread that signalled waits.
ToLeave_MutexAlways == mutex

\* The semaphore that the one who leaves the monitor raises.
ToLeave == IF nextCount > 0 THEN next ELSE mutex

Enter(p, to) == Down(p, mutex, to) /\ UNCHANGED monVars
Leave(p, to) == Up(p, ToLeave, to) /\ UNCHANGED monVars

-----------------------------------------------------------------------------
(* cond_signal, called by the thread p that goes on at label to.            *)

cond_signal(p, c, to) ==
    IF cvCount[c] > 0
    THEN /\ nextCount' = nextCount + 1
         /\ ret' = [ret EXCEPT ![p] = to]
         /\ Up(p, cvSem(c), "signal_down")
         /\ UNCHANGED <<cvCount, cvp>>
    ELSE /\ Goto(p, to)
         /\ UNCHANGED <<schedVars, semVars, cont, semOf, monVars>>

SignalDown(p) == /\ At(p, "signal_down")
                 /\ Down(p, next, "signal_end")
                 /\ UNCHANGED monVars

SignalEnd(p) ==
    /\ At(p, "signal_end")
    /\ nextCount' = nextCount - 1
    /\ Goto(p, ret[p])
    /\ ret' = [ret EXCEPT ![p] = NoLabel]
    /\ UNCHANGED <<schedVars, semVars, cont, semOf, cvCount, cvp>>

-----------------------------------------------------------------------------
(* cond_wait.                                                               *)

cond_wait(p, c, to) ==
    /\ cvCount' = [cvCount EXCEPT ![c] = @ + 1]
    /\ cvp' = [cvp EXCEPT ![p] = c]
    /\ ret' = [ret EXCEPT ![p] = to]
    /\ Up(p, ToLeave, "wait_down")
    /\ UNCHANGED nextCount

WaitDown(p) == /\ At(p, "wait_down")
               /\ Down(p, cvSem(cvp[p]), "wait_end")
               /\ UNCHANGED monVars

\* Mutant: count is not taken back.
WaitEnd_KeepsCount(p) ==
    /\ At(p, "wait_end")
    /\ Goto(p, ret[p])
    /\ ret' = [ret EXCEPT ![p] = NoLabel]
    /\ UNCHANGED <<schedVars, semVars, cont, semOf, cvCount, nextCount, cvp>>

WaitEnd(p) ==
    /\ At(p, "wait_end")
    /\ cvCount' = [cvCount EXCEPT ![cvp[p]] = @ - 1]
    /\ Goto(p, ret[p])
    /\ ret' = [ret EXCEPT ![p] = NoLabel]
    /\ UNCHANGED <<schedVars, semVars, cont, semOf, nextCount, cvp>>

MonitorStep(p) == SignalDown(p) \/ SignalEnd(p) \/ WaitDown(p) \/ WaitEnd(p)

-----------------------------------------------------------------------------

\* Where p is once the down it may be in returns.
Dest(p) == IF pc[p] \in {"down_sched", "down_woken"} THEN cont[p] ELSE pc[p]

(* The two counts are right at every moment: count is the number of threads *)
(* in cond_wait for c, and next_count the number in cond_signal.            *)
CountsAgree ==
    /\ \A c \in Cv :
          cvCount[c] = Cardinality({p \in User :
              Dest(p) \in {"wait_down", "wait_end"} /\ cvp[p] = c})
    /\ nextCount =
          Cardinality({p \in User : Dest(p) \in {"signal_down", "signal_end"}})

=============================================================================
