-------------------------- MODULE CountingSemaphore --------------------------
(***************************************************************************)
(* What a semaphore promises its users: units that are neither lost nor     *)
(* made up.  A thread may announce that it waits, takes a unit only when    *)
(* there is one, and gives back one at a time.                              *)
(***************************************************************************)
EXTENDS Naturals

CONSTANTS Thread, Semaphores,
          Initial  \* the set of values the semaphores may start with

VARIABLES units,    \* units[s] that are free, or granted and not yet taken
          waiting   \* waiting[s], threads inside down

countVars == <<units, waiting>>

CountInit == /\ units \in Initial
             /\ waiting = [s \in Semaphores |-> {}]

Request(t, s) ==
    /\ \A r \in Semaphores : t \notin waiting[r]
    /\ waiting' = [waiting EXCEPT ![s] = @ \cup {t}]
    /\ UNCHANGED units

Acquire(t, s) ==
    /\ units[s] > 0
    /\ \A r \in Semaphores \ {s} : t \notin waiting[r]
    /\ units' = [units EXCEPT ![s] = @ - 1]
    /\ waiting' = [waiting EXCEPT ![s] = @ \ {t}]

Release(s) ==
    /\ units' = [units EXCEPT ![s] = @ + 1]
    /\ UNCHANGED waiting

CountNext == \E s \in Semaphores :
    Release(s) \/ \E t \in Thread : Request(t, s) \/ Acquire(t, s)

CountSpec == CountInit /\ [][CountNext]_countVars

=============================================================================
