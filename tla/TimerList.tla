------------------------------ MODULE TimerList ------------------------------
(***************************************************************************)
(* timer_list (kern/schedule/sched.c): a list sorted by deadline in which   *)
(* expires of a timer counts from the deadline of the one before it, so     *)
(* that a tick touches the first timer only.  Sched knows of the timers     *)
(* only which are linked; here is when each of them fires.                  *)
(***************************************************************************)
EXTENDS Integers, FiniteSets, Sequences, SequencesExt

CONSTANTS Timer,     \* the timers, one in the frame of each do_sleep
          MaxDelay   \* the longest time passed to do_sleep

ASSUME TimerAssumption == MaxDelay \in Nat \ {0}

VARIABLES list,      \* timer_list
          expires,   \* expires[t], and 0 once t is unlinked (its frame is gone)
          rang,      \* the timers whose owners this step woke, in order
          earlier    \* history: the pairs of linked timers, in the order of add_timer

timerVars == <<list, expires, rang, earlier>>

TimerInit == /\ list = <<>>
             /\ expires = [t \in Timer |-> 0]
             /\ rang = <<>>
             /\ earlier = {}

Linked(t) == \E i \in DOMAIN list : list[i] = t

\* The ticks until the i-th timer fires.
Due == LET sum[i \in 0 .. Len(list)] == IF i = 0 THEN 0 ELSE sum[i - 1] + expires[list[i]]
       IN  sum

-----------------------------------------------------------------------------

\* Mutant: a timer goes before those of the same deadline.
Stops_Equal(i, n) == i <= Len(list) => n - Due[i - 1] <= expires[list[i]]

\* The walk of add_timer for a timer of n ticks stops at the i-th one, when what
\* is left of n is less than its distance from the one before.
Stops(i, n) == i <= Len(list) => n - Due[i - 1] < expires[list[i]]

add_timer(t, n) ==
    /\ ~ Linked(t)
    /\ \E at \in 1 .. Len(list) + 1 :
        /\ Stops(at, n) /\ \A i \in 1 .. at - 1 : ~ Stops(i, n)
        /\ list' = InsertAt(list, at, t)
        /\ expires' = [u \in Timer |->
              IF u = t THEN n - Due[at - 1]
              ELSE IF at <= Len(list) /\ u = list[at] THEN expires[u] - (n - Due[at - 1])
              ELSE expires[u]]
    /\ earlier' = earlier \cup {<<u, t>> : u \in {u \in Timer : Linked(u)}}
    /\ rang' = <<>>

\* The history without what concerns the timers in S.
Forgetting(S) == {e \in earlier : e[1] \notin S /\ e[2] \notin S}

\* The distances once the i-th timer is unlinked: that of the timer behind grows.
Unlink(i) ==
    [u \in Timer |-> IF u = list[i] THEN 0
                     ELSE IF i < Len(list) /\ u = list[i + 1] THEN expires[u] + expires[list[i]]
                     ELSE expires[u]]

\* del_timer, which leaves a timer alone that is not linked any more.
del_timer(t) ==
    /\ \/ /\ ~ Linked(t)
          /\ UNCHANGED <<list, expires, earlier>>
       \/ \E i \in DOMAIN list :
            /\ list[i] = t
            /\ list' = RemoveAt(list, i)
            /\ expires' = Unlink(i)
            /\ earlier' = Forgetting({t})
    /\ rang' = <<>>

(* run_timer_list: the first timer comes one tick nearer, and it and those  *)
(* behind it fire as long as no tick is left.                               *)
run_timer_list ==
    \/ /\ list = <<>>
       /\ rang' = <<>>
       /\ UNCHANGED <<list, expires, earlier>>
    \/ /\ list # <<>>
       /\ expires' = [expires EXCEPT ![list[1]] = @ - 1]
       /\ \E n \in 0 .. Len(list) :
            /\ \A i \in 1 .. n : expires'[list[i]] = 0
            /\ n < Len(list) => expires'[list[n + 1]] # 0
            /\ rang' = SubSeq(list, 1, n)
            /\ list' = SubSeq(list, n + 1, Len(list))
            /\ earlier' = Forgetting({list[i] : i \in 1 .. n})

TimerNext == \/ \E t \in Timer : del_timer(t) \/ \E n \in 1 .. MaxDelay : add_timer(t, n)
             \/ run_timer_list

TimerSpec == TimerInit /\ [][TimerNext]_timerVars

-----------------------------------------------------------------------------

Left == [t \in Timer |->
            IF Linked(t) THEN Due[CHOOSE i \in DOMAIN list : list[i] = t] ELSE 0]

Clock == INSTANCE AlarmClock WITH left <- Left

(* Every timer fires at its own deadline, whatever timers were inserted     *)
(* before it or deleted, and equal deadlines fire in the order they were    *)
(* armed.                                                                   *)
ImplementsAlarmClock == Clock!ClockSpec

(* "assert(timer->expires != 0)" of run_timer_list: when a tick comes, the  *)
(* first timer is still ahead, though it counts from nothing now and the    *)
(* one before it may have been deleted or fired.                            *)
FirstAhead == list # <<>> => expires[list[1]] # 0

=============================================================================
