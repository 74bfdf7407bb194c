----------------------------- MODULE AlarmClock -----------------------------
(***************************************************************************)
(* What the timers of the kernel promise (add_timer, del_timer and          *)
(* run_timer_list of kern/schedule/sched.c): a timer armed for n ticks      *)
(* rings at the n-th tick from then unless it is disarmed, and timers that  *)
(* ring at the same tick ring in the order they were armed.                 *)
(***************************************************************************)
EXTENDS Naturals, Sequences

CONSTANTS Timer,     \* timers
          MaxDelay   \* the longest time a timer is armed for

VARIABLES left,      \* left[t], the ticks until t rings, 0 when it is not armed
          earlier,   \* the pairs of armed timers, the one armed first before the other
          rang       \* the timers that this step rang, in order

clockVars == <<left, earlier, rang>>

ClockInit == /\ left = [t \in Timer |-> 0]
             /\ earlier = {}
             /\ rang = <<>>

Arm(t, n) ==
    /\ left[t] = 0
    /\ left' = [left EXCEPT ![t] = n]
    /\ earlier' = earlier \cup {<<u, t>> : u \in {u \in Timer : left[u] # 0}}
    /\ rang' = <<>>

Disarm(t) ==
    /\ left' = [left EXCEPT ![t] = 0]
    /\ earlier' = {e \in earlier : e[1] # t /\ e[2] # t}
    /\ rang' = <<>>

Strike ==
    LET due == {t \in Timer : left[t] = 1}
    IN  /\ left' = [t \in Timer |-> IF left[t] = 0 THEN 0 ELSE left[t] - 1]
        /\ earlier' = {e \in earlier : e[1] \notin due /\ e[2] \notin due}
        /\ {rang'[i] : i \in DOMAIN rang'} = due
        /\ \A i, j \in DOMAIN rang' : i < j => <<rang'[i], rang'[j]>> \in earlier

ClockNext == \/ \E t \in Timer : Disarm(t) \/ \E n \in 1 .. MaxDelay : Arm(t, n)
             \/ Strike

ClockSpec == ClockInit /\ [][ClockNext]_clockVars

=============================================================================
