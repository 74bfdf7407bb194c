---------------------------- MODULE MCTimerList ----------------------------
(* Four timers of at most five ticks: chains with several timers of one    *)
(* deadline, and every order of insertion and deletion.                     *)
EXTENDS TimerList

CONSTANTS t1, t2, t3, t4

FourTimers == {t1, t2, t3, t4}

=============================================================================
