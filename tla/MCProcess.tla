------------------------------ MODULE MCProcess ------------------------------
(* Process on small instances: two structures for user processes, or three,  *)
(* where a child of user_main can die before its own zombie child is collected. *)
EXTENDS Process, TLC

CONSTANTS p1, p2, p3

TwoUsers == {p1, p2}
ThreeUsers == {p1, p2, p3}
KillUsers == TwoUsers
KillAny == TwoUsers \cup {initproc}

(* Bound of the run with three users: while all three structures are in use  *)
(* no timer is armed and PF_EXITING is set in no process.  Nothing is left   *)
(* out while at most two are in use, and only calls of programs (fork, kill, *)
(* sleep) are, which fairness says nothing of.                               *)
Full == \A p \in User : state[p] # "unused"
Chosen == Next /\ (Full' => /\ timers' = {}
                            /\ \A p \in User \cup {initproc} : ~ exiting'[p])
ChosenSpec == Init /\ [][Chosen]_vars /\ Fairness

=============================================================================
