------------------------------ MODULE MCStride ------------------------------
(* Small stride schedulers: strides of three bits, BIG_STRIDE is 3.         *)
EXTENDS Stride, TLC

CONSTANTS p1, p2, p3

ThreeTasks == {p1, p2, p3}

(* Busy processes choose any priority at any time.  Where processes sleep,   *)
(* those that choose one choose 2, which keeps the strides of sleepers few.  *)
Chosen == StrideNext /\ (busy \/ priority' \in [Task -> {0, 2}])
ChosenSpec ==
    StrideInit /\ [][Chosen]_strideVars /\ WF_strideVars(Tick) /\ WF_strideVars(Preempt)

=============================================================================
