------------------------------- MODULE Stride -------------------------------
(***************************************************************************)
(* The stride scheduling class (kern/schedule/default_sched.c) on its skew  *)
(* heap (libs/skew_heap.h), as schedule, wakeup_proc and the timer          *)
(* interrupt of kern/schedule/sched.c call it.                              *)
(*                                                                          *)
(* A stride is an unsigned number of w bits, here modulo Wrap = 2^w, and    *)
(* strides are compared by the sign of their w-bit difference.              *)
(***************************************************************************)
EXTENDS Integers, FiniteSets

CONSTANTS Task,        \* processes that come to the scheduler
          idle,        \* idleproc, never queued
          Nil,         \* NULL
          Wrap,        \* 2^w
          Slices,      \* max_time_slice
          Priorities   \* arguments of lab6_set_priority

ASSUME StrideAssumption == /\ idle \notin Task /\ Nil \notin Task /\ IsFiniteSet(Task)
                           /\ Wrap \in Nat /\ Wrap >= 4 /\ Wrap % 2 = 0
                           /\ Slices \in Nat \ {0}
                           /\ Priorities \subseteq Nat

BIG_STRIDE == Wrap \div 2 - 1

VARIABLES current,      \* the process on the CPU, or idle
          state,        \* state[p], "none" when p is not created
          stride,       \* lab6_stride
          priority,     \* lab6_priority
          slice,        \* time_slice
          needResched,  \* need_resched of the current process
          heap,         \* the heap at lab6_run_pool
          procNum,      \* proc_num
          busy          \* whether the processes never sleep nor exit, and are all
                        \* created before the first is picked

strideVars == <<current, state, stride, priority, slice, needResched, heap, procNum, busy>>

Unlinked == [p \in Task |-> Nil]
EmptyHeap == [root |-> Nil, left |-> Unlinked, right |-> Unlinked, parent |-> Unlinked]

StrideInit ==
    /\ current = idle
    /\ state = [p \in Task |-> "none"]
    /\ stride = [p \in Task |-> 0]
    /\ priority = [p \in Task |-> 0]
    /\ slice = [p \in Task |-> 0]
    /\ needResched = TRUE
    /\ heap = EmptyHeap
    /\ procNum = 0
    /\ busy \in BOOLEAN

-----------------------------------------------------------------------------
(* The skew heap under the strides s.  What the recursion of the code        *)
(* returns into the left link of a node is put there from the top down.      *)

\* Mutant: strides are compared as unsigned numbers.
Before_Unsigned(p, q, s) == s[p] < s[q]

\* proc_stride_comp_f(p, q) == -1.
Before(p, q, s) == (s[p] - s[q]) % Wrap > BIG_STRIDE

\* A merge of the trees a and b, that goes on at the left of the node at.
Pointer == Task \cup {Nil}
Pointers == [Task -> Pointer]
Heap == [root : Pointer, left : Pointers, right : Pointers, parent : Pointers]
Merging == [left : Pointers, right : Pointers, parent : Pointers,
            a : Pointer, b : Pointer, at : Pointer, top : Pointer]

\* skew_heap_merge returns n to the node m.at, or to its caller.
Return(m, n) ==
    IF m.at = Nil THEN [m EXCEPT !.top = n]
    ELSE [m EXCEPT !.left[m.at] = n, !.parent[n] = m.at]

\* Mutant: the left subtree of the smaller root is forgotten.
Wins_DropsLeft(m, n) == [Return(m, n) EXCEPT !.at = n, !.left[n] = Nil]

\* The root n is the smaller one: its left subtree goes to the right, and what
\* is below it on the left is merged next.
Wins(m, n) == [Return(m, n) EXCEPT !.at = n, !.right[n] = m.left[n], !.left[n] = Nil]

\* One call of skew_heap_merge.
Descend(m, s) ==
    IF m.a = Nil \/ m.b = Nil THEN m
    ELSE IF Before(m.a, m.b, s) THEN [Wins(m, m.a) EXCEPT !.a = m.right[m.a]]
    ELSE [Wins(m, m.b) EXCEPT !.b = m.right[m.b]]

\* The trees a and b of the links of h become one heap.
skew_heap_merge(h, a, b, s) ==
    LET call == [m \in Merging |-> Descend(m, s)]
        after[n \in 0 .. Cardinality(Task)] ==
            IF n = 0 THEN [left |-> h.left, right |-> h.right, parent |-> h.parent,
                           a |-> a, b |-> b, at |-> Nil, top |-> Nil]
            ELSE call[after[n - 1]]
        ends == [m \in Merging |-> Return(m, IF m.a = Nil THEN m.b ELSE m.a)]
        all == ends[after[Cardinality(Task)]]
    IN  [root |-> all.top, left |-> all.left, right |-> all.right, parent |-> all.parent]

\* Pointers of p that nobody reads any more.
Cleared(h, p) == [h EXCEPT !.left[p] = Nil, !.right[p] = Nil, !.parent[p] = Nil]

skew_heap_insert(h, p, s) == skew_heap_merge(Cleared(h, p), h.root, p, s)

skew_heap_remove(h, p, s) ==
    LET up == h.parent[p]
        onLeft == up # Nil /\ h.left[up] = p
        replaced == [rep \in Heap |->
            [root   |-> IF up = Nil THEN rep.root ELSE h.root,
             left   |-> IF onLeft THEN [rep.left EXCEPT ![up] = rep.root] ELSE rep.left,
             right  |-> IF up = Nil \/ onLeft THEN rep.right
                        ELSE [rep.right EXCEPT ![up] = rep.root],
             parent |-> IF rep.root = Nil THEN rep.parent
                        ELSE [rep.parent EXCEPT ![rep.root] = up]]]
    IN  replaced[skew_heap_merge(Cleared(h, p), h.left[p], h.right[p], s)]

-----------------------------------------------------------------------------
(* The operations of the class.                                             *)

\* stride_enqueue gives p a slice unless it has one left.
SliceAfterEnqueue(p, sl) ==
    [sl EXCEPT ![p] = IF @ = 0 \/ @ > Slices THEN Slices ELSE @]

\* Mutants: priority 0 adds nothing; a BIG_STRIDE that uses every bit.
Pass_Zero(p) == IF priority[p] = 0 THEN 0 ELSE BIG_STRIDE \div priority[p]
Pass_FullRange(p) == IF priority[p] = 0 THEN Wrap - 1 ELSE (Wrap - 1) \div priority[p]

\* What a pick adds to the stride of p.
Pass(p) == IF priority[p] = 0 THEN BIG_STRIDE ELSE BIG_STRIDE \div priority[p]

(* wakeup_proc of a process that is not the current one and has the stride  *)
(* and slice s and sl.                                                      *)
Enqueue(p, s, sl) ==
    /\ heap' = skew_heap_insert(heap, p, s)
    /\ slice' = SliceAfterEnqueue(p, sl)
    /\ procNum' = procNum + 1
    /\ state' = [state EXCEPT ![p] = "runnable"]

\* do_fork: alloc_proc clears the fields, wakeup_proc queues the child.
Create(p) ==
    /\ state[p] = "none"
    /\ busy => \A q \in Task : stride[q] = 0
    /\ stride' = [stride EXCEPT ![p] = 0]
    /\ priority' = [priority EXCEPT ![p] = 0]
    /\ Enqueue(p, stride', [slice EXCEPT ![p] = 0])
    /\ UNCHANGED <<current, needResched, busy>>

Wake(p) ==
    /\ state[p] = "sleeping"
    /\ Enqueue(p, stride, slice)
    /\ UNCHANGED <<current, stride, priority, needResched, busy>>

(* schedule(), called by a current process that is in state st by now: it   *)
(* is queued again if it is runnable, then the root of the heap is picked,  *)
(* charged and dequeued.  The fields of a process that has exited count as  *)
(* 0, which alloc_proc makes them before anybody reads them again.          *)
Schedule(st) ==
    LET Kept(f) == IF st = "none" THEN [f EXCEPT ![current] = 0] ELSE f
        again == current # idle /\ st = "runnable"
        n     == IF again THEN procNum + 1 ELSE procNum
    IN  /\ state' = IF current = idle THEN state ELSE [state EXCEPT ![current] = st]
        /\ slice' = IF again THEN SliceAfterEnqueue(current, slice) ELSE Kept(slice)
        /\ \E pool \in {IF again THEN skew_heap_insert(heap, current, stride) ELSE heap} :
            IF pool.root = Nil
            THEN /\ current' = idle
                 /\ heap' = pool
                 /\ procNum' = n
                 /\ stride' = Kept(stride)
            ELSE /\ current' = pool.root
                 /\ stride' = [Kept(stride) EXCEPT ![pool.root] = (@ + Pass(pool.root)) % Wrap]
                 /\ heap' = skew_heap_remove(pool, pool.root, stride')
                 /\ procNum' = n - 1
        /\ needResched' = (current' = idle)
        /\ priority' = Kept(priority)
        /\ UNCHANGED busy

\* Preemption, sys_yield, or the loop of cpu_idle.
Yield == Schedule("runnable")
Sleep == ~ busy /\ current # idle /\ Schedule("sleeping")
Leave == ~ busy /\ current # idle /\ Schedule("none")

\* sched_class_proc_tick.
Tick ==
    /\ current # idle
    /\ slice' = [slice EXCEPT ![current] = IF @ > 0 THEN @ - 1 ELSE @]
    /\ needResched' = (needResched \/ slice'[current] = 0)
    /\ UNCHANGED <<current, state, stride, priority, heap, procNum, busy>>

lab6_set_priority(v) ==
    /\ current # idle
    /\ priority' = [priority EXCEPT ![current] = IF v = 0 THEN 1 ELSE v]
    /\ UNCHANGED <<current, state, stride, slice, needResched, heap, procNum, busy>>

StrideNext ==
        \/ \E p \in Task : Create(p) \/ Wake(p)
        \/ Yield
        \/ Sleep
        \/ Leave
        \/ Tick
        \/ \E v \in Priorities : lab6_set_priority(v)

StrideSpec == StrideInit /\ [][StrideNext]_strideVars

\* Preemption at the end of a slice.  Only busy processes are said to be fair.
Preempt == busy /\ needResched /\ Yield

\* The clock ticks, and a process whose need_resched is set is preempted.
FairSpec == StrideSpec /\ WF_strideVars(Tick) /\ WF_strideVars(Preempt)

-----------------------------------------------------------------------------

Queued == {p \in Task : state[p] = "runnable" /\ p # current}

\* What is reached from the root of the heap: in every set that has the root
\* and what is below its members.
Below(p) == {heap.left[p], heap.right[p]} \ {Nil}
Reached == {p \in Task : \A S \in SUBSET Task :
               (heap.root \in S /\ \A q \in S : Below(q) \subseteq S) => p \in S}

(* The heap holds every runnable process off the CPU exactly once, however  *)
(* stale or incomparable the strides have become, and proc_num counts them. *)
(* The links up agree with those down, and the root has none: stride_dequeue *)
(* of a root that names a parent would leave it in the heap.                *)
HeapExact ==
    /\ IF heap.root = Nil THEN Queued = {} ELSE Reached = Queued
    /\ heap.root # Nil => heap.parent[heap.root] = Nil
    /\ \A p \in Queued :
        /\ heap.left[p] = heap.right[p] => heap.left[p] = Nil
        /\ \A c \in Below(p) : heap.parent[c] = p
    /\ procNum = Cardinality(Queued)

(* Strides of Q lie within BIG_STRIDE of each other, so that the sign of a   *)
(* difference tells which is smaller.                                       *)
Comparable(Q) == Q # {} => \E b \in Q : \A q \in Q : (stride[q] - stride[b]) % Wrap <= BIG_STRIDE

(* The strides of busy processes never drift apart by more than BIG_STRIDE:  *)
(* the bound on the pass that makes wrapping harmless.                      *)
SpreadBounded == busy => Comparable({p \in Task : state[p] = "runnable"})

(* The process picked is the one "with the minimum value of stride" of the  *)
(* queue (stride_pick_next), as long as the strides can be compared.        *)
PicksLeast ==
    [][(Yield \/ Sleep \/ Leave) /\ current' # idle =>
          LET pool == Queued \cup {p \in {current} \ {idle} : state'[p] = "runnable"}
          IN  Comparable(pool) =>
                 \A q \in pool : (stride[q] - stride[current']) % Wrap <= BIG_STRIDE]_strideVars

(* Among processes that never sleep nobody starves: who is queued is picked  *)
(* in the end, whatever priorities up to BIG_STRIDE the others give          *)
(* themselves, at any time.  Above BIG_STRIDE a pass is 0, and it is not so. *)
NoStarvation == \A p \in Task : (busy /\ p \in Queued) ~> (current = p)

=============================================================================
