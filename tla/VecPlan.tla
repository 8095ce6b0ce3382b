------------------------------ MODULE VecPlan ------------------------------
(***************************************************************************)
(* How the vec builder divides len slots among jobs: ChildPlanner          *)
(* (tpc/src/set/vec.rs:49-114), as operators.                              *)
(***************************************************************************)
EXTENDS Integers

Fewer(a, b) == IF a <= b THEN a ELSE b

\* Strategy: a number of jobs, or one for each core, a product of u32s (width
\* is 2^32) that wraps in a release build.
Proposed(strategy, cpus, width) ==
    IF strategy.kind = "jobs" THEN strategy.n ELSE (strategy.n * cpus) % width

TargetJobs(len, proposed) == Fewer(proposed, len)

\* An even share for everyone, which forgets the remainder.
Offset_NoRemainder(len, t, i) == i * (len \div t)

\* The first slot of job i of t: the len % t first jobs have one slot more.
Offset(len, t, i) == i * (len \div t) + Fewer(i, len % t)

Plan(len, t, i) ==
    [base |-> Offset(len, t, i), len |-> Offset(len, t, i + 1) - Offset(len, t, i)]
=============================================================================
