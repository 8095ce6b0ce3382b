----------------------------- MODULE MCVecBuild -----------------------------
(* Sets of up to three children, and vectors of up to five slots in one to  *)
(* three jobs: lengths that divide evenly and that do not, fewer slots than *)
(* jobs, no slots, no jobs, and a product of cores that wraps to zero.      *)
EXTENDS VecBuild

MCChildren == 0..2
MCLengths == {0, 1, 2, 4, 5}
MCStrategies ==
    [kind : {"jobs"}, n : {0, 2, 3}] \cup [kind : {"perCore"}, n : {1, 4}]
=============================================================================
