------------------------------ MODULE VecBuild ------------------------------
(***************************************************************************)
(* Sets at work: set_sync (tpc/src/set/vec.rs:132-174), an async function  *)
(* that plans its jobs (VecPlan), has the simple guard of a set run them   *)
(* (TpcSet), and hands out the vector they have written, composed with the *)
(* sets of TpcSet that a caller awaits without a vector.                   *)
(*                                                                         *)
(* The vector is as wide as was asked for before a slot is written, and    *)
(* every job writes its slots through a raw pointer: which job writes what *)
(* is nothing but arithmetic, and when the vector may be read is nothing   *)
(* but the guard's counter.  Job i is the child i of the set.              *)
(***************************************************************************)
EXTENDS VecPlan, Sequences, TpcSet

CONSTANTS
    Lengths,        \* the lengths of vectors
    Strategies,     \* records with a kind, "jobs" or "perCore", and a number n
    Cpus            \* GlobalState.physical_cpus

ASSUME BuildAssumption ==
    /\ Lengths \subseteq Nat /\ Cpus \in Nat
    /\ \A s \in Strategies : s.kind \in {"jobs", "perCore"} /\ s.n \in 0..(CounterSize - 1)
    /\ Children = 0..(Cardinality(Children) - 1)

VARIABLES
    stage,          \* plain (a set without a vector), new, planning, awaiting,
                    \* returned, dropped, panicked (of a division by zero)
    len, target,    \* of the vector; ChildPlanner.target_jobs
    jobs,           \* the plans set_sync has collected
    at,             \* slots each job has written
    writes          \* how often each slot was written

vecVars == <<stage, len, target, jobs, at, writes>>
allVars == <<vars, vecVars>>

\* A set, or the arguments of a set_sync; its jobs follow from them.
VecInit ==
    /\ Init
    /\ \/ stage = "plain" /\ len = 0 /\ target = 0
       \/ /\ stage = "new" /\ kind = "simple" /\ len \in Lengths
          /\ \E s \in Strategies : target = TargetJobs(len, Proposed(s, Cpus, CounterSize))
          /\ target <= Cardinality(Children)
          /\ members = {c \in Children : c < target}
    /\ jobs = <<>>
    /\ at = [c \in Children |-> 0]
    /\ writes = [slot \in 0..(len - 1) |-> 0]

-----------------------------------------------------------------------------
\* The first poll of set_sync plans, and gets no further without a job.
DivideSlots ==
    /\ stage = "new"
    /\ stage' = IF target = 0 THEN "panicked" ELSE "planning"
    /\ UNCHANGED <<vars, len, target, jobs, at, writes>>

CollectPlan ==
    /\ stage = "planning" /\ Len(jobs) < target
    /\ jobs' = Append(jobs, Plan(len, target, Len(jobs)))
    /\ UNCHANGED <<vars, stage, len, target, at, writes>>

AwaitSet ==
    /\ stage = "planning" /\ Len(jobs) = target
    /\ stage' = "awaiting"
    /\ UNCHANGED <<vars, len, target, jobs, at, writes>>

DropUnpolled ==
    /\ stage = "new" /\ stage' = "dropped"
    /\ UNCHANGED <<vars, len, target, jobs, at, writes>>

\* The vector that set_sync returns has its whole length.
Return ==
    /\ Leave
    /\ stage' = IF stage = "awaiting" THEN "returned" ELSE stage
    /\ UNCHANGED <<len, target, jobs, at, writes>>

\* With set_sync goes its guard, and its vector even when the guard panics.
DropFuture ==
    /\ DropGuard
    /\ \/ stage = "plain" /\ stage' = stage
       \/ stage = "awaiting" /\ guard = "idle" /\ stage' = "dropped"
    /\ UNCHANGED <<len, target, jobs, at, writes>>

-----------------------------------------------------------------------------
\* The body of a job: its slots in order.

SlotsOf(c) == IF stage = "plain" THEN 0 ELSE jobs[c + 1].len

\* A job that takes the end of its plan for another slot of its own.
WriteSlot_Inclusive(c) ==
    LET slot == jobs[c + 1].base + at[c] IN
    /\ stage # "plain" /\ child[c] = "running"
    /\ at[c] <= SlotsOf(c) /\ slot < len
    /\ at' = [at EXCEPT ![c] = @ + 1]
    /\ writes' = [writes EXCEPT ![slot] = @ + 1]
    /\ UNCHANGED <<vars, stage, len, target, jobs>>

WriteSlot(c) ==
    LET slot == jobs[c + 1].base + at[c] IN
    /\ stage # "plain" /\ child[c] = "running"
    /\ at[c] < SlotsOf(c)
    /\ at' = [at EXCEPT ![c] = @ + 1]
    /\ writes' = [writes EXCEPT ![slot] = @ + 1]
    /\ UNCHANGED <<vars, stage, len, target, jobs>>

BodyEnds(c) ==
    /\ CountDown(c) /\ at[c] >= SlotsOf(c)
    /\ UNCHANGED vecVars

-----------------------------------------------------------------------------
PlanStep == DivideSlots \/ CollectPlan \/ AwaitSet
Begin == stage \in {"plain", "awaiting"} /\ FirstPoll /\ UNCHANGED vecVars
GuardStep == HostStep /\ UNCHANGED vecVars
JobStep(c) ==
    \/ WriteSlot(c) \/ BodyEnds(c)
    \/ UNCHANGED vecVars /\ (Start(c) \/ BodyFails(c) \/ WakeHost(c) \/ Finish(c))

VecNext ==
    \/ PlanStep \/ DropUnpolled \/ Begin \/ GuardStep \/ Return \/ DropFuture
    \/ Poll /\ UNCHANGED vecVars
    \/ \E c \in Children :
          JobStep(c) \/ (UNCHANGED vecVars /\ (Repoll(c) \/ DropChild(c)))

\* As in TpcSet; the planning, the first poll of the guard and the return
\* are one poll with what is before and after them.
VecSpec ==
    /\ VecInit /\ [][VecNext]_allVars
    /\ WF_allVars(PlanStep) /\ WF_allVars(stage = "awaiting" /\ (Begin \/ Return))
    /\ WF_allVars(GuardStep) /\ WF_allVars(woken /\ Poll /\ UNCHANGED vecVars)
    /\ \A c \in Children : WF_allVars(JobStep(c))

-----------------------------------------------------------------------------
VecTypeOK ==
    /\ TypeOK
    /\ stage \in {"plain", "new", "planning", "awaiting", "returned", "dropped", "panicked"}
    /\ len \in Nat /\ target \in Nat
    /\ \A i \in DOMAIN jobs : jobs[i] \in [base : Nat, len : Nat]
    /\ at \in [Children -> 0..len] /\ writes \in [0..(len - 1) -> Nat]

\* Types, and TpcSet's counter is right while jobs write.
SetInv == VecTypeOK /\ CountExact

\* "Some small adjustment to make jobs approximately evenly-sized" (vec.rs:16):
\* the plans follow each other from the first slot to the last, none is empty
\* and no two differ by more than one (the tests at vec.rs:250-256).
PlanPartitions ==
    stage \in {"awaiting", "returned"} =>
        /\ jobs[1].base = 0 /\ jobs[target].base + jobs[target].len = len
        /\ \A i \in 1..(target - 1) : jobs[i + 1].base = jobs[i].base + jobs[i].len
        /\ \A i, j \in 1..target : jobs[i].len > 0 /\ jobs[i].len <= jobs[j].len + 1

\* No slot is written by two jobs, and the vector that is handed out has all
\* of them written (vec.rs:129): set_len comes after the last write.
BuiltWhole ==
    \A slot \in DOMAIN writes :
        writes[slot] <= 1 /\ (stage = "returned" => writes[slot] = 1)

\* set_sync returns, unless it is dropped, has no jobs, or one of them panics.
VecResolves ==
    /\ Resolves
    /\ stage = "planning" ~> (stage \in {"returned", "dropped"}
                              \/ \E c \in members : child[c] = "lost")
=============================================================================
