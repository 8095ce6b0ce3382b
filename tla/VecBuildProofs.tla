--------------------------- MODULE VecBuildProofs ---------------------------
(***************************************************************************)
(* Sets and the vector builder for any number of children: the plans of    *)
(* set_sync partition the vector evenly, for every length, strategy, number*)
(* of cores and width of the counter; the guard of a set is Ready when its *)
(* children have finished and not before, and its host is woken; and the   *)
(* vector is handed out with every slot written once.                      *)
(***************************************************************************)
EXTENDS VecBuild, FiniteSetTheorems, SequenceTheorems, TLAPS

-----------------------------------------------------------------------------
(* Arithmetic of the planner. *)

(* Quotient and remainder, for the two numbers vec.rs:81-82 keeps. *)
LEMMA Division ==
    ASSUME NEW n \in Nat, NEW t \in Nat \ {0}
    PROVE  /\ n \div t \in Nat /\ n % t \in Nat /\ n % t < t
           /\ n = t * (n \div t) + (n % t)
  OBVIOUS

(* Successive offsets are a quotient apart, and one more for as many jobs as *)
(* the remainder counts.                                                      *)
LEMMA OffsetStep ==
    ASSUME NEW n \in Nat, NEW t \in Nat \ {0}, NEW i \in Nat
    PROVE  /\ Offset(n, t, i) \in Nat
           /\ Offset(n, t, i + 1) =
                 Offset(n, t, i) + (n \div t) + (IF i < n % t THEN 1 ELSE 0)
<1> DEFINE k == n \div t
<1> DEFINE m == n % t
<1>1. k \in Nat /\ m \in Nat
  BY Division
<1>2. Offset(n, t, i) = i * k + Fewer(i, m) /\ Offset(n, t, i + 1) = (i + 1) * k + Fewer(i + 1, m)
  BY DEF Offset
<1> HIDE DEF k, m
<1>3. (i + 1) * k = i * k + k /\ i * k \in Nat
  BY <1>1
<1>4. /\ Fewer(i, m) \in Nat
      /\ Fewer(i + 1, m) = Fewer(i, m) + (IF i < m THEN 1 ELSE 0)
  BY <1>1 DEF Fewer
<1>5. /\ Offset(n, t, i) \in Nat
      /\ Offset(n, t, i + 1) = Offset(n, t, i) + k + (IF i < m THEN 1 ELSE 0)
  BY <1>1, <1>2, <1>3, <1>4
<1> QED
  BY <1>5 DEF k, m

(* The first plan starts at the first slot, the last one ends after the last. *)
LEMMA OffsetEnds ==
    ASSUME NEW n \in Nat, NEW t \in Nat \ {0}
    PROVE  Offset(n, t, 0) = 0 /\ Offset(n, t, t) = n
<1> DEFINE k == n \div t
<1> DEFINE m == n % t
<1>1. k \in Nat /\ m \in Nat /\ m < t /\ n = t * k + m
  BY Division
<1>2. Offset(n, t, 0) = 0 * k + Fewer(0, m) /\ Offset(n, t, t) = t * k + Fewer(t, m)
  BY DEF Offset
<1> HIDE DEF k, m
<1>3. 0 * k = 0 /\ Fewer(0, m) = 0 /\ Fewer(t, m) = m
  BY <1>1 DEF Fewer
<1> QED
  BY <1>1, <1>2, <1>3

(* With no more jobs than slots, a plan has a slot. *)
LEMMA ShareNotEmpty ==
    ASSUME NEW n \in Nat, NEW t \in Nat \ {0}, t <= n
    PROVE  n \div t >= 1
<1> DEFINE k == n \div t
<1> DEFINE m == n % t
<1>1. k \in Nat /\ m \in Nat /\ m < t /\ n = t * k + m
  BY Division
<1> HIDE DEF k, m
<1>2. k # 0
  BY <1>1
<1> QED
  BY <1>1, <1>2 DEF k

(* A plan: its types, and its length. *)
LEMMA PlanShape ==
    ASSUME NEW n \in Nat, NEW t \in Nat \ {0}, NEW i \in Nat
    PROVE  /\ Plan(n, t, i).base = Offset(n, t, i)
           /\ Plan(n, t, i).len = (n \div t) + (IF i < n % t THEN 1 ELSE 0)
           /\ Plan(n, t, i) \in [base : Nat, len : Nat]
<1> DEFINE lo == Offset(n, t, i)
<1> DEFINE hi == Offset(n, t, i + 1)
<1> DEFINE share == (n \div t) + (IF i < n % t THEN 1 ELSE 0)
<1>1. Plan(n, t, i) = [base |-> lo, len |-> hi - lo]
  BY DEF Plan
<1>2. lo \in Nat /\ hi = lo + share
  <2>1. /\ lo \in Nat
        /\ hi = lo + (n \div t) + (IF i < n % t THEN 1 ELSE 0)
    BY OffsetStep
  <2> QED
    BY <2>1, Division
<1>3. share \in Nat
  BY Division
<1> HIDE DEF lo, hi, share
<1>4. hi - lo = share
  BY <1>2, <1>3
<1>5. /\ Plan(n, t, i).base = lo /\ Plan(n, t, i).len = share
      /\ Plan(n, t, i) \in [base : Nat, len : Nat]
  BY <1>1, <1>2, <1>3, <1>4
<1> QED
  BY <1>5 DEF lo, share

-----------------------------------------------------------------------------
(* The inductive invariant: what has been collected are the first plans of   *)
(* the planner, all of them by the time the guard is awaited, and the planner *)
(* never has more jobs than slots.                                            *)
Planned ==
    /\ len \in Nat /\ target \in Nat /\ target <= len
    /\ jobs \in Seq([base : Nat, len : Nat])
    /\ \A i \in 1..Len(jobs) : jobs[i] = Plan(len, target, i - 1)
    /\ stage \in {"planning", "awaiting", "returned"} => target > 0
    /\ stage \in {"awaiting", "returned"} => Len(jobs) = target

(* No more jobs than slots, whatever the strategy and whether or not the      *)
(* product of JobsPerCore wraps.                                              *)
LEMMA TargetFits ==
    ASSUME NEW n \in Nat, NEW s \in Strategies
    PROVE  /\ TargetJobs(n, Proposed(s, Cpus, CounterSize)) \in Nat
           /\ TargetJobs(n, Proposed(s, Cpus, CounterSize)) <= n
<1>1. CounterSize \in Nat \ {0}
  <2>1. Cardinality(Children) \in Nat
    BY SetAssumption, FS_CardinalityType
  <2> QED
    BY <2>1, SetAssumption
<1>2. s.n \in Nat /\ Cpus \in Nat
  BY <1>1, BuildAssumption
<1>3. (s.n * Cpus) % CounterSize \in Nat
  <2>1. s.n * Cpus \in Nat
    BY <1>2
  <2> QED
    BY <1>1, <2>1, Division
<1>4. Proposed(s, Cpus, CounterSize) \in Nat
  BY <1>2, <1>3 DEF Proposed
<1> QED
  BY <1>4 DEF TargetJobs, Fewer

(* Nothing is planned before the first poll. *)
LEMMA InitPlanned == VecInit => Planned
<1> SUFFICES ASSUME VecInit PROVE Planned
  OBVIOUS
<1>1. jobs = <<>> /\ stage \in {"plain", "new"}
  BY DEF VecInit
<1>2. len \in Nat /\ target \in Nat /\ target <= len
  <2>1. CASE stage = "plain" /\ len = 0 /\ target = 0
    BY <2>1
  <2>2. CASE len \in Lengths /\ \E s \in Strategies :
                target = TargetJobs(len, Proposed(s, Cpus, CounterSize))
    <3>1. len \in Nat
      BY <2>2, BuildAssumption
    <3> QED
      BY <2>2, <3>1, TargetFits
  <2> QED
    BY <2>1, <2>2 DEF VecInit
<1> QED
  BY <1>1, <1>2 DEF Planned

(* Steps of the set and its children do not touch the plans. *)
LEMMA KeptPlanned ==
    ASSUME Planned, UNCHANGED <<len, target, jobs>>,
           stage' \in {"planning", "awaiting", "returned"} =>
               stage = stage' \/ (stage = "awaiting" /\ stage' = "returned")
    PROVE  Planned'
  BY DEF Planned

(* One more plan. *)
LEMMA CollectPlanned == Planned /\ CollectPlan => Planned'
<1> SUFFICES ASSUME Planned, CollectPlan PROVE Planned'
  OBVIOUS
<1> DEFINE plan == Plan(len, target, Len(jobs))
<1>1. /\ stage = "planning" /\ Len(jobs) < target /\ jobs' = Append(jobs, plan)
      /\ UNCHANGED <<stage, len, target>>
  BY DEF CollectPlan
<1>2. len \in Nat /\ target \in Nat \ {0} /\ Len(jobs) \in Nat
      /\ jobs \in Seq([base : Nat, len : Nat])
  BY <1>1 DEF Planned
<1>3. plan \in [base : Nat, len : Nat]
  BY <1>2, PlanShape
<1>4. plan = Plan(len, target, (Len(jobs) + 1) - 1)
  BY <1>2
<1> HIDE DEF plan
<1>5. /\ jobs' \in Seq([base : Nat, len : Nat]) /\ Len(jobs') = Len(jobs) + 1
      /\ \A i \in 1..Len(jobs) : jobs'[i] = jobs[i]
      /\ jobs'[Len(jobs) + 1] = plan
  BY <1>1, <1>2, <1>3
<1>6. \A i \in 1..Len(jobs') : jobs'[i] = Plan(len, target, i - 1)
  <2> SUFFICES ASSUME NEW i \in 1..Len(jobs') PROVE jobs'[i] = Plan(len, target, i - 1)
    OBVIOUS
  <2>1. i \in 1..Len(jobs) \/ i = Len(jobs) + 1
    BY <1>2, <1>5
  <2> QED
    BY <2>1, <1>4, <1>5 DEF Planned
<1> QED
  BY <1>1, <1>2, <1>5, <1>6 DEF Planned

(* Every step keeps the plans. *)
LEMMA StepPlanned == Planned /\ [VecNext]_allVars => Planned'
<1> SUFFICES ASSUME Planned, [VecNext]_allVars PROVE Planned'
  OBVIOUS
<1>1. CASE UNCHANGED vecVars
  BY <1>1, KeptPlanned DEF vecVars
<1>2. CASE DivideSlots
  BY <1>2 DEF DivideSlots, Planned
<1>3. CASE CollectPlan
  BY <1>3, CollectPlanned
<1>4. CASE AwaitSet
  BY <1>4 DEF AwaitSet, Planned
<1>5. CASE DropUnpolled
  BY <1>5, KeptPlanned DEF DropUnpolled
<1>6. CASE Return
  BY <1>6, KeptPlanned DEF Return
<1>7. CASE DropFuture
  BY <1>7, KeptPlanned DEF DropFuture
<1>8. ASSUME NEW c \in Children, WriteSlot(c) PROVE Planned'
  BY <1>8, KeptPlanned DEF WriteSlot
<1> QED
  BY <1>1, <1>2, <1>3, <1>4, <1>5, <1>6, <1>7, <1>8
  DEF VecNext, PlanStep, Begin, GuardStep, JobStep, BodyEnds, allVars, vecVars

(* All the plans of a planner with no more jobs than slots, in their order,  *)
(* are a partition.                                                           *)
LEMMA PlannedPartitions == Planned => PlanPartitions
<1> SUFFICES ASSUME Planned, stage \in {"awaiting", "returned"}
             PROVE  /\ jobs[1].base = 0 /\ jobs[target].base + jobs[target].len = len
                    /\ \A i \in 1..(target - 1) : jobs[i + 1].base = jobs[i].base + jobs[i].len
                    /\ \A i, j \in 1..target : jobs[i].len > 0 /\ jobs[i].len <= jobs[j].len + 1
  BY DEF PlanPartitions
<1> DEFINE share == len \div target
<1>1. len \in Nat /\ target \in Nat \ {0} /\ target <= len /\ Len(jobs) = target
  BY DEF Planned
<1>2. share \in Nat /\ share >= 1
  BY <1>1, Division, ShareNotEmpty
<1>3. ASSUME NEW i \in 1..target
      PROVE  /\ jobs[i].base = Offset(len, target, i - 1)
             /\ jobs[i].len = share + (IF i - 1 < len % target THEN 1 ELSE 0)
             /\ jobs[i].base \in Nat
             /\ jobs[i].base + jobs[i].len = Offset(len, target, i)
  <2>1. jobs[i] = Plan(len, target, i - 1) /\ i - 1 \in Nat /\ (i - 1) + 1 = i
    BY <1>1 DEF Planned
  <2>2. /\ jobs[i].base = Offset(len, target, i - 1)
        /\ jobs[i].len = share + (IF i - 1 < len % target THEN 1 ELSE 0)
        /\ jobs[i].base \in Nat
    <3>1. /\ Plan(len, target, i - 1).base = Offset(len, target, i - 1)
          /\ Plan(len, target, i - 1).len = share + (IF i - 1 < len % target THEN 1 ELSE 0)
          /\ Plan(len, target, i - 1) \in [base : Nat, len : Nat]
      BY <1>1, <2>1, PlanShape
    <3> QED
      BY <2>1, <3>1
  <2>3. Offset(len, target, (i - 1) + 1)
          = Offset(len, target, i - 1) + share + (IF i - 1 < len % target THEN 1 ELSE 0)
    BY <1>1, <2>1, OffsetStep
  <2> QED
    BY <1>2, <2>1, <2>2, <2>3
<1> HIDE DEF share
<1>e. Offset(len, target, 0) = 0 /\ Offset(len, target, target) = len
  BY <1>1, OffsetEnds
<1>4. jobs[1].base = 0
  <2>1. 1 \in 1..target /\ 1 - 1 = 0
    BY <1>1
  <2>2. jobs[1].base = Offset(len, target, 1 - 1)
    BY <2>1, <1>3
  <2> QED
    BY <2>1, <2>2, <1>e
<1>5. jobs[target].base + jobs[target].len = len
  <2>1. target \in 1..target
    BY <1>1
  <2> QED
    BY <2>1, <1>3, <1>e
<1>6. ASSUME NEW i \in 1..(target - 1)
      PROVE  jobs[i + 1].base = jobs[i].base + jobs[i].len
  <2>1. i \in 1..target /\ i + 1 \in 1..target /\ (i + 1) - 1 = i
    BY <1>1
  <2> QED
    BY <1>3, <2>1
<1>7. ASSUME NEW i \in 1..target, NEW j \in 1..target
      PROVE  jobs[i].len > 0 /\ jobs[i].len <= jobs[j].len + 1
  <2>1. jobs[i].len \in {share, share + 1} /\ jobs[j].len \in {share, share + 1}
    BY <1>2, <1>3
  <2> QED
    BY <1>2, <2>1
<1> QED
  BY <1>4, <1>5, <1>6, <1>7

-----------------------------------------------------------------------------
(* The jobs of set_sync divide the vector's slots among them: each slot      *)
(* belongs to one job, no job is empty and no two differ by more than one     *)
(* (vec.rs:81-114).                                                           *)
THEOREM PlansPartition == VecSpec => []PlanPartitions
<1>1. VecSpec => []Planned
  BY InitPlanned, StepPlanned, PTL DEF VecSpec
<1> QED
  BY <1>1, PlannedPartitions, PTL

-----------------------------------------------------------------------------
(* The set.  Nothing runs before the first poll, and closures run once. *)
Fresh == guard = "new" => \A c \in Children : child[c] = "absent"
Once == kind = "simple" => repolled = {}

\* A guard that is going to be idle, or is, has left its waker or has been
\* woken since.
Asked ==
    (guard \in {"recheck", "idle"} \/ (guard = "spawning" /\ kind = "scoped"))
        => woken \/ registered

\* The counter of a scoped set carries the writes of every child that has
\* counted itself off.
Carried == kind = "scoped" /\ repolled = {} => members \ Unfinished \subseteq carried

Waited == ReadyMeansComplete /\ HostIsWoken /\ ScopedResultsVisible

SetIInv == TypeOK /\ CountExact /\ Fresh /\ Once /\ Asked /\ Carried /\ Waited

-----------------------------------------------------------------------------
(* The vector.  A set_sync has the jobs it has planned, and its guard is    *)
(* polled once they are all there.                                          *)
Stages ==
    /\ stage \in {"plain", "new", "planning", "awaiting", "returned", "dropped", "panicked"}
    /\ stage = "plain" => len = 0
    /\ stage # "plain" =>
        /\ kind = "simple" /\ members = {c \in Children : c < target}
        /\ target <= Cardinality(Children)
        /\ guard # "new" => stage \in {"awaiting", "returned", "dropped"} /\ Len(jobs) = target
    /\ stage = "returned" => guard # "new" /\ Unfinished = {}

\* A job that is under way.
Begun(c) == stage # "plain" /\ guard # "new" /\ c \in members

\* What a job has written, and how much it has written when it has counted
\* itself off.
Filled ==
    /\ at \in [Children -> Nat]
    /\ \A c \in Children :
        /\ ~Begun(c) => at[c] = 0
        /\ Begun(c) => at[c] <= jobs[c + 1].len /\ (c \notin Unfinished => at[c] = jobs[c + 1].len)

Wrote(c, slot) == Begun(c) /\ jobs[c + 1].base <= slot /\ slot < jobs[c + 1].base + at[c]

Written ==
    /\ writes \in [0..(len - 1) -> {0, 1}]
    /\ \A slot \in 0..(len - 1) : writes[slot] = 1 <=> \E c \in Children : Wrote(c, slot)

VecIInv == SetIInv /\ Planned /\ Stages /\ Filled /\ Written

-----------------------------------------------------------------------------
(* The counter has room for every child. *)
LEMMA CounterNat ==
    /\ CounterSize \in Nat \ {0} /\ Cardinality(Children) \in Nat
    /\ Cardinality(Children) < CounterSize
<1>1. Cardinality(Children) \in Nat
  BY SetAssumption, FS_CardinalityType
<1> QED
  BY <1>1, SetAssumption

LEMMA MembersCounted ==
    ASSUME NEW S, S \subseteq Children
    PROVE  /\ IsFiniteSet(S) /\ Cardinality(S) \in 0..(CounterSize - 1)
<1>1. IsFiniteSet(S) /\ Cardinality(S) \in Nat /\ Cardinality(S) <= Cardinality(Children)
  BY SetAssumption, FS_Subset, FS_CardinalityType
<1> QED
  BY <1>1, CounterNat

(* A fetch_sub, and where it wraps. *)
LEMMA FetchSub ==
    ASSUME NEW r \in 0..(CounterSize - 1)
    PROVE  /\ (r + CounterSize - 1) % CounterSize = IF r = 0 THEN CounterSize - 1 ELSE r - 1
           /\ (r + CounterSize - 1) % CounterSize \in 0..(CounterSize - 1)
<1>1. CounterSize \in Nat \ {0}
  BY CounterNat
<1>2. CASE r = 0
  <2>1. r + CounterSize - 1 \in 0..(CounterSize - 1) /\ r + CounterSize - 1 = CounterSize - 1
    BY <1>1, <1>2
  <2>2. \A x \in 0..(CounterSize - 1) : x % CounterSize = x
    BY <1>1
  <2> QED
    BY <1>2, <2>1, <2>2
<1>3. CASE r # 0
  <2>1. r - 1 \in 0..(CounterSize - 1) /\ r + CounterSize - 1 = (r - 1) + CounterSize
    BY <1>1, <1>3
  <2>2. \A x \in 0..(CounterSize - 1) : (x + CounterSize) % CounterSize = x
    BY <1>1
  <2>3. ((r - 1) + CounterSize) % CounterSize = r - 1
    BY <2>1, <2>2
  <2> QED
    BY <1>3, <2>1, <2>3
<1> QED
  BY <1>2, <1>3

(* A child that moves. *)
LEMMA Moved ==
    ASSUME TypeOK, NEW c \in Children, NEW from, NEW to, Goes(c, from, to)
    PROVE  /\ child[c] = from /\ child'[c] = to
           /\ \A d \in Children : d # c => child'[d] = child[d]
           /\ from # "absent" => c \in members
BY DEF Goes, TypeOK

(* The set that is given is not yet at work. *)
LEMMA InitSet == Init => SetIInv
<1> SUFFICES ASSUME Init PROVE SetIInv
  OBVIOUS
<1>1. members \subseteq Children /\ kind \in {"scoped", "simple"}
  BY SetAssumption DEF Init
<1>2. Unfinished = members
  BY <1>1 DEF Init, Unfinished
<1>3. remaining \in 0..(CounterSize - 1)
  BY <1>1, MembersCounted, CounterNat DEF Init
<1>4. TypeOK
  BY <1>1, <1>3 DEF Init, TypeOK
<1>5. CountExact
  BY <1>2 DEF Init, CountExact
<1>6. Fresh /\ Once /\ Asked /\ Carried
  BY <1>2 DEF Init, Fresh, Once, Asked, Carried
<1>7. Waited
  BY DEF Init, Waited, ReadyMeansComplete, HostIsWoken, ScopedResultsVisible, ResultsVisible
<1> QED
  BY <1>4, <1>5, <1>6, <1>7 DEF SetIInv

(* The first poll counts the children, none of which is running. *)
LEMMA FirstPollSet == SetIInv /\ FirstPoll => SetIInv'
<1> SUFFICES ASSUME SetIInv, FirstPoll PROVE SetIInv'
  OBVIOUS
<1>0. /\ guard = "new" /\ guard' = "spawning" /\ remaining' = Cardinality(members)
      /\ UNCHANGED <<kind, members, woken, seen, child, repolled, carried, wakerView>>
  BY DEF FirstPoll, setVars, viewVars
<1>1. registered' \in BOOLEAN /\ (kind = "scoped" => registered')
  BY DEF FirstPoll
<1>2. members \subseteq Children /\ Unfinished = members /\ Unfinished' = members
  BY <1>0 DEF SetIInv, TypeOK, Fresh, Unfinished
<1>3. remaining' \in 0..(CounterSize - 1)
  BY <1>0, <1>2, MembersCounted
<1>4. TypeOK'
  BY <1>0, <1>1, <1>3 DEF SetIInv, TypeOK
<1>5. CountExact'
  BY <1>0, <1>2 DEF CountExact
<1>6. Fresh' /\ Once' /\ Carried'
  BY <1>0, <1>2 DEF SetIInv, Fresh, Once, Carried
<1>7. Asked'
  BY <1>0, <1>1 DEF Asked
<1>8. Waited'
  BY <1>0 DEF Waited, ReadyMeansComplete, HostIsWoken, ScopedResultsVisible, ResultsVisible
<1> QED
  BY <1>4, <1>5, <1>6, <1>7, <1>8 DEF SetIInv

(* The host goes on with its poll, polls again, or leaves. *)
LEMMA HostSet ==
    ASSUME SetIInv, SpawnsEnd \/ Poll \/ Register \/ Look \/ Leave \/ DropGuard
    PROVE  SetIInv'
<1> USE DEF SetIInv
<1>0. UNCHANGED <<kind, members, remaining, child, repolled, carried, wakerView>>
  BY DEF SpawnsEnd, Poll, Register, Look, Leave, DropGuard, setVars, viewVars
<1>1. Unfinished' = Unfinished /\ IsFiniteSet(Unfinished)
  <2>1. Unfinished \subseteq Children
    BY DEF TypeOK, Unfinished
  <2> QED
    BY <1>0, <2>1, MembersCounted DEF Unfinished
<1>2. guard' # "new" /\ guard' # "spawning" /\ guard \notin {"left", "panicked"}
      /\ (guard = "new" => guard' \in {"left", "panicked"})
  BY DEF SpawnsEnd, Poll, Register, Look, Leave, DropGuard, TypeOK
<1>3. TypeOK'
  <2>1. guard' \in {"idle", "look", "register", "recheck", "ready", "left", "panicked"}
    BY DEF SpawnsEnd, Poll, Register, Look, Leave, DropGuard
  <2>2. registered' \in BOOLEAN /\ woken' \in BOOLEAN
    BY DEF SpawnsEnd, Poll, Register, Look, Leave, DropGuard, TypeOK
  <2>3. seen' \subseteq members
    BY DEF SpawnsEnd, Poll, Register, Look, Leave, DropGuard, TypeOK
  <2> QED
    BY <1>0, <2>1, <2>2, <2>3 DEF TypeOK
<1>4. CountExact'
  BY <1>0, <1>1, <1>2 DEF CountExact
<1>5. Fresh' /\ Once' /\ Carried'
  BY <1>0, <1>1, <1>2 DEF Fresh, Once, Carried
<1>6. Asked'
  <2>1. CASE SpawnsEnd
    BY <1>0, <2>1 DEF SpawnsEnd, Asked, TypeOK
  <2>2. CASE Poll
    BY <1>0, <2>2 DEF Poll, Asked
  <2>3. CASE Register
    BY <1>0, <2>3 DEF Register, Asked
  <2>4. CASE Look
    BY <1>0, <2>4 DEF Look, Asked
  <2>5. CASE Leave \/ DropGuard
    BY <1>0, <2>5 DEF Leave, DropGuard, Asked
  <2> QED
    BY <2>1, <2>2, <2>3, <2>4, <2>5
<1>7. CASE ~Look
  <2>1. guard' # "ready" /\ guard' # "idle"
    BY <1>7 DEF SpawnsEnd, Poll, Register, Leave, DropGuard
  <2>2. Waited'
    BY <2>1 DEF Waited, ReadyMeansComplete, HostIsWoken, ScopedResultsVisible, ResultsVisible
  <2> QED
    BY <1>3, <1>4, <1>5, <1>6, <2>2
<1>8. CASE Look
  <2>1. /\ guard' = "ready" => remaining = 0
        /\ guard' = "idle" => remaining # 0
        /\ guard \notin {"new", "left", "panicked"}
        /\ kind = "scoped" => seen' = seen \cup carried
    BY <1>8 DEF Look
  <2>2. remaining = 0 /\ repolled = {} => Unfinished = {}
    <3>1. remaining = 0 /\ repolled = {} => Cardinality(Unfinished) = 0
      BY <2>1 DEF CountExact
    <3> QED
      BY <1>1, <3>1, FS_EmptySet
  <2>3. ReadyMeansComplete' /\ HostIsWoken'
    BY <1>0, <1>1, <2>1, <2>2 DEF ReadyMeansComplete, HostIsWoken
  <2>4. ScopedResultsVisible'
    <3> SUFFICES ASSUME kind = "scoped", guard' = "ready", repolled = {} PROVE seen' = members
      BY <1>0 DEF ScopedResultsVisible, ResultsVisible
    <3>1. members \subseteq carried
      BY <2>1, <2>2 DEF Carried
    <3> QED
      BY <1>0, <1>3, <2>1, <3>1 DEF TypeOK
  <2> QED
    BY <1>3, <1>4, <1>5, <1>6, <2>3, <2>4 DEF Waited
<1> QED
  BY <1>7, <1>8

(* A child moves without counting itself off. *)
LEMMA ChildSet ==
    ASSUME SetIInv, NEW c \in Children,
           SpawnChild(c) \/ Start(c) \/ BodyFails(c) \/ Finish(c) \/ DropChild(c)
    PROVE  SetIInv' /\ (repolled = {} => Unfinished' = Unfinished)
<1> USE DEF SetIInv
<1>0. UNCHANGED <<kind, members, guard, registered, woken, seen, remaining, repolled, carried, wakerView>>
  BY DEF SpawnChild, Start, BodyFails, Finish, DropChild, setVars, hostVars, viewVars
<1>1. PICK from, to :
        /\ Goes(c, from, to) /\ c \in members
        /\ \/ <<from, to>> \in {<<"absent", "queued">>, <<"queued", "running">>,
                                <<"running", "lost">>, <<"returning", "finished">>,
                                <<"finished", "dropped">>}
           \/ from = "returning" /\ to = "lost" /\ c \in repolled
        /\ from = "absent" => guard = "spawning"
  <2>1. CASE SpawnChild(c)
    BY <2>1 DEF SpawnChild
  <2>2. CASE Start(c)
    BY <2>2, Moved DEF Start
  <2>3. CASE BodyFails(c)
    BY <2>3, Moved DEF BodyFails
  <2>4. CASE DropChild(c)
    BY <2>4, Moved DEF DropChild
  <2>5. CASE Finish(c) /\ c \in repolled
    BY <2>5, Moved DEF Finish
  <2>6. CASE Finish(c) /\ c \notin repolled
    BY <2>6, Moved DEF Finish
  <2> QED
    BY <2>1, <2>2, <2>3, <2>4, <2>5, <2>6
<1>2. /\ child[c] = from /\ child'[c] = to
      /\ \A d \in Children : d # c => child'[d] = child[d]
      /\ child' = [child EXCEPT ![c] = to] /\ from # "waking"
  BY <1>1, Moved DEF Goes
<1>3. repolled = {} => Unfinished' = Unfinished
  <2> SUFFICES ASSUME repolled = {} PROVE Unfinished' = Unfinished
    OBVIOUS
  <2>1. members \subseteq Children
    BY DEF TypeOK
  <2>2. child[c] \in {"absent", "queued", "running", "lost"}
           <=> child'[c] \in {"absent", "queued", "running", "lost"}
    BY <1>1, <1>2
  <2>3. \A d \in members : d \in Unfinished <=> d \in Unfinished'
    BY <1>0, <1>2, <2>1, <2>2 DEF Unfinished
  <2> QED
    BY <1>0, <2>3 DEF Unfinished
<1>4. TypeOK'
  <2>1. to \in {"queued", "running", "lost", "finished", "dropped"}
    BY <1>1
  <2> QED
    BY <1>0, <1>1, <1>2, <2>1 DEF TypeOK
<1>5. Fresh'
  <2>1. guard # "new"
    BY <1>1, <1>2 DEF Fresh
  <2> QED
    BY <1>0, <2>1 DEF Fresh
<1>6. CountExact' /\ Once' /\ Asked' /\ Carried'
  BY <1>0, <1>3 DEF CountExact, Once, Asked, Carried
<1>7. ReadyMeansComplete' /\ ScopedResultsVisible'
  BY <1>0, <1>3 DEF Waited, ReadyMeansComplete, ScopedResultsVisible, ResultsVisible
<1>8. HostIsWoken'
  <2>1. \A d \in members : child[d] = "waking" => child'[d] = "waking"
    BY <1>2 DEF TypeOK
  <2> QED
    BY <1>0, <2>1 DEF Waited, HostIsWoken
<1> QED
  BY <1>3, <1>4, <1>5, <1>6, <1>7, <1>8 DEF Waited

(* A child counts itself off: the one that finds nobody left wakes the host. *)
LEMMA CountDownSet ==
    ASSUME SetIInv, NEW c \in Children, CountDown(c)
    PROVE  /\ SetIInv' /\ c \in members /\ Unfinished' = Unfinished \ {c}
<1> USE DEF SetIInv
<1>0. /\ remaining' = (remaining + CounterSize - 1) % CounterSize
      /\ carried' = IF kind = "scoped" THEN carried \cup {c} ELSE carried
      /\ UNCHANGED <<kind, members, guard, registered, woken, seen, repolled, wakerView>>
  BY DEF CountDown, setVars, hostVars
<1>1. PICK to \in {"waking", "returning"} :
        Goes(c, "running", to) /\ (remaining = 1 => to = "waking")
  BY DEF CountDown
<1>2. /\ child[c] = "running" /\ child'[c] = to /\ c \in members
      /\ \A d \in Children : d # c => child'[d] = child[d]
      /\ child' = [child EXCEPT ![c] = to]
  BY <1>1, Moved DEF Goes
<1>3. members \subseteq Children /\ remaining \in 0..(CounterSize - 1)
  BY DEF TypeOK
<1>4. /\ remaining' = IF remaining = 0 THEN CounterSize - 1 ELSE remaining - 1
      /\ remaining' \in 0..(CounterSize - 1)
  BY <1>0, <1>3, FetchSub
<1>5. Unfinished' = Unfinished \ {c} /\ c \in Unfinished
  BY <1>0, <1>1, <1>2, <1>3 DEF Unfinished
<1>6. /\ IsFiniteSet(Unfinished) /\ Cardinality(Unfinished) \in Nat
      /\ Cardinality(Unfinished) # 0 /\ Cardinality(Unfinished') = Cardinality(Unfinished) - 1
  <2>1. Unfinished \subseteq Children
    BY <1>3 DEF Unfinished
  <2>2. IsFiniteSet(Unfinished) /\ Cardinality(Unfinished) \in Nat
    BY <2>1, MembersCounted, FS_CardinalityType
  <2> QED
    BY <1>5, <2>2, FS_EmptySet, FS_RemoveElement
<1>7. remaining' = 0 => remaining = 1
  <2>1. CounterSize > 1
    <3>1. Cardinality(Children) # 0
      BY SetAssumption, FS_EmptySet
    <3> QED
      BY <3>1, CounterNat
  <2> QED
    BY <1>3, <1>4, <2>1, CounterNat
<1>8. TypeOK'
  <2>1. carried' \subseteq members
    BY <1>0, <1>2 DEF TypeOK
  <2> QED
    BY <1>0, <1>1, <1>2, <1>4, <2>1 DEF TypeOK
<1>9. CountExact'
  <2> SUFFICES ASSUME repolled = {}, guard \notin {"new", "left", "panicked"} \/ kind = "simple"
               PROVE  remaining' = Cardinality(Unfinished')
    BY <1>0 DEF CountExact
  <2>1. remaining = Cardinality(Unfinished)
    BY DEF CountExact
  <2> QED
    BY <1>4, <1>6, <2>1
<1>10. Fresh' /\ Once' /\ Asked'
  BY <1>0, <1>2 DEF Fresh, Once, Asked
<1>11. Carried'
  BY <1>0, <1>5 DEF Carried
<1>12. ReadyMeansComplete' /\ ScopedResultsVisible'
  BY <1>0, <1>5 DEF Waited, ReadyMeansComplete, ScopedResultsVisible, ResultsVisible
<1>13. HostIsWoken'
  <2> SUFFICES ASSUME guard = "idle", remaining' = 0, ~woken
               PROVE  registered /\ \E d \in members : child'[d] = "waking"
    BY <1>0 DEF HostIsWoken
  <2>1. registered
    BY DEF Asked
  <2>2. child'[c] = "waking"
    BY <1>1, <1>2, <1>7
  <2> QED
    BY <1>2, <2>1, <2>2
<1> QED
  BY <1>2, <1>5, <1>8, <1>9, <1>10, <1>11, <1>12, <1>13 DEF Waited

(* The last child wakes the host, or a completed one is polled again. *)
LEMMA WakeHostSet ==
    ASSUME SetIInv, NEW c \in Children, WakeHost(c) PROVE SetIInv' /\ Unfinished' = Unfinished
<1> USE DEF SetIInv
<1>0. /\ Goes(c, "waking", "returning") /\ woken' = (woken \/ registered) /\ registered' = FALSE
      /\ wakerView' = wakerView \cup {c}
      /\ UNCHANGED <<kind, members, guard, seen, remaining, repolled, carried>>
  BY DEF WakeHost, setVars
<1>1. /\ child[c] = "waking" /\ child'[c] = "returning" /\ c \in members
      /\ \A d \in Children : d # c => child'[d] = child[d]
      /\ child' = [child EXCEPT ![c] = "returning"]
  BY <1>0, Moved DEF Goes
<1>2. Unfinished' = Unfinished
  BY <1>0, <1>1 DEF Unfinished, TypeOK
<1>3. TypeOK'
  <2>1. woken' \in BOOLEAN /\ registered' \in BOOLEAN
    BY <1>0 DEF TypeOK
  <2>2. wakerView' \subseteq members
    BY <1>0, <1>1 DEF TypeOK
  <2> QED
    BY <1>0, <1>1, <2>1, <2>2 DEF TypeOK
<1>4. CountExact' /\ Once' /\ Carried'
  BY <1>0, <1>2 DEF CountExact, Once, Carried
<1>5. Fresh'
  BY <1>0, <1>1 DEF Fresh
<1>6. Asked'
  BY <1>0 DEF Asked
<1>7. ReadyMeansComplete' /\ ScopedResultsVisible'
  BY <1>0, <1>2 DEF Waited, ReadyMeansComplete, ScopedResultsVisible, ResultsVisible
<1>8. HostIsWoken'
  BY <1>0 DEF Waited, HostIsWoken
<1> QED
  BY <1>2, <1>3, <1>4, <1>5, <1>6, <1>7, <1>8 DEF Waited

LEMMA RepollSet ==
    ASSUME SetIInv, NEW c \in Children, Repoll(c) PROVE SetIInv'
<1> USE DEF SetIInv
<1>0. /\ kind = "scoped" /\ Goes(c, "finished", "queued") /\ repolled' = repolled \cup {c}
      /\ UNCHANGED <<kind, members, guard, registered, woken, seen, remaining, carried, wakerView>>
  BY DEF Repoll, setVars, hostVars, viewVars
<1>1. /\ child[c] = "finished" /\ child'[c] = "queued" /\ c \in members
      /\ \A d \in Children : d # c => child'[d] = child[d]
      /\ child' = [child EXCEPT ![c] = "queued"] /\ repolled' # {}
  BY <1>0, Moved DEF Goes
<1>2. TypeOK'
  BY <1>0, <1>1 DEF TypeOK
<1>3. CountExact' /\ Once' /\ Carried' /\ Asked'
  BY <1>0, <1>1 DEF CountExact, Once, Carried, Asked
<1>4. Fresh'
  BY <1>0, <1>1 DEF Fresh
<1>5. ReadyMeansComplete' /\ ScopedResultsVisible'
  BY <1>0, <1>1 DEF ReadyMeansComplete, ScopedResultsVisible, ResultsVisible
<1>6. HostIsWoken'
  <2>1. \A d \in members : child[d] = "waking" => child'[d] = "waking"
    BY <1>1 DEF TypeOK
  <2> QED
    BY <1>0, <2>1 DEF Waited, HostIsWoken
<1> QED
  BY <1>2, <1>3, <1>4, <1>5, <1>6 DEF Waited

(* Every step of a set preserves its invariant; a set_sync takes no others. *)
LEMMA StepSet == SetIInv /\ [Next]_vars => SetIInv'
<1> SUFFICES ASSUME SetIInv, [Next]_vars PROVE SetIInv'
  OBVIOUS
<1>1. CASE FirstPoll
  BY <1>1, FirstPollSet
<1>2. CASE SpawnsEnd \/ Poll \/ Register \/ Look \/ Leave \/ DropGuard
  BY <1>2, HostSet
<1>3. ASSUME NEW c \in Children,
             SpawnChild(c) \/ Start(c) \/ BodyFails(c) \/ Finish(c) \/ DropChild(c)
      PROVE  SetIInv'
  BY <1>3, ChildSet
<1>4. ASSUME NEW c \in Children, CountDown(c) PROVE SetIInv'
  BY <1>4, CountDownSet
<1>5. ASSUME NEW c \in Children, WakeHost(c) PROVE SetIInv'
  BY <1>5, WakeHostSet
<1>6. ASSUME NEW c \in Children, Repoll(c) PROVE SetIInv'
  BY <1>6, RepollSet
<1>7. CASE UNCHANGED vars
  <2>1. UNCHANGED <<kind, members, guard, registered, woken, seen, remaining, child, repolled,
                    carried, wakerView>>
    BY <1>7 DEF vars, setVars, hostVars, viewVars
  <2>2. Unfinished' = Unfinished
    BY <2>1 DEF Unfinished
  <2>3. TypeOK' /\ CountExact' /\ Fresh' /\ Once' /\ Asked' /\ Carried'
    BY <2>1, <2>2 DEF SetIInv, TypeOK, CountExact, Fresh, Once, Asked, Carried
  <2>4. Waited'
    BY <2>1, <2>2 DEF SetIInv, Waited, ReadyMeansComplete, HostIsWoken, ScopedResultsVisible,
                      ResultsVisible
  <2> QED
    BY <2>3, <2>4 DEF SetIInv
<1> QED
  BY <1>1, <1>2, <1>3, <1>4, <1>5, <1>6, <1>7 DEF Next, HostStep, ChildStep

LEMMA VecIsSet == VecNext => [Next]_vars
<1> SUFFICES ASSUME VecNext PROVE [Next]_vars
  OBVIOUS
<1>1. CASE PlanStep \/ DropUnpolled
  BY <1>1 DEF PlanStep, DivideSlots, CollectPlan, AwaitSet, DropUnpolled
<1>2. CASE Begin \/ GuardStep \/ Return \/ DropFuture \/ Poll
  BY <1>2 DEF Begin, GuardStep, Return, DropFuture, Next
<1>3. ASSUME NEW c \in Children,
             JobStep(c) \/ (UNCHANGED vecVars /\ (Repoll(c) \/ DropChild(c)))
      PROVE  [Next]_vars
  BY <1>3 DEF JobStep, WriteSlot, BodyEnds, Next, ChildStep
<1> QED
  BY <1>1, <1>2, <1>3 DEF VecNext

(* The set of a set_sync, and any other. *)
LEMMA SetInvariance == VecSpec => []SetIInv
<1>1. VecInit => SetIInv
  BY InitSet DEF VecInit
<1>2. SetIInv /\ [VecNext]_allVars => SetIInv'
  <2>1. [VecNext]_allVars => [Next]_vars
    BY VecIsSet DEF allVars
  <2> QED
    BY <2>1, StepSet
<1> QED
  BY <1>1, <1>2, PTL DEF VecSpec

(* When the guard is Ready every child has finished (set.rs:6), unless one  *)
(* was polled after its completion.                                         *)
THEOREM ReadyAlwaysComplete == VecSpec => []ReadyMeansComplete
<1>1. SetIInv => ReadyMeansComplete
  BY DEF SetIInv, Waited
<1> QED
  BY <1>1, SetInvariance, PTL

(* The host never sleeps beside a set that is complete: the counter is read *)
(* again after the waker was left.                                          *)
THEOREM HostAlwaysWoken == VecSpec => []HostIsWoken
<1>1. SetIInv => HostIsWoken
  BY DEF SetIInv, Waited
<1> QED
  BY <1>1, SetInvariance, PTL

(* What the futures of a scoped set wrote is visible to the host that goes  *)
(* on: Release on the fetch_sub meets Acquire on the load.                  *)
THEOREM ResultsAlwaysVisible == VecSpec => []ScopedResultsVisible
<1>1. SetIInv => ScopedResultsVisible
  BY DEF SetIInv, Waited
<1> QED
  BY <1>1, SetInvariance, PTL

-----------------------------------------------------------------------------
(* Whose slot is whose: the offsets grow with the jobs, and every slot lies *)
(* between two of them.                                                     *)
LEMMA TimesGrows ==
    ASSUME NEW a \in Nat, NEW b \in Nat, NEW k \in Nat, a <= b PROVE a * k <= b * k
<1>1. PICK d \in Nat : b = a + d
  <2>1. b - a \in Nat /\ b = a + (b - a)
    OBVIOUS
  <2> QED
    BY <2>1
<1>2. (a + d) * k = a * k + d * k /\ a * k \in Nat /\ d * k \in Nat
  OBVIOUS
<1> QED
  BY <1>1, <1>2

LEMMA OffsetGrows ==
    ASSUME NEW n \in Nat, NEW t \in Nat \ {0}, NEW i \in Nat, NEW j \in Nat, i <= j
    PROVE  Offset(n, t, i) <= Offset(n, t, j)
<1> DEFINE k == n \div t
<1> DEFINE m == n % t
<1>1. k \in Nat /\ m \in Nat
  BY Division
<1>2. Offset(n, t, i) = i * k + Fewer(i, m) /\ Offset(n, t, j) = j * k + Fewer(j, m)
  BY DEF Offset
<1> HIDE DEF k, m
<1>3. Fewer(i, m) \in Nat /\ Fewer(j, m) \in Nat /\ Fewer(i, m) <= Fewer(j, m)
  BY <1>1 DEF Fewer
<1>4. i * k \in Nat /\ j * k \in Nat /\ i * k <= j * k
  BY <1>1, TimesGrows
<1> QED
  BY <1>2, <1>3, <1>4

LEMMA SlotHasJob ==
    ASSUME NEW n \in Nat, NEW t \in Nat \ {0}, NEW slot \in 0..(n - 1)
    PROVE  \E i \in 0..(t - 1) : Offset(n, t, i) <= slot /\ slot < Offset(n, t, i + 1)
<1> DEFINE k == n \div t
<1> DEFINE m == n % t
<1>1. k \in Nat /\ m \in Nat /\ m < t /\ n = t * k + m /\ t * k \in Nat /\ m * (k + 1) \in Nat
  BY Division
<1>2. \A i \in Nat : Offset(n, t, i) = i * k + Fewer(i, m)
  BY DEF Offset
<1> HIDE DEF k, m
<1>3. CASE slot < m * (k + 1)
  <2> DEFINE q == slot \div (k + 1)
             r == slot % (k + 1)
  <2>1. q \in Nat /\ r \in Nat /\ r < k + 1 /\ slot = (k + 1) * q + r
    <3>1. k + 1 \in Nat \ {0} /\ slot \in Nat
      BY <1>1
    <3> QED
      BY <3>1, Division
  <2> HIDE DEF q, r
  <2>2. (k + 1) * q = q * (k + 1) /\ q * (k + 1) = q * k + q /\ q * k \in Nat /\ (q + 1) * k = q * k + k
    <3>1. (k + 1) * q = q * (k + 1)
      BY <1>1, <2>1
    <3>2. q * (k + 1) = q * k + q
      BY <1>1, <2>1
    <3>3. (q + 1) * k = q * k + k /\ q * k \in Nat
      BY <1>1, <2>1
    <3> QED
      BY <3>1, <3>2, <3>3
  <2>3. q < m
    <3> SUFFICES ASSUME q >= m PROVE FALSE
      BY <1>1, <2>1
    <3>1. m * (k + 1) <= q * (k + 1)
      BY <1>1, <2>1, TimesGrows
    <3> QED
      BY <1>1, <1>3, <2>1, <2>2, <3>1
  <2>4. Fewer(q, m) = q /\ Fewer(q + 1, m) = q + 1 /\ q \in 0..(t - 1)
    BY <1>1, <2>1, <2>3 DEF Fewer
  <2>5. Offset(n, t, q) = q * k + q /\ Offset(n, t, q + 1) = (q + 1) * k + (q + 1)
    BY <1>2, <2>1, <2>4
  <2>6. Offset(n, t, q) <= slot /\ slot < Offset(n, t, q + 1)
    BY <1>1, <2>1, <2>2, <2>5
  <2> QED
    BY <2>4, <2>6
<1>4. CASE slot >= m * (k + 1)
  <2>0. k # 0 /\ m * (k + 1) = m * k + m /\ m * k \in Nat
    <3>1. m * (k + 1) = m * k + m /\ m * k \in Nat
      BY <1>1
    <3>2. k = 0 => t * k = 0 /\ m * k = 0
      BY <1>1
    <3> QED
      BY <1>1, <1>4, <3>1, <3>2
  <2> DEFINE rest == slot - m * (k + 1)
             q == rest \div k
             r == rest % k
  <2>1. rest \in Nat /\ slot = m * (k + 1) + rest
    BY <1>1, <1>4
  <2>2. q \in Nat /\ r \in Nat /\ r < k /\ rest = k * q + r
    BY <1>1, <2>0, <2>1, Division
  <2> HIDE DEF rest, q, r
  <2>3. k * q = q * k /\ q * k \in Nat /\ (m + q) * k = m * k + q * k
        /\ (m + q + 1) * k = m * k + q * k + k
    BY <1>1, <2>2
  <2>4. m + q < t
    <3> SUFFICES ASSUME m + q >= t PROVE FALSE
      BY <1>1, <2>2
    <3>1. m + q \in Nat /\ t * k <= (m + q) * k
      BY <1>1, <2>2, TimesGrows
    <3> QED
      BY <1>1, <2>0, <2>1, <2>2, <2>3, <3>1
  <2>5. /\ Fewer(m + q, m) = m /\ Fewer(m + q + 1, m) = m /\ m + q \in 0..(t - 1)
        /\ m + q \in Nat /\ m + q + 1 \in Nat
    BY <1>1, <2>2, <2>4 DEF Fewer
  <2>6. Offset(n, t, m + q) = (m + q) * k + m /\ Offset(n, t, m + q + 1) = (m + q + 1) * k + m
    BY <1>2, <2>5
  <2>7. Offset(n, t, m + q) <= slot /\ slot < Offset(n, t, m + q + 1)
    BY <1>1, <2>0, <2>1, <2>2, <2>3, <2>6
  <2> QED
    BY <2>5, <2>7
<1> QED
  BY <1>1, <1>3, <1>4

-----------------------------------------------------------------------------
(* The job of a child that is under way. *)
LEMMA JobOf ==
    ASSUME Planned, Stages, NEW c \in Children, Begun(c)
    PROVE  /\ len \in Nat /\ target \in Nat \ {0} /\ c \in Nat /\ c < target
           /\ jobs[c + 1].base \in Nat /\ jobs[c + 1].len \in Nat
           /\ jobs[c + 1].base = Offset(len, target, c)
           /\ jobs[c + 1].base + jobs[c + 1].len = Offset(len, target, c + 1)
           /\ jobs[c + 1].base + jobs[c + 1].len <= len
<1>1. c < target /\ Len(jobs) = target /\ stage # "plain"
  BY DEF Stages, Begun
<1>2. c \in Nat
  BY BuildAssumption, CounterNat
<1>3. len \in Nat /\ target \in Nat \ {0}
  BY <1>1, <1>2 DEF Planned
<1>4. c + 1 \in 1..Len(jobs) /\ (c + 1) - 1 = c
  BY <1>1, <1>2, <1>3
<1>5. jobs[c + 1] = Plan(len, target, c)
  BY <1>4 DEF Planned
<1>6. /\ jobs[c + 1].base \in Nat /\ jobs[c + 1].len \in Nat
      /\ jobs[c + 1].base = Offset(len, target, c)
  <2>1. Plan(len, target, c).base = Offset(len, target, c)
        /\ Plan(len, target, c) \in [base : Nat, len : Nat]
    BY <1>2, <1>3, PlanShape
  <2> QED
    BY <1>5, <2>1
<1>7. jobs[c + 1].base + jobs[c + 1].len = Offset(len, target, c + 1)
  <2>1. jobs[c + 1].len = (len \div target) + (IF c < len % target THEN 1 ELSE 0)
    <3>1. Plan(len, target, c).len = (len \div target) + (IF c < len % target THEN 1 ELSE 0)
      BY <1>2, <1>3, PlanShape
    <3> QED
      BY <1>5, <3>1
  <2>2. Offset(len, target, c + 1)
           = Offset(len, target, c) + (len \div target) + (IF c < len % target THEN 1 ELSE 0)
    BY <1>2, <1>3, OffsetStep
  <2>3. len \div target \in Nat
    BY <1>3, Division
  <2> QED
    BY <1>6, <2>1, <2>2, <2>3
<1>8. Offset(len, target, c + 1) <= len
  <2>1. c + 1 \in Nat /\ c + 1 <= target
    BY <1>1, <1>2, <1>3
  <2>2. Offset(len, target, c + 1) <= Offset(len, target, target)
    BY <1>3, <2>1, OffsetGrows
  <2> QED
    BY <1>3, <2>2, OffsetEnds
<1> QED
  BY <1>1, <1>2, <1>3, <1>6, <1>7, <1>8

(* No slot is in two jobs. *)
LEMMA JobsDisjoint ==
    ASSUME Planned, Stages, NEW c \in Children, NEW d \in Children, Begun(c), Begun(d), c # d,
           NEW slot \in Nat,
           jobs[c + 1].base <= slot, slot < jobs[c + 1].base + jobs[c + 1].len,
           jobs[d + 1].base <= slot, slot < jobs[d + 1].base + jobs[d + 1].len
    PROVE  FALSE
<1>1. ASSUME NEW x \in Children, NEW y \in Children, Begun(x), Begun(y), x < y,
             slot < jobs[x + 1].base + jobs[x + 1].len, jobs[y + 1].base <= slot
      PROVE  FALSE
  <2>1. /\ x \in Nat /\ y \in Nat /\ len \in Nat /\ target \in Nat \ {0}
        /\ jobs[x + 1].base + jobs[x + 1].len = Offset(len, target, x + 1)
        /\ jobs[y + 1].base = Offset(len, target, y) /\ jobs[y + 1].base \in Nat
        /\ jobs[x + 1].base \in Nat /\ jobs[x + 1].len \in Nat
    BY <1>1, JobOf
  <2>2. x + 1 \in Nat /\ x + 1 <= y
    BY <1>1, <2>1
  <2>3. Offset(len, target, x + 1) <= Offset(len, target, y)
    BY <2>1, <2>2, OffsetGrows
  <2>4. jobs[x + 1].base + jobs[x + 1].len <= jobs[y + 1].base
    BY <2>1, <2>3
  <2> QED
    BY <1>1, <2>1, <2>4
<1>2. c \in Nat /\ d \in Nat
  BY JobOf
<1>3. c < d \/ d < c
  BY <1>2
<1> QED
  BY <1>1, <1>3

(* Nothing is written before the guard is polled. *)
LEMMA InitVec == VecInit => VecIInv
<1> SUFFICES ASSUME VecInit PROVE VecIInv
  OBVIOUS
<1>1. SetIInv /\ Planned
  BY InitSet, InitPlanned DEF VecInit
<1>2. guard = "new" /\ stage \in {"plain", "new"}
  BY DEF VecInit, Init
<1>3. Stages
  BY <1>2 DEF VecInit, Stages
<1>4. \A c \in Children : ~Begun(c)
  BY <1>2 DEF Begun
<1>5. Filled
  BY <1>4 DEF VecInit, Filled
<1>6. Written
  BY <1>4 DEF VecInit, Written, Wrote
<1> QED
  BY <1>1, <1>3, <1>5, <1>6 DEF VecIInv

(* Before the guard is polled no job has begun. *)
LEMMA UnbegunVec ==
    ASSUME Filled, Written, \A c \in Children : ~Begun(c), \A c \in Children : ~Begun(c)',
           UNCHANGED <<len, at, writes>>
    PROVE  Filled' /\ Written'
<1>1. Filled'
  BY DEF Filled
<1>2. Written'
  BY DEF Written, Wrote
<1> QED
  BY <1>1, <1>2

(* A step after which the same jobs are under way, none of which has        *)
(* written, and those that count themselves off are through.                *)
LEMMA KeptVec ==
    ASSUME Filled, Written, UNCHANGED <<len, jobs, at, writes>>,
           \A c \in Children : (Begun(c)' <=> Begun(c)),
           \A c \in Children : Begun(c) /\ c \in Unfinished =>
                                   c \in Unfinished' \/ at[c] = jobs[c + 1].len
    PROVE  Filled' /\ Written'
<1>1. Filled'
  BY DEF Filled
<1>2. \A c \in Children, slot \in 0..(len - 1) : Wrote(c, slot)' <=> Wrote(c, slot)
  BY DEF Wrote
<1>3. Written'
  BY <1>2 DEF Written
<1> QED
  BY <1>1, <1>3

(* The planning, and a set_sync that is dropped before it. *)
LEMMA PlanVec ==
    ASSUME VecIInv, Planned', PlanStep \/ DropUnpolled PROVE Stages' /\ Filled' /\ Written'
<1> USE DEF VecIInv
<1>0. /\ stage \in {"new", "planning"}
      /\ stage' \in {"planning", "awaiting", "dropped", "panicked"}
      /\ UNCHANGED <<len, target, at, writes, kind, members, guard, child>>
  BY DEF PlanStep, DivideSlots, CollectPlan, AwaitSet, DropUnpolled, vars, setVars, hostVars
<1>1. guard = "new"
  BY <1>0 DEF Stages
<1>2. Stages'
  BY <1>0, <1>1 DEF Stages
<1>3. Filled' /\ Written'
  BY <1>0, <1>1, UnbegunVec DEF Begun
<1> QED
  BY <1>2, <1>3

(* The guard is polled for the first time. *)
LEMMA BeginVec ==
    ASSUME VecIInv, Begin PROVE Stages' /\ Filled' /\ Written'
<1> USE DEF VecIInv
<1>0. /\ stage \in {"plain", "awaiting"} /\ guard = "new" /\ guard' = "spawning"
      /\ UNCHANGED <<stage, len, target, jobs, at, writes, kind, members, child>>
  BY DEF Begin, FirstPoll, vecVars, setVars
<1>1. Stages'
  BY <1>0 DEF Stages, Planned
<1>2. Planned'
  BY <1>0 DEF Planned
<1>3. \A c \in Children : at[c] = 0 /\ child[c] = "absent"
  BY <1>0 DEF Filled, Begun, SetIInv, Fresh
<1>4. ASSUME NEW c \in Children, Begun(c)'
      PROVE  c \in Unfinished' /\ jobs[c + 1].len \in Nat /\ jobs[c + 1].base \in Nat
  <2>1. c \in Unfinished'
    BY <1>0, <1>3, <1>4 DEF Begun, Unfinished
  <2>2. stage # "plain" /\ c \in members
    BY <1>0, <1>4 DEF Begun
  <2>3. c < target /\ Len(jobs) = target /\ c \in Nat /\ target \in Nat
    <3>1. c < target /\ Len(jobs) = target /\ target \in Nat
      BY <1>0, <2>2 DEF Stages, Planned
    <3> QED
      BY <3>1, BuildAssumption, CounterNat
  <2>4. c + 1 \in 1..Len(jobs)
    BY <2>3
  <2>5. jobs[c + 1] \in [base : Nat, len : Nat]
    BY <2>4, ElementOfSeq DEF Planned
  <2> QED
    BY <2>1, <2>5
<1>5. Filled'
  <2>1. at' \in [Children -> Nat]
    BY <1>0 DEF Filled
  <2>2. \A c \in Children : at'[c] = 0
    BY <1>0, <1>3
  <2>3. \A c \in Children : Begun(c)' => 0 <= jobs'[c + 1].len /\ c \in Unfinished'
    <3> SUFFICES ASSUME NEW c \in Children, Begun(c)'
                 PROVE  0 <= jobs'[c + 1].len /\ c \in Unfinished'
      OBVIOUS
    <3>1. c \in Unfinished' /\ jobs'[c + 1].len \in Nat
      BY <1>0, <1>4
    <3> QED
      BY <3>1
  <2> QED
    BY <2>1, <2>2, <2>3 DEF Filled
<1>6. Written'
  <2>1. \A c \in Children, slot \in 0..(len - 1) : ~Wrote(c, slot) /\ ~Wrote(c, slot)'
    <3> SUFFICES ASSUME NEW c \in Children, NEW slot \in 0..(len - 1)
                 PROVE  ~Wrote(c, slot) /\ ~Wrote(c, slot)'
      OBVIOUS
    <3>1. ~Wrote(c, slot)
      BY <1>0 DEF Wrote, Begun
    <3>2. ~Wrote(c, slot)'
      <4> SUFFICES ASSUME Wrote(c, slot)' PROVE FALSE
        OBVIOUS
      <4>1. jobs[c + 1].base <= slot /\ slot < jobs[c + 1].base + 0 /\ jobs[c + 1].base \in Nat
        BY <1>0, <1>3, <1>4 DEF Wrote
      <4> QED
        BY <4>1
    <3> QED
      BY <3>1, <3>2
  <2> QED
    BY <1>0, <2>1 DEF Written
<1> QED
  BY <1>1, <1>5, <1>6

(* The guard's later steps, and its end. *)
LEMMA GuardVec ==
    ASSUME VecIInv, \/ UNCHANGED vecVars /\ (SpawnsEnd \/ Register \/ Look \/ Poll)
                    \/ Return \/ DropFuture
    PROVE  Stages' /\ Filled' /\ Written'
<1> USE DEF VecIInv
<1>0. UNCHANGED <<len, target, jobs, at, writes, kind, members, child, repolled>>
  BY DEF Return, DropFuture, SpawnsEnd, Register, Look, Poll, Leave, DropGuard, vecVars, setVars
<1>1. Unfinished' = Unfinished
  BY <1>0 DEF Unfinished
<1>2. /\ guard' # "new" /\ (stage # "plain" => guard # "new")
      /\ stage' = stage \/ (stage = "awaiting" /\ stage' \in {"returned", "dropped"})
      /\ stage' = "returned" /\ stage # "returned" => guard = "ready"
  BY DEF Return, DropFuture, SpawnsEnd, Register, Look, Poll, Leave, DropGuard, vecVars
<1>3. stage' = "returned" /\ stage # "returned" => Unfinished = {}
  <2> SUFFICES ASSUME stage' = "returned", stage # "returned" PROVE Unfinished = {}
    OBVIOUS
  <2>1. kind = "simple" /\ guard = "ready"
    BY <1>2 DEF Stages
  <2> QED
    BY <2>1 DEF SetIInv, Once, Waited, ReadyMeansComplete
<1>4. Stages'
  BY <1>0, <1>1, <1>2, <1>3 DEF Stages
<1>5. \A c \in Children : Begun(c)' <=> Begun(c)
  BY <1>0, <1>2 DEF Begun
<1>6. Filled' /\ Written'
  BY <1>0, <1>1, <1>5, KeptVec
<1> QED
  BY <1>4, <1>6

(* A child moves: when it counts itself off it has written all its slots. *)
LEMMA ChildVec ==
    ASSUME VecIInv, NEW c \in Children, UNCHANGED vecVars,
           \/ SpawnChild(c) \/ Start(c) \/ BodyFails(c) \/ Finish(c) \/ DropChild(c)
           \/ WakeHost(c) \/ Repoll(c) \/ BodyEnds(c)
    PROVE  Stages' /\ Filled' /\ Written'
<1> USE DEF VecIInv
<1>0. UNCHANGED <<stage, len, target, jobs, at, writes, kind, members, guard>>
  BY DEF SpawnChild, Start, BodyFails, Finish, DropChild, WakeHost, Repoll, BodyEnds, CountDown,
         vecVars, setVars, hostVars
<1>1. \A d \in Children : Begun(d)' <=> Begun(d)
  BY <1>0 DEF Begun
<1>2. CASE stage = "plain"
  <2>1. Stages'
    BY <1>0, <1>2 DEF Stages
  <2>2. \A d \in Children : ~Begun(d)
    BY <1>2 DEF Begun
  <2> QED
    BY <1>0, <1>1, <2>1, <2>2, UnbegunVec
<1>3. CASE stage # "plain"
  <2>1. kind = "simple" /\ repolled = {} /\ SetIInv
    BY <1>3 DEF Stages, SetIInv, Once
  <2>2. \/ Unfinished' = Unfinished
        \/ Unfinished' = Unfinished \ {c} /\ at[c] >= jobs[c + 1].len /\ c \in members /\ child[c] = "running"
    <3>1. CASE SpawnChild(c) \/ Start(c) \/ BodyFails(c) \/ Finish(c) \/ DropChild(c)
      BY <2>1, <3>1, ChildSet
    <3>2. CASE WakeHost(c)
      BY <2>1, <3>2, WakeHostSet
    <3>3. CASE Repoll(c)
      BY <2>1, <3>3 DEF Repoll
    <3>4. CASE BodyEnds(c)
      BY <1>3, <2>1, <3>4, CountDownSet DEF BodyEnds, SlotsOf, CountDown, Goes
    <3> QED
      BY <3>1, <3>2, <3>3, <3>4
  <2>3. Stages'
    BY <1>0, <2>2 DEF Stages
  <2>4. CASE Unfinished' = Unfinished
    BY <1>0, <1>1, <2>3, <2>4, KeptVec
  <2>5. CASE /\ Unfinished' = Unfinished \ {c} /\ at[c] >= jobs[c + 1].len /\ c \in members
             /\ child[c] = "running"
    <3>1. Begun(c)
      BY <1>3, <2>1, <2>5 DEF Begun, SetIInv, Fresh
    <3>2. at[c] \in Nat /\ at[c] <= jobs[c + 1].len /\ jobs[c + 1].len \in Nat
      BY <3>1, JobOf DEF Filled
    <3>3. at[c] = jobs[c + 1].len
      BY <2>5, <3>2
    <3> QED
      BY <1>0, <1>1, <2>3, <2>5, <3>3, KeptVec
  <2> QED
    BY <2>2, <2>4, <2>5
<1> QED
  BY <1>2, <1>3

(* A job writes its next slot, in which nobody has written. *)
LEMMA WriteVec ==
    ASSUME VecIInv, NEW c \in Children, WriteSlot(c) PROVE Stages' /\ Filled' /\ Written'
<1> USE DEF VecIInv
<1>0. /\ stage # "plain" /\ child[c] = "running" /\ at[c] < jobs[c + 1].len
      /\ at' = [at EXCEPT ![c] = @ + 1]
      /\ writes' = [writes EXCEPT ![jobs[c + 1].base + at[c]] = @ + 1]
      /\ UNCHANGED <<stage, len, target, jobs, kind, members, guard, child>>
  BY DEF WriteSlot, SlotsOf, vars, setVars, hostVars
<1>1. Unfinished' = Unfinished /\ c \in Unfinished /\ Begun(c)
  <2>1. c \in members /\ guard # "new"
    BY <1>0 DEF SetIInv, TypeOK, Fresh
  <2> QED
    BY <1>0, <2>1 DEF Unfinished, Begun
<1>2. \A d \in Children : Begun(d)' <=> Begun(d)
  BY <1>0 DEF Begun
<1>3. Stages'
  BY <1>0, <1>1 DEF Stages
<1>4. /\ len \in Nat /\ jobs[c + 1].base \in Nat /\ jobs[c + 1].len \in Nat /\ at[c] \in Nat
      /\ jobs[c + 1].base + jobs[c + 1].len <= len
  BY <1>1, JobOf DEF Filled
<1>5. PICK new \in 0..(len - 1) : new = jobs[c + 1].base + at[c]
  <2>1. jobs[c + 1].base + at[c] \in 0..(len - 1)
    BY <1>0, <1>4
  <2> QED
    BY <2>1
<1>6. /\ at' \in [Children -> Nat] /\ at'[c] = at[c] + 1
      /\ \A d \in Children : d # c => at'[d] = at[d]
  BY <1>0, <1>4 DEF Filled
<1>7. Filled'
  <2>1. at'[c] <= jobs[c + 1].len
    BY <1>0, <1>4, <1>6
  <2> SUFFICES ASSUME NEW d \in Children
               PROVE  /\ ~Begun(d)' => at'[d] = 0
                      /\ Begun(d)' => /\ at'[d] <= jobs'[d + 1].len
                                      /\ d \notin Unfinished' => at'[d] = jobs'[d + 1].len
    BY <1>6 DEF Filled
  <2>2. CASE d = c
    BY <1>0, <1>1, <1>2, <2>1, <2>2
  <2>3. CASE d # c
    BY <1>0, <1>1, <1>2, <1>6, <2>3 DEF Filled
  <2> QED
    BY <2>2, <2>3
<1>8. \A d \in Children : ~Wrote(d, new)
  <2> SUFFICES ASSUME NEW d \in Children, Wrote(d, new) PROVE FALSE
    OBVIOUS
  <2>1. d # c
    BY <1>4, <1>5 DEF Wrote
  <2>2. /\ Begun(d) /\ jobs[d + 1].base \in Nat /\ jobs[d + 1].len \in Nat /\ at[d] \in Nat
        /\ at[d] <= jobs[d + 1].len
    BY JobOf DEF Wrote, Filled
  <2>3. new \in Nat /\ jobs[d + 1].base <= new /\ new < jobs[d + 1].base + jobs[d + 1].len
    BY <2>2 DEF Wrote
  <2>4. jobs[c + 1].base <= new /\ new < jobs[c + 1].base + jobs[c + 1].len
    BY <1>0, <1>4, <1>5
  <2> QED
    BY <1>1, <2>1, <2>2, <2>3, <2>4, JobsDisjoint
<1>9. ASSUME NEW slot \in 0..(len - 1)
      PROVE  (\E d \in Children : Wrote(d, slot)') <=> (slot = new \/ \E d \in Children : Wrote(d, slot))
  <2>1. \A d \in Children : d # c => (Wrote(d, slot)' <=> Wrote(d, slot))
    BY <1>0, <1>2, <1>6 DEF Wrote
  <2>2. Wrote(c, slot)' <=> (slot = new \/ Wrote(c, slot))
    <3>1. /\ Wrote(c, slot)' <=> (jobs[c + 1].base <= slot /\ slot < jobs[c + 1].base + (at[c] + 1))
      BY <1>0, <1>1, <1>2, <1>6 DEF Wrote
    <3>2. Wrote(c, slot) <=> (jobs[c + 1].base <= slot /\ slot < jobs[c + 1].base + at[c])
      BY <1>1 DEF Wrote
    <3>3. (jobs[c + 1].base <= slot /\ slot < jobs[c + 1].base + (at[c] + 1))
             <=> (slot = new \/ (jobs[c + 1].base <= slot /\ slot < jobs[c + 1].base + at[c]))
      BY <1>4, <1>5
    <3> QED
      BY <3>1, <3>2, <3>3
  <2> QED
    BY <2>1, <2>2
<1>10. Written'
  <2>1. writes[new] = 0
    BY <1>8 DEF Written
  <2>2. /\ writes' \in [0..(len - 1) -> {0, 1}] /\ writes'[new] = 1
        /\ \A slot \in 0..(len - 1) : slot # new => writes'[slot] = writes[slot]
    BY <1>0, <1>5, <2>1 DEF Written
  <2>3. ASSUME NEW slot \in 0..(len - 1)
        PROVE  writes'[slot] = 1 <=> \E d \in Children : Wrote(d, slot)'
    <3>1. CASE slot = new
      BY <1>9, <2>2, <3>1
    <3>2. CASE slot # new
      BY <1>9, <2>2, <3>2 DEF Written
    <3> QED
      BY <3>1, <3>2
  <2> QED
    BY <1>0, <2>2, <2>3 DEF Written
<1> QED
  BY <1>3, <1>7, <1>10

(* Every step preserves the invariant. *)
LEMMA StepVec == VecIInv /\ [VecNext]_allVars => VecIInv'
<1> SUFFICES ASSUME VecIInv, [VecNext]_allVars PROVE VecIInv'
  OBVIOUS
<1>0. Planned'
  BY StepPlanned DEF VecIInv
<1>1. SetIInv'
  BY StepSet, VecIsSet DEF VecIInv, allVars
<1>2. Stages' /\ Filled' /\ Written'
  <2>1. CASE PlanStep \/ DropUnpolled
    BY <1>0, <2>1, PlanVec
  <2>2. CASE Begin
    BY <2>2, BeginVec
  <2>3. CASE \/ UNCHANGED vecVars /\ (SpawnsEnd \/ Register \/ Look \/ Poll)
             \/ Return \/ DropFuture
    BY <2>3, GuardVec
  <2>4. ASSUME NEW c \in Children, UNCHANGED vecVars,
               \/ SpawnChild(c) \/ Start(c) \/ BodyFails(c) \/ Finish(c) \/ DropChild(c)
               \/ WakeHost(c) \/ Repoll(c) \/ BodyEnds(c)
        PROVE  Stages' /\ Filled' /\ Written'
    BY <2>4, ChildVec
  <2>5. ASSUME NEW c \in Children, WriteSlot(c) PROVE Stages' /\ Filled' /\ Written'
    BY <2>5, WriteVec
  <2>6. CASE UNCHANGED allVars
    <3>1. UNCHANGED <<stage, len, target, jobs, at, writes, kind, members, guard, child>>
      BY <2>6 DEF allVars, vars, vecVars, setVars, hostVars
    <3>2. Unfinished' = Unfinished /\ \A c \in Children : (Begun(c)' <=> Begun(c))
      BY <3>1 DEF Unfinished, Begun
    <3>3. Stages'
      BY <3>1, <3>2 DEF VecIInv, Stages
    <3> QED
      BY <3>1, <3>2, <3>3, KeptVec DEF VecIInv
  <2> QED
    BY <2>1, <2>2, <2>3, <2>4, <2>5, <2>6 DEF VecNext, GuardStep, HostStep, JobStep, BodyEnds
<1> QED
  BY <1>0, <1>1, <1>2 DEF VecIInv

(* The inductive invariant holds throughout. *)
THEOREM VecInvariance == VecSpec => []VecIInv
BY InitVec, StepVec, PTL DEF VecSpec

(* Types, and children_remaining is the number of children whose body has   *)
(* not come to its end, as long as none is polled after its completion.     *)
THEOREM SetsCounted == VecSpec => []SetInv
<1>1. VecIInv => SetInv
  <2> SUFFICES ASSUME VecIInv PROVE SetInv
    OBVIOUS
  <2>1. TypeOK /\ CountExact /\ Planned /\ Stages /\ Filled /\ Written
    BY DEF VecIInv, SetIInv
  <2>2. at \in [Children -> 0..len]
    <3>1. at \in [Children -> Nat] /\ len \in Nat
      BY <2>1 DEF Filled, Planned
    <3>2. ASSUME NEW c \in Children PROVE at[c] \in 0..len
      <4>1. CASE ~Begun(c)
        BY <2>1, <3>1, <4>1 DEF Filled
      <4>2. CASE Begun(c)
        <5>1. /\ jobs[c + 1].base \in Nat /\ jobs[c + 1].len \in Nat
              /\ jobs[c + 1].base + jobs[c + 1].len <= len
          BY <2>1, <4>2, JobOf
        <5>2. at[c] \in Nat /\ at[c] <= jobs[c + 1].len
          BY <2>1, <4>2 DEF Filled
        <5> QED
          BY <3>1, <5>1, <5>2
      <4> QED
        BY <4>1, <4>2
    <3> QED
      BY <3>1, <3>2
  <2>3. writes \in [0..(len - 1) -> Nat]
    BY <2>1 DEF Written
  <2>4. len \in Nat /\ target \in Nat /\ \A i \in DOMAIN jobs : jobs[i] \in [base : Nat, len : Nat]
    <3>1. \A i \in 1..Len(jobs) : jobs[i] \in [base : Nat, len : Nat]
      BY <2>1, ElementOfSeq DEF Planned
    <3> QED
      BY <2>1, <3>1 DEF Planned
  <2> QED
    BY <2>1, <2>2, <2>3, <2>4 DEF SetInv, VecTypeOK, Stages
<1> QED
  BY <1>1, VecInvariance, PTL

(* No slot of the vector is written twice, and all of them have been when   *)
(* set_sync returns (vec.rs:129).                                           *)
THEOREM VectorsBuiltWhole == VecSpec => []BuiltWhole
<1>1. VecIInv => BuiltWhole
  <2> SUFFICES ASSUME VecIInv, NEW slot \in DOMAIN writes
               PROVE  writes[slot] <= 1 /\ (stage = "returned" => writes[slot] = 1)
    BY DEF BuiltWhole
  <2>1. Planned /\ Stages /\ Filled /\ Written /\ slot \in 0..(len - 1)
    BY DEF VecIInv, Written
  <2>2. writes[slot] \in {0, 1}
    BY <2>1 DEF Written
  <2>3. ASSUME stage = "returned" PROVE writes[slot] = 1
    <3>1. len \in Nat /\ target \in Nat \ {0} /\ target <= Cardinality(Children)
      BY <2>1, <2>3 DEF Planned, Stages
    <3>2. PICK c \in 0..(target - 1) : /\ Offset(len, target, c) <= slot
                                       /\ slot < Offset(len, target, c + 1)
      BY <2>1, <3>1, SlotHasJob
    <3>3. c \in Children /\ c < target
      BY <3>1, <3>2, BuildAssumption, CounterNat
    <3>4. Begun(c) /\ c \notin Unfinished
      BY <2>1, <2>3, <3>3 DEF Begun, Stages
    <3>5. at[c] = jobs[c + 1].len
      BY <2>1, <3>3, <3>4 DEF Filled
    <3>6. Wrote(c, slot)
      BY <2>1, <3>2, <3>3, <3>4, <3>5, JobOf DEF Wrote
    <3> QED
      BY <2>1, <3>3, <3>6 DEF Written
  <2> QED
    BY <2>2, <2>3
<1> QED
  BY <1>1, VecInvariance, PTL

-----------------------------------------------------------------------------
(* The set of a set_sync does nothing that a set does not do: whatever is   *)
(* built with it, a builder's steps are steps of TpcSet, or none of its     *)
(* state moves.                                                             *)
THEOREM BuilderUsesSet == VecSpec => Init /\ [][Next]_vars
<1>1. VecInit => Init
  BY DEF VecInit
<1>2. [VecNext]_allVars => [Next]_vars
  BY VecIsSet DEF allVars
<1> QED
  BY <1>1, <1>2, PTL DEF VecSpec

(* What the guard waits for.  Its first poll has spawned every child, and a *)
(* child that is polled after its completion is under way until its         *)
(* assertion fails.                                                         *)
UnderWay(c) == child[c] \in {"queued", "running", "waking", "returning"}

AllSpawned ==
    guard \in {"idle", "look", "register", "recheck"}
        => \A c \in members : child[c] # "absent"
RepollsFail == \A c \in repolled : UnderWay(c) \/ child[c] = "lost"

\* A host that sleeps on its guard without having been woken waits for a child
\* that has a step to take, or for one that was lost to a panic.
SleepsOnAChild ==
    guard = "idle" /\ ~woken => \E c \in members : UnderWay(c) \/ child[c] = "lost"

LEMMA StepMoves ==
    SetIInv /\ AllSpawned /\ RepollsFail /\ [Next]_vars => (AllSpawned /\ RepollsFail)'
<1> SUFFICES ASSUME SetIInv, AllSpawned, RepollsFail, [Next]_vars
             PROVE  (AllSpawned /\ RepollsFail)'
  OBVIOUS
<1>0. TypeOK
  BY DEF SetIInv
<1>1. CASE FirstPoll \/ SpawnsEnd \/ Poll \/ Register \/ Look \/ Leave \/ DropGuard
  <2>1. UNCHANGED <<members, child, repolled>>
    BY <1>1 DEF FirstPoll, SpawnsEnd, Poll, Register, Look, Leave, DropGuard, setVars
  <2>2. AllSpawned'
    <3>1. CASE SpawnsEnd
      BY <2>1, <3>1 DEF SpawnsEnd, AllSpawned
    <3>2. CASE FirstPoll \/ Leave \/ DropGuard
      BY <3>2 DEF FirstPoll, Leave, DropGuard, AllSpawned
    <3>3. CASE Poll \/ Register \/ Look
      BY <2>1, <3>3 DEF Poll, Register, Look, AllSpawned
    <3> QED
      BY <1>1, <3>1, <3>2, <3>3
  <2> QED
    BY <2>1, <2>2 DEF RepollsFail, UnderWay
<1>2. ASSUME NEW c \in Children, SpawnChild(c) \/ ChildStep(c) \/ Repoll(c) \/ DropChild(c)
      PROVE  (AllSpawned /\ RepollsFail)'
  <2>1. UNCHANGED <<guard, members>>
    BY <1>2 DEF SpawnChild, ChildStep, Start, CountDown, BodyFails, WakeHost, Finish, Repoll,
                DropChild, setVars, hostVars
  <2>2. \A d \in Children : d # c => child'[d] = child[d]
    BY <1>0, <1>2 DEF SpawnChild, ChildStep, Start, CountDown, BodyFails, WakeHost, Finish, Repoll,
                      DropChild, Goes, TypeOK
  <2>3. child'[c] # "absent"
    BY <1>0, <1>2 DEF SpawnChild, ChildStep, Start, CountDown, BodyFails, WakeHost, Finish, Repoll,
                      DropChild, Goes, TypeOK
  <2>4. AllSpawned'
    BY <1>0, <2>1, <2>2, <2>3 DEF AllSpawned, TypeOK
  <2>5. /\ repolled' \in {repolled, repolled \cup {c}}
        /\ c \in repolled' => child'[c] \in {"queued", "running", "waking", "returning", "lost"}
    <3>1. CASE Repoll(c)
      BY <1>0, <3>1 DEF Repoll, Goes, TypeOK
    <3>2. CASE SpawnChild(c) \/ Start(c) \/ CountDown(c) \/ BodyFails(c) \/ WakeHost(c)
      BY <1>0, <3>2 DEF SpawnChild, Start, CountDown, BodyFails, WakeHost, Goes, TypeOK
    <3>3. CASE Finish(c)
      BY <1>0, <3>3 DEF Finish, Goes, TypeOK
    <3>4. CASE DropChild(c)
      BY <1>0, <3>4 DEF DropChild, Goes, TypeOK, RepollsFail, UnderWay
    <3> QED
      BY <1>2, <3>1, <3>2, <3>3, <3>4 DEF ChildStep
  <2>6. RepollsFail'
    BY <1>0, <2>2, <2>5 DEF RepollsFail, UnderWay, TypeOK
  <2> QED
    BY <2>4, <2>6
<1>3. CASE UNCHANGED vars
  BY <1>3 DEF vars, setVars, hostVars, AllSpawned, RepollsFail, UnderWay
<1> QED
  BY <1>1, <1>2, <1>3 DEF Next, HostStep

LEMMA ChildToWaitFor == SetIInv /\ AllSpawned /\ RepollsFail => SleepsOnAChild
<1> SUFFICES ASSUME SetIInv, AllSpawned, RepollsFail, guard = "idle", ~woken
             PROVE  \E c \in members : UnderWay(c) \/ child[c] = "lost"
  BY DEF SleepsOnAChild
<1>0. TypeOK /\ CountExact /\ HostIsWoken
  BY DEF SetIInv, Waited
<1>1. CASE repolled # {}
  BY <1>0, <1>1 DEF TypeOK, RepollsFail
<1>2. CASE remaining = 0
  BY <1>0, <1>2 DEF HostIsWoken, UnderWay
<1>3. CASE repolled = {} /\ remaining # 0
  <2>1. Cardinality(Unfinished) # 0
    BY <1>0, <1>3 DEF CountExact
  <2>2. Unfinished # {}
    BY <2>1, FS_EmptySet
  <2>3. PICK c \in members : child[c] \in {"absent", "queued", "running", "lost"}
    BY <2>2 DEF Unfinished
  <2> QED
    BY <2>3 DEF AllSpawned, UnderWay
<1> QED
  BY <1>1, <1>2, <1>3

(* A host is never asleep for good on a set whose children have all stopped *)
(* well: unless it has been woken, a child is still to start, to end or to  *)
(* wake it, or has panicked, also when late wakes poll children again       *)
(* (set.rs:68-76).                                                          *)
THEOREM HostSleepsOnAChild == VecSpec => []SleepsOnAChild
<1>1. VecInit => AllSpawned /\ RepollsFail
  BY DEF VecInit, Init, AllSpawned, RepollsFail
<1>2. SetIInv /\ AllSpawned /\ RepollsFail /\ [VecNext]_allVars => (AllSpawned /\ RepollsFail)'
  <2>1. [VecNext]_allVars => [Next]_vars
    BY VecIsSet DEF allVars
  <2> QED
    BY <2>1, StepMoves
<1>3. VecSpec => [](AllSpawned /\ RepollsFail)
  BY <1>1, <1>2, SetInvariance, PTL DEF VecSpec
<1> QED
  BY <1>3, ChildToWaitFor, SetInvariance, PTL
=============================================================================
