--------------------------- MODULE TpcPoolProofs ---------------------------
(***************************************************************************)
(* The thread count of TpcPool is exact, within the number of cores, and   *)
(* never leaves the pool without a thread once something was spawned; and  *)
(* no call for a job is lost.  For any number of cores, threads, spawners, *)
(* jobs and wakes.                                                         *)
(***************************************************************************)
EXTENDS TpcPool, FiniteSetTheorems, SequenceTheorems, TLAPS

\* The threads the count stands for.
Counted == {w \in Workers : worker[w] # "none"}

\* A promised thread is owed by exactly one spawner.
PromisesOwed ==
    /\ \A w \in Workers :
          worker[w] = "promised" <=> \E s \in Spawners : w \in toLaunch[s]
    /\ \A s, r \in Spawners : s # r => toLaunch[s] \cap toLaunch[r] = {}

\* The count is not zero once a job was spawned: spawning raised it to at least
\* one, and no exit takes it below MinThreads.
WorkCounted == unspawned # Jobs => count >= MinThreads

\* A worker that has taken something, or runs something, has a job.
RunsJob == \A w \in Workers : worker[w] \in {"taken", "running"} => job[w] \in Jobs

IInv == TypeOK /\ RunsJob /\ CountExact /\ PromisesOwed /\ WorkCounted

-----------------------------------------------------------------------------
(* The counted threads form a finite set. *)
LEMMA CountedFinite == IsFiniteSet(Counted) /\ Cardinality(Counted) \in Nat
<1>1. Counted \subseteq Workers
  BY DEF Counted
<1> QED
  BY <1>1, PoolAssumption, FS_Subset, FS_CardinalityType

(* A spawn proposes at least one thread and no more than there are cores. *)
LEMMA Proposed ==
    ASSUME NEW js \in SUBSET Jobs, js # {}
    PROVE  /\ Lesser(Cardinality(js), Cpus) \in Nat
           /\ Lesser(Cardinality(js), Cpus) >= 1
           /\ Lesser(Cardinality(js), Cpus) <= Cpus
<1>1. IsFiniteSet(js)
  BY PoolAssumption, FS_Subset
<1>2. Cardinality(js) \in Nat /\ Cardinality(js) # 0
  BY <1>1, FS_CardinalityType, FS_EmptySet
<1> QED
  BY <1>2, PoolAssumption DEF Lesser

(* The pool starts with no thread, none promised and nothing spawned. *)
LEMMA InitIInv == Init => IInv
<1> SUFFICES ASSUME Init PROVE IInv
  OBVIOUS
<1>1. TypeOK /\ RunsJob
  BY PoolAssumption DEF Init, TypeOK, RunsJob
<1>2. CountExact
  <2>1. {w \in Workers : worker[w] # "none"} = {}
    BY DEF Init
  <2>2. Cardinality({w \in Workers : worker[w] # "none"}) = 0
    BY <2>1, FS_EmptySet
  <2> QED
    BY <2>2, PoolAssumption DEF Init, CountExact
<1>3. PromisesOwed
  BY DEF Init, PromisesOwed
<1>4. WorkCounted
  BY DEF Init, WorkCounted
<1> QED
  BY <1>1, <1>2, <1>3, <1>4 DEF IInv

-----------------------------------------------------------------------------
(* The policy's step: it promises as many threads as it adds to the count. *)
LEMMA SpawnIInv ==
    ASSUME IInv, NEW s \in Spawners, NEW js \in SUBSET unspawned, js # {},
           Spawn(s, js)
    PROVE  IInv'
<1> USE DEF IInv
<1>1. js \in SUBSET Jobs
  BY DEF TypeOK
<1> DEFINE proposed == Lesser(Cardinality(js), Cpus)
<1>2. proposed \in Nat /\ proposed >= 1 /\ proposed <= Cpus
  BY <1>1, Proposed
<1> PICK new \in SUBSET {w \in Workers : worker[w] = "none"} :
          /\ Cardinality(new) = count' - count
          /\ toLaunch' = [toLaunch EXCEPT ![s] = new]
          /\ worker' = [w \in Workers |-> IF w \in new THEN "promised" ELSE worker[w]]
  BY DEF Spawn
<1>3. count' = IF count < proposed THEN proposed ELSE count
  BY DEF Spawn
<1> HIDE DEF proposed
<1>4. count \in Nat /\ count' \in Nat /\ count' >= 1 /\ count' <= Cpus /\ Cpus \in Nat
  BY <1>2, <1>3, PoolAssumption DEF TypeOK, CountExact
<1>5. TypeOK' /\ RunsJob'
  BY <1>1, <1>4 DEF Spawn, TypeOK, RunsJob, wakerVars
<1>6. CountExact'
  <2>1. Counted' = Counted \cup new /\ Counted \cap new = {}
    BY DEF Counted
  <2>2. IsFiniteSet(new)
    BY PoolAssumption, FS_Subset
  <2>3. Cardinality(Counted') = Cardinality(Counted) + Cardinality(new)
    <3>1. Cardinality(Counted \cap new) = 0
      BY <2>1, FS_EmptySet
    <3>2. Cardinality(new) \in Nat
      BY <2>2, FS_CardinalityType
    <3>3. Cardinality(Counted \cup new) =
             Cardinality(Counted) + Cardinality(new) - Cardinality(Counted \cap new)
      BY <2>2, CountedFinite, FS_Union
    <3>4. Cardinality(Counted') =
             Cardinality(Counted) + Cardinality(new) - Cardinality(Counted \cap new)
      BY <2>1, <3>3
    <3> QED
      BY <3>1, <3>2, <3>4, CountedFinite
  <2>4. Cardinality(Counted) = count
    BY DEF CountExact, Counted
  <2>5. Cardinality(new) = count' - count
    OBVIOUS
  <2>6. Cardinality(Counted') = count + (count' - count)
    BY <2>3, <2>4, <2>5
  <2>7. Cardinality(Counted') = count'
    <3>1. \A a, b \in Nat : a + (b - a) = b
      OBVIOUS
    <3>2. count + (count' - count) = count'
      BY <1>4, <3>1, Zenon
    <3> QED
      BY <2>6, <3>2, Zenon
  <2> QED
    BY <1>4, <2>7 DEF CountExact, Counted
<1>7. PromisesOwed'
  <2>1. toLaunch[s] = {}
    BY DEF Spawn
  <2>2. \A r \in Spawners : toLaunch'[r] = IF r = s THEN new ELSE toLaunch[r]
    BY DEF TypeOK
  <2>3. \A w \in Workers : worker'[w] = IF w \in new THEN "promised" ELSE worker[w]
    OBVIOUS
  <2>4. \A r \in Spawners : toLaunch[r] \cap new = {}
    BY DEF PromisesOwed, TypeOK
  <2> QED
    BY <2>1, <2>2, <2>3, <2>4 DEF PromisesOwed
<1>8. WorkCounted'
  BY <1>4 DEF WorkCounted, MinThreads
<1> QED
  BY <1>5, <1>6, <1>7, <1>8

(* A launch turns a promise into a thread. *)
LEMMA LaunchIInv ==
    ASSUME IInv, NEW s \in Spawners, NEW w \in Workers, Launch(s, w)
    PROVE  IInv'
<1> USE DEF IInv
<1>1. worker[w] = "promised"
  BY DEF Launch, PromisesOwed
<1>2. worker' = [worker EXCEPT ![w] = "ready"] /\ count' = count
  BY DEF Launch
<1>3. TypeOK' /\ RunsJob'
  BY DEF Launch, TypeOK, RunsJob, jobVars, wakerVars
<1>4. CountExact'
  <2>1. {v \in Workers : worker'[v] # "none"} = {v \in Workers : worker[v] # "none"}
    BY <1>1, <1>2 DEF TypeOK
  <2> QED
    BY <1>2, <2>1 DEF CountExact
<1>5. PromisesOwed'
  <2>1. \A r \in Spawners :
          toLaunch'[r] = IF r = s THEN toLaunch[s] \ {w} ELSE toLaunch[r]
    BY DEF Launch, TypeOK
  <2>2. \A v \in Workers : worker'[v] = IF v = w THEN "ready" ELSE worker[v]
    BY <1>2 DEF TypeOK
  <2>3. \A r \in Spawners : r # s => w \notin toLaunch[r]
    BY DEF Launch, PromisesOwed
  <2> QED
    BY <2>1, <2>2, <2>3 DEF PromisesOwed
<1>6. WorkCounted'
  BY <1>2 DEF Launch, WorkCounted
<1> QED
  BY <1>3, <1>4, <1>5, <1>6

(* A worker leaves the count only when the count exceeds MinThreads. *)
LEMMA TakeIdleIInv ==
    ASSUME IInv, NEW w \in Workers, TakeIdle(w)
    PROVE  IInv'
<1> USE DEF IInv
<1>1. TypeOK'
  <2>1. Tail(queue[1]) \in Seq(Jobs \cup {Idle})
    BY DEF TakeIdle, TypeOK
  <2>2. queue' \in [0..1 -> Seq(Jobs \cup {Idle})]
    BY <2>1 DEF TakeIdle, TypeOK
  <2>3. /\ count' \in Nat
        /\ worker' = worker \/ worker' = [worker EXCEPT ![w] = "none"]
    BY DEF TakeIdle, TypeOK, MinThreads
  <2> QED
    BY <2>2, <2>3 DEF TakeIdle, TypeOK, spawnVars, jobVars, wakerVars
<1>r. RunsJob'
  BY DEF TakeIdle, TypeOK, RunsJob
<1>2. CASE rested[w] /\ count > MinThreads
  <2>1. /\ count' = count - 1 /\ worker' = [worker EXCEPT ![w] = "none"]
        /\ count \in Nat /\ count > 1 /\ w \in Counted
    BY <1>2 DEF TakeIdle, TypeOK, MinThreads, Counted
  <2>2. Counted' = Counted \ {w}
    BY <2>1 DEF TypeOK, Counted
  <2>3. Cardinality(Counted') = Cardinality(Counted) - 1
    BY <2>1, <2>2, CountedFinite, FS_RemoveElement
  <2>4. CountExact'
    BY <2>1, <2>3, PoolAssumption DEF CountExact, Counted
  <2>5. PromisesOwed'
    BY <2>1 DEF TakeIdle, PromisesOwed, TypeOK, spawnVars
  <2>6. WorkCounted'
    BY <2>1 DEF WorkCounted, MinThreads
  <2> QED
    BY <1>1, <1>r, <2>4, <2>5, <2>6
<1>3. CASE ~(rested[w] /\ count > MinThreads)
  <2>1. UNCHANGED <<count, worker, toLaunch, unspawned>>
    BY <1>3 DEF TakeIdle, spawnVars
  <2> QED
    BY <1>1, <1>r, <2>1 DEF CountExact, PromisesOwed, WorkCounted
<1> QED
  BY <1>2, <1>3

(* The other steps move messages and jobs about: they change neither the    *)
(* count nor which threads are counted.                                     *)
LEMMA QuietIInv ==
    ASSUME IInv, TypeOK', RunsJob', UNCHANGED <<count, toLaunch, unspawned>>,
           \A w \in Workers : \/ worker'[w] = worker[w]
                              \/ worker[w] \in Threads /\ worker'[w] \in Threads
    PROVE  IInv'
<1>1. CountExact'
  <2>1. {w \in Workers : worker'[w] # "none"} = {w \in Workers : worker[w] # "none"}
    BY DEF Threads
  <2> QED
    BY <2>1 DEF IInv, CountExact
<1>2. PromisesOwed'
  BY DEF IInv, PromisesOwed, Threads
<1>3. WorkCounted'
  BY DEF IInv, WorkCounted
<1> QED
  BY <1>1, <1>2, <1>3 DEF IInv

(* Every action preserves the invariant. *)
LEMMA StepIInv == IInv /\ [Next]_vars => IInv'
<1> SUFFICES ASSUME IInv, [Next]_vars PROVE IInv'
  OBVIOUS
<1> USE DEF IInv, TypeOK, RunsJob, threadVars, spawnVars, jobVars, wakerVars
<1>1. CASE UNCHANGED vars
  BY <1>1, QuietIInv DEF vars
<1>2. ASSUME NEW s \in Spawners, NEW js \in SUBSET unspawned, js # {}, Spawn(s, js)
      PROVE  IInv'
  BY <1>2, SpawnIInv
<1>3. ASSUME NEW s \in Spawners, NEW w \in Workers, Launch(s, w) PROVE IInv'
  BY <1>3, LaunchIInv
<1>4. ASSUME NEW s \in Spawners, NEW j \in Jobs, SendJob(s, j) PROVE IInv'
  <2>1. queue' \in [0..1 -> Seq(Jobs \cup {Idle})]
    BY <1>4 DEF SendJob, Enqueue
  <2>2. TypeOK' /\ RunsJob'
    BY <1>4, <2>1 DEF SendJob
  <2> QED
    BY <1>4, <2>2, QuietIInv DEF SendJob
<1>5. ASSUME NEW w \in Workers, NEW l \in 0..1, TakeJob(w, l) PROVE IInv'
  <2>0. Head(queue[l]) # Idle
    BY <1>5 DEF TakeJob
  <2>1. Head(queue[l]) \in Jobs \cup {Idle} /\ Tail(queue[l]) \in Seq(Jobs \cup {Idle})
    BY <1>5 DEF TakeJob
  <2>2. TypeOK' /\ RunsJob'
    BY <1>5, <2>0, <2>1 DEF TakeJob
  <2>3. \A v \in Workers : \/ worker'[v] = worker[v]
                           \/ worker[v] \in Threads /\ worker'[v] \in Threads
    BY <1>5 DEF TakeJob, Threads
  <2> QED
    BY <1>5, <2>2, <2>3, QuietIInv DEF TakeJob
<1>6. ASSUME NEW w \in Workers, Begin(w) PROVE IInv'
  <2>1. TypeOK' /\ RunsJob'
    BY <1>6 DEF Begin
  <2>2. \A v \in Workers : \/ worker'[v] = worker[v]
                           \/ worker[v] \in Threads /\ worker'[v] \in Threads
    BY <1>6 DEF Begin, Threads
  <2> QED
    BY <1>6, <2>1, <2>2, QuietIInv DEF Begin
<1>7. ASSUME NEW w \in Workers, Retry(w) \/ Return(w) PROVE IInv'
  <2>0. worker[w] \in Threads /\ job[w] \in Jobs /\ PutDown(w)
    BY <1>7 DEF Retry, Return, Threads
  <2>1. queue' \in [0..1 -> Seq(Jobs \cup {Idle})]
    <3>1. Append(queue[0], job[w]) \in Seq(Jobs \cup {Idle})
      BY <2>0
    <3>2. CASE Retry(w)
      BY <3>1, <3>2 DEF Retry, Enqueue
    <3>3. CASE Return(w)
      BY <3>3 DEF Return
    <3> QED
      BY <1>7, <3>2, <3>3
  <2>2. /\ done' \subseteq Jobs
        /\ UNCHANGED <<toLaunch, toSend, owed, unspawned, wanted, polled, wakes>>
    BY <1>7, <2>0 DEF Retry, Return
  <2>3. TypeOK' /\ RunsJob'
    BY <2>0, <2>1, <2>2 DEF PutDown
  <2>4. \A v \in Workers : \/ worker'[v] = worker[v]
                           \/ worker[v] \in Threads /\ worker'[v] \in Threads
    BY <2>0 DEF PutDown, Threads
  <2>5. UNCHANGED <<count, toLaunch, unspawned>>
    BY <2>0, <2>2 DEF PutDown
  <2> QED
    BY <2>3, <2>4, <2>5, QuietIInv
<1>8. ASSUME NEW w \in Workers, TakeIdle(w) PROVE IInv'
  BY <1>8, TakeIdleIInv
<1>9. ASSUME NEW w \in Workers, Rest(w) PROVE IInv'
  <2>1. TypeOK' /\ RunsJob'
    BY <1>9 DEF Rest
  <2> QED
    BY <1>9, <2>1, QuietIInv DEF Rest
<1>10. CASE TimerFires
  <2>1. owed' \in Nat
    BY <1>10 DEF TimerFires
  <2>2. TypeOK' /\ RunsJob'
    BY <1>10, <2>1 DEF TimerFires
  <2> QED
    BY <1>10, <2>2, QuietIInv DEF TimerFires
<1>11. CASE TimerSends
  <2>1. queue' \in [0..1 -> Seq(Jobs \cup {Idle})] /\ owed' \in Nat
    BY <1>11 DEF TimerSends, Enqueue
  <2>2. TypeOK' /\ RunsJob'
    BY <1>11, <2>1 DEF TimerSends
  <2> QED
    BY <1>11, <2>2, QuietIInv DEF TimerSends
<1>12. ASSUME NEW j \in Futures, Wake(j) PROVE IInv'
  <2>1. queue' \in [0..1 -> Seq(Jobs \cup {Idle})]
    BY <1>12, PoolAssumption DEF Wake, Enqueue
  <2>2. wakes' \in [Futures -> 0..MaxWakes]
    BY <1>12, PoolAssumption DEF Wake
  <2>3. TypeOK' /\ RunsJob'
    BY <1>12, <2>1, <2>2, PoolAssumption DEF Wake
  <2> QED
    BY <1>12, <2>3, QuietIInv DEF Wake
<1> QED
  BY <1>1, <1>2, <1>3, <1>4, <1>5, <1>6, <1>7, <1>8, <1>9, <1>10, <1>11, <1>12
  DEF Next, SpawnerStep, WorkerStep, Timer

(* An exact count of at least one is a thread, alive or promised. *)
LEMMA IInvWorkHasWorker == IInv => WorkHasWorker
<1> SUFFICES ASSUME IInv, unspawned # Jobs
             PROVE  \E w \in Workers : \/ worker[w] \in Threads
                                       \/ \E s \in Spawners : w \in toLaunch[s]
  BY DEF WorkHasWorker
<1>1. Cardinality(Counted) # 0
  BY DEF IInv, WorkCounted, CountExact, Counted, MinThreads
<1>2. Counted # {}
  BY <1>1, FS_EmptySet
<1>3. PICK w \in Workers : worker[w] # "none"
  BY <1>2 DEF Counted
<1>4. worker[w] \in {"none", "promised", "ready", "taken", "running"}
  BY DEF IInv, TypeOK
<1> QED
  BY <1>3, <1>4 DEF IInv, PromisesOwed, Threads

-----------------------------------------------------------------------------
(* The inductive invariant holds in every state of every behaviour. *)
THEOREM Invariance == Spec => []IInv
<1> QED
  BY InitIInv, StepIInv, PTL DEF Spec

(* Every variable keeps its type, and the thread count is the number of      *)
(* threads that exist or are promised, never more than there are cores       *)
(* (bin.rs:197-204 and 322-358).                                             *)
THEOREM CountAlwaysExact == Spec => []PoolInv
<1>1. IInv => PoolInv
  BY DEF IInv, PoolInv
<1> QED
  BY <1>1, Invariance, PTL

(* No exit strands a job: from the first spawn on there is a thread, or a    *)
(* spawner that owes one, for what is queued and for futures that are parked *)
(* and will be woken (bin.rs:197-204 and 322-358).                           *)
THEOREM WorkAlwaysHasWorker == Spec => []WorkHasWorker
<1> QED
  BY IInvWorkHasWorker, Invariance, PTL

-----------------------------------------------------------------------------
(* The closures.  OnePlace is inductive beside IInv; it is taken apart by    *)
(* what can hold a closure: spawners, queues and workers.                    *)

Closures == Jobs \ Futures

SentOnce(j)   == \A s, r \in Spawners : j \in toSend[s] /\ j \in toSend[r] => s = r
QueuedOnce(j) == \A l, k \in 0..1 : \A i \in DOMAIN queue[l], m \in DOMAIN queue[k] :
                    queue[l][i] = j /\ queue[k][m] = j => l = k /\ i = m
Holds(w)      == worker[w] \in {"taken", "running"}
HeldOnce(j)   == \A v, w \in Workers : Holds(v) /\ Holds(w) /\ job[v] = j /\ job[w] = j => v = w

Conserved(j) ==
    /\ j \in Outstanding <=> Announced(j) \/ Queued(j) \/ Held(j)
    /\ ~(Announced(j) /\ Queued(j)) /\ ~(Announced(j) /\ Held(j)) /\ ~(Queued(j) /\ Held(j))
    /\ SentOnce(j) /\ QueuedOnce(j) /\ HeldOnce(j)

ClosuresConserved == \A j \in Closures : Conserved(j)

\* Only a closure that was spawned returns.
SpawnedFirst == unspawned \cap done \subseteq Futures

CInv == IInv /\ SpawnedFirst /\ ClosuresConserved

(* The parts are the whole. *)
LEMMA ConservedParts ==
    ClosuresConserved <=> \A j \in Jobs \ Futures : OnePlace(j)
<1>1. ASSUME NEW j \in Jobs PROVE Conserved(j) <=> OnePlace(j)
  BY DEF Conserved, OnePlace, SentOnce, QueuedOnce, HeldOnce, Holds
<1> QED
  BY <1>1 DEF ClosuresConserved, Closures

(* A message that is sent is queued, and nothing else changes: a job that    *)
(* was in no queue is then in one place.                                     *)
LEMMA EnqueuePlaces ==
    ASSUME TypeOK, NEW l \in 0..1, NEW x \in Jobs \cup {Idle}, Enqueue(l, x),
           NEW j \in Jobs
    PROVE  /\ Queued(j)' <=> Queued(j) \/ j = x
           /\ QueuedOnce(j) /\ (j = x => ~Queued(j)) => QueuedOnce(j)'
<1>1. queue[l] \in Seq(Jobs \cup {Idle}) /\ Len(queue[l]) \in Nat
  BY DEF TypeOK
<1>2. queue' = [queue EXCEPT ![l] = Append(queue[l], x)] /\ DOMAIN queue = 0..1
  BY DEF Enqueue, TypeOK
<1>3. \A k \in 0..1 : k # l => queue'[k] = queue[k]
  BY <1>2
<1>4. queue'[l] = Append(queue[l], x)
  BY <1>2
<1>5. /\ DOMAIN queue[l] = 1..Len(queue[l])
      /\ DOMAIN queue'[l] = 1..(Len(queue[l]) + 1)
      /\ queue'[l][Len(queue[l]) + 1] = x
      /\ \A i \in 1..Len(queue[l]) : queue'[l][i] = queue[l][i]
  BY <1>1, <1>4
<1>6. DOMAIN queue'[l] = DOMAIN queue[l] \cup {Len(queue[l]) + 1}
  BY <1>1, <1>5
<1>7. \A i \in DOMAIN queue[l] : queue'[l][i] = queue[l][i]
  BY <1>5
<1>8. queue'[l][Len(queue[l]) + 1] = x
  BY <1>5
<1>9. Queued(j)' <=> Queued(j) \/ j = x
  BY <1>3, <1>6, <1>7, <1>8 DEF Queued
<1>10. ASSUME QueuedOnce(j), j = x => ~Queued(j) PROVE QueuedOnce(j)'
  BY <1>3, <1>6, <1>7, <1>8, <1>10 DEF QueuedOnce, Queued
<1> QED
  BY <1>9, <1>10

(* A message that is taken leaves the channel, and no other does. *)
LEMMA TakePlaces ==
    ASSUME TypeOK, NEW l \in 0..1, queue[l] # <<>>,
           queue' = [queue EXCEPT ![l] = Tail(@)],
           NEW j \in Jobs
    PROVE  /\ Queued(j) /\ j # Head(queue[l]) => Queued(j)'
           /\ j = Head(queue[l]) => Queued(j)
           /\ QueuedOnce(j) => /\ Queued(j)' <=> Queued(j) /\ j # Head(queue[l])
                               /\ QueuedOnce(j)'
<1>1. queue[l] \in Seq(Jobs \cup {Idle}) /\ Len(queue[l]) \in Nat
  BY DEF TypeOK
<1>2. \A k \in 0..1 : k # l => queue'[k] = queue[k]
  BY DEF TypeOK
<1>3. queue'[l] = Tail(queue[l])
  BY DEF TypeOK
<1>4. /\ DOMAIN queue[l] = 1..Len(queue[l])
      /\ DOMAIN queue'[l] = 1..(Len(queue[l]) - 1)
      /\ \A i \in 1..(Len(queue[l]) - 1) : queue'[l][i] = queue[l][i + 1]
      /\ Head(queue[l]) = queue[l][1] /\ Len(queue[l]) >= 1
  <2>1. Len(queue[l]) >= 1 /\ Head(queue[l]) = queue[l][1] /\ DOMAIN queue[l] = 1..Len(queue[l])
    BY <1>1, HeadTailProperties, EmptySeq
  <2>2. /\ DOMAIN Tail(queue[l]) = 1..(Len(queue[l]) - 1)
        /\ \A i \in 1..(Len(queue[l]) - 1) : Tail(queue[l])[i] = queue[l][i + 1]
    BY <1>1, <2>1
  <2> QED
    BY <1>3, <2>1, <2>2
<1>5. \A i \in DOMAIN queue'[l] :
         i \in Nat /\ i + 1 \in DOMAIN queue[l] /\ i + 1 # 1 /\ queue'[l][i] = queue[l][i + 1]
  BY <1>1, <1>4
<1>6. \A i \in DOMAIN queue[l] :
         i # 1 => i \in Nat /\ i - 1 \in DOMAIN queue'[l] /\ queue'[l][i - 1] = queue[l][i]
  BY <1>1, <1>4
<1>7. 1 \in DOMAIN queue[l] /\ queue[l][1] = Head(queue[l])
  BY <1>1, <1>4
<1>8. j = Head(queue[l]) => Queued(j)
  BY <1>7 DEF Queued
<1>9. ASSUME QueuedOnce(j) PROVE QueuedOnce(j)'
  <2> SUFFICES ASSUME NEW a \in 0..1, NEW b \in 0..1,
                      NEW i \in DOMAIN queue'[a], NEW m \in DOMAIN queue'[b],
                      queue'[a][i] = j, queue'[b][m] = j
               PROVE  a = b /\ i = m
    BY DEF QueuedOnce
  <2>1. a = b
    BY <1>2, <1>5, <1>9 DEF QueuedOnce
  <2>2. CASE a = l
    BY <1>5, <1>9, <2>1, <2>2 DEF QueuedOnce
  <2>3. CASE a # l
    BY <1>2, <1>9, <2>1, <2>3 DEF QueuedOnce
  <2> QED
    BY <2>1, <2>2, <2>3
<1>10. ASSUME QueuedOnce(j) PROVE Queued(j)' => Queued(j) /\ j # Head(queue[l])
  <2> SUFFICES ASSUME NEW k \in 0..1, NEW i \in DOMAIN queue'[k], queue'[k][i] = j
               PROVE  Queued(j) /\ j # Head(queue[l])
    BY DEF Queued
  <2>1. CASE k = l
    BY <1>5, <1>7, <1>10, <2>1 DEF Queued, QueuedOnce
  <2>2. CASE k # l
    BY <1>2, <1>7, <1>10, <2>2 DEF Queued, QueuedOnce
  <2> QED
    BY <2>1, <2>2
<1>11. Queued(j) /\ j # Head(queue[l]) => Queued(j)'
  <2> SUFFICES ASSUME NEW k \in 0..1, NEW i \in DOMAIN queue[k], queue[k][i] = j,
                      j # Head(queue[l])
               PROVE  Queued(j)'
    BY DEF Queued
  <2>1. CASE k = l
    BY <1>6, <1>7, <2>1 DEF Queued
  <2>2. CASE k # l
    BY <1>2, <2>2 DEF Queued
  <2> QED
    BY <2>1, <2>2
<1> QED
  BY <1>8, <1>9, <1>10, <1>11

(* A step that leaves the workers' jobs alone leaves who holds what alone. *)
LEMMA SameHolds ==
    ASSUME NEW j, UNCHANGED job, \A w \in Workers : Holds(w)' <=> Holds(w)
    PROVE  (Held(j)' <=> Held(j)) /\ (HeldOnce(j) => HeldOnce(j)')
BY DEF Held, HeldOnce, Holds

(* Nothing is announced, queued or held before the first spawn. *)
LEMMA InitConserved == Init => ClosuresConserved
<1> SUFFICES ASSUME Init, NEW j \in Jobs PROVE Conserved(j)
  BY DEF ClosuresConserved, Closures
<1>1. DOMAIN <<>> = {}
  OBVIOUS
<1>2. ~Announced(j) /\ ~Queued(j) /\ ~Held(j) /\ j \notin Outstanding
  BY <1>1 DEF Init, Announced, Queued, Held, Outstanding
<1>3. SentOnce(j) /\ QueuedOnce(j) /\ HeldOnce(j)
  BY <1>1 DEF Init, SentOnce, QueuedOnce, HeldOnce, Holds
<1> QED
  BY <1>2, <1>3 DEF Conserved

(* A spawn announces the jobs it takes from the unspawned. *)
LEMMA SpawnConserved ==
    ASSUME CInv, NEW s \in Spawners, NEW js \in SUBSET unspawned, Spawn(s, js)
    PROVE  ClosuresConserved'
<1> SUFFICES ASSUME NEW j \in Closures PROVE Conserved(j)'
  BY DEF ClosuresConserved, Closures
<1>0. Conserved(j) /\ j \in Jobs \ Futures
  BY DEF CInv, ClosuresConserved, Closures
<1>1. \A r \in Spawners : toSend'[r] = IF r = s THEN js ELSE toSend[r]
  BY DEF Spawn, CInv, IInv, TypeOK
<1>2. toSend[s] = {} /\ unspawned' = unspawned \ js /\ UNCHANGED <<queue, job, done>>
  BY DEF Spawn
<1>3. \A w \in Workers : Holds(w)' <=> Holds(w)
  BY DEF Spawn, CInv, IInv, TypeOK, Holds
<1>4. (Held(j)' <=> Held(j)) /\ HeldOnce(j)'
  BY <1>0, <1>2, <1>3, SameHolds DEF Conserved
<1>5. (Queued(j)' <=> Queued(j)) /\ QueuedOnce(j)'
  BY <1>0, <1>2 DEF Conserved, Queued, QueuedOnce
<1>6. CASE j \in js
  <2>1. j \notin Outstanding /\ ~Announced(j) /\ ~Queued(j) /\ ~Held(j)
    BY <1>0, <1>6 DEF Conserved, Outstanding
  <2>2. j \notin done
    BY <1>0, <1>6 DEF CInv, SpawnedFirst
  <2>3. j \in Outstanding' /\ Announced(j)' /\ SentOnce(j)'
    BY <1>0, <1>1, <1>2, <1>6, <2>1, <2>2 DEF Outstanding, Announced, SentOnce
  <2> QED
    BY <1>4, <1>5, <2>1, <2>3 DEF Conserved
<1>7. CASE j \notin js
  <2>1. Announced(j)' <=> Announced(j)
    BY <1>1, <1>2, <1>7 DEF Announced
  <2>2. SentOnce(j)'
    BY <1>0, <1>1, <1>2, <1>7 DEF Conserved, SentOnce
  <2>3. j \in Outstanding' <=> j \in Outstanding
    BY <1>2, <1>7 DEF Outstanding
  <2> QED
    BY <1>0, <1>4, <1>5, <2>1, <2>2, <2>3 DEF Conserved
<1> QED
  BY <1>6, <1>7

(* A message carries a job from its spawner to the channel. *)
LEMMA SendJobConserved ==
    ASSUME CInv, NEW s \in Spawners, NEW x \in Jobs, SendJob(s, x)
    PROVE  ClosuresConserved'
<1> SUFFICES ASSUME NEW j \in Closures PROVE Conserved(j)'
  BY DEF ClosuresConserved, Closures
<1>0. Conserved(j) /\ j \in Jobs
  BY DEF CInv, ClosuresConserved, Closures
<1>1. \A r \in Spawners : toSend'[r] = IF r = s THEN toSend[s] \ {x} ELSE toSend[r]
  BY DEF SendJob, CInv, IInv, TypeOK
<1>2. UNCHANGED <<worker, job, unspawned, done>> /\ x \in toSend[s] /\ Enqueue(1, x)
  BY DEF SendJob, threadVars, jobVars
<1>3. (Held(j)' <=> Held(j)) /\ HeldOnce(j)' /\ (j \in Outstanding' <=> j \in Outstanding)
  BY <1>0, <1>2, SameHolds DEF Conserved, Outstanding, Holds
<1>4. /\ Queued(j)' <=> Queued(j) \/ j = x
      /\ QueuedOnce(j) /\ (j = x => ~Queued(j)) => QueuedOnce(j)'
  BY <1>0, <1>2, EnqueuePlaces DEF CInv, IInv
<1>5. SentOnce(j)'
  BY <1>0, <1>1 DEF Conserved, SentOnce
<1>6. CASE j = x
  <2>1. Announced(j) /\ ~Announced(j)'
    BY <1>0, <1>1, <1>2, <1>6 DEF Conserved, Announced, SentOnce
  <2> QED
    BY <1>0, <1>3, <1>4, <1>5, <1>6, <2>1 DEF Conserved
<1>7. CASE j # x
  <2>1. Announced(j)' <=> Announced(j)
    BY <1>1, <1>7 DEF Announced
  <2> QED
    BY <1>0, <1>3, <1>4, <1>5, <1>7, <2>1 DEF Conserved
<1> QED
  BY <1>6, <1>7

(* A worker takes a closure out of the channel and is the one to hold it. *)
LEMMA TakeJobConserved ==
    ASSUME CInv, NEW u \in Workers, NEW l \in 0..1, TakeJob(u, l)
    PROVE  ClosuresConserved'
<1> SUFFICES ASSUME NEW j \in Closures PROVE Conserved(j)'
  BY DEF ClosuresConserved, Closures
<1>0. Conserved(j) /\ j \in Jobs
  BY DEF CInv, ClosuresConserved, Closures
<1> DEFINE x == Head(queue[l])
<1>1. /\ worker[u] = "ready" /\ queue[l] # <<>> /\ queue' = [queue EXCEPT ![l] = Tail(@)]
      /\ UNCHANGED <<toSend, unspawned, done>>
  BY DEF TakeJob, spawnVars, jobVars
<1>2. \A w \in Workers : /\ Holds(w)' <=> w = u \/ Holds(w)
                         /\ job'[w] = IF w = u THEN x ELSE job[w]
  BY DEF TakeJob, CInv, IInv, TypeOK, Holds
<1>3. /\ Queued(j)' <=> Queued(j) /\ j # x
      /\ j = x => Queued(j)
      /\ QueuedOnce(j)'
  BY <1>0, <1>1, TakePlaces DEF CInv, IInv, Conserved
<1> HIDE DEF x
<1>4. /\ (Announced(j)' <=> Announced(j)) /\ SentOnce(j)'
      /\ j \in Outstanding' <=> j \in Outstanding
  BY <1>0, <1>1 DEF Conserved, Announced, SentOnce, Outstanding
<1>h. (Held(j) <=> \E w \in Workers : Holds(w) /\ job[w] = j) /\ ~Holds(u)
  BY <1>1 DEF Held, Holds
<1>5. Held(j)' <=> Held(j) \/ j = x
  <2>1. Held(j)' <=> \E w \in Workers : Holds(w)' /\ job'[w] = j
    BY DEF Held, Holds
  <2> QED
    BY <1>2, <1>h, <2>1
<1>6. HeldOnce(j)'
  <2> SUFFICES ASSUME NEW v \in Workers, NEW w \in Workers,
                      Holds(v)', Holds(w)', job'[v] = j, job'[w] = j
               PROVE  v = w
    BY DEF HeldOnce
  <2>1. CASE j = x
    BY <1>0, <1>2, <1>3, <1>h, <2>1 DEF Conserved
  <2>2. CASE j # x
    BY <1>0, <1>2, <2>2 DEF Conserved, HeldOnce
  <2> QED
    BY <2>1, <2>2
<1> QED
  BY <1>0, <1>3, <1>4, <1>5, <1>6 DEF Conserved

(* A worker that puts its job down: no other held it, if it is a closure. *)
LEMMA PutDownHolds ==
    ASSUME CInv, NEW u \in Workers, Holds(u), PutDown(u), NEW j \in Jobs, HeldOnce(j)
    PROVE  /\ Held(j)' <=> Held(j) /\ j # job[u]
           /\ j = job[u] => Held(j)
           /\ HeldOnce(j)'
<1>1. \A w \in Workers : /\ Holds(w)' <=> Holds(w) /\ w # u
                         /\ w # u => job'[w] = job[w]
  BY DEF PutDown, CInv, IInv, TypeOK, Holds
<1>2. Held(j) <=> \E w \in Workers : Holds(w) /\ job[w] = j
  BY DEF Held, Holds
<1>3. Held(j)' <=> \E w \in Workers : Holds(w)' /\ job'[w] = j
  BY DEF Held, Holds
<1>4. Held(j)' => Held(j) /\ j # job[u]
  BY <1>1, <1>2, <1>3 DEF HeldOnce
<1>5. Held(j) /\ j # job[u] => Held(j)'
  BY <1>1, <1>2, <1>3
<1>6. HeldOnce(j)'
  BY <1>1 DEF HeldOnce
<1> QED
  BY <1>2, <1>4, <1>5, <1>6

(* A closure that returns is done: it is in no place any more. *)
LEMMA ReturnConserved ==
    ASSUME CInv, NEW u \in Workers, Return(u)
    PROVE  ClosuresConserved' /\ SpawnedFirst'
<1>1. /\ Holds(u) /\ PutDown(u)
      /\ done' = done \cup {job[u]} \/ (job[u] \in Futures /\ done' = done)
      /\ UNCHANGED <<queue, toSend, unspawned>>
  BY DEF Return, spawnVars, Holds
<1>2. job[u] \in Jobs
  BY <1>1 DEF CInv, IInv, RunsJob, Holds
<1>3. ClosuresConserved'
  <2> SUFFICES ASSUME NEW j \in Closures PROVE Conserved(j)'
    BY DEF ClosuresConserved, Closures
  <2>0. Conserved(j) /\ j \in Jobs \ Futures
    BY DEF CInv, ClosuresConserved, Closures
  <2>1. /\ Held(j)' <=> Held(j) /\ j # job[u]
        /\ j = job[u] => Held(j)
        /\ HeldOnce(j)'
    BY <1>1, <2>0, PutDownHolds DEF Conserved
  <2>2. /\ (Announced(j)' <=> Announced(j)) /\ SentOnce(j)'
        /\ (Queued(j)' <=> Queued(j)) /\ QueuedOnce(j)'
    BY <1>1, <2>0 DEF Conserved, Announced, SentOnce, Queued, QueuedOnce
  <2>3. j \in Outstanding' <=> j \in Outstanding /\ j # job[u]
    BY <1>1, <2>0 DEF Outstanding
  <2> QED
    BY <2>0, <2>1, <2>2, <2>3 DEF Conserved
<1>4. SpawnedFirst'
  <2>1. CASE job[u] \in Futures
    BY <1>1, <2>1 DEF CInv, SpawnedFirst
  <2>2. CASE job[u] \notin Futures
    <3>1. Held(job[u]) /\ Conserved(job[u])
      BY <1>1, <1>2, <2>2 DEF CInv, ClosuresConserved, Closures, Held, Holds
    <3>2. job[u] \notin unspawned
      BY <3>1 DEF Conserved, Outstanding
    <3> QED
      BY <1>1, <3>2 DEF CInv, SpawnedFirst
  <2> QED
    BY <2>1, <2>2
<1> QED
  BY <1>3, <1>4

(* A worker that fails on a future's lock puts down, and sends, no closure. *)
LEMMA RetryConserved ==
    ASSUME CInv, NEW u \in Workers, Retry(u)
    PROVE  ClosuresConserved'
<1> SUFFICES ASSUME NEW j \in Closures PROVE Conserved(j)'
  BY DEF ClosuresConserved, Closures
<1>0. Conserved(j) /\ j \in Jobs \ Futures
  BY DEF CInv, ClosuresConserved, Closures
<1>1. /\ Holds(u) /\ Enqueue(0, job[u]) /\ PutDown(u) /\ job[u] \in Futures
      /\ UNCHANGED <<toSend, unspawned, done>>
  BY DEF Retry, spawnVars, jobVars, Holds
<1>2. (Held(j)' <=> Held(j)) /\ HeldOnce(j)'
  BY <1>0, <1>1, PutDownHolds DEF Conserved
<1>3. job[u] \in Jobs \cup {Idle}
  BY <1>1, PoolAssumption
<1>4. (Queued(j)' <=> Queued(j)) /\ QueuedOnce(j)'
  BY <1>0, <1>1, <1>3, EnqueuePlaces DEF CInv, IInv, Conserved
<1>5. /\ (Announced(j)' <=> Announced(j)) /\ SentOnce(j)'
      /\ j \in Outstanding' <=> j \in Outstanding
  BY <1>0, <1>1 DEF Conserved, Announced, SentOnce, Outstanding
<1> QED
  BY <1>0, <1>2, <1>4, <1>5 DEF Conserved

(* An Idle message is no job: taking one, dying of it or not, moves none. *)
LEMMA TakeIdleConserved ==
    ASSUME CInv, NEW u \in Workers, TakeIdle(u)
    PROVE  ClosuresConserved'
<1> SUFFICES ASSUME NEW j \in Closures PROVE Conserved(j)'
  BY DEF ClosuresConserved, Closures
<1>0. Conserved(j) /\ j \in Jobs
  BY DEF CInv, ClosuresConserved, Closures
<1>1. /\ worker[u] = "ready" /\ queue[1] # <<>> /\ Head(queue[1]) = Idle
      /\ queue' = [queue EXCEPT ![1] = Tail(@)]
      /\ UNCHANGED <<job, toSend, unspawned, done>>
  BY DEF TakeIdle, spawnVars, jobVars
<1>2. \A w \in Workers : Holds(w)' <=> Holds(w)
  BY <1>1 DEF TakeIdle, CInv, IInv, TypeOK, Holds
<1>3. j # Idle
  BY <1>0, PoolAssumption
<1>4. (Queued(j)' <=> Queued(j)) /\ QueuedOnce(j)'
  BY <1>0, <1>1, <1>3, TakePlaces DEF CInv, IInv, Conserved
<1>5. (Held(j)' <=> Held(j)) /\ HeldOnce(j)'
  BY <1>0, <1>1, <1>2, SameHolds DEF Conserved
<1>6. /\ (Announced(j)' <=> Announced(j)) /\ SentOnce(j)'
      /\ j \in Outstanding' <=> j \in Outstanding
  BY <1>0, <1>1 DEF Conserved, Announced, SentOnce, Outstanding
<1> QED
  BY <1>0, <1>4, <1>5, <1>6 DEF Conserved

(* The other steps move no closure: what they send is an Idle message or a   *)
(* future, and a job that begins to run stays with its worker.               *)
LEMMA OtherConserved ==
    ASSUME CInv, UNCHANGED <<job, toSend, unspawned, done>>,
           \A w \in Workers : Holds(w)' <=> Holds(w),
           UNCHANGED queue \/ \E l \in 0..1 : \E x \in Futures \cup {Idle} : Enqueue(l, x)
    PROVE  ClosuresConserved'
<1> SUFFICES ASSUME NEW j \in Closures PROVE Conserved(j)'
  BY DEF ClosuresConserved, Closures
<1>0. Conserved(j) /\ j \in Jobs \ Futures
  BY DEF CInv, ClosuresConserved, Closures
<1>1. /\ (Held(j)' <=> Held(j)) /\ HeldOnce(j)'
      /\ (Announced(j)' <=> Announced(j)) /\ SentOnce(j)'
      /\ j \in Outstanding' <=> j \in Outstanding
  BY <1>0, SameHolds DEF Conserved, Announced, SentOnce, Outstanding
<1>2. (Queued(j)' <=> Queued(j)) /\ QueuedOnce(j)'
  <2>1. CASE UNCHANGED queue
    BY <1>0, <2>1 DEF Conserved, Queued, QueuedOnce
  <2>2. ASSUME NEW l \in 0..1, NEW x \in Futures \cup {Idle}, Enqueue(l, x)
        PROVE  (Queued(j)' <=> Queued(j)) /\ QueuedOnce(j)'
    <3>1. x \in Jobs \cup {Idle} /\ j # x
      BY <1>0, PoolAssumption
    <3> QED
      BY <1>0, <2>2, <3>1, EnqueuePlaces DEF CInv, IInv, Conserved
  <2> QED
    BY <2>1, <2>2
<1> QED
  BY <1>0, <1>1, <1>2 DEF Conserved

(* Every action conserves the closures. *)
LEMMA StepConserved == CInv /\ [Next]_vars => CInv'
<1> SUFFICES ASSUME CInv, [Next]_vars PROVE CInv'
  OBVIOUS
<1>i. IInv'
  BY StepIInv DEF CInv
<1> USE DEF threadVars, spawnVars, jobVars
<1>c. SpawnedFirst
  BY DEF CInv
<1>1. CASE UNCHANGED vars
  <2>1. \A w \in Workers : Holds(w)' <=> Holds(w)
    BY <1>1 DEF vars, Holds
  <2> QED
    BY <1>i, <1>c, <1>1, <2>1, OtherConserved DEF vars, CInv, SpawnedFirst
<1>2. ASSUME NEW s \in Spawners, NEW js \in SUBSET unspawned, Spawn(s, js) PROVE CInv'
  <2>1. SpawnedFirst'
    BY <1>c, <1>2 DEF Spawn, SpawnedFirst
  <2> QED
    BY <1>i, <1>2, <2>1, SpawnConserved DEF CInv
<1>3. ASSUME NEW s \in Spawners, NEW w \in Workers, Launch(s, w) PROVE CInv'
  <2>1. \A v \in Workers : Holds(v)' <=> Holds(v)
    BY <1>3 DEF Launch, CInv, IInv, TypeOK, PromisesOwed, Holds
  <2>2. SpawnedFirst' /\ UNCHANGED <<job, queue, toSend, unspawned, done>>
    BY <1>c, <1>3 DEF Launch, SpawnedFirst
  <2> QED
    BY <1>i, <2>1, <2>2, OtherConserved DEF CInv
<1>4. ASSUME NEW s \in Spawners, NEW j \in Jobs, SendJob(s, j) PROVE CInv'
  <2>1. SpawnedFirst'
    BY <1>c, <1>4 DEF SendJob, SpawnedFirst
  <2> QED
    BY <1>i, <1>4, <2>1, SendJobConserved DEF CInv
<1>5. ASSUME NEW w \in Workers, NEW l \in 0..1, TakeJob(w, l) PROVE CInv'
  <2>1. SpawnedFirst'
    BY <1>c, <1>5 DEF TakeJob, SpawnedFirst
  <2> QED
    BY <1>i, <1>5, <2>1, TakeJobConserved DEF CInv
<1>6. ASSUME NEW w \in Workers, Begin(w) PROVE CInv'
  <2>1. \A v \in Workers : Holds(v)' <=> Holds(v)
    BY <1>6 DEF Begin, CInv, IInv, TypeOK, Holds
  <2>2. SpawnedFirst' /\ UNCHANGED <<job, queue, toSend, unspawned, done>>
    BY <1>c, <1>6 DEF Begin, SpawnedFirst
  <2> QED
    BY <1>i, <2>1, <2>2, OtherConserved DEF CInv
<1>7. ASSUME NEW w \in Workers, Retry(w) PROVE CInv'
  <2>1. SpawnedFirst'
    BY <1>c, <1>7 DEF Retry, SpawnedFirst
  <2> QED
    BY <1>i, <1>7, <2>1, RetryConserved DEF CInv
<1>8. ASSUME NEW w \in Workers, Return(w) PROVE CInv'
  BY <1>i, <1>8, ReturnConserved DEF CInv
<1>9. ASSUME NEW w \in Workers, TakeIdle(w) PROVE CInv'
  <2>1. SpawnedFirst'
    BY <1>c, <1>9 DEF TakeIdle, SpawnedFirst
  <2> QED
    BY <1>i, <1>9, <2>1, TakeIdleConserved DEF CInv
<1>10. CASE TimerFires \/ TimerSends \/ (\E w \in Workers : Rest(w)) \/ \E j \in Futures : Wake(j)
  <2>1. /\ UNCHANGED <<worker, job, toSend, unspawned, done>>
        /\ UNCHANGED queue \/ \E l \in 0..1 : \E x \in Futures \cup {Idle} : Enqueue(l, x)
    BY <1>10 DEF TimerFires, TimerSends, Rest, Wake
  <2>2. \A w \in Workers : Holds(w)' <=> Holds(w)
    BY <2>1 DEF Holds
  <2>3. ClosuresConserved'
    BY <2>1, <2>2, OtherConserved
  <2> QED
    BY <1>i, <1>c, <2>1, <2>3 DEF CInv, SpawnedFirst
<1> QED
  BY <1>1, <1>2, <1>3, <1>4, <1>5, <1>6, <1>7, <1>8, <1>9, <1>10
  DEF Next, SpawnerStep, WorkerStep, Timer

(* The conservation holds in every state of every behaviour. *)
LEMMA Conservation == Spec => []CInv
<1>1. Init => CInv
  BY InitIInv, InitConserved DEF CInv, SpawnedFirst, Init
<1> QED
  BY <1>1, StepConserved, PTL DEF Spec
-----------------------------------------------------------------------------
(* The calls: what was spawned or woken and has not begun since.             *)

Carried(j)    == Announced(j) \/ Queued(j) \/ Taken(j)
WantedCarried == \A j \in wanted : Carried(j)

(* A step that touches only the spawners, or the queue by sending, leaves    *)
(* what is carried carried.                                                  *)
LEMMA SendCarries ==
    ASSUME TypeOK, UNCHANGED <<worker, job>>, NEW j \in Jobs, Carried(j),
           Announced(j) => Announced(j)' \/ Queued(j)',
           UNCHANGED queue \/ \E l \in 0..1 : \E x \in Jobs \cup {Idle} : Enqueue(l, x)
    PROVE  Carried(j)'
<1>1. Taken(j) => Taken(j)'
  BY DEF Taken
<1>2. Queued(j) => Queued(j)'
  <2>1. CASE UNCHANGED queue
    BY <2>1 DEF Queued
  <2>2. ASSUME NEW l \in 0..1, NEW x \in Jobs \cup {Idle}, Enqueue(l, x)
        PROVE  Queued(j) => Queued(j)'
    BY <2>2, EnqueuePlaces
  <2> QED
    BY <2>1, <2>2
<1> QED
  BY <1>1, <1>2 DEF Carried

(* A worker that stays out of "taken" carries nothing, before or after. *)
LEMMA WorkerCarries ==
    ASSUME IInv, NEW w \in Workers, worker[w] # "taken", UNCHANGED <<toSend, queue>>,
           \A v \in Workers : v # w => worker'[v] = worker[v] /\ job'[v] = job[v],
           NEW j \in Jobs, Carried(j)
    PROVE  Carried(j)'
<1>1. Taken(j) => Taken(j)'
  BY DEF Taken
<1>2. (Announced(j) => Announced(j)') /\ (Queued(j) => Queued(j)')
  BY DEF Announced, Queued
<1> QED
  BY <1>1, <1>2 DEF Carried

(* A spawner's calls: announced by the spawn, queued by the send. *)
LEMMA SpawnerWanted ==
    ASSUME IInv, WantedCarried, NEW s \in Spawners,
           \/ \E js \in SUBSET unspawned : Spawn(s, js)
           \/ \E w \in Workers : Launch(s, w)
           \/ \E x \in Jobs : SendJob(s, x)
    PROVE  WantedCarried'
<1> USE DEF IInv, TypeOK, threadVars, spawnVars, jobVars
<1>1. ASSUME NEW js \in SUBSET unspawned, Spawn(s, js) PROVE WantedCarried'
  <2> SUFFICES ASSUME NEW j \in wanted' PROVE Carried(j)'
    BY DEF WantedCarried
  <2>1. \A r \in Spawners : toSend'[r] = IF r = s THEN js ELSE toSend[r]
    BY <1>1 DEF Spawn
  <2>2. toSend[s] = {} /\ wanted' = wanted \cup js /\ UNCHANGED <<job, queue>>
    BY <1>1 DEF Spawn
  <2>3. CASE j \in js
    BY <2>1, <2>3 DEF Carried, Announced
  <2>4. CASE j \in wanted
    <3>1. Announced(j) => Announced(j)'
      BY <2>1, <2>2 DEF Announced
    <3>2. Queued(j) => Queued(j)'
      BY <2>2 DEF Queued
    <3>3. \A w \in Workers : worker[w] = "taken" => worker'[w] = "taken"
      BY <1>1 DEF Spawn
    <3>4. Taken(j) => Taken(j)'
      BY <2>2, <3>3 DEF Taken
    <3> QED
      BY <2>4, <3>1, <3>2, <3>4 DEF WantedCarried, Carried
  <2> QED
    BY <2>2, <2>3, <2>4
<1>2. ASSUME NEW w \in Workers, Launch(s, w) PROVE WantedCarried'
  <2>1. worker[w] = "promised"
    BY <1>2 DEF Launch, PromisesOwed
  <2>2. \A v \in Workers : v # w => worker'[v] = worker[v] /\ job'[v] = job[v]
    BY <1>2 DEF Launch
  <2>3. UNCHANGED <<toSend, queue, wanted>>
    BY <1>2 DEF Launch
  <2> QED
    BY <2>1, <2>2, <2>3, WorkerCarries DEF WantedCarried
<1>3. ASSUME NEW x \in Jobs, SendJob(s, x) PROVE WantedCarried'
  <2> SUFFICES ASSUME NEW j \in wanted PROVE Carried(j)'
    BY <1>3 DEF SendJob, WantedCarried
  <2>1. Enqueue(1, x) /\ UNCHANGED <<worker, job>>
    BY <1>3 DEF SendJob
  <2>2. j = x => Queued(j)'
    BY <2>1, EnqueuePlaces
  <2>3. j # x => (Announced(j) => Announced(j)')
    BY <1>3 DEF SendJob, Announced
  <2>4. Carried(j) /\ j \in Jobs
    BY DEF WantedCarried
  <2> QED
    BY <2>1, <2>2, <2>3, <2>4, SendCarries
<1> QED
  BY <1>1, <1>2, <1>3

(* A worker's steps: a job it takes is carried by it until it begins it, or  *)
(* until it fails on the lock and sends it again.                            *)
LEMMA WorkerWanted ==
    ASSUME IInv, WantedCarried, NEW w \in Workers, WorkerStep(w)
    PROVE  WantedCarried'
<1> USE DEF IInv, TypeOK, threadVars, spawnVars, jobVars
<1>1. ASSUME NEW l \in 0..1, TakeJob(w, l) PROVE WantedCarried'
  <2> SUFFICES ASSUME NEW j \in wanted PROVE Carried(j)'
    BY <1>1 DEF TakeJob, WantedCarried
  <2>0. Carried(j) /\ j \in Jobs
    BY DEF WantedCarried
  <2>1. /\ worker[w] = "ready" /\ queue[l] # <<>> /\ queue' = [queue EXCEPT ![l] = Tail(@)]
        /\ UNCHANGED toSend
    BY <1>1 DEF TakeJob
  <2>2. /\ worker'[w] = "taken" /\ job'[w] = Head(queue[l])
        /\ \A v \in Workers : v # w => worker'[v] = worker[v] /\ job'[v] = job[v]
    BY <1>1 DEF TakeJob
  <2>3. Queued(j) => Queued(j)' \/ j = Head(queue[l])
    BY <2>0, <2>1, TakePlaces
  <2>4. j = Head(queue[l]) => Taken(j)'
    BY <2>2 DEF Taken
  <2>5. Taken(j) => Taken(j)'
    BY <2>1, <2>2 DEF Taken
  <2>6. Announced(j) => Announced(j)'
    BY <2>1 DEF Announced
  <2> QED
    BY <2>0, <2>3, <2>4, <2>5, <2>6 DEF Carried
<1>2. CASE Begin(w)
  <2> SUFFICES ASSUME NEW j \in wanted \ {job[w]} PROVE Carried(j)'
    BY <1>2 DEF Begin, WantedCarried
  <2>1. (Announced(j) => Announced(j)') /\ (Queued(j) => Queued(j)')
    BY <1>2 DEF Begin, Announced, Queued
  <2>2. \A v \in Workers : v # w => worker'[v] = worker[v] /\ job'[v] = job[v]
    BY <1>2 DEF Begin
  <2>3. Taken(j) => Taken(j)'
    BY <2>2 DEF Taken
  <2> QED
    BY <2>1, <2>3 DEF WantedCarried, Carried
<1>3. CASE Retry(w)
  <2> SUFFICES ASSUME NEW j \in wanted PROVE Carried(j)'
    BY <1>3 DEF Retry, WantedCarried
  <2>0. Carried(j) /\ j \in Jobs
    BY DEF WantedCarried
  <2>1. Enqueue(0, job[w]) /\ UNCHANGED toSend /\ job[w] \in Jobs
    BY <1>3, PoolAssumption DEF Retry
  <2>2. Queued(j)' <=> Queued(j) \/ j = job[w]
    BY <2>0, <2>1, EnqueuePlaces
  <2>3. \A v \in Workers : v # w => worker'[v] = worker[v] /\ job'[v] = job[v]
    BY <1>3 DEF Retry, PutDown
  <2>4. Taken(j) => Taken(j)' \/ j = job[w]
    BY <2>3 DEF Taken
  <2>5. Announced(j) => Announced(j)'
    BY <2>1 DEF Announced
  <2> QED
    BY <2>0, <2>2, <2>4, <2>5 DEF Carried
<1>4. CASE Return(w)
  <2>1. \A v \in Workers : v # w => worker'[v] = worker[v] /\ job'[v] = job[v]
    BY <1>4 DEF Return, PutDown
  <2>2. worker[w] # "taken" /\ UNCHANGED <<toSend, queue, wanted>>
    BY <1>4 DEF Return
  <2> QED
    BY <2>1, <2>2, WorkerCarries DEF WantedCarried
<1>5. CASE TakeIdle(w)
  <2> SUFFICES ASSUME NEW j \in wanted PROVE Carried(j)'
    BY <1>5 DEF TakeIdle, WantedCarried
  <2>0. Carried(j) /\ j \in Jobs /\ j # Idle
    BY PoolAssumption DEF WantedCarried
  <2>1. /\ worker[w] = "ready" /\ queue[1] # <<>> /\ Head(queue[1]) = Idle
        /\ queue' = [queue EXCEPT ![1] = Tail(@)] /\ UNCHANGED <<toSend, job>>
    BY <1>5 DEF TakeIdle
  <2>2. Queued(j) => Queued(j)'
    BY <2>0, <2>1, TakePlaces
  <2>3. \A v \in Workers : v # w => worker'[v] = worker[v]
    BY <1>5 DEF TakeIdle
  <2>4. Taken(j) => Taken(j)'
    BY <2>1, <2>3 DEF Taken
  <2>5. Announced(j) => Announced(j)'
    BY <2>1 DEF Announced
  <2> QED
    BY <2>0, <2>2, <2>4, <2>5 DEF Carried
<1> QED
  BY <1>1, <1>2, <1>3, <1>4, <1>5 DEF WorkerStep

(* Every action keeps what is wanted carried. *)
LEMMA StepWanted == IInv /\ WantedCarried /\ [Next]_vars => WantedCarried'
<1> SUFFICES ASSUME IInv, WantedCarried, [Next]_vars PROVE WantedCarried'
  OBVIOUS
<1> USE DEF IInv, TypeOK, threadVars, spawnVars, jobVars
<1>1. ASSUME NEW j \in Futures, Wake(j) PROVE WantedCarried'
  <2> SUFFICES ASSUME NEW i \in wanted' PROVE Carried(i)'
    BY DEF WantedCarried
  <2>1. /\ Enqueue(0, j) /\ j \in Jobs \cup {Idle} /\ wanted' = wanted \cup {j}
        /\ UNCHANGED <<worker, job, toSend>>
    BY <1>1, PoolAssumption DEF Wake
  <2>2. i \in Jobs
    BY <2>1, PoolAssumption
  <2>3. CASE i = j
    BY <2>1, <2>2, <2>3, EnqueuePlaces DEF Carried
  <2>4. CASE i \in wanted
    <3>1. Announced(i) => Announced(i)'
      BY <2>1 DEF Announced
    <3>2. Carried(i)
      BY <2>4 DEF WantedCarried
    <3> QED
      BY <2>1, <2>2, <3>1, <3>2, SendCarries
  <2> QED
    BY <2>1, <2>3, <2>4
<1>2. CASE UNCHANGED vars \/ TimerFires \/ TimerSends \/ \E w \in Workers : Rest(w)
  <2>1. /\ UNCHANGED <<worker, job, toSend, wanted>>
        /\ UNCHANGED queue \/ Enqueue(1, Idle)
    BY <1>2 DEF vars, TimerFires, TimerSends, Rest
  <2>2. \A j : Announced(j) => Announced(j)'
    BY <2>1 DEF Announced
  <2> QED
    BY <2>1, <2>2, SendCarries DEF WantedCarried
<1> QED
  BY <1>1, <1>2, SpawnerWanted, WorkerWanted DEF Next, SpawnerStep, Timer

(* The calls are carried in every state of every behaviour. *)
LEMMA Carriage == Spec => []WantedCarried
<1>1. Init => WantedCarried
  BY DEF Init, WantedCarried
<1> QED
  BY <1>1, StepWanted, Invariance, PTL DEF Spec

(* No call for a job is lost and no closure is called twice: a job that was  *)
(* spawned or woken is announced, queued or taken until it begins, through   *)
(* failed locks, exits and messages that are taken by others; a closure is   *)
(* in one place until it returns (bin.rs:104-155, 180-243 and 292-320).      *)
THEOREM WorkAlwaysCarried == Spec => []WorkCarried
<1>1. CInv /\ WantedCarried => WorkCarried
  BY ConservedParts DEF CInv, WantedCarried, Carried, WorkCarried
<1> QED
  BY <1>1, Conservation, Carriage, PTL
-----------------------------------------------------------------------------
(* The safety core of EveryJobRuns: the pool does not come to rest while a   *)
(* job waits to be begun.                                                    *)

\* Level 0 carries the futures that were woken and nothing else.
WokenOnly == \A i \in DOMAIN queue[0] : queue[0][i] \in Jobs

\* Before the first spawn there is no thread, and nothing to wake or to run.
NothingYet ==
    unspawned = Jobs => wanted = {} /\ polled = {} /\ \A w \in Workers : worker[w] = "none"

\* What a spawner, and a worker, can go on with: the guards of their actions.
SpawnerCanStep(s) == toLaunch[s] # {} \/ toSend[s] # {}
WorkerCanStep(w) ==
    \/ worker[w] = "running"
    \/ worker[w] = "taken" /\ (job[w] \in Futures => ~Runs(job[w]))
    \/ worker[w] = "taken" /\ job[w] \in Futures /\ Runs(job[w])
    \/ /\ worker[w] = "ready"
       /\ \/ \E l \in 0..1 : queue[l] # <<>> /\ Head(queue[l]) # Idle
          \/ queue[1] # <<>> /\ Head(queue[1]) = Idle

\* While a job is wanted a spawner or a worker can take a step.
NeverStuck ==
    wanted # {} => \/ \E s \in Spawners : SpawnerCanStep(s)
                   \/ \E w \in Workers : WorkerCanStep(w)

(* Woken futures are sent to level 0, new jobs and Idle messages to level 1. *)
LEMMA StepWokenOnly == IInv /\ WokenOnly /\ [Next]_vars => WokenOnly'
<1> SUFFICES ASSUME IInv, WokenOnly, [Next]_vars PROVE WokenOnly'
  OBVIOUS
<1> USE DEF IInv, TypeOK, threadVars, spawnVars, jobVars
<1>0. queue[0] \in Seq(Jobs \cup {Idle}) /\ DOMAIN queue = 0..1
  OBVIOUS
<1>1. CASE queue'[0] = queue[0]
  BY <1>1 DEF WokenOnly
<1>2. ASSUME NEW x \in Jobs, Enqueue(0, x) PROVE WokenOnly'
  <2>1. queue'[0] = Append(queue[0], x)
    BY <1>2 DEF Enqueue
  <2>2. \A i \in DOMAIN queue'[0] : IF i \in DOMAIN queue[0] THEN queue'[0][i] = queue[0][i]
                                                            ELSE queue'[0][i] = x
    BY <1>0, <2>1
  <2> QED
    BY <2>1, <2>2 DEF WokenOnly
<1>3. ASSUME NEW w \in Workers, TakeJob(w, 0) PROVE WokenOnly'
  <2>1. queue'[0] = Tail(queue[0]) /\ queue[0] # <<>>
    BY <1>3 DEF TakeJob
  <2>2. \A i \in DOMAIN queue'[0] : i + 1 \in DOMAIN queue[0] /\ queue'[0][i] = queue[0][i + 1]
    BY <1>0, <2>1
  <2> QED
    BY <2>2 DEF WokenOnly
<1>4. ASSUME NEW w \in Workers, TakeJob(w, 1) \/ TakeIdle(w) \/ Begin(w) \/ Return(w) \/ Rest(w)
      PROVE  queue'[0] = queue[0]
  BY <1>4 DEF TakeJob, TakeIdle, Begin, Return, Rest
<1>5. ASSUME NEW s \in Spawners, NEW w \in Workers, Launch(s, w) PROVE queue'[0] = queue[0]
  BY <1>5 DEF Launch
<1>6. ASSUME NEW s \in Spawners, NEW j \in Jobs, SendJob(s, j) PROVE queue'[0] = queue[0]
  BY <1>6 DEF SendJob, Enqueue
<1>7. ASSUME NEW s \in Spawners, NEW js \in SUBSET unspawned, Spawn(s, js)
      PROVE  queue'[0] = queue[0]
  BY <1>7 DEF Spawn
<1>8. CASE TimerFires \/ TimerSends \/ UNCHANGED vars
  <2>1. queue'[0] = queue[0]
    BY <1>8 DEF TimerFires, TimerSends, Enqueue, vars
  <2> QED
    BY <1>1, <2>1
<1>9. ASSUME NEW w \in Workers, Retry(w) PROVE WokenOnly'
  BY <1>2, <1>9, PoolAssumption DEF Retry
<1>10. ASSUME NEW j \in Futures, Wake(j) PROVE WokenOnly'
  BY <1>2, <1>10, PoolAssumption DEF Wake
<1>11. \A l \in 0..1 : l = 0 \/ l = 1
  OBVIOUS
<1> QED
  BY <1>1, <1>3, <1>4, <1>5, <1>6, <1>7, <1>8, <1>9, <1>10, <1>11
  DEF Next, SpawnerStep, WorkerStep, Timer

(* Only a spawn brings the pool to life. *)
LEMMA StepNothingYet == IInv /\ NothingYet /\ [Next]_vars => NothingYet'
<1> SUFFICES ASSUME IInv, NothingYet, [Next]_vars, unspawned' = Jobs
             PROVE  wanted' = {} /\ polled' = {} /\ \A w \in Workers : worker'[w] = "none"
  BY DEF NothingYet
<1> USE DEF threadVars, spawnVars, jobVars, wakerVars
<1>1. ASSUME NEW s \in Spawners, NEW js \in SUBSET unspawned, js # {}, Spawn(s, js) PROVE FALSE
  BY <1>1 DEF Spawn, IInv, TypeOK
<1>2. unspawned = Jobs
  BY <1>1 DEF Next, SpawnerStep, WorkerStep, Timer, Launch, SendJob, TakeJob, Begin, Retry,
     Return, TakeIdle, Rest, Wake, TimerFires, TimerSends, vars
<1>3. wanted = {} /\ polled = {} /\ \A w \in Workers : worker[w] = "none"
  BY <1>2 DEF NothingYet
<1>4. ASSUME NEW w \in Workers, WorkerStep(w) \/ Rest(w) PROVE FALSE
  BY <1>3, <1>4 DEF WorkerStep, TakeJob, Begin, Retry, Return, TakeIdle, Rest
<1>5. ASSUME NEW s \in Spawners, NEW w \in Workers, Launch(s, w) PROVE FALSE
  BY <1>3, <1>5 DEF Launch, IInv, PromisesOwed
<1>6. ASSUME NEW j \in Futures, Wake(j) PROVE FALSE
  BY <1>3, <1>6 DEF Wake
<1>7. UNCHANGED <<wanted, polled, worker>>
  BY <1>1, <1>4, <1>5, <1>6 DEF Next, SpawnerStep, Timer, SendJob, TimerFires, TimerSends, vars
<1> QED
  BY <1>3, <1>7

(* Whatever carries a wanted job can move: the spawner that announced it,    *)
(* the worker that took it, or, for a job in the channel, the thread that    *)
(* WorkHasWorker promises; that thread takes what it finds, an Idle message  *)
(* being at level 1 if anywhere.                                             *)
LEMMA CarriedNotStuck == IInv /\ WantedCarried /\ WokenOnly /\ NothingYet => NeverStuck
<1> SUFFICES ASSUME IInv, WantedCarried, WokenOnly, NothingYet, NEW j \in wanted
             PROVE  \/ \E s \in Spawners : SpawnerCanStep(s)
                    \/ \E w \in Workers : WorkerCanStep(w)
  BY DEF NeverStuck
<1>1. Announced(j) \/ Queued(j) \/ Taken(j)
  BY DEF WantedCarried, Carried
<1>2. CASE Announced(j)
  BY <1>2 DEF Announced, SpawnerCanStep
<1>3. CASE Taken(j)
  BY <1>3 DEF Taken, WorkerCanStep
<1>4. CASE Queued(j)
  <2>1. PICK l \in 0..1 : \E i \in DOMAIN queue[l] : queue[l][i] = j
    BY <1>4 DEF Queued
  <2>2. queue[l] # <<>>
    BY <2>1
  <2>3. l = 0 => Head(queue[l]) # Idle
    <3> SUFFICES ASSUME l = 0 PROVE Head(queue[0]) # Idle
      OBVIOUS
    <3>1. queue[0] \in Seq(Jobs \cup {Idle})
      BY DEF IInv, TypeOK
    <3>2. 1 \in DOMAIN queue[0] /\ Head(queue[0]) = queue[0][1]
      BY <2>2, <3>1
    <3> QED
      BY <3>2, PoolAssumption DEF WokenOnly
  <2>4. l = 1 \/ Head(queue[l]) # Idle
    BY <2>3
  <2>5. unspawned # Jobs
    BY DEF NothingYet
  <2>6. PICK w \in Workers : \/ worker[w] \in Threads
                             \/ \E s \in Spawners : w \in toLaunch[s]
    BY <2>5, IInvWorkHasWorker DEF WorkHasWorker
  <2>7. CASE worker[w] \in Threads
    BY <2>2, <2>4, <2>7 DEF WorkerCanStep, Threads
  <2> QED
    BY <2>6, <2>7 DEF SpawnerCanStep
<1> QED
  BY <1>1, <1>2, <1>3, <1>4

(* The pool never comes to rest while a job that was spawned, or a future    *)
(* that was woken, waits to be begun: a spawner has a thread to launch or a  *)
(* job to send, or a worker has something to begin, to end or to take        *)
(* (bin.rs:104-155 and 180-248).                                             *)
THEOREM PoolNeverStuck == Spec => []NeverStuck
<1>1. Init => WokenOnly /\ NothingYet
  BY DEF Init, WokenOnly, NothingYet
<1>2. Spec => [](WokenOnly /\ NothingYet)
  BY <1>1, StepWokenOnly, StepNothingYet, Invariance, PTL DEF Spec
<1> QED
  BY <1>2, CarriedNotStuck, Carriage, Invariance, PTL
=============================================================================
