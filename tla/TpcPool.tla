------------------------------ MODULE TpcPool ------------------------------
(***************************************************************************)
(* The worker threads of tpc's UserWaiting bin (tpc/src/bin.rs) and the    *)
(* shared thread count (tpc/src/global.rs): when threads are launched,     *)
(* which messages they take, and how they agree to die.                    *)
(*                                                                         *)
(* The channel is used as TpcChannel shows it to behave: a worker takes    *)
(* one queued element whenever there is one.  Level 0 carries futures that *)
(* were woken, level 1 new jobs and Idle messages.  A message is sent by   *)
(* whoever wakes, when it wakes: a future may be queued while it runs, be  *)
(* held by two workers, be parked with only its waker outside, and have    *)
(* messages left after it has returned Ready.  OurFuture's lock is used as *)
(* TpcTask shows it to behave: one poll at a time.                         *)
(***************************************************************************)
EXTENDS Integers, Sequences, FiniteSets

CONSTANTS
    Workers,    \* identities of worker threads, free again after an exit
    Spawners,   \* threads that call a spawn function of the bin
    Jobs,       \* closures and futures to be spawned, each once
    Futures,    \* the jobs that are futures; the others are closures (Simple)
    Cpus,       \* GlobalState::physical_cpus
    Idle,       \* ThreadMessage::Idle
    MaxIdle,    \* bound: the timer does not fire while MaxIdle Idles are queued
    MaxWakes    \* bound: wakes of one future

ASSUME PoolAssumption ==
    /\ IsFiniteSet(Workers) /\ IsFiniteSet(Jobs)
    /\ Cpus \in Nat \ {0} /\ Cpus <= Cardinality(Workers)
    /\ Futures \subseteq Jobs /\ Idle \notin Jobs
    /\ MaxIdle \in Nat /\ MaxWakes \in Nat

MinThreads == 1     \* USER_WAITING_MIN_THREADS

VARIABLES
    count,      \* ThreadCounts.user_waiting
    worker,     \* "none", "promised" (counted, not launched), "ready",
                \* "taken" (holds a job it has not begun), "running"
    job,        \* the job a worker has taken or runs, Idle when it has none
    rested,     \* last_useful.elapsed() > TARGET_IDLE_TIME, per worker
    queue,      \* the channel's two levels
    toLaunch,   \* the threads a spawner has promised and not launched
    toSend,     \* the jobs a spawner has announced and not sent
    owed,       \* Idle messages the running timer callback still has to send
    unspawned,  \* the jobs nobody has spawned yet
    wanted,     \* the jobs spawned, or woken, since they last began to run
    polled,     \* the futures that were polled: a clone of the waker may be outside
    wakes,      \* how often a future was woken
    done        \* the jobs that have returned, the futures Ready

threadVars == <<count, worker, job, rested>>
spawnVars  == <<toLaunch, toSend, unspawned>>
wakerVars  == <<polled, wakes>>
jobVars    == <<wanted, wakerVars, done>>
vars == <<threadVars, queue, spawnVars, owed, jobVars>>

Threads == {"ready", "taken", "running"}
Alive   == {w \in Workers : worker[w] \in Threads}
Runs(j) == \E w \in Workers : worker[w] = "running" /\ job[w] = j

Init ==
    /\ count = 0
    /\ worker = [w \in Workers |-> "none"]
    /\ job = [w \in Workers |-> Idle]
    /\ rested = [w \in Workers |-> FALSE]
    /\ queue = [l \in 0..1 |-> <<>>]
    /\ toLaunch = [s \in Spawners |-> {}]
    /\ toSend = [s \in Spawners |-> {}]
    /\ owed = 0
    /\ unspawned = Jobs /\ wanted = {} /\ done = {}
    /\ polled = {} /\ wakes = [j \in Futures |-> 0]

Lesser(a, b) == IF a <= b THEN a ELSE b

\* Channel::send, as one step.
Enqueue(l, m) == queue' = [queue EXCEPT ![l] = Append(@, m)]

-----------------------------------------------------------------------------
\* enforce_spare_thread_policy for LENGTH jobs, up to its fetch_update: the
\* count rises to the proposed number, and the difference is promised.

\* A policy that launches the proposed number whatever the count was.
Spawn_IgnoresOld(s, js) ==
    LET proposed == Lesser(Cardinality(js), Cpus)
    IN  /\ toSend[s] = {} /\ toLaunch[s] = {}
        /\ unspawned' = unspawned \ js /\ wanted' = wanted \cup js
        /\ toSend' = [toSend EXCEPT ![s] = js]
        /\ count' = IF count < proposed THEN proposed ELSE count
        /\ \E new \in SUBSET {w \in Workers : worker[w] = "none"} :
              /\ Cardinality(new) = IF count < proposed THEN proposed ELSE 0
              /\ toLaunch' = [toLaunch EXCEPT ![s] = new]
              /\ worker' = [w \in Workers |-> IF w \in new THEN "promised" ELSE worker[w]]
        /\ UNCHANGED <<job, rested, queue, owed, wakerVars, done>>

\* A spawn that sends its jobs without enforcing the policy first.
Spawn_WithoutPolicy(s, js) ==
    /\ toSend[s] = {} /\ toLaunch[s] = {}
    /\ unspawned' = unspawned \ js /\ wanted' = wanted \cup js
    /\ toSend' = [toSend EXCEPT ![s] = js]
    /\ UNCHANGED <<threadVars, queue, toLaunch, owed, wakerVars, done>>

Spawn(s, js) ==
    LET proposed == Lesser(Cardinality(js), Cpus)
    IN  /\ toSend[s] = {} /\ toLaunch[s] = {}
        /\ unspawned' = unspawned \ js /\ wanted' = wanted \cup js
        /\ toSend' = [toSend EXCEPT ![s] = js]
        /\ count' = IF count < proposed THEN proposed ELSE count
        /\ \E new \in SUBSET {w \in Workers : worker[w] = "none"} :
              /\ Cardinality(new) = count' - count
              /\ toLaunch' = [toLaunch EXCEPT ![s] = new]
              /\ worker' = [w \in Workers |-> IF w \in new THEN "promised" ELSE worker[w]]
        /\ UNCHANGED <<job, rested, queue, owed, wakerVars, done>>

\* One iteration of the launch loop: the thread starts, last_useful is now.
Launch(s, w) ==
    /\ w \in toLaunch[s]
    /\ toLaunch' = [toLaunch EXCEPT ![s] = @ \ {w}]
    /\ worker' = [worker EXCEPT ![w] = "ready"]
    /\ rested' = [rested EXCEPT ![w] = FALSE]
    /\ UNCHANGED <<count, job, queue, toSend, unspawned, owed, jobVars>>

\* The loop after the policy: one message per job, at level 1.
SendJob(s, j) ==
    /\ toLaunch[s] = {}
    /\ j \in toSend[s]
    /\ toSend' = [toSend EXCEPT ![s] = @ \ {j}]
    /\ Enqueue(1, j)
    /\ UNCHANGED <<threadVars, toLaunch, unspawned, owed, jobVars>>

-----------------------------------------------------------------------------
\* The worker loop.  A ready worker takes the head of a level; one whose scan
\* has passed level 0 takes level 1 whatever was sent to level 0 since.

TakeJob(w, l) ==
    /\ worker[w] = "ready"
    /\ queue[l] # <<>> /\ Head(queue[l]) # Idle
    /\ queue' = [queue EXCEPT ![l] = Tail(@)]
    /\ worker' = [worker EXCEPT ![w] = "taken"]
    /\ job' = [job EXCEPT ![w] = Head(queue[l])]
    /\ UNCHANGED <<count, rested, spawnVars, owed, jobVars>>

\* The closure is called, or the future's lock is won and its poll begins: it
\* sees everything it was spawned or woken for.
Begin(w) ==
    /\ worker[w] = "taken"
    /\ job[w] \in Futures => ~Runs(job[w])
    /\ worker' = [worker EXCEPT ![w] = "running"]
    /\ wanted' = wanted \ {job[w]}
    /\ polled' = polled \cup ({job[w]} \cap Futures)
    /\ UNCHANGED <<count, job, rested, queue, spawnVars, owed, wakes, done>>

\* The worker puts its job down, and last_useful is now.
PutDown(w) ==
    /\ worker' = [worker EXCEPT ![w] = "ready"]
    /\ job' = [job EXCEPT ![w] = Idle]
    /\ rested' = [rested EXCEPT ![w] = FALSE]
    /\ UNCHANGED count

\* A worker that fails on the lock and leaves the message to whoever holds it.
Retry_Forgets(w) ==
    /\ worker[w] = "taken"
    /\ job[w] \in Futures /\ Runs(job[w])
    /\ PutDown(w)
    /\ UNCHANGED <<queue, spawnVars, owed, jobVars>>

\* Another worker is polling the future: the message is sent again, to level 0.
Retry(w) ==
    /\ worker[w] = "taken"
    /\ job[w] \in Futures /\ Runs(job[w])
    /\ Enqueue(0, job[w])
    /\ PutDown(w)
    /\ UNCHANGED <<spawnVars, owed, jobVars>>

\* The closure returns, or the poll does, with Ready or with Pending.  A poll
\* after Ready, which TpcTask shows to panic, is taken to return.
Return(w) ==
    /\ worker[w] = "running"
    /\ \/ done' = done \cup {job[w]}
       \/ job[w] \in Futures /\ UNCHANGED done
    /\ PutDown(w)
    /\ UNCHANGED <<queue, spawnVars, owed, wanted, wakerVars>>

\* wake and wake_by_ref, by the poll itself or by whoever got a clone of its
\* waker, whatever the future is doing: running, queued, parked or done.
Wake(j) ==
    /\ j \in polled
    /\ wakes[j] < MaxWakes
    /\ Enqueue(0, j)
    /\ wanted' = wanted \cup {j}
    /\ wakes' = [wakes EXCEPT ![j] = @ + 1]
    /\ UNCHANGED <<threadVars, spawnVars, owed, polled, done>>

\* A worker that dies as soon as it has rested, without looking at the count.
TakeIdle_LastDies(w) ==
    /\ worker[w] = "ready"
    /\ queue[1] # <<>> /\ Head(queue[1]) = Idle
    /\ queue' = [queue EXCEPT ![1] = Tail(@)]
    /\ IF rested[w] /\ count > 0
         THEN count' = count - 1 /\ worker' = [worker EXCEPT ![w] = "none"]
         ELSE UNCHANGED <<count, worker>>
    /\ UNCHANGED <<job, rested, spawnVars, owed, jobVars>>

\* A worker that takes Idle thinks about dying: it exits when it has rested
\* and update_thread_counts has lowered the count.
TakeIdle(w) ==
    /\ worker[w] = "ready"
    /\ queue[1] # <<>> /\ Head(queue[1]) = Idle
    /\ queue' = [queue EXCEPT ![1] = Tail(@)]
    /\ IF rested[w] /\ count > MinThreads
         THEN count' = count - 1 /\ worker' = [worker EXCEPT ![w] = "none"]
         ELSE UNCHANGED <<count, worker>>
    /\ UNCHANGED <<job, rested, spawnVars, owed, jobVars>>

\* TARGET_IDLE_TIME passes over a worker.
Rest(w) ==
    /\ worker[w] = "ready" /\ ~rested[w]
    /\ rested' = [rested EXCEPT ![w] = TRUE]
    /\ UNCHANGED <<count, worker, job, queue, spawnVars, owed, jobVars>>

-----------------------------------------------------------------------------
\* user_waiting_timer_callback reads the count once, then sends half of it.

Idles == SelectSeq(queue[1], LAMBDA m : m = Idle)

\* A callback that asks half of the threads beyond the minimum, rounded down.
TimerFires_HalfOfSpare ==
    /\ owed = 0 /\ Len(Idles) < MaxIdle
    /\ count > MinThreads
    /\ owed' = (count - MinThreads) \div 2
    /\ UNCHANGED <<threadVars, queue, spawnVars, jobVars>>

TimerFires ==
    /\ owed = 0 /\ Len(Idles) < MaxIdle
    /\ count > MinThreads
    /\ owed' = count \div 2
    /\ UNCHANGED <<threadVars, queue, spawnVars, jobVars>>

TimerSends ==
    /\ owed > 0
    /\ owed' = owed - 1
    /\ Enqueue(1, Idle)
    /\ UNCHANGED <<threadVars, spawnVars, jobVars>>

-----------------------------------------------------------------------------
SpawnerStep(s) == \/ \E w \in Workers : Launch(s, w)
                  \/ \E j \in Jobs : SendJob(s, j)
WorkerStep(w)  == \/ \E l \in 0..1 : TakeJob(w, l)
                  \/ Begin(w) \/ Retry(w) \/ Return(w) \/ TakeIdle(w)
Timer          == TimerFires \/ TimerSends

Next ==
    \/ \E s \in Spawners, js \in SUBSET unspawned : js # {} /\ Spawn(s, js)
    \/ \E s \in Spawners : SpawnerStep(s)
    \/ \E w \in Workers : WorkerStep(w) \/ Rest(w)
    \/ \E j \in Futures : Wake(j)
    \/ Timer

\* Threads run, time passes and the timer fires again and again; a job that
\* is started returns.  Nobody is obliged to spawn or to wake.
Fairness ==
    /\ \A s \in Spawners : WF_vars(SpawnerStep(s))
    /\ \A w \in Workers : WF_vars(WorkerStep(w)) /\ WF_vars(Rest(w))
    /\ WF_vars(Timer)

Spec == Init /\ [][Next]_vars /\ Fairness

-----------------------------------------------------------------------------
TypeOK ==
    /\ count \in Nat
    /\ worker \in [Workers -> {"none", "promised", "ready", "taken", "running"}]
    /\ job \in [Workers -> Jobs \cup {Idle}]
    /\ rested \in [Workers -> BOOLEAN]
    /\ queue \in [0..1 -> Seq(Jobs \cup {Idle})]
    /\ toLaunch \in [Spawners -> SUBSET Workers]
    /\ toSend \in [Spawners -> SUBSET Jobs]
    /\ owed \in Nat
    /\ unspawned \subseteq Jobs /\ wanted \subseteq Jobs /\ done \subseteq Jobs
    /\ polled \subseteq Futures /\ wakes \in [Futures -> 0..MaxWakes]

\* The count every decision is taken from is the number of threads that exist
\* or have been promised, however launches, spawns and exits interleave, and
\* never more than there are cores.
CountExact ==
    /\ count = Cardinality({w \in Workers : worker[w] # "none"})
    /\ count <= Cpus

\* The pool's state is well formed, its count of threads included: what the
\* launch, exit and timer decisions of bin.rs are taken from.
PoolInv == TypeOK /\ CountExact

Announced(j) == \E s \in Spawners : j \in toSend[s]
Queued(j)    == \E l \in 0..1 : \E i \in DOMAIN queue[l] : queue[l][i] = j
Taken(j)     == \E w \in Workers : worker[w] = "taken" /\ job[w] = j
Held(j)      == \E w \in Workers : worker[w] \in {"taken", "running"} /\ job[w] = j

\* The jobs that were spawned and have not returned.
Outstanding == Jobs \ (unspawned \cup done)

\* A closure is in one place from its announcement to its return, with one
\* spawner, once in the channel or with one worker, and nowhere before and after.
OnePlace(j) ==
    /\ j \in Outstanding <=> Announced(j) \/ Queued(j) \/ Held(j)
    /\ ~(Announced(j) /\ Queued(j)) /\ ~(Announced(j) /\ Held(j)) /\ ~(Queued(j) /\ Held(j))
    /\ \A s, r \in Spawners : j \in toSend[s] /\ j \in toSend[r] => s = r
    /\ \A l, k \in 0..1 : \A i \in DOMAIN queue[l], m \in DOMAIN queue[k] :
          queue[l][i] = j /\ queue[k][m] = j => l = k /\ i = m
    /\ \A v, w \in Workers : {worker[v], worker[w]} \subseteq {"taken", "running"}
                             /\ job[v] = j /\ job[w] = j => v = w

\* No call for a job is lost: what was spawned or woken and has not begun since
\* is announced, in the channel, or taken by a worker that has yet to begin it,
\* whatever workers fail on its lock, exit, or take its other messages.  And a
\* closure, which nothing can wake, is called once.
WorkCarried ==
    /\ \A j \in wanted : Announced(j) \/ Queued(j) \/ Taken(j)
    /\ \A j \in Jobs \ Futures : OnePlace(j)

\* From the first spawn on there is a thread, or one on its way: an exit never
\* overtakes the spawn that counted on the thread, and a future that is parked
\* will find one when it is woken, since a wake launches none.
WorkHasWorker ==
    unspawned # Jobs =>
        \E w \in Workers : \/ worker[w] \in Threads
                           \/ \E s \in Spawners : w \in toLaunch[s]

\* A job that is spawned begins to run, and a future that is woken, at whatever
\* moment, begins another poll.
EveryJobRuns == \A j \in Jobs : (j \in wanted) ~> (j \notin wanted)

\* A pool left with no job to run goes back to at most one thread (the spin-down
\* that bin.rs:446-458 waits for), parked futures or not.
SpinsDown ==
    []<>(\/ \E j \in Jobs : Announced(j) \/ Queued(j) \/ Held(j)
         \/ Cardinality(Alive) <= MinThreads)
=============================================================================
